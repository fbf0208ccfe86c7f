---------------------------- MODULE MCScanEngine ----------------------------
(* Small scans that reach every path through the engine. *)
EXTENDS ScanEngine

CONSTANTS lab, away, web,     \* hosts: the target, another private one, a public one
          user_a, user_b,     \* identities
          p1, p2, p3, p4,     \* path templates; p4 is where objects are created
          weak, strong        \* HMAC secrets

Lab == [schemed |-> TRUE, host |-> lab]
Away == [schemed |-> TRUE, host |-> away]

Get(path, keyed, params) ==
  [path |-> path, method |-> "GET", keyed |-> keyed, params |-> params, offsite |-> FALSE,
   sound |-> TRUE]
Post(path) == [Get(path, FALSE, TRUE) EXCEPT !.method = "POST"]

Hmac(key) == [header |-> "hmac", payload |-> "dict", decodable |-> TRUE,
              claims |-> "valid", key |-> key]

OneHint(path, method) ==
  [path |-> path, method |-> method, offsite |-> FALSE, as |-> user_b, create |-> TRUE,
   create_path |-> p4, create_method |-> "POST", create_offsite |-> FALSE,
   owner |-> user_a, sound |-> TRUE]

LoginAs(name, token) == [name |-> name, kind |-> "login", register |-> FALSE, token |-> token]
Static(name, kind, token) == [name |-> name, kind |-> kind, register |-> FALSE, token |-> token]

NoHints == [k \in HintKeys |-> <<>>]
NoSpec == [given |-> FALSE, remote |-> FALSE, host |-> lab, paths |-> <<>>]
Served(host, paths) == [given |-> TRUE, remote |-> TRUE, host |-> host, paths |-> paths]
File(paths) == [given |-> TRUE, remote |-> FALSE, host |-> lab, paths |-> paths]

Plain == [target |-> Lab, scope_hosts |-> {}, allow_public |-> FALSE, unsafe |-> FALSE,
          check_ids |-> <<>>, openapi |-> NoSpec, exclude |-> {}, auth |-> <<>>,
          hints |-> NoHints]

Crawling == [Plain EXCEPT !.check_ids = <<"exposure", "ssrf", "sqli">>, !.exclude = {p3},
  !.openapi = Served(lab, <<Get(p1, FALSE, TRUE), Post(p1), Get(p3, FALSE, TRUE), Get(p2, TRUE, TRUE)>>)]

\* two hints with one fingerprint, and a check that runs twice
Tenants == [Plain EXCEPT !.check_ids = <<"bola", "jwt">>,
  !.auth = <<[LoginAs(user_a, Hmac(weak)) EXCEPT !.register = TRUE], LoginAs(user_b, Hmac(strong))>>,
  !.hints = [NoHints EXCEPT !["bola"] = <<OneHint(p1, "GET"), [OneHint(p1, "GET") EXCEPT !.create = FALSE]>>,
                            !["jwt"] = <<[OneHint(p2, "GET") EXCEPT !.as = user_a]>>]]

Writers == [Plain EXCEPT !.check_ids = <<"mass_assignment", "ssrf", "ssrf">>,
  !.auth = <<Static(user_a, "header", NoToken), Static(user_b, "none", NoToken)>>,
  !.hints = [NoHints EXCEPT !["mass_assignment"] = <<OneHint(p1, "GET"), OneHint(p2, "GET")>>,
                            !["ssrf"] = <<OneHint(p1, "POST")>>]]

\* escalations that are confirmed, and created, on another host: in scope or not
Strays(hosts) == [Plain EXCEPT !.scope_hosts = hosts, !.check_ids = <<"mass_assignment", "bola">>,
  !.hints = [NoHints EXCEPT !["mass_assignment"] = <<[OneHint(p1, "GET") EXCEPT !.offsite = TRUE]>>,
                            !["bola"] = <<[OneHint(p2, "GET") EXCEPT !.create_offsite = TRUE]>>]]

\* a destructive method, an unsound hint and an offsite path, each behind a hit;
\* scanned with and without --unsafe
Broken(unsafe) == [Plain EXCEPT !.unsafe = unsafe,
  !.check_ids = IF unsafe THEN <<"ssrf", "bola", "mass_assignment">> ELSE <<"ssrf", "bola">>,
  !.openapi = File(<<>>),
  !.hints = [NoHints EXCEPT !["ssrf"] = <<OneHint(p1, "POST"), OneHint(p2, "PATCH")>>,
    !["bola"] = <<OneHint(p1, "GET"), [OneHint(p2, "GET") EXCEPT !.sound = FALSE]>>,
    !["mass_assignment"] = <<[OneHint(p1, "GET") EXCEPT !.create_offsite = TRUE]>>]]

\* tokens that cannot be forged, or are not what the checks expect of a token
Tokens == {[Hmac(weak) EXCEPT !.payload = "unreadable", !.claims = "expired"],
           [Hmac(weak) EXCEPT !.payload = "not_a_dict", !.claims = "immature"],
           [Hmac(strong) EXCEPT !.header = "not_a_dict"],
           [Hmac(strong) EXCEPT !.header = "unreadable"],
           [Hmac(strong) EXCEPT !.header = "other_alg"],
           [Hmac(strong) EXCEPT !.decodable = FALSE],
           NoToken}
Odd(token) == [Plain EXCEPT !.check_ids = <<"jwt", "jwt">>,
  !.auth = <<Static(user_b, "bearer", token), Static(user_a, "bearer", Hmac(weak))>>,
  !.hints = [NoHints EXCEPT !["jwt"] = <<OneHint(p2, "GET")>>]]

Public == [schemed |-> TRUE, host |-> web]
Refusals == {[Crawling EXCEPT !.target = Public],
             [Crawling EXCEPT !.scope_hosts = {Public}, !.openapi = File(<<Get(p1, FALSE, FALSE)>>)],
             [Crawling EXCEPT !.target = Public, !.allow_public = TRUE, !.openapi = NoSpec],
             [Crawling EXCEPT !.target = Public, !.allow_public = TRUE, !.scope_hosts = {Lab},
                !.check_ids = <<"sqli", "exposure">>,
                !.openapi = File(<<Get(p1, FALSE, TRUE), [Get(p2, FALSE, FALSE) EXCEPT !.offsite = TRUE]>>)],
             [Crawling EXCEPT !.openapi = File(<<Get(p1, FALSE, TRUE), [Get(p2, FALSE, TRUE) EXCEPT !.sound = FALSE]>>)],
             [Tenants EXCEPT !.check_ids = <<"bola", "xss">>],
             [Tenants EXCEPT !.target = [schemed |-> FALSE, host |-> lab]]}

\* the document comes from a host that is not in scope
Foreign == [Plain EXCEPT !.check_ids = <<"exposure">>, !.openapi = Served(away, <<Get(p1, FALSE, FALSE)>>)]

MCJobs == {Crawling, Foreign, Tenants, Writers, Strays({}), Strays({Away}), Broken(TRUE), Broken(FALSE)} \cup Refusals
          \cup {Odd(token) : token \in Tokens}
MCHosts == {lab, away, web}
MCPrivate == {lab, away}
MCPaths == {p1, p2, p3, p4, LoginPath}
MCNames == {user_a, user_b, Anon}
MCKeys == {weak, strong}
MCWordlist == {weak}
==============================================================================
