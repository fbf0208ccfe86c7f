----------------------------- MODULE MCBenchmark -----------------------------
(* benchmarks/suites/vulnapp.yaml, and small suites for what it does not use. *)
EXTENDS Benchmark

CONSTANTS lab, user_a, user_b, guest, changeme, strong

Lab == [schemed |-> TRUE, host |-> lab]
Op(method, path, keyed, params) ==
  [path |-> path, method |-> method, keyed |-> keyed, params |-> params, offsite |-> FALSE,
   sound |-> TRUE]
Document == <<Op("GET", "/api/debug/users", FALSE, FALSE), Op("POST", "/api/register", FALSE, FALSE),
  Op("GET", "/api/products/search", FALSE, TRUE), Op("GET", "/api/products/{product_id}", TRUE, TRUE)>>

Weak == [header |-> "hmac", payload |-> "dict", decodable |-> TRUE, claims |-> "valid", key |-> changeme]
Registered(name) == [name |-> name, kind |-> "login", register |-> TRUE, token |-> Weak]

AHint(path, method, as, create) ==
  [path |-> path, method |-> method, offsite |-> FALSE, as |-> as, create |-> create,
   create_path |-> "/api/notes", create_method |-> "POST", create_offsite |-> FALSE,
   owner |-> user_a, sound |-> TRUE]

NoHints == [k \in HintKeys |-> <<>>]
Served_(remote, paths) == [given |-> TRUE, remote |-> remote, host |-> lab, paths |-> paths]
Plain == [target |-> Lab, scope_hosts |-> {}, allow_public |-> FALSE, unsafe |-> FALSE,
          check_ids |-> <<"sqli", "exposure", "mass_assignment", "bola", "jwt", "ssrf">>,
          openapi |-> Served_(TRUE, Document), exclude |-> {},
          auth |-> <<Registered(user_a), Registered(user_b)>>,
          hints |-> [bola |-> <<AHint("/api/notes/{note_id}", "GET", user_b, TRUE)>>,
                     mass_assignment |-> <<[AHint("/api/debug/users", "GET", Anon, TRUE) EXCEPT
                                          !.create_path = "/api/register", !.owner = Anon]>>,
                     jwt |-> <<AHint("/api/me", "GET", user_a, TRUE)>>,
                     ssrf |-> <<AHint("/api/url-preview", "POST", Anon, FALSE),
                                AHint("/api/url-preview-safe", "POST", Anon, FALSE)>>]]

Planted(cid, method, path) ==
  [check |-> cid, method |-> method, path |-> path, must_detect |-> TRUE]
Bugs == {Planted("sqli", "GET", "/api/products/search"), Planted("exposure", "GET", "/api/debug/users"),
         Planted("mass_assignment", "POST", "/api/register"), Planted("bola", "GET", "/api/notes/{note_id}"),
         Planted("jwt", "POST", LoginPath), Planted("jwt", "GET", "/api/me"),
         Planted("ssrf", "POST", "/api/url-preview")}

Demo == [job |-> Plain, scored |-> TRUE, safe_target |-> TRUE, safe_checks |-> <<>>, expected |-> Bugs]

\* the document is a file beside the suite, and one row is not required
FromFile == [Demo EXCEPT
  !.job.check_ids = <<"exposure">>, !.job.auth = <<>>, !.job.hints = NoHints,
  !.job.openapi = Served_(FALSE, <<Document[1]>>),
  !.expected = {[r EXCEPT !.must_detect = FALSE] : r \in {q \in Bugs : q.check = "exposure"}}]
NoSafe == [FromFile EXCEPT !.safe_target = FALSE, !.expected = {q \in Bugs : q.check = "exposure"}]
FewerChecks == [FromFile EXCEPT !.job.check_ids = <<"exposure", "ssrf">>,
  !.job.hints = [NoHints EXCEPT !["ssrf"] = Plain.hints["ssrf"]], !.safe_checks = <<"ssrf">>,
  !.expected = {q \in Bugs : q.check = "ssrf"} \cup @]
MCSuites == {Demo, FromFile, NoSafe, FewerChecks, [NoSafe EXCEPT !.scored = FALSE]}

MCJobs == {s.job : s \in MCSuites} \cup {SafeJob(s) : s \in MCSuites}
MCPaths == {LoginPath} \cup {Document[k].path : k \in 1..Len(Document)}
           \cup {"/api/me", "/api/notes", "/api/notes/{note_id}", "/api/url-preview", "/api/url-preview-safe"}
MCNames == {user_a, user_b, Anon}
MCAccounts == {user_a, user_b, guest, Fresh}
MCHosts == {lab}
MCKeys == {changeme, strong}
MCWordlist == {changeme}
MCBreaking == {1}
==============================================================================
