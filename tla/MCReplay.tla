------------------------------- MODULE MCReplay -------------------------------
(* Scans that find something of every check, and command lines that allow less, *)
(* as much and more than the scan was allowed.                                  *)
EXTENDS MCScanEngine, Replay

\* found with --unsafe and by a method a replay blocks
Patching == [Plain EXCEPT !.unsafe = TRUE, !.check_ids = <<"ssrf">>,
  !.hints = [NoHints EXCEPT !["ssrf"] = <<OneHint(p1, "PATCH"), OneHint(p2, "POST")>>]]

\* a secret guessed of a configured token: nothing was ever sent to the target
Unsent == [Odd(Hmac(weak)) EXCEPT !.target.schemed = FALSE, !.check_ids = <<"jwt">>,
  !.hints["jwt"][1].create = FALSE]

Abroad == [Plain EXCEPT !.target = Public, !.allow_public = TRUE,
  !.check_ids = <<"exposure">>, !.openapi = File(<<Get(p1, FALSE, FALSE)>>)]

\* as user_b in one hint and without credentials in the other
Readers == [Tenants EXCEPT !.check_ids = <<"bola">>, !.auth = <<Static(user_b, "bearer", Hmac(weak))>>,
  !.hints["bola"] = <<OneHint(p1, "GET"), [OneHint(p2, "GET") EXCEPT !.as = Anon]>>]

MCReplayJobs == {Crawling, Tenants, Writers, Strays({Away}), Readers, Patching, Unsent, Abroad}
MCFlags == {[unsafe |-> u, allow_public |-> FALSE, scope_hosts |-> {}] : u \in BOOLEAN}
           \cup {[unsafe |-> FALSE, allow_public |-> TRUE, scope_hosts |-> {away}]}
==============================================================================
