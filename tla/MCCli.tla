------------------------------- MODULE MCCli -------------------------------
(* Two targets and one source tree, two files, twelve command lines.         *)
EXTENDS Cli

MCFingerprints ==
  {<<"bola", "GET", "/n">>, <<"exposure", "GET", "/n">>}
  \cup (Rules \X Verbs \X RoutePaths) \cup (Rules \X {"UNKNOWN"} \X {""})
MCrank == [f \in MCFingerprints |-> IF f[1] = "exposure" THEN 1 ELSE 3]
MCExposed == [t \in {"app", "safe"} |->
  IF t = "app" THEN {<<"bola", "GET", "/n">>, <<"exposure", "GET", "/n">>} ELSE {}]

At(file, first, last) == [file |-> file, first |-> first, last |-> last]
Handler(verb, path, at, types) ==
  [method |-> verb, path |-> path, at |-> at, param_types |-> types]
(* A handler in a handler, a model two handlers take, one nobody takes, a    *)
(* model inside a handler, and a file that does not parse.                   *)
MCTree ==
  [routes |-> <<Handler("POST", "/s", At("a", 1, 4), {"In"}),
                Handler("GET", "/in", At("a", 2, 3), {"Out"}),
                Handler("GET", "/in", At("a", 6, 7), {"In"}),
                Handler("GET", "/in", At("b", 1, 9), {})>>,
   models |-> <<[name |-> "In", at |-> At("a", 8, 8)], [name |-> "Other", at |-> At("a", 9, 9)],
                [name |-> "Other", at |-> At("a", 7, 7)]>>,
   hits |-> {[rule |-> "sql", file |-> "a", line |-> 2], [rule |-> "sql", file |-> "b", line |-> 2],
             [rule |-> "jwt", file |-> "a", line |-> 7], [rule |-> "field", file |-> "a", line |-> 8],
             [rule |-> "field", file |-> "a", line |-> 9]},
   readable |-> {"a"}]
MCTreeOf == [s \in {"src"} |-> MCTree]
MCSuiteTarget == [s \in {"suite", "typo"} |-> IF s = "suite" THEN "app" ELSE ""]

Line(cmd, suite, name, report, baseline, fmt, out) ==
  [cmd |-> cmd, suite |-> suite, target |-> name, report |-> report, baseline |-> baseline,
   accepted |-> cmd \in {"scan", "gate"} /\ fmt # "md", fail |-> cmd # "correlate",
   fmt |-> fmt, out |-> out]
MCCommands ==
  {Line("scan", "", "app", NoFile, NoFile, "json", "r"),
   Line("scan", "", "app", NoFile, "r", "json", "r"),
   Line("scan", "suite", "", NoFile, NoFile, "md", "r"),
   Line("scan", "suite", "safe", NoFile, NoFile, "json", NoFile),
   Line("scan", "suite", "safe", NoFile, NoFile, "json", "q"),
   Line("scan", "suite", "", NoFile, "q", "sarif", "r"),
   Line("scan", "typo", "", NoFile, NoFile, "json", "r"),
   Line("sast", "", "src", NoFile, NoFile, "json", "q"),
   Line("gate", "", "", "r", NoFile, "json", "q"),
   Line("gate", "", "", "r", "q", "md", "r"),
   Line("gate", "", "", "q", NoFile, "json", NoFile),
   Line("correlate", "", "", "r", "q", "json", "q")}

Register1(f, day0) ==
  [g \in MCFingerprints |-> IF g = f THEN day0 ELSE NoEntry]
MCRegisters ==
  {Register1(<<"bola", "GET", "/n">>, 0), Register1(<<"sql", "UNKNOWN", "">>, 1), Broken, NoFile}
==============================================================================
