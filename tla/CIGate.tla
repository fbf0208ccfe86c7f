-------------------------------- MODULE CIGate --------------------------------
(***************************************************************************)
(* The pipeline of .github/workflows/scan.yml around heimdall gate, over   *)
(* days: pushes to main and to a pull request, runs that scan first and    *)
(* gate later, the baseline a pull request takes from the latest           *)
(* successful run on main, and a register whose entries expire.            *)
(***************************************************************************)
EXTENDS RiskGate

CONSTANTS
  Expiries,    \* the dates an entry may carry
  MaxDay,      \* bound: the last day
  MaxPushes    \* bound: pushes in all

ASSUME CIAssumption ==
  /\ Expiries \subseteq Nat
  /\ MaxDay \in Nat \ {0} /\ MaxPushes \in Nat

VARIABLES
  day,       \* date.today()
  tip,       \* what each ref holds: the findings its target has, and its register
  run,       \* the run of each ref: idle, queued or scanned; its report; its verdict
  baseline,  \* the report of the latest successful run on main; {} before there is one
  cleared,   \* history: fingerprints with an active entry when main was gated
  pushes

vars == <<day, tip, run, baseline, cleared, pushes>>

Refs == {"main", "pr"}
Tip == [bugs : SUBSET Fingerprints, register : Register]
Run == [stage : {"idle", "queued", "scanned"}, report : SUBSET Fingerprints,
        verdict : {"none", "green", "red"}, gated : Nat, prior : SUBSET Fingerprints]

TypeOK ==
  /\ day \in Nat \ {0} /\ pushes \in Nat
  /\ tip \in [Refs -> Tip]
  /\ run \in [Refs -> Run]
  /\ baseline \subseteq Fingerprints
  /\ cleared \subseteq Fingerprints

NoRun == [stage |-> "idle", report |-> {}, verdict |-> "none", gated |-> 0, prior |-> {}]

Init ==
  /\ day = 1 /\ pushes = 0
  /\ tip = [r \in Refs |-> [bugs |-> {}, register |-> [f \in Fingerprints |-> NoEntry]]]
  /\ run = [r \in Refs |-> NoRun]
  /\ baseline = {}
  /\ cleared = {}

\* a push to a ref cancels its run in progress (cancel-in-progress) and queues
\* one: the code changes, and the register by one entry
Push(r) ==
  /\ pushes < MaxPushes /\ pushes' = pushes + 1
  /\ \E bugs \in SUBSET Fingerprints, f \in Fingerprints, e \in Expiries \cup {NoEntry} :
       tip' = [tip EXCEPT ![r] =
                 [bugs |-> bugs, register |-> [tip[r].register EXCEPT ![f] = e]]]
  /\ run' = [run EXCEPT ![r] = [NoRun EXCEPT !.stage = "queued"]]
  /\ UNCHANGED <<day, baseline, cleared>>

\* the pull request is merged when its checks are green, or rebased on main
Merge(from, to) ==
  /\ pushes < MaxPushes /\ pushes' = pushes + 1
  /\ from # to /\ tip[from] # tip[to]
  /\ from = "pr" => run[from].verdict = "green"
  /\ tip' = [tip EXCEPT ![to] = tip[from]]
  /\ run' = [run EXCEPT ![to] = [NoRun EXCEPT !.stage = "queued"]]
  /\ UNCHANGED <<day, baseline, cleared>>

\* heimdall scan: a check that was blocked or errored reports nothing, and the
\* step succeeds all the same
Scan(r) ==
  /\ run[r].stage = "queued"
  /\ \E report \in SUBSET tip[r].bugs :
       run' = [run EXCEPT ![r].stage = "scanned", ![r].report = report]
  /\ UNCHANGED <<day, tip, baseline, cleared, pushes>>

\* the baseline of a pull request; the download may fail (continue-on-error)
Priors(r) == IF r = "main" THEN {{}} ELSE {{}, baseline}

\* mutants: the baseline is of the latest run, successful or not; main is gated
\* without the register
Gate_AnyStatus(r) ==
  /\ run[r].stage = "scanned"
  /\ \E prior \in Priors(r) :
       LET fails == fail_on(apply_filters(run[r].report, tip[r].register, day, prior))
       IN  run' = [run EXCEPT ![r] = [@ EXCEPT !.stage = "idle", !.gated = day, !.prior = prior,
                                        !.verdict = IF fails THEN "red" ELSE "green"]]
  /\ baseline' = IF r = "main" THEN run[r].report ELSE baseline
  /\ cleared' = IF r = "main" THEN cleared \cup Accepted(tip[r].register, day) ELSE cleared
  /\ UNCHANGED <<day, tip, pushes>>
Gate_MainUnfiltered(r) ==
  /\ run[r].stage = "scanned"
  /\ LET left == IF r = "main" THEN run[r].report
                 ELSE kept(run[r].report, tip[r].register, day)
     IN  run' = [run EXCEPT ![r] = [@ EXCEPT !.stage = "idle", !.gated = day,
                                      !.verdict = IF fail_on(left) THEN "red" ELSE "green"]]
  /\ UNCHANGED <<day, tip, baseline, cleared, pushes>>
\* heimdall gate --accepted-risk [--baseline] --fail-on.  The rest of the run
\* (eval, the other job) may fail for reasons of its own; a green run on main
\* becomes the baseline, with its report unfiltered.
Gate(r) ==
  /\ run[r].stage = "scanned"
  /\ \E prior \in Priors(r), others \in BOOLEAN :
       LET fails == fail_on(apply_filters(run[r].report, tip[r].register, day, prior))
       IN  /\ run' = [run EXCEPT ![r] = [@ EXCEPT !.stage = "idle", !.gated = day, !.prior = prior,
                                           !.verdict = IF fails THEN "red" ELSE "green"]]
           /\ baseline' = IF r = "main" /\ ~fails /\ others THEN run[r].report ELSE baseline
  /\ cleared' = IF r = "main" THEN cleared \cup Accepted(tip[r].register, day) ELSE cleared
  /\ UNCHANGED <<day, tip, pushes>>

\* a run that finished may be started again on the same commit (workflow_dispatch)
Rerun(r) ==
  /\ run[r].stage = "idle" /\ run[r].verdict # "none" /\ run[r].gated < day
  /\ run' = [run EXCEPT ![r] = [NoRun EXCEPT !.stage = "queued"]]
  /\ UNCHANGED <<day, tip, baseline, cleared, pushes>>

NextDay ==
  /\ day < MaxDay /\ day' = day + 1
  /\ UNCHANGED <<tip, run, baseline, cleared, pushes>>

Next ==
  \/ \E r \in Refs : Push(r) \/ Scan(r) \/ Gate(r) \/ Rerun(r)
  \/ \E from, to \in Refs : Merge(from, to)
  \/ NextDay

Spec == Init /\ [][Next]_vars

------------------------------------------------------------------------------
Green(r) == run[r].verdict = "green"
SameDaySameTip == tip["pr"] = tip["main"] /\ run["pr"].gated = run["main"].gated

\* A baseline can hide a grave finding from the gate only when it was accepted,
\* and not expired, on a day main was gated: a finding nobody ever accepted
\* cannot get into a baseline (gate on main, then diff_baseline on the PR).
BaselineWasCleared ==
  baseline \cap Grave \subseteq cleared

\* A green pull request reports no grave finding that nobody ever accepted,
\* however its run and the pushes to main are interleaved.
NoNewGrave ==
  Green("pr") =>
    run["pr"].report \cap Grave \subseteq
      cleared \cup Accepted(tip["pr"].register, run["pr"].gated)

\* A pull request that equals main, gated on the day main was and with no more
\* findings, is not redder than main.
NoFalseAlarm ==
  Green("main") /\ SameDaySameTip /\ run["pr"].report \subseteq run["main"].report =>
    run["pr"].verdict # "red"

\* A pull request that was green without a baseline does not turn main red on
\* the day it is merged, when the scan of main reports no more than it did.
GreenCarriesOver ==
  Green("pr") /\ run["pr"].prior = {} /\ SameDaySameTip
    /\ run["main"].report \subseteq run["pr"].report => run["main"].verdict # "red"

------------------------------------------------------------------------------
\* The parts of the inductive invariant.

\* a verdict is the gate's on the report, the register of the tip, the day of
\* the run and its baseline, and main has none
Decided ==
  \A r \in Refs : run[r].verdict # "none" =>
    /\ run[r].verdict =
         IF fail_on(apply_filters(run[r].report, tip[r].register, run[r].gated, run[r].prior))
         THEN "red" ELSE "green"
    /\ r = "main" => run[r].prior = {}

\* What a step keeps: a run that has not been gated has no verdict, a verdict is
\* still the one of what its ref holds, and the two properties that need the
\* history of main (the Gate steps of scan.yml, and cancel-in-progress).
IInv ==
  /\ TypeOK
  /\ \A r \in Refs : run[r].stage # "idle" => run[r].verdict = "none"
  /\ Decided
  /\ BaselineWasCleared
  /\ NoNewGrave
==============================================================================
