---------------------------- MODULE CIGate_proofs ----------------------------
(***************************************************************************)
(* CIGate: for every set of findings, threshold, register and number of    *)
(* days and pushes, nothing grave that was never accepted passes the gate. *)
(***************************************************************************)
EXTENDS CIGate, TLAPS

\* What is left of a report that does not fail is below the threshold or was
\* filtered (fail_on and apply_filters).
LEMMA PassedReport ==
  ASSUME NEW report \in SUBSET Fingerprints, NEW register, NEW today, NEW prior,
         ~fail_on(apply_filters(report, register, today, prior))
  PROVE  report \cap Grave \subseteq Accepted(register, today) \cup prior
  BY DEF fail_on, apply_filters, kept, Grave

\* A fresh run is a run (NoRun is what a push leaves behind).
LEMMA FreshRun ==
  NoRun \in Run /\ [NoRun EXCEPT !.stage = "queued"] \in Run
  BY DEF NoRun, Run

\* The pipeline begins with the invariant.
LEMMA InitIInv == Init => IInv
  <1> SUFFICES ASSUME Init PROVE IInv
    OBVIOUS
  <1>1. TypeOK
    BY RiskAssumption, FreshRun DEF Init, TypeOK, Refs, Tip, Register
  <1>2. \A r \in Refs : run[r].stage # "idle" => run[r].verdict = "none"
    BY DEF Init, NoRun
  <1>d. Decided
    BY DEF Init, NoRun, Decided
  <1>3. BaselineWasCleared /\ NoNewGrave
    BY DEF Init, BaselineWasCleared, NoNewGrave, Green, NoRun, Refs
  <1>4. QED
    BY <1>1, <1>2, <1>d, <1>3 DEF IInv

\* Whatever puts a ref at a new tip, or starts it again, and queues a run keeps
\* the invariant: the ref has no verdict any more (cancel-in-progress).
LEMMA QueuedIInv ==
  ASSUME IInv, NEW r \in Refs, NEW t \in Tip,
         tip' = [tip EXCEPT ![r] = t],
         run' = [run EXCEPT ![r] = [NoRun EXCEPT !.stage = "queued"]],
         pushes' \in Nat, UNCHANGED <<day, baseline, cleared>>
  PROVE  IInv'
  <1>1. run \in [Refs -> Run] /\ tip \in [Refs -> Tip]
    BY DEF IInv, TypeOK
  <1>2. TypeOK'
    BY <1>1, FreshRun DEF IInv, TypeOK
  <1>3. \A s \in Refs : run'[s] = (IF s = r THEN [NoRun EXCEPT !.stage = "queued"] ELSE run[s])
                        /\ tip'[s] = (IF s = r THEN t ELSE tip[s])
    BY <1>1
  <1>4. [NoRun EXCEPT !.stage = "queued"].verdict = "none"
    BY DEF NoRun
  <1>5. (\A s \in Refs : run[s].stage # "idle" => run[s].verdict = "none")'
    BY <1>3, <1>4 DEF IInv
  <1>d. Decided'
    <2>1. \A s \in Refs : run'[s].verdict # "none" => run'[s] = run[s] /\ tip'[s] = tip[s]
      BY <1>3, <1>4
    <2>2. Decided
      BY DEF IInv
    <2>3. QED
      BY <2>1, <2>2, Zenon DEF Decided
  <1>6. BaselineWasCleared'
    BY DEF IInv, BaselineWasCleared
  <1>7. NoNewGrave'
    BY <1>3, <1>4, "pr" \in Refs DEF IInv, NoNewGrave, Green, Accepted, Refs
  <1>8. QED
    BY <1>2, <1>5, <1>d, <1>6, <1>7 DEF IInv

\* A gated run keeps the invariant: a green report has only accepted findings
\* and those of a baseline that main cleared (the Gate step).
LEMMA GateIInv ==
  ASSUME IInv, NEW r \in Refs, Gate(r)
  PROVE  IInv'
  <1> DEFINE acc == Accepted(tip[r].register, day)
  <1>1. PICK prior \in Priors(r), others \in BOOLEAN :
          LET fails == fail_on(apply_filters(run[r].report, tip[r].register, day, prior))
          IN  /\ run' = [run EXCEPT ![r] = [@ EXCEPT !.stage = "idle", !.gated = day, !.prior = prior,
                                           !.verdict = IF fails THEN "red" ELSE "green"]]
              /\ baseline' = IF r = "main" /\ ~fails /\ others THEN run[r].report ELSE baseline
    BY DEF Gate
  <1> DEFINE fails == fail_on(apply_filters(run[r].report, tip[r].register, day, prior))
             new == [run[r] EXCEPT !.stage = "idle", !.gated = day, !.prior = prior,
                                   !.verdict = IF fails THEN "red" ELSE "green"]
  <1>2. /\ cleared' = (IF r = "main" THEN cleared \cup acc ELSE cleared)
        /\ UNCHANGED <<day, tip, pushes>>
    BY DEF Gate
  <1>3. run \in [Refs -> Run] /\ day \in Nat /\ baseline \subseteq Fingerprints
        /\ cleared \subseteq Fingerprints
    BY DEF IInv, TypeOK
  <1>4. run[r] \in Run /\ run[r].report \in SUBSET Fingerprints
    BY <1>3 DEF Run
  <1>5. prior \subseteq Fingerprints /\ (prior # {} => prior = baseline /\ r = "pr")
    BY <1>3 DEF Priors, Refs
  <1>6. new \in Run /\ new.stage = "idle" /\ new.report = run[r].report /\ new.gated = day
        /\ new.verdict = (IF fails THEN "red" ELSE "green") /\ new.prior = prior
    BY <1>3, <1>4, <1>5 DEF Run
  <1> HIDE DEF new
  <1>7. run' = [run EXCEPT ![r] = new] /\ \A s \in Refs : run'[s] = IF s = r THEN new ELSE run[s]
    BY <1>1, <1>3 DEF new
  <1>8. acc \subseteq Fingerprints
    BY DEF Accepted
  <1>9. ~fails => run[r].report \cap Grave \subseteq acc \cup prior
    BY <1>4, PassedReport
  <1> HIDE DEF fails, acc
  <1>10. baseline' = IF r = "main" /\ ~fails /\ others THEN run[r].report ELSE baseline
    BY <1>1 DEF fails
  <1>11. TypeOK'
    BY <1>2, <1>3, <1>4, <1>6, <1>7, <1>8, <1>10 DEF IInv, TypeOK
  <1>12. (\A s \in Refs : run[s].stage # "idle" => run[s].verdict = "none")'
    BY <1>6, <1>7 DEF IInv
  <1>d. Decided'
    <2>1. \A s \in Refs : s # r => run'[s] = run[s] /\ tip'[s] = tip[s]
      BY <1>2, <1>7
    <2>2. /\ new.verdict = IF fail_on(apply_filters(new.report, tip'[r].register, new.gated, new.prior))
                           THEN "red" ELSE "green"
          /\ r = "main" => new.prior = {}
      BY <1>2, <1>5, <1>6 DEF fails
    <2>3. run'[r] = new
      BY <1>7
    <2>4. QED
      BY <2>1, <2>2, <2>3, ZenonT(30) DEF IInv, Decided
  <1>13. BaselineWasCleared'
    <2>1. CASE r = "main" /\ ~fails /\ others
      BY <2>1, <1>2, <1>5, <1>9, <1>10 DEF BaselineWasCleared
    <2>2. CASE ~(r = "main" /\ ~fails /\ others)
      BY <2>2, <1>2, <1>10 DEF IInv, BaselineWasCleared
    <2>3. QED
      BY <2>1, <2>2
  <1>14. NoNewGrave'
    <2>1. CASE r = "pr"
      <3>1. prior \cap Grave \subseteq cleared
        BY <1>5 DEF IInv, BaselineWasCleared
      <3>2. new.verdict = "green" => new.report \cap Grave \subseteq cleared \cup acc
        BY <1>6, <1>9, <3>1
      <3>3. acc = Accepted(tip'["pr"].register, new.gated)
        BY <1>2, <1>6, <2>1 DEF acc
      <3>4. run'["pr"] = new /\ cleared \subseteq cleared'
        BY <1>2, <1>7, <2>1 DEF Refs
      <3>5. QED
        BY <3>2, <3>3, <3>4 DEF NoNewGrave, Green
    <2>2. CASE r = "main"
      <3>1. run'["pr"] = run["pr"] /\ cleared \subseteq cleared' /\ tip' = tip
        BY <1>2, <1>7, <2>2 DEF Refs
      <3>2. QED
        BY <3>1 DEF IInv, NoNewGrave, Green, Accepted
    <2>3. QED
      BY <2>1, <2>2 DEF Refs
  <1>15. QED
    BY <1>11, <1>12, <1>d, <1>13, <1>14 DEF IInv

\* Every step keeps the invariant: one case per action.
LEMMA NextIInv == IInv /\ [Next]_vars => IInv'
  <1> SUFFICES ASSUME IInv, [Next]_vars PROVE IInv'
    OBVIOUS
  <1>t. run \in [Refs -> Run] /\ tip \in [Refs -> Tip] /\ pushes \in Nat /\ day \in Nat \ {0}
    BY DEF IInv, TypeOK
  <1>1. ASSUME NEW r \in Refs, Push(r)
        PROVE  IInv'
    <2>1. PICK bugs \in SUBSET Fingerprints, f \in Fingerprints, e \in Expiries \cup {NoEntry} :
            tip' = [tip EXCEPT ![r] =
                      [bugs |-> bugs, register |-> [tip[r].register EXCEPT ![f] = e]]]
      BY <1>1 DEF Push
    <2> DEFINE t == [bugs |-> bugs, register |-> [tip[r].register EXCEPT ![f] = e]]
    <2>2. t \in Tip
      BY <1>t, CIAssumption DEF Tip, Register
    <2>3. tip' = [tip EXCEPT ![r] = t]
      BY <2>1
    <2>4. pushes' \in Nat
      BY <1>t, <1>1 DEF Push
    <2> HIDE DEF t
    <2>5. QED
      BY <1>1, <2>2, <2>3, <2>4, QueuedIInv DEF Push
  <1>2. ASSUME NEW from \in Refs, NEW to \in Refs, Merge(from, to)
        PROVE  IInv'
    <2>1. tip[from] \in Tip /\ pushes' \in Nat
      BY <1>t, <1>2 DEF Merge
    <2>2. QED
      BY <1>2, <2>1, QueuedIInv DEF Merge
  <1>3. ASSUME NEW r \in Refs, Scan(r)
        PROVE  IInv'
    <2>1. PICK report \in SUBSET tip[r].bugs :
            run' = [run EXCEPT ![r].stage = "scanned", ![r].report = report]
      BY <1>3 DEF Scan
    <2>2. tip[r] \in Tip /\ run[r] \in Run
      BY <1>t
    <2>3. report \subseteq Fingerprints /\ run[r].verdict = "none"
      BY <2>2, <1>3 DEF Tip, Scan, IInv
    <2> DEFINE new == [run[r] EXCEPT !.stage = "scanned", !.report = report]
    <2>4. new \in Run /\ new.verdict = "none"
      BY <2>2, <2>3 DEF Run
    <2>5. run' = [run EXCEPT ![r] = new] /\ \A s \in Refs : run'[s] = IF s = r THEN new ELSE run[s]
      BY <1>t, <2>1
    <2> HIDE DEF new
    <2>6. UNCHANGED <<day, tip, baseline, cleared, pushes>>
      BY <1>3 DEF Scan
    <2>7. TypeOK'
      BY <1>t, <2>4, <2>5, <2>6 DEF IInv, TypeOK
    <2>8. (\A s \in Refs : run[s].stage # "idle" => run[s].verdict = "none")'
      BY <2>4, <2>5 DEF IInv
    <2>d. Decided'
      BY <2>4, <2>5, <2>6, ZenonT(30) DEF IInv, Decided
    <2>9. (BaselineWasCleared /\ NoNewGrave)'
      BY <2>4, <2>5, <2>6, "pr" \in Refs DEF IInv, BaselineWasCleared, NoNewGrave, Green, Accepted, Refs
    <2>10. QED
      BY <2>7, <2>8, <2>d, <2>9 DEF IInv
  <1>4. ASSUME NEW r \in Refs, Gate(r)
        PROVE  IInv'
    BY <1>4, GateIInv
  <1>5. ASSUME NEW r \in Refs, Rerun(r)
        PROVE  IInv'
    <2>1. tip' = [tip EXCEPT ![r] = tip[r]] /\ tip[r] \in Tip
      BY <1>t, <1>5 DEF Rerun
    <2>2. QED
      BY <1>t, <1>5, <2>1, QueuedIInv DEF Rerun
  <1>6. CASE NextDay
    BY <1>t, <1>6 DEF NextDay, IInv, TypeOK, Decided, BaselineWasCleared, NoNewGrave, Green, Accepted
  <1>7. CASE UNCHANGED vars
    BY <1>7 DEF vars, IInv, TypeOK, Decided, BaselineWasCleared, NoNewGrave, Green, Accepted
  <1>8. QED
    BY <1>1, <1>2, <1>3, <1>4, <1>5, <1>6, <1>7 DEF Next

\* The invariant holds of every history of pushes, runs and days.
THEOREM Invariance == Spec => []IInv
  <1>1. QED
    BY InitIInv, NextIInv, PTL DEF Spec

\* Type correctness of the pipeline.
THEOREM TypeCorrect == Spec => []TypeOK
  <1>1. IInv => TypeOK
    BY DEF IInv
  <1>2. QED
    BY <1>1, Invariance, PTL

\* What a baseline can hide was once accepted on main (diff_baseline with the
\* artifact of a successful run).
THEOREM BaselineIsCleared == Spec => []BaselineWasCleared
  <1>1. IInv => BaselineWasCleared
    BY DEF IInv
  <1>2. QED
    BY <1>1, Invariance, PTL

\* A green pull request has no grave finding that was never accepted, for any
\* interleaving of its run with pushes to main.
THEOREM NothingNewPasses == Spec => []NoNewGrave
  <1>1. IInv => NoNewGrave
    BY DEF IInv
  <1>2. QED
    BY <1>1, Invariance, PTL
\* What is below the threshold after the filters is so in a smaller report, and
\* without a baseline it is so with every baseline (apply_filters, fail_on).
LEMMA FewerFail ==
  ASSUME NEW fewer, NEW report, fewer \subseteq report, NEW register, NEW today, NEW prior,
         fail_on(apply_filters(fewer, register, today, prior))
  PROVE  fail_on(apply_filters(report, register, today, {}))
  BY DEF fail_on, apply_filters, kept

\* A pull request that equals main, gated on the same day with no more findings,
\* is not redder than main, whatever baseline it got (the Gate steps).
THEOREM MainIsNoGreener == Spec => []NoFalseAlarm
  <1>1. IInv => NoFalseAlarm
    <2> SUFFICES ASSUME IInv, Green("main"), SameDaySameTip,
                        run["pr"].report \subseteq run["main"].report,
                        run["pr"].verdict = "red"
                 PROVE  FALSE
      BY DEF NoFalseAlarm
    <2>1. fail_on(apply_filters(run["pr"].report, tip["pr"].register, run["pr"].gated, run["pr"].prior))
      BY DEF IInv, Decided, Refs
    <2>2. /\ ~fail_on(apply_filters(run["main"].report, tip["main"].register,
                                    run["main"].gated, run["main"].prior))
          /\ run["main"].prior = {}
      BY DEF IInv, Decided, Refs, Green
    <2>3. tip["pr"] = tip["main"] /\ run["pr"].gated = run["main"].gated
      BY DEF SameDaySameTip
    <2>4. QED
      BY <2>1, <2>2, <2>3, FewerFail
  <1>2. QED
    BY <1>1, Invariance, PTL

\* A pull request that was green without a baseline stays so as the tip of main,
\* on the day of its run and with no new findings (the Gate steps).
THEOREM GreenSurvivesMerge == Spec => []GreenCarriesOver
  <1>1. IInv => GreenCarriesOver
    <2> SUFFICES ASSUME IInv, Green("pr"), run["pr"].prior = {}, SameDaySameTip,
                        run["main"].report \subseteq run["pr"].report,
                        run["main"].verdict = "red"
                 PROVE  FALSE
      BY DEF GreenCarriesOver
    <2>1. fail_on(apply_filters(run["main"].report, tip["main"].register,
                                run["main"].gated, run["main"].prior))
      BY DEF IInv, Decided, Refs
    <2>2. ~fail_on(apply_filters(run["pr"].report, tip["pr"].register, run["pr"].gated, {}))
      BY DEF IInv, Decided, Refs, Green
    <2>3. tip["pr"] = tip["main"] /\ run["pr"].gated = run["main"].gated
      BY DEF SameDaySameTip
    <2>4. QED
      BY <2>1, <2>2, <2>3, FewerFail
  <1>2. QED
    BY <1>1, Invariance, PTL
==============================================================================
