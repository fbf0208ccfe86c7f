------------------------------ MODULE Cli_proofs ------------------------------
(***************************************************************************)
(* Cli: for every set of command lines, targets, registers and files, what *)
(* a report on the disk says, which exit status a command ends with, what  *)
(* baselines may hide, and which routes findings of sast are given.        *)
(***************************************************************************)
EXTENDS Cli, WellFoundedInduction, TLAPS

\* The fields of a command line.
LEMMA CommandFields ==
  ASSUME NEW c \in Commands
  PROVE  /\ c.cmd \in {"scan", "sast", "gate", "correlate"}
         /\ c.suite \in Suites \cup {NoName}
         /\ c.target \in Targets \cup Sources \cup {NoName}
         /\ c.report \in Files \cup {NoFile} /\ c.baseline \in Files \cup {NoFile}
         /\ c.accepted \in BOOLEAN /\ c.fail \in BOOLEAN
         /\ c.fmt \in {"json", "sarif", "md"} /\ c.out \in Files \cup {NoFile}
  BY CliAssumption DEF Command

\* What fail_on asks is whether a grave finding is among them (risk.py).
LEMMA FailOnGrave ==
  ASSUME NEW F \in SUBSET Fingerprints
  PROVE  fail_on(F) <=> F \cap Grave # {}
  BY DEF fail_on, Grave

\* The filters only leave out, and what they leave out is accepted on the day or
\* listed by the baseline (_apply_filters).
LEMMA FilterLeaves ==
  ASSUME NEW F \in SUBSET Fingerprints, NEW reg, NEW today, NEW P
  PROVE  apply_filters(F, reg, today, P)
           = F \ ((F \cap Accepted(reg, today)) \cup (F \cap P))
  BY DEF apply_filters, kept

\* What is rendered is a report.
LEMMA RenderedReport ==
  ASSUME TypeOK
  PROVE  Rendered \in Report
  BY CommandFields DEF TypeOK, Rendered, Report

\* A report names its parts.
LEMMA ReportFields ==
  ASSUME NEW doc \in Report
  PROVE  /\ doc.fmt \in {"json", "sarif", "md", "correlation"}
         /\ doc.target \in Targets \cup Sources \cup {NoName}
         /\ doc.findings \in SUBSET Fingerprints /\ doc.origin \in Origin
  BY DEF Report

------------------------------------------------------------------------------
\* The first command is none: nothing is in hand and nothing on the disk.
LEMMA InitInv ==
  ASSUME Init PROVE Inv /\ ShownBefore
<1>1. command \in Commands
  BY CliAssumption DEF Init
<1>2. Nothing \in Origin
  BY DEF Nothing, Origin
<1>3. TypeOK
  BY <1>1, <1>2, CliAssumption, CommandFields DEF Init, TypeOK
<1>4. FailIsReported /\ ReportNamesScanned
  BY DEF Init, FailIsReported, ReportNamesScanned
<1>5. InHand
  BY DEF Init, InHand, Nothing
<1>6. OnDisk
  BY DEF Init, OnDisk
<1>7. FilesThere /\ ReportOut
  BY DEF Init, FilesThere, ReportOut
<1>8. InCourse
  BY DEF Init, InCourse, fail_on
<1>9. ShownBefore
  BY DEF Init, ShownBefore
<1> QED BY <1>3, <1>4, <1>5, <1>6, <1>7, <1>8, <1>9 DEF Inv

------------------------------------------------------------------------------
\* A command that begins holds nothing, and click has looked for its files.
LEMMA BeginStep ==
  ASSUME Inv, ShownBefore, NEW c \in Commands, Begin(c)
  PROVE  Inv' /\ ShownBefore'
<1> USE DEF Begin
<1>1. Nothing \in Origin
  BY DEF Nothing, Origin
<1>2. TypeOK'
  BY <1>1, CliAssumption DEF Inv, TypeOK
<1>3. exit' \in {"usage", "running"} /\ disk' = disk /\ origin' = Nothing
  OBVIOUS
<1>4. FailIsReported'
  BY <1>3 DEF FailIsReported
<1>5. ReportNamesScanned' /\ OnDisk'
  BY DEF Inv, ReportNamesScanned, OnDisk
<1>6. InHand'
  BY <1>3 DEF InHand, Nothing
<1>7. FilesThere'
  BY DEF FilesThere, Missing, Inv, TypeOK
<1>8. pc' \in {"idle", "scan", "read"}
  OBVIOUS
<1>9. ReportOut'
  BY <1>8 DEF ReportOut
<1>10. InCourse'
  BY <1>3, <1>8, CommandFields DEF InCourse
<1>11. ShownBefore'
  BY DEF ShownBefore
<1> QED BY <1>2, <1>4, <1>5, <1>6, <1>7, <1>9, <1>10, <1>11 DEF Inv

\* A scan that returns holds what it found.
LEMMA ScanStep ==
  ASSUME Inv, ShownBefore, ScanReturns
  PROVE  Inv' /\ ShownBefore'
<1>1. /\ command \in Commands /\ command.cmd = "scan" /\ Scanned # NoName
      /\ command.suite \in Suites \cup {NoName} /\ command.target \in Targets \cup {NoName}
  BY CommandFields, LineAssumption DEF ScanReturns, Inv, TypeOK
<1>2. Scanned \in Targets /\ Named \in Targets
  BY <1>1, CliAssumption DEF Scanned, Named
<1>3. PICK found \in SUBSET Exposed[Scanned] :
        /\ findings' = found
        /\ origin' = [scanned |-> Scanned, found |-> found, excused |-> {}, blind |-> FALSE,
                      both |-> command.suite # NoName /\ command.target # NoName]
  BY DEF ScanReturns
<1>4. found \in SUBSET Fingerprints
  BY <1>2, <1>3, CliAssumption
<1>5. origin' \in Origin
  BY <1>2, <1>3, <1>4 DEF Origin
<1>6. TypeOK'
  BY <1>2, <1>3, <1>4, <1>5 DEF ScanReturns, Inv, TypeOK
<1>7. target' = Scanned \/ origin'.both
  BY <1>1, <1>3 DEF ScanReturns, Named, Scanned
<1>8. InHand'
  BY <1>3, <1>7 DEF InHand
<1>9. exit' = "running"
  BY DEF ScanReturns, Inv, TypeOK
<1>10. FailIsReported' /\ ReportNamesScanned' /\ OnDisk' /\ FilesThere'
  BY <1>9 DEF ScanReturns, Inv, FailIsReported, ReportNamesScanned, OnDisk, FilesThere
<1>11. ReportOut' /\ InCourse' /\ ShownBefore'
  BY <1>1, <1>9 DEF ScanReturns, ReportOut, InCourse, ShownBefore
<1> QED BY <1>6, <1>8, <1>10, <1>11 DEF Inv

\* So does sast, without filters after it.
LEMMA SastStep ==
  ASSUME Inv, ShownBefore, SastReturns
  PROVE  Inv' /\ ShownBefore'
<1>1. command \in Commands /\ command.cmd = "sast" /\ command.target \in Sources
  BY LineAssumption DEF SastReturns, Inv, TypeOK
<1> DEFINE found == scan_source(TreeOf[command.target])
<1>2. found \in SUBSET Fingerprints
  BY <1>1, CliAssumption
<1> HIDE DEF found
<1>3. /\ findings' = found /\ target' = command.target
      /\ origin' = [scanned |-> command.target, found |-> found, excused |-> {},
                    blind |-> FALSE, both |-> FALSE]
  BY DEF SastReturns, found
<1>4. origin' \in Origin
  BY <1>1, <1>2, <1>3 DEF Origin
<1>5. TypeOK'
  BY <1>1, <1>2, <1>3, <1>4 DEF SastReturns, Inv, TypeOK
<1>6. InHand'
  BY <1>3 DEF InHand
<1>7. exit' = "running"
  BY DEF SastReturns, Inv, TypeOK
<1>8. FailIsReported' /\ ReportNamesScanned' /\ OnDisk' /\ FilesThere'
  BY <1>7 DEF SastReturns, Inv, FailIsReported, ReportNamesScanned, OnDisk, FilesThere
<1>9. ReportOut' /\ InCourse' /\ ShownBefore'
  BY <1>7 DEF SastReturns, ReportOut, InCourse, ShownBefore
<1> QED BY <1>5, <1>6, <1>8, <1>9 DEF Inv

\* A gate holds what the report says: with a report of scan the name, the
\* findings and the history of it, with anything else nothing, blindly.
LEMMA GateStep ==
  ASSUME Inv, ShownBefore, GateReads
  PROVE  Inv' /\ ShownBefore'
<1> DEFINE doc == disk[command.report]
<1>1. command \in Commands /\ command.cmd = "gate" /\ command.report \in Files
  BY LineAssumption DEF GateReads, Inv, TypeOK
<1>2. doc # NoFile /\ doc # Torn
  BY <1>1, CliAssumption DEF GateReads, Readable, Inv, FilesThere
<1>3. doc \in Report
  BY <1>1, <1>2 DEF Inv, TypeOK
<1>4. /\ doc.target \in Targets \cup Sources \cup {NoName}
      /\ doc.findings \in SUBSET Fingerprints /\ doc.origin \in Origin
  BY <1>3, ReportFields
<1>5. /\ findings' = (IF doc.fmt = "json" THEN doc.findings ELSE {})
      /\ target' = (IF doc.fmt = "json" THEN doc.target ELSE NoName)
      /\ origin' = [doc.origin EXCEPT !.blind = @ \/ doc.fmt # "json"]
  BY DEF GateReads, Rows
<1>6. /\ ~doc.origin.blind => doc.findings = doc.origin.found \ doc.origin.excused
      /\ doc.origin.found \subseteq shown \cup forgiven
      /\ doc.target = doc.origin.scanned \/ doc.origin.both \/ doc.origin.blind
  BY <1>1, <1>2 DEF Inv, OnDisk, ReportNamesScanned
<1>7. /\ origin' \in Origin
      /\ origin'.found = doc.origin.found /\ origin'.excused = doc.origin.excused
      /\ origin'.scanned = doc.origin.scanned /\ origin'.both = doc.origin.both
      /\ origin'.blind = (doc.origin.blind \/ doc.fmt # "json")
  <2> HIDE DEF doc
  <2> QED BY <1>4, <1>5 DEF Origin
<1>8. /\ command' = command /\ disk' = disk /\ exit' = exit /\ pc' = "filter"
      /\ UNCHANGED <<day, register, ran, shown, forgiven, dealt>> /\ pc = "read"
  BY DEF GateReads
<1>9. exit' = "running"
  BY <1>8 DEF Inv, TypeOK
<1> HIDE DEF doc
<1>10. TypeOK'
  BY <1>4, <1>5, <1>7, <1>8, CliAssumption DEF Inv, TypeOK
<1>11. InHand'
  BY <1>5, <1>6, <1>7, <1>8 DEF InHand
<1>12. FailIsReported' /\ ReportNamesScanned' /\ OnDisk' /\ FilesThere'
  BY <1>8, <1>9 DEF Inv, FailIsReported, ReportNamesScanned, OnDisk, FilesThere
<1>13. ReportOut' /\ InCourse' /\ ShownBefore'
  BY <1>1, <1>8, <1>9 DEF ReportOut, InCourse, ShownBefore
<1> QED BY <1>10, <1>11, <1>12, <1>13 DEF Inv

\* correlate holds nothing.
LEMMA CorrelateStep ==
  ASSUME Inv, ShownBefore, Correlates
  PROVE  Inv' /\ ShownBefore'
<1> USE DEF Correlates
<1>1. exit' = "running"
  BY DEF Inv, TypeOK
<1>2. TypeOK'
  BY DEF Inv, TypeOK
<1>3. FailIsReported' /\ ReportNamesScanned' /\ OnDisk' /\ FilesThere'
  BY <1>1 DEF Inv, FailIsReported, ReportNamesScanned, OnDisk, FilesThere
<1>4. InHand' /\ ReportOut' /\ InCourse' /\ ShownBefore'
  BY <1>1 DEF Inv, InHand, ReportOut, InCourse, ShownBefore
<1> QED BY <1>2, <1>3, <1>4 DEF Inv

\* The filters excuse what they drop.
LEMMA FilterStep ==
  ASSUME Inv, ShownBefore, Filter
  PROVE  Inv' /\ ShownBefore'
<1> DEFINE accepted == findings \cap Accepted(Accepting, day)
           listed == findings \cap Prior
<1>1. /\ findings \in SUBSET Fingerprints /\ origin \in Origin /\ command \in Commands
      /\ exit = "running" /\ pc = "filter"
  BY DEF Inv, TypeOK, Filter
<1>2. findings' = findings \ (accepted \cup listed)
  BY <1>1, FilterLeaves DEF Filter
<1>3. /\ origin' = [origin EXCEPT !.excused = @ \cup accepted \cup listed]
      /\ forgiven' = forgiven \cup accepted
      /\ pc' = "write"
      /\ UNCHANGED <<day, register, disk, command, target, exit, ran, shown, dealt>>
  BY DEF Filter
<1>4. listed \subseteq shown
  <2>1. CASE command.baseline = NoFile
    BY <2>1 DEF Prior
  <2>2. CASE command.baseline # NoFile
    <3>1. command.baseline \in Files /\ disk[command.baseline] # NoFile
      BY <1>1, <2>2, CommandFields DEF Inv, FilesThere
    <3>2. disk[command.baseline] # Torn
      BY <2>2 DEF Filter, Filtered, Readable
    <3>3. disk[command.baseline].findings \subseteq shown
      BY <3>1, <3>2 DEF Inv, OnDisk
    <3> QED BY <2>2, <3>3 DEF Prior, Rows
  <2> QED BY <2>1, <2>2
<1> HIDE DEF accepted, listed
<1>5. accepted \subseteq findings /\ listed \subseteq findings
  BY DEF accepted, listed
<1>6. /\ origin' \in Origin /\ origin'.found = origin.found
      /\ origin'.excused = origin.excused \cup accepted \cup listed
      /\ origin'.scanned = origin.scanned /\ origin'.both = origin.both
      /\ origin'.blind = origin.blind
  BY <1>1, <1>3, <1>5 DEF Origin
<1>7. TypeOK'
  BY <1>1, <1>2, <1>3, <1>5, <1>6 DEF Inv, TypeOK
<1>8. InHand'
  BY <1>2, <1>3, <1>4, <1>6 DEF Inv, InHand
<1>9. FailIsReported' /\ ReportNamesScanned'
  BY <1>1, <1>3 DEF Inv, FailIsReported, ReportNamesScanned
<1>10. OnDisk' /\ FilesThere'
  BY <1>1, <1>3 DEF Inv, OnDisk, FilesThere
<1>11. ReportOut' /\ InCourse' /\ ShownBefore'
  BY <1>1, <1>3 DEF ReportOut, InCourse, ShownBefore
<1> QED BY <1>7, <1>8, <1>9, <1>10, <1>11 DEF Inv

\* A report that is written is what the command holds, and whoever looks sees it.
LEMMA WriteStep ==
  ASSUME Inv, ShownBefore, Write
  PROVE  Inv' /\ ShownBefore'
<1>1. /\ findings \in SUBSET Fingerprints /\ command \in Commands
      /\ command.out \in Files \cup {NoFile} /\ disk \in [Files -> Report \cup {NoFile, Torn}]
      /\ exit = "running"
  BY CommandFields DEF Inv, TypeOK, Write
<1>2. /\ disk' = Written /\ shown' = shown \cup findings /\ pc' = "exit"
      /\ UNCHANGED <<day, register, command, findings, target, exit, ran, origin, forgiven, dealt>>
  BY DEF Write
<1>3. Rendered \in Report
  BY RenderedReport DEF Inv
<1>4. /\ Rendered.origin = origin /\ Rendered.findings = findings /\ Rendered.target = target
      /\ Rendered' = Rendered
  BY <1>2 DEF Rendered
<1>5. \A file \in Files :
        disk'[file] = IF command.out = file THEN Rendered ELSE disk[file]
  BY <1>1, <1>2, CliAssumption DEF Written
<1>6. disk' \in [Files -> Report \cup {NoFile, Torn}]
  BY <1>1, <1>2, <1>3 DEF Written
<1>7. TypeOK'
  BY <1>1, <1>2, <1>6 DEF Inv, TypeOK
<1>8. InHand' /\ FailIsReported'
  BY <1>1, <1>2 DEF Inv, InHand, FailIsReported
<1>9. ReportNamesScanned'
  BY <1>4, <1>5 DEF Inv, InHand, ReportNamesScanned
<1>10. OnDisk'
  BY <1>2, <1>4, <1>5 DEF Inv, InHand, OnDisk
<1>11. FilesThere'
  <2>1. Rendered # NoFile
    BY <1>3, DiskAssumption
  <2> QED
    BY <1>1, <1>2, <1>5, <2>1, CommandFields DEF Write, Inv, FilesThere
<1>12. ReportOut'
  <2>1. command.out # NoFile => disk'[command.out] = Rendered
    BY <1>1, <1>5
  <2>2. origin.found \subseteq shown' \cup forgiven
    BY <1>2 DEF Inv, InHand
  <2> QED BY <1>2, <1>4, <2>1, <2>2 DEF ReportOut
<1>13. InCourse' /\ ShownBefore'
  BY <1>1, <1>2 DEF InCourse, ShownBefore
<1> QED BY <1>7, <1>8, <1>9, <1>10, <1>11, <1>12, <1>13 DEF Inv

\* The exit status is about what the report that is out says.
LEMMA ExitStep ==
  ASSUME Inv, ShownBefore, Exit
  PROVE  Inv' /\ ShownBefore'
<1>1. /\ findings \in SUBSET Fingerprints /\ command \in Commands /\ origin \in Origin
      /\ command.out \in Files \cup {NoFile}
  BY CommandFields DEF Inv, TypeOK
<1>2. /\ pc = "exit" /\ pc' = "idle" /\ dealt' = dealt \cup origin.found
      /\ exit' = IF command.fail /\ fail_on(findings) THEN "failed" ELSE "passed"
      /\ UNCHANGED <<day, register, disk, command, findings, target, ran, origin, shown, forgiven>>
  BY DEF Exit
<1>3. TypeOK'
  BY <1>1, <1>2 DEF Inv, TypeOK, Origin
<1>4. FailIsReported'
  <2> SUFFICES ASSUME exit' = "failed", command.out # NoFile
               PROVE  disk[command.out] \notin {NoFile, Torn}
                      /\ disk[command.out].findings \cap Grave # {}
    BY <1>2 DEF FailIsReported
  <2>1. fail_on(findings)
    BY <1>2
  <2>2. disk[command.out] = Rendered /\ Rendered \in Report
    BY <1>2, RenderedReport DEF Inv, ReportOut
  <2>3. Rendered.findings = findings
    BY DEF Rendered
  <2> QED BY <1>1, <2>1, <2>2, <2>3, FailOnGrave, DiskAssumption
<1>5. ReportNamesScanned' /\ OnDisk'
  BY <1>2 DEF Inv, ReportNamesScanned, OnDisk
<1>6. InHand' /\ FilesThere' /\ ReportOut'
  BY <1>2 DEF Inv, InHand, FilesThere, ReportOut
<1>7. InCourse'
  <2>1. command' = command /\ findings' = findings /\ pc' = "idle"
    BY <1>2
  <2>2. command.fail => (exit' = "failed") = fail_on(findings)
    BY <1>2 DEF fail_on
  <2>3. fail_on(findings)' = fail_on(findings)
    BY <2>1 DEF fail_on
  <2> QED BY <2>1, <2>2, <2>3 DEF InCourse
<1>8. ShownBefore'
  BY <1>2 DEF Inv, ReportOut, ShownBefore
<1> QED BY <1>3, <1>4, <1>5, <1>6, <1>7, <1>8 DEF Inv

\* A command that ends with an error or is killed leaves the files, or the one it
\* was writing torn; its status claims nothing.
LEMMA EndStep ==
  ASSUME Inv, ShownBefore, NEW status \in {"error", "killed"}, Ends(status),
         \/ disk' = disk
         \/ command.out # NoFile /\ disk' = [disk EXCEPT ![command.out] = Torn]
  PROVE  Inv' /\ ShownBefore'
<1>1. /\ command \in Commands /\ command.out \in Files \cup {NoFile}
      /\ disk \in [Files -> Report \cup {NoFile, Torn}]
  BY CommandFields DEF Inv, TypeOK
<1>2. /\ pc' = "idle" /\ exit' = status
      /\ UNCHANGED <<day, register, command, findings, target, ran, origin, shown, forgiven, dealt>>
  BY DEF Ends
<1>3. \A file \in Files : disk'[file] = disk[file] \/ disk'[file] = Torn
  BY <1>1
<1>4. disk' \in [Files -> Report \cup {NoFile, Torn}]
  BY <1>1
<1>5. TypeOK'
  BY <1>2, <1>4 DEF Inv, TypeOK
<1>6. ReportNamesScanned' /\ OnDisk'
  BY <1>2, <1>3 DEF Inv, ReportNamesScanned, OnDisk
<1>7. InHand' /\ ShownBefore'
  BY <1>2 DEF Inv, InHand, ShownBefore
<1>8. FailIsReported' /\ FilesThere' /\ ReportOut' /\ InCourse'
  BY <1>2 DEF FailIsReported, FilesThere, ReportOut, InCourse
<1> QED BY <1>5, <1>6, <1>7, <1>8 DEF Inv

\* Midnight and an edit of the register concern no file and no command.
LEMMA QuietStep ==
  ASSUME Inv, ShownBefore, UNCHANGED <<disk, pc, command, findings, target, exit, ran,
                                       origin, shown, forgiven, dealt>>,
         day' \in 0..MaxDay, register' \in Registers
  PROVE  Inv' /\ ShownBefore'
<1>1. TypeOK' /\ ShownBefore'
  BY DEF Inv, TypeOK, ShownBefore
<1>2. FailIsReported' /\ ReportNamesScanned' /\ OnDisk' /\ FilesThere'
  BY DEF Inv, FailIsReported, ReportNamesScanned, OnDisk, FilesThere
<1>3. InHand' /\ ReportOut'
  BY DEF Inv, InHand, ReportOut, Rendered
<1>4. InCourse'
  BY DEF Inv, InCourse, fail_on
<1> QED BY <1>1, <1>2, <1>3, <1>4 DEF Inv

\* Every step keeps the invariant.
LEMMA StepInv ==
  ASSUME Inv, ShownBefore, [Next]_vars
  PROVE  Inv' /\ ShownBefore'
<1>1. day \in 0..MaxDay /\ register \in Registers /\ MaxDay \in Nat
  BY CliAssumption DEF Inv, TypeOK
<1>2. CASE \E c \in Commands : Begin(c)
  BY <1>2, BeginStep
<1>3. CASE ScanReturns
  BY <1>3, ScanStep
<1>4. CASE SastReturns
  BY <1>4, SastStep
<1>5. CASE GateReads
  BY <1>5, GateStep
<1>6. CASE Correlates
  BY <1>6, CorrelateStep
<1>7. CASE Filter
  BY <1>7, FilterStep
<1>8. CASE Write
  BY <1>8, WriteStep
<1>9. CASE Exit
  BY <1>9, ExitStep
<1>10. CASE ScanFails \/ ReadFails \/ FilterFails
  <2>1. Ends("error") /\ disk' = disk
    BY <1>10 DEF ScanFails, ReadFails, FilterFails
  <2> QED BY <2>1, EndStep
<1>11. CASE WriteFails
  <2>1. Ends("error") /\ command.out # NoFile
        /\ disk' \in {disk, [disk EXCEPT ![command.out] = Torn]}
    BY <1>11 DEF WriteFails
  <2> QED BY <2>1, EndStep
<1>12. CASE Kill
  <2>1. Ends("killed")
    BY <1>12 DEF Kill
  <2>2. \/ disk' = disk
        \/ command.out # NoFile /\ disk' = [disk EXCEPT ![command.out] = Torn]
    BY <1>12 DEF Kill
  <2> QED BY <2>1, <2>2, EndStep
<1>13. CASE Tick
  <2>1. day' \in 0..MaxDay
    BY <1>1, <1>13 DEF Tick
  <2> QED BY <1>1, <1>13, <2>1, QuietStep DEF Tick
<1>14. CASE Edit
  BY <1>1, <1>14, QuietStep DEF Edit
<1>15. CASE UNCHANGED vars
  BY <1>1, <1>15, QuietStep DEF vars
<1> QED
  BY <1>2, <1>3, <1>4, <1>5, <1>6, <1>7, <1>8, <1>9, <1>10, <1>11, <1>12, <1>13, <1>14,
     <1>15 DEF Next

------------------------------------------------------------------------------
\* What the files of a command say, whoever kills it and whatever it was given: a
\* build that failed has its report, and a report names what was scanned and
\* holds what was found there less what somebody accepted or had seen
\* (scan_cmd, gate_cmd, json_reporter.render).
THEOREM FilesAreTrue == Spec => []Inv
<1>1. Init => Inv /\ ShownBefore
  BY InitInv
<1>2. Inv /\ ShownBefore /\ [Next]_vars => Inv' /\ ShownBefore'
  BY StepInv
<1> QED BY <1>1, <1>2, PTL DEF Spec

\* Whatever a command that ended by itself has dealt with was in some report, or a
\* register accepted it while its entry was active: no baseline hides a finding
\* that nobody could have seen (risk.py, _apply_filters).
THEOREM NothingUnseen == Spec => []ShownBefore
<1>1. Init => Inv /\ ShownBefore
  BY InitInv
<1>2. Inv /\ ShownBefore /\ [Next]_vars => Inv' /\ ShownBefore'
  BY StepInv
<1> QED BY <1>1, <1>2, PTL DEF Spec

\* The exit status of a build says whether the scan behind it, however many gates
\* ago, found a grave finding that nobody excused (scan_cmd, gate_cmd).
THEOREM StatusIsExplained == Spec => []ExitExplained
<1>1. Inv => ExitExplained
  <2> SUFFICES ASSUME Inv, exit \in {"passed", "failed"}, command.fail, ~origin.blind
               PROVE  (exit = "failed") = ((origin.found \cap Grave) \ origin.excused # {})
    BY DEF ExitExplained
  <2>1. (exit = "failed") <=> fail_on(findings)
    BY DEF Inv, InCourse
  <2>2. findings = origin.found \ origin.excused
    BY DEF Inv, InHand
  <2>3. fail_on(findings) <=> findings \cap Grave # {}
    BY FailOnGrave DEF Inv, TypeOK
  <2> QED BY <2>1, <2>2, <2>3
<1> QED BY <1>1, FilesAreTrue, PTL

------------------------------------------------------------------------------
(* The index of the routes of a source tree, and what is attributed by it.   *)

\* A set of numbers has a least one, which Min is.
LEMMA MinIsLeast ==
  ASSUME NEW T, T \subseteq Nat, T # {}
  PROVE  Min(T) \in T /\ \A n \in T : Min(T) <= n
<1> DEFINE R == OpToRel(<, Nat)
<1>1. IsWellFoundedOn(R, Nat)
  BY NatLessThanWellFounded
<1>2. \A m, n \in Nat : m < n => <<m, n>> \in R
  BY DEF OpToRel
<1> HIDE DEF R
<1>3. PICK m \in T : \A n \in T : ~(<<n, m>> \in R)
  BY <1>1, WFMin
<1>4. ASSUME NEW n \in T PROVE m <= n
  <2>1. m \in Nat /\ n \in Nat /\ ~(n < m)
    BY <1>2, <1>3
  <2> QED BY <2>1
<1> QED BY <1>3, <1>4 DEF Min

\* What build_index has of the first n nodes: each is a node of a file that parses,
\* and each of those is there.
KeepsAll(q, nodes, readable, n) ==
  /\ \A i \in 1..Len(q) : \E k \in 1..n : nodes[k].at.file \in readable /\ q[i] = nodes[k]
  /\ \A k \in 1..n : nodes[k].at.file \in readable => \E i \in 1..Len(q) : q[i] = nodes[k]

\* m is what the loop of build_index has after each of the first j nodes.
After(m, nodes, readable, n) ==
  IF n = 0 THEN <<>>
  ELSE IF nodes[n].at.file \in readable THEN Append(m[n - 1], nodes[n])
  ELSE m[n - 1]
Loop(m, nodes, readable, j) == m = [n \in 0..j |-> After(m, nodes, readable, n)]

\* The loop over the nodes can be made from any number of them,
LEMMA LoopExists ==
  ASSUME NEW nodes, NEW readable, NEW j \in Nat
  PROVE  \E m : Loop(m, nodes, readable, j)
<1> DEFINE Bad == {i \in Nat : ~ \E m : Loop(m, nodes, readable, i)}
<1>1. ASSUME Bad # {} PROVE FALSE
  <2> DEFINE i == Min(Bad)
  <2>1. i \in Bad /\ \A n \in Bad : i <= n
    BY <1>1, MinIsLeast
  <2>2. i \in Nat /\ ~ \E m : Loop(m, nodes, readable, i)
    BY <2>1
  <2> HIDE DEF i
  <2>3. i # 0
    <3> DEFINE m0 == [n \in 0..0 |-> <<>>]
    <3>1. \A n \in 0..0 : After(m0, nodes, readable, n) = <<>>
      BY DEF After
    <3>2. m0 = [n \in 0..0 |-> After(m0, nodes, readable, n)]
      BY <3>1
    <3> QED BY <2>2, <3>2 DEF Loop
  <2>4. i - 1 \in Nat /\ i - 1 \notin Bad
    BY <2>1, <2>2, <2>3
  <2>5. PICK m : Loop(m, nodes, readable, i - 1)
    BY <2>4
  <2> DEFINE h == [n \in 0..i |-> IF n = i THEN After(m, nodes, readable, i) ELSE m[n]]
  <2>6. \A n \in 0..(i - 1) : m[n] = After(m, nodes, readable, n)
    BY <2>5 DEF Loop
  <2>7. \A n \in 0..i : n # 0 => h[n - 1] = m[n - 1]
    BY <2>2
  <2>8. \A n \in 0..i : After(h, nodes, readable, n) = After(m, nodes, readable, n)
    BY <2>7 DEF After
  <2>9. \A n \in 0..i : h[n] = After(h, nodes, readable, n)
    <3> SUFFICES ASSUME NEW n \in 0..i PROVE h[n] = After(m, nodes, readable, n)
      BY <2>8
    <3>1. CASE n = i
      BY <3>1
    <3>2. CASE n # i
      BY <2>2, <2>6, <3>2
    <3> QED BY <3>1, <3>2
  <2>10. h = [n \in 0..i |-> After(h, nodes, readable, n)]
    BY <2>9
  <2> QED BY <2>2, <2>10 DEF Loop
<1> QED BY <1>1

\* and it is the one of build_index.
LEMMA MetLoops ==
  ASSUME NEW nodes, NEW readable, Len(nodes) \in Nat
  PROVE  Loop(Met(nodes, readable), nodes, readable, Len(nodes))
<1> DEFINE L(m) == m = [n \in 0..Len(nodes) |->
                     IF n = 0 THEN <<>>
                     ELSE IF nodes[n].at.file \in readable THEN Append(m[n - 1], nodes[n])
                     ELSE m[n - 1]]
<1>1. \A m : Loop(m, nodes, readable, Len(nodes)) <=> L(m)
  BY DEF Loop, After
<1>2. Met(nodes, readable) = CHOOSE m : L(m)
  BY DEF Met
<1> HIDE DEF L
<1>3. \E m : L(m)
  BY <1>1, LoopExists
<1>4. L(CHOOSE m : L(m))
  BY <1>3
<1> QED BY <1>1, <1>2, <1>4

\* So the index has the nodes of the files that parse, and no others (build_index).
LEMMA MetKeepsAll ==
  ASSUME NEW S, NEW nodes \in Seq(S), NEW readable
  PROVE  LET q == Met(nodes, readable)[Len(nodes)]
         IN q \in Seq(S) /\ KeepsAll(q, nodes, readable, Len(nodes))
<1> DEFINE m == Met(nodes, readable)
           Good(n) == m[n] \in Seq(S) /\ KeepsAll(m[n], nodes, readable, n)
           Bad == {n \in 0..Len(nodes) : ~Good(n)}
<1>1. Loop(m, nodes, readable, Len(nodes))
  BY MetLoops
<1> HIDE DEF m
<1>2. \A n \in 0..Len(nodes) : m[n] = After(m, nodes, readable, n)
  BY <1>1 DEF Loop
<1>3. Good(0)
  <2>1. m[0] = <<>>
    BY <1>2 DEF After
  <2>2. KeepsAll(<<>>, nodes, readable, 0)
    BY DEF KeepsAll
  <2> QED BY <2>1, <2>2
<1>4. ASSUME NEW n \in 0..Len(nodes), n # 0, Good(n - 1) PROVE Good(n)
  <2> DEFINE q == m[n - 1]
             x == nodes[n]
  <2>1. q \in Seq(S) /\ KeepsAll(q, nodes, readable, n - 1) /\ x \in S
    BY <1>4
  <2>2. \A k \in 1..n : k = n \/ k \in 1..(n - 1)
    BY <1>4
  <2>3. \A k \in 1..(n - 1) : k \in 1..n
    BY <1>4
  <2>4. m[n] = IF x.at.file \in readable THEN Append(q, x) ELSE q
    BY <1>2, <1>4 DEF After
  <2>5. CASE x.at.file \notin readable
    <3>1. KeepsAll(q, nodes, readable, n)
      BY <2>1, <2>2, <2>3, <2>5 DEF KeepsAll
    <3> QED BY <2>1, <2>4, <2>5, <3>1
  <2>6. CASE x.at.file \in readable
    <3> DEFINE p == Append(q, x)
    <3>1. /\ p \in Seq(S) /\ Len(p) = Len(q) + 1 /\ p[Len(p)] = x /\ Len(q) \in Nat
          /\ \A i \in 1..Len(q) : p[i] = q[i]
      BY <2>1
    <3> HIDE DEF p, q, x
    <3>2. \A i \in 1..Len(p) : i = Len(p) \/ i \in 1..Len(q)
      BY <3>1
    <3>3. \A i \in 1..Len(q) : i \in 1..Len(p)
      BY <3>1
    <3>4. Len(p) \in 1..Len(p) /\ n \in 1..n
      BY <1>4, <3>1
    <3>5. ASSUME NEW i \in 1..Len(p)
          PROVE  \E k \in 1..n : nodes[k].at.file \in readable /\ p[i] = nodes[k]
      <4>1. CASE i = Len(p)
        <5>1. p[i] = nodes[n] /\ nodes[n].at.file \in readable
          BY <2>6, <3>1, <4>1 DEF x
        <5> QED BY <3>4, <5>1
      <4>2. CASE i \in 1..Len(q)
        <5>1. PICK k \in 1..(n - 1) : nodes[k].at.file \in readable /\ q[i] = nodes[k]
          BY <2>1, <4>2 DEF KeepsAll
        <5> QED BY <2>3, <3>1, <4>2, <5>1
      <4> QED BY <3>2, <4>1, <4>2
    <3>6. ASSUME NEW k \in 1..n, nodes[k].at.file \in readable
          PROVE  \E i \in 1..Len(p) : p[i] = nodes[k]
      <4>1. CASE k = n
        BY <3>1, <3>4, <4>1 DEF x
      <4>2. CASE k \in 1..(n - 1)
        <5>1. PICK i \in 1..Len(q) : q[i] = nodes[k]
          BY <2>1, <3>6, <4>2 DEF KeepsAll
        <5> QED BY <3>1, <3>3, <5>1
      <4> QED BY <2>2, <4>1, <4>2
    <3>7. KeepsAll(p, nodes, readable, n)
      BY <3>5, <3>6 DEF KeepsAll
    <3>8. m[n] = p
      BY <2>4, <2>6 DEF p
    <3> QED BY <3>1, <3>7, <3>8
  <2> QED BY <2>5, <2>6
<1>5. ASSUME Bad # {} PROVE FALSE
  <2> DEFINE n == Min(Bad)
  <2>1. Bad \subseteq Nat
    OBVIOUS
  <2>2. n \in Bad /\ \A i \in Bad : n <= i
    BY <1>5, <2>1, MinIsLeast
  <2> HIDE DEF n
  <2>3. n \in 0..Len(nodes) /\ ~Good(n) /\ n # 0
    BY <1>3, <2>2
  <2>4. n - 1 \in 0..Len(nodes) /\ n - 1 \notin Bad
    BY <2>2, <2>3
  <2>5. Good(n - 1)
    BY <2>4
  <2> QED BY <1>4, <2>3, <2>5
<1>6. Good(Len(nodes))
  BY <1>5
<1> QED BY <1>6 DEF m

\* A tree has routes, models and hits.
LEMMA TreeFields ==
  ASSUME NEW tree \in Tree
  PROVE  /\ tree.routes \in Seq(Route) /\ tree.models \in Seq(ModelClass)
         /\ tree.hits \in SUBSET Hit
  BY DEF Tree

\* A hit is resolved to a route of RoutesFor when there is any, though the index
\* knows nothing of the files that do not parse and takes the first of each
\* (RouteIndex.resolve).
LEMMA ResolvesToRoute ==
  ASSUME NEW tree \in Tree, NEW hit \in Hit
  PROVE  LET r == resolve(build_index(tree), hit.file, hit.line)
         IN IF RoutesFor(tree, hit) # {} THEN r \in RoutesFor(tree, hit) ELSE r = <<"UNKNOWN", "">>
<1> DEFINE index == build_index(tree)
           Around == {k \in 1..Len(tree.routes) : Encloses(tree, k, hit)}
           Taking == {k \in 1..Len(tree.routes) : Takes(tree, k, hit)}
           Pair(k) == <<tree.routes[k].method, tree.routes[k].path>>
           H == Handlers(index, hit.file, hit.line)
           M == Models(index, hit.file, hit.line)
<1>1. /\ index.routes = Met(tree.routes, tree.readable)[Len(tree.routes)]
      /\ index.models = Met(tree.models, tree.readable)[Len(tree.models)]
  BY DEF build_index
<1>2. /\ index.routes \in Seq(Route) /\ Len(index.routes) \in Nat
      /\ KeepsAll(index.routes, tree.routes, tree.readable, Len(tree.routes))
  BY <1>1, TreeFields, MetKeepsAll
<1>3. /\ Len(index.models) \in Nat
      /\ KeepsAll(index.models, tree.models, tree.readable, Len(tree.models))
  BY <1>1, TreeFields, MetKeepsAll
<1> HIDE DEF index
<1>4. RoutesFor(tree, hit) = {Pair(k) : k \in IF Around # {} THEN Around ELSE Taking}
  BY DEF RoutesFor
<1>5. /\ resolve(index, hit.file, hit.line) =
           IF H # {} THEN RouteOf(index, Min(H))
           ELSE IF M # {} THEN RouteOf(index, Min(Users(index, Min(M)))) ELSE <<"UNKNOWN", "">>
  BY DEF resolve
<1>6. H \subseteq Nat /\ M \subseteq Nat /\ \A m : Users(index, m) \subseteq Nat
  BY <1>2, <1>3 DEF Handlers, Models, Users
<1>7. ASSUME NEW k \in H PROVE \E a \in Around : RouteOf(index, k) = Pair(a)
  <2>1. k \in 1..Len(index.routes) /\ within(index.routes[k].at, hit.file, hit.line)
    BY <1>7 DEF Handlers
  <2>2. PICK a \in 1..Len(tree.routes) :
          tree.routes[a].at.file \in tree.readable /\ index.routes[k] = tree.routes[a]
    BY <1>2, <2>1 DEF KeepsAll
  <2> QED BY <2>1, <2>2 DEF Encloses, RouteOf
<1>8. ASSUME NEW a \in Around PROVE H # {}
  <2>1. /\ a \in 1..Len(tree.routes) /\ tree.routes[a].at.file \in tree.readable
        /\ within(tree.routes[a].at, hit.file, hit.line)
    BY <1>8 DEF Encloses
  <2>2. PICK k \in 1..Len(index.routes) : index.routes[k] = tree.routes[a]
    BY <1>2, <2>1 DEF KeepsAll
  <2>3. k \in H
    BY <2>1, <2>2 DEF Handlers
  <2> QED BY <2>3
<1>9. ASSUME NEW m \in M, NEW k \in Users(index, m)
      PROVE  \E a \in Taking : RouteOf(index, k) = Pair(a)
  <2>1. /\ m \in 1..Len(index.models) /\ within(index.models[m].at, hit.file, hit.line)
        /\ k \in 1..Len(index.routes) /\ index.models[m].name \in index.routes[k].param_types
    BY <1>9 DEF Models, Users
  <2>2. PICK a \in 1..Len(tree.routes) :
          tree.routes[a].at.file \in tree.readable /\ index.routes[k] = tree.routes[a]
    BY <1>2, <2>1 DEF KeepsAll
  <2>3. PICK b \in 1..Len(tree.models) :
          tree.models[b].at.file \in tree.readable /\ index.models[m] = tree.models[b]
    BY <1>3, <2>1 DEF KeepsAll
  <2>4. a \in Taking
    BY <2>1, <2>2, <2>3 DEF Takes
  <2> QED BY <2>2, <2>4 DEF RouteOf
<1>10. ASSUME NEW a \in Taking PROVE M # {}
  <2>1. a \in 1..Len(tree.routes) /\ tree.routes[a].at.file \in tree.readable
    BY <1>10 DEF Takes
  <2>2. PICK b \in 1..Len(tree.models) :
          /\ tree.models[b].at.file \in tree.readable
          /\ within(tree.models[b].at, hit.file, hit.line)
          /\ tree.models[b].name \in tree.routes[a].param_types
    BY <1>10 DEF Takes
  <2>3. PICK k \in 1..Len(index.routes) : index.routes[k] = tree.routes[a]
    BY <1>2, <2>1 DEF KeepsAll
  <2>4. PICK m \in 1..Len(index.models) : index.models[m] = tree.models[b]
    BY <1>3, <2>2 DEF KeepsAll
  <2>5. k \in Users(index, m)
    BY <2>2, <2>3, <2>4 DEF Users
  <2>6. m \in M
    BY <2>2, <2>4, <2>5 DEF Models
  <2> QED BY <2>6
<1>11. \A m \in M : Users(index, m) # {}
  BY DEF Models
<1> HIDE DEF H, M, Around, Taking, Pair
<1> DEFINE r == resolve(index, hit.file, hit.line)
<1>12. CASE H # {}
  <2>1. Min(H) \in H
    BY <1>6, <1>12, MinIsLeast
  <2>2. PICK a \in Around : RouteOf(index, Min(H)) = Pair(a)
    BY <1>7, <2>1
  <2>3. r = Pair(a)
    BY <1>5, <1>12, <2>2
  <2>4. r \in RoutesFor(tree, hit)
    BY <1>4, <2>2, <2>3
  <2> QED BY <2>4 DEF index
<1>13. CASE H = {} /\ M # {}
  <2>1. Around = {}
    BY <1>8, <1>13
  <2>2. Min(M) \in M
    BY <1>6, <1>13, MinIsLeast
  <2>3. Min(Users(index, Min(M))) \in Users(index, Min(M))
    BY <1>6, <1>11, <2>2, MinIsLeast
  <2>4. PICK a \in Taking : RouteOf(index, Min(Users(index, Min(M)))) = Pair(a)
    BY <1>9, <2>2, <2>3
  <2>5. r = Pair(a)
    BY <1>5, <1>13, <2>4
  <2>6. r \in RoutesFor(tree, hit)
    BY <1>4, <2>1, <2>4, <2>5
  <2> QED BY <2>6 DEF index
<1>14. CASE H = {} /\ M = {}
  <2>1. Around = {} /\ Taking = {}
    BY <1>8, <1>10, <1>14
  <2>2. RoutesFor(tree, hit) = {}
    BY <1>4, <2>1
  <2>3. r = <<"UNKNOWN", "">>
    BY <1>5, <1>14
  <2> QED BY <2>2, <2>3 DEF index
<1> QED BY <1>12, <1>13, <1>14

\* What Semgrep hits is found, and nothing else, each at a route it may have
\* (scan_source, RouteIndex.resolve).
RoutesOf(tree, hit) ==
  IF RoutesFor(tree, hit) # {} THEN RoutesFor(tree, hit) ELSE {<<"UNKNOWN", "">>}
LEMMA ScanAttributes ==
  ASSUME NEW tree \in Tree
  PROVE  LET found == scan_source(tree)
         IN /\ \A hit \in tree.hits : \E r \in RoutesOf(tree, hit) : <<hit.rule>> \o r \in found
            /\ \A f \in found : \E hit \in tree.hits :
                 f \in {<<hit.rule>> \o r : r \in RoutesOf(tree, hit)}
<1> DEFINE R(hit) == resolve(build_index(tree), hit.file, hit.line)
<1>1. scan_source(tree) = {<<hit.rule>> \o R(hit) : hit \in tree.hits}
  BY DEF scan_source, fingerprint
<1>2. \A hit \in tree.hits : R(hit) \in RoutesOf(tree, hit)
  <2> SUFFICES ASSUME NEW hit \in tree.hits PROVE R(hit) \in RoutesOf(tree, hit)
    OBVIOUS
  <2>1. hit \in Hit
    BY TreeFields
  <2> HIDE DEF R
  <2>2. IF RoutesFor(tree, hit) # {} THEN R(hit) \in RoutesFor(tree, hit)
        ELSE R(hit) = <<"UNKNOWN", "">>
    BY <2>1, ResolvesToRoute DEF R
  <2> QED BY <2>2 DEF RoutesOf
<1> HIDE DEF R
<1> QED BY <1>1, <1>2

\* A command of sast that is about to write holds what scan_source returned, and
\* so all it holds is attributed.
LEMMA AttributedKept ==
  ASSUME Inv, Attributed, [Next]_vars
  PROVE  Attributed'
<1> SUFFICES ASSUME command'.cmd = "sast", pc' = "write" PROVE Attributed'
  BY DEF Attributed
<1>1. CASE SastReturns
  <2> DEFINE tree == TreeOf[command.target]
  <2>1. command \in Commands /\ command.cmd = "sast" /\ command' = command
        /\ findings' = scan_source(tree)
    BY <1>1 DEF SastReturns, Inv, TypeOK
  <2>2. tree \in Tree
    BY <2>1, LineAssumption, CliAssumption
  <2> HIDE DEF tree
  <2>3. /\ \A hit \in tree.hits : \E r \in RoutesOf(tree, hit) : <<hit.rule>> \o r \in findings'
        /\ \A f \in findings' : \E hit \in tree.hits :
             f \in {<<hit.rule>> \o r : r \in RoutesOf(tree, hit)}
    BY <2>1, <2>2, ScanAttributes
  <2> QED BY <2>1, <2>3 DEF Attributed, RoutesOf, tree
<1>2. CASE pc = "write" /\ UNCHANGED <<command, findings>>
  BY <1>2 DEF Attributed
<1>3. SastReturns \/ (pc = "write" /\ UNCHANGED <<command, findings>>)
  <2>1. ~ \E c \in Commands : Begin(c)
    BY DEF Begin
  <2>2. ~(ScanReturns \/ GateReads \/ ScanFails \/ ReadFails \/ FilterFails \/ Write \/ WriteFails
          \/ Exit \/ Kill)
    BY DEF ScanReturns, GateReads, ScanFails, ReadFails, FilterFails, Write, WriteFails, Exit, Kill,
           Ends
  <2>3. ~Correlates /\ ~Filter
    BY DEF Correlates, Filter, Inv, InCourse
  <2>4. CASE Tick \/ Edit \/ UNCHANGED vars
    BY <2>4 DEF Tick, Edit, vars
  <2> QED BY <2>1, <2>2, <2>3, <2>4 DEF Next
<1> QED BY <1>1, <1>2, <1>3

\* A finding of sast names a route its line can be reached by, UNKNOWN only when
\* there is none, and no hit is left out, for every source tree: any number of
\* handlers and models, inside each other or not, in files that parse or not
\* (build_index, RouteIndex.resolve, _finding_from_result).
THEOREM FindingsAreAttributed == Spec => []Attributed
<1>1. Init => Attributed
  BY DEF Init, Attributed
<1>2. Inv /\ Attributed /\ [Next]_vars => Attributed'
  BY AttributedKept
<1>3. Spec => []Inv
  BY FilesAreTrue
<1> QED BY <1>1, <1>2, <1>3, PTL DEF Spec

================================================================================
