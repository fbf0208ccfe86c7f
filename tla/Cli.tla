---------------------------------- MODULE Cli ----------------------------------
(***************************************************************************)
(* src/heimdall/cli.py: the commands scan, sast, gate and correlate, run   *)
(* one after the other over some days by a user or a job, in a directory   *)
(* with a register of accepted risks and the files the commands write.     *)
(* What a file says may be read by any later command.                      *)
(***************************************************************************)
EXTENDS RiskGate, Sast

CONSTANTS
  Targets, Exposed,     \* what a scan of a target may find
  Sources, TreeOf,      \* directories of source code
  Suites, SuiteTarget,  \* NoName when the suite is not found or not valid
  NoName,               \* an option not given; the empty name
  Files, NoFile,        \* the paths of --out, --baseline and reports
  Commands,             \* the command lines that are used
  Registers,            \* what the register may say, Broken or NoFile
  Broken,               \* accepted-risk.yml that load_register refuses
  Torn,                 \* a file that was not written to its end
  MaxCommands, MaxDay   \* bounds

Command ==
  [cmd : {"scan", "sast", "gate", "correlate"}, suite : Suites \cup {NoName},
   target : Targets \cup Sources \cup {NoName}, report : Files \cup {NoFile},
   baseline : Files \cup {NoFile}, accepted : BOOLEAN, fail : BOOLEAN,
   fmt : {"json", "sarif", "md"}, out : Files \cup {NoFile}]

ASSUME CliAssumption ==
  /\ NoName \notin Targets \cup Sources \cup Suites
  /\ NoFile \notin Files
  /\ Exposed \in [Targets -> SUBSET Fingerprints]
  /\ SuiteTarget \in [Suites -> Targets \cup {NoName}]
  /\ TreeOf \in [Sources -> Tree]
  /\ \A s \in Sources : scan_source(TreeOf[s]) \subseteq Fingerprints
  /\ Commands # {} /\ Commands \subseteq Command
  /\ Registers \subseteq Register \cup {Broken, NoFile}
  /\ MaxCommands \in Nat /\ MaxDay \in Nat

\* what click requires of each command line
ASSUME LineAssumption ==
  \A c \in Commands :
    /\ c.cmd = "scan" => c.target \in Targets \cup {NoName}
    /\ c.cmd = "sast" => c.target \in Sources
    /\ c.cmd \in {"gate", "correlate"} => c.report \in Files
    /\ c.cmd = "correlate" => c.baseline \in Files

VARIABLES
  day, register, disk,
  pc,         \* where the command is; "idle" between two
  command, findings, target,   \* its line, what it holds, the name it reports
  exit,       \* status 0, 2 for findings, 1, 2 for a wrong command line, none
  ran,
  \* history: where the findings in hand come from, what any report showed,
  \* what a register accepted, what commands have dealt with
  origin, shown, forgiven, dealt

vars == <<day, register, disk, pc, command, findings, target, exit, ran,
          origin, shown, forgiven, dealt>>

(* found is what the scan returned, excused what the filters on the way    *)
(* dropped with reason; blind when a gate took a document without findings *)
(* for a report, both when --suite and --target were given.                *)
Origin == [scanned : Targets \cup Sources \cup {NoName}, found : SUBSET Fingerprints,
           excused : SUBSET Fingerprints, blind : BOOLEAN, both : BOOLEAN]
Report == [fmt : {"json", "sarif", "md", "correlation"},
           target : Targets \cup Sources \cup {NoName},
           findings : SUBSET Fingerprints, origin : Origin]
ASSUME DiskAssumption == NoFile \notin Report /\ Torn \notin Report
Nothing == [scanned |-> NoName, found |-> {}, excused |-> {}, blind |-> TRUE, both |-> FALSE]

TypeOK ==
  /\ day \in 0..MaxDay /\ register \in Registers /\ ran \in 0..MaxCommands
  /\ disk \in [Files -> Report \cup {NoFile, Torn}]
  /\ pc \in {"idle", "scan", "read", "filter", "write", "exit"}
  /\ command \in Commands /\ target \in Targets \cup Sources \cup {NoName}
  /\ findings \in SUBSET Fingerprints /\ origin \in Origin
  /\ exit \in {"passed", "failed", "error", "usage", "killed", "running"}
  /\ (exit = "running") = (pc # "idle")
  /\ shown \in SUBSET Fingerprints /\ forgiven \in SUBSET Fingerprints
  /\ dealt \in SUBSET Fingerprints

Init ==
  /\ day = 0 /\ register \in Registers /\ ran = 0
  /\ disk = [f \in Files |-> NoFile]
  /\ pc = "idle" /\ command = CHOOSE c \in Commands : TRUE
  /\ target = NoName /\ findings = {}
  /\ exit = "passed" /\ origin = Nothing
  /\ shown = {} /\ forgiven = {} /\ dealt = {}

------------------------------------------------------------------------------
\* read by json.loads
Readable(file) == disk[file] # Torn /\ disk[file].fmt # "md"
\* doc.get("findings", []): a SARIF document and the result of correlate have
\* no such key
Rows(file) == IF disk[file].fmt = "json" THEN disk[file].findings ELSE {}

Ends(status) ==
  /\ pc' = "idle" /\ exit' = status
  /\ UNCHANGED <<day, register, command, findings, target, ran, origin, shown, forgiven, dealt>>

\* click.Path(exists=True)
Missing(c) ==
  \/ c.accepted /\ register = NoFile
  \/ \E file \in {c.report, c.baseline} \ {NoFile} : disk[file] = NoFile

Begin(c) ==
  /\ pc = "idle" /\ ran < MaxCommands
  /\ ran' = ran + 1 /\ command' = c
  /\ findings' = {} /\ target' = NoName /\ origin' = Nothing
  /\ IF Missing(c) THEN pc' = "idle" /\ exit' = "usage"
     ELSE /\ pc' = IF c.cmd \in {"scan", "sast"} THEN "scan" ELSE "read"
          /\ exit' = "running"
  /\ UNCHANGED <<day, register, disk, shown, forgiven, dealt>>

(* scan_cmd: a suite is scanned at its own target; --target beside it only *)
(* goes into the report.                                                   *)
Scanned == IF command.suite # NoName THEN SuiteTarget[command.suite] ELSE command.target
Named == IF command.target # NoName THEN command.target ELSE Scanned

ScanReturns ==
  /\ pc = "scan" /\ command.cmd = "scan" /\ Scanned # NoName
  /\ \E found \in SUBSET Exposed[Scanned] :
       /\ findings' = found
       /\ origin' = [scanned |-> Scanned, found |-> found, excused |-> {}, blind |-> FALSE,
                     both |-> command.suite # NoName /\ command.target # NoName]
  /\ target' = Named /\ pc' = "filter"
  /\ UNCHANGED <<day, register, disk, command, exit, ran, shown, forgiven, dealt>>

SastReturns ==
  /\ pc = "scan" /\ command.cmd = "sast"
  /\ LET found == scan_source(TreeOf[command.target]) IN
       /\ findings' = found
       /\ origin' = [scanned |-> command.target, found |-> found, excused |-> {},
                     blind |-> FALSE, both |-> FALSE]
  /\ target' = command.target /\ pc' = "write"
  /\ UNCHANGED <<day, register, disk, command, exit, ran, shown, forgiven, dealt>>

\* no suite and no target, an unknown suite, ScanError, ScopeError, a lost
\* request; Semgrep missing, late or with errors
ScanFails == pc = "scan" /\ Ends("error") /\ UNCHANGED disk

GateReads ==
  /\ pc = "read" /\ command.cmd = "gate" /\ Readable(command.report)
  /\ findings' = Rows(command.report)
  /\ target' = IF disk[command.report].fmt = "json" THEN disk[command.report].target ELSE NoName
  /\ origin' = [disk[command.report].origin EXCEPT !.blind = @ \/ disk[command.report].fmt # "json"]
  /\ pc' = "filter"
  /\ UNCHANGED <<day, register, disk, command, exit, ran, shown, forgiven, dealt>>

\* correlate_cmd reads both of its reports and writes no findings of its own
Correlates ==
  /\ pc = "read" /\ command.cmd = "correlate"
  /\ Readable(command.report) /\ Readable(command.baseline)
  /\ pc' = "write"
  /\ UNCHANGED <<day, register, disk, command, findings, target, exit, ran,
                 origin, shown, forgiven, dealt>>

\* JSONDecodeError, which nothing catches
ReadFails ==
  /\ pc = "read"
  /\ \/ ~Readable(command.report)
     \/ command.cmd = "correlate" /\ ~Readable(command.baseline)
  /\ Ends("error") /\ UNCHANGED disk

\* _apply_filters, on today's date
Accepting == IF command.accepted THEN register ELSE [f \in Fingerprints |-> NoEntry]
Prior == IF command.baseline # NoFile THEN Rows(command.baseline) ELSE {}
Filtered ==
  /\ command.accepted => register \in Register
  /\ command.baseline # NoFile => Readable(command.baseline)
Filter ==
  /\ pc = "filter" /\ Filtered
  /\ findings' = apply_filters(findings, Accepting, day, Prior)
  /\ LET accepted == findings \cap Accepted(Accepting, day) IN
       /\ origin' = [origin EXCEPT !.excused = @ \cup accepted \cup (findings \cap Prior)]
       /\ forgiven' = forgiven \cup accepted
  /\ pc' = "write"
  /\ UNCHANGED <<day, register, disk, command, target, exit, ran, shown, dealt>>
\* RiskRegisterError, or a baseline that is no JSON
FilterFails == pc = "filter" /\ ~Filtered /\ Ends("error") /\ UNCHANGED disk

\* render
Rendered ==
  [fmt |-> IF command.cmd = "correlate" /\ command.fmt = "json" THEN "correlation"
           ELSE command.fmt,
   target |-> target, findings |-> findings, origin |-> origin]
Written == IF command.out = NoFile THEN disk ELSE [disk EXCEPT ![command.out] = Rendered]
Write ==
  /\ pc = "write"
  /\ disk' = Written /\ shown' = shown \cup findings
  /\ pc' = "exit"
  /\ UNCHANGED <<day, register, command, findings, target, exit, ran, origin, forgiven, dealt>>

(* write_text empties the file before it fills it: a full disk or a signal *)
(* leaves neither the old report nor the new one.                          *)
WriteFails ==
  /\ pc = "write" /\ command.out # NoFile
  /\ disk' \in {disk, [disk EXCEPT ![command.out] = Torn]}
  /\ Ends("error")

\* mutant: a build that fails does so before its report is written
Exit_Early ==
  /\ pc = "exit" \/ (pc = "write" /\ command.fail /\ fail_on(findings))
  /\ pc' = "idle" /\ dealt' = dealt \cup origin.found
  /\ exit' = IF command.fail /\ fail_on(findings) THEN "failed" ELSE "passed"
  /\ UNCHANGED <<day, register, disk, command, findings, target, ran, origin, shown, forgiven>>
\* the exit status, when the report is out
Exit ==
  /\ pc = "exit"
  /\ pc' = "idle" /\ dealt' = dealt \cup origin.found
  /\ exit' = IF command.fail /\ fail_on(findings) THEN "failed" ELSE "passed"
  /\ UNCHANGED <<day, register, disk, command, findings, target, ran, origin, shown, forgiven>>

Kill ==
  /\ pc # "idle" /\ Ends("killed")
  /\ disk' \in IF pc = "write" /\ command.out # NoFile
               THEN {disk, [disk EXCEPT ![command.out] = Torn]} ELSE {disk}

\* midnight
Tick ==
  /\ day < MaxDay /\ day' = day + 1
  /\ UNCHANGED <<register, disk, pc, command, findings, target, exit, ran,
                 origin, shown, forgiven, dealt>>
\* somebody edits accepted-risk.yml
Edit ==
  /\ register' \in Registers \ {register}
  /\ UNCHANGED <<day, disk, pc, command, findings, target, exit, ran,
                 origin, shown, forgiven, dealt>>

Next ==
  \/ \E c \in Commands : Begin(c)
  \/ ScanReturns \/ SastReturns \/ ScanFails
  \/ GateReads \/ Correlates \/ ReadFails
  \/ Filter \/ FilterFails
  \/ Write \/ WriteFails \/ Exit \/ Kill
  \/ Tick \/ Edit

Spec == Init /\ [][Next]_vars

------------------------------------------------------------------------------
\* A command with --fail-on that ends by itself fails exactly when the scan its
\* findings come from, however many gates ago, found a grave one that no
\* register accepted on the day it was applied and no baseline listed -- unless
\* somewhere on the way a document without findings was taken for a report
\* (_apply_filters, gate_cmd and the exit statuses of scan_cmd).
ExitExplained ==
  (exit \in {"passed", "failed"} /\ command.fail /\ ~origin.blind) =>
    (exit = "failed") = ((origin.found \cap Grave) \ origin.excused # {})

\* Who looks at a build that failed for its findings finds them in the report
\* the command wrote: status 2 of a command that was not misused comes after a
\* complete report with a grave finding (scan_cmd 138-153, gate_cmd 316-325).
FailIsReported ==
  (exit = "failed" /\ command.out # NoFile) =>
    /\ disk[command.out] \notin {NoFile, Torn}
    /\ disk[command.out].findings \cap Grave # {}

\* Baselines hide findings for ever, but only such as somebody could have seen:
\* whatever a command that ended by itself has dealt with was in some report,
\* or a register accepted it while its entry was active (risk.py 55-129).
ShownBefore == dealt \subseteq shown \cup forgiven

\* A JSON report names what was scanned, through every gate, unless --target
\* was given beside --suite (cli.py 115) or a gate read something else.
ReportNamesScanned ==
  \A file \in Files :
    disk[file] \notin {NoFile, Torn} =>
      \/ disk[file].target = disk[file].origin.scanned
      \/ disk[file].origin.both \/ disk[file].origin.blind

\* A finding of sast names a route its line can be reached by: the one of a
\* handler around it, or of a handler that takes the model around it; it says
\* UNKNOWN only of lines with neither, and no hit is left out (RouteIndex).
Attributed ==
  (command.cmd = "sast" /\ pc = "write") =>
    LET tree == TreeOf[command.target]
        Routes(hit) == IF RoutesFor(tree, hit) # {} THEN RoutesFor(tree, hit)
                       ELSE {<<"UNKNOWN", "">>}
    IN /\ \A hit \in tree.hits : \E r \in Routes(hit) : <<hit.rule>> \o r \in findings
       /\ \A f \in findings : \E hit \in tree.hits :
            f \in {<<hit.rule>> \o r : r \in Routes(hit)}

------------------------------------------------------------------------------
\* The parts of the inductive invariant.

\* what a command holds is what was found less what was excused; the rest of it
\* was shown or accepted
InHand ==
  /\ ~origin.blind => findings = origin.found \ origin.excused
  /\ origin.found \subseteq findings \cup shown \cup forgiven
  /\ target = origin.scanned \/ origin.both \/ origin.blind

\* and so is what a report says
OnDisk ==
  \A file \in Files : LET doc == disk[file] IN
    doc \notin {NoFile, Torn} =>
      /\ ~doc.origin.blind => doc.findings = doc.origin.found \ doc.origin.excused
      /\ doc.origin.found \subseteq shown \cup forgiven
      /\ doc.findings \subseteq shown

\* click has looked for the files, and no command deletes one
FilesThere ==
  pc # "idle" =>
    /\ command.report # NoFile => disk[command.report] # NoFile
    /\ command.baseline # NoFile => disk[command.baseline] # NoFile

\* the report is out before the exit status is decided
ReportOut ==
  pc = "exit" =>
    /\ origin.found \subseteq shown \cup forgiven
    /\ command.out # NoFile => disk[command.out] = Rendered

\* a command is where its name leads, and its exit status is about what it held
InCourse ==
  /\ pc = "filter" => command.cmd \in {"scan", "gate"}
  /\ pc = "read" => command.cmd \in {"gate", "correlate"}
  /\ exit \in {"passed", "failed"} /\ command.fail => (exit = "failed") = fail_on(findings)

\* What the files of a command say, whoever kills it and whatever it was given: a
\* build that failed has its report, and a report names what was scanned and
\* holds what was found there less what somebody accepted or had seen
\* (scan_cmd, gate_cmd, json_reporter.render).
Inv ==
  /\ TypeOK /\ FailIsReported /\ ReportNamesScanned
  /\ InHand /\ OnDisk /\ FilesThere /\ ReportOut /\ InCourse
================================================================================
