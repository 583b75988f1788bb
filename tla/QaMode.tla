------------------------------- MODULE QaMode -------------------------------
(***************************************************************************)
(* The production checklist of the terminal UI (qa-mode.ts): the sections  *)
(* asked for run one after the other, each in a child process, and the     *)
(* report file is rewritten at every change so that a run that dies leaves *)
(* what it had found.                                                      *)
(***************************************************************************)
EXTENDS Naturals, Sequences, SequencesExt

SectionOrder == <<"deps", "ci", "release", "relay", "smoke">>
Numerals == <<"1", "2", "3", "4", "5">>

(* tokenToSection: a name, its alias or its number; anything else is unknown. *)
TokenToSection(t) ==
    CASE t = "dependencies" -> "deps"
      [] t \in Range(SectionOrder) -> t
      [] t \in Range(Numerals) -> SectionOrder[CHOOSE i \in DOMAIN Numerals : Numerals[i] = t]
      [] OTHER -> "unknown"

(* resolveSelectedSections: nothing asked for, or "all" before any unknown
   token, is every section; a repeated section is kept once; an unknown token
   is an error. *)
SelectedSections(tokens) ==
    LET cut(t) == t = "all" \/ TokenToSection(t) = "unknown"
        first == SelectInSeq(tokens, cut)
        add(s, t) == IF TokenToSection(t) \in Range(s) THEN s ELSE Append(s, TokenToSection(t))
    IN  CASE tokens = <<>> -> SectionOrder
          [] first # 0 /\ tokens[first] = "all" -> SectionOrder
          [] first # 0 /\ tokens[first] # "all" -> <<>>
          [] OTHER -> FoldLeft(add, <<>>, tokens)

VARIABLES
    qaSections,    \* the sections of this run, <<>> when the terminal UI does not run the checklist
    qaStatus,      \* section -> "pending", "running", "pass", "fail"
    qaNext,        \* the index of the loop
    qaPassed,      \* allPassed
    qaReport,      \* what the report file says: the statuses and the overall result
    qaInstalls     \* sections run without the skip-install flag

qaVars == <<qaSections, qaStatus, qaNext, qaPassed, qaReport, qaInstalls>>

Report(status, overall) == [status |-> status, overall |-> overall]

(* runProductionQaMode up to its loop, for the tokens of the command line. *)
QaInit(tokens) ==
    /\ qaSections = SelectedSections(tokens)
    /\ qaStatus = [i \in DOMAIN SelectedSections(tokens) |-> "pending"]
    /\ qaNext = 1
    /\ qaPassed = TRUE
    /\ qaReport = Report([i \in DOMAIN SelectedSections(tokens) |-> "pending"], "null")
    /\ qaInstalls = 0

QaOff ==
    /\ qaSections = <<>> /\ qaStatus = <<>> /\ qaNext = 1 /\ qaPassed = TRUE
    /\ qaReport = Report(<<>>, "null") /\ qaInstalls = 0

QaStart(skipInstall) ==
    /\ qaNext \in DOMAIN qaSections
    /\ qaStatus[qaNext] = "pending"
    /\ qaStatus' = [qaStatus EXCEPT ![qaNext] = "running"]
    /\ qaReport' = Report(qaStatus', "null")
    /\ qaInstalls' = qaInstalls + (IF skipInstall \/ qaNext > 1 THEN 0 ELSE 1)
    /\ UNCHANGED <<qaSections, qaNext, qaPassed>>

(* The result of the last section only decides: a plausible slip of the loop. *)
QaFinishSectionLast(passed) ==
    /\ qaNext \in DOMAIN qaSections
    /\ qaStatus[qaNext] = "running"
    /\ qaStatus' = [qaStatus EXCEPT ![qaNext] = IF passed THEN "pass" ELSE "fail"]
    /\ qaReport' = Report(qaStatus', "null")
    /\ qaPassed' = passed
    /\ qaNext' = qaNext + 1
    /\ UNCHANGED <<qaSections, qaInstalls>>

(* The child ends, or cannot be started (error): runSection resolves. *)
QaFinishSection(passed) ==
    /\ qaNext \in DOMAIN qaSections
    /\ qaStatus[qaNext] = "running"
    /\ qaStatus' = [qaStatus EXCEPT ![qaNext] = IF passed THEN "pass" ELSE "fail"]
    /\ qaReport' = Report(qaStatus', "null")
    /\ qaPassed' = (qaPassed /\ passed)
    /\ qaNext' = qaNext + 1
    /\ UNCHANGED <<qaSections, qaInstalls>>

(* The final report, and the exit code from allPassed. *)
QaFinish ==
    /\ qaSections # <<>> /\ qaNext = Len(qaSections) + 1
    /\ qaReport.overall = "null"
    /\ qaReport' = Report(qaStatus, IF qaPassed THEN "pass" ELSE "fail")
    /\ UNCHANGED <<qaSections, qaStatus, qaNext, qaPassed, qaInstalls>>

(***************************************************************************)
(* Whatever was asked for, and wherever the run stops, the report file     *)
(* never claims a pass while a section failed or is unfinished, it claims  *)
(* a failure only for a section that failed, no section is run twice, and  *)
(* dependencies are installed at most once.                                *)
(***************************************************************************)
QaReportHonest ==
    /\ qaReport.overall = "pass" => \A i \in DOMAIN qaSections : qaReport.status[i] = "pass"
    /\ qaReport.overall = "fail" => \E i \in DOMAIN qaSections : qaReport.status[i] = "fail"
    /\ \A i, j \in DOMAIN qaSections : qaSections[i] = qaSections[j] => i = j
    /\ qaInstalls <= 1
=============================================================================
