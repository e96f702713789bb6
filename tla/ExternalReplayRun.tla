------------------------- MODULE ExternalReplayRun -------------------------
(***************************************************************************)
(* main() of run_ees_australian_external_replay.py (archive 151): the four *)
(* outputs of a run, and what successive invocations into the same output  *)
(* directory do to them.  An invocation either solves its days in a        *)
(* process pool and writes everything at the end, or takes up the tables   *)
(* that are there (--resume-summary).                                      *)
(*                                                                         *)
(* A table is abstracted to the settings it was solved under and the days  *)
(* it holds; a hash is the content of the file.  An opened file is torn    *)
(* until it is closed and holds whatever rows had been flushed.  Refused   *)
(* invocations change nothing and are not steps.  The split, the network   *)
(* and the inputs are the same in all invocations.                         *)
(***************************************************************************)
EXTENDS Naturals

CONSTANTS
  Days,        \* the eligible days
  FirstDays,   \* the days left by --limit-days
  RunSettings, \* --sensitivity-run-id: beta and telemetry
  MaxStarts    \* bound: invocations

ASSUME ReplayAssumption ==
  /\ FirstDays \subseteq Days
  /\ FirstDays # {}
  /\ MaxStarts \in Nat

VARIABLES
  intervals, days,      \* the tables: absent, torn or whole; setting and rows
  summary, manifest,    \* the documents: scope of the run; the other files
  phase,                \* where main() is
  args,                 \* the command line of the invocation
  solved,               \* days whose _run_day has returned
  table,                \* the rows in memory
  starts

disk == <<intervals, days, summary, manifest>>
runVars == <<disk, phase, args, solved, table, starts>>

Outputs == {"intervals", "days", "summary", "manifest"}

Arguments ==
  [setting : RunSettings, limit : BOOLEAN, overwrite : BOOLEAN, resume : BOOLEAN]

\* The days an invocation is asked for.
Eligible == IF args.limit THEN FirstDays ELSE Days

NoTable(s) == [setting |-> s, rows |-> {}]
NoTableFile(s) == [state |-> "absent", content |-> NoTable(s)]
NoSummary(s) ==
  [state |-> "absent",
   content |-> [setting |-> s, full |-> FALSE, resumed |-> FALSE]]
NoManifest(s) ==
  [state |-> "absent",
   content |-> [intervals |-> NoTableFile(s), days |-> NoTableFile(s),
                summary |-> NoSummary(s)]]

\* An empty output directory.
RunInit ==
  \E s \in RunSettings :
    /\ intervals = NoTableFile(s)
    /\ days = NoTableFile(s)
    /\ summary = NoSummary(s)
    /\ manifest = NoManifest(s)
    /\ phase = "idle"
    /\ args = [setting |-> s, limit |-> FALSE, overwrite |-> FALSE, resume |-> FALSE]
    /\ solved = {}
    /\ table = NoTable(s)
    /\ starts = 0

-----------------------------------------------------------------------------
Existing ==
  {f \in Outputs :
     \/ f = "intervals" /\ intervals.state # "absent"
     \/ f = "days" /\ days.state # "absent"
     \/ f = "summary" /\ summary.state # "absent"
     \/ f = "manifest" /\ manifest.state # "absent"}

Start(a) ==
  /\ phase = "idle"
  /\ starts < MaxStarts
  /\ starts' = starts + 1
  /\ args' = a
  /\ solved' = {}
  /\ UNCHANGED disk

SolveStart(a) ==
  /\ Start(a)
  /\ ~a.resume
  /\ Existing = {} \/ a.overwrite
  /\ phase' = "solve"
  /\ UNCHANGED table

\* Both tables must be files; the day table must parse, be paired (a torn one
\* may happen to be) and, for the aggregates, have a row.
ResumeStart(a) ==
  /\ Start(a)
  /\ a.resume /\ ~a.limit
  /\ {"intervals", "days"} \subseteq Existing
  /\ days.content.rows # {}
  /\ table' = days.content
  /\ phase' = "openSummary"

(***************************************************************************)
(* executor.map over the eligible days: the days return in any order, and  *)
(* nothing is kept when one of them raises.                                *)
(***************************************************************************)
RunDay(d) ==
  /\ phase = "solve"
  /\ d \in Eligible \ solved
  /\ solved' = solved \cup {d}
  /\ UNCHANGED <<disk, phase, args, table, starts>>

\* Fault: the days that returned are written although others did not.
FaultCollect ==
  /\ phase = "solve"
  /\ solved # {}
  /\ table' = [setting |-> args.setting, rows |-> solved]
  /\ phase' = "openIntervals"
  /\ UNCHANGED <<disk, args, solved, starts>>

Collect ==
  /\ phase = "solve"
  /\ solved = Eligible
  /\ table' = [setting |-> args.setting, rows |-> solved]
  /\ phase' = "openIntervals"
  /\ UNCHANGED <<disk, args, solved, starts>>

(***************************************************************************)
(* The outputs, in order.  Opening truncates; some rows may reach the disk *)
(* before the file is closed.                                              *)
(***************************************************************************)
Torn == {[state |-> "torn", content |-> [table EXCEPT !.rows = r]] :
           r \in SUBSET table.rows}
WholeTable == [state |-> "whole", content |-> table]

WriteIntervals ==
  /\ \/ /\ phase = "openIntervals"
        /\ intervals' \in Torn
        /\ phase' = "closeIntervals"
     \/ /\ phase = "closeIntervals"
        /\ intervals' = WholeTable
        /\ phase' = "openDays"
  /\ UNCHANGED <<days, summary, manifest, args, solved, table, starts>>

WriteDays ==
  /\ \/ /\ phase = "openDays"
        /\ days' \in Torn
        /\ phase' = "closeDays"
     \/ /\ phase = "closeDays"
        /\ days' = WholeTable
        /\ phase' = "openSummary"
  /\ UNCHANGED <<intervals, summary, manifest, args, solved, table,
                 starts>>

\* Fault: run_scope ignores --limit-days.
FaultRunScope == TRUE

\* run_scope: FULL unless --limit-days is given.
RunScope == ~args.limit

WriteSummary ==
  /\ \/ /\ phase = "openSummary"
        /\ summary' = [summary EXCEPT !.state = "torn"]
        /\ phase' = "closeSummary"
     \/ /\ phase = "closeSummary"
        /\ summary' =
             [state |-> "whole",
              content |-> [setting |-> args.setting, full |-> RunScope,
                           resumed |-> args.resume]]
        /\ phase' = "openManifest"
  /\ UNCHANGED <<intervals, days, manifest, args, solved, table, starts>>

WriteManifest ==
  /\ \/ /\ phase = "openManifest"
        /\ manifest' = [manifest EXCEPT !.state = "torn"]
        /\ phase' = "closeManifest"
     \/ /\ phase = "closeManifest"
        /\ manifest' =
             [state |-> "whole",
              content |-> [intervals |-> intervals, days |-> days,
                           summary |-> summary]]
        /\ phase' = "idle"
  /\ UNCHANGED <<intervals, days, summary, args, solved, table, starts>>

\* A day raises, or the process is killed: main() ends where it is.
Stop ==
  /\ phase # "idle"
  /\ phase' = "idle"
  /\ UNCHANGED <<disk, args, solved, table, starts>>

RunNext ==
  \/ \E a \in Arguments : SolveStart(a) \/ ResumeStart(a)
  \/ \E d \in Days : RunDay(d)
  \/ Collect \/ WriteIntervals \/ WriteDays \/ WriteSummary \/ WriteManifest
  \/ Stop

RunSpec == RunInit /\ [][RunNext]_runVars

-----------------------------------------------------------------------------
(***************************************************************************)
(* A closed table holds every day that its run was asked for: a day that   *)
(* raised leaves no table behind, rather than one without that day.        *)
(***************************************************************************)
TablesAreComplete ==
  \A f \in {intervals, days} :
    f.state = "whole" => f.content.rows \in {FirstDays, Days}

\* What a reader of the directory can check: the manifest against the files.
BundleVerifies ==
  /\ manifest.state = "whole"
  /\ manifest.content = [intervals |-> intervals, days |-> days,
                         summary |-> summary]

(***************************************************************************)
(* A bundle that verifies is never a mixture of two invocations, unless it *)
(* was finalized by --resume-summary: tables and summary are of one run,   *)
(* with the scope and the settings the summary states, whatever was        *)
(* overwritten or interrupted before.                                      *)
(***************************************************************************)
OneRun ==
  /\ intervals.state = "whole" /\ days.state = "whole"
  /\ intervals.content = days.content
  /\ summary.content.setting = days.content.setting
  /\ days.content.rows = IF summary.content.full THEN Days ELSE FirstDays

VerifiedBundleIsOneRun ==
  BundleVerifies /\ ~summary.content.resumed => OneRun

(***************************************************************************)
(* What --resume-summary claims to do: "finalize complete existing         *)
(* interval/day CSVs without re-solving".  The code looks only at the day  *)
(* table, and only at whether its controls are paired.                     *)
(***************************************************************************)
ResumeFinalizesCompleteRun ==
  BundleVerifies /\ summary.content.resumed => OneRun
=============================================================================
