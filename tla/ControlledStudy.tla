-------------------------- MODULE ControlledStudy --------------------------
(***************************************************************************)
(* The controlled study as a chain of commands over files: request choice  *)
(* (V14), scenario design (V12.3), design and experiment (V16), the        *)
(* summary and the audits of the experiment, and the figure package.  Each *)
(* file carries the hashes of some of its inputs; a command compares some  *)
(* of them before it runs.                                                 *)
(*                                                                         *)
(* The files exist from the start, as deposited.  A hash is the content it *)
(* stands for: the version of the source envelope, the number of a request *)
(* response or of an experiment.  Commands run one at a time, and a refused*)
(* or failed one changes nothing and is not a step.  Of the tasks of an    *)
(* experiment, which share no memory, one is modelled.  A JSON file is     *)
(* either the old or the new one, since a torn one raises when it is read; *)
(* a torn table is read, and only some readers count its rows.             *)
(***************************************************************************)
EXTENDS StudyTrajectory

CONSTANTS MaxCommands   \* bound: commands after the deposit

ASSUME CommandsAssumption == MaxCommands \in Nat

VARIABLES
  source, execution, dynamic,   \* source versions: envelope, methods, scenarios
  response, behaviour,          \* V14: request responses, chosen requests
  design, result,               \* V16
  tables,                       \* the two tables beside result
  evidence, closure, delivery,  \* summary and audits of an experiment
  package,                      \* the figure data
  writing,                      \* how far the experiment has written
  complete, unfinished,         \* history: experiments whose result was
                                \* COMPLETE, and killed before their tables ended
  commands

inputs == <<source, execution, dynamic, response, behaviour, design>>
reports == <<evidence, closure, delivery, package>>
history == <<complete, unfinished>>
vars == <<trajectory, inputs, result, tables, reports, writing, history, commands>>

Versions == 1 .. MaxCommands + 1
Runs == 0 .. MaxCommands
RequestFiles == [source : Versions, number : Runs, complete : BOOLEAN]
Designs ==
  [source : Versions, dynamic : Versions, behaviour : RequestFiles, excluded : BOOLEAN]
Results ==
  [run : Runs, design : Designs, behaviour : RequestFiles, source : Versions,
   execution : Versions, evident : BOOLEAN, complete : BOOLEAN]
\* A table cut short has fewer rows; one clipped in its last row has them all.
Table == [run : Runs, rows : {"whole", "clipped", "short"}]
Tables == [intervals : Table, trajectories : Table]
\* read: the tables whose rows went into the report.
Reports == [run : Runs, read : SUBSET Table, complete : BOOLEAN]
\* rows: each table packed, with the experiment of the document it came with.
Packages ==
  [result : Runs, evidence : Runs, closure : Runs, delivery : Runs,
   rows : SUBSET [run : Runs, table : Table]]
Writing ==
  {"nothing", "openIntervals", "closeIntervals", "openTrajectories", "closeTrajectories"}

\* Types, and that an experiment is in progress only while a command runs.
TypeOK ==
  /\ TrajectoryTypeOK
  /\ {source, execution, dynamic} \subseteq Versions
  /\ {response, behaviour} \subseteq RequestFiles
  /\ design \in Designs
  /\ result \in Results
  /\ tables \in Tables
  /\ {evidence, closure, delivery} \subseteq Reports
  /\ package \in Packages
  /\ writing \in Writing
  /\ writing # "nothing" => stage = "idle"
  /\ {complete, unfinished} \subseteq SUBSET Runs
  /\ commands \in Runs

Deposit == [source |-> 1, number |-> 0, complete |-> TRUE]
DepositedDesign ==
  [source |-> 1, dynamic |-> 1, behaviour |-> Deposit, excluded |-> TRUE]
TableOf(run) == [run |-> run, rows |-> "whole"]
RowsOf(run, read) == {[run |-> run, table |-> t] : t \in read}
DepositedReport(read) == [run |-> 0, read |-> read, complete |-> TRUE]

Init ==
  /\ Idle
  /\ source = 1 /\ execution = 1 /\ dynamic = 1
  /\ response = Deposit
  /\ behaviour = Deposit
  /\ design = DepositedDesign
  /\ result = [run |-> 0, design |-> DepositedDesign, behaviour |-> Deposit,
               source |-> 1, execution |-> 1, evident |-> TRUE, complete |-> TRUE]
  /\ tables = [intervals |-> TableOf(0), trajectories |-> TableOf(0)]
  /\ evidence = DepositedReport({TableOf(0)})
  /\ closure = DepositedReport({TableOf(0)})
  /\ delivery = DepositedReport({})
  /\ package = [result |-> 0, evidence |-> 0, closure |-> 0, delivery |-> 0,
                rows |-> RowsOf(0, {TableOf(0)})]
  /\ writing = "nothing"
  /\ complete = {0} /\ unfinished = {}
  /\ commands = 0

-----------------------------------------------------------------------------
\* A command starts when the last one has ended.
Command ==
  /\ stage = "idle" /\ writing = "nothing"
  /\ commands < MaxCommands
  /\ commands' = commands + 1
  /\ UNCHANGED <<writing, history>>

\* The envelope comes from the rating pipeline.
ReplaceSource ==
  /\ Command
  /\ source' = source + 1
  /\ UNCHANGED <<trajectory, execution, dynamic, response, behaviour, design,
                 result, tables, reports>>

ExecuteMethods ==
  /\ Command
  /\ execution' = source
  /\ UNCHANGED <<trajectory, source, dynamic, response, behaviour, design, result,
                 tables, reports>>

FreezeDynamic ==
  /\ Command
  /\ dynamic' = source
  /\ UNCHANGED <<trajectory, source, execution, response, behaviour, design, result,
                 tables, reports>>

\* run_response_surface: solves and screens may fail, and then it is BLOCKED.
RunResponse ==
  /\ Command
  /\ execution = source
  /\ \E ok \in BOOLEAN :
       response' = [source |-> source, number |-> commands', complete |-> ok]
  /\ UNCHANGED <<trajectory, source, execution, dynamic, behaviour, design, result,
                 tables, reports>>

\* analyze, of the request choice.
ChooseRequests ==
  /\ Command
  /\ response.complete
  /\ response.source = source
  /\ \E ok \in BOOLEAN : behaviour' = [response EXCEPT !.complete = ok]
  /\ UNCHANGED <<trajectory, source, execution, dynamic, response, design, result,
                 tables, reports>>

\* Fault: the requests are not compared with the source.
FaultFreezeDesign ==
  /\ Command
  /\ behaviour.complete
  /\ dynamic = source
  /\ design' = [source |-> source, dynamic |-> dynamic, behaviour |-> behaviour,
                excluded |-> FALSE]
  /\ UNCHANGED <<trajectory, source, execution, dynamic, response, behaviour, result,
                 tables, reports>>

\* _freeze_design: one of the assertions it writes is True.
FreezeDesign ==
  /\ Command
  /\ behaviour.complete
  /\ behaviour.source = source
  /\ dynamic = source
  /\ design' = [source |-> source, dynamic |-> dynamic, behaviour |-> behaviour,
                excluded |-> FALSE]
  /\ UNCHANGED <<trajectory, source, execution, dynamic, response, behaviour, result,
                 tables, reports>>

-----------------------------------------------------------------------------
StartExperiment ==
  /\ Command
  /\ design.source = source
  /\ design.behaviour = behaviour
  /\ execution = source
  /\ \E b \in PowerVector : AtMost(b, Capacity) /\ Fresh(b, "begin")
  /\ UNCHANGED <<inputs, result, tables, reports>>

Task ==
  /\ TaskStep
  /\ UNCHANGED <<inputs, result, tables, reports, writing, history, commands>>

\* The gates that read the recorded steps.
Evident ==
  /\ seen.solved /\ seen.screened
  /\ seen.replayed /\ seen.replaysPass
  /\ seen.opens /\ seen.closes

\* DYNAMIC_RESULTS_EXCLUDED_FROM_DESIGN, and all the others.
Verdict == Evident /\ design.excluded

\* Aggregation needs a solved step of every control and raises without one.
CannotAggregate ==
  /\ stage = "done"
  /\ seen.measured # Controls
  /\ Fresh(Nothing, "idle")
  /\ UNCHANGED <<inputs, result, tables, reports, writing, history, commands>>

WriteResult ==
  /\ stage = "done"
  /\ seen.measured = Controls
  /\ result' = [run |-> commands, design |-> design, behaviour |-> behaviour,
                source |-> source, execution |-> execution, evident |-> Evident,
                complete |-> Verdict]
  /\ complete' = IF Verdict THEN complete \cup {commands} ELSE complete
  /\ writing' = "openIntervals"
  /\ Fresh(Nothing, "idle")
  /\ UNCHANGED <<inputs, tables, reports, unfinished, commands>>

\* _write_csv opens the table in place; until it is closed, rows are missing.
OpenTable(name) ==
  \E rows \in {"clipped", "short"} :
    tables' = [tables EXCEPT ![name] = [run |-> result.run, rows |-> rows]]

CloseTable(name) == tables' = [tables EXCEPT ![name] = TableOf(result.run)]

\* Fault: the table of trajectories that is there is kept.
FaultWriteTables ==
  /\ \/ /\ writing = "openIntervals"
        /\ OpenTable("intervals")
        /\ writing' = "closeIntervals"
     \/ /\ writing = "closeIntervals"
        /\ CloseTable("intervals")
        /\ writing' = "nothing"
  /\ UNCHANGED <<trajectory, inputs, result, reports, history, commands>>

WriteTables ==
  /\ \/ /\ writing = "openIntervals"
        /\ OpenTable("intervals")
        /\ writing' = "closeIntervals"
     \/ /\ writing = "closeIntervals"
        /\ CloseTable("intervals")
        /\ writing' = "openTrajectories"
     \/ /\ writing = "openTrajectories"
        /\ OpenTable("trajectories")
        /\ writing' = "closeTrajectories"
     \/ /\ writing = "closeTrajectories"
        /\ CloseTable("trajectories")
        /\ writing' = "nothing"
  /\ UNCHANGED <<trajectory, inputs, result, reports, history, commands>>

\* The experiment is killed, or a worker raises.
Interrupt ==
  /\ stage # "idle" \/ writing # "nothing"
  /\ Fresh(Nothing, "idle")
  /\ writing' = "nothing"
  /\ unfinished' = IF writing = "nothing" THEN unfinished
                   ELSE unfinished \cup {result.run}
  /\ UNCHANGED <<inputs, result, tables, reports, complete, commands>>

-----------------------------------------------------------------------------
\* What a report says of the experiment and of the tables that it reads.
ReportOf(read, ok) == [run |-> result.run, read |-> read, complete |-> ok]
Counted(table) == table.rows # "short"

\* analyze: it counts the rows of both tables, and no more ties them to the result.
Summarise ==
  /\ Command
  /\ result.complete
  /\ \E ok \in BOOLEAN :
       evidence' = ReportOf({tables.intervals, tables.trajectories},
                            /\ ok
                            /\ Counted(tables.intervals)
                            /\ Counted(tables.trajectories))
  /\ UNCHANGED <<trajectory, inputs, result, tables, closure, delivery, package>>

\* SOURCE_HASHES_AND_STATUSES_VALID.
SameChain ==
  /\ design.behaviour = behaviour
  /\ result.behaviour = behaviour
  /\ result.design = design

\* The rows of the trajectory table are not counted.
AuditClosure ==
  /\ Command
  /\ behaviour.complete
  /\ result.complete
  /\ \E ok \in BOOLEAN : closure' = ReportOf({tables.trajectories}, ok /\ SameChain)
  /\ UNCHANGED <<trajectory, inputs, result, tables, evidence, delivery, package>>

\* The interval table is counted, and the steps are read from the result.
AuditDelivery ==
  /\ Command
  /\ result.complete
  /\ result.design = design
  /\ Counted(tables.intervals)
  /\ \E ok \in BOOLEAN : delivery' = ReportOf({}, ok /\ result.source = source)
  /\ UNCHANGED <<trajectory, inputs, result, tables, evidence, closure, package>>

\* The documents that export opens, the tables beside them and those within them.
Packed ==
  [result |-> result.run, evidence |-> evidence.run, closure |-> closure.run,
   delivery |-> delivery.run,
   rows |-> RowsOf(result.run, {tables.intervals, tables.trajectories})
            \cup RowsOf(evidence.run, evidence.read)
            \cup RowsOf(closure.run, closure.read)]

\* Fault: only the reports are asked for their gates.
FaultExport ==
  /\ Command
  /\ behaviour.complete
  /\ evidence.complete /\ closure.complete /\ delivery.complete
  /\ Counted(tables.intervals)
  /\ package' = Packed
  /\ UNCHANGED <<trajectory, inputs, result, tables, evidence, closure, delivery>>

\* export: every document must be COMPLETE; that they are of one experiment is
\* not asked, and of the tables only the intervals are counted.
Export ==
  /\ Command
  /\ behaviour.complete
  /\ result.complete
  /\ evidence.complete /\ closure.complete /\ delivery.complete
  /\ Counted(tables.intervals)
  /\ package' = Packed
  /\ UNCHANGED <<trajectory, inputs, result, tables, evidence, closure, delivery>>

Next ==
  \/ ReplaceSource \/ ExecuteMethods \/ FreezeDynamic \/ RunResponse \/ ChooseRequests
  \/ FreezeDesign \/ StartExperiment \/ Task \/ CannotAggregate \/ WriteResult
  \/ WriteTables \/ Interrupt \/ Summarise \/ AuditClosure \/ AuditDelivery \/ Export

Spec == Init /\ [][Next]_vars

-----------------------------------------------------------------------------
(***************************************************************************)
(* A verdict that the experiment is complete covers every answer that was  *)
(* used in it: the gates read the recorded steps, but the cache also holds *)
(* the answers of replays and of other controls, and each of them was      *)
(* solved and passed its screens.                                          *)
(***************************************************************************)
CompleteMeansScreened ==
  stage = "done" /\ Verdict =>
    /\ \A r \in DOMAIN cache : cache[r].status = "passed"
    /\ opened # {}

(***************************************************************************)
(* A result, COMPLETE or BLOCKED, is of one source: its design, its        *)
(* scenarios, its requests and its methods were all made from the envelope *)
(* that it names, although each is a file that another command may have    *)
(* replaced, and no command looks at all of them.                          *)
(***************************************************************************)
ResultIsOfOneSource ==
  /\ result.design.behaviour = result.behaviour
  /\ {result.design.source, result.design.dynamic, result.behaviour.source,
      result.execution} = {result.source}

(***************************************************************************)
(* Whatever was rerun or replaced, every document of the figure package is *)
(* of an experiment whose verdict was COMPLETE, and the rows packed with   *)
(* it are that experiment's, all of them, unless that very experiment was  *)
(* killed before its tables were written: no command then tells the tables *)
(* of an earlier one, BLOCKED or COMPLETE, or half a table from its own.   *)
(***************************************************************************)
PackageMatchesItsRuns ==
  /\ {package.result, package.evidence, package.closure, package.delivery}
       \subseteq complete
  /\ \A r \in package.rows : r.table = TableOf(r.run) \/ r.run \in unfinished

(***************************************************************************)
(* An experiment is BLOCKED because something that it recorded fails.  The *)
(* design states that telemetry equals the simulated truth, the registered *)
(* assumption of the study, among assertions that a gate wants all False.  *)
(***************************************************************************)
BlockedForAReason == ~result.complete => ~result.evident
=============================================================================
