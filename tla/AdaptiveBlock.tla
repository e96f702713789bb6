---------------------------- MODULE AdaptiveBlock ----------------------------
(***************************************************************************)
(* One job of archive 189 (run_adaptation.py, execute): a block of         *)
(* consecutive dates whose request ceilings and participant preferences    *)
(* (participant_policy.py, LocalResponse) persist from date to date, with  *)
(* a checkpoint after each date, under interruptions and restarts.         *)
(*                                                                         *)
(* A ceiling or a preference vector is modelled by its history: the        *)
(* sequence of completed intervals it has been computed from, which is     *)
(* what a restart could get wrong.  The computation is deterministic, so   *)
(* equal histories are equal arrays.  The network, the replay and the      *)
(* shadow control write no state that the loop carries and are left out.   *)
(***************************************************************************)
EXTENDS Integers, Sequences, FiniteSets

CONSTANTS
  LastDay,            \* dates of the block, numbered from 1
  LastInterval,       \* intervals of a date, numbered from 1 (48 in the code)
  Branches,           \* BRANCHES
  OpenLoop,           \* the branch NO_FEEDBACK
  Mode,               \* job["mode"]
  MaxInterruptions    \* bound: processes killed or ended by an exception

ASSUME BlockAssumption ==
  /\ LastDay \in Nat
  /\ LastInterval \in Nat \ {0}
  /\ OpenLoop \in Branches
  /\ IsFiniteSet(Branches)
  /\ Mode \in {"ADAPTIVE", "STATIC_RANDOM"}
  /\ MaxInterruptions \in Nat

\* The intervals of the block are numbered through.
Slot(d, i) == LastInterval * (d - 1) + i
Histories == [Branches -> Seq(Nat)]
NoHistory == [c \in Branches |-> <<>>]

VARIABLES
  phase,                         \* where execute() is
  day, t,                        \* day_index + 1 and t + 1
  left,                          \* branches of the interval not yet observed
  states, weights,               \* states[c], policies[c].log_weights
  completed,                     \* policies[c].completed
  pending,                       \* is policies[c].pending set?
  initial,                       \* the start entries of the day's arrays
  trajectories, result, done,    \* the files of each date's folder
  saved,                         \* contents of TRAJECTORIES.npz
  vouched,                       \* contents whose hash DONE.json records
  interruptions

loop == <<day, t, left>>
memory == <<states, weights, completed, pending, initial>>
disk == <<trajectories, result, done, saved, vouched>>
vars == <<phase, loop, memory, disk, interruptions>>

FileStates == {"absent", "torn", "whole"}
Starts == [startCeiling : Histories, startWeights : Histories]
Records == [startCeiling : Histories, startWeights : Histories,
            endCeiling : Histories, endWeights : Histories]
NoStart == [startCeiling |-> NoHistory, startWeights |-> NoHistory]
NoRecord == [startCeiling |-> NoHistory, startWeights |-> NoHistory,
             endCeiling |-> NoHistory, endWeights |-> NoHistory]

Running ==
  {"dates", "interval", "branches", "closeTrajectories", "openResult",
   "closeResult", "openDone", "closeDone"}
Phases == Running \cup {"idle", "returned", "failed"}
Days == 1 .. LastDay

TypeOK ==
  /\ phase \in Phases
  /\ day \in 1 .. LastDay + 1
  /\ t \in 1 .. LastInterval + 1
  /\ left \in SUBSET Branches
  /\ states \in Histories
  /\ weights \in Histories
  /\ completed \in [Branches -> Nat]
  /\ pending \in [Branches -> BOOLEAN]
  /\ initial \in Starts
  /\ trajectories \in [Days -> FileStates]
  /\ result \in [Days -> FileStates]
  /\ done \in [Days -> FileStates]
  /\ saved \in [Days -> Records]
  /\ vouched \in [Days -> Records]
  /\ interruptions \in 0 .. MaxInterruptions

\* execute() before its loop: fresh policies, ceilings at capacity.
Init ==
  /\ phase = "idle"
  /\ day = 1 /\ t = 1 /\ left = {}
  /\ states = NoHistory
  /\ weights = NoHistory
  /\ completed = [c \in Branches |-> 0]
  /\ pending = [c \in Branches |-> FALSE]
  /\ initial = NoStart
  /\ trajectories = [d \in Days |-> "absent"]
  /\ result = [d \in Days |-> "absent"]
  /\ done = [d \in Days |-> "absent"]
  /\ saved = [d \in Days |-> NoRecord]
  /\ vouched = [d \in Days |-> NoRecord]
  /\ interruptions = 0

-----------------------------------------------------------------------------
\* A process takes up the job.
Launch ==
  /\ phase = "idle"
  /\ phase' = "dates"
  /\ UNCHANGED <<loop, memory, disk, interruptions>>

(***************************************************************************)
(* The head of the loop over dates.  A date with DONE.json is not computed *)
(* again: its files are verified and its end state is taken up.            *)
(***************************************************************************)
Checkpointed(d) ==
  /\ done[d] = "whole"
  /\ saved[d] = vouched[d]
  /\ saved[d].startCeiling = states
  /\ saved[d].startWeights = weights

\* Fault: the ceilings are taken up and the preferences are not.
FaultResume ==
  /\ phase = "dates"
  /\ day <= LastDay
  /\ Checkpointed(day)
  /\ states' = saved[day].endCeiling
  /\ completed' = [c \in Branches |-> LastInterval * day]
  /\ day' = day + 1
  /\ UNCHANGED <<phase, t, left, weights, pending, initial, disk, interruptions>>

Resume ==
  /\ phase = "dates"
  /\ day <= LastDay
  /\ Checkpointed(day)
  /\ states' = saved[day].endCeiling
  /\ weights' = saved[day].endWeights
  /\ completed' = [c \in Branches |-> LastInterval * day]
  /\ day' = day + 1
  /\ UNCHANGED <<phase, t, left, pending, initial, disk, interruptions>>

\* DONE.json does not parse, or an assertion on the checkpoint fails.
ResumeFails ==
  /\ phase = "dates"
  /\ day <= LastDay
  /\ done[day] # "absent"
  /\ ~Checkpointed(day)
  /\ phase' = "failed"
  /\ UNCHANGED <<loop, memory, disk, interruptions>>

BeginDay ==
  /\ phase = "dates"
  /\ day <= LastDay
  /\ done[day] = "absent"
  /\ initial' = [startCeiling |-> states, startWeights |-> weights]
  /\ t' = 1
  /\ phase' = "interval"
  /\ UNCHANGED <<day, left, states, weights, completed, pending, disk,
                 interruptions>>

Return ==
  /\ phase = "dates"
  /\ day = LastDay + 1
  /\ phase' = "returned"
  /\ UNCHANGED <<loop, memory, disk, interruptions>>

(***************************************************************************)
(* One interval: every branch chooses, then the branches are evaluated and *)
(* observe their own delivery one after the other (in any order here: they *)
(* share no state).  choose() raises unless nothing is pending, observe()  *)
(* unless something is.                                                    *)
(***************************************************************************)
\* Fault: one interval too many.
FaultChoose ==
  /\ phase = "interval"
  /\ t <= LastInterval + 1
  /\ \A c \in Branches : ~pending[c]
  /\ pending' = [c \in Branches |-> TRUE]
  /\ left' = Branches
  /\ phase' = "branches"
  /\ UNCHANGED <<day, t, states, weights, completed, initial, disk, interruptions>>

Choose ==
  /\ phase = "interval"
  /\ t <= LastInterval
  /\ \A c \in Branches : ~pending[c]
  /\ pending' = [c \in Branches |-> TRUE]
  /\ left' = Branches
  /\ phase' = "branches"
  /\ UNCHANGED <<day, t, states, weights, completed, initial, disk, interruptions>>

AfterBranch(c) ==
  /\ left' = left \ {c}
  /\ IF left = {c} THEN t' = t + 1 /\ phase' = "interval"
                   ELSE UNCHANGED <<t, phase>>

\* Fault: the open-loop branch, which has no ceiling to update, is left
\* before it observes its delivery.
FaultObserve(c) ==
  /\ phase = "branches"
  /\ c \in left /\ pending[c]
  /\ IF c = OpenLoop
       THEN UNCHANGED <<weights, pending, completed>>
       ELSE /\ weights' = [weights EXCEPT ![c] =
                 IF Mode = "ADAPTIVE" THEN Append(@, Slot(day, t)) ELSE @]
            /\ pending' = [pending EXCEPT ![c] = FALSE]
            /\ completed' = [completed EXCEPT ![c] = @ + 1]
  /\ states' = [states EXCEPT ![c] =
                  IF c = OpenLoop THEN <<>> ELSE Append(@, Slot(day, t))]
  /\ AfterBranch(c)
  /\ UNCHANGED <<day, initial, disk, interruptions>>

Observe(c) ==
  /\ phase = "branches"
  /\ c \in left /\ pending[c]
  /\ weights' = [weights EXCEPT ![c] =
                   IF Mode = "ADAPTIVE" THEN Append(@, Slot(day, t)) ELSE @]
  /\ pending' = [pending EXCEPT ![c] = FALSE]
  /\ completed' = [completed EXCEPT ![c] = @ + 1]
  /\ states' = [states EXCEPT ![c] =
                  IF c = OpenLoop THEN <<>> ELSE Append(@, Slot(day, t))]
  /\ AfterBranch(c)
  /\ UNCHANGED <<day, initial, disk, interruptions>>

(***************************************************************************)
(* The files of the date, in order.  state() raises while a choice is      *)
(* pending.                                                                *)
(***************************************************************************)
OpenTrajectories ==
  /\ phase = "interval"
  /\ t = LastInterval + 1
  /\ \A c \in Branches : ~pending[c]
  /\ trajectories' = [trajectories EXCEPT ![day] = "torn"]
  /\ phase' = "closeTrajectories"
  /\ UNCHANGED <<loop, memory, result, done, saved, vouched, interruptions>>

\* Fault: the start entries alias the live arrays and are saved as they end.
FaultCloseTrajectories ==
  /\ phase = "closeTrajectories"
  /\ trajectories' = [trajectories EXCEPT ![day] = "whole"]
  /\ saved' = [saved EXCEPT ![day] =
       [startCeiling |-> states, startWeights |-> weights,
        endCeiling |-> states, endWeights |-> weights]]
  /\ phase' = "openResult"
  /\ UNCHANGED <<loop, memory, result, done, vouched, interruptions>>

CloseTrajectories ==
  /\ phase = "closeTrajectories"
  /\ trajectories' = [trajectories EXCEPT ![day] = "whole"]
  /\ saved' = [saved EXCEPT ![day] =
       [startCeiling |-> initial.startCeiling, startWeights |-> initial.startWeights,
        endCeiling |-> states, endWeights |-> weights]]
  /\ phase' = "openResult"
  /\ UNCHANGED <<loop, memory, result, done, vouched, interruptions>>

WriteResult ==
  /\ \/ /\ phase = "openResult"
        /\ result' = [result EXCEPT ![day] = "torn"]
        /\ phase' = "closeResult"
     \/ /\ phase = "closeResult"
        /\ result' = [result EXCEPT ![day] = "whole"]
        /\ phase' = "openDone"
  /\ UNCHANGED <<loop, memory, trajectories, done, saved, vouched, interruptions>>

OpenDone ==
  /\ phase = "openDone"
  /\ done' = [done EXCEPT ![day] = "torn"]
  /\ phase' = "closeDone"
  /\ UNCHANGED <<loop, memory, trajectories, result, saved, vouched, interruptions>>

CloseDone ==
  /\ phase = "closeDone"
  /\ done' = [done EXCEPT ![day] = "whole"]
  /\ vouched' = [vouched EXCEPT ![day] = saved[day]]
  /\ day' = day + 1
  /\ phase' = "dates"
  /\ UNCHANGED <<t, left, memory, trajectories, result, saved, interruptions>>

(***************************************************************************)
(* The process is killed, or an exception of a step ends the job.  What it *)
(* held in memory is gone; the operator launches the run again.            *)
(***************************************************************************)
Interrupt ==
  /\ phase \in Running
  /\ interruptions < MaxInterruptions
  /\ interruptions' = interruptions + 1
  /\ phase' = "idle"
  /\ day' = 1 /\ t' = 1 /\ left' = {}
  /\ states' = NoHistory
  /\ weights' = NoHistory
  /\ completed' = [c \in Branches |-> 0]
  /\ pending' = [c \in Branches |-> FALSE]
  /\ initial' = NoStart
  /\ UNCHANGED disk

Step ==
  \/ Launch \/ Resume \/ ResumeFails \/ BeginDay \/ Return
  \/ Choose \/ \E c \in Branches : Observe(c)
  \/ OpenTrajectories \/ CloseTrajectories \/ WriteResult \/ OpenDone \/ CloseDone

Next == Step \/ Interrupt

Spec == Init /\ [][Next]_vars

\* The loop is sequential and never waits; interrupted runs are launched again.
FairSpec == Spec /\ WF_vars(Step)

-----------------------------------------------------------------------------
(***************************************************************************)
(* LocalResponse is used in turn: between intervals, and so whenever a     *)
(* choice or a checkpoint is due, no branch has a choice pending; within   *)
(* an interval exactly the branches still to be evaluated have one.  Hence *)
(* none of the RuntimeErrors of participant_policy.py can be raised.       *)
(***************************************************************************)
ChoicesInTurn ==
  \A c \in Branches : pending[c] <=> phase = "branches" /\ c \in left

(***************************************************************************)
(* policies[c].completed counts the intervals the branch has completed     *)
(* since the start of the block, although the checkpoint does not save it. *)
(***************************************************************************)
CompletedCounts ==
  phase = "dates" =>
    \A c \in Branches : completed[c] = LastInterval * (day - 1)

(***************************************************************************)
(* The job implements UninterruptedBlock: the dates with a DONE.json carry *)
(* the arrays that a run which never stopped would have saved, from the    *)
(* end state of the date before and not from capacity (archive 173         *)
(* PROTOCOL.md, last paragraph).                                           *)
(***************************************************************************)
PublishedDays == {d \in Days : done[d] = "whole"}

Block == INSTANCE UninterruptedBlock WITH
  published <- [d \in PublishedDays |-> saved[d]]

PublishesBlock == Block!Spec

(***************************************************************************)
(* However often it is interrupted, the job ends by returning, unless an   *)
(* interruption has left a torn DONE.json: it does not parse, and no later *)
(* launch gets past it.                                                    *)
(***************************************************************************)
Torn == \E d \in Days : done[d] = "torn"

BlockReturns == <>[](phase = "returned" \/ Torn)
=============================================================================
