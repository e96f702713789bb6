--------------------------- MODULE CheckpointedRun ---------------------------
(***************************************************************************)
(* The checkpointed experiment runner of archive 180 (run_mapping.py;      *)
(* archive 184 run_scale.py is the same program over other settings):      *)
(* run() scans the day folders, submits the days that are not complete to  *)
(* a process pool, and writes COMPUTATION_COMPLETE.json; run_day() computes *)
(* one day and leaves VECTORS.npz, RESULT.json and then DONE.json, or      *)
(* ERROR.json.                                                             *)
(*                                                                         *)
(* An owner is one invocation of run(); a restart is a later owner.  A job *)
(* is one (mapping, date).  The order of the jobs and the content of the   *)
(* files are abstracted: a day's computation is deterministic, so a file   *)
(* is absent, torn (opened and truncated, not yet closed) or whole, and a  *)
(* hash is the state of the file it was taken of.  The sources and the     *)
(* protocol do not change, so verify_sources and the protocol hash pass;   *)
(* RUNNING.json and PROGRESS.json are written and never read, and are left *)
(* out.  completed() is one step: it reads DONE.json and hashes at once.   *)
(***************************************************************************)
EXTENDS Integers, FiniteSets

CONSTANTS
  Jobs,         \* the (mapping, date) pairs of the protocol
  Owners,       \* successive invocations of run(), numbered in start order
  MaxCrashes,   \* bound: owner processes killed
  Circumstances, \* records: --workers, owners started in haste, may a day raise?
  Orphans       \* do pool workers outlive a killed owner?

ASSUME RunAssumption ==
  /\ IsFiniteSet(Jobs)
  /\ Owners \subseteq Nat /\ IsFiniteSet(Owners)
  /\ MaxCrashes \in Nat
  /\ Circumstances \subseteq
       [workers : Nat \ {0}, hasty : SUBSET Owners, mayFail : BOOLEAN]
  /\ Orphans \in BOOLEAN

VARIABLES
  vectors, result, done, error,  \* the files of a day folder
  recorded,                      \* files named in DONE.json, with hashes
  complete,                      \* COMPUTATION_COMPLETE.json exists
  phase,                         \* of an owner
  unscanned, pending, futures,   \* of an owner: sets of jobs
  count,                         \* of an owner: complete_count
  pc,                            \* of an attempt: owner and job
  held,                          \* of an attempt: hashes taken for DONE.json
  crashes,
  given                          \* the circumstances of this behaviour

files == <<vectors, result, done, error, recorded>>
owner == <<phase, unscanned, pending, futures, count>>
vars == <<files, complete, owner, pc, held, crashes, given>>

FileStates == {"absent", "torn", "whole"}
Hashes == [vectors : FileStates, result : FileStates]
Whole == [vectors |-> "whole", result |-> "whole"]

\* run_day between its first check and its last write.
Computing ==
  {"compute", "closeVectors", "openResult", "closeResult",
   "hash", "openDone", "closeDone"}
Recording == {"openError", "closeError"}
Live == {"queued"} \cup Computing \cup Recording
Answered == {"ok", "resumed", "error", "raised"}
Stages == Live \cup Answered \cup {"none", "cancelled", "dead"}

Active == {"scan", "dispatch", "unwind"}
Ended == {"complete", "failed", "crashed"}
Phases == {"idle"} \cup Active \cup Ended

TypeOK ==
  /\ vectors \in [Jobs -> FileStates]
  /\ result \in [Jobs -> FileStates]
  /\ done \in [Jobs -> FileStates]
  /\ error \in [Jobs -> FileStates]
  /\ recorded \in [Jobs -> Hashes]
  /\ complete \in BOOLEAN
  /\ phase \in [Owners -> Phases]
  /\ unscanned \in [Owners -> SUBSET Jobs]
  /\ pending \in [Owners -> SUBSET Jobs]
  /\ futures \in [Owners -> SUBSET Jobs]
  /\ count \in [Owners -> 0 .. Cardinality(Jobs)]
  /\ pc \in [Owners -> [Jobs -> Stages]]
  /\ held \in [Owners -> [Jobs -> Hashes]]
  /\ crashes \in 0 .. MaxCrashes
  /\ given \in Circumstances

Init ==
  /\ vectors = [j \in Jobs |-> "absent"]
  /\ result = [j \in Jobs |-> "absent"]
  /\ done = [j \in Jobs |-> "absent"]
  /\ error = [j \in Jobs |-> "absent"]
  /\ recorded = [j \in Jobs |-> Whole]
  /\ complete = FALSE
  /\ phase = [o \in Owners |-> "idle"]
  /\ unscanned = [o \in Owners |-> Jobs]
  /\ pending = [o \in Owners |-> {}]
  /\ futures = [o \in Owners |-> {}]
  /\ count = [o \in Owners |-> 0]
  /\ pc = [o \in Owners |-> [j \in Jobs |-> "none"]]
  /\ held = [o \in Owners |-> [j \in Jobs |-> Whole]]
  /\ crashes = 0
  /\ given \in Circumstances

-----------------------------------------------------------------------------
(***************************************************************************)
(* A day whose DONE.json parses and whose files match its hashes.          *)
(***************************************************************************)
Verified(j) ==
  /\ done[j] = "whole"
  /\ recorded[j] = [vectors |-> vectors[j], result |-> result[j]]

\* Fault: DONE.json is never found, as under a wrong folder name.
FaultCompletedNever(j) == "none"

\* Fault: an existing result file is taken for a completed day.
FaultCompletedTrusts(j) == IF result[j] = "absent" THEN "none" ELSE "done"

\* completed(out): it returns None, returns the record, or raises, because
\* a torn DONE.json does not parse or a hash differs.
Completed(j) ==
  IF done[j] = "absent" THEN "none" ELSE IF Verified(j) THEN "done" ELSE "raises"

Goto(o, j, stage) == pc' = [pc EXCEPT ![o][j] = stage]
LiveJobs(o) == {j \in Jobs : pc[o][j] \in Live}

(***************************************************************************)
(* The operator's side.  An owner starts once every earlier owner and      *)
(* every worker it left has ended; one started in haste once every earlier *)
(* owner has ended, which is what a process id can tell.                   *)
(***************************************************************************)
MayStart(o) ==
  \A p \in Owners \ {o} :
    /\ phase[p] \notin Active
    /\ p < o => phase[p] # "idle"
    /\ o \notin given.hasty => LiveJobs(p) = {}

Start(o) ==
  /\ phase[o] = "idle"
  /\ MayStart(o)
  /\ phase' = [phase EXCEPT ![o] = "scan"]
  /\ UNCHANGED <<files, complete, unscanned, pending, futures, count, pc,
                 held, crashes, given>>

(***************************************************************************)
(* run(): the scan, the first submissions, and the collecting loop.        *)
(***************************************************************************)
Scan(o, j) ==
  /\ phase[o] = "scan"
  /\ j \in unscanned[o]
  /\ unscanned' = [unscanned EXCEPT ![o] = @ \ {j}]
  /\ \/ /\ Completed(j) = "done"
        /\ count' = [count EXCEPT ![o] = @ + 1]
        /\ UNCHANGED <<phase, pending>>
     \/ /\ Completed(j) = "none"
        /\ pending' = [pending EXCEPT ![o] = @ \cup {j}]
        /\ UNCHANGED <<phase, count>>
     \/ /\ Completed(j) = "raises"
        /\ phase' = [phase EXCEPT ![o] = "failed"]
        /\ UNCHANGED <<pending, count>>
  /\ UNCHANGED <<files, complete, futures, pc, held, crashes, given>>

\* pool.submit for the first jobs the iterator yields, as many as workers.
FirstJobs(o) ==
  {s \in SUBSET pending[o] :
     \/ Cardinality(s) = given.workers
     \/ s = pending[o] /\ Cardinality(s) < given.workers}

OpenPool(o) ==
  /\ phase[o] = "scan"
  /\ unscanned[o] = {}
  /\ \E s \in FirstJobs(o) :
       /\ futures' = [futures EXCEPT ![o] = s]
       /\ pending' = [pending EXCEPT ![o] = @ \ s]
       /\ pc' = [pc EXCEPT ![o] =
                   [j \in Jobs |-> IF j \in s THEN "queued" ELSE @[j]]]
  /\ phase' = [phase EXCEPT ![o] = "dispatch"]
  /\ UNCHANGED <<files, complete, unscanned, count, held, crashes, given>>

\* Fault: the iterator is not advanced.
FaultSubmitNext(o, j) ==
  \/ /\ pending[o] = {}
     /\ futures' = [futures EXCEPT ![o] = @ \ {j}]
     /\ UNCHANGED <<pending, pc>>
  \/ \E k \in pending[o] :
       /\ futures' = [futures EXCEPT ![o] = (@ \ {j}) \cup {k}]
       /\ Goto(o, k, "queued")
       /\ UNCHANGED pending

\* The next job of the iterator is submitted when an answer was counted.
SubmitNext(o, j) ==
  \/ /\ pending[o] = {}
     /\ futures' = [futures EXCEPT ![o] = @ \ {j}]
     /\ UNCHANGED <<pending, pc>>
  \/ \E k \in pending[o] :
       /\ pending' = [pending EXCEPT ![o] = @ \ {k}]
       /\ futures' = [futures EXCEPT ![o] = (@ \ {j}) \cup {k}]
       /\ Goto(o, k, "queued")

\* Fault: the answer of a resumed day, which has no statistics, is never taken.
FaultCollectComputed(o, j) ==
  /\ pc[o][j] = "ok"
  /\ count' = [count EXCEPT ![o] = @ + 1]
  /\ SubmitNext(o, j)
  /\ UNCHANGED phase

\* Fault: an answer of a resumed day is not counted.
FaultCollectAnswer(o, j) ==
  /\ pc[o][j] \in {"ok", "resumed"}
  /\ count' = [count EXCEPT ![o] = IF pc[o][j] = "ok" THEN @ + 1 ELSE @]
  /\ SubmitNext(o, j)
  /\ UNCHANGED phase

CollectAnswer(o, j) ==
  /\ pc[o][j] \in {"ok", "resumed"}
  /\ count' = [count EXCEPT ![o] = @ + 1]
  /\ SubmitNext(o, j)
  /\ UNCHANGED phase

\* An error answer cancels what has not started; f.result() of an attempt
\* that raised does not.  Both leave the with block, which waits.
CollectFailure(o, j) ==
  /\ \/ /\ pc[o][j] = "error"
        /\ \E s \in SUBSET {k \in futures[o] : pc[o][k] = "queued"} :
             pc' = [pc EXCEPT ![o] =
                      [k \in Jobs |-> IF k \in s THEN "cancelled" ELSE @[k]]]
     \/ pc[o][j] = "raised" /\ UNCHANGED pc
  /\ futures' = [futures EXCEPT ![o] = @ \ {j}]
  /\ phase' = [phase EXCEPT ![o] = "unwind"]
  /\ UNCHANGED <<pending, count>>

Collect(o, j) ==
  /\ phase[o] = "dispatch"
  /\ j \in futures[o]
  /\ CollectAnswer(o, j) \/ CollectFailure(o, j)
  /\ UNCHANGED <<files, complete, unscanned, held, crashes, given>>

\* The pool has shut down and the exception leaves run().
Unwind(o) ==
  /\ phase[o] = "unwind"
  /\ LiveJobs(o) = {}
  /\ phase' = [phase EXCEPT ![o] = "failed"]
  /\ UNCHANGED <<files, complete, unscanned, pending, futures, count, pc,
                 held, crashes, given>>

\* Both lines after the with block: the assertion and the marker.
Complete(o) ==
  /\ phase[o] = "dispatch"
  /\ futures[o] = {}
  /\ \/ /\ count[o] = Cardinality(Jobs)
        /\ complete' = TRUE
        /\ phase' = [phase EXCEPT ![o] = "complete"]
     \/ /\ count[o] # Cardinality(Jobs)
        /\ phase' = [phase EXCEPT ![o] = "failed"]
        /\ UNCHANGED complete
  /\ UNCHANGED <<files, unscanned, pending, futures, count, pc, held, crashes, given>>

(***************************************************************************)
(* run_day(job): the checks before the try block, the computation, the     *)
(* writes.  An exception in the try block is recorded and answered.        *)
(***************************************************************************)
\* Fault: a recorded error does not stop the day.
FaultEnterIgnoresError(o, j) ==
  /\ pc[o][j] = "queued"
  /\ Goto(o, j, CASE Completed(j) = "done" -> "resumed"
                  [] Completed(j) = "raises" -> "raised"
                  [] OTHER -> "compute")
  /\ UNCHANGED <<files, complete, owner, held, crashes, given>>

\* Fault: mkdir without exist_ok, so that a folder left behind stops the day.
FaultEnterNeedsNewFolder(o, j) ==
  /\ pc[o][j] = "queued"
  /\ Goto(o, j, CASE Completed(j) = "done" -> "resumed"
                  [] Completed(j) = "raises" \/ vectors[j] # "absent" -> "raised"
                  [] OTHER -> "compute")
  /\ UNCHANGED <<files, complete, owner, held, crashes, given>>

Enter(o, j) ==
  /\ pc[o][j] = "queued"
  /\ \/ Completed(j) = "done" /\ Goto(o, j, "resumed")
     \/ Completed(j) = "raises" /\ Goto(o, j, "raised")
     \/ Completed(j) = "none" /\ error[j] # "absent" /\ Goto(o, j, "raised")
     \/ Completed(j) = "none" /\ error[j] = "absent" /\ Goto(o, j, "compute")
  /\ UNCHANGED <<files, complete, owner, held, crashes, given>>

\* The computation, and VECTORS.npz.
WriteVectors(o, j) ==
  /\ \/ /\ pc[o][j] = "compute"
        /\ vectors' = [vectors EXCEPT ![j] = "torn"]
        /\ Goto(o, j, "closeVectors")
     \/ /\ pc[o][j] = "closeVectors"
        /\ vectors' = [vectors EXCEPT ![j] = "whole"]
        /\ Goto(o, j, "openResult")
  /\ UNCHANGED <<result, done, error, recorded, complete, owner, held, crashes, given>>

WriteResult(o, j) ==
  /\ \/ /\ pc[o][j] = "openResult"
        /\ result' = [result EXCEPT ![j] = "torn"]
        /\ Goto(o, j, "closeResult")
     \/ /\ pc[o][j] = "closeResult"
        /\ result' = [result EXCEPT ![j] = "whole"]
        /\ Goto(o, j, "hash")
  /\ UNCHANGED <<vectors, done, error, recorded, complete, owner, held, crashes, given>>

TakeHashes(o, j) ==
  /\ pc[o][j] = "hash"
  /\ held' = [held EXCEPT ![o][j] =
                [vectors |-> vectors[j], result |-> result[j]]]
  /\ Goto(o, j, "openDone")
  /\ UNCHANGED <<files, complete, owner, crashes, given>>

WriteDone(o, j) ==
  /\ \/ /\ pc[o][j] = "openDone"
        /\ done' = [done EXCEPT ![j] = "torn"]
        /\ Goto(o, j, "closeDone")
        /\ UNCHANGED recorded
     \/ /\ pc[o][j] = "closeDone"
        /\ done' = [done EXCEPT ![j] = "whole"]
        /\ recorded' = [recorded EXCEPT ![j] = held[o][j]]
        /\ Goto(o, j, "ok")
  /\ UNCHANGED <<vectors, result, error, complete, owner, held, crashes, given>>

Raise(o, j) ==
  /\ given.mayFail
  /\ pc[o][j] \in Computing
  /\ Goto(o, j, "openError")
  /\ UNCHANGED <<files, complete, owner, held, crashes, given>>

WriteError(o, j) ==
  /\ \/ /\ pc[o][j] = "openError"
        /\ error' = [error EXCEPT ![j] = "torn"]
        /\ Goto(o, j, "closeError")
     \/ /\ pc[o][j] = "closeError"
        /\ error' = [error EXCEPT ![j] = "whole"]
        /\ Goto(o, j, "error")
  /\ UNCHANGED <<vectors, result, done, recorded, complete, owner, held, crashes, given>>

RunDay(o, j) ==
  \/ Enter(o, j)
  \/ WriteVectors(o, j) \/ WriteResult(o, j) \/ TakeHashes(o, j)
  \/ WriteDone(o, j) \/ Raise(o, j) \/ WriteError(o, j)

(***************************************************************************)
(* The owner process is killed, or its pool breaks because a worker died.  *)
(* Its workers die with it or, when killing leaves orphans, some go on     *)
(* with the job they hold.                                                 *)
(***************************************************************************)
Crash(o) ==
  /\ crashes < MaxCrashes
  /\ phase[o] \in Active
  /\ crashes' = crashes + 1
  /\ phase' = [phase EXCEPT ![o] = "crashed"]
  /\ \E orphans \in SUBSET LiveJobs(o) :
       /\ ~Orphans => orphans = {}
       /\ pc' = [pc EXCEPT ![o] =
                   [j \in Jobs |-> IF j \in LiveJobs(o) \ orphans
                                   THEN "dead" ELSE @[j]]]
  /\ UNCHANGED <<files, complete, unscanned, pending, futures, count, held, given>>

OwnerStep(o) ==
  \/ \E j \in Jobs : Scan(o, j) \/ Collect(o, j)
  \/ OpenPool(o) \/ Unwind(o) \/ Complete(o)

Next ==
  \E o \in Owners :
    \/ Start(o) \/ OwnerStep(o) \/ Crash(o)
    \/ \E j \in Jobs : RunDay(o, j)

Spec == Init /\ [][Next]_vars

(***************************************************************************)
(* Processes that are not killed make progress, and the operator starts    *)
(* the next owner while days remain.                                       *)
(***************************************************************************)
Progress(o, j) ==
  \/ Enter(o, j)
  \/ WriteVectors(o, j) \/ WriteResult(o, j) \/ TakeHashes(o, j)
  \/ WriteDone(o, j) \/ WriteError(o, j)

FairSpec ==
  /\ Spec
  /\ \A o \in Owners :
       /\ WF_vars(Start(o))
       /\ WF_vars(OwnerStep(o))
       /\ \A j \in Jobs : WF_vars(Progress(o, j))

-----------------------------------------------------------------------------
(***************************************************************************)
(* COMPUTATION_COMPLETE.json is only ever there when every day has its     *)
(* DONE.json and the files it vouches for, whatever crashes, restarts and  *)
(* recorded errors came before (run_mapping.py:122-149), as long as no     *)
(* owner is started beside live workers.                                   *)
(***************************************************************************)
Careful == given.hasty = {}

CompletionIsHonest == Careful /\ complete => \A j \in Jobs : Verified(j)

(***************************************************************************)
(* "An interrupted run may resume only completed days with verified        *)
(* hashes" (PROTOCOL.md:39-40): a day once verified is never computed      *)
(* again, so its files are never touched.                                  *)
(***************************************************************************)
VerifiedIsFinal ==
  [][\A j \in Jobs : Careful /\ Verified(j) =>
       Verified(j)' /\ vectors'[j] = vectors[j] /\ result'[j] = result[j]]_vars

(***************************************************************************)
(* A day does not come to have both a recorded error and a verified        *)
(* result: a restart does not replace a failed day by a computed one       *)
(* (PROTOCOL.md:53-54, "not silently discarded or replaced").              *)
(***************************************************************************)
VerifiedHasNoError ==
  \A j \in Jobs : Careful /\ Verified(j) => error[j] = "absent"

(***************************************************************************)
(* complete_count, the iterator and the futures together account for each  *)
(* job once, so that the assertion before the marker fails on no path.     *)
(***************************************************************************)
EveryJobAccounted ==
  \A o \in Owners : phase[o] = "dispatch" =>
    count[o] + Cardinality(pending[o]) + Cardinality(futures[o])
      = Cardinality(Jobs)

(***************************************************************************)
(* With owners restarted, every owner ends and leaves no worker behind,    *)
(* and the run has then completed unless a day is left that only a review  *)
(* can release: one with a recorded error, or one whose DONE.json was cut  *)
(* short and that nobody is writing.  Nothing else that a crash leaves     *)
(* behind is in the way of a restart.                                      *)
(***************************************************************************)
NeedsReview(j) ==
  \/ error[j] # "absent"
  \/ done[j] = "torn" /\ \A o \in Owners : pc[o][j] # "closeDone"

AllEnded == \A o \in Owners : phase[o] \in Ended /\ LiveJobs(o) = {}

RestartsComplete ==
  <>[](AllEnded /\ (Careful => complete \/ \E j \in Jobs : NeedsReview(j)))

(***************************************************************************)
(* "a still-live job must not be duplicated" (archive 180 PROTOCOL.md:41). *)
(***************************************************************************)
LiveJobNotDuplicated ==
  \A o, p \in Owners, j \in Jobs :
    pc[o][j] \in Computing /\ pc[p][j] \in Computing => o = p
=============================================================================
