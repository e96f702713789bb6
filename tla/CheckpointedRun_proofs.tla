------------------------ MODULE CheckpointedRun_proofs ------------------------
(***************************************************************************)
(* What the checkpointed runner guarantees for any set of jobs, number of  *)
(* owners, workers and crashes; the files, when every owner is started     *)
(* only after each earlier owner and its workers have ended (Careful).     *)
(*                                                                         *)
(* The argument: then at most one owner has anything running     *)
(* (Alone); an attempt that writes has found its day neither completed nor *)
(* failed, and nobody else has changed that since (AttemptsSound); so a    *)
(* verified day is never written (DayIsFinal).  The loop accounts for each *)
(* job once (Accounted), counted jobs are verified (CountedVerified), and  *)
(* the count asserted before the marker therefore covers every job.        *)
(***************************************************************************)
EXTENDS CheckpointedRun, TLAPS, FiniteSetTheorems

Busy(o) == phase[o] \in Active \/ \E j \in Jobs : pc[o][j] \in Live

Alone == \A o, p \in Owners : Busy(o) /\ Busy(p) => o = p

Uncounted(o) == unscanned[o] \cup pending[o] \cup futures[o]

\* The parts of run()'s bookkeeping are disjoint, and used in turn.
Partition(o) ==
  /\ unscanned[o] \cap pending[o] = {}
  /\ unscanned[o] \cap futures[o] = {}
  /\ pending[o] \cap futures[o] = {}
  /\ phase[o] \in {"idle", "scan"} => futures[o] = {}
  /\ phase[o] = "dispatch" => unscanned[o] = {}

Accounted(o) ==
  /\ Partition(o)
  /\ count[o] + Cardinality(Uncounted(o)) <= Cardinality(Jobs)
  /\ phase[o] \in {"idle", "scan", "dispatch"} =>
       count[o] + Cardinality(Uncounted(o)) = Cardinality(Jobs)

SameBooks(o) ==
  /\ phase'[o] = phase[o] /\ unscanned'[o] = unscanned[o]
  /\ pending'[o] = pending[o] /\ futures'[o] = futures[o]
  /\ count'[o] = count[o]

Bookkeeping == \A o \in Owners : Accounted(o)

\* Idle owners have touched nothing.
IdleFresh == \A o \in Owners : phase[o] = "idle" => unscanned[o] = Jobs

CountedVerified ==
  \A o \in Owners : phase[o] \in {"scan", "dispatch"} =>
    \A j \in Jobs \ Uncounted(o) : Verified(j)

Writing == Computing \cup Recording

AttemptSound(o, j) ==
  /\ pc[o][j] \in Computing =>
       /\ error[j] = "absent"
       /\ done[j] = IF pc[o][j] = "closeDone" THEN "torn" ELSE "absent"
  /\ pc[o][j] \in Recording => done[j] # "whole"
  /\ pc[o][j] \in {"hash", "openDone", "closeDone"} =>
       vectors[j] = "whole" /\ result[j] = "whole"
  /\ pc[o][j] \in {"openResult", "closeResult"} => vectors[j] = "whole"
  /\ pc[o][j] \in {"openDone", "closeDone"} => held[o][j] = Whole
  /\ pc[o][j] \in {"ok", "resumed"} => Verified(j)

AttemptsSound == \A o \in Owners, j \in Jobs : AttemptSound(o, j)

DoneHasNoError == \A j \in Jobs : done[j] = "whole" => error[j] = "absent"

\* A verified day is never written again: the step form of VerifiedIsFinal.
DayIsFinal ==
  \A j \in Jobs : Verified(j) =>
    Verified(j)' /\ vectors'[j] = vectors[j] /\ result'[j] = result[j]

RInv ==
  /\ TypeOK
  /\ Alone
  /\ Bookkeeping
  /\ IdleFresh
  /\ CountedVerified
  /\ AttemptsSound
  /\ DoneHasNoError
  /\ CompletionIsHonest

-----------------------------------------------------------------------------
\* Nothing has run at the start.
LEMMA InitRInv == ASSUME RunAssumption, Init PROVE RInv
<1> USE DEF Init
<1>0. IsFiniteSet(Jobs) /\ Cardinality(Jobs) \in Nat /\ MaxCrashes \in Nat
  BY FS_CardinalityType DEF RunAssumption
<1>1. TypeOK
  <2>1. 0 \in 0 .. Cardinality(Jobs) /\ 0 \in 0 .. MaxCrashes
    BY <1>0
  <2>2. Whole \in Hashes /\ "absent" \in FileStates
    BY DEF Whole, Hashes, FileStates
  <2>3. "idle" \in Phases /\ "none" \in Stages
    BY DEF Phases, Stages
  <2> QED
    BY <2>1, <2>2, <2>3 DEF TypeOK
<1>2. Alone
  BY DEF Alone, Busy, Active, Live, Computing, Recording
<1>3. ASSUME NEW o \in Owners PROVE Accounted(o)
  <2>1. Uncounted(o) = Jobs
    BY DEF Uncounted
  <2> QED
    BY <2>1, <1>0 DEF Accounted, Partition
<1>4. IdleFresh
  BY DEF IdleFresh
<1>5. CountedVerified
  BY DEF CountedVerified
<1>6. AttemptsSound
  BY DEF AttemptsSound, AttemptSound, Computing, Recording
<1>7. DoneHasNoError /\ CompletionIsHonest
  BY DEF DoneHasNoError, CompletionIsHonest
<1> QED
  BY <1>1, <1>2, <1>3, <1>4, <1>5, <1>6, <1>7 DEF RInv, Bookkeeping

(***************************************************************************)
(* A verified day is never written: whoever writes has found it open.      *)
(***************************************************************************)
LEMMA StepKeepsVerified ==
  ASSUME TypeOK, AttemptsSound, [Next]_vars
  PROVE  DayIsFinal
<1> SUFFICES ASSUME NEW j \in Jobs, Verified(j)
             PROVE Verified(j)' /\ vectors'[j] = vectors[j] /\ result'[j] = result[j]
  BY DEF DayIsFinal
<1>0. ASSUME UNCHANGED files
      PROVE Verified(j)' /\ vectors'[j] = vectors[j] /\ result'[j] = result[j]
  BY <1>0 DEF files, Verified
<1>1. done[j] = "whole"
  BY DEF Verified
<1>2. CASE UNCHANGED vars
  BY <1>2, <1>0 DEF vars
<1>3. ASSUME NEW o \in Owners, Start(o) \/ OwnerStep(o) \/ Crash(o)
      PROVE UNCHANGED files
  <2>1. CASE Start(o)
    BY <2>1 DEF Start
  <2>2. CASE OwnerStep(o)
    BY <2>2 DEF OwnerStep, Scan, Collect, OpenPool, Unwind, Complete
  <2>3. CASE Crash(o)
    BY <2>3 DEF Crash
  <2> QED
    BY <1>3, <2>1, <2>2, <2>3
<1>4. ASSUME NEW o \in Owners, NEW k \in Jobs, RunDay(o, k)
      PROVE Verified(j)' /\ vectors'[j] = vectors[j] /\ result'[j] = result[j]
  <2>1. pc[o][k] \in Writing => k # j
    BY <1>1 DEF AttemptsSound, AttemptSound, Writing
  <2>2. CASE Enter(o, k) \/ TakeHashes(o, k) \/ Raise(o, k)
    <3>1. UNCHANGED files
      BY <2>2 DEF Enter, TakeHashes, Raise
    <3> QED
      BY <3>1, <1>0
  <2>3. CASE WriteVectors(o, k)
    <3>1. k # j
      BY <2>1, <2>3 DEF WriteVectors, Writing, Computing
    <3> QED
      BY <2>3, <3>1 DEF WriteVectors, Verified, TypeOK
  <2>4. CASE WriteResult(o, k)
    <3>1. k # j
      BY <2>1, <2>4 DEF WriteResult, Writing, Computing
    <3> QED
      BY <2>4, <3>1 DEF WriteResult, Verified, TypeOK
  <2>5. CASE WriteDone(o, k)
    <3>1. k # j
      BY <2>1, <2>5 DEF WriteDone, Writing, Computing
    <3> QED
      BY <2>5, <3>1 DEF WriteDone, Verified, TypeOK
  <2>6. CASE WriteError(o, k)
    BY <2>6 DEF WriteError, Verified
  <2> QED
    BY <1>4, <2>2, <2>3, <2>4, <2>5, <2>6 DEF RunDay
<1> QED
  BY <1>0, <1>2, <1>3, <1>4 DEF Next

(***************************************************************************)
(* The sets of jobs keep their disjointness, and a job leaves them exactly *)
(* when it is counted, or when the owner fails.                            *)
(***************************************************************************)
LEMMA CountOne ==
  ASSUME IsFiniteSet(Jobs), NEW S \in SUBSET Jobs, NEW j \in S
  PROVE  /\ IsFiniteSet(S) /\ Cardinality(S) \in Nat \ {0}
         /\ Cardinality(S \ {j}) = Cardinality(S) - 1
<1>1. IsFiniteSet(S)
  BY FS_Subset
<1>2. Cardinality(S \ {j}) = Cardinality(S) - 1 /\ Cardinality(S) \in Nat
  BY <1>1, FS_RemoveElement, FS_CardinalityType
<1>3. Cardinality(S \ {j}) \in Nat
  BY <1>1, FS_RemoveElement, FS_CardinalityType, FS_Subset
<1> QED
  BY <1>1, <1>2, <1>3

LEMMA UncountedSize ==
  ASSUME RunAssumption, TypeOK, NEW o \in Owners
  PROVE  /\ Uncounted(o) \in SUBSET Jobs
         /\ Cardinality(Uncounted(o)) \in Nat
         /\ Cardinality(Jobs) \in Nat
<1>1. Uncounted(o) \in SUBSET Jobs
  BY DEF Uncounted, TypeOK
<1> QED
  BY <1>1, FS_Subset, FS_CardinalityType DEF RunAssumption

\* The bookkeeping of an owner that a step leaves alone.
LEMMA BooksUntouched ==
  ASSUME NEW o \in Owners, Accounted(o), SameBooks(o)
  PROVE  Accounted(o)'
BY DEF SameBooks, Accounted, Partition, Uncounted

LEMMA ScanBooks ==
  ASSUME RunAssumption, TypeOK, NEW o \in Owners, Accounted(o),
         NEW j \in Jobs, Scan(o, j)
  PROVE  Accounted(o)' /\ count'[o] \in 0 .. Cardinality(Jobs)
<1>1. j \in unscanned[o] /\ j \notin pending[o] /\ futures[o] = {} /\ phase[o] = "scan"
  BY DEF Scan, Accounted, Partition
<1>2. /\ unscanned'[o] = unscanned[o] \ {j} /\ futures'[o] = futures[o]
      /\ j \in Uncounted(o)
  BY <1>1 DEF Scan, TypeOK, Uncounted
<1>3. /\ Cardinality(Uncounted(o)) \in Nat \ {0}
      /\ Cardinality(Uncounted(o) \ {j}) = Cardinality(Uncounted(o)) - 1
  BY <1>2, UncountedSize, CountOne DEF RunAssumption
<1>4. count[o] \in Nat /\ Cardinality(Jobs) \in Nat
  BY UncountedSize DEF TypeOK
<1>5. count[o] + Cardinality(Uncounted(o)) = Cardinality(Jobs)
  BY <1>1 DEF Accounted
<1>6. CASE Completed(j) = "done" /\ count' = [count EXCEPT ![o] = @ + 1]
           /\ UNCHANGED <<phase, pending>>
  <2>1. Uncounted(o)' = Uncounted(o) \ {j}
    BY <1>6, <1>1, <1>2 DEF Uncounted
  <2>2. count'[o] = count[o] + 1
    BY <1>6 DEF TypeOK
  <2>3. Partition(o)'
    BY <1>6, <1>1, <1>2 DEF Partition, Accounted
  <2> QED
    BY <2>1, <2>2, <2>3, <1>3, <1>4, <1>5 DEF Accounted
<1>7. CASE Completed(j) = "none" /\ pending' = [pending EXCEPT ![o] = @ \cup {j}]
           /\ UNCHANGED <<phase, count>>
  <2>1. pending'[o] = pending[o] \cup {j}
    BY <1>7 DEF TypeOK
  <2>2. Uncounted(o)' = Uncounted(o)
    BY <2>1, <1>1, <1>2 DEF Uncounted
  <2>3. Partition(o)'
    BY <1>7, <2>1, <1>1, <1>2 DEF Partition, Accounted
  <2> QED
    BY <1>7, <2>2, <2>3, <1>3, <1>4, <1>5 DEF Accounted
<1>8. CASE Completed(j) = "raises" /\ phase' = [phase EXCEPT ![o] = "failed"]
           /\ UNCHANGED <<pending, count>>
  <2>1. phase'[o] = "failed"
    BY <1>8 DEF TypeOK
  <2>2. Uncounted(o)' = Uncounted(o) \ {j}
    BY <1>8, <1>1, <1>2 DEF Uncounted
  <2>3. Partition(o)'
    BY <1>8, <2>1, <1>1, <1>2 DEF Partition, Accounted
  <2> QED
    BY <1>8, <2>1, <2>2, <2>3, <1>3, <1>4, <1>5 DEF Accounted
<1> QED
  BY <1>6, <1>7, <1>8 DEF Scan

LEMMA OpenPoolBooks ==
  ASSUME RunAssumption, TypeOK, NEW o \in Owners, Accounted(o), OpenPool(o)
  PROVE  Accounted(o)'
<1>1. PICK s \in FirstJobs(o) :
        /\ futures' = [futures EXCEPT ![o] = s]
        /\ pending' = [pending EXCEPT ![o] = @ \ s]
  BY DEF OpenPool
<1>2. s \subseteq pending[o] /\ futures'[o] = s /\ pending'[o] = pending[o] \ s
  BY <1>1 DEF FirstJobs, TypeOK
<1>3. /\ phase[o] = "scan" /\ unscanned[o] = {} /\ futures[o] = {}
      /\ phase'[o] = "dispatch" /\ unscanned'[o] = unscanned[o]
      /\ count'[o] = count[o]
  BY DEF OpenPool, Accounted, Partition, TypeOK
<1>4. Uncounted(o)' = Uncounted(o)
  BY <1>2, <1>3 DEF Uncounted
<1>5. Partition(o)'
  BY <1>2, <1>3 DEF Partition
<1> QED
  BY <1>3, <1>4, <1>5 DEF Accounted

LEMMA CollectBooks ==
  ASSUME RunAssumption, TypeOK, NEW o \in Owners, Accounted(o),
         NEW j \in Jobs, Collect(o, j)
  PROVE  Accounted(o)' /\ count'[o] \in 0 .. Cardinality(Jobs)
<1>1. /\ phase[o] = "dispatch" /\ j \in futures[o] /\ j \notin pending[o]
      /\ unscanned[o] = {} /\ unscanned'[o] = {} /\ j \in Uncounted(o)
  BY DEF Collect, Accounted, Partition, Uncounted
<1>2. /\ Cardinality(Uncounted(o)) \in Nat \ {0}
      /\ Cardinality(Uncounted(o) \ {j}) = Cardinality(Uncounted(o)) - 1
  BY <1>1, UncountedSize, CountOne DEF RunAssumption
<1>3. count[o] \in Nat /\ Cardinality(Jobs) \in Nat
  BY UncountedSize DEF TypeOK
<1>4. count[o] + Cardinality(Uncounted(o)) = Cardinality(Jobs)
  BY <1>1 DEF Accounted
<1>5. CASE CollectAnswer(o, j)
  <2>1. count'[o] = count[o] + 1 /\ phase'[o] = "dispatch"
    BY <1>5, <1>1 DEF CollectAnswer, TypeOK
  <2>2. Uncounted(o)' = Uncounted(o) \ {j} /\ Partition(o)'
    <3>1. CASE /\ pending[o] = {}
               /\ futures' = [futures EXCEPT ![o] = @ \ {j}]
               /\ UNCHANGED <<pending, pc>>
      <4>1. futures'[o] = futures[o] \ {j} /\ pending'[o] = {}
        BY <3>1 DEF TypeOK
      <4> QED
        BY <4>1, <3>1, <1>1, <2>1 DEF Uncounted, Partition
    <3>2. ASSUME NEW k \in pending[o],
                 pending' = [pending EXCEPT ![o] = @ \ {k}],
                 futures' = [futures EXCEPT ![o] = (@ \ {j}) \cup {k}]
          PROVE  Uncounted(o)' = Uncounted(o) \ {j} /\ Partition(o)'
      <4>1. /\ futures'[o] = (futures[o] \ {j}) \cup {k}
            /\ pending'[o] = pending[o] \ {k}
        BY <3>2 DEF TypeOK
      <4>2. pending[o] \cap futures[o] = {}
        BY DEF Accounted, Partition
      <4> QED
        BY <4>1, <4>2, <1>1, <2>1 DEF Uncounted, Partition
    <3> QED
      BY <1>5, <3>1, <3>2 DEF CollectAnswer, SubmitNext
  <2> QED
    BY <2>1, <2>2, <1>2, <1>3, <1>4 DEF Accounted
<1>6. CASE CollectFailure(o, j)
  <2>1. /\ count'[o] = count[o] /\ phase'[o] = "unwind"
        /\ futures'[o] = futures[o] \ {j} /\ pending'[o] = pending[o]
    BY <1>6 DEF CollectFailure, TypeOK
  <2>2. Uncounted(o)' = Uncounted(o) \ {j}
    BY <2>1, <1>1 DEF Uncounted
  <2>3. Partition(o)'
    BY <2>1, <1>1 DEF Partition, Accounted
  <2> QED
    BY <2>1, <2>2, <2>3, <1>2, <1>3, <1>4 DEF Accounted
<1> QED
  BY <1>5, <1>6 DEF Collect

\* Steps that change only the phase of the owner, and never into dispatch.
LEMMA PhaseBooks ==
  ASSUME RunAssumption, TypeOK, NEW o \in Owners, Accounted(o),
         Start(o) \/ Unwind(o) \/ Complete(o) \/ Crash(o)
  PROVE  Accounted(o)'
<1>1. UNCHANGED <<unscanned, pending, futures, count>>
  BY DEF Start, Unwind, Complete, Crash
<1>2. Uncounted(o)' = Uncounted(o)
  BY <1>1 DEF Uncounted
<1>3. \/ phase[o] = "idle" /\ phase'[o] = "scan"
      \/ phase'[o] \in Ended
  BY DEF Start, Unwind, Complete, Crash, TypeOK, Ended
<1>4. Partition(o)'
  BY <1>1, <1>3 DEF Accounted, Partition, Ended
<1> QED
  BY <1>1, <1>2, <1>3, <1>4 DEF Accounted, Ended

LEMMA BooksKept ==
  ASSUME RunAssumption, TypeOK, Bookkeeping, [Next]_vars
  PROVE  Bookkeeping'
<1> SUFFICES ASSUME NEW o \in Owners PROVE Accounted(o)'
  BY DEF Bookkeeping
<1>0. Accounted(o)
  BY DEF Bookkeeping
<1>1. CASE UNCHANGED vars
  BY <1>1, <1>0, BooksUntouched DEF vars, owner, SameBooks
<1>2. ASSUME NEW p \in Owners, NEW j \in Jobs, RunDay(p, j) PROVE Accounted(o)'
  <2>1. UNCHANGED owner
    BY <1>2 DEF RunDay, Enter, WriteVectors, WriteResult, TakeHashes, WriteDone,
                Raise, WriteError
  <2> QED
    BY <2>1, <1>0, BooksUntouched DEF owner, SameBooks
<1>3. ASSUME NEW p \in Owners, Start(p) \/ OwnerStep(p) \/ Crash(p), p # o
      PROVE  Accounted(o)'
  <2>1. SameBooks(o)
    <3>1. CASE Start(p) \/ Crash(p) \/ Unwind(p) \/ Complete(p)
      BY <1>3, <3>1 DEF SameBooks, Start, Crash, Unwind, Complete, TypeOK
    <3>2. CASE OpenPool(p)
      BY <1>3, <3>2 DEF SameBooks, OpenPool, TypeOK
    <3>3. ASSUME NEW j \in Jobs, Scan(p, j) PROVE SameBooks(o)
      BY <1>3, <3>3 DEF SameBooks, Scan, TypeOK
    <3>4. ASSUME NEW j \in Jobs, Collect(p, j) PROVE SameBooks(o)
      BY <1>3, <3>4 DEF SameBooks, Collect, CollectAnswer, CollectFailure, SubmitNext, TypeOK
    <3> QED
      BY <1>3, <3>1, <3>2, <3>3, <3>4 DEF OwnerStep
  <2> QED
    BY <2>1, <1>0, BooksUntouched
<1>4. CASE Start(o) \/ Crash(o)
  BY <1>4, <1>0, PhaseBooks
<1>5. CASE OwnerStep(o)
  BY <1>5, <1>0, PhaseBooks, ScanBooks, CollectBooks, OpenPoolBooks DEF OwnerStep
<1> QED
  BY <1>1, <1>2, <1>3, <1>4, <1>5 DEF Next

(***************************************************************************)
(* Type correctness.                                                       *)
(***************************************************************************)
LEMMA OwnerTypes ==
  ASSUME RunAssumption, TypeOK, Bookkeeping, NEW o \in Owners,
         Start(o) \/ OwnerStep(o) \/ Crash(o)
  PROVE  TypeOK'
<1>0. /\ Accounted(o)
      /\ Active \subseteq Phases /\ Ended \subseteq Phases
      /\ "queued" \in Stages /\ "cancelled" \in Stages /\ "dead" \in Stages
  BY DEF Bookkeeping, Phases, Stages, Live
<1>1. CASE Start(o)
  BY <1>1, <1>0 DEF Start, TypeOK, files, Active
<1>2. ASSUME NEW j \in Jobs, Scan(o, j) PROVE TypeOK'
  <2>1. count'[o] \in 0 .. Cardinality(Jobs)
    BY <1>0, <1>2, ScanBooks
  <2>2. count' \in [Owners -> 0 .. Cardinality(Jobs)]
    BY <1>2, <2>1 DEF Scan, TypeOK
  <2>3. phase' \in [Owners -> Phases]
    BY <1>2, <1>0 DEF Scan, TypeOK, Ended
  <2>4. /\ unscanned' \in [Owners -> SUBSET Jobs]
        /\ pending' \in [Owners -> SUBSET Jobs]
    BY <1>2 DEF Scan, TypeOK
  <2> QED
    BY <1>2, <2>2, <2>3, <2>4 DEF Scan, TypeOK, files
<1>3. ASSUME NEW j \in Jobs, Collect(o, j) PROVE TypeOK'
  <2>1. count'[o] \in 0 .. Cardinality(Jobs)
    BY <1>0, <1>3, CollectBooks
  <2>2. count' \in [Owners -> 0 .. Cardinality(Jobs)]
    BY <1>3, <2>1 DEF Collect, CollectAnswer, CollectFailure, TypeOK
  <2>3. phase' \in [Owners -> Phases]
    BY <1>3, <1>0 DEF Collect, CollectAnswer, CollectFailure, TypeOK, Active
  <2>4. /\ futures' \in [Owners -> SUBSET Jobs]
        /\ pending' \in [Owners -> SUBSET Jobs]
        /\ pc' \in [Owners -> [Jobs -> Stages]]
    <3>1. CASE CollectAnswer(o, j)
      BY <3>1, <1>0 DEF CollectAnswer, SubmitNext, Goto, TypeOK
    <3>2. CASE CollectFailure(o, j)
      BY <3>2, <1>0 DEF CollectFailure, TypeOK
    <3> QED
      BY <1>3, <3>1, <3>2 DEF Collect
  <2> QED
    BY <1>3, <2>2, <2>3, <2>4 DEF Collect, TypeOK, files
<1>4. CASE OpenPool(o)
  <2>1. /\ futures' \in [Owners -> SUBSET Jobs]
        /\ pending' \in [Owners -> SUBSET Jobs]
        /\ pc' \in [Owners -> [Jobs -> Stages]]
    BY <1>4, <1>0 DEF OpenPool, FirstJobs, TypeOK
  <2> QED
    BY <1>4, <2>1, <1>0 DEF OpenPool, TypeOK, files, Active
<1>5. CASE Unwind(o) \/ Complete(o)
  <2>1. CASE Unwind(o)
    <3>1. phase' \in [Owners -> Phases]
      BY <2>1, <1>0 DEF Unwind, TypeOK, Ended
    <3> QED
      BY <2>1, <3>1 DEF Unwind, TypeOK, files
  <2>2. CASE Complete(o)
    <3>1. {"complete", "failed"} \subseteq Phases
      BY <1>0 DEF Ended
    <3>2. /\ phase \in [Owners -> Phases]
          /\ complete \in BOOLEAN
      BY DEF TypeOK
    <3>3. \/ complete' = TRUE /\ phase' = [phase EXCEPT ![o] = "complete"]
          \/ complete' = complete /\ phase' = [phase EXCEPT ![o] = "failed"]
      BY <2>2 DEF Complete
    <3>4. complete' \in BOOLEAN
      BY <3>2, <3>3
    <3>5. phase' \in [Owners -> Phases]
      BY <3>1, <3>2, <3>3
    <3> QED
      BY <2>2, <3>4, <3>5 DEF Complete, TypeOK, files
  <2> QED
    BY <1>5, <2>1, <2>2
<1>6. CASE Crash(o)
  <2>1. crashes' \in 0 .. MaxCrashes
    BY <1>6 DEF Crash, TypeOK, RunAssumption
  <2>2. pc' \in [Owners -> [Jobs -> Stages]]
    BY <1>6, <1>0 DEF Crash, TypeOK
  <2> QED
    BY <1>6, <2>1, <2>2, <1>0 DEF Crash, TypeOK, files, Ended
<1> QED
  BY <1>1, <1>2, <1>3, <1>4, <1>5, <1>6 DEF OwnerStep

LEMMA GotoType ==
  ASSUME TypeOK, NEW o \in Owners, NEW j \in Jobs,
         NEW stage \in Stages, Goto(o, j, stage)
  PROVE  /\ pc' \in [Owners -> [Jobs -> Stages]]
         /\ pc'[o][j] = stage
         /\ \A p \in Owners, k \in Jobs : <<p, k>> # <<o, j>> => pc'[p][k] = pc[p][k]
BY DEF Goto, TypeOK

LEMMA DayTypes ==
  ASSUME TypeOK, NEW o \in Owners, NEW j \in Jobs, RunDay(o, j)
  PROVE  TypeOK'
<1>0. {"torn", "whole"} \subseteq FileStates
  BY DEF FileStates
<1>1. \A stage \in Live \cup Answered : stage \in Stages
  BY DEF Stages
<1>2. PICK stage \in Live \cup Answered : Goto(o, j, stage)
  <2>1. {"compute", "closeVectors", "openResult", "closeResult", "hash",
         "openDone", "closeDone", "openError", "closeError", "ok", "resumed",
         "error", "raised"} \subseteq Live \cup Answered
    BY DEF Live, Computing, Recording, Answered
  <2> QED
    BY <2>1 DEF RunDay, Enter, WriteVectors, WriteResult, TakeHashes, WriteDone,
                Raise, WriteError
<1>3. pc' \in [Owners -> [Jobs -> Stages]]
  BY <1>1, <1>2, GotoType
<1>4. CASE Enter(o, j) \/ Raise(o, j)
  BY <1>3, <1>4 DEF Enter, Raise, TypeOK, files, owner
<1>5. CASE WriteVectors(o, j)
  BY <1>0, <1>3, <1>5 DEF WriteVectors, TypeOK, owner
<1>6. CASE WriteResult(o, j)
  BY <1>0, <1>3, <1>6 DEF WriteResult, TypeOK, owner
<1>7. CASE TakeHashes(o, j)
  <2>1. [vectors |-> vectors[j], result |-> result[j]] \in Hashes
    BY DEF Hashes, TypeOK
  <2>2. held' \in [Owners -> [Jobs -> Hashes]]
    BY <1>7, <2>1 DEF TakeHashes, TypeOK
  <2> QED
    BY <1>3, <1>7, <2>2 DEF TakeHashes, TypeOK, files, owner
<1>8. CASE WriteDone(o, j)
  <2>1. held[o][j] \in Hashes
    BY DEF TypeOK
  <2>2. recorded' \in [Jobs -> Hashes] /\ done' \in [Jobs -> FileStates]
    BY <1>0, <1>8, <2>1 DEF WriteDone, TypeOK
  <2> QED
    BY <1>3, <1>8, <2>2 DEF WriteDone, TypeOK, owner
<1>9. CASE WriteError(o, j)
  BY <1>0, <1>3, <1>9 DEF WriteError, TypeOK, owner
<1> QED
  BY <1>4, <1>5, <1>6, <1>7, <1>8, <1>9 DEF RunDay

LEMMA TypesKept ==
  ASSUME RunAssumption, TypeOK, Bookkeeping, [Next]_vars
  PROVE  TypeOK'
<1>1. CASE UNCHANGED vars
  BY <1>1 DEF vars, files, owner, TypeOK
<1>2. CASE Next
  BY <1>2, OwnerTypes, DayTypes DEF Next
<1> QED
  BY <1>1, <1>2

(***************************************************************************)
(* Only the owner that starts can become busy, and then nobody else is.    *)
(***************************************************************************)
\* Every step but Start is the step of a busy owner, and touches no other.
LEMMA StepOfBusy ==
  ASSUME TypeOK, NEW o \in Owners,
         \/ OwnerStep(o) \/ Crash(o)
         \/ \E j \in Jobs : RunDay(o, j)
  PROVE  /\ Busy(o)
         /\ \A p \in Owners \ {o} : phase'[p] = phase[p] /\ pc'[p] = pc[p]
<1>1. CASE OwnerStep(o)
  <2>1. phase[o] \in Active
    BY <1>1 DEF OwnerStep, Scan, Collect, OpenPool, Unwind, Complete, Active
  <2>2. ASSUME NEW p \in Owners \ {o} PROVE phase'[p] = phase[p] /\ pc'[p] = pc[p]
    <3>1. ASSUME NEW j \in Jobs, Scan(o, j) PROVE phase'[p] = phase[p] /\ pc'[p] = pc[p]
      BY <3>1 DEF Scan, TypeOK
    <3>2. ASSUME NEW j \in Jobs, Collect(o, j) PROVE phase'[p] = phase[p] /\ pc'[p] = pc[p]
      BY <3>2 DEF Collect, CollectAnswer, CollectFailure, SubmitNext, Goto, TypeOK
    <3>3. CASE OpenPool(o) \/ Unwind(o) \/ Complete(o)
      BY <3>3 DEF OpenPool, Unwind, Complete, TypeOK
    <3> QED
      BY <1>1, <3>1, <3>2, <3>3 DEF OwnerStep
  <2> QED
    BY <2>1, <2>2 DEF Busy
<1>2. CASE Crash(o)
  BY <1>2 DEF Crash, Busy, TypeOK
<1>3. ASSUME NEW j \in Jobs, RunDay(o, j)
      PROVE  Busy(o) /\ \A p \in Owners \ {o} : phase'[p] = phase[p] /\ pc'[p] = pc[p]
  <2>1. pc[o][j] \in Live
    BY <1>3 DEF RunDay, Enter, WriteVectors, WriteResult, TakeHashes, WriteDone,
                Raise, WriteError, Live, Computing, Recording
  <2>2. phase' = phase /\ \A p \in Owners \ {o} : pc'[p] = pc[p]
    BY <1>3 DEF RunDay, Enter, WriteVectors, WriteResult, TakeHashes, WriteDone,
                Raise, WriteError, owner, Goto, TypeOK
  <2> QED
    BY <2>1, <2>2 DEF Busy
<1> QED
  BY <1>1, <1>2, <1>3

LEMMA AloneKept ==
  ASSUME TypeOK, Careful, Alone, [Next]_vars
  PROVE  Alone'
<1>1. CASE UNCHANGED vars
  <2>1. \A o \in Owners : Busy(o)' <=> Busy(o)
    BY <1>1 DEF vars, owner, Busy
  <2> QED
    BY <2>1 DEF Alone
<1>2. ASSUME NEW o \in Owners, Start(o) PROVE Alone'
  <2>1. ASSUME NEW p \in Owners \ {o} PROVE ~Busy(p)'
    BY <1>2, <2>1 DEF Careful, Start, MayStart, LiveJobs, Busy, TypeOK
  <2> QED
    BY <2>1 DEF Alone
<1>3. ASSUME NEW o \in Owners,
             OwnerStep(o) \/ Crash(o) \/ \E j \in Jobs : RunDay(o, j)
      PROVE  Alone'
  <2>1. \A p \in Owners \ {o} : ~Busy(p)
    BY <1>3, StepOfBusy DEF Alone
  <2>2. \A p \in Owners \ {o} : Busy(p)' <=> Busy(p)
    BY <1>3, StepOfBusy DEF Busy
  <2> QED
    BY <2>1, <2>2 DEF Alone
<1> QED
  BY <1>1, <1>2, <1>3 DEF Next

LEMMA IdleKept ==
  ASSUME TypeOK, IdleFresh, [Next]_vars
  PROVE  IdleFresh'
<1> SUFFICES ASSUME NEW p \in Owners, phase'[p] = "idle"
             PROVE unscanned'[p] = Jobs
  BY DEF IdleFresh
<1>1. CASE UNCHANGED vars
  BY <1>1 DEF vars, owner, IdleFresh
<1>2. ASSUME NEW o \in Owners, Start(o) \/ Crash(o) PROVE unscanned'[p] = Jobs
  BY <1>2 DEF Start, Crash, IdleFresh, TypeOK
<1>3. ASSUME NEW o \in Owners, OwnerStep(o) PROVE unscanned'[p] = Jobs
  <2>1. ASSUME NEW j \in Jobs, Scan(o, j) PROVE unscanned'[p] = Jobs
    BY <2>1 DEF Scan, IdleFresh, TypeOK
  <2>2. ASSUME NEW j \in Jobs, Collect(o, j) PROVE unscanned'[p] = Jobs
    BY <2>2 DEF Collect, CollectAnswer, CollectFailure, IdleFresh, TypeOK
  <2>3. CASE OpenPool(o) \/ Unwind(o) \/ Complete(o)
    BY <2>3 DEF OpenPool, Unwind, Complete, IdleFresh, TypeOK
  <2> QED
    BY <1>3, <2>1, <2>2, <2>3 DEF OwnerStep
<1>4. ASSUME NEW o \in Owners, NEW j \in Jobs, RunDay(o, j) PROVE unscanned'[p] = Jobs
  BY <1>4 DEF RunDay, Enter, WriteVectors, WriteResult, TakeHashes, WriteDone,
              Raise, WriteError, owner, IdleFresh
<1> QED
  BY <1>1, <1>2, <1>3, <1>4 DEF Next

(***************************************************************************)
(* Attempts: what an attempt found when it entered still holds, because    *)
(* nobody else writes its day.                                             *)
(***************************************************************************)
\* An attempt whose stage, hashes and day folder a step leaves alone.
LEMMA SameAttempt ==
  ASSUME NEW o \in Owners, NEW j \in Jobs, AttemptSound(o, j),
         pc'[o][j] = pc[o][j], held'[o][j] = held[o][j],
         vectors'[j] = vectors[j], result'[j] = result[j],
         done'[j] = done[j], error'[j] = error[j], recorded'[j] = recorded[j]
  PROVE  AttemptSound(o, j)'
BY DEF AttemptSound, Verified

\* The owner's steps move an attempt at most to a stage without claims.
LEMMA OwnerMoves ==
  ASSUME TypeOK, NEW o \in Owners, Start(o) \/ OwnerStep(o) \/ Crash(o),
         NEW p \in Owners, NEW k \in Jobs
  PROVE  /\ UNCHANGED <<files, held>>
         /\ pc'[p][k] = pc[p][k] \/ pc'[p][k] \in {"queued", "cancelled", "dead"}
<1>1. UNCHANGED <<files, held>>
  BY DEF Start, OwnerStep, Scan, Collect, OpenPool, Unwind, Complete, Crash
<1>2. pc'[p][k] = pc[p][k] \/ pc'[p][k] \in {"queued", "cancelled", "dead"}
  <2>0. CASE Start(o)
    BY <2>0 DEF Start
  <2>1. CASE Crash(o)
    <3>1. PICK orphans \in SUBSET LiveJobs(o) :
            pc' = [pc EXCEPT ![o] =
                     [j \in Jobs |-> IF j \in LiveJobs(o) \ orphans
                                     THEN "dead" ELSE pc[o][j]]]
      BY <2>1 DEF Crash, TypeOK
    <3>2. pc'[p][k] = IF p = o /\ k \in LiveJobs(o) \ orphans
                      THEN "dead" ELSE pc[p][k]
      BY <3>1 DEF TypeOK
    <3> QED
      BY <3>2
  <2>2. ASSUME NEW j \in Jobs, Scan(o, j) PROVE pc'[p][k] = pc[p][k]
    BY <2>2 DEF Scan
  <2>3. ASSUME NEW j \in Jobs, Collect(o, j)
        PROVE pc'[p][k] = pc[p][k] \/ pc'[p][k] \in {"queued", "cancelled", "dead"}
    BY <2>3 DEF Collect, CollectAnswer, CollectFailure, SubmitNext, Goto, TypeOK
  <2>4. CASE OpenPool(o)
    <3>1. PICK s \in FirstJobs(o) :
            pc' = [pc EXCEPT ![o] =
                     [j \in Jobs |-> IF j \in s THEN "queued" ELSE pc[o][j]]]
      BY <2>4 DEF OpenPool, TypeOK
    <3>2. pc'[p][k] = IF p = o /\ k \in s THEN "queued" ELSE pc[p][k]
      BY <3>1 DEF TypeOK
    <3> QED
      BY <3>2
  <2>5. CASE Unwind(o) \/ Complete(o)
    BY <2>5 DEF Unwind, Complete
  <2> QED
    BY <2>0, <2>1, <2>2, <2>3, <2>4, <2>5 DEF OwnerStep
<1> QED BY <1>1, <1>2

LEMMA OwnerStepAttempts ==
  ASSUME TypeOK, AttemptsSound, NEW o \in Owners,
         Start(o) \/ OwnerStep(o) \/ Crash(o)
  PROVE  AttemptsSound'
<1> SUFFICES ASSUME NEW p \in Owners, NEW k \in Jobs PROVE AttemptSound(p, k)'
  BY DEF AttemptsSound
<1>1. UNCHANGED <<files, held>>
  BY OwnerMoves
<1>2. pc'[p][k] = pc[p][k] \/ pc'[p][k] \in {"queued", "cancelled", "dead"}
  BY OwnerMoves
<1>3. AttemptSound(p, k)
  BY DEF AttemptsSound
<1>4. CASE pc'[p][k] = pc[p][k]
  BY <1>1, <1>3, <1>4, SameAttempt DEF files
<1>5. CASE pc'[p][k] \in {"queued", "cancelled", "dead"}
  BY <1>5 DEF AttemptSound, Computing, Recording
<1> QED
  BY <1>2, <1>4, <1>5

\* The attempt that moves.
LEMMA DayOwnAttempt ==
  ASSUME TypeOK, NEW o \in Owners, NEW j \in Jobs, AttemptSound(o, j),
         DoneHasNoError, RunDay(o, j)
  PROVE  AttemptSound(o, j)'
<1>1. CASE Enter(o, j)
  <2>1. CASE Completed(j) = "done" /\ Goto(o, j, "resumed")
    <3>1. Verified(j)
      BY <2>1 DEF Completed
    <3>2. Verified(j)'
      BY <3>1, <1>1 DEF Enter, files, Verified
    <3> QED
      BY <2>1, <3>2, GotoType DEF AttemptSound, Computing, Recording, Stages,
         Answered
  <2>2. CASE Goto(o, j, "raised")
    BY <2>2, GotoType DEF AttemptSound, Computing, Recording, Stages, Answered
  <2>3. CASE Completed(j) = "none" /\ error[j] = "absent" /\ Goto(o, j, "compute")
    <3>1. done[j] = "absent"
      BY <2>3 DEF Completed
    <3>2. pc'[o][j] = "compute"
      BY <2>3, GotoType DEF Stages, Live, Computing
    <3>3. done'[j] = "absent" /\ error'[j] = "absent"
      BY <3>1, <2>3, <1>1 DEF Enter, files
    <3> QED
      BY <3>2, <3>3 DEF AttemptSound, Recording
  <2> QED
    BY <1>1, <2>1, <2>2, <2>3 DEF Enter
<1>2. CASE WriteVectors(o, j)
  BY <1>2 DEF WriteVectors, Goto, TypeOK, AttemptSound, Computing, Recording
<1>3. CASE WriteResult(o, j)
  BY <1>3 DEF WriteResult, Goto, TypeOK, AttemptSound, Computing, Recording
<1>4. CASE TakeHashes(o, j)
  BY <1>4 DEF TakeHashes, Goto, TypeOK, AttemptSound, Computing, Recording, files,
              Whole
<1>5. CASE WriteDone(o, j)
  <2>1. CASE pc[o][j] = "openDone"
    BY <1>5, <2>1 DEF WriteDone, Goto, TypeOK, AttemptSound, Computing, Recording
  <2>2. CASE pc[o][j] = "closeDone"
    <3>1. /\ pc'[o][j] = "ok" /\ done'[j] = "whole" /\ recorded'[j] = Whole
          /\ vectors'[j] = "whole" /\ result'[j] = "whole"
      BY <1>5, <2>2 DEF WriteDone, Goto, TypeOK, AttemptSound
    <3>2. Verified(j)'
      BY <3>1 DEF Verified, Whole
    <3> QED
      BY <3>1, <3>2 DEF AttemptSound, Computing, Recording
  <2> QED
    BY <1>5, <2>1, <2>2 DEF WriteDone
<1>6. CASE Raise(o, j)
  <2>1. done'[j] # "whole"
    BY <1>6 DEF Raise, AttemptSound, files
  <2>2. pc'[o][j] = "openError"
    BY <1>6, GotoType DEF Raise, Stages, Live, Recording
  <2> QED
    BY <2>1, <2>2 DEF AttemptSound, Computing
<1>7. CASE WriteError(o, j)
  BY <1>7 DEF WriteError, Goto, TypeOK, AttemptSound, Computing, Recording
<1> QED
  BY <1>1, <1>2, <1>3, <1>4, <1>5, <1>6, <1>7 DEF RunDay

\* What a day's step leaves alone: every other day's folder and attempts.
LEMMA DayTouches ==
  ASSUME TypeOK, NEW o \in Owners, NEW j \in Jobs, RunDay(o, j),
         NEW p \in Owners, NEW k \in Jobs
  PROVE  /\ <<p, k>> # <<o, j>> => pc'[p][k] = pc[p][k] /\ held'[p][k] = held[p][k]
         /\ k # j => /\ vectors'[k] = vectors[k] /\ result'[k] = result[k]
                     /\ done'[k] = done[k] /\ error'[k] = error[k]
                     /\ recorded'[k] = recorded[k]
<1>1. CASE Enter(o, j) \/ Raise(o, j)
  BY <1>1 DEF Enter, Raise, Goto, files, TypeOK
<1>2. CASE WriteVectors(o, j) \/ WriteResult(o, j)
  BY <1>2 DEF WriteVectors, WriteResult, Goto, TypeOK
<1>3. CASE TakeHashes(o, j)
  BY <1>3 DEF TakeHashes, Goto, files, TypeOK
<1>4. CASE WriteDone(o, j) \/ WriteError(o, j)
  BY <1>4 DEF WriteDone, WriteError, Goto, TypeOK
<1> QED
  BY <1>1, <1>2, <1>3, <1>4 DEF RunDay

LEMMA DayAttempts ==
  ASSUME TypeOK, Alone, AttemptsSound, DoneHasNoError, DayIsFinal,
         NEW o \in Owners, NEW j \in Jobs, RunDay(o, j)
  PROVE  AttemptsSound'
<1> SUFFICES ASSUME NEW p \in Owners, NEW k \in Jobs PROVE AttemptSound(p, k)'
  BY DEF AttemptsSound
<1>0. AttemptSound(p, k) /\ AttemptSound(o, j)
  BY DEF AttemptsSound
<1>1. CASE k # j
  BY <1>0, <1>1, DayTouches, SameAttempt
<1>2. CASE k = j /\ p = o
  BY <1>0, <1>2, DayOwnAttempt
<1>3. CASE k = j /\ p # o
  <2>1. ~Busy(p)
    BY <1>3, StepOfBusy DEF Alone
  <2>2. pc'[p][k] = pc[p][k] /\ pc[p][k] \notin Live
    BY <1>3, <2>1, DayTouches DEF Busy
  <2>3. pc[p][k] \in {"ok", "resumed"} => Verified(k)'
    BY <1>0 DEF AttemptSound, DayIsFinal
  <2> QED
    BY <2>2, <2>3 DEF AttemptSound, Live, Computing, Recording
<1> QED
  BY <1>1, <1>2, <1>3

LEMMA AttemptsKept ==
  ASSUME RunAssumption, RInv, [Next]_vars
  PROVE  AttemptsSound'
<1>1. CASE UNCHANGED vars
  BY <1>1 DEF vars, files, RInv, AttemptsSound, AttemptSound, Verified
<1>2. CASE Next
  BY <1>2, OwnerStepAttempts, DayAttempts, StepKeepsVerified DEF Next, RInv
<1> QED
  BY <1>1, <1>2

(***************************************************************************)
(* Errors, counted days, and the marker.                                   *)
(***************************************************************************)
LEMMA NoErrorKept ==
  ASSUME TypeOK, AttemptsSound, DoneHasNoError, [Next]_vars
  PROVE  DoneHasNoError'
<1>1. CASE UNCHANGED files
  BY <1>1 DEF files, DoneHasNoError
<1>2. ASSUME NEW o \in Owners, Start(o) \/ OwnerStep(o) \/ Crash(o)
      PROVE  UNCHANGED files
  BY <1>2 DEF Start, OwnerStep, Scan, Collect, OpenPool, Unwind, Complete, Crash
<1>3. ASSUME NEW o \in Owners, NEW j \in Jobs, RunDay(o, j)
      PROVE  DoneHasNoError'
  <2>0. AttemptSound(o, j)
    BY DEF AttemptsSound
  <2>1. CASE Enter(o, j) \/ TakeHashes(o, j) \/ Raise(o, j)
             \/ WriteVectors(o, j) \/ WriteResult(o, j)
    <3>1. UNCHANGED <<done, error>>
      BY <2>1 DEF Enter, TakeHashes, Raise, WriteVectors, WriteResult, files
    <3> QED
      BY <3>1 DEF DoneHasNoError
  <2>2. CASE WriteDone(o, j)
    <3>1. error[j] = "absent" /\ UNCHANGED error
      BY <2>0, <2>2 DEF WriteDone, AttemptSound, Computing
    <3>2. \A k \in Jobs \ {j} : done'[k] = done[k]
      BY <2>2 DEF WriteDone, TypeOK
    <3> QED
      BY <3>1, <3>2 DEF DoneHasNoError
  <2>3. CASE WriteError(o, j)
    <3>1. done[j] # "whole" /\ UNCHANGED done
      BY <2>0, <2>3 DEF WriteError, AttemptSound, Recording
    <3>2. \A k \in Jobs \ {j} : error'[k] = error[k]
      BY <2>3 DEF WriteError, TypeOK
    <3> QED
      BY <3>1, <3>2 DEF DoneHasNoError
  <2> QED
    BY <1>3, <2>1, <2>2, <2>3 DEF RunDay
<1> QED
  BY <1>1, <1>2, <1>3 DEF Next, vars

\* Jobs leave an owner's sets only when found or returned verified.
LEMMA CountedKept ==
  ASSUME TypeOK, Bookkeeping, IdleFresh, CountedVerified, AttemptsSound,
         DayIsFinal, [Next]_vars
  PROVE  CountedVerified'
<1> SUFFICES ASSUME NEW p \in Owners, phase'[p] \in {"scan", "dispatch"},
                    NEW k \in Jobs, k \notin Uncounted(p)'
             PROVE  Verified(k)'
  BY DEF CountedVerified
<1> DEFINE Known == \/ Verified(k)
                    \/ phase[p] \in {"scan", "dispatch"} /\ k \notin Uncounted(p)
<1>0. SUFFICES Known
  BY DEF DayIsFinal, CountedVerified
<1>1. CASE SameBooks(p)
  BY <1>1 DEF SameBooks, Uncounted
<1>2. CASE UNCHANGED owner
  BY <1>2, <1>1 DEF owner, SameBooks
<1>3. ASSUME NEW o \in Owners, NEW j \in Jobs, RunDay(o, j) PROVE UNCHANGED owner
  BY <1>3 DEF RunDay, Enter, WriteVectors, WriteResult, TakeHashes, WriteDone,
              Raise, WriteError
<1>4. ASSUME NEW o \in Owners, Start(o) \/ OwnerStep(o) \/ Crash(o), o # p
      PROVE  SameBooks(p)
  <2>1. CASE Start(o) \/ Crash(o) \/ Unwind(o) \/ Complete(o)
    BY <1>4, <2>1 DEF SameBooks, Start, Crash, Unwind, Complete, TypeOK
  <2>2. CASE OpenPool(o)
    BY <1>4, <2>2 DEF SameBooks, OpenPool, TypeOK
  <2>3. ASSUME NEW j \in Jobs, Scan(o, j) PROVE SameBooks(p)
    BY <1>4, <2>3 DEF SameBooks, Scan, TypeOK
  <2>4. ASSUME NEW j \in Jobs, Collect(o, j) PROVE SameBooks(p)
    BY <1>4, <2>4 DEF SameBooks, Collect, CollectAnswer, CollectFailure, SubmitNext,
                      TypeOK
  <2> QED
    BY <1>4, <2>1, <2>2, <2>3, <2>4 DEF OwnerStep
<1>5. CASE Start(p)
  <2>1. unscanned[p] = Jobs /\ UNCHANGED unscanned
    BY <1>5 DEF Start, IdleFresh
  <2> QED
    BY <2>1 DEF Uncounted
<1>6. CASE Crash(p) \/ Unwind(p) \/ Complete(p)
  BY <1>6 DEF Crash, Unwind, Complete, TypeOK
<1>7. ASSUME NEW j \in Jobs, Scan(p, j) PROVE Known
  <2>1. phase[p] = "scan" /\ UNCHANGED futures
        /\ unscanned'[p] = unscanned[p] \ {j}
    BY <1>7 DEF Scan, TypeOK
  <2>2. CASE Completed(j) = "done" /\ UNCHANGED pending
    <3>1. Verified(j)
      BY <2>2 DEF Completed
    <3> QED
      BY <2>1, <2>2, <3>1 DEF Uncounted
  <2>3. CASE pending' = [pending EXCEPT ![p] = @ \cup {j}]
    <3>1. pending'[p] = pending[p] \cup {j}
      BY <2>3 DEF TypeOK
    <3> QED
      BY <2>1, <3>1 DEF Uncounted
  <2>4. CASE phase' = [phase EXCEPT ![p] = "failed"]
    BY <2>4 DEF TypeOK
  <2> QED
    BY <1>7, <2>2, <2>3, <2>4 DEF Scan
<1>8. CASE OpenPool(p)
  <2>1. PICK s \in FirstJobs(p) :
          /\ futures' = [futures EXCEPT ![p] = s]
          /\ pending' = [pending EXCEPT ![p] = @ \ s]
    BY <1>8 DEF OpenPool
  <2>2. futures'[p] = s /\ pending'[p] = pending[p] \ s
    BY <2>1 DEF TypeOK
  <2>3. phase[p] = "scan" /\ futures[p] = {} /\ UNCHANGED unscanned
    BY <1>8 DEF OpenPool, Bookkeeping, Accounted, Partition
  <2> QED
    BY <2>2, <2>3 DEF Uncounted
<1>9. ASSUME NEW j \in Jobs, Collect(p, j) PROVE Known
  <2>1. phase[p] = "dispatch" /\ UNCHANGED unscanned
    BY <1>9 DEF Collect
  <2>2. CASE CollectAnswer(p, j)
    <3>1. Verified(j)
      BY <2>2 DEF CollectAnswer, AttemptsSound, AttemptSound
    <3>2. pending[p] \cup futures[p] \subseteq pending'[p] \cup futures'[p] \cup {j}
      BY <2>2 DEF CollectAnswer, SubmitNext, TypeOK
    <3> QED
      BY <2>1, <3>1, <3>2 DEF Uncounted
  <2>3. CASE CollectFailure(p, j)
    BY <2>3 DEF CollectFailure, TypeOK
  <2> QED
    BY <1>9, <2>2, <2>3 DEF Collect
<1> QED
  BY <1>1, <1>2, <1>3, <1>4, <1>5, <1>6, <1>7, <1>8, <1>9 DEF Next, OwnerStep, vars

LEMMA CompletionKept ==
  ASSUME RunAssumption, Careful, RInv, DayIsFinal, [Next]_vars
  PROVE  CompletionIsHonest'
<1>1. CASE complete' = complete
  BY <1>1 DEF RInv, CompletionIsHonest, DayIsFinal
<1>2. ASSUME NEW o \in Owners, Complete(o), count[o] = Cardinality(Jobs)
      PROVE  CompletionIsHonest'
  <2>1. phase[o] = "dispatch" /\ Accounted(o) /\ TypeOK
    BY <1>2 DEF Complete, RInv, Bookkeeping
  <2>2. /\ Uncounted(o) \in SUBSET Jobs /\ Cardinality(Uncounted(o)) \in Nat
        /\ Cardinality(Jobs) \in Nat
    BY <2>1, UncountedSize
  <2>3. Cardinality(Uncounted(o)) = 0
    BY <1>2, <2>1, <2>2 DEF Accounted
  <2>4. Uncounted(o) = {}
    BY <2>2, <2>3, FS_EmptySet, FS_Subset DEF RunAssumption
  <2>5. \A j \in Jobs : Verified(j)
    BY <2>1, <2>4 DEF RInv, CountedVerified
  <2> QED
    BY <2>5 DEF CompletionIsHonest, DayIsFinal
<1>3. \/ complete' = complete
      \/ \E o \in Owners : Complete(o) /\ count[o] = Cardinality(Jobs)
  <2>1. ASSUME NEW o \in Owners, OwnerStep(o)
        PROVE  \/ complete' = complete
               \/ Complete(o) /\ count[o] = Cardinality(Jobs)
    BY <2>1 DEF OwnerStep, Scan, Collect, OpenPool, Unwind, Complete
  <2>2. ASSUME NEW o \in Owners, Start(o) \/ Crash(o) PROVE complete' = complete
    BY <2>2 DEF Start, Crash
  <2>3. ASSUME NEW o \in Owners, NEW j \in Jobs, RunDay(o, j)
        PROVE  complete' = complete
    BY <2>3 DEF RunDay, Enter, WriteVectors, WriteResult, TakeHashes, WriteDone,
                Raise, WriteError
  <2> QED
    BY <2>1, <2>2, <2>3 DEF Next, vars
<1> QED
  BY <1>1, <1>2, <1>3

-----------------------------------------------------------------------------
\* The circumstances do not change while the program runs.
LEMMA SameCircumstances == ASSUME [Next]_vars PROVE given' = given
<1>1. ASSUME NEW o \in Owners, Start(o) \/ OwnerStep(o) \/ Crash(o)
      PROVE  given' = given
  BY <1>1 DEF Start, OwnerStep, Scan, Collect, OpenPool, Unwind, Complete, Crash
<1>2. ASSUME NEW o \in Owners, NEW j \in Jobs, RunDay(o, j) PROVE given' = given
  BY <1>2 DEF RunDay, Enter, WriteVectors, WriteResult, TakeHashes, WriteDone,
              Raise, WriteError
<1> QED
  BY <1>1, <1>2 DEF Next, vars

LEMMA NextRInv ==
  ASSUME RunAssumption, Careful, RInv, [Next]_vars PROVE RInv'
<1> USE DEF RInv
<1>1. DayIsFinal
  BY StepKeepsVerified
<1>2. TypeOK' /\ Bookkeeping'
  BY TypesKept, BooksKept
<1>3. Alone' /\ IdleFresh'
  BY AloneKept, IdleKept
<1>4. CountedVerified'
  BY <1>1, CountedKept
<1>5. AttemptsSound' /\ DoneHasNoError'
  BY AttemptsKept, NoErrorKept
<1>6. CompletionIsHonest'
  BY <1>1, CompletionKept
<1> QED
  BY <1>2, <1>3, <1>4, <1>5, <1>6

\* The inductive invariant of a run whose owners are started in quiescence.
THEOREM RunInvariant == ASSUME RunAssumption PROVE Spec => [](Careful => RInv)
<1>1. Init => RInv
  BY InitRInv
<1>2. (Careful => RInv) /\ [Next]_vars => (Careful => RInv)'
  <2>1. [Next]_vars => (Careful' <=> Careful)
    BY SameCircumstances DEF Careful
  <2> QED
    BY <2>1, NextRInv
<1> QED
  BY <1>1, <1>2, PTL DEF Spec

\* Type correctness; in particular complete_count never exceeds the total.
THEOREM RunTypeCorrect == ASSUME RunAssumption PROVE Spec => []TypeOK
<1>1. Init => TypeOK /\ Bookkeeping
  BY InitRInv DEF RInv
<1>2. TypeOK /\ Bookkeeping /\ [Next]_vars => (TypeOK /\ Bookkeeping)'
  BY TypesKept, BooksKept
<1> QED
  BY <1>1, <1>2, PTL DEF Spec

\* The marker of run() vouches for every day's DONE.json and files.
THEOREM MarkerIsHonest ==
  ASSUME RunAssumption PROVE Spec => []CompletionIsHonest
<1>1. (Careful => RInv) => CompletionIsHonest
  BY DEF RInv, CompletionIsHonest
<1> QED
  BY <1>1, RunInvariant, PTL

\* A verified day is never computed again, over any number of restarts.
THEOREM VerifiedDaysAreFinal == ASSUME RunAssumption PROVE Spec => VerifiedIsFinal
<1>1. (Careful => RInv) /\ [Next]_vars =>
        [\A j \in Jobs : Careful /\ Verified(j) =>
           Verified(j)' /\ vectors'[j] = vectors[j] /\ result'[j] = result[j]]_vars
  BY StepKeepsVerified DEF RInv, DayIsFinal
<1> QED
  BY <1>1, RunInvariant, PTL DEF Spec, VerifiedIsFinal

\* No restart computes a day over its recorded error.
THEOREM FailedDaysStayFailed ==
  ASSUME RunAssumption PROVE Spec => []VerifiedHasNoError
<1>1. (Careful => RInv) => VerifiedHasNoError
  BY DEF RInv, DoneHasNoError, VerifiedHasNoError, Verified
<1> QED
  BY <1>1, RunInvariant, PTL

(***************************************************************************)
(* The loop accounts for each job once however owners are started: this part  *)
(* of the invariant needs nothing about the day folders.                   *)
(***************************************************************************)
THEOREM JobsAreAccounted == ASSUME RunAssumption PROVE Spec => []EveryJobAccounted
<1>1. Init => TypeOK /\ Bookkeeping
  BY InitRInv DEF RInv
<1>2. TypeOK /\ Bookkeeping /\ [Next]_vars => (TypeOK /\ Bookkeeping)'
  BY TypesKept, BooksKept
<1>3. TypeOK /\ Bookkeeping => EveryJobAccounted
  <2> SUFFICES ASSUME TypeOK, Bookkeeping, NEW o \in Owners, phase[o] = "dispatch"
               PROVE  count[o] + Cardinality(pending[o]) + Cardinality(futures[o])
                        = Cardinality(Jobs)
    BY DEF EveryJobAccounted
  <2>1. /\ Accounted(o) /\ pending[o] \cap futures[o] = {}
        /\ Uncounted(o) = pending[o] \cup futures[o]
    BY DEF Bookkeeping, Accounted, Partition, Uncounted
  <2>2. IsFiniteSet(pending[o]) /\ IsFiniteSet(futures[o])
    BY FS_Subset DEF TypeOK, RunAssumption
  <2>3. Cardinality(Uncounted(o)) = Cardinality(pending[o]) + Cardinality(futures[o])
    <3>1. Cardinality(pending[o] \cap futures[o]) = 0
      BY <2>1, FS_EmptySet
    <3>2. Cardinality(pending[o] \cup futures[o]) =
            Cardinality(pending[o]) + Cardinality(futures[o])
              - Cardinality(pending[o] \cap futures[o])
      BY <2>2, FS_Union
    <3>3. Cardinality(pending[o]) \in Nat /\ Cardinality(futures[o]) \in Nat
      BY <2>2, FS_CardinalityType
    <3> QED
      BY <2>1, <3>1, <3>2, <3>3
  <2>4. count[o] \in Nat /\ Cardinality(pending[o]) \in Nat
        /\ Cardinality(futures[o]) \in Nat
    BY <2>2, FS_CardinalityType, UncountedSize DEF TypeOK
  <2> QED
    BY <2>1, <2>3, <2>4 DEF Accounted
<1> QED
  BY <1>1, <1>2, <1>3, PTL DEF Spec

-----------------------------------------------------------------------------
(***************************************************************************)
(* Whose workers are alive.  The with block of run() waits for its pool,   *)
(* so that only a killed owner leaves workers behind; a still-live job is  *)
(* duplicated only by a hasty owner that meets such orphans, which is what *)
(* the run of LiveJobNotDuplicated exhibits.                               *)
(***************************************************************************)
PoolHolds(o) ==
  /\ phase[o] \in {"idle", "scan", "complete", "failed"} => LiveJobs(o) = {}
  /\ phase[o] = "dispatch" => LiveJobs(o) \subseteq futures[o]
  /\ ~Orphans /\ phase[o] = "crashed" => LiveJobs(o) = {}

Pools == \A o \in Owners : PoolHolds(o)

EndedRunsHaveNoWorkers ==
  \A o \in Owners : phase[o] \in {"complete", "failed"} => LiveJobs(o) = {}

LEMMA InitPools == Init => Pools
BY DEF Init, Pools, PoolHolds, LiveJobs, Live, Computing, Recording

(* An attempt that takes a step was live, and no other attempt changes.    *)
LEMMA DayKeepsPool ==
  ASSUME TypeOK, NEW o \in Owners, NEW j \in Jobs, RunDay(o, j), PoolHolds(o)
  PROVE  PoolHolds(o)'
<1>1. UNCHANGED <<phase, futures>> /\ pc[o][j] \in Live
  BY DEF RunDay, Enter, WriteVectors, WriteResult, TakeHashes, WriteDone, Raise,
         WriteError, owner, Live, Computing, Recording
<1>2. \A k \in Jobs \ {j} : pc'[o][k] = pc[o][k]
  BY DEF RunDay, Enter, WriteVectors, WriteResult, TakeHashes, WriteDone, Raise,
         WriteError, Goto, TypeOK
<1>3. LiveJobs(o)' \subseteq LiveJobs(o)
  BY <1>1, <1>2 DEF LiveJobs
<1> QED BY <1>1, <1>3 DEF PoolHolds

LEMMA CollectKeepsPool ==
  ASSUME TypeOK, NEW o \in Owners, NEW j \in Jobs, Collect(o, j), PoolHolds(o)
  PROVE  PoolHolds(o)'
<1>1. phase[o] = "dispatch" /\ LiveJobs(o) \subseteq futures[o]
  BY DEF Collect, PoolHolds
<1>2. CASE CollectAnswer(o, j)
  <2>1. pc[o][j] \notin Live /\ phase'[o] = "dispatch"
    BY <1>1, <1>2 DEF CollectAnswer, Live, Computing, Recording
  <2>2. CASE UNCHANGED pc /\ futures' = [futures EXCEPT ![o] = @ \ {j}]
    <3>1. LiveJobs(o)' = LiveJobs(o) /\ j \notin LiveJobs(o)
      BY <2>1, <2>2 DEF LiveJobs
    <3>2. futures'[o] = futures[o] \ {j}
      BY <2>2 DEF TypeOK
    <3> QED BY <1>1, <2>1, <3>1, <3>2 DEF PoolHolds
  <2>3. ASSUME NEW k \in pending[o], Goto(o, k, "queued"),
               futures' = [futures EXCEPT ![o] = (@ \ {j}) \cup {k}]
        PROVE  PoolHolds(o)'
    <3>1. \A i \in Jobs \ {k} : pc'[o][i] = pc[o][i]
      BY <2>3 DEF Goto, TypeOK
    <3>2. futures'[o] = (futures[o] \ {j}) \cup {k}
      BY <2>3 DEF TypeOK
    <3>3. LiveJobs(o)' \subseteq (LiveJobs(o) \ {j}) \cup {k}
      BY <2>1, <3>1 DEF LiveJobs
    <3> QED BY <1>1, <2>1, <3>2, <3>3 DEF PoolHolds
  <2> QED BY <1>2, <2>2, <2>3 DEF CollectAnswer, SubmitNext
<1>3. CASE CollectFailure(o, j)
  <2>1. phase'[o] = "unwind"
    BY <1>3 DEF CollectFailure, TypeOK
  <2> QED BY <2>1 DEF PoolHolds
<1> QED BY <1>2, <1>3 DEF Collect

LEMMA OwnerKeepsPool ==
  ASSUME TypeOK, NEW o \in Owners, PoolHolds(o),
         Start(o) \/ OwnerStep(o) \/ Crash(o)
  PROVE  PoolHolds(o)'
<1>1. CASE Start(o)
  <2>1. phase[o] = "idle" /\ phase'[o] = "scan" /\ UNCHANGED pc
    BY <1>1 DEF Start, TypeOK
  <2> QED BY <2>1 DEF PoolHolds, LiveJobs
<1>2. ASSUME NEW j \in Jobs, Scan(o, j) PROVE PoolHolds(o)'
  <2>1. phase[o] = "scan" /\ phase'[o] \in {"scan", "failed"} /\ UNCHANGED pc
    BY <1>2 DEF Scan, TypeOK
  <2> QED BY <2>1 DEF PoolHolds, LiveJobs
<1>3. ASSUME NEW j \in Jobs, Collect(o, j) PROVE PoolHolds(o)'
  BY <1>3, CollectKeepsPool
<1>4. CASE OpenPool(o)
  <2>1. PICK s \in FirstJobs(o) :
          /\ futures' = [futures EXCEPT ![o] = s]
          /\ pc' = [pc EXCEPT ![o] =
                      [j \in Jobs |-> IF j \in s THEN "queued" ELSE @[j]]]
    BY <1>4 DEF OpenPool
  <2>2. futures'[o] = s /\ phase'[o] = "dispatch" /\ LiveJobs(o) = {}
    BY <1>4, <2>1 DEF OpenPool, TypeOK, PoolHolds
  <2>3. \A j \in Jobs : j \notin s => pc'[o][j] = pc[o][j]
    BY <2>1 DEF TypeOK
  <2>4. LiveJobs(o)' \subseteq s
    BY <2>2, <2>3 DEF LiveJobs
  <2> QED BY <2>2, <2>4 DEF PoolHolds
<1>5. CASE Unwind(o)
  <2>1. phase'[o] = "failed" /\ LiveJobs(o) = {} /\ UNCHANGED pc
    BY <1>5 DEF Unwind, TypeOK
  <2> QED BY <2>1 DEF PoolHolds, LiveJobs
<1>6. CASE Complete(o)
  <2>1. /\ phase[o] = "dispatch" /\ futures[o] = {} /\ UNCHANGED pc
        /\ phase'[o] \in {"complete", "failed"}
    BY <1>6 DEF Complete, TypeOK
  <2>2. LiveJobs(o) = {}
    BY <2>1 DEF PoolHolds
  <2> QED BY <2>1, <2>2 DEF PoolHolds, LiveJobs
<1>7. CASE Crash(o)
  <2>1. PICK orphans \in SUBSET LiveJobs(o) :
          /\ ~Orphans => orphans = {}
          /\ pc' = [pc EXCEPT ![o] =
                      [j \in Jobs |-> IF j \in LiveJobs(o) \ orphans
                                      THEN "dead" ELSE @[j]]]
    BY <1>7 DEF Crash
  <2>2. phase'[o] = "crashed"
    BY <1>7 DEF Crash, TypeOK
  <2>3. \A j \in Jobs : pc'[o][j] = IF j \in LiveJobs(o) \ orphans
                                     THEN "dead" ELSE pc[o][j]
    BY <2>1 DEF TypeOK
  <2>4. "dead" \notin Live
    BY DEF Live, Computing, Recording
  <2>5. ~Orphans => LiveJobs(o)' = {}
    BY <2>1, <2>3, <2>4 DEF LiveJobs
  <2> QED BY <2>2, <2>5 DEF PoolHolds
<1> QED BY <1>1, <1>2, <1>3, <1>4, <1>5, <1>6, <1>7 DEF OwnerStep

LEMMA PoolsKept == ASSUME TypeOK, Pools, [Next]_vars PROVE Pools'
<1>1. CASE UNCHANGED vars
  BY <1>1 DEF vars, owner, Pools, PoolHolds, LiveJobs
<1>2. ASSUME NEW o \in Owners,
             \/ Start(o) \/ OwnerStep(o) \/ Crash(o)
             \/ \E j \in Jobs : RunDay(o, j)
      PROVE  Pools'
  <2>1. ASSUME NEW p \in Owners \ {o}
        PROVE  phase'[p] = phase[p] /\ pc'[p] = pc[p] /\ futures'[p] = futures[p]
    <3>1. phase'[p] = phase[p] /\ pc'[p] = pc[p]
      BY <1>2, StepOfBusy DEF Start, TypeOK
    <3>2. CASE Start(o) \/ Crash(o)
      BY <3>1, <3>2 DEF Start, Crash
    <3>3. ASSUME NEW j \in Jobs, RunDay(o, j) PROVE futures' = futures
      BY <3>3 DEF RunDay, Enter, WriteVectors, WriteResult, TakeHashes,
                  WriteDone, Raise, WriteError, owner
    <3>4. ASSUME NEW j \in Jobs, Collect(o, j) PROVE futures'[p] = futures[p]
      BY <3>4 DEF Collect, CollectAnswer, SubmitNext, CollectFailure, TypeOK
    <3>5. ASSUME NEW j \in Jobs, Scan(o, j) PROVE futures' = futures
      BY <3>5 DEF Scan
    <3>6. CASE OpenPool(o) \/ Unwind(o) \/ Complete(o)
      BY <3>1, <3>6 DEF OpenPool, Unwind, Complete, TypeOK
    <3> QED BY <1>2, <3>1, <3>2, <3>3, <3>4, <3>5, <3>6 DEF OwnerStep
  <2>2. ASSUME NEW p \in Owners \ {o} PROVE PoolHolds(p)'
    BY <2>1 DEF Pools, PoolHolds, LiveJobs
  <2>3. PoolHolds(o)'
    BY <1>2, OwnerKeepsPool, DayKeepsPool DEF Pools
  <2> QED BY <2>2, <2>3 DEF Pools
<1> QED BY <1>1, <1>2 DEF Next

\* Every owner, however hasty, and every worker.
THEOREM PoolInvariant == ASSUME RunAssumption PROVE Spec => []Pools
<1>1. TypeOK /\ Pools /\ [Next]_vars => Pools'
  BY PoolsKept
<1> QED
  BY <1>1, InitPools, RunTypeCorrect, PTL DEF Spec

\* run() neither completes nor fails before its last worker has ended.
THEOREM OnlyKilledOwnersLeaveWorkers ==
  ASSUME RunAssumption PROVE Spec => []EndedRunsHaveNoWorkers
<1>1. Pools => EndedRunsHaveNoWorkers
  BY DEF Pools, PoolHolds, EndedRunsHaveNoWorkers
<1> QED
  BY <1>1, PoolInvariant, PTL

(* At most one owner with anything running means no job twice. *)
LEMMA AloneComputesOnce == Alone => LiveJobNotDuplicated
BY DEF Alone, Busy, LiveJobNotDuplicated, Live

\* Quiet starts duplicate no live job, whatever the killed owners left.
THEOREM CarefulOwnersDuplicateNothing ==
  ASSUME RunAssumption PROVE Spec => [](Careful => LiveJobNotDuplicated)
<1>1. (Careful => RInv) => (Careful => LiveJobNotDuplicated)
  BY AloneComputesOnce DEF RInv
<1> QED
  BY <1>1, RunInvariant, PTL

LEMMA AloneWithoutOrphans ==
  ASSUME TypeOK, Pools, ~Orphans, Alone, [Next]_vars
  PROVE  Alone'
<1>1. CASE UNCHANGED vars
  <2>1. \A o \in Owners : Busy(o)' <=> Busy(o)
    BY <1>1 DEF vars, owner, Busy
  <2> QED
    BY <2>1 DEF Alone
<1>2. ASSUME NEW o \in Owners, Start(o) PROVE Alone'
  <2>1. ASSUME NEW p \in Owners \ {o} PROVE ~Busy(p)'
    <3>1. phase[p] \in {"idle", "complete", "failed", "crashed"}
      BY <1>2 DEF Start, MayStart, TypeOK, Phases, Active, Ended
    <3>2. LiveJobs(p) = {} /\ phase'[p] = phase[p] /\ pc' = pc
      BY <1>2, <3>1 DEF Pools, PoolHolds, Start, TypeOK
    <3> QED BY <3>1, <3>2 DEF Busy, LiveJobs, Active
  <2> QED
    BY <2>1 DEF Alone
<1>3. ASSUME NEW o \in Owners,
             OwnerStep(o) \/ Crash(o) \/ \E j \in Jobs : RunDay(o, j)
      PROVE  Alone'
  <2>1. \A p \in Owners \ {o} : ~Busy(p)
    BY <1>3, StepOfBusy DEF Alone
  <2>2. \A p \in Owners \ {o} : Busy(p)' <=> Busy(p)
    BY <1>3, StepOfBusy DEF Busy
  <2> QED
    BY <2>1, <2>2 DEF Alone
<1> QED
  BY <1>1, <1>2, <1>3 DEF Next

\* Where killing an owner ends its workers, haste alone duplicates nothing.
THEOREM WithoutOrphansNothingIsDuplicated ==
  ASSUME RunAssumption, ~Orphans PROVE Spec => []LiveJobNotDuplicated
<1>1. Init => Alone
  BY InitRInv DEF RInv
<1>2. TypeOK /\ Pools /\ Alone /\ [Next]_vars => Alone'
  BY AloneWithoutOrphans
<1> QED
  BY <1>1, <1>2, AloneComputesOnce, RunTypeCorrect, PoolInvariant, PTL DEF Spec

-----------------------------------------------------------------------------
(***************************************************************************)
(* Why a run can fail.  The assertion before the marker never does, because*)
(* the iterator is exhausted when the last future has been answered.       *)
(***************************************************************************)
PoolFed ==
  \A o \in Owners : phase[o] = "dispatch" /\ futures[o] = {} => pending[o] = {}

AssertionHolds ==
  \A o \in Owners : phase[o] = "dispatch" /\ futures[o] = {} =>
    count[o] = Cardinality(Jobs)

LEMMA OpenPoolFeeds ==
  ASSUME RunAssumption, TypeOK, NEW o \in Owners, OpenPool(o), futures'[o] = {}
  PROVE  pending'[o] = {}
<1>1. PICK s \in FirstJobs(o) :
        /\ futures' = [futures EXCEPT ![o] = s]
        /\ pending' = [pending EXCEPT ![o] = @ \ s]
  BY DEF OpenPool
<1>2. s = {} /\ pending'[o] = pending[o] \ s
  BY <1>1 DEF TypeOK
<1>3. Cardinality(s) # given.workers
  <2>1. given.workers \in Nat \ {0}
    BY DEF TypeOK, RunAssumption
  <2> QED BY <1>2, <2>1, FS_EmptySet
<1>4. s = pending[o]
  BY <1>1, <1>3 DEF FirstJobs
<1> QED BY <1>2, <1>4

LEMMA CollectFeeds ==
  ASSUME TypeOK, NEW o \in Owners, NEW j \in Jobs, Collect(o, j),
         phase'[o] = "dispatch", futures'[o] = {}
  PROVE  pending'[o] = {}
<1>1. CollectAnswer(o, j)
  <2>1. CASE CollectFailure(o, j)
    BY <2>1 DEF CollectFailure, TypeOK
  <2> QED BY <2>1 DEF Collect
<1>2. ASSUME NEW k \in pending[o], futures' = [futures EXCEPT ![o] = (@ \ {j}) \cup {k}]
      PROVE  FALSE
  <2>1. futures'[o] = (futures[o] \ {j}) \cup {k}
    BY <1>2 DEF TypeOK
  <2> QED BY <2>1
<1> QED BY <1>1, <1>2 DEF CollectAnswer, SubmitNext

LEMMA FedKept ==
  ASSUME RunAssumption, TypeOK, PoolFed, [Next]_vars PROVE PoolFed'
<1> SUFFICES ASSUME NEW o \in Owners, phase'[o] = "dispatch", futures'[o] = {}
             PROVE  pending'[o] = {}
  BY DEF PoolFed
<1>1. ASSUME phase'[o] = phase[o], futures'[o] = futures[o], pending'[o] = pending[o]
      PROVE  pending'[o] = {}
  BY <1>1 DEF PoolFed
<1>2. CASE UNCHANGED vars
  BY <1>1, <1>2 DEF vars, owner
<1>3. ASSUME NEW p \in Owners, NEW j \in Jobs, RunDay(p, j)
      PROVE  pending'[o] = {}
  BY <1>1, <1>3 DEF RunDay, Enter, WriteVectors, WriteResult, TakeHashes, WriteDone,
     Raise, WriteError, owner
<1>4. ASSUME NEW p \in Owners, p # o, Start(p) \/ OwnerStep(p) \/ Crash(p)
      PROVE  pending'[o] = {}
  <2>1. CASE Start(p) \/ Crash(p)
    BY <1>1, <1>4, <2>1 DEF Start, Crash, TypeOK
  <2>2. ASSUME NEW j \in Jobs, Scan(p, j) PROVE pending'[o] = {}
    BY <1>1, <1>4, <2>2 DEF Scan, TypeOK
  <2>3. ASSUME NEW j \in Jobs, Collect(p, j) PROVE pending'[o] = {}
    BY <1>1, <1>4, <2>3 DEF Collect, CollectAnswer, SubmitNext, CollectFailure, TypeOK
  <2>4. CASE OpenPool(p) \/ Unwind(p) \/ Complete(p)
    BY <1>1, <1>4, <2>4 DEF OpenPool, Unwind, Complete, TypeOK
  <2> QED BY <1>4, <2>1, <2>2, <2>3, <2>4 DEF OwnerStep
<1>5. CASE Start(o) \/ Crash(o) \/ Unwind(o) \/ Complete(o)
  BY <1>5 DEF Start, Crash, Unwind, Complete, TypeOK
<1>6. ASSUME NEW j \in Jobs, Scan(o, j) PROVE pending'[o] = {}
  BY <1>6 DEF Scan, TypeOK
<1>7. ASSUME NEW j \in Jobs, Collect(o, j) PROVE pending'[o] = {}
  BY <1>7, CollectFeeds
<1>8. CASE OpenPool(o)
  BY <1>8, OpenPoolFeeds
<1> QED BY <1>2, <1>3, <1>4, <1>5, <1>6, <1>7, <1>8 DEF Next, OwnerStep

\* However owners are started, complete_count is the number of jobs whenever
\* the loop over futures ends: the assertion before the marker holds.
THEOREM AssertionNeverFails == ASSUME RunAssumption PROVE Spec => []AssertionHolds
<1>1. Init => PoolFed
  BY DEF Init, PoolFed
<1>2. TypeOK /\ PoolFed /\ [Next]_vars => PoolFed'
  BY FedKept
<1>3. TypeOK /\ EveryJobAccounted /\ PoolFed => AssertionHolds
  <2> SUFFICES ASSUME TypeOK, EveryJobAccounted, PoolFed, NEW o \in Owners,
                      phase[o] = "dispatch", futures[o] = {}
               PROVE  count[o] = Cardinality(Jobs)
    BY DEF AssertionHolds
  <2>1. pending[o] = {} /\ Cardinality(pending[o]) = 0 /\ Cardinality(futures[o]) = 0
    BY FS_EmptySet DEF PoolFed
  <2>2. count[o] \in Nat
    BY FS_CardinalityType DEF TypeOK, RunAssumption
  <2>3. count[o] + Cardinality(pending[o]) + Cardinality(futures[o]) = Cardinality(Jobs)
    BY DEF EveryJobAccounted
  <2>4. count[o] + 0 + 0 = count[o]
    BY <2>2
  <2> QED BY <2>1, <2>3, <2>4
<1> QED
  BY <1>1, <1>2, <1>3, RunTypeCorrect, JobsAreAccounted, PTL DEF Spec

-----------------------------------------------------------------------------
(***************************************************************************)
(* What is left, then, is a day that only a review can release: the safety *)
(* core of RestartsComplete.                                               *)
(***************************************************************************)
WholeVerified == \A j \in Jobs : done[j] = "whole" => Verified(j)

ErrorsRecorded ==
  \A o \in Owners, j \in Jobs :
    pc[o][j] \in {"closeError", "error"} => error[j] # "absent"

RaisedOverReview == \A o \in Owners, j \in Jobs : pc[o][j] = "raised" => NeedsReview(j)

EndsOverReview ==
  \A o \in Owners : phase[o] \in {"unwind", "failed"} => \E j \in Jobs : NeedsReview(j)

FailureSound == WholeVerified /\ ErrorsRecorded /\ RaisedOverReview /\ EndsOverReview

FailedLeavesReview ==
  Careful => \A o \in Owners : phase[o] = "failed" => \E j \in Jobs : NeedsReview(j)

\* An error file never disappears.
LEMMA ErrorStays ==
  ASSUME TypeOK, [Next]_vars, NEW j \in Jobs, error[j] # "absent"
  PROVE  error'[j] # "absent"
<1>1. CASE UNCHANGED vars
  BY <1>1 DEF vars, files
<1>2. ASSUME NEW o \in Owners, Start(o) \/ OwnerStep(o) \/ Crash(o)
      PROVE  error' = error
  BY <1>2, OwnerMoves DEF files, Start, OwnerStep, Scan, Collect, OpenPool, Unwind,
     Complete, Crash
<1>3. ASSUME NEW o \in Owners, NEW k \in Jobs, RunDay(o, k)
      PROVE  error'[j] # "absent"
  <2>1. CASE WriteError(o, k)
    BY <2>1 DEF WriteError, TypeOK
  <2>2. CASE ~WriteError(o, k)
    BY <1>3, <2>2 DEF RunDay, Enter, WriteVectors, WriteResult, TakeHashes, WriteDone,
       Raise, files
  <2> QED BY <2>1, <2>2
<1> QED BY <1>1, <1>2, <1>3 DEF Next

\* A torn DONE.json that nobody is about to close stays.
LEMMA DayLeavesReview ==
  ASSUME TypeOK, AttemptsSound, NEW o \in Owners, NEW k \in Jobs, RunDay(o, k),
         NEW j \in Jobs, error[j] = "absent", NeedsReview(j)
  PROVE  NeedsReview(j)'
<1>1. done[j] = "torn" /\ \A p \in Owners : pc[p][j] # "closeDone"
  BY DEF NeedsReview
<1>2. CASE k # j
  <2>1. done'[j] = done[j]
    BY <1>2, DayTouches
  <2>2. \A p \in Owners : pc'[p][j] = pc[p][j]
    BY <1>2, DayTouches
  <2> QED BY <1>1, <2>1, <2>2 DEF NeedsReview
<1>3. CASE k = j
  <2>1. \A p \in Owners \ {o} : pc'[p][j] = pc[p][j]
    BY <1>3, DayTouches
  <2>2. pc[o][j] # "openDone"
    BY <1>1 DEF AttemptsSound, AttemptSound, Computing
  <2>3. ASSUME WriteError(o, j) PROVE error'[j] # "absent"
    BY <2>3 DEF WriteError, TypeOK
  <2>4. ASSUME ~WriteError(o, j) PROVE done' = done
    BY <1>1, <1>3, <2>2, <2>4 DEF RunDay, Enter, WriteVectors, WriteResult, TakeHashes,
       WriteDone, Raise, files
  <2>5. ASSUME ~WriteError(o, j) PROVE pc'[o][j] # "closeDone"
    <3>1. CASE Enter(o, j)
      BY <3>1, GotoType DEF Enter, Stages, Answered, Live, Computing
    <3>2. CASE WriteVectors(o, j) \/ WriteResult(o, j) \/ TakeHashes(o, j)
      BY <3>2 DEF WriteVectors, WriteResult, TakeHashes, Goto, TypeOK
    <3>3. CASE WriteDone(o, j)
      BY <1>1, <2>2, <3>3 DEF WriteDone
    <3>4. CASE Raise(o, j)
      BY <3>4 DEF Raise, Goto, TypeOK
    <3> QED BY <1>3, <2>5, <3>1, <3>2, <3>3, <3>4 DEF RunDay
  <2> QED BY <1>1, <2>1, <2>3, <2>4, <2>5 DEF NeedsReview
<1> QED BY <1>2, <1>3

LEMMA ReviewStaysNeeded ==
  ASSUME TypeOK, AttemptsSound, [Next]_vars, NEW j \in Jobs, NeedsReview(j)
  PROVE  NeedsReview(j)'
<1>1. CASE error[j] # "absent"
  BY <1>1, ErrorStays DEF NeedsReview
<1>2. CASE error[j] = "absent"
  <2>1. CASE UNCHANGED vars
    BY <2>1 DEF vars, files, NeedsReview
  <2>2. ASSUME NEW o \in Owners, Start(o) \/ OwnerStep(o) \/ Crash(o)
        PROVE  NeedsReview(j)'
    <3>1. done' = done /\ error' = error
      BY <2>2, OwnerMoves DEF files
    <3>2. \A p \in Owners :
            pc'[p][j] = pc[p][j] \/ pc'[p][j] \in {"queued", "cancelled", "dead"}
      BY <2>2, OwnerMoves
    <3> QED BY <3>1, <3>2 DEF NeedsReview
  <2> QED BY <1>2, <2>1, <2>2, DayLeavesReview DEF Next
<1> QED BY <1>1, <1>2

LEMMA WholeStaysVerified ==
  ASSUME TypeOK, AttemptsSound, AttemptsSound', WholeVerified, [Next]_vars
  PROVE  WholeVerified'
<1> SUFFICES ASSUME NEW j \in Jobs, done'[j] = "whole" PROVE Verified(j)'
  BY DEF WholeVerified
<1>1. CASE done[j] = "whole"
  BY <1>1, StepKeepsVerified DEF WholeVerified, DayIsFinal
<1>2. CASE done[j] # "whole"
  <2>1. ASSUME NEW o \in Owners, Start(o) \/ OwnerStep(o) \/ Crash(o)
        PROVE  done' = done
    BY <2>1, OwnerMoves DEF files
  <2>2. PICK o \in Owners, k \in Jobs : RunDay(o, k)
    BY <1>2, <2>1 DEF Next, vars, files
  <2>3. k = j
    BY <1>2, <2>2, DayTouches
  <2>4. WriteDone(o, j)
    BY <1>2, <2>2, <2>3 DEF RunDay, Enter, WriteVectors, WriteResult, TakeHashes, Raise,
       WriteError, files
  <2>5. pc'[o][j] = "ok"
    BY <1>2, <2>4 DEF WriteDone, Goto, TypeOK
  <2> QED BY <2>5 DEF AttemptsSound, AttemptSound
<1> QED BY <1>1, <1>2

LEMMA ErrorsStayRecorded ==
  ASSUME TypeOK, ErrorsRecorded, [Next]_vars PROVE ErrorsRecorded'
<1> SUFFICES ASSUME NEW o \in Owners, NEW j \in Jobs, pc'[o][j] \in {"closeError", "error"}
             PROVE  error'[j] # "absent"
  BY DEF ErrorsRecorded
<1>1. CASE pc[o][j] \in {"closeError", "error"}
  BY <1>1, ErrorStays DEF ErrorsRecorded
<1>2. CASE pc[o][j] \notin {"closeError", "error"}
  <2>1. ASSUME NEW p \in Owners, Start(p) \/ OwnerStep(p) \/ Crash(p)
        PROVE  FALSE
    <3>1. pc'[o][j] = pc[o][j] \/ pc'[o][j] \in {"queued", "cancelled", "dead"}
      BY <2>1, OwnerMoves
    <3> QED BY <1>2, <3>1
  <2>2. PICK p \in Owners, k \in Jobs : RunDay(p, k)
    BY <1>2, <2>1 DEF Next, vars
  <2>3. p = o /\ k = j
    BY <1>2, <2>2, DayTouches
  <2>4. CASE WriteError(o, j)
    BY <2>4 DEF WriteError, TypeOK
  <2>5. CASE Enter(o, j)
    BY <2>5, GotoType DEF Enter, Stages, Answered, Live, Computing
  <2>6. CASE WriteVectors(o, j) \/ WriteResult(o, j) \/ TakeHashes(o, j) \/ WriteDone(o, j)
             \/ Raise(o, j)
    BY <2>6 DEF WriteVectors, WriteResult, TakeHashes, WriteDone, Raise, Goto, TypeOK
  <2> QED BY <2>2, <2>3, <2>4, <2>5, <2>6 DEF RunDay
<1> QED BY <1>1, <1>2

\* A DONE.json that completed() rejects, met by the only owner at work.
LEMMA RejectedNeedsReview ==
  ASSUME TypeOK, Alone, WholeVerified, NEW o \in Owners, NEW j \in Jobs, Busy(o),
         pc[o][j] # "closeDone", Completed(j) = "raises"
  PROVE  NeedsReview(j)
<1>1. done[j] = "torn"
  BY DEF Completed, WholeVerified, TypeOK, FileStates
<1>2. ASSUME NEW p \in Owners, pc[p][j] = "closeDone" PROVE FALSE
  <2>1. Busy(p)
    BY <1>2 DEF Busy, Live, Computing
  <2> QED BY <1>2, <2>1 DEF Alone
<1> QED BY <1>1, <1>2 DEF NeedsReview

LEMMA RaisedStays ==
  ASSUME TypeOK, AttemptsSound, Alone, WholeVerified, RaisedOverReview, [Next]_vars
  PROVE  RaisedOverReview'
<1> SUFFICES ASSUME NEW o \in Owners, NEW j \in Jobs, pc'[o][j] = "raised"
             PROVE  NeedsReview(j)'
  BY DEF RaisedOverReview
<1>1. CASE pc[o][j] = "raised"
  BY <1>1, ReviewStaysNeeded DEF RaisedOverReview
<1>2. CASE pc[o][j] # "raised"
  <2>1. ASSUME NEW p \in Owners, Start(p) \/ OwnerStep(p) \/ Crash(p)
        PROVE  FALSE
    <3>1. pc'[o][j] = pc[o][j] \/ pc'[o][j] \in {"queued", "cancelled", "dead"}
      BY <2>1, OwnerMoves
    <3> QED BY <1>2, <3>1
  <2>2. PICK p \in Owners, k \in Jobs : RunDay(p, k)
    BY <1>2, <2>1 DEF Next, vars
  <2>3. p = o /\ k = j
    BY <1>2, <2>2, DayTouches
  <2>4. Enter(o, j)
    <3>1. CASE WriteVectors(o, j) \/ WriteResult(o, j) \/ TakeHashes(o, j)
               \/ WriteDone(o, j) \/ Raise(o, j) \/ WriteError(o, j)
      BY <3>1 DEF WriteVectors, WriteResult, TakeHashes, WriteDone, Raise, WriteError,
         Goto, TypeOK
    <3> QED BY <2>2, <2>3, <3>1 DEF RunDay
  <2>5. pc[o][j] = "queued" /\ Busy(o)
    BY <2>4 DEF Enter, Busy, Live
  <2>6. Completed(j) = "raises" \/ error[j] # "absent"
    BY <2>4, GotoType DEF Enter, Stages, Answered, Live, Computing
  <2>7. NeedsReview(j)
    BY <2>5, <2>6, RejectedNeedsReview DEF NeedsReview
  <2> QED BY <2>7, ReviewStaysNeeded
<1> QED BY <1>1, <1>2

LEMMA EndStays ==
  ASSUME TypeOK, AttemptsSound, Alone, Pools, AssertionHolds, FailureSound, [Next]_vars
  PROVE  EndsOverReview'
<1> SUFFICES ASSUME NEW o \in Owners, phase'[o] \in {"unwind", "failed"}
             PROVE  \E j \in Jobs : NeedsReview(j)
  BY ReviewStaysNeeded DEF EndsOverReview
<1>1. CASE phase[o] \in {"unwind", "failed"}
  BY <1>1 DEF FailureSound, EndsOverReview
<1>2. CASE phase[o] \notin {"unwind", "failed"}
  <2>1. ASSUME NEW p \in Owners, Start(p) \/ Crash(p) PROVE FALSE
    BY <1>2, <2>1 DEF Start, Crash, TypeOK
  <2>2. ASSUME NEW p \in Owners, NEW j \in Jobs, RunDay(p, j) PROVE phase' = phase
    BY <2>2 DEF RunDay, Enter, WriteVectors, WriteResult, TakeHashes, WriteDone, Raise,
       WriteError, owner
  <2>3. PICK p \in Owners : OwnerStep(p)
    BY <1>2, <2>1, <2>2 DEF Next, vars, owner
  <2>4. p = o
    BY <1>2, <2>3, StepOfBusy
  <2>5. ASSUME NEW j \in Jobs, Scan(o, j) PROVE NeedsReview(j)
    <3>1. phase[o] = "scan" /\ Completed(j) = "raises"
      BY <1>2, <2>5 DEF Scan, TypeOK
    <3>2. Busy(o) /\ LiveJobs(o) = {}
      BY <3>1 DEF Busy, Active, Pools, PoolHolds
    <3>3. pc[o][j] # "closeDone"
      BY <3>2 DEF LiveJobs, Live, Computing
    <3> QED BY <3>1, <3>2, <3>3, RejectedNeedsReview DEF FailureSound
  <2>6. ASSUME NEW j \in Jobs, Collect(o, j) PROVE NeedsReview(j)
    <3>1. pc[o][j] \in {"error", "raised"}
      BY <1>2, <2>6 DEF Collect, CollectAnswer, CollectFailure
    <3> QED BY <3>1 DEF FailureSound, ErrorsRecorded, RaisedOverReview, NeedsReview
  <2>7. ASSUME OpenPool(o) \/ Unwind(o) PROVE FALSE
    BY <1>2, <2>7 DEF OpenPool, Unwind, TypeOK
  <2>8. ASSUME Complete(o) PROVE FALSE
    BY <1>2, <2>8 DEF Complete, AssertionHolds, TypeOK
  <2> QED BY <2>3, <2>4, <2>5, <2>6, <2>7, <2>8 DEF OwnerStep
<1> QED BY <1>1, <1>2

LEMMA InitFailureSound == ASSUME Init PROVE FailureSound
BY DEF Init, FailureSound, WholeVerified, ErrorsRecorded, RaisedOverReview, EndsOverReview

(* Where every owner waits for the workers before it, run() fails only     *)
(* over a recorded error or a DONE.json cut short by a crash, and that day *)
(* stays so: nothing else that a crash leaves stops a restart.             *)
THEOREM OnlyReviewStopsRun == ASSUME RunAssumption PROVE Spec => []FailedLeavesReview
<1>1. Init => FailureSound
  BY InitFailureSound
<1>2. (Careful => RInv) /\ (Careful => RInv)' /\ Pools /\ AssertionHolds
        /\ (Careful => FailureSound) /\ [Next]_vars => (Careful => FailureSound)'
  <2>1. [Next]_vars => (Careful' <=> Careful)
    BY SameCircumstances DEF Careful
  <2>2. RInv /\ RInv' /\ Pools /\ AssertionHolds /\ FailureSound /\ [Next]_vars
          => FailureSound'
    BY WholeStaysVerified, ErrorsStayRecorded, RaisedStays, EndStays
    DEF RInv, FailureSound
  <2> QED
    BY <2>1, <2>2
<1>3. (Careful => FailureSound) => FailedLeavesReview
  BY DEF FailureSound, EndsOverReview, NeedsReview, FailedLeavesReview
<1> QED
  BY <1>1, <1>2, <1>3, RunInvariant, PoolInvariant, AssertionNeverFails, PTL DEF Spec
=============================================================================
