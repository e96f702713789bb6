------------------------ MODULE AdaptiveBlock_proofs ------------------------
(***************************************************************************)
(* What a job over a block of dates guarantees, for any number of dates,   *)
(* intervals, branches and interruptions.                                  *)
(*                                                                         *)
(* The argument: every array in memory is the one of an uninterrupted run  *)
(* after a known number of intervals (MemorySound); every published date   *)
(* holds the record of an uninterrupted run, and the published dates are a *)
(* prefix of the block (DiskSound).  A resumed date therefore moves memory *)
(* from one uninterrupted state to the next, exactly as computing the date *)
(* would have.                                                             *)
(***************************************************************************)
EXTENDS AdaptiveBlock, TLAPS, FiniteSetTheorems

\* Intervals completed before a date.
Base(d) == LastInterval * (d - 1)

\* The arrays of an uninterrupted run after n intervals.
Upto(n) == [i \in 1 .. n |-> i]

CeilingOf(c, n) == IF c = OpenLoop THEN <<>> ELSE Upto(n)
WeightOf(c, n) == IF Mode = "ADAPTIVE" THEN Upto(n) ELSE <<>>
CeilingAt(n) == [c \in Branches |-> CeilingOf(c, n)]
WeightsAt(n) == [c \in Branches |-> WeightOf(c, n)]

StartAt(d) == [startCeiling |-> CeilingAt(Base(d)), startWeights |-> WeightsAt(Base(d))]
RecordAt(d) ==
  [startCeiling |-> CeilingAt(Base(d)), startWeights |-> WeightsAt(Base(d)),
   endCeiling |-> CeilingAt(Base(d + 1)), endWeights |-> WeightsAt(Base(d + 1))]

Writing == {"closeTrajectories", "openResult", "closeResult", "openDone", "closeDone"}
InDay == {"interval", "branches"} \cup Writing

\* How many intervals the branch has completed.
Completed(c) ==
  IF phase \notin InDay THEN Base(day)
  ELSE IF phase = "branches" /\ c \notin left THEN Slot(day, t)
  ELSE Slot(day, t) - 1

MemorySound ==
  /\ \A c \in Branches :
       /\ states[c] = CeilingOf(c, Completed(c))
       /\ weights[c] = WeightOf(c, Completed(c))
       /\ completed[c] = Completed(c)
  /\ phase \in InDay => initial = StartAt(day)

\* Where the loop can be.
LoopSound ==
  /\ phase = "idle" => day = 1
  /\ phase = "returned" => day = LastDay + 1
  /\ phase \in InDay => day \in Days
  /\ phase = "branches" => t \in 1 .. LastInterval /\ left # {}
  /\ phase \in Writing => t = LastInterval + 1

DiskSound ==
  /\ \A d \in Days : done[d] = "whole" => saved[d] = RecordAt(d) /\ vouched[d] = saved[d]
  /\ \A d, e \in Days : e < d /\ done[d] # "absent" => done[e] = "whole"
  /\ \A d \in Days : d < day => done[d] = "whole"
  /\ phase \in InDay =>
       done[day] = IF phase = "closeDone" THEN "torn" ELSE "absent"
  /\ phase \in Writing \ {"closeTrajectories"} => saved[day] = RecordAt(day)

BInv ==
  /\ TypeOK
  /\ LoopSound
  /\ ChoicesInTurn
  /\ MemorySound
  /\ DiskSound

-----------------------------------------------------------------------------
(* Counting intervals. *)
LEMMA BaseFacts ==
  /\ Base(1) = 0
  /\ \A d \in Nat \ {0} : Base(d) \in Nat /\ Base(d + 1) = Base(d) + LastInterval
  /\ \A d \in Nat \ {0}, i \in Nat : Slot(d, i) = Base(d) + i
  /\ \A d \in Nat : Base(d + 1) = LastInterval * d
<1>1. ASSUME NEW d \in Nat \ {0} PROVE LastInterval * (d - 1) \in Nat
  BY BlockAssumption
<1>2. ASSUME NEW d \in Nat \ {0}
      PROVE  LastInterval * ((d + 1) - 1) = LastInterval * (d - 1) + LastInterval
  BY BlockAssumption
<1>3. ASSUME NEW d \in Nat PROVE LastInterval * ((d + 1) - 1) = LastInterval * d
  <2>1. (d + 1) - 1 = d
    OBVIOUS
  <2> QED BY <2>1
<1>4. LastInterval * (1 - 1) = 0
  BY BlockAssumption
<1> QED BY <1>1, <1>2, <1>3, <1>4 DEF Base, Slot

LEMMA UptoFacts ==
  /\ Upto(0) = <<>>
  /\ \A n \in Nat : Upto(n) \in Seq(Nat)
  /\ \A n \in Nat : Append(Upto(n), n + 1) = Upto(n + 1)
<1>1. Upto(0) = <<>>
  BY DEF Upto
<1>2. ASSUME NEW n \in Nat PROVE Upto(n) \in Seq(Nat)
  BY DEF Upto
<1>3. ASSUME NEW n \in Nat PROVE Append(Upto(n), n + 1) = Upto(n + 1)
  BY DEF Upto
<1> QED BY <1>1, <1>2, <1>3

(* The arrays of an uninterrupted run are histories. *)
LEMMA HistoryFacts ==
  ASSUME NEW n \in Nat
  PROVE  /\ CeilingAt(n) \in Histories
         /\ WeightsAt(n) \in Histories
         /\ \A c \in Branches : CeilingAt(n)[c] = CeilingOf(c, n) /\ CeilingOf(c, n) \in Seq(Nat)
         /\ \A c \in Branches : WeightsAt(n)[c] = WeightOf(c, n) /\ WeightOf(c, n) \in Seq(Nat)
<1>1. Upto(n) \in Seq(Nat) /\ <<>> \in Seq(Nat)
  BY UptoFacts
<1> QED BY <1>1 DEF CeilingAt, WeightsAt, CeilingOf, WeightOf, Histories

LEMMA StartFacts == NoHistory = CeilingAt(0) /\ NoHistory = WeightsAt(0)
BY UptoFacts DEF NoHistory, CeilingAt, WeightsAt, CeilingOf, WeightOf

(* One more completed interval. *)
LEMMA AppendFacts ==
  ASSUME NEW c \in Branches, NEW n \in Nat
  PROVE  /\ c # OpenLoop => Append(CeilingOf(c, n), n + 1) = CeilingOf(c, n + 1)
         /\ c = OpenLoop => CeilingOf(c, n + 1) = <<>>
         /\ Mode = "ADAPTIVE" => Append(WeightOf(c, n), n + 1) = WeightOf(c, n + 1)
         /\ Mode # "ADAPTIVE" => WeightOf(c, n) = WeightOf(c, n + 1)
BY UptoFacts DEF CeilingOf, WeightOf

LEMMA RecordFacts ==
  ASSUME NEW d \in Days
  PROVE  StartAt(d) \in Starts /\ RecordAt(d) \in Records
<1>1. d \in Nat \ {0} /\ LastInterval \in Nat
  BY BlockAssumption DEF Days
<1>2. Base(d) \in Nat /\ Base(d + 1) \in Nat
  BY <1>1, BaseFacts
<1> QED BY <1>2, HistoryFacts DEF StartAt, RecordAt, Starts, Records

(* Between dates, memory is that of an uninterrupted run. *)
LEMMA MemoryBetweenIntervals ==
  ASSUME TypeOK, MemorySound, NEW n \in Nat, \A c \in Branches : Completed(c) = n
  PROVE  states = CeilingAt(n) /\ weights = WeightsAt(n)
BY HistoryFacts DEF TypeOK, MemorySound, Histories, CeilingAt, WeightsAt

LEMMA InitSound == Init => BInv
<1> SUFFICES ASSUME Init PROVE BInv
  OBVIOUS
<1>1. TypeOK
  <2>1. NoHistory \in Histories
    BY UptoFacts DEF NoHistory, Histories
  <2>2. NoStart \in Starts /\ NoRecord \in Records
    BY <2>1 DEF NoStart, NoRecord, Starts, Records
  <2> QED BY <2>1, <2>2, BlockAssumption
      DEF Init, TypeOK, Phases, Running, FileStates, Days
<1>2. LoopSound
  BY DEF Init, LoopSound, InDay, Writing
<1>3. ChoicesInTurn
  BY DEF Init, ChoicesInTurn
<1>4. MemorySound
  <2>1. \A c \in Branches : Completed(c) = 0
    BY BaseFacts DEF Init, Completed, InDay, Writing
  <2>2. \A c \in Branches : CeilingOf(c, 0) = <<>> /\ WeightOf(c, 0) = <<>>
    BY UptoFacts DEF CeilingOf, WeightOf
  <2> QED BY <2>1, <2>2 DEF Init, MemorySound, NoHistory, InDay, Writing
<1>5. DiskSound
  BY DEF Init, DiskSound, InDay, Writing, Days
<1> QED BY <1>1, <1>2, <1>3, <1>4, <1>5 DEF BInv

-----------------------------------------------------------------------------
(* Every step preserves BInv: one lemma per action. *)

LEMMA LaunchSound == BInv /\ Launch => BInv'
<1> SUFFICES ASSUME BInv, Launch PROVE BInv'
  OBVIOUS
<1> USE DEF BInv, Launch, loop, memory, disk
<1>1. TypeOK'
  BY DEF TypeOK, Phases, Running
<1>2. LoopSound'
  BY DEF LoopSound, InDay, Writing
<1>3. ChoicesInTurn'
  BY DEF ChoicesInTurn
<1>4. MemorySound'
  BY DEF MemorySound, Completed, InDay, Writing
<1>5. DiskSound'
  BY DEF DiskSound, InDay, Writing
<1> QED BY <1>1, <1>2, <1>3, <1>4, <1>5

LEMMA ResumeSound ==
  ASSUME BInv, Resume
  PROVE  /\ BInv'
         /\ done[day] = "whole"
<1> USE DEF BInv, Resume
<1>1. day \in Days /\ day \in Nat \ {0} /\ done[day] = "whole" /\ saved[day] = RecordAt(day)
  BY BlockAssumption DEF TypeOK, Days, DiskSound, Checkpointed
<1>2. /\ Base(day + 1) \in Nat /\ LastInterval * day = Base(day + 1)
      /\ states' = CeilingAt(Base(day + 1)) /\ weights' = WeightsAt(Base(day + 1))
  BY <1>1, BaseFacts, BlockAssumption DEF RecordAt
<1>3. TypeOK'
  <2>1. states' \in Histories /\ weights' \in Histories
    BY <1>2, HistoryFacts
  <2>2. completed' \in [Branches -> Nat]
    BY <1>2
  <2> QED BY <1>1, <2>1, <2>2, BlockAssumption DEF TypeOK, disk, Days
<1>4. LoopSound'
  BY DEF LoopSound, InDay, Writing
<1>5. ChoicesInTurn'
  BY DEF ChoicesInTurn
<1>6. MemorySound'
  <2>1. \A c \in Branches : Completed(c)' = Base(day + 1)
    BY DEF Completed, InDay, Writing
  <2> QED BY <1>2, <2>1, HistoryFacts DEF MemorySound, InDay, Writing
<1>7. DiskSound'
  BY <1>1 DEF DiskSound, InDay, Writing, disk, TypeOK, Days
<1> QED BY <1>1, <1>3, <1>4, <1>5, <1>6, <1>7

LEMMA ResumeFailsSound == BInv /\ ResumeFails => BInv'
<1> SUFFICES ASSUME BInv, ResumeFails PROVE BInv'
  OBVIOUS
<1> USE DEF BInv, ResumeFails, loop, memory, disk
<1>1. TypeOK'
  BY DEF TypeOK, Phases, Running
<1>2. LoopSound'
  BY DEF LoopSound, InDay, Writing
<1>3. ChoicesInTurn'
  BY DEF ChoicesInTurn
<1>4. MemorySound'
  BY DEF MemorySound, Completed, InDay, Writing
<1>5. DiskSound'
  BY DEF DiskSound, InDay, Writing
<1> QED BY <1>1, <1>2, <1>3, <1>4, <1>5

LEMMA ReturnSound == BInv /\ Return => BInv'
<1> SUFFICES ASSUME BInv, Return PROVE BInv'
  OBVIOUS
<1> USE DEF BInv, Return, loop, memory, disk
<1>1. TypeOK'
  BY DEF TypeOK, Phases, Running
<1>2. LoopSound'
  BY DEF LoopSound, InDay, Writing
<1>3. ChoicesInTurn'
  BY DEF ChoicesInTurn
<1>4. MemorySound'
  BY DEF MemorySound, Completed, InDay, Writing
<1>5. DiskSound'
  BY DEF DiskSound, InDay, Writing
<1> QED BY <1>1, <1>2, <1>3, <1>4, <1>5

LEMMA BeginDaySound == BInv /\ BeginDay => BInv'
<1> SUFFICES ASSUME BInv, BeginDay PROVE BInv'
  OBVIOUS
<1> USE DEF BInv, BeginDay
<1>1. day \in Days /\ day \in Nat \ {0} /\ done[day] = "absent"
  BY BlockAssumption DEF TypeOK, Days
<1>2. /\ Base(day) \in Nat /\ Slot(day, 1) - 1 = Base(day)
      /\ states = CeilingAt(Base(day)) /\ weights = WeightsAt(Base(day))
  <2>1. Base(day) \in Nat /\ Slot(day, 1) = Base(day) + 1
    BY <1>1, BaseFacts
  <2>2. \A c \in Branches : Completed(c) = Base(day)
    BY DEF Completed, InDay, Writing
  <2> QED BY <2>1, <2>2, MemoryBetweenIntervals
<1>3. initial' = StartAt(day)
  BY <1>2 DEF StartAt
<1>4. TypeOK'
  BY <1>1, <1>3, RecordFacts, BlockAssumption DEF TypeOK, Phases, Running, disk
<1>5. LoopSound'
  BY <1>1 DEF LoopSound, InDay, Writing
<1>6. ChoicesInTurn'
  BY DEF ChoicesInTurn
<1>7. MemorySound'
  <2>1. \A c \in Branches : Completed(c)' = Completed(c)
    BY <1>2 DEF Completed, InDay, Writing, Slot
  <2> QED BY <1>3, <2>1 DEF MemorySound, InDay, Writing, StartAt
<1>8. DiskSound'
  BY <1>1 DEF DiskSound, InDay, Writing, disk
<1> QED BY <1>4, <1>5, <1>6, <1>7, <1>8

LEMMA ChooseSound == BInv /\ Choose => BInv'
<1> SUFFICES ASSUME BInv, Choose PROVE BInv'
  OBVIOUS
<1> USE DEF BInv, Choose
<1>1. TypeOK'
  BY DEF TypeOK, Phases, Running, disk
<1>2. LoopSound'
  BY BlockAssumption DEF LoopSound, InDay, Writing, TypeOK
<1>3. ChoicesInTurn'
  BY DEF ChoicesInTurn
<1>4. MemorySound'
  <2>1. \A c \in Branches : Completed(c)' = Completed(c)
    BY DEF Completed, InDay, Writing, Slot
  <2> QED BY <2>1 DEF MemorySound, InDay, Writing, StartAt
<1>5. DiskSound'
  BY DEF DiskSound, InDay, Writing, disk
<1> QED BY <1>1, <1>2, <1>3, <1>4, <1>5

LEMMA ObserveSound == ASSUME BInv, NEW b \in Branches, Observe(b) PROVE BInv'
<1> USE DEF BInv, Observe
<1>1. day \in Days /\ day \in Nat \ {0} /\ t \in Nat /\ t \in 1 .. LastInterval
  BY BlockAssumption DEF LoopSound, InDay, Writing, TypeOK, Days
<1>2. /\ Slot(day, t) \in Nat /\ Slot(day, t) - 1 \in Nat
      /\ Slot(day, t + 1) - 1 = Slot(day, t)
  <2>1. Base(day) \in Nat /\ Slot(day, t) = Base(day) + t /\ Slot(day, t + 1) = Base(day) + (t + 1)
    BY <1>1, BaseFacts
  <2> HIDE DEF Observe, BInv
  <2> QED BY <1>1, <2>1
<1>3. \A c \in Branches : Completed(c)' = IF c = b THEN Slot(day, t) ELSE Completed(c)
  BY <1>2, BlockAssumption DEF Completed, InDay, Writing, AfterBranch, Slot
<1>4. Completed(b) = Slot(day, t) - 1
  BY DEF Completed, InDay
<1>5. /\ states' = [states EXCEPT ![b] = CeilingOf(b, Slot(day, t))]
      /\ weights' = [weights EXCEPT ![b] = WeightOf(b, Slot(day, t))]
      /\ completed' = [completed EXCEPT ![b] = Slot(day, t)]
  <2>1. /\ states[b] = CeilingOf(b, Slot(day, t) - 1)
        /\ weights[b] = WeightOf(b, Slot(day, t) - 1)
        /\ completed[b] = Slot(day, t) - 1
    BY <1>4 DEF MemorySound
  <2>2. (Slot(day, t) - 1) + 1 = Slot(day, t)
    BY <1>2
  <2>3. /\ b # OpenLoop => Append(CeilingOf(b, Slot(day, t) - 1), Slot(day, t)) = CeilingOf(b, Slot(day, t))
        /\ b = OpenLoop => CeilingOf(b, Slot(day, t)) = <<>>
        /\ Mode = "ADAPTIVE" => Append(WeightOf(b, Slot(day, t) - 1), Slot(day, t)) = WeightOf(b, Slot(day, t))
        /\ Mode # "ADAPTIVE" => WeightOf(b, Slot(day, t) - 1) = WeightOf(b, Slot(day, t))
    BY <1>2, <2>2, AppendFacts
  <2> QED BY <2>1, <2>2, <2>3
<1>6. TypeOK'
  <2>1. CeilingOf(b, Slot(day, t)) \in Seq(Nat) /\ WeightOf(b, Slot(day, t)) \in Seq(Nat)
    BY <1>2, HistoryFacts
  <2>2. ASSUME NEW f \in Histories, NEW h \in Seq(Nat) PROVE [f EXCEPT ![b] = h] \in Histories
    BY DEF Histories
  <2>3. states' \in Histories /\ weights' \in Histories
    <3>1. states \in Histories /\ weights \in Histories
      BY DEF TypeOK
    <3> HIDE DEF Observe, BInv
    <3> QED BY <1>5, <2>1, <2>2, <3>1
  <2>4. completed' \in [Branches -> Nat]
    BY <1>2, <1>5 DEF TypeOK
  <2>5. pending' \in [Branches -> BOOLEAN]
    BY DEF TypeOK
  <2>6. t' \in 1 .. LastInterval + 1 /\ phase' \in Phases
    BY <1>1, BlockAssumption DEF TypeOK, AfterBranch, Phases, Running
  <2>7. left' \in SUBSET Branches
    BY DEF TypeOK, AfterBranch
  <2> QED BY <2>3, <2>4, <2>5, <2>6, <2>7 DEF TypeOK, disk
<1>7. LoopSound'
  BY <1>1 DEF LoopSound, InDay, Writing, AfterBranch
<1>8. ChoicesInTurn'
  BY DEF ChoicesInTurn, AfterBranch, TypeOK
<1>9. MemorySound'
  <2>1. ASSUME NEW c \in Branches
        PROVE  /\ states'[c] = CeilingOf(c, Completed(c)')
               /\ weights'[c] = WeightOf(c, Completed(c)')
               /\ completed'[c] = Completed(c)'
    BY <1>3, <1>5 DEF MemorySound, TypeOK, Histories
  <2>2. initial' = StartAt(day')
    BY DEF MemorySound, InDay
  <2> QED BY <2>1, <2>2 DEF MemorySound, CeilingOf, WeightOf, StartAt
<1>10. DiskSound'
  BY DEF DiskSound, InDay, Writing, disk, AfterBranch
<1> QED BY <1>6, <1>7, <1>8, <1>9, <1>10

LEMMA OpenTrajectoriesSound == BInv /\ OpenTrajectories => BInv'
<1> SUFFICES ASSUME BInv, OpenTrajectories PROVE BInv'
  OBVIOUS
<1> USE DEF BInv, OpenTrajectories, loop, memory
<1>1. TypeOK'
  BY DEF TypeOK, Phases, Running, FileStates
<1>2. LoopSound'
  BY DEF LoopSound, InDay, Writing
<1>3. ChoicesInTurn'
  BY DEF ChoicesInTurn
<1>4. MemorySound'
  BY DEF MemorySound, Completed, InDay, Writing
<1>5. DiskSound'
  BY DEF DiskSound, InDay, Writing
<1> QED BY <1>1, <1>2, <1>3, <1>4, <1>5

LEMMA CloseTrajectoriesSound == BInv /\ CloseTrajectories => BInv'
<1> SUFFICES ASSUME BInv, CloseTrajectories PROVE BInv'
  OBVIOUS
<1> USE DEF BInv, CloseTrajectories, loop, memory
<1>1. day \in Days /\ day \in Nat \ {0} /\ t = LastInterval + 1 /\ done[day] = "absent"
  BY BlockAssumption DEF LoopSound, InDay, Writing, TypeOK, Days, DiskSound
<1>2. saved'[day] = RecordAt(day) /\ \A d \in Days \ {day} : saved'[d] = saved[d]
  <2>1. Base(day + 1) \in Nat /\ Slot(day, t) - 1 = Base(day + 1)
    <3>1. /\ Base(day) \in Nat /\ Base(day + 1) = Base(day) + LastInterval
          /\ Slot(day, LastInterval + 1) = Base(day) + (LastInterval + 1)
      BY <1>1, BaseFacts, BlockAssumption
    <3> HIDE DEF BInv, CloseTrajectories
    <3> QED BY <1>1, <3>1, BlockAssumption
  <2>2. \A c \in Branches : Completed(c) = Base(day + 1)
    BY <2>1 DEF Completed, InDay, Writing
  <2>3. states = CeilingAt(Base(day + 1)) /\ weights = WeightsAt(Base(day + 1))
    BY <2>1, <2>2, MemoryBetweenIntervals
  <2>4. initial = StartAt(day)
    BY DEF MemorySound, InDay, Writing
  <2> QED BY <1>1, <2>3, <2>4 DEF RecordAt, StartAt, TypeOK
<1>3. TypeOK'
  <2>1. saved' \in [Days -> Records]
    <3>1. saved' = [saved EXCEPT ![day] = RecordAt(day)]
      BY <1>1, <1>2 DEF TypeOK
    <3> QED BY <1>1, <3>1, RecordFacts DEF TypeOK
  <2> QED BY <2>1 DEF TypeOK, Phases, Running, FileStates
<1>4. LoopSound'
  BY DEF LoopSound, InDay, Writing
<1>5. ChoicesInTurn'
  BY DEF ChoicesInTurn
<1>6. MemorySound'
  BY DEF MemorySound, Completed, InDay, Writing
<1>7. DiskSound'
  BY <1>1, <1>2 DEF DiskSound, InDay, Writing
<1> QED BY <1>3, <1>4, <1>5, <1>6, <1>7

LEMMA WriteResultSound == BInv /\ WriteResult => BInv'
<1> SUFFICES ASSUME BInv, WriteResult PROVE BInv'
  OBVIOUS
<1> USE DEF BInv, WriteResult, loop, memory
<1>1. TypeOK'
  BY DEF TypeOK, Phases, Running, FileStates
<1>2. LoopSound'
  BY DEF LoopSound, InDay, Writing
<1>3. ChoicesInTurn'
  BY DEF ChoicesInTurn
<1>4. MemorySound'
  BY DEF MemorySound, Completed, InDay, Writing
<1>5. DiskSound'
  BY DEF DiskSound, InDay, Writing
<1> QED BY <1>1, <1>2, <1>3, <1>4, <1>5

LEMMA OpenDoneSound == BInv /\ OpenDone => BInv'
<1> SUFFICES ASSUME BInv, OpenDone PROVE BInv'
  OBVIOUS
<1> USE DEF BInv, OpenDone, loop, memory
<1>1. day \in Days /\ done'[day] = "torn" /\ \A d \in Days \ {day} : done'[d] = done[d]
  BY DEF LoopSound, InDay, Writing, TypeOK
<1>2. TypeOK'
  BY DEF TypeOK, Phases, Running, FileStates
<1>3. LoopSound'
  BY DEF LoopSound, InDay, Writing
<1>4. ChoicesInTurn'
  BY DEF ChoicesInTurn
<1>5. MemorySound'
  BY DEF MemorySound, Completed, InDay, Writing
<1>6. DiskSound'
  <2>1. done[day] = "absent" /\ saved[day] = RecordAt(day)
    BY DEF DiskSound, InDay, Writing
  <2>2. \A d \in Days : day < d => done[d] = "absent"
    BY <1>1, <2>1 DEF DiskSound
  <2>3. \A d, e \in Days : e < d /\ done'[d] # "absent" => done'[e] = "whole"
    BY <1>1, <2>1, <2>2, BlockAssumption DEF DiskSound, Days, TypeOK
  <2> QED BY <1>1, <2>1, <2>3 DEF DiskSound, InDay, Writing, TypeOK, Days
<1> QED BY <1>2, <1>3, <1>4, <1>5, <1>6

LEMMA CloseDoneSound ==
  ASSUME BInv, CloseDone
  PROVE  /\ BInv'
         /\ saved[day] = RecordAt(day)
<1> USE DEF BInv, CloseDone, memory
<1>1. /\ day \in Days /\ day \in Nat \ {0} /\ t = LastInterval + 1 /\ day' = day + 1
      /\ done'[day] = "whole" /\ \A d \in Days \ {day} : done'[d] = done[d]
      /\ vouched'[day] = saved[day] /\ \A d \in Days \ {day} : vouched'[d] = vouched[d]
  BY BlockAssumption DEF LoopSound, InDay, Writing, TypeOK, Days
<1>2. done[day] = "torn" /\ saved[day] = RecordAt(day)
  BY DEF DiskSound, InDay, Writing
<1>3. TypeOK'
  <2>1. vouched' \in [Days -> Records]
    BY <1>1 DEF TypeOK
  <2> QED BY <1>1, <2>1, BlockAssumption DEF TypeOK, Phases, Running, FileStates, Days
<1>4. LoopSound'
  BY <1>1 DEF LoopSound, InDay, Writing
<1>5. ChoicesInTurn'
  BY DEF ChoicesInTurn
<1>6. MemorySound'
  <2>1. Slot(day, t) - 1 = Base(day + 1)
    <3>1. /\ Base(day) \in Nat /\ Base(day + 1) = Base(day) + LastInterval
          /\ Slot(day, LastInterval + 1) = Base(day) + (LastInterval + 1)
      BY <1>1, BaseFacts, BlockAssumption
    <3> HIDE DEF BInv, CloseDone
    <3> QED BY <1>1, <3>1, BlockAssumption
  <2>2. \A c \in Branches : Completed(c)' = Completed(c)
    BY <1>1, <2>1 DEF Completed, InDay, Writing
  <2> QED BY <2>2 DEF MemorySound, InDay, Writing
<1>7. DiskSound'
  <2>1. \A d \in Days : done'[d] = "whole" => saved'[d] = RecordAt(d) /\ vouched'[d] = saved'[d]
    BY <1>1, <1>2 DEF DiskSound
  <2>2. \A d, e \in Days : e < d /\ done'[d] # "absent" => done'[e] = "whole"
    BY <1>1, <1>2 DEF DiskSound
  <2>3. \A d \in Days : d < day' => done'[d] = "whole"
    BY <1>1, BlockAssumption DEF DiskSound, Days
  <2> QED BY <2>1, <2>2, <2>3 DEF DiskSound, InDay, Writing
<1> QED BY <1>2, <1>3, <1>4, <1>5, <1>6, <1>7

LEMMA InterruptSound == BInv /\ Interrupt => BInv'
<1> SUFFICES ASSUME BInv, Interrupt PROVE BInv'
  OBVIOUS
<1> USE DEF BInv, Interrupt, disk
<1>1. TypeOK'
  <2>1. NoHistory \in Histories
    BY UptoFacts DEF NoHistory, Histories
  <2>2. NoStart \in Starts
    BY <2>1 DEF NoStart, Starts
  <2> QED BY <2>1, <2>2, BlockAssumption DEF TypeOK, Phases, Running
<1>2. LoopSound'
  BY DEF LoopSound, InDay, Writing
<1>3. ChoicesInTurn'
  BY DEF ChoicesInTurn
<1>4. MemorySound'
  <2>1. \A c \in Branches : Completed(c)' = 0
    BY BaseFacts DEF Completed, InDay, Writing
  <2>2. \A c \in Branches : CeilingOf(c, 0) = <<>> /\ WeightOf(c, 0) = <<>>
    BY UptoFacts DEF CeilingOf, WeightOf
  <2> QED BY <2>1, <2>2 DEF MemorySound, NoHistory, InDay, Writing
<1>5. DiskSound'
  BY DEF DiskSound, InDay, Writing, Days
<1> QED BY <1>1, <1>2, <1>3, <1>4, <1>5

LEMMA StutterSound == BInv /\ UNCHANGED vars => BInv'
<1> SUFFICES ASSUME BInv, UNCHANGED vars PROVE BInv'
  OBVIOUS
<1> USE DEF vars, loop, memory, disk
<1>1. TypeOK'
  BY DEF BInv, TypeOK
<1>2. LoopSound'
  BY DEF BInv, LoopSound
<1>3. ChoicesInTurn'
  BY DEF BInv, ChoicesInTurn
<1>4. MemorySound'
  BY DEF BInv, MemorySound, Completed
<1>5. DiskSound'
  BY DEF BInv, DiskSound
<1> QED BY <1>1, <1>2, <1>3, <1>4, <1>5 DEF BInv

-----------------------------------------------------------------------------
(* What memory and disk hold at every moment of a block. *)
THEOREM BlockInvariant == Spec => []BInv
<1>1. BInv /\ [Next]_vars => BInv'
  BY LaunchSound, ResumeSound, ResumeFailsSound, BeginDaySound, ReturnSound,
     ChooseSound, ObserveSound, OpenTrajectoriesSound, CloseTrajectoriesSound,
     WriteResultSound, OpenDoneSound, CloseDoneSound, InterruptSound, StutterSound
  DEF Next, Step
<1> QED BY <1>1, InitSound, PTL DEF Spec

(* Every variable has its type: in particular the loop never runs past its *)
(* last interval or its last date.                                         *)
THEOREM BlockTypeCorrect == Spec => []TypeOK
<1>1. BInv => TypeOK
  BY DEF BInv
<1> QED BY <1>1, BlockInvariant, PTL

(* LocalResponse is used in turn. *)
THEOREM ChoicesAreInTurn == Spec => []ChoicesInTurn
<1>1. BInv => ChoicesInTurn
  BY DEF BInv
<1> QED BY <1>1, BlockInvariant, PTL

(* The completed count of a policy is right at every date, resumed or not. *)
THEOREM CompletedIsReconstructed == Spec => []CompletedCounts
<1>1. BInv => CompletedCounts
  <2> SUFFICES ASSUME BInv, phase = "dates", NEW c \in Branches
               PROVE  completed[c] = LastInterval * (day - 1)
    BY DEF CompletedCounts
  <2> QED BY DEF BInv, MemorySound, Completed, InDay, Writing, Base
<1> QED BY <1>1, BlockInvariant, PTL

-----------------------------------------------------------------------------
(* The refinement. *)

LEMMA RecordsAgree == \A d \in Days : RecordAt(d) = Block!Record(d)
<1> SUFFICES ASSUME NEW d \in Days PROVE RecordAt(d) = Block!Record(d)
  OBVIOUS
<1>1. Base(d + 1) = LastInterval * d
  BY BaseFacts, BlockAssumption DEF Days
<1>2. Upto(Base(d)) = Block!Until(d - 1) /\ Upto(Base(d + 1)) = Block!Until(d)
  BY <1>1 DEF Upto, Base, Block!Until
<1> QED BY <1>2 DEF RecordAt, Block!Record, CeilingAt, WeightsAt, CeilingOf, WeightOf,
                    Block!CeilingOf, Block!WeightsOf

Published == [d \in PublishedDays |-> saved[d]]

LEMMA PublishedInit == Init => Block!Init
<1> SUFFICES ASSUME Init PROVE Published = [d \in {} |-> Block!Record(d)]
  BY DEF Block!Init, Published
<1>1. PublishedDays = {}
  BY DEF Init, PublishedDays
<1> QED BY <1>1 DEF Published

\* A step that publishes nothing and leaves what is published alone.
LEMMA PublishedSame ==
  ASSUME PublishedDays' = PublishedDays, \A d \in PublishedDays : saved'[d] = saved[d]
  PROVE  Published' = Published
BY DEF Published

LEMMA QuietSteps ==
  ASSUME BInv, [Next]_vars, ~CloseDone
  PROVE  PublishedDays' = PublishedDays /\ \A d \in PublishedDays : saved'[d] = saved[d]
<1>1. CASE CloseTrajectories
  BY <1>1 DEF CloseTrajectories, BInv, DiskSound, TypeOK, InDay, Writing, PublishedDays
<1>2. CASE OpenDone
  BY <1>2 DEF OpenDone, BInv, DiskSound, TypeOK, InDay, Writing, PublishedDays
<1>3. CASE done' = done /\ saved' = saved
  BY <1>3 DEF PublishedDays
<1> QED BY <1>1, <1>2, <1>3
    DEF Next, Step, Launch, Resume, ResumeFails, BeginDay, Return, Choose, Observe,
        OpenTrajectories, WriteResult, Interrupt, vars, disk

LEMMA CloseDonePublishes == BInv /\ CloseDone => Block!Publish
<1> SUFFICES ASSUME BInv, CloseDone PROVE Block!Publish
  OBVIOUS
<1>1. day \in Days /\ saved[day] = RecordAt(day) /\ saved' = saved
      /\ done'[day] = "whole" /\ \A d \in Days \ {day} : done'[d] = done[d]
  BY CloseDoneSound DEF BInv, CloseDone, LoopSound, InDay, Writing, TypeOK
<1>2. PublishedDays = 1 .. day - 1
  <2>1. \A d \in Days : d < day => done[d] = "whole"
    BY DEF BInv, DiskSound
  <2>2. done[day] = "torn"
    BY DEF BInv, DiskSound, CloseDone, InDay, Writing
  <2>3. \A d \in Days : day < d => done[d] = "absent"
    BY <1>1, <2>2 DEF BInv, DiskSound
  <2> QED BY <1>1, <2>1, <2>2, <2>3, BlockAssumption DEF PublishedDays, Days
<1>3. PublishedDays' = 1 .. day
  BY <1>1, <1>2, BlockAssumption DEF PublishedDays, Days
<1>4. Published' = [d \in 1 .. day |->
                      IF d = day THEN Block!Record(d) ELSE Published[d]]
  BY <1>1, <1>2, <1>3, RecordsAgree DEF Published, Days
<1>5. DOMAIN Published = 1 .. day - 1
  BY <1>2 DEF Published
<1> QED BY <1>1, <1>4, <1>5 DEF Block!Publish, Published, Days

(* A job implements UninterruptedBlock: whatever the interruptions, every  *)
(* published date carries the arrays of a run that never stopped.          *)
THEOREM RestartsAreTransparent == Spec => PublishesBlock
<1>1. BInv /\ [Next]_vars => [Block!Publish]_Published
  BY QuietSteps, PublishedSame, CloseDonePublishes
<1> QED BY <1>1, PublishedInit, BlockInvariant, PTL
    DEF Spec, PublishesBlock, Block!Spec, Published

-----------------------------------------------------------------------------
(***************************************************************************)
(* What BlockReturns rests on besides fairness: a job fails only over a    *)
(* torn DONE.json, a job that returns has computed or verified its whole   *)
(* block, and a job that is not interrupted comes to an end.               *)
(***************************************************************************)
FailsOnlyTorn == phase = "failed" => Torn

ReturnsWholeBlock ==
  phase = "returned" =>
    \A d \in Days : done[d] = "whole" /\ saved[d] = RecordAt(d) /\ vouched[d] = saved[d]

\* A whole DONE.json always passes the checks at the head of the loop.
LEMMA WholeIsCheckpointed ==
  ASSUME BInv, phase = "dates", day \in Days, done[day] = "whole"
  PROVE  Checkpointed(day)
<1>1. saved[day] = RecordAt(day) /\ vouched[day] = saved[day]
  BY DEF BInv, DiskSound
<1>2. day \in Nat \ {0} /\ Base(day) \in Nat
  <2>1. day \in Nat \ {0}
    BY DEF Days
  <2> QED BY <2>1, BaseFacts
<1>3. \A c \in Branches : Completed(c) = Base(day)
  BY DEF Completed, InDay, Writing
<1>4. states = CeilingAt(Base(day)) /\ weights = WeightsAt(Base(day))
  BY <1>2, <1>3, MemoryBetweenIntervals DEF BInv
<1> QED BY <1>1, <1>4 DEF Checkpointed, RecordAt

LEMMA FailureIsTorn ==
  ASSUME BInv, FailsOnlyTorn, [Next]_vars PROVE FailsOnlyTorn'
<1>1. CASE ResumeFails
  <2>1. day \in Days /\ done[day] \in FileStates /\ done[day] # "absent"
    BY <1>1, BlockAssumption DEF ResumeFails, BInv, TypeOK, Days
  <2>2. done[day] # "whole"
    BY <1>1, <2>1, WholeIsCheckpointed DEF ResumeFails
  <2>3. done'[day] = "torn"
    BY <1>1, <2>1, <2>2 DEF ResumeFails, disk, FileStates
  <2> QED BY <2>1, <2>3 DEF FailsOnlyTorn, Torn
<1>2. CASE UNCHANGED vars
  BY <1>2 DEF vars, disk, FailsOnlyTorn, Torn
<1>3. CASE \E c \in Branches : Observe(c)
  <2>1. phase' \in {"branches", "interval"}
    BY <1>3 DEF Observe, AfterBranch
  <2> QED BY <2>1 DEF FailsOnlyTorn
<1>4. CASE ~ResumeFails /\ ~UNCHANGED vars /\ ~\E c \in Branches : Observe(c)
  <2>1. phase' # "failed"
    BY <1>4 DEF Next, Step, Launch, Resume, BeginDay, Return, Choose, OpenTrajectories,
       CloseTrajectories, WriteResult, OpenDone, CloseDone, Interrupt
  <2> QED BY <2>1 DEF FailsOnlyTorn
<1> QED BY <1>1, <1>2, <1>3, <1>4

(* No checkpoint assertion of a restart fails, whatever was interrupted,   *)
(* unless a DONE.json was cut short.                                       *)
THEOREM OnlyTornMarkersFail == Spec => []FailsOnlyTorn
<1>1. Init => FailsOnlyTorn
  BY DEF Init, FailsOnlyTorn
<1>2. BInv /\ FailsOnlyTorn /\ [Next]_vars => FailsOnlyTorn'
  BY FailureIsTorn
<1> QED BY <1>1, <1>2, BlockInvariant, PTL DEF Spec

(* A job that returns leaves every date of its block whole, verified, and  *)
(* as a run that was never interrupted would have left it.                 *)
THEOREM ReturnedBlockIsWhole == Spec => []ReturnsWholeBlock
<1>1. BInv => ReturnsWholeBlock
  <2> SUFFICES ASSUME BInv, phase = "returned", NEW d \in Days
               PROVE  done[d] = "whole" /\ saved[d] = RecordAt(d) /\ vouched[d] = saved[d]
    BY DEF ReturnsWholeBlock
  <2>1. d < day
    BY BlockAssumption DEF BInv, LoopSound, Days
  <2> QED BY <2>1 DEF BInv, DiskSound
<1> QED BY <1>1, BlockInvariant, PTL

-----------------------------------------------------------------------------
(* The steps that remain: an interval takes a choice and one observation   *)
(* of each branch, a date its intervals and its files, a block its dates.  *)
Ticks == Cardinality(Branches) + 1
DayCost == LastInterval * Ticks + 8
IntervalsLeft == (LastInterval + 1 - t) * Ticks + 6

StepsOfDay ==
  CASE phase = "idle" -> DayCost
    [] phase = "dates" -> DayCost - 1
    [] phase = "interval" -> IntervalsLeft
    [] phase = "branches" -> IntervalsLeft - Ticks + Cardinality(left)
    [] phase = "closeTrajectories" -> 5
    [] phase = "openResult" -> 4
    [] phase = "closeResult" -> 3
    [] phase = "openDone" -> 2
    [] phase = "closeDone" -> 1
    [] OTHER -> 0

StepsLeft == (LastDay + 1 - day) * DayCost + StepsOfDay

LEMMA OneMore ==
  ASSUME NEW n \in Nat, NEW k \in Nat
  PROVE  n * k \in Nat /\ (n + 1) * k = n * k + k
OBVIOUS

LEMMA TickFacts ==
  /\ Cardinality(Branches) \in Nat /\ Ticks \in Nat /\ Ticks = Cardinality(Branches) + 1
  /\ DayCost \in Nat /\ DayCost = LastInterval * Ticks + 8
<1>1. Cardinality(Branches) \in Nat
  BY BlockAssumption, FS_CardinalityType
<1>2. Ticks \in Nat
  BY <1>1 DEF Ticks
<1>3. LastInterval * Ticks \in Nat
  BY <1>2, BlockAssumption, OneMore
<1> QED BY <1>1, <1>2, <1>3 DEF Ticks, DayCost

LEMMA IntervalsFacts ==
  ASSUME TypeOK
  PROVE  /\ IntervalsLeft \in Nat
         /\ t = 1 => IntervalsLeft = DayCost - 2
         /\ t = LastInterval + 1 => IntervalsLeft = 6
         /\ t \in 1 .. LastInterval =>
              IntervalsLeft - Ticks \in Nat
              /\ (LastInterval + 1 - (t + 1)) * Ticks + 6 = IntervalsLeft - Ticks
<1>1. t \in 1 .. LastInterval + 1 /\ LastInterval \in Nat
  BY BlockAssumption DEF TypeOK
<1>2. LastInterval + 1 - t \in Nat
  BY <1>1
<1>3. (LastInterval + 1 - t) * Ticks \in Nat
  BY <1>2, TickFacts, OneMore
<1>4. ASSUME t = 1 PROVE IntervalsLeft = DayCost - 2
  <2>1. LastInterval + 1 - t = LastInterval
    BY <1>1, <1>4
  <2>2. LastInterval * Ticks \in Nat
    BY <1>1, TickFacts, OneMore
  <2> QED BY <2>1, <2>2 DEF IntervalsLeft, DayCost
<1>5. ASSUME t = LastInterval + 1 PROVE IntervalsLeft = 6
  <2>1. LastInterval + 1 - t = 0
    BY <1>1, <1>5
  <2>2. 0 * Ticks = 0
    BY TickFacts
  <2> QED BY <2>1, <2>2 DEF IntervalsLeft
<1>6. ASSUME t \in 1 .. LastInterval
      PROVE  /\ IntervalsLeft - Ticks \in Nat
             /\ (LastInterval + 1 - (t + 1)) * Ticks + 6 = IntervalsLeft - Ticks
  <2>1. PICK n \in Nat : n = LastInterval + 1 - (t + 1) /\ LastInterval + 1 - t = n + 1
    BY <1>1, <1>6
  <2>2. n * Ticks \in Nat /\ (n + 1) * Ticks = n * Ticks + Ticks
    BY TickFacts, OneMore
  <2>3. IntervalsLeft = (n * Ticks + Ticks) + 6
    BY <2>1, <2>2 DEF IntervalsLeft
  <2> QED BY <2>1, <2>2, <2>3, TickFacts
<1> QED BY <1>3, <1>4, <1>5, <1>6 DEF IntervalsLeft

\* The same, as a difference between the two states of a step.
LEMMA DayShrinks ==
  ASSUME TypeOK, day \in Days, day' = day + 1
  PROVE  /\ (LastDay + 1 - day) * DayCost \in Nat /\ (LastDay + 1 - day') * DayCost \in Nat
         /\ (LastDay + 1 - day) * DayCost = (LastDay + 1 - day') * DayCost + DayCost
<1>1. PICK n \in Nat : n = LastDay + 1 - day' /\ LastDay + 1 - day = n + 1
  BY BlockAssumption DEF Days
<1> QED BY <1>1, TickFacts, OneMore

LEMMA StepsLeftNatural == BInv => StepsLeft \in Nat /\ StepsOfDay \in Nat
<1> SUFFICES ASSUME BInv PROVE StepsLeft \in Nat /\ StepsOfDay \in Nat
  OBVIOUS
<1>1. /\ TypeOK /\ LastDay + 1 - day \in Nat
      /\ phase = "branches" => t \in 1 .. LastInterval
  BY BlockAssumption DEF BInv, TypeOK, LoopSound
<1>2. (LastDay + 1 - day) * DayCost \in Nat
  BY <1>1, TickFacts, OneMore
<1>3. Cardinality(left) \in Nat
  <2>1. left \in SUBSET Branches /\ IsFiniteSet(Branches)
    BY <1>1, BlockAssumption DEF TypeOK
  <2> QED BY <2>1, FS_Subset, FS_CardinalityType
<1>4. DayCost \in Nat /\ DayCost - 1 \in Nat
  <2>1. LastInterval * Ticks \in Nat
    BY TickFacts, BlockAssumption, OneMore
  <2> QED BY <2>1 DEF DayCost
<1>5. StepsOfDay \in Nat
  BY <1>1, <1>3, <1>4, IntervalsFacts DEF StepsOfDay
<1> QED BY <1>2, <1>5 DEF StepsLeft

\* Within a date only the second summand moves.
LEMMA SameDayShorter ==
  ASSUME BInv, BInv', day' = day, StepsOfDay' < StepsOfDay
  PROVE  StepsLeft' < StepsLeft
<1> DEFINE m == (LastDay + 1 - day) * DayCost
<1>1. m \in Nat
  <2>1. LastDay + 1 - day \in Nat
    BY BlockAssumption DEF BInv, TypeOK
  <2> QED BY <2>1, TickFacts, OneMore
<1>2. StepsLeft = m + StepsOfDay /\ StepsLeft' = m + StepsOfDay'
  BY DEF StepsLeft, DayCost, Ticks
<1>3. StepsOfDay \in Nat /\ StepsOfDay' \in Nat
  <2>1. StepsOfDay \in Nat
    BY StepsLeftNatural
  <2>2. BInv => StepsOfDay \in Nat
    BY StepsLeftNatural
  <2>3. (BInv => StepsOfDay \in Nat)'
    BY StepsLeftNatural, PTL
  <2> QED BY <2>1, <2>3
<1> DEFINE a == StepsOfDay
           b == StepsOfDay'
<1>4. a \in Nat /\ b \in Nat /\ b < a
  BY <1>3
<1> HIDE DEF m, a, b
<1>5. m + b < m + a
  BY <1>1, <1>4
<1> QED BY <1>2, <1>5 DEF a, b

LEMMA ObserveShortens ==
  ASSUME BInv, BInv', NEW c \in Branches, Observe(c) PROVE StepsLeft' < StepsLeft
<1>1. /\ TypeOK /\ phase = "branches" /\ t \in 1 .. LastInterval /\ day' = day
      /\ c \in left /\ left' = left \ {c} /\ IsFiniteSet(left)
  <2>1. left \in SUBSET Branches /\ IsFiniteSet(Branches)
    BY BlockAssumption DEF BInv, TypeOK
  <2> QED BY <2>1, FS_Subset DEF BInv, LoopSound, Observe, AfterBranch
<1>2. /\ Cardinality(left) \in Nat /\ Cardinality(left') = Cardinality(left) - 1
      /\ Cardinality(left') \in Nat
  BY <1>1, FS_RemoveElement, FS_CardinalityType
<1>3. IntervalsLeft - Ticks \in Nat /\ IntervalsLeft \in Nat /\ Ticks \in Nat
  BY <1>1, IntervalsFacts, TickFacts
<1>4. StepsOfDay = IntervalsLeft - Ticks + Cardinality(left)
  BY <1>1 DEF StepsOfDay
<1>5. CASE left = {c}
  <2>1. t' = t + 1 /\ phase' = "interval"
    BY <1>5 DEF Observe, AfterBranch
  <2>2. StepsOfDay' = (LastInterval + 1 - (t + 1)) * Ticks + 6
    BY <2>1 DEF StepsOfDay, IntervalsLeft, Ticks
  <2>3. StepsOfDay' = IntervalsLeft - Ticks
    BY <1>1, <2>2, IntervalsFacts
  <2>4. StepsOfDay' < StepsOfDay
    BY <1>2, <1>3, <1>4, <2>3
  <2> QED BY <1>1, <2>4, SameDayShorter
<1>6. CASE left # {c}
  <2>1. t' = t /\ phase' = phase
    BY <1>6 DEF Observe, AfterBranch
  <2>2. StepsOfDay' = IntervalsLeft - Ticks + Cardinality(left')
    BY <1>1, <2>1 DEF StepsOfDay, IntervalsLeft, Ticks
  <2>3. StepsOfDay' < StepsOfDay
    BY <1>2, <1>3, <1>4, <2>2
  <2> QED BY <1>1, <2>3, SameDayShorter
<1> QED BY <1>5, <1>6

\* A date that is done, or taken up, is one date less.
LEMMA NextDateShortens ==
  ASSUME BInv, BInv', Resume \/ CloseDone PROVE StepsLeft' < StepsLeft
<1>1. /\ TypeOK /\ day \in Days /\ day' = day + 1 /\ phase' = "dates"
      /\ phase \in {"dates", "closeDone"}
  BY BlockAssumption DEF BInv, TypeOK, LoopSound, InDay, Writing, Days, Resume, CloseDone
<1> DEFINE m == (LastDay + 1 - day') * DayCost
<1>2. m \in Nat /\ (LastDay + 1 - day) * DayCost = m + DayCost
  BY <1>1, DayShrinks
<1>3. StepsLeft' = m + (DayCost - 1)
  BY <1>1 DEF StepsLeft, StepsOfDay, DayCost, Ticks
<1>4. StepsLeft = (m + DayCost) + StepsOfDay /\ StepsOfDay \in Nat
  BY <1>2, StepsLeftNatural DEF StepsLeft
<1> HIDE DEF m
<1> QED BY <1>2, <1>3, <1>4, TickFacts

LEMMA ChooseShortens == ASSUME BInv, BInv', Choose PROVE StepsLeft' < StepsLeft
<1>1. /\ TypeOK /\ phase = "interval" /\ phase' = "branches"
      /\ day' = day /\ t' = t /\ left' = Branches
  BY DEF BInv, Choose
<1>2. StepsOfDay = IntervalsLeft
  BY <1>1 DEF StepsOfDay
<1>3. StepsOfDay' = IntervalsLeft - Ticks + Cardinality(Branches)
  BY <1>1 DEF StepsOfDay, IntervalsLeft, Ticks
<1>4. StepsOfDay' < StepsOfDay
  BY <1>1, <1>2, <1>3, IntervalsFacts, TickFacts
<1> QED BY <1>1, <1>4, SameDayShorter

LEMMA StepShortens == ASSUME BInv, BInv', Step PROVE StepsLeft' < StepsLeft
<1>1. CASE \E c \in Branches : Observe(c)
  BY <1>1, ObserveShortens
<1>2. CASE Resume \/ CloseDone
  BY <1>2, NextDateShortens
<1>3. CASE Choose
  BY <1>3, ChooseShortens
<1>4. CASE BeginDay
  <2>1. day' = day /\ t' = 1 /\ phase = "dates" /\ phase' = "interval"
    BY <1>4 DEF BeginDay
  <2>2. StepsOfDay = DayCost - 1
    BY <2>1 DEF StepsOfDay
  <2>3. StepsOfDay' = DayCost - 2
    <3>1. StepsOfDay' = (LastInterval + 1 - 1) * Ticks + 6
      BY <2>1 DEF StepsOfDay, IntervalsLeft, Ticks
    <3>2. LastInterval + 1 - 1 = LastInterval /\ LastInterval * Ticks \in Nat
      BY TickFacts, BlockAssumption, OneMore
    <3> QED BY <3>1, <3>2 DEF DayCost
  <2> QED BY <2>1, <2>2, <2>3, SameDayShorter, TickFacts
<1>5. CASE OpenTrajectories
  <2>1. /\ TypeOK /\ day' = day /\ t = LastInterval + 1
        /\ phase = "interval" /\ phase' = "closeTrajectories"
    BY <1>5 DEF OpenTrajectories, loop, BInv
  <2>2. StepsOfDay = 6 /\ StepsOfDay' = 5
    BY <2>1, IntervalsFacts DEF StepsOfDay
  <2> QED BY <2>1, <2>2, SameDayShorter
<1>6. CASE Launch \/ ResumeFails \/ Return
  <2>1. /\ day' = day
        /\ \/ phase = "idle" /\ phase' = "dates"
           \/ phase = "dates" /\ phase' \in {"failed", "returned"}
    BY <1>6 DEF Launch, ResumeFails, Return, loop
  <2>2. StepsOfDay' < StepsOfDay
    <3>1. 8 <= DayCost /\ DayCost \in Nat
      <4>1. LastInterval * Ticks \in Nat
        BY TickFacts, BlockAssumption, OneMore
      <4> QED BY <4>1 DEF DayCost
    <3>2. \/ StepsOfDay = DayCost /\ StepsOfDay' = DayCost - 1
          \/ StepsOfDay = DayCost - 1 /\ StepsOfDay' = 0
      BY <2>1 DEF StepsOfDay, DayCost, Ticks
    <3> QED BY <3>1, <3>2
  <2> QED BY <2>1, <2>2, SameDayShorter
<1>7. CASE CloseTrajectories \/ WriteResult \/ OpenDone
  <2>1. /\ day' = day
        /\ \/ phase = "closeTrajectories" /\ phase' = "openResult"
           \/ phase = "openResult" /\ phase' = "closeResult"
           \/ phase = "closeResult" /\ phase' = "openDone"
           \/ phase = "openDone" /\ phase' = "closeDone"
    BY <1>7 DEF CloseTrajectories, WriteResult, OpenDone, loop
  <2>2. StepsOfDay' < StepsOfDay
    BY <2>1 DEF StepsOfDay
  <2> QED BY <2>1, <2>2, SameDayShorter
<1> QED BY <1>1, <1>2, <1>3, <1>4, <1>5, <1>6, <1>7 DEF Step

(* Between two interruptions every step lowers a natural, so a block of    *)
(* any size ends unless it is interrupted again.                           *)
THEOREM BlockShortens ==
  Spec => /\ [](StepsLeft \in Nat)
          /\ [][Step => StepsLeft' < StepsLeft]_vars
<1>1. BInv => StepsLeft \in Nat
  BY StepsLeftNatural
<1>2. BInv /\ BInv' /\ [Next]_vars => [Step => StepsLeft' < StepsLeft]_vars
  BY StepShortens
<1> QED BY <1>1, <1>2, BlockInvariant, PTL DEF Spec
=============================================================================
