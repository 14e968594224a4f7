------------------------------ MODULE RmaProofs ------------------------------
(***************************************************************************)
(* Ranges in shared memory, for every set of ranges and every way to map   *)
(* their memory: no wake-up of a guard is lost, the owner of a halo is     *)
(* never in it together with a put, and each step of a range implements    *)
(* the epochs of AccessEpochs.                                             *)
(***************************************************************************)
EXTENDS RmaRange, SequenceTheorems, TLAPS

rangevars == <<vars, rvars>>

Stages == {"archive", "put", "record", "crashed", "end", "event", "in"}

RangeTypeOK ==
  /\ m_mode \in {"local", "remote"}
  /\ pc \in [Parties -> PCs]
  /\ last \in BOOLEAN
  /\ alive \in BOOLEAN
  /\ range \in Ranges
  /\ stream \in Seq({"put", "event"})
  /\ stores \in BOOLEAN
  /\ stage \in [Parties -> Stages]

-----------------------------------------------------------------------------
\* What the stages of an epoch say about the guard.
StageInv ==
  /\ stage["source"] \in {"archive", "record", "crashed", "end"} => pc["source"] = "epoch"
  /\ stage["target"] = "in" => pc["target"] \in {"epoch", "over"}
  /\ pc["target"] = "over" <=> ~alive

\* A party is inside in its own mode.
ModeInv == \A p \in Parties : Inside(p) => m_mode = OwnMode(p)

Queued == \E k \in 1 .. Len(stream) : stream[k] = "put"

\* Puts that the device has not reached have the event behind them, or it is
\* recorded next, unless the put has ended the program.
StreamInv == Queued => /\ OnDevice
                       /\ \/ stage["source"] \in {"record", "crashed"}
                          \/ stream[Len(stream)] = "event"

\* A put is pending while the source is in its epoch, or when the owner has
\* not come in yet; stores of the source are visible before the mode changes.
PutInv ==
  /\ PutPending /\ m_mode = "remote" => Inside("source")
  /\ stores => Inside("source")
  /\ InRange("target") => ~PutPending

RangeInv == RangeTypeOK /\ StageInv /\ ModeInv /\ StreamInv /\ PutInv

\* Pending puts are in the stream or on their way to the memory.
LEMMA PendingIsQueued == RangeTypeOK => (PutPending <=> stores \/ Queued)
<1> SUFFICES ASSUME RangeTypeOK  PROVE DOMAIN stream = 1 .. Len(stream)
  BY DEF PutPending, Queued
<1> QED
  BY DEF RangeTypeOK

LEMMA RangeInitInv == RangeInit => RangeInv
<1> SUFFICES ASSUME RangeInit  PROVE RangeInv
  OBVIOUS
<1>1. /\ m_mode = "remote" /\ pc = [target |-> "outside", source |-> "epoch"]
      /\ last = FALSE /\ alive = TRUE /\ range \in Ranges /\ stream = <<>> /\ stores = FALSE
      /\ stage = [target |-> "event", source |-> "archive"]
  BY DEF RangeInit, Init
<1>2. RangeTypeOK
  <2>1. pc \in [Parties -> PCs]
    BY <1>1 DEF Parties, PCs
  <2>2. stage \in [Parties -> Stages]
    BY <1>1 DEF Parties, Stages
  <2>3. stream \in Seq({"put", "event"})
    BY <1>1, EmptySeq
  <2> QED
    BY <1>1, <2>1, <2>2, <2>3 DEF RangeTypeOK
<1>3. ~Queued
  BY <1>1 DEF Queued
<1>4. ~PutPending
  BY <1>1, <1>2, <1>3, PendingIsQueued
<1>5. StageInv /\ ModeInv
  BY <1>1 DEF StageInv, ModeInv, Inside, OwnMode, Parties
<1> QED
  BY <1>1, <1>2, <1>3, <1>4, <1>5 DEF RangeInv, StreamInv, PutInv

-----------------------------------------------------------------------------
\* A step of the guard changes neither the stream nor the stages.
GuardStep(p) ==
  /\ \/ Call(p) \/ TryTest(p) \/ WaitTest(p) \/ Notify(p) \/ Lock(p) \/ SpuriousWakeup(p)
     \/ EndSet(p) /\ (p = "source" => ~stores)
     \/ PollTry(p) \/ PollWait(p)
     \/ StoreMode(p) /\ (p = "source" => ~stores)
  /\ UNCHANGED rvars

LEMMA GuardStepInv ==
  ASSUME RangeInv, NEW p \in Parties, GuardStep(p)
  PROVE  RangeInv'
<1> USE DEF RangeInv
<1>0. /\ range' = range /\ stream' = stream /\ stores' = stores /\ stage' = stage
      /\ Queued' = Queued /\ OnDevice' = OnDevice /\ PutPending' = PutPending
  BY DEF GuardStep, rvars, Queued, OnDevice, PutPending
<1>1. RangeTypeOK'
  <2>1. m_mode' \in {"local", "remote"} /\ last' \in BOOLEAN /\ alive' \in BOOLEAN
    BY DEF RangeTypeOK, GuardStep, Call, TryTest, WaitTest, Notify, Lock, SpuriousWakeup, EndSet,
           PollTry, PollWait, StoreMode, OwnMode
  <2>2. pc' \in [Parties -> PCs]
    BY DEF RangeTypeOK, GuardStep, Call, TryTest, WaitTest, Notify, Lock, SpuriousWakeup, EndSet,
           PollTry, PollWait, StoreMode, Goto, Parties, PCs, Other, Finishes
  <2> QED
    BY <1>0, <2>1, <2>2 DEF RangeTypeOK
<1>2. StageInv'
  BY <1>0 DEF RangeTypeOK, StageInv, GuardStep, Call, TryTest, WaitTest, Notify, Lock, SpuriousWakeup, EndSet,
              PollTry, PollWait, StoreMode, Goto, Parties, Other, Finishes
<1>3. ModeInv'
  BY DEF RangeTypeOK, StageInv, ModeInv, Inside, GuardStep, Call, TryTest, WaitTest, Notify, Lock,
         SpuriousWakeup, EndSet, PollTry, PollWait, StoreMode, Goto, Parties, Other, OwnMode,
                  Finishes
<1>4. StreamInv'
  BY <1>0 DEF StreamInv
<1>5. PutInv'
  <2>1. stores => Inside("source")'
    BY DEF RangeTypeOK, PutInv, Inside, GuardStep, Call, TryTest, WaitTest, Notify, Lock, SpuriousWakeup,
           EndSet, PollTry, PollWait, StoreMode, Goto, Parties, Other, Finishes
  <2>2. InRange("target")' => ~PutPending
    BY <1>0 DEF RangeTypeOK, StageInv, PutInv, InRange, GuardStep, Call, TryTest, WaitTest, Notify, Lock,
           SpuriousWakeup, EndSet, PollTry, PollWait, StoreMode, Goto, Parties, Other, Finishes
  <2>3. PutPending /\ m_mode' = "remote" => Inside("source")'
    <3> SUFFICES ASSUME PutPending, m_mode' = "remote"  PROVE Inside("source")'
      OBVIOUS
    <3>1. ~InRange("target")
      BY DEF PutInv
    <3>2. m_mode = "remote"
      BY <3>1 DEF RangeTypeOK, InRange, GuardStep, Call, TryTest, WaitTest, Notify, Lock, SpuriousWakeup,
                  EndSet, PollTry, PollWait, StoreMode, Parties, Other, OwnMode
    <3> QED
      BY <3>2 DEF RangeTypeOK, PutInv, Inside, GuardStep, Call, TryTest, WaitTest, Notify, Lock,
                  SpuriousWakeup, EndSet, PollTry, PollWait, StoreMode, Goto, Parties, Other, OwnMode,
                  Finishes
  <2> QED
    BY <1>0, <2>1, <2>2, <2>3 DEF PutInv
<1> QED
  BY <1>1, <1>2, <1>3, <1>4, <1>5

\* With a guard of one byte only on memory in order, each step of a guard is one of these.
LEMMA GuardSteps ==
  ASSUME RangeTypeOK, \A r \in Ranges : r.guard = "byte" => r.ordered, NEW p \in Parties,
         \/ (Call(p) \/ SpuriousWakeup(p)) /\ UNCHANGED rvars
         \/ MutexStep(p) \/ ByteStep(p)
  PROVE  GuardStep(p)
<1>1. CASE (Call(p) \/ SpuriousWakeup(p)) /\ UNCHANGED rvars
  BY <1>1 DEF GuardStep
<1>2. CASE MutexStep(p)
  BY <1>2 DEF MutexStep, GuardStep
<1>3. CASE ByteStep(p)
  <2>1. range.ordered
    BY <1>3 DEF ByteStep, RangeTypeOK
  <2> QED
    BY <1>3, <2>1 DEF ByteStep, GuardStep, StoreMode, Published
<1> QED
  BY <1>1, <1>2, <1>3

-----------------------------------------------------------------------------
\* A step of a range moves one party to its next stage.
LEMMA OneAdvances ==
  ASSUME RangeTypeOK, NEW p \in Parties, NEW to \in Stages, Advance(p, to)
  PROVE  /\ stage' \in [Parties -> Stages]
         /\ stage'[p] = to
         /\ \A q \in Parties \ {p} : stage'[q] = stage[q]
BY DEF RangeTypeOK, Advance

\* While the source is in its epoch the owner is not.
LEMMA Excluded ==
  ASSUME RangeInv, Inside("source")  PROVE m_mode = "remote" /\ ~InRange("target")
<1>1. m_mode = "remote"
  BY DEF RangeInv, ModeInv, Parties, OwnMode
<1>2. Inside("target") => m_mode = "local"
  BY DEF RangeInv, ModeInv, Parties, OwnMode
<1> QED
  BY <1>1, <1>2 DEF Inside, InRange

LEMMA EndEpochInv ==
  ASSUME RangeInv, NEW p \in Parties, EndEpoch(p)  PROVE RangeInv'
<1> USE DEF RangeInv
<1>0. /\ range' = range /\ stream' = stream /\ stores' = stores
      /\ m_mode' = m_mode /\ last' = last /\ alive' = alive
      /\ Queued' = Queued /\ OnDevice' = OnDevice /\ PutPending' = PutPending
      /\ pc[p] = "epoch" /\ pc' = [pc EXCEPT ![p] = "end_lock"]
  BY DEF EndEpoch, End, Goto, Queued, OnDevice, PutPending
<1>1. RangeTypeOK' /\ stage'[p] = (IF p = "target" THEN "event" ELSE "put")
      /\ \A q \in Parties \ {p} : stage'[q] = stage[q]
  <2>1. pc' \in [Parties -> PCs]
    BY <1>0 DEF RangeTypeOK, PCs
  <2>2. (IF p = "target" THEN "event" ELSE "put") \in Stages
    BY DEF Stages
  <2> QED
    BY <1>0, <2>1, <2>2, OneAdvances DEF EndEpoch, RangeTypeOK
<1>2. StageInv'
  BY <1>0, <1>1 DEF RangeTypeOK, StageInv, Parties
<1>3. \A q \in Parties : Inside(q)' <=> Inside(q)
  BY <1>0 DEF RangeTypeOK, Inside, Parties
<1>4. ModeInv'
  BY <1>0, <1>3 DEF ModeInv, OwnMode
<1>5. StreamInv'
  BY <1>0, <1>1 DEF StreamInv, EndEpoch, Parties
<1>6. PutInv'
  <2>1. p = "source" => (InRange("target")' <=> InRange("target"))
    <3> SUFFICES ASSUME p = "source"
                 PROVE  pc'["target"] = pc["target"] /\ stage'["target"] = stage["target"]
      BY <1>0 DEF InRange
    <3> QED
      BY <1>0, <1>1 DEF RangeTypeOK, Parties
  <2>2. p = "target" => InRange("target")
    BY <1>0 DEF EndEpoch, InRange
  <2> QED
    BY <1>0, <1>3, <2>1, <2>2 DEF PutInv, Parties
<1> QED
  BY <1>1, <1>2, <1>4, <1>5, <1>6

\* What the steps of a range leave alone.
GuardUnchanged == UNCHANGED <<vars, range>>

LEMMA UnchangedGuard ==
  ASSUME RangeInv, GuardUnchanged
  PROVE  /\ m_mode' = m_mode /\ last' = last /\ alive' = alive /\ range' = range /\ pc' = pc
         /\ OnDevice' = OnDevice
         /\ \A q \in Parties : Inside(q)' <=> Inside(q)
         /\ ModeInv'
BY DEF RangeInv, GuardUnchanged, vars, OnDevice, Inside, ModeInv, OwnMode

LEMMA DeserializeInv ==
  ASSUME RangeInv, Deserialize  PROVE RangeInv'
<1> USE DEF RangeInv
<1>0. GuardUnchanged /\ stream' = stream /\ stores' = stores
      /\ Queued' = Queued /\ PutPending' = PutPending
      /\ pc["source"] = "epoch" /\ stage["source"] = "archive"
  BY DEF Deserialize, GuardUnchanged, Queued, PutPending
<1>1. stage' \in [Parties -> Stages] /\ stage'["source"] = "end" /\ stage'["target"] = stage["target"]
  BY OneAdvances DEF Deserialize, Parties, Stages
<1>2. RangeTypeOK' /\ StageInv'
  BY <1>0, <1>1, UnchangedGuard DEF RangeTypeOK, StageInv
<1>3. StreamInv'
  BY <1>0, <1>1, UnchangedGuard DEF StreamInv
<1>4. PutInv'
  BY <1>0, <1>1, UnchangedGuard DEF PutInv, InRange, Parties
<1> QED
  BY <1>0, <1>2, <1>3, <1>4, UnchangedGuard

LEMMA PutInvariant ==
  ASSUME RangeInv, Put  PROVE RangeInv'
<1> USE DEF RangeInv
<1>0. GuardUnchanged /\ pc["source"] = "epoch" /\ stage["source"] = "put"
      /\ stream' = (IF OnStream THEN Append(stream, "put") ELSE stream)
      /\ stores' = ~OnStream
  BY DEF Put, GuardUnchanged
<1>1. /\ stage' \in [Parties -> Stages] /\ stage'["source"] \in {"record", "crashed"}
      /\ stage'["target"] = stage["target"]
  <2>1. (IF Reaches(handle, range) THEN "record" ELSE "crashed") \in {"record", "crashed"}
    OBVIOUS
  <2> DEFINE to == IF Reaches(handle, range) THEN "record" ELSE "crashed"
  <2>2. Advance("source", to)
    BY DEF Put
  <2> HIDE DEF to
  <2>3. to \in {"record", "crashed"} /\ to \in Stages
    BY <2>1 DEF to, Stages
  <2> QED
    BY <2>2, <2>3, OneAdvances DEF Parties
<1>2. stream' \in Seq({"put", "event"})
  BY <1>0, AppendProperties DEF RangeTypeOK
<1>3. RangeTypeOK' /\ StageInv'
  <2>1. stores' \in BOOLEAN
    BY <1>0
  <2> QED
    BY <1>0, <1>1, <1>2, <2>1, UnchangedGuard DEF RangeTypeOK, StageInv
<1>4. Inside("source") /\ Inside("source")'
  BY <1>0, UnchangedGuard DEF Inside, Parties
<1>5. StreamInv'
  <2>1. OnStream => OnDevice
    BY DEF OnStream, OnDevice
  <2>2. ~OnStream => Queued' = Queued
    BY <1>0 DEF Queued
  <2> QED
    BY <1>0, <1>1, <2>1, <2>2, UnchangedGuard DEF StreamInv
<1>6. PutInv'
  <2>1. ~InRange("target")'
    BY <1>0, <1>1, <1>4, Excluded, UnchangedGuard DEF InRange
  <2> QED
    BY <1>4, <2>1 DEF PutInv
<1> QED
  BY <1>0, <1>3, <1>5, <1>6, UnchangedGuard

LEMMA RecordInv ==
  ASSUME RangeInv, Record  PROVE RangeInv'
<1> USE DEF RangeInv
<1>0. GuardUnchanged /\ pc["source"] = "epoch" /\ stage["source"] = "record" /\ stores' = stores
      /\ stream' = (IF OnDevice THEN Append(stream, "event") ELSE stream)
  BY DEF Record, GuardUnchanged
<1>1. stage' \in [Parties -> Stages] /\ stage'["source"] = "end" /\ stage'["target"] = stage["target"]
  BY OneAdvances DEF Record, Parties, Stages
<1>2. stream' \in Seq({"put", "event"})
  BY <1>0, AppendProperties DEF RangeTypeOK
<1>3. RangeTypeOK' /\ StageInv'
  BY <1>0, <1>1, <1>2, UnchangedGuard DEF RangeTypeOK, StageInv
<1>4. Inside("source") /\ Inside("source")'
  BY <1>0, UnchangedGuard DEF Inside, Parties
<1>5. StreamInv'
  <2>1. CASE OnDevice
    <3>1. stream \in Seq({"put", "event"})
      BY DEF RangeTypeOK
    <3>2. stream'[Len(stream')] = "event"
      BY <1>0, <2>1, <3>1, AppendProperties
    <3> QED
      BY <1>0, <2>1, <3>2, UnchangedGuard DEF StreamInv
  <2>2. CASE ~OnDevice
    BY <1>0, <2>2 DEF StreamInv, Queued
  <2> QED
    BY <2>1, <2>2
<1>6. PutInv'
  <2>1. ~InRange("target")'
    BY <1>0, <1>1, <1>4, Excluded, UnchangedGuard DEF InRange
  <2> QED
    BY <1>4, <2>1 DEF PutInv
<1> QED
  BY <1>0, <1>3, <1>5, <1>6, UnchangedGuard

LEMMA AwaitEventInv ==
  ASSUME RangeInv, AwaitEvent  PROVE RangeInv' /\ ~PutPending /\ m_mode = "local"
<1> USE DEF RangeInv
<1>0. GuardUnchanged /\ pc["target"] = "epoch" /\ stream' = stream /\ stores' = stores
      /\ Queued' = Queued /\ PutPending' = PutPending
  BY DEF AwaitEvent, GuardUnchanged, Queued, PutPending
<1>1. stage' \in [Parties -> Stages] /\ stage'["target"] = "in" /\ stage'["source"] = stage["source"]
  BY OneAdvances DEF AwaitEvent, Parties, Stages
<1>2. m_mode = "local" /\ ~Inside("source")
  <2>1. m_mode = "local"
    BY <1>0 DEF ModeInv, Inside, OwnMode, Parties
  <2> QED
    BY <2>1, Excluded
<1>3. ~PutPending
  <2>1. ~stores
    BY <1>2 DEF PutInv
  <2>2. ~Queued
    <3> SUFFICES ASSUME Queued  PROVE FALSE
      OBVIOUS
    <3>1. stage["source"] \notin {"record", "crashed"}
      BY <1>2 DEF StageInv, Inside
    <3>2. stream[Len(stream)] = "event"
      BY <3>1 DEF StreamInv
    <3>3. Len(stream) \in DOMAIN stream
      BY DEF Queued, RangeTypeOK
    <3> QED
      BY <3>2, <3>3 DEF AwaitEvent
  <2> QED
    BY <2>1, <2>2, PendingIsQueued
<1>4. RangeTypeOK' /\ StageInv'
  BY <1>0, <1>1, UnchangedGuard DEF RangeTypeOK, StageInv
<1>5. StreamInv'
  BY <1>0, <1>1, UnchangedGuard DEF StreamInv
<1>6. PutInv'
  BY <1>0, <1>2, <1>3, UnchangedGuard DEF PutInv, PutPending
<1> QED
  BY <1>0, <1>2, <1>3, <1>4, <1>5, <1>6, UnchangedGuard

LEMMA DestroyInv ==
  ASSUME RangeInv, DestroyRange
  PROVE  RangeInv' /\ InRange("target") /\ InRange("target")' /\ m_mode' = m_mode
         /\ PutPending' = PutPending
<1> USE DEF RangeInv
<1>0. /\ range' = range /\ stream' = stream /\ stores' = stores /\ stage' = stage
      /\ m_mode' = m_mode /\ last' = last /\ alive' = FALSE
      /\ Queued' = Queued /\ OnDevice' = OnDevice /\ PutPending' = PutPending
      /\ pc["target"] = "epoch" /\ stage["target"] = "in" /\ pc' = [pc EXCEPT !["target"] = "over"]
  BY DEF DestroyRange, Destroy, Goto, rvars, Queued, OnDevice, PutPending
<1>1. RangeTypeOK' /\ StageInv'
  <2>1. pc' \in [Parties -> PCs]
    BY <1>0 DEF RangeTypeOK, PCs
  <2> QED
    BY <1>0, <2>1 DEF RangeTypeOK, StageInv, Parties
<1>2. InRange("target") /\ InRange("target")' /\ Inside("target")
  BY <1>0 DEF InRange, Inside
<1>3. Inside("source")' <=> Inside("source")
  BY <1>0 DEF RangeTypeOK, Inside, Parties
<1>4. ModeInv'
  BY <1>0, <1>2, <1>3 DEF ModeInv, OwnMode, Parties
<1>5. StreamInv'
  BY <1>0 DEF StreamInv
<1>6. PutInv'
  BY <1>0, <1>2, <1>3 DEF PutInv
<1> QED
  BY <1>0, <1>1, <1>2, <1>4, <1>5, <1>6

LEMMA ExecuteInv ==
  ASSUME RangeInv, Execute
  PROVE  RangeInv' /\ GuardUnchanged /\ stage' = stage /\ (PutPending' => PutPending)
<1> USE DEF RangeInv
<1>0. GuardUnchanged /\ stage' = stage /\ stores' = stores /\ stream # <<>> /\ stream' = Tail(stream)
  BY DEF Execute, GuardUnchanged
<1>1. /\ stream' \in Seq({"put", "event"}) /\ Len(stream') = Len(stream) - 1
      /\ \A i \in 1 .. Len(stream') : stream'[i] = stream[i + 1]
  BY <1>0, HeadTailProperties DEF RangeTypeOK
<1>2. Queued' => Queued /\ stream'[Len(stream')] = stream[Len(stream)]
  <2>1. Len(stream) \in Nat /\ Len(stream') \in Nat
    BY <1>1 DEF RangeTypeOK
  <2> SUFFICES ASSUME NEW k \in 1 .. Len(stream'), stream'[k] = "put"
               PROVE  Queued /\ stream'[Len(stream')] = stream[Len(stream)]
    BY DEF Queued
  <2>2. k + 1 \in 1 .. Len(stream) /\ stream[k + 1] = "put"
    BY <1>1, <2>1
  <2>3. stream'[Len(stream')] = stream[Len(stream') + 1] /\ Len(stream') + 1 = Len(stream)
    BY <1>1, <2>1
  <2> QED
    BY <2>2, <2>3 DEF Queued
<1>3. RangeTypeOK' /\ StageInv'
  BY <1>0, <1>1, UnchangedGuard DEF RangeTypeOK, StageInv
<1>4. PutPending' => PutPending
  <2>1. PutPending' <=> stores' \/ Queued'
    <3>1. DOMAIN stream' = 1 .. Len(stream')
      BY <1>1
    <3> QED
      BY <3>1 DEF PutPending, Queued
  <2> QED
    BY <1>0, <1>2, <2>1, PendingIsQueued
<1>5. StreamInv'
  BY <1>0, <1>2, UnchangedGuard DEF StreamInv
<1>6. PutInv'
  BY <1>0, <1>4, UnchangedGuard DEF PutInv, InRange, Parties
<1> QED
  BY <1>0, <1>3, <1>4, <1>5, <1>6, UnchangedGuard

LEMMA VisibleInv ==
  ASSUME RangeInv, Visible
  PROVE  RangeInv' /\ GuardUnchanged /\ stage' = stage /\ (PutPending' => PutPending)
<1> USE DEF RangeInv
<1>0. GuardUnchanged /\ stage' = stage /\ stream' = stream /\ stores' = FALSE
  BY DEF Visible, GuardUnchanged
<1>1. Queued' = Queued /\ (PutPending' => PutPending)
  BY <1>0 DEF Queued, PutPending
<1>2. RangeTypeOK' /\ StageInv' /\ StreamInv'
  <2>1. RangeTypeOK'
    BY <1>0, UnchangedGuard DEF RangeTypeOK
  <2>2. StageInv'
    BY <1>0, UnchangedGuard DEF StageInv
  <2>3. StreamInv'
    BY <1>0, <1>1, UnchangedGuard DEF StreamInv
  <2> QED
    BY <2>1, <2>2, <2>3
<1>3. PutInv'
  BY <1>0, <1>1, UnchangedGuard DEF PutInv, InRange, Parties
<1> QED
  BY <1>0, <1>1, <1>2, <1>3, UnchangedGuard

LEMMA StutterInv ==
  ASSUME RangeInv, UNCHANGED rangevars  PROVE RangeInv'
BY DEF rangevars, vars, rvars, RangeInv, RangeTypeOK, StageInv, ModeInv, StreamInv, PutInv,
       Inside, InRange, OwnMode, Queued, OnDevice, PutPending

LEMMA RangeStepInv ==
  ASSUME \A r \in Ranges : r.guard = "byte" => r.ordered
  PROVE  RangeInv /\ [RangeNext]_rangevars => RangeInv'
<1> SUFFICES ASSUME RangeInv, [RangeNext]_rangevars  PROVE RangeInv'
  OBVIOUS
<1>1. ASSUME NEW p \in Parties,
             RangeStep(p) \/ (range.guard = "mutex" /\ SpuriousWakeup(p) /\ UNCHANGED rvars)
      PROVE  RangeInv'
  <2>1. CASE EndEpoch(p)
    BY <2>1, EndEpochInv
  <2>2. CASE p = "source" /\ (Deserialize \/ Put \/ Record)
    BY <2>2, DeserializeInv, PutInvariant, RecordInv
  <2>3. CASE p = "target" /\ (AwaitEvent \/ DestroyRange)
    BY <2>3, AwaitEventInv, DestroyInv
  <2>4. CASE \/ (Call(p) \/ SpuriousWakeup(p)) /\ UNCHANGED rvars
             \/ MutexStep(p) \/ ByteStep(p)
    BY <2>4, GuardSteps, GuardStepInv DEF RangeInv
  <2> QED
    BY <1>1, <2>1, <2>2, <2>3, <2>4 DEF RangeStep
<1>2. RangeFinished \/ UNCHANGED rangevars => RangeInv'
  BY StutterInv DEF RangeFinished, Finished, rangevars
<1> QED
  BY <1>1, <1>2, ExecuteInv, VisibleInv DEF RangeNext

(***************************************************************************)
(* A put is over before the owner is in the halo, with mutex guards on any *)
(* memory and with byte guards where stores become visible in order: no    *)
(* part of it is in flight but in the source's epoch, or with the owner    *)
(* waiting for the event (rma/range.hpp, rma/event.hpp:33-35).             *)
(***************************************************************************)
THEOREM RangeInvariant ==
  ASSUME \A r \in Ranges : r.guard = "byte" => r.ordered  PROVE RangeSpec => []RangeInv
BY RangeInitInv, RangeStepInv, PTL DEF RangeSpec, rangevars

-----------------------------------------------------------------------------
\* Nobody sleeps but on a mutex, and not while the mode is its own, unless it
\* is about to be woken up.
WakeInv ==
  /\ pc \in [Parties -> PCs]
  /\ \A p \in Parties :
       pc[p] \in {"try_test", "wait_test", "asleep", "end_set", "notify"} => range.guard = "mutex"
  /\ NoLostWakeup

LEMMA MutexWakeInv ==
  ASSUME WakeInv, NEW p \in Parties, range.guard = "mutex", range' = range,
         \/ Lock(p) \/ TryTest(p) \/ WaitTest(p) \/ Notify(p) \/ EndSet(p) \/ SpuriousWakeup(p)
  PROVE  WakeInv'
<1>1. pc' \in [Parties -> PCs]
  <2>1. CASE Lock(p)
    BY <2>1 DEF WakeInv, Lock, Goto, PCs
  <2>2. CASE TryTest(p) \/ WaitTest(p) \/ Notify(p) \/ EndSet(p) \/ SpuriousWakeup(p)
    BY <2>2 DEF WakeInv, TryTest, WaitTest, Notify, EndSet, SpuriousWakeup, Goto, PCs, Parties, Other
  <2> QED
    BY <2>1, <2>2
<1>2. NoLostWakeup'
  <2>1. CASE Lock(p)
    <3>1. /\ m_mode' = m_mode /\ pc[p] \in {"try_lock", "wait_lock", "end_lock"}
          /\ pc'[p] \in {"try_test", "wait_test", "end_set"}
          /\ \A q \in Parties \ {p} : pc'[q] = pc[q]
      BY <2>1 DEF WakeInv, Lock, Goto
    <3> QED
      BY <3>1 DEF WakeInv, NoLostWakeup, OwnMode, Other, Parties
  <2>2. CASE TryTest(p) \/ WaitTest(p) \/ Notify(p) \/ EndSet(p) \/ SpuriousWakeup(p)
    BY <2>2 DEF WakeInv, NoLostWakeup, TryTest, WaitTest, Notify, EndSet, SpuriousWakeup, Goto,
                OwnMode, Other, Parties
  <2> QED
    BY <2>1, <2>2
<1> QED
  BY <1>1, <1>2 DEF WakeInv

LEMMA ByteWakeInv ==
  ASSUME WakeInv, NEW p \in Parties, ByteStep(p)  PROVE WakeInv'
<1>1. range' = range /\ range.guard # "mutex"
  BY DEF ByteStep, rvars
<1>2. \A q \in Parties : pc[q] \notin {"try_test", "wait_test", "asleep", "end_set", "notify"}
  BY <1>1 DEF WakeInv
<1>3. pc' \in [Parties -> PCs]
  BY DEF WakeInv, ByteStep, PollTry, PollWait, StoreMode, Goto, PCs
<1>4. \A q \in Parties : pc'[q] \notin {"try_test", "wait_test", "asleep", "end_set", "notify"}
  BY <1>2 DEF WakeInv, ByteStep, PollTry, PollWait, StoreMode, Goto
<1> QED
  BY <1>3, <1>4 DEF WakeInv, NoLostWakeup

LEMMA CallWakeInv ==
  ASSUME WakeInv, NEW p \in Parties, Call(p) \/ End(p) \/ (p = "target" /\ Destroy), range' = range
  PROVE  WakeInv'
<1>1. /\ m_mode' = m_mode /\ pc[p] \in {"outside", "epoch"}
      /\ pc'[p] \in {"try_lock", "wait_lock", "end_lock", "over"}
      /\ \A q \in Parties \ {p} : pc'[q] = pc[q]
      /\ pc' \in [Parties -> PCs]
  BY DEF WakeInv, Call, End, Destroy, Goto, PCs
<1> QED
  BY <1>1 DEF WakeInv, NoLostWakeup, OwnMode, Other, Parties

(***************************************************************************)
(* On every range, a party that sleeps while the mode is its own is about  *)
(* to be woken up (thread/access_guard.hpp:79-87, 118-125).                *)
(***************************************************************************)
THEOREM RangeNoLostWakeup == RangeSpec => []NoLostWakeup
<1>1. RangeInit => WakeInv
  BY DEF RangeInit, Init, WakeInv, NoLostWakeup, Parties, PCs
<1>2. WakeInv /\ [RangeNext]_rangevars => WakeInv'
  <2> SUFFICES ASSUME WakeInv, [RangeNext]_rangevars  PROVE WakeInv'
    OBVIOUS
  <2>1. ASSUME NEW p \in Parties,
               RangeStep(p) \/ (range.guard = "mutex" /\ SpuriousWakeup(p) /\ UNCHANGED rvars)
        PROVE  WakeInv'
    <3>1. CASE \/ Call(p) /\ UNCHANGED rvars
               \/ EndEpoch(p)
               \/ p = "target" /\ DestroyRange
      BY <3>1, CallWakeInv DEF EndEpoch, DestroyRange, rvars
    <3>2. CASE MutexStep(p) \/ (range.guard = "mutex" /\ SpuriousWakeup(p) /\ UNCHANGED rvars)
      BY <3>2, MutexWakeInv DEF MutexStep, rvars
    <3>3. CASE ByteStep(p)
      BY <3>3, ByteWakeInv
    <3>4. CASE Deserialize \/ Put \/ Record \/ AwaitEvent
      BY <3>4 DEF Deserialize, Put, Record, AwaitEvent, vars, WakeInv, NoLostWakeup, OwnMode
    <3> QED
      BY <2>1, <3>1, <3>2, <3>3, <3>4 DEF RangeStep
  <2>2. Execute \/ Visible \/ RangeFinished \/ UNCHANGED rangevars => WakeInv'
    BY DEF Execute, Visible, RangeFinished, Finished, rangevars, vars, rvars, WakeInv, NoLostWakeup, OwnMode
  <2> QED
    BY <2>1, <2>2 DEF RangeNext
<1>3. WakeInv => NoLostWakeup
  BY DEF WakeInv
<1> QED
  BY <1>1, <1>2, <1>3, PTL DEF RangeSpec, rangevars

-----------------------------------------------------------------------------
\* The state of AccessEpochs that a state of a range implements.
Turn == IF m_mode = "local" /\ ~PutPending THEN "target" ELSE "source"
Who == IF InRange("target") THEN "target" ELSE IF InRange("source") THEN "source" ELSE "nobody"

LEMMA EpochSteps ==
  ASSUME \/ Who' = Who /\ Turn' = Turn
         \/ \E p \in Parties : \/ Turn = p /\ Who = "nobody" /\ Who' = p /\ Turn' = Turn
                               \/ Who = p /\ Who' = "nobody" /\ Turn' = Other(p)
  PROVE  [Epochs!Next]_(Epochs!vars)
BY DEF Turn, Who, Epochs!Next, Epochs!Start, Epochs!End, Epochs!vars, Epochs!Other, Parties, Other

LEMMA WhereInside ==
  ASSUME RangeInv
  PROVE  /\ m_mode \in {"local", "remote"}
         /\ InRange("target") => m_mode = "local" /\ ~PutPending /\ ~Inside("source")
         /\ Inside("source") => m_mode = "remote"
         /\ PutPending /\ m_mode = "remote" => Inside("source")
         /\ InRange("source") <=> Inside("source") \/ PutPending
<1>1. InRange("target") => Inside("target")
  BY DEF InRange, Inside
<1>2. Inside("target") => m_mode = "local"
  BY DEF RangeInv, ModeInv, Parties, OwnMode
<1>3. InRange("source") <=> Inside("source") \/ PutPending
  BY DEF InRange
<1> QED
  BY <1>1, <1>2, <1>3, Excluded DEF RangeInv, RangeTypeOK, PutInv

\* What a step of the guard changes.
LEMMA GuardMoves ==
  ASSUME RangeInv, NEW p \in Parties, GuardStep(p)
  PROVE  /\ PutPending' = PutPending
         /\ \/ /\ m_mode' = m_mode
               /\ InRange("target")' <=> InRange("target")
               /\ Inside("source")' <=> Inside("source")
            \/ /\ m_mode' = "remote" /\ InRange("target") /\ ~InRange("target")'
               /\ Inside("source")' <=> Inside("source")
            \/ /\ m_mode' = "local" /\ Inside("source") /\ ~Inside("source")' /\ ~InRange("target")'
            \/ /\ m_mode = "remote" /\ m_mode' = "remote" /\ ~Inside("source") /\ Inside("source")'
               /\ ~InRange("target")'
<1>1. /\ stage' = stage /\ PutPending' = PutPending
      /\ alive' = alive /\ m_mode' \in {"local", "remote"}
  BY DEF RangeInv, RangeTypeOK, GuardStep, rvars, PutPending, Call, TryTest, WaitTest, Notify, Lock,
         SpuriousWakeup, EndSet, PollTry, PollWait, StoreMode, OwnMode, Other
<1>2. CASE p = "target"
  <2>1. Inside("source")' <=> Inside("source")
    BY <1>2 DEF RangeInv, RangeTypeOK, Inside, GuardStep, Call, TryTest, WaitTest, Notify, Lock,
                SpuriousWakeup, EndSet, PollTry, PollWait, StoreMode, Goto, Parties, Other
  <2>2. \/ m_mode' = m_mode /\ (InRange("target")' <=> InRange("target"))
        \/ m_mode' = "remote" /\ InRange("target") /\ ~InRange("target")'
    BY <1>1, <1>2 DEF RangeInv, RangeTypeOK, StageInv, InRange, GuardStep, Call, TryTest, WaitTest,
                      Notify, Lock, SpuriousWakeup, EndSet, PollTry, PollWait, StoreMode, Goto,
                      Parties, Other, OwnMode, Finishes
  <2> QED
    BY <1>1, <2>1, <2>2
<1>3. CASE p = "source"
  <2>1. InRange("target")' <=> InRange("target")
    BY <1>1, <1>3 DEF RangeInv, RangeTypeOK, StageInv, InRange, GuardStep, Call, TryTest, WaitTest,
                      Notify, Lock, SpuriousWakeup, EndSet, PollTry, PollWait, StoreMode, Goto,
                      Parties, Other
  <2>2. \/ m_mode' = m_mode /\ (Inside("source")' <=> Inside("source"))
        \/ m_mode' = "local" /\ Inside("source") /\ ~Inside("source")'
        \/ m_mode = "remote" /\ m_mode' = "remote" /\ ~Inside("source") /\ Inside("source")'
    BY <1>1, <1>3 DEF RangeInv, RangeTypeOK, Inside, GuardStep, Call, TryTest, WaitTest,
                      Notify, Lock, SpuriousWakeup, EndSet, PollTry, PollWait, StoreMode, Goto,
                      Parties, Other, OwnMode, Finishes
  <2> QED
    BY <1>1, <2>1, <2>2, WhereInside
<1> QED
  BY <1>2, <1>3 DEF Parties

LEMMA GuardImplements ==
  ASSUME RangeInv, NEW p \in Parties, GuardStep(p)  PROVE [Epochs!Next]_(Epochs!vars)
<1>1. CASE /\ m_mode' = m_mode
           /\ InRange("target")' <=> InRange("target")
           /\ Inside("source")' <=> Inside("source")
  <2>1. InRange("source")' <=> InRange("source")
    BY <1>1, GuardMoves DEF InRange
  <2> QED
    BY <1>1, <2>1, GuardMoves, EpochSteps DEF Turn, Who
<1>2. CASE /\ m_mode' = "remote" /\ InRange("target") /\ ~InRange("target")'
           /\ Inside("source")' <=> Inside("source")
  <2>1. Who = "target" /\ Who' = "nobody" /\ Turn' = "source"
    BY <1>2, GuardMoves, WhereInside DEF Turn, Who, InRange
  <2> QED
    BY <2>1, EpochSteps DEF Parties, Other
<1>3. CASE m_mode' = "local" /\ Inside("source") /\ ~Inside("source")' /\ ~InRange("target")'
  <2>1. Who = "source" /\ Turn = "source"
    BY <1>3, WhereInside DEF Turn, Who
  <2>2. CASE PutPending
    <3>1. Who' = "source" /\ Turn' = "source"
      BY <1>3, <2>2, GuardMoves DEF Turn, Who, InRange
    <3> QED
      BY <2>1, <3>1, EpochSteps
  <2>3. CASE ~PutPending
    <3>1. Who' = "nobody" /\ Turn' = "target"
      BY <1>3, <2>3, GuardMoves DEF Turn, Who, InRange
    <3> QED
      BY <2>1, <3>1, EpochSteps DEF Parties, Other
  <2> QED
    BY <2>2, <2>3
<1>4. CASE /\ m_mode = "remote" /\ m_mode' = "remote" /\ ~Inside("source") /\ Inside("source")'
           /\ ~InRange("target")'
  <2>1. ~InRange("target") /\ ~InRange("source")
    BY <1>4, WhereInside
  <2>2. Who = "nobody" /\ Turn = "source" /\ Who' = "source" /\ Turn' = "source"
    BY <1>4, <2>1 DEF Turn, Who, InRange
  <2> QED
    BY <2>2, EpochSteps DEF Parties
<1> QED
  BY <1>1, <1>2, <1>3, <1>4, GuardMoves

\* The device and the memory end the source's epoch, if the mode has changed before.
LEMMA LateEnd ==
  ASSUME RangeInv, GuardUnchanged, stage' = stage, PutPending' => PutPending
  PROVE  [Epochs!Next]_(Epochs!vars)
<1>1. /\ m_mode' = m_mode
      /\ InRange("target")' <=> InRange("target")
      /\ Inside("source")' <=> Inside("source")
  BY UnchangedGuard DEF InRange, Parties
<1>2. InRange("source")' <=> Inside("source")' \/ PutPending'
  BY DEF InRange
<1>3. CASE PutPending' <=> PutPending
  BY <1>1, <1>2, <1>3, WhereInside, EpochSteps DEF Turn, Who
<1>4. CASE PutPending /\ ~PutPending' /\ Inside("source")
  BY <1>1, <1>2, <1>4, WhereInside, EpochSteps DEF Turn, Who
<1>5. CASE PutPending /\ ~PutPending' /\ ~Inside("source")
  <2>1. Who = "source" /\ Who' = "nobody" /\ Turn' = "target"
    BY <1>1, <1>2, <1>5, WhereInside DEF Turn, Who
  <2> QED
    BY <2>1, EpochSteps DEF Parties, Other
<1> QED
  BY <1>3, <1>4, <1>5

\* Within the source's epoch nothing can be seen of what it does.
LEMMA SourceSteps ==
  ASSUME RangeInv, pc["source"] = "epoch", GuardUnchanged
  PROVE  [Epochs!Next]_(Epochs!vars)
<1>1. Inside("source") /\ Inside("source")'
  BY UnchangedGuard DEF Inside, Parties
<1>2. /\ m_mode = "remote" /\ ~InRange("target") /\ InRange("source")
      /\ m_mode' = "remote" /\ ~InRange("target")' /\ InRange("source")'
  <2>1. m_mode = "remote" /\ m_mode' = "remote" /\ ~Inside("target")
    BY <1>1, Excluded, UnchangedGuard DEF RangeInv, ModeInv, Parties, OwnMode
  <2>2. ~Inside("target")'
    BY <2>1, UnchangedGuard DEF Parties
  <2> QED
    BY <1>1, <2>1, <2>2 DEF InRange, Inside
<1>3. Who = "source" /\ Turn = "source" /\ Who' = "source" /\ Turn' = "source"
  BY <1>2 DEF Turn, Who
<1> QED
  BY <1>3, EpochSteps

LEMMA AwaitEventStarts ==
  ASSUME RangeInv, AwaitEvent  PROVE [Epochs!Next]_(Epochs!vars)
<1>1. GuardUnchanged /\ PutPending' = PutPending /\ pc["target"] = "epoch" /\ stage["target"] = "event"
      /\ stage'["target"] = "in"
  BY DEF AwaitEvent, GuardUnchanged, PutPending, Advance, RangeInv, RangeTypeOK, Parties
<1>2. ~InRange("target") /\ InRange("target")'
  BY <1>1, UnchangedGuard DEF RangeInv, StageInv, InRange
<1>3. m_mode = "local" /\ m_mode' = "local" /\ ~PutPending /\ ~InRange("source")
  BY <1>1, AwaitEventInv, UnchangedGuard, WhereInside
<1>4. Who = "nobody" /\ Turn = "target" /\ Who' = "target" /\ Turn' = "target"
  BY <1>1, <1>2, <1>3 DEF Turn, Who
<1> QED
  BY <1>4, EpochSteps DEF Parties

LEMMA EndEpochStutters ==
  ASSUME RangeInv, NEW p \in Parties, EndEpoch(p)  PROVE [Epochs!Next]_(Epochs!vars)
<1>1. /\ m_mode' = m_mode /\ alive' = alive /\ PutPending' = PutPending
      /\ pc[p] = "epoch" /\ pc' = [pc EXCEPT ![p] = "end_lock"]
      /\ stage[p] = (IF p = "target" THEN "in" ELSE "end")
      /\ stage' = [stage EXCEPT ![p] = IF p = "target" THEN "event" ELSE "put"]
  BY DEF EndEpoch, End, Goto, Advance, PutPending
<1>2. Inside("source")' <=> Inside("source")
  BY <1>1 DEF RangeInv, RangeTypeOK, Inside, Parties
<1>3. InRange("target")' <=> InRange("target")
  BY <1>1 DEF RangeInv, RangeTypeOK, InRange, Parties
<1>4. InRange("source")' <=> InRange("source")
  BY <1>1, <1>2 DEF InRange
<1> QED
  BY <1>1, <1>3, <1>4, EpochSteps DEF Turn, Who

(***************************************************************************)
(* A range implements the epochs of AccessEpochs, on the same assumption   *)
(* as RangeInvariant: the turn passes to the owner when the guard's mode   *)
(* has changed and the put is over, whichever comes later                  *)
(* (structured/rma_range_generator.hpp:82-104, 159-173).                    *)
(***************************************************************************)
THEOREM RangeRefines ==
  ASSUME \A r \in Ranges : r.guard = "byte" => r.ordered
  PROVE  RangeSpec => Epochs!Init /\ [][Epochs!Next]_(Epochs!vars)
<1>1. RangeInit => Epochs!Init
  <2> SUFFICES ASSUME RangeInit  PROVE Epochs!Init
    OBVIOUS
  <2>1. m_mode = "remote" /\ pc = [target |-> "outside", source |-> "epoch"] /\ alive = TRUE
    BY DEF RangeInit, Init
  <2>2. ~InRange("target") /\ InRange("source")
    BY <2>1 DEF InRange, Inside
  <2> QED
    BY <2>1, <2>2 DEF Epochs!Init
<1>2. RangeInv /\ [RangeNext]_rangevars => [Epochs!Next]_(Epochs!vars)
  <2> SUFFICES ASSUME RangeInv, [RangeNext]_rangevars  PROVE [Epochs!Next]_(Epochs!vars)
    OBVIOUS
  <2>1. ASSUME NEW p \in Parties,
               RangeStep(p) \/ (range.guard = "mutex" /\ SpuriousWakeup(p) /\ UNCHANGED rvars)
        PROVE  [Epochs!Next]_(Epochs!vars)
    <3>1. CASE EndEpoch(p)
      BY <3>1, EndEpochStutters
    <3>2. CASE Deserialize \/ Put \/ Record
      BY <3>2, SourceSteps DEF Deserialize, Put, Record, GuardUnchanged
    <3>3. CASE AwaitEvent
      BY <3>3, AwaitEventStarts
    <3>4. CASE DestroyRange
      BY <3>4, DestroyInv, EpochSteps DEF Turn, Who
    <3>5. CASE \/ (Call(p) \/ SpuriousWakeup(p)) /\ UNCHANGED rvars
             \/ MutexStep(p) \/ ByteStep(p)
      BY <3>5, GuardSteps, GuardImplements DEF RangeInv
    <3> QED
      BY <2>1, <3>1, <3>2, <3>3, <3>4, <3>5 DEF RangeStep
  <2>2. CASE Execute \/ Visible
    BY <2>2, ExecuteInv, VisibleInv, LateEnd
  <2>3. CASE RangeFinished \/ UNCHANGED rangevars
    <3>1. GuardUnchanged /\ stage' = stage /\ stream' = stream /\ stores' = stores
      BY <2>3 DEF RangeFinished, Finished, rangevars, rvars, GuardUnchanged, vars
    <3> QED
      BY <3>1, LateEnd DEF PutPending
  <2> QED
    BY <2>1, <2>2, <2>3 DEF RangeNext
<1> QED
  BY <1>1, <1>2, RangeInvariant, PTL DEF RangeSpec, rangevars
=============================================================================
