------------------------ MODULE EventPipelineProofs ------------------------
(***************************************************************************)
(* Proofs about EventPipeline for any number of CPUs, attempts, nested     *)
(* producers, losses and ring slots.                                       *)
(***************************************************************************)
EXTENDS EventPipeline, SequenceTheorems, FiniteSetTheorems, TLAPS

(***************************************************************************)
(* The producers' stacks.                                                  *)
(***************************************************************************)
\* The producer that runs on a busy CPU is a producer.
LEMMA TopType ==
  ASSUME stack \in [CPUs -> Seq(Producers)], NEW c \in CPUs, ~Idle(c)
  PROVE  /\ Len(stack[c]) \in 1 .. Len(stack[c])
         /\ Top(c) \in Producers
  BY DEF Idle, Top

\* Advancing the running producer keeps the stacks well formed.
LEMMA UpdateType ==
  ASSUME stack \in [CPUs -> Seq(Producers)], NEW c \in CPUs, ~Idle(c),
         NEW producer \in Producers, Update(c, producer)
  PROVE  stack' \in [CPUs -> Seq(Producers)]
  BY DEF Idle, Update

\* So does its return.
LEMMA PopType ==
  ASSUME stack \in [CPUs -> Seq(Producers)], NEW c \in CPUs, ~Idle(c), Pop(c)
  PROVE  stack' \in [CPUs -> Seq(Producers)]
  <1>1. SubSeq(stack[c], 1, Len(stack[c]) - 1) \in Seq(Producers)
    BY DEF Idle
  <1> QED
    BY <1>1 DEF Pop

\* Numbers stay in the counter's range.
LEMMA SeqArithmetic ==
  /\ SeqModulus \in Nat \ {0, 1}
  /\ 0 \in SeqNumbers
  /\ \A n \in SeqNumbers : SeqSucc(n) \in SeqNumbers
  /\ \A a, b \in SeqNumbers : SeqMinus(a, b) \in SeqNumbers
  BY ForwardLimitAssumption DEF SeqModulus, SeqNumbers, SeqSucc, SeqMinus

(***************************************************************************)
(* Type correctness of the producers.                                      *)
(***************************************************************************)
\* The producers' initial state is well typed.
LEMMA ProducerInitType == ProducerInit => ProducerTypeOK
  <1> SUFFICES ASSUME ProducerInit PROVE ProducerTypeOK
    OBVIOUS
  <1>1. stack \in [CPUs -> Seq(Producers)] /\ ring \in Seq(Slots)
    BY DEF ProducerInit
  <1>2. /\ eventSeq \in [CPUs -> SeqNumbers]
        /\ attempts \in [CPUs -> Nat]
        /\ lossEpoch \in Nat
        /\ failures \in [CPUs -> [FailureKinds -> Nat]]
    BY SeqArithmetic DEF ProducerInit
  <1>3. lossTime \in BOOLEAN /\ statTime \in [CPUs -> BOOLEAN]
    BY DEF ProducerInit
  <1> QED
    BY <1>1, <1>2, <1>3 DEF ProducerTypeOK

\* One step of a producer, a new producer or a failed state update keeps the
\* producers' types.
LEMMA ProducerNextType ==
  ASSUME ProducerTypeOK, ProducerNext
  PROVE  ProducerTypeOK'
  <1> USE DEF ProducerTypeOK
  <1>1. ASSUME NEW c \in CPUs, NEW body \in Bodies, NextEventSequence(c, body)
        PROVE  ProducerTypeOK'
    <2>1. [pc |-> "reserve", ret |-> "return", kind |-> "reserve", reg |-> 0,
           attempt |-> attempts[c] + 1, seq |-> SeqSucc(eventSeq[c]),
           body |-> body, epoch |-> 0, time |-> FALSE, after |-> lossTime]
             \in Producers
      BY SeqArithmetic DEF Producers, ProducerPCs, FailureKinds
    <2> QED
      BY <1>1, <2>1, SeqArithmetic DEF NextEventSequence
  <1>2. ASSUME NEW c \in CPUs, StateUpdateFail(c)
        PROVE  ProducerTypeOK'
    <2>1. [pc |-> "stamp", ret |-> "return", kind |-> "state", reg |-> 0,
           attempt |-> 0, seq |-> 0, body |-> CHOOSE b \in Bodies : TRUE,
           epoch |-> 0, time |-> FALSE, after |-> FALSE] \in Producers
      BY <1>2, SeqArithmetic DEF StateUpdateFail, Producers, ProducerPCs, FailureKinds
    <2> QED
      BY <1>2, <2>1 DEF StateUpdateFail
  <1>3. ASSUME NEW c \in CPUs, ProducerStep(c)
        PROVE  ProducerTypeOK'
    <2>1. ~Idle(c) /\ Top(c) \in Producers
      BY <1>3, TopType
         DEF ProducerStep, ReserveRecord, ReserveFail, CapturePayload, CaptureLossEpoch,
             CaptureLossTime, SubmitRecord, SubmitFail, DiscardRecord, StampCPULoss,
             StampGlobalLoss, BumpLossEpoch, LoadFailureCount, StoreFailureCount, At
    <2>2. ASSUME NEW pc \in ProducerPCs, Goto(c, pc)
          PROVE  stack' \in [CPUs -> Seq(Producers)]
      <3>1. [Top(c) EXCEPT !.pc = pc] \in Producers
        BY <2>1 DEF Producers
      <3> QED
        BY <2>1, <2>2, <3>1, UpdateType DEF Goto
    <2>3. ASSUME NEW kind \in FailureKinds, NEW ret \in {"epoch", "discard", "return"},
                 Fail(c, kind, ret)
          PROVE  stack' \in [CPUs -> Seq(Producers)]
      <3>1. [Top(c) EXCEPT !.pc = "stamp", !.kind = kind, !.ret = ret] \in Producers
        BY <2>1 DEF Producers, ProducerPCs
      <3> QED
        BY <2>1, <2>3, <3>1, UpdateType DEF Fail
    <2>4. CASE ReserveRecord(c)
      <3>1. [cpu |-> c, attempt |-> Top(c).attempt, seq |-> Top(c).seq,
             body |-> Top(c).body, state |-> "busy", epoch |-> 0, time |-> FALSE,
             after |-> FALSE] \in Slots
        BY <2>1 DEF Slots, SlotStates, Producers
      <3> QED
        BY <2>2, <2>4, <3>1 DEF ReserveRecord, ProducerPCs
    <2>5. CASE ReserveFail(c)
      BY <2>3, <2>5 DEF ReserveFail, FailureKinds
    <2>6. CASE CapturePayload(c)
      BY <2>2, <2>3, <2>6 DEF CapturePayload, FailureKinds, ProducerPCs
    <2>7. CASE CaptureLossEpoch(c)
      <3>1. [Top(c) EXCEPT !.pc = "time", !.epoch = lossEpoch] \in Producers
        BY <2>1 DEF Producers, ProducerPCs
      <3> QED
        BY <2>1, <2>7, <3>1, UpdateType DEF CaptureLossEpoch
    <2>8. CASE CaptureLossTime(c)
      <3>1. [Top(c) EXCEPT !.pc = "submit", !.time = lossTime] \in Producers
        BY <2>1 DEF Producers, ProducerPCs
      <3> QED
        BY <2>1, <2>8, <3>1, UpdateType DEF CaptureLossTime
    <2>9. CASE SubmitRecord(c)
      <3>1. PICK i \in DOMAIN ring :
              ring' = [ring EXCEPT ![i] =
                [@ EXCEPT !.state = "committed", !.epoch = Top(c).epoch,
                          !.time = Top(c).time, !.after = Top(c).after]]
        BY <2>9 DEF SubmitRecord
      <3>2. [ring[i] EXCEPT !.state = "committed", !.epoch = Top(c).epoch,
                            !.time = Top(c).time, !.after = Top(c).after] \in Slots
        <4>1. ring[i] \in Slots
          OBVIOUS
        <4> QED
          BY <2>1, <4>1 DEF Slots, SlotStates, Producers
      <3>3. ring' \in Seq(Slots)
        BY <3>1, <3>2
      <3> QED
        BY <2>1, <2>9, <3>3, PopType DEF SubmitRecord
    <2>10. CASE SubmitFail(c)
      BY <2>3, <2>10 DEF SubmitFail, FailureKinds
    <2>11. CASE DiscardRecord(c)
      <3>1. PICK i \in DOMAIN ring :
              ring' = [ring EXCEPT ![i] = [@ EXCEPT !.state = "discarded"]]
        BY <2>11 DEF DiscardRecord
      <3>2. [ring[i] EXCEPT !.state = "discarded"] \in Slots
        <4>1. ring[i] \in Slots
          OBVIOUS
        <4> QED
          BY <4>1 DEF Slots, SlotStates
      <3>3. ring' \in Seq(Slots)
        BY <3>1, <3>2
      <3> QED
        BY <2>1, <2>11, <3>3, PopType DEF DiscardRecord
    <2>12. CASE StampCPULoss(c)
      BY <2>2, <2>12 DEF StampCPULoss, ProducerPCs
    <2>13. CASE StampGlobalLoss(c)
      BY <2>2, <2>13 DEF StampGlobalLoss, ProducerPCs
    <2>14. CASE BumpLossEpoch(c)
      BY <2>2, <2>14 DEF BumpLossEpoch, ProducerPCs
    <2>15. CASE LoadFailureCount(c)
      <3>1. [Top(c) EXCEPT !.pc = "store", !.reg = failures[c][Top(c).kind]] \in Producers
        BY <2>1 DEF Producers, ProducerPCs
      <3> QED
        BY <2>1, <2>15, <3>1, UpdateType DEF LoadFailureCount
    <2>16. CASE StoreFailureCount(c)
      <3>1. failures' \in [CPUs -> [FailureKinds -> Nat]]
        BY <2>1, <2>16 DEF StoreFailureCount, Producers
      <3>2. stack' \in [CPUs -> Seq(Producers)]
        BY <2>1, <2>2, <2>16, PopType DEF StoreFailureCount, Producers, ProducerPCs
      <3> QED
        BY <2>16, <3>1, <3>2 DEF StoreFailureCount
    <2> QED
      BY <1>3, <2>4, <2>5, <2>6, <2>7, <2>8, <2>9, <2>10, <2>11, <2>12, <2>13, <2>14,
         <2>15, <2>16 DEF ProducerStep
  <1> QED
    BY <1>1, <1>2, <1>3 DEF ProducerNext

\* What a step of the running producer does to its stack entry: the entry goes,
\* or it keeps its attempt, number and history and reaches "submit" only with
\* the loss time just read.
LEMMA StackShape ==
  ASSUME ProducerTypeOK, NEW c \in CPUs, ProducerStep(c)
  PROVE  /\ ~Idle(c) /\ Top(c) \in Producers
         /\ \/ Pop(c)
            \/ \E p \in Producers :
                 /\ Update(c, p)
                 /\ p.attempt = Top(c).attempt /\ p.seq = Top(c).seq
                 /\ p.after = Top(c).after
                 /\ p.pc = "submit" => p.time = lossTime
                 /\ p.pc # "reserve"
  <1> USE DEF ProducerTypeOK
  <1>1. ~Idle(c) /\ Top(c) \in Producers
    BY TopType
       DEF ProducerStep, ReserveRecord, ReserveFail, CapturePayload, CaptureLossEpoch,
           CaptureLossTime, SubmitRecord, SubmitFail, DiscardRecord, StampCPULoss,
           StampGlobalLoss, BumpLossEpoch, LoadFailureCount, StoreFailureCount, At
  <1> DEFINE Kept(p) == /\ p \in Producers
                        /\ p.attempt = Top(c).attempt /\ p.seq = Top(c).seq
                        /\ p.after = Top(c).after
                        /\ p.pc = "submit" => p.time = lossTime
                        /\ p.pc # "reserve"
  <1>2. \A pc \in ProducerPCs \ {"submit", "reserve"} : Kept([Top(c) EXCEPT !.pc = pc])
    BY <1>1 DEF Producers
  <1>3. \A kind \in FailureKinds : \A ret \in {"epoch", "discard", "return"} :
          Kept([Top(c) EXCEPT !.pc = "stamp", !.kind = kind, !.ret = ret])
    BY <1>1 DEF Producers, ProducerPCs
  <1>4. Kept([Top(c) EXCEPT !.pc = "time", !.epoch = lossEpoch])
    BY <1>1 DEF Producers, ProducerPCs
  <1>5. Kept([Top(c) EXCEPT !.pc = "submit", !.time = lossTime])
    BY <1>1 DEF Producers, ProducerPCs
  <1>6. Kept([Top(c) EXCEPT !.pc = "store", !.reg = failures[c][Top(c).kind]])
    <2>1. failures[c][Top(c).kind] \in Nat
      BY <1>1 DEF Producers
    <2> QED
      BY <1>1, <2>1 DEF Producers, ProducerPCs
  <1>7. Top(c).ret # "return" => Top(c).ret \in ProducerPCs \ {"submit", "reserve"}
    BY <1>1 DEF Producers, ProducerPCs
  <1>8. Pop(c) \/ \E p : Kept(p) /\ Update(c, p)
    <2> HIDE DEF Kept
    <2>1. CASE \/ ReserveRecord(c) \/ StampCPULoss(c) \/ StampGlobalLoss(c) \/ BumpLossEpoch(c)
      BY <1>2, <2>1
         DEF ReserveRecord, StampCPULoss, StampGlobalLoss, BumpLossEpoch, Goto, ProducerPCs
    <2>2. CASE ReserveFail(c) \/ SubmitFail(c)
      BY <1>3, <2>2 DEF ReserveFail, SubmitFail, Fail, FailureKinds
    <2>3. CASE CapturePayload(c)
      BY <1>2, <1>3, <2>3 DEF CapturePayload, Goto, Fail, FailureKinds, ProducerPCs
    <2>4. CASE CaptureLossEpoch(c)
      BY <1>4, <2>4 DEF CaptureLossEpoch
    <2>5. CASE CaptureLossTime(c)
      BY <1>5, <2>5 DEF CaptureLossTime
    <2>6. CASE SubmitRecord(c) \/ DiscardRecord(c)
      BY <2>6 DEF SubmitRecord, DiscardRecord
    <2>7. CASE LoadFailureCount(c)
      BY <1>6, <2>7 DEF LoadFailureCount
    <2>8. CASE StoreFailureCount(c)
      BY <1>2, <1>7, <2>8 DEF StoreFailureCount, Goto
    <2> QED
      BY <2>1, <2>2, <2>3, <2>4, <2>5, <2>6, <2>7, <2>8 DEF ProducerStep
  <1> QED
    BY <1>1, <1>8

\* What such a step does to the ring: nothing, a new busy slot for a producer
\* that had none, or an update of the producer's own slot.
LEMMA RingShape ==
  ASSUME ProducerTypeOK, NEW c \in CPUs, ProducerStep(c)
  PROVE  \/ ring' = ring
         \/ /\ At(c, "reserve")
            /\ \E slot \in Slots :
                 /\ ring' = Append(ring, slot)
                 /\ slot.cpu = c /\ slot.attempt = Top(c).attempt /\ slot.seq = Top(c).seq
                 /\ slot.state = "busy" /\ ~slot.after
         \/ \E i \in 1 .. Len(ring) : \E slot \in Slots :
              /\ ring' = [ring EXCEPT ![i] = slot]
              /\ slot.cpu = ring[i].cpu
              /\ slot.attempt = ring[i].attempt /\ slot.seq = ring[i].seq
              /\ \/ slot.after = ring[i].after /\ slot.time = ring[i].time
                 \/ At(c, "submit") /\ slot.after = Top(c).after /\ slot.time = Top(c).time
  <1> USE DEF ProducerTypeOK
  <1>1. Top(c) \in Producers
    BY StackShape
  <1>2. CASE ReserveRecord(c)
    <2> DEFINE slot == [cpu |-> c, attempt |-> Top(c).attempt, seq |-> Top(c).seq,
                        body |-> Top(c).body, state |-> "busy", epoch |-> 0,
                        time |-> FALSE, after |-> FALSE]
    <2>1. /\ slot \in Slots /\ slot.cpu = c
          /\ slot.attempt = Top(c).attempt /\ slot.seq = Top(c).seq
          /\ slot.state = "busy" /\ ~slot.after
      BY <1>1 DEF Slots, SlotStates, Producers
    <2>2. At(c, "reserve") /\ ring' = Append(ring, slot)
      BY <1>2 DEF ReserveRecord
    <2> HIDE DEF slot
    <2> QED
      BY <2>1, <2>2
  <1>3. CASE SubmitRecord(c)
    <2>1. PICK i \in DOMAIN ring :
            ring' = [ring EXCEPT ![i] =
              [@ EXCEPT !.state = "committed", !.epoch = Top(c).epoch,
                        !.time = Top(c).time, !.after = Top(c).after]]
      BY <1>3 DEF SubmitRecord
    <2> DEFINE slot == [ring[i] EXCEPT !.state = "committed", !.epoch = Top(c).epoch,
                                       !.time = Top(c).time, !.after = Top(c).after]
    <2>2. ring[i] \in Slots /\ i \in 1 .. Len(ring)
      OBVIOUS
    <2>3. /\ slot \in Slots /\ slot.cpu = ring[i].cpu
          /\ slot.attempt = ring[i].attempt /\ slot.seq = ring[i].seq
          /\ slot.after = Top(c).after /\ slot.time = Top(c).time
      BY <1>1, <2>2 DEF Slots, SlotStates, Producers
    <2>4. At(c, "submit") /\ ring' = [ring EXCEPT ![i] = slot]
      BY <1>3, <2>1 DEF SubmitRecord
    <2> HIDE DEF slot
    <2> QED
      BY <2>2, <2>3, <2>4
  <1>4. CASE DiscardRecord(c)
    <2>1. PICK i \in DOMAIN ring :
            ring' = [ring EXCEPT ![i] = [@ EXCEPT !.state = "discarded"]]
      BY <1>4 DEF DiscardRecord
    <2> DEFINE slot == [ring[i] EXCEPT !.state = "discarded"]
    <2>2. ring[i] \in Slots /\ i \in 1 .. Len(ring)
      OBVIOUS
    <2>3. /\ slot \in Slots /\ slot.cpu = ring[i].cpu
          /\ slot.attempt = ring[i].attempt /\ slot.seq = ring[i].seq
          /\ slot.after = ring[i].after /\ slot.time = ring[i].time
      BY <2>2 DEF Slots, SlotStates
    <2>4. ring' = [ring EXCEPT ![i] = slot]
      BY <2>1
    <2> HIDE DEF slot
    <2> QED
      BY <2>2, <2>3, <2>4
  <1>5. CASE ring' = ring
    BY <1>5
  <1> QED
    BY <1>2, <1>3, <1>4, <1>5
       DEF ProducerStep, ReserveFail, CapturePayload, CaptureLossEpoch, CaptureLossTime,
           SubmitFail, StampCPULoss, StampGlobalLoss, BumpLossEpoch, LoadFailureCount,
           StoreFailureCount

(***************************************************************************)
(* Type correctness of the integrity owner.                                *)
(***************************************************************************)
\* The integrity owner's initial state is well typed.
LEMMA IntegrityInitType == IntegrityInit => IntegrityTypeOK
  <1> SUFFICES ASSUME IntegrityInit PROVE IntegrityTypeOK
    OBVIOUS
  <1>1. SequenceTypeOK
    BY SeqArithmetic DEF IntegrityInit, SequenceTypeOK
  <1>2. tainted \in BOOLEAN
    BY DEF IntegrityInit
  <1>3. taintEpoch \in Nat /\ tasks \in [Tids -> TaskStates \cup {NoTask}]
    BY DEF IntegrityInit
  <1> QED
    BY <1>1, <1>2, <1>3, SeqArithmetic DEF IntegrityInit, IntegrityTypeOK, TaintTypeOK

\* The intervals of a forward jump are gaps of the jump's own group.
LEMMA SkippedType ==
  ASSUME NEW first \in SeqNumbers, NEW next \in SeqNumbers, NEW group \in Nat
  PROVE  /\ SkippedIntervals(first, next, group) \subseteq Gaps
         /\ \A gap \in SkippedIntervals(first, next, group) : gap.group = group
  <1>1. 1 \in SeqNumbers /\ SeqModulus - 1 \in SeqNumbers
    BY SeqArithmetic DEF SeqNumbers
  <1>2. SeqMinus(next, 1) \in SeqNumbers
    BY <1>1, SeqArithmetic
  <1> QED
    BY <1>1, <1>2, SeqArithmetic DEF SkippedIntervals, Gaps

\* Sequence accounting keeps its types, whatever the number of the record.
LEMMA SequenceType ==
  ASSUME IntegrityTypeOK, NEW ev \in Slots, records' = records + 1, NEW confirmed \in BOOLEAN,
         \/ InOrder(ev)
         \/ ForwardJump(ev, confirmed)
         \/ Reordered(ev)
         \/ UNCHANGED sequenceVars
  PROVE  SequenceTypeOK'
  <1> USE DEF IntegrityTypeOK, SequenceTypeOK
  <1>1. ev.cpu \in CPUs /\ ev.seq \in SeqNumbers
    BY DEF Slots
  <1>2. Expected(ev.cpu) \in SeqNumbers /\ Ahead(ev) \in SeqNumbers
    BY <1>1, SeqArithmetic DEF Expected, Ahead
  <1>3. DOMAIN groups \subseteq 1 .. records'
    OBVIOUS
  <1>4. CASE InOrder(ev)
    BY <1>1, <1>3, <1>4 DEF InOrder
  <1>5. CASE ForwardJump(ev, confirmed)
    <2> DEFINE new == SkippedIntervals(Expected(ev.cpu), ev.seq, records + 1)
    <2>1. new \subseteq Gaps /\ \A gap \in new : gap.group = records + 1
      <3>1. records + 1 \in Nat
        OBVIOUS
      <3> QED
        BY ONLY <1>1, <1>2, <3>1, SkippedType
    <2>2. gaps' = [gaps EXCEPT ![ev.cpu] = @ \cup new]
      BY <1>5 DEF ForwardJump
    <2>3. Ahead(ev) \in Nat
      BY <1>2 DEF SeqNumbers
    <2>4. /\ DOMAIN groups' = DOMAIN groups \cup {records + 1}
          /\ groups' \in [DOMAIN groups' -> GroupStates]
      BY <1>1, <1>5, <2>3 DEF ForwardJump, GroupStates
    <2>5. gaps' \in [CPUs -> SUBSET Gaps]
      BY <2>1, <2>2
    <2>6. \A c \in CPUs : \A gap \in gaps'[c] : gap.group \in DOMAIN groups'
      BY <2>1, <2>2, <2>4
    <2>7. DOMAIN groups' \subseteq 1 .. records'
      BY <1>3, <2>4
    <2> QED
      BY <1>1, <1>5, <2>3, <2>4, <2>5, <2>6, <2>7 DEF ForwardJump
  <1>6. CASE Reordered(ev)
    <2>1. PICK gap \in gaps[ev.cpu] :
            LET left == groups[gap.group].remaining IN
            /\ Covers(gap, ev.seq)
            /\ gaps' = [gaps EXCEPT ![ev.cpu] =
                 (@ \ {gap}) \cup WithoutNumber(gap, ev.seq)]
            /\ groups' = [groups EXCEPT ![gap.group].remaining =
                 IF left = 0 THEN 0 ELSE left - 1]
            /\ estimatedLost' =
                 IF left # 0 /\ estimatedLost # 0 THEN estimatedLost - 1 ELSE estimatedLost
            /\ streamGaps' =
                 IF left = 1 /\ streamGaps # 0 THEN streamGaps - 1 ELSE streamGaps
      BY <1>6 DEF Reordered
    <2>2. gap \in Gaps /\ gap.group \in DOMAIN groups /\ groups[gap.group] \in GroupStates
      BY <1>1
    <2>3. WithoutNumber(gap, ev.seq) \subseteq Gaps
          /\ \A rest \in WithoutNumber(gap, ev.seq) : rest.group = gap.group
      BY <1>1, <2>1, <2>2, SeqArithmetic DEF WithoutNumber, Covers, Gaps, SeqNumbers
    <2>4. gaps' \in [CPUs -> SUBSET Gaps]
      BY <1>1, <2>1, <2>3
    <2>5. DOMAIN groups' = DOMAIN groups /\ groups' \in [DOMAIN groups -> GroupStates]
      BY <2>1, <2>2 DEF GroupStates
    <2>6. \A c \in CPUs : \A g \in gaps'[c] : g.group \in DOMAIN groups'
      BY <1>1, <2>1, <2>2, <2>3, <2>5
    <2>7. estimatedLost' \in Nat /\ streamGaps' \in Nat
      BY <2>1
    <2> QED
      BY <1>3, <1>6, <2>4, <2>5, <2>6, <2>7 DEF Reordered
  <1>7. CASE UNCHANGED sequenceVars
    BY <1>3, <1>7 DEF sequenceVars
  <1> QED
    BY <1>4, <1>5, <1>6, <1>7

\* Tainting keeps the types of the verdict.
LEMMA TaintType ==
  ASSUME TaintTypeOK, NEW n \in Nat, Taint(n)
  PROVE  tainted' \in BOOLEAN /\ taintEpoch' \in Nat
  <1>1. tainted' \in BOOLEAN
    BY DEF Taint
  <1>2. taintEpoch' \in Nat
    BY DEF Taint, TaintTypeOK
  <1> QED
    BY <1>1, <1>2

\* A session that is clean after a call of Taint was not tainted by it.
LEMMA TaintSound ==
  ASSUME NEW n \in Nat, Taint(n)
  PROVE  /\ tainted => tainted'
         /\ n # 0 => tainted'
  <1>1. n # 0 => n > 0
    OBVIOUS
  <1>2. tainted' = (tainted \/ n > 0)
    BY DEF Taint
  <1> DEFINE positive == n > 0
  <1>3. tainted' = (tainted \/ positive)
    BY <1>2
  <1>4. n # 0 => positive
    BY <1>1
  <1> HIDE DEF positive
  <1> QED
    BY <1>3, <1>4, Zenon

\* Correlation trust keeps its types.
LEMMA TasksType ==
  ASSUME tasks \in [Tids -> TaskStates \cup {NoTask}],
         NEW body \in EventBodies, NEW epoch \in Nat, NEW dirty \in BOOLEAN
  PROVE  ObservedTasks(body, epoch, dirty) \in [Tids -> TaskStates \cup {NoTask}]
  <1>1. FreshTask(epoch) \in TaskStates /\ FreshTask(0) \in TaskStates
    BY DEF FreshTask, TaskStates
  <1>2. AdoptedTask(epoch, dirty) \in TaskStates
    BY <1>1 DEF AdoptedTask, TaskStates
  <1>3. ASSUME body.tid \in Tids
        PROVE  SyscallTrust(body, epoch, dirty) \in TaskStates
    <2> DEFINE entry == TaskEntry(body.tid)
               task == IF entry.epoch # epoch THEN FreshTask(epoch) ELSE entry
    <2>1. task \in TaskStates
      BY <1>1, <1>3 DEF TaskEntry
    <2>2. body.call \in Nat
      BY DEF EventBodies
    <2> HIDE DEF task
    <2>3. \A clean, candidate \in BOOLEAN :
            /\ [task EXCEPT !.clean = clean, !.candidate = candidate, !.call = body.call]
                 \in TaskStates
            /\ [task EXCEPT !.clean = clean, !.candidate = candidate] \in TaskStates
            /\ [task EXCEPT !.clean = clean] \in TaskStates
      BY <2>1, <2>2 DEF TaskStates
    <2>4. (task.clean \/ ~dirty) \in BOOLEAN
      OBVIOUS
    <2>5. ((task.clean \/ ~dirty) \/ (task.candidate /\ task.call = body.call)) \in BOOLEAN
      OBVIOUS
    <2>6. SyscallTrust(body, epoch, dirty) =
            CASE body.kind = "enter" ->
                   [task EXCEPT !.clean = task.clean \/ ~dirty, !.candidate = TRUE,
                                !.call = body.call]
              [] body.kind = "exit" ->
                   [task EXCEPT !.clean = (task.clean \/ ~dirty)
                                            \/ (task.candidate /\ task.call = body.call),
                                !.candidate = FALSE]
              [] OTHER -> [task EXCEPT !.clean = task.clean \/ ~dirty]
      BY DEF SyscallTrust, task
    <2> QED
      BY <2>3, <2>4, <2>5, <2>6
  <1>4. body.tid \in Tids \cup {NoTid}
    BY DEF EventBodies
  <1> QED
    BY <1>2, <1>3, <1>4 DEF ObservedTasks

\* Observe keeps the integrity owner's types.
LEMMA ObserveType ==
  ASSUME IntegrityTypeOK, NEW ev \in Slots, ev.body \in EventBodies, Observe(ev)
  PROVE  IntegrityTypeOK'
  <1>1. records \in Nat /\ records' = records + 1 /\ seenEpoch \in Nat /\ ev.epoch \in Nat
    BY DEF Observe, IntegrityTypeOK, Slots
  <1>2. ProducerLoss(ev) \in BOOLEAN
    BY DEF ProducerLoss
  <1>3. SequenceTypeOK'
    BY <1>1, <1>2, SequenceType DEF Observe
  <1>4. tainted' \in BOOLEAN /\ taintEpoch' \in Nat
    BY TaintType DEF Observe, IntegrityTypeOK
  <1>5. tasks' \in [Tids -> TaskStates \cup {NoTask}]
    BY <1>4, TasksType DEF Observe, IntegrityTypeOK, TaintTypeOK
  <1> QED
    BY <1>1, <1>3, <1>4, <1>5 DEF Observe, IntegrityTypeOK, TaintTypeOK

\* Giving up a group keeps the integrity owner's types.
LEMMA AbandonType ==
  ASSUME IntegrityTypeOK, NEW g \in DOMAIN groups, AbandonGroup(g)
  PROVE  IntegrityTypeOK'
  <1> USE DEF IntegrityTypeOK, SequenceTypeOK, TaintTypeOK
  <1>1. groups[g].remaining \in Nat
    BY DEF GroupStates
  <1>2. estimatedLost' \in Nat /\ streamGaps' \in Nat
    BY <1>1 DEF AbandonGroup
  <1>3. gaps' \in [CPUs -> SUBSET Gaps]
        /\ \A c \in CPUs : gaps'[c] \subseteq gaps[c]
    BY DEF AbandonGroup
  <1> QED
    BY <1>2, <1>3 DEF AbandonGroup
-----------------------------------------------------------------------------
\* Every step of the session keeps all types.
LEMMA TypeStep == TypeOK /\ [Next]_vars => TypeOK'
  <1> SUFFICES ASSUME TypeOK, [Next]_vars
               PROVE  TypeOK'
    OBVIOUS
  <1> USE DEF TypeOK
  <1>1. CASE Produce
    BY <1>1, ProducerNextType DEF Produce, integrityVars, sessionVars, IntegrityTypeOK,
       SequenceTypeOK, TaintTypeOK
  <1>2. ASSUME TakeHead
        PROVE  ProducerTypeOK' /\ Head(ring) \in Slots /\ Head(ring).body \in EventBodies
    <2>1. ring \in Seq(Slots) /\ ring # <<>> /\ ring' = Tail(ring)
      BY <1>2 DEF TakeHead, Readable, ProducerTypeOK
    <2>2. Head(ring) \in Slots /\ ring' \in Seq(Slots)
      BY <2>1
    <2>3. Head(ring).body \in EventBodies
      BY <2>2, PipelineAssumption DEF Slots
    <2> QED
      BY <1>2, <2>2, <2>3 DEF TakeHead, ProducerTypeOK
  <1>3. CASE SkipDiscarded
    BY <1>2, <1>3 DEF SkipDiscarded, integrityVars, sessionVars, IntegrityTypeOK,
       SequenceTypeOK, TaintTypeOK
  <1>4. CASE ConsumeRecord
    <2>1. IntegrityTypeOK'
      BY <1>2, <1>4, ObserveType DEF ConsumeRecord
    <2>2. seen' \in [CPUs -> SUBSET Nat]
      BY <1>2, <1>4 DEF ConsumeRecord, Slots
    <2> QED
      BY <1>2, <1>4, <2>1, <2>2 DEF ConsumeRecord
  <1>5. CASE ConsumeMalformed
    <2>1. IntegrityTypeOK'
      BY <1>5, TaintType
         DEF ConsumeMalformed, InvalidRecord, sequenceVars, IntegrityTypeOK, SequenceTypeOK,
             TaintTypeOK
    <2>2. rejected' \in BOOLEAN
      BY <1>5 DEF ConsumeMalformed
    <2> QED
      BY <1>2, <1>5, <2>1, <2>2 DEF ConsumeMalformed
  <1>6. CASE ConsumeUnsupportedABI
    BY <1>2, <1>6 DEF ConsumeUnsupportedABI, integrityVars, IntegrityTypeOK, SequenceTypeOK,
       TaintTypeOK, Phases
  <1>7. CASE EndRun \/ FinishDrain
    BY <1>7 DEF EndRun, StartDrain, AbortRun, IntentionalStop, FinishDrain, Phases, Reading,
       producerVars, integrityVars, ProducerTypeOK, IntegrityTypeOK, SequenceTypeOK, TaintTypeOK
  <1>8. ASSUME UNCHANGED producerVars PROVE ProducerTypeOK'
    BY <1>8 DEF producerVars, ProducerTypeOK
  <1>9. ASSUME NEW c \in CPUs, ReadCPUStats(c)
        PROVE  TypeOK'
    <2>1. statLoss' \in BOOLEAN
      BY <1>9 DEF ReadCPUStats
    <2>2. statSeq' \in [CPUs -> SeqNumbers] /\ statCount' \in [CPUs -> Nat]
      BY <1>9 DEF ReadCPUStats, ProducerTypeOK
    <2> QED
      BY <1>8, <1>9, <2>1, <2>2
         DEF ReadCPUStats, integrityVars, IntegrityTypeOK, SequenceTypeOK, TaintTypeOK
  <1>10. CASE Finish
    <2>1. tainted' \in BOOLEAN /\ taintEpoch' \in Nat
      BY <1>10, TaintType DEF Finish, Finalize, IntegrityTypeOK
    <2>2. unobservedTail' \in [CPUs -> SeqNumbers]
      BY <1>10, SeqArithmetic
         DEF Finish, Finalize, UnobservedAt, IntegrityTypeOK, SequenceTypeOK
    <2>3. IntegrityTypeOK'
      BY <1>10, <2>1, <2>2
         DEF Finish, Finalize, sequenceVars, IntegrityTypeOK, SequenceTypeOK, TaintTypeOK
    <2> QED
      BY <1>8, <1>10, <2>3 DEF Finish, Phases, Ended
  <1>11. CASE FinishWithoutStats
    <2>1. IntegrityTypeOK'
      BY <1>11, TaintType
         DEF FinishWithoutStats, FinalizeWithoutStats, sequenceVars, IntegrityTypeOK,
             SequenceTypeOK, TaintTypeOK
    <2> QED
      BY <1>8, <1>11, <2>1 DEF FinishWithoutStats, Phases, Ended
  <1>12. CASE AbandonUnconfirmedSequenceGaps
    <2>1. IntegrityTypeOK'
      BY <1>12, AbandonType
         DEF AbandonUnconfirmedSequenceGaps, integrityVars, IntegrityTypeOK, SequenceTypeOK,
             TaintTypeOK
    <2> QED
      BY <1>8, <1>12, <2>1 DEF AbandonUnconfirmedSequenceGaps, Phases, Ended
  <1>13. CASE UNCHANGED vars
    BY <1>8, <1>13 DEF vars, integrityVars, sessionVars, IntegrityTypeOK, SequenceTypeOK,
       TaintTypeOK
  <1> QED
    BY <1>1, <1>3, <1>4, <1>5, <1>6, <1>7, <1>9, <1>10, <1>11, <1>12, <1>13
       DEF Next, Consume, FinishStep

\* Type correctness of the whole session, for every instance.
THEOREM TypeCorrect == Spec => []TypeOK
  <1>1. Init => TypeOK
    <2> SUFFICES ASSUME Init PROVE TypeOK
      OBVIOUS
    <2>1. ProducerTypeOK /\ IntegrityTypeOK
      BY ProducerInitType, IntegrityInitType DEF Init
    <2>2. statLoss \in BOOLEAN /\ rejected \in BOOLEAN
      BY DEF Init
    <2> QED
      BY <2>1, <2>2, SeqArithmetic DEF Init, TypeOK, Phases, Reading
  <1> QED
    BY <1>1, TypeStep, PTL DEF Spec
=============================================================================
