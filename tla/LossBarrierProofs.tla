------------------------- MODULE LossBarrierProofs -------------------------
(***************************************************************************)
(* The loss barrier.  A producer that starts after some loss was recorded  *)
(* reads a nonzero loss time before it submits, on whatever CPU the loss   *)
(* was, and the consumer is tainted by that time at the latest.            *)
(***************************************************************************)
EXTENDS EventPipelineProofs

\* "after" is remembered faithfully on the way from the start of an attempt,
\* through the header, to the record the consumer reads.
Marked(p) ==
  /\ p.after => lossTime
  /\ p.pc = "submit" /\ p.after => p.time

BarrierInv ==
  /\ \A c \in CPUs : \A i \in 1 .. Len(stack[c]) : Marked(stack[c][i])
  /\ \A i \in 1 .. Len(ring) : ring[i].after => ring[i].time

\* The producers keep the marks.
LEMMA BarrierProduce ==
  ASSUME ProducerTypeOK, BarrierInv, ProducerNext
  PROVE  BarrierInv'
  <1> USE DEF ProducerTypeOK
  <1>1. lossTime => lossTime'
    BY DEF ProducerNext, NextEventSequence, StateUpdateFail, ProducerStep, ReserveRecord,
           ReserveFail, CapturePayload, CaptureLossEpoch, CaptureLossTime, SubmitRecord,
           SubmitFail, DiscardRecord, StampCPULoss, StampGlobalLoss, BumpLossEpoch,
           LoadFailureCount, StoreFailureCount
  <1>2. ASSUME NEW c \in CPUs, NEW p, stack' = [stack EXCEPT ![c] = Append(@, p)],
               p.after => lossTime, p.pc # "submit", ring' = ring
        PROVE  BarrierInv'
    <2>1. \A d \in CPUs : \A i \in 1 .. Len(stack'[d]) :
            (i \in 1 .. Len(stack[d]) /\ stack'[d][i] = stack[d][i]) \/ stack'[d][i] = p
      BY <1>2
    <2> QED
      BY ONLY BarrierInv, <1>1, <1>2, <2>1 DEF BarrierInv, Marked
  <1>3. ASSUME NEW c \in CPUs, NEW body \in Bodies, NextEventSequence(c, body)
        PROVE  BarrierInv'
    <2> DEFINE p == [pc |-> "reserve", ret |-> "return", kind |-> "reserve", reg |-> 0,
                     attempt |-> attempts[c] + 1, seq |-> SeqSucc(eventSeq[c]),
                     body |-> body, epoch |-> 0, time |-> FALSE, after |-> lossTime]
    <2>1. (p.after => lossTime) /\ p.pc # "submit"
      OBVIOUS
    <2>2. stack' = [stack EXCEPT ![c] = Append(@, p)] /\ ring' = ring
      BY <1>3 DEF NextEventSequence
    <2> HIDE DEF p
    <2> QED
      BY <1>2, <2>1, <2>2
  <1>4. ASSUME NEW c \in CPUs, StateUpdateFail(c)
        PROVE  BarrierInv'
    <2> DEFINE p == [pc |-> "stamp", ret |-> "return", kind |-> "state", reg |-> 0,
                     attempt |-> 0, seq |-> 0, body |-> CHOOSE b \in Bodies : TRUE,
                     epoch |-> 0, time |-> FALSE, after |-> FALSE]
    <2>1. (p.after => lossTime) /\ p.pc # "submit"
      OBVIOUS
    <2>2. stack' = [stack EXCEPT ![c] = Append(@, p)] /\ ring' = ring
      BY <1>4 DEF StateUpdateFail
    <2> HIDE DEF p
    <2> QED
      BY <1>2, <2>1, <2>2
  <1>5. ASSUME NEW c \in CPUs, ProducerStep(c)
        PROVE  BarrierInv'
    <2>1. Len(stack[c]) \in 1 .. Len(stack[c]) /\ Marked(Top(c))
      BY <1>5, StackShape, TopType DEF Top, BarrierInv
    <2> DEFINE Mark(p) == (p.after => lossTime') /\ (p.pc = "submit" /\ p.after => p.time)
    <2>2. \A d \in CPUs : \A i \in 1 .. Len(stack'[d]) : Mark(stack'[d][i])
      <3>1. CASE Pop(c)
        <4>1. \A d \in CPUs : \A i \in 1 .. Len(stack'[d]) :
                i \in 1 .. Len(stack[d]) /\ stack'[d][i] = stack[d][i]
          BY <2>1, <3>1 DEF Pop
        <4> QED
          BY ONLY BarrierInv, <1>1, <4>1 DEF BarrierInv, Marked
      <3>2. ASSUME NEW p \in Producers, Update(c, p), Mark(p)
            PROVE  \A d \in CPUs : \A i \in 1 .. Len(stack'[d]) : Mark(stack'[d][i])
        <4>1. \A d \in CPUs : Len(stack'[d]) = Len(stack[d])
          BY <2>1, <3>2 DEF Update
        <4>2. \A d \in CPUs : \A i \in 1 .. Len(stack[d]) :
                stack'[d][i] = stack[d][i] \/ stack'[d][i] = p
          BY <2>1, <3>2 DEF Update
        <4> QED
          BY ONLY BarrierInv, <1>1, <3>2, <4>1, <4>2 DEF BarrierInv, Marked
      <3>3. ASSUME NEW p \in Producers, p.after = Top(c).after, p.pc = "submit" => p.time = lossTime
            PROVE  Mark(p)
        BY <1>1, <2>1, <3>3 DEF Marked
      <3> QED
        BY <1>5, <3>1, <3>2, <3>3, StackShape
    <2>3. \A i \in 1 .. Len(ring') : ring'[i].after => ring'[i].time
      <3>1. ASSUME NEW slot \in Slots, ring' = Append(ring, slot), ~slot.after
            PROVE  \A i \in 1 .. Len(ring') : ring'[i].after => ring'[i].time
        <4>1. \A i \in 1 .. Len(ring') :
                (i \in 1 .. Len(ring) /\ ring'[i] = ring[i]) \/ ring'[i] = slot
          BY <3>1
        <4> QED
          BY ONLY BarrierInv, <3>1, <4>1 DEF BarrierInv
      <3>2. ASSUME NEW j \in 1 .. Len(ring), NEW slot \in Slots,
                   ring' = [ring EXCEPT ![j] = slot], slot.after => slot.time
            PROVE  \A i \in 1 .. Len(ring') : ring'[i].after => ring'[i].time
        <4>1. \A i \in 1 .. Len(ring') :
                (i \in 1 .. Len(ring) /\ ring'[i] = ring[i]) \/ ring'[i] = slot
          BY <3>2
        <4> QED
          BY ONLY BarrierInv, <3>2, <4>1 DEF BarrierInv
      <3>3. ASSUME NEW j \in 1 .. Len(ring), NEW slot \in Slots,
                   \/ slot.after = ring[j].after /\ slot.time = ring[j].time
                   \/ At(c, "submit") /\ slot.after = Top(c).after /\ slot.time = Top(c).time
            PROVE  slot.after => slot.time
        <4>1. ring[j].after => ring[j].time
          BY DEF BarrierInv
        <4>2. At(c, "submit") => (Top(c).after => Top(c).time)
          BY <2>1 DEF Marked, At
        <4> QED
          BY <3>3, <4>1, <4>2
      <3>4. CASE ring' = ring
        BY <3>4 DEF BarrierInv
      <3>5. CASE \E j \in 1 .. Len(ring) : \E slot \in Slots :
                   /\ ring' = [ring EXCEPT ![j] = slot]
                   /\ \/ slot.after = ring[j].after /\ slot.time = ring[j].time
                      \/ At(c, "submit") /\ slot.after = Top(c).after /\ slot.time = Top(c).time
        <4>1. PICK j \in 1 .. Len(ring), slot \in Slots :
                /\ ring' = [ring EXCEPT ![j] = slot]
                /\ \/ slot.after = ring[j].after /\ slot.time = ring[j].time
                   \/ At(c, "submit") /\ slot.after = Top(c).after /\ slot.time = Top(c).time
          BY <3>5
        <4>2. slot.after => slot.time
          BY <3>3, <4>1
        <4> QED
          BY <3>2, <4>1, <4>2
      <3> QED
        BY <1>5, <3>1, <3>4, <3>5, RingShape
    <2> QED
      BY <2>2, <2>3 DEF BarrierInv, Marked
  <1> QED
    BY <1>3, <1>4, <1>5 DEF ProducerNext

\* Every step of the session keeps the marks.
LEMMA BarrierStep ==
  ASSUME TypeOK, BarrierInv, [Next]_vars
  PROVE  BarrierInv'
  <1>1. CASE Produce
    BY <1>1, BarrierProduce DEF Produce, TypeOK
  <1>2. CASE UNCHANGED <<stack, ring, lossTime>>
    BY <1>2 DEF BarrierInv, Marked
  <1>3. CASE TakeHead
    <2>1. ring \in Seq(Slots) /\ ring # <<>> /\ ring' = Tail(ring)
      BY <1>3 DEF TakeHead, Readable, TypeOK, ProducerTypeOK
    <2>2. \A i \in 1 .. Len(ring') : ring'[i] = ring[i + 1] /\ i + 1 \in 1 .. Len(ring)
      BY <2>1
    <2> QED
      BY <1>3, <2>2 DEF TakeHead, BarrierInv, Marked
  <1>4. \/ Produce
        \/ TakeHead
        \/ UNCHANGED <<stack, ring, lossTime>>
    BY DEF Next, Consume, SkipDiscarded, ConsumeRecord, ConsumeMalformed,
           ConsumeUnsupportedABI, EndRun, StartDrain, AbortRun, IntentionalStop, FinishStep,
           FinishDrain, ReadCPUStats, Finish, FinishWithoutStats,
           AbandonUnconfirmedSequenceGaps, producerVars, vars
  <1> QED
    BY <1>1, <1>2, <1>3, <1>4

\* Only ConsumeRecord hands a record on, and a record with a loss time taints.
LEMMA BarrierHolds ==
  ASSUME TypeOK, BarrierInv, Next, NEW c \in CPUs, seen'[c] # seen[c], Head(ring).after
  PROVE  tainted'
  <1>1. ConsumeRecord
    BY DEF Next, Produce, Consume, SkipDiscarded, ConsumeMalformed,
           ConsumeUnsupportedABI, EndRun, StartDrain, AbortRun, IntentionalStop, FinishStep,
           FinishDrain, ReadCPUStats, Finish, FinishWithoutStats,
           AbandonUnconfirmedSequenceGaps, sessionVars
  <1> DEFINE ev == Head(ring)
  <1>2. ring \in Seq(Slots) /\ ring # <<>>
    BY <1>1 DEF ConsumeRecord, TakeHead, Readable, TypeOK, ProducerTypeOK
  <1>3. ev = ring[1] /\ 1 \in 1 .. Len(ring)
    BY <1>2
  <1>4. ev.time
    BY <1>3 DEF BarrierInv
  <1>5. tainted \/ ProducerLoss(ev)
    BY <1>4 DEF ProducerLoss
  <1>6. \/ Taint(IF ProducerLoss(ev) THEN 1 ELSE 0)
        \/ Taint(1)
    BY <1>1 DEF ConsumeRecord, Observe
  <1> QED
    BY <1>5, <1>6, TaintSound

\* For every instance: no untainted session hands on a record whose emission
\* began after some producer, on any CPU, had recorded a loss.
THEOREM LossBarrierHolds == Spec => LossBarrier
  <1>1. Init => BarrierInv
    BY DEF Init, ProducerInit, BarrierInv
  <1>2. TypeOK /\ BarrierInv /\ [Next]_vars => BarrierInv'
    BY BarrierStep
  <1>3. TypeOK /\ BarrierInv /\ [Next]_vars
          => [\A c \in CPUs : seen'[c] # seen[c] /\ Head(ring).after => tainted']_vars
    BY BarrierHolds
  <1> QED
    BY <1>1, <1>2, <1>3, TypeCorrect, PTL DEF Spec, LossBarrier
=============================================================================
