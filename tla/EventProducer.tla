--------------------------- MODULE EventProducer ---------------------------
(***************************************************************************)
(* The BPF side of the event stream: programs on several CPUs that number, *)
(* reserve, fill and submit records of one shared ring buffer, and that    *)
(* record every loss in a global loss state and in per-CPU statistics.     *)
(*                                                                         *)
(* A CPU runs a stack of producers: an interrupt may start another one at  *)
(* any point of the one below it, and only the top of the stack advances.  *)
(* Programs never migrate, so a producer keeps its CPU.                    *)
(***************************************************************************)
EXTENDS EventSequence, Sequences, FiniteSets

CONSTANTS Bodies,          \* what a record may say, see TraceIntegrity
          MaxAttempts,     \* bound: emission attempts per CPU
          MaxNesting,      \* bound: producers stacked on one CPU
          MaxStateLosses,  \* bound: failed BPF state updates per CPU
          RingCapacity     \* records the ring buffer holds

ASSUME ProducerAssumption ==
  /\ MaxAttempts \in Nat
  /\ MaxNesting \in Nat \ {0}
  /\ MaxStateLosses \in Nat
  /\ RingCapacity \in Nat \ {0}

VARIABLES
  eventSeq,    \* bpf_stats.event_seq of each CPU
  attempts,    \* history: emission attempts of each CPU, never wrapping
  stack,       \* the producers active on each CPU, innermost last
  ring,        \* reserved records in reservation order
  lossTime,    \* event_loss_state.first_time_ns # 0
  lossEpoch,   \* event_loss_state.epoch
  statTime,    \* bpf_stats.integrity_first_time_ns # 0, per CPU
  failures     \* the failure counters of bpf_stats, per CPU and kind

producerVars ==
  <<eventSeq, attempts, stack, ring, lossTime, lossEpoch, statTime, failures>>

(***************************************************************************)
(* The failure counters that record_event_integrity_loss accompanies:      *)
(* reserve failures, copy failures, and failed updates of BPF state        *)
(* (pending storage, mismatches, lifecycle maps), which lose no record.    *)
(***************************************************************************)
FailureKinds == {"reserve", "copy", "state"}

SlotStates == {"busy", "committed", "discarded"}

Slots ==
  [cpu : CPUs, attempt : Nat, seq : SeqNumbers, body : Bodies,
   state : SlotStates, epoch : Nat, time : BOOLEAN, after : BOOLEAN]

(***************************************************************************)
(* pc is the next thing a producer does; ret is where it resumes once a    *)
(* loss has been recorded; reg is the value it loaded from a counter.      *)
(* "after" is history: a loss had been recorded when the attempt began.    *)
(***************************************************************************)
ProducerPCs ==
  {"reserve", "payload", "epoch", "time", "submit",
   "stamp", "first", "bump", "load", "store", "discard"}

Producers ==
  [pc : ProducerPCs, ret : {"epoch", "discard", "return"}, kind : FailureKinds,
   reg : Nat, attempt : Nat, seq : SeqNumbers, body : Bodies,
   epoch : Nat, time : BOOLEAN, after : BOOLEAN]

ProducerTypeOK ==
  /\ eventSeq \in [CPUs -> SeqNumbers]
  /\ attempts \in [CPUs -> Nat]
  /\ stack \in [CPUs -> Seq(Producers)]
  /\ ring \in Seq(Slots)
  /\ lossTime \in BOOLEAN
  /\ lossEpoch \in Nat
  /\ statTime \in [CPUs -> BOOLEAN]
  /\ failures \in [CPUs -> [FailureKinds -> Nat]]

ProducerInit ==
  /\ eventSeq = [c \in CPUs |-> 0]
  /\ attempts = [c \in CPUs |-> 0]
  /\ stack = [c \in CPUs |-> <<>>]
  /\ ring = <<>>
  /\ lossTime = FALSE
  /\ lossEpoch = 0
  /\ statTime = [c \in CPUs |-> FALSE]
  /\ failures = [c \in CPUs |-> [k \in FailureKinds |-> 0]]
-----------------------------------------------------------------------------
Idle(c) == stack[c] = <<>>

Top(c) == stack[c][Len(stack[c])]

At(c, pc) == ~Idle(c) /\ Top(c).pc = pc

Pop(c) == stack' = [stack EXCEPT ![c] = SubSeq(@, 1, Len(@) - 1)]

Update(c, producer) == stack' = [stack EXCEPT ![c][Len(stack[c])] = producer]

Goto(c, pc) == Update(c, [Top(c) EXCEPT !.pc = pc])

\* The failure path: record the loss, count it under kind, resume at ret.
Fail(c, kind, ret) ==
  Update(c, [Top(c) EXCEPT !.pc = "stamp", !.kind = kind, !.ret = ret])

\* The place of producer c's reserved record in the ring.
OwnSlot(c, i) == ring[i].cpu = c /\ ring[i].attempt = Top(c).attempt

\* A producer takes its CPU's next number before it tries to reserve.
NextEventSequence(c, body) ==
  /\ Len(stack[c]) < MaxNesting
  /\ attempts[c] < MaxAttempts
  /\ eventSeq' = [eventSeq EXCEPT ![c] = SeqSucc(@)]
  /\ attempts' = [attempts EXCEPT ![c] = @ + 1]
  /\ stack' = [stack EXCEPT ![c] = Append(@,
       [pc |-> "reserve", ret |-> "return", kind |-> "reserve", reg |-> 0,
        attempt |-> attempts[c] + 1, seq |-> SeqSucc(eventSeq[c]),
        body |-> body, epoch |-> 0, time |-> FALSE, after |-> lossTime])]
  /\ UNCHANGED <<ring, lossTime, lossEpoch, statTime, failures>>

\* The ring has room: the record takes its place in the consumer's order.
ReserveRecord(c) ==
  /\ At(c, "reserve")
  /\ Len(ring) < RingCapacity
  /\ ring' = Append(ring,
       [cpu |-> c, attempt |-> Top(c).attempt, seq |-> Top(c).seq,
        body |-> Top(c).body, state |-> "busy", epoch |-> 0, time |-> FALSE,
        after |-> FALSE])
  /\ Goto(c, "payload")
  /\ UNCHANGED <<eventSeq, attempts, lossTime, lossEpoch, statTime, failures>>

\* The ring lacks room.  Records differ in size, so a record may fail to fit
\* whenever the ring holds something unread.
ReserveFail(c) ==
  /\ At(c, "reserve")
  /\ ring # <<>>
  /\ Fail(c, "reserve", "return")
  /\ UNCHANGED <<eventSeq, attempts, ring, lossTime, lossEpoch, statTime, failures>>

\* Payload sections are written before the header.  A failed section is
\* counted, and the record is still submitted without it.
CapturePayload(c) ==
  /\ At(c, "payload")
  /\ Goto(c, "epoch") \/ Fail(c, "copy", "epoch")
  /\ UNCHANGED <<eventSeq, attempts, ring, lossTime, lossEpoch, statTime, failures>>

\* capture_event_integrity reads the epoch first ...
CaptureLossEpoch(c) ==
  /\ At(c, "epoch")
  /\ Update(c, [Top(c) EXCEPT !.pc = "time", !.epoch = lossEpoch])
  /\ UNCHANGED <<eventSeq, attempts, ring, lossTime, lossEpoch, statTime, failures>>

\* ... and the time of the first loss in a second read.
CaptureLossTime(c) ==
  /\ At(c, "time")
  /\ Update(c, [Top(c) EXCEPT !.pc = "submit", !.time = lossTime])
  /\ UNCHANGED <<eventSeq, attempts, ring, lossTime, lossEpoch, statTime, failures>>

\* Header and body are written and the record is handed to the consumer.
SubmitRecord(c) ==
  /\ At(c, "submit")
  /\ \E i \in DOMAIN ring :
       /\ OwnSlot(c, i)
       /\ ring' = [ring EXCEPT ![i] =
            [@ EXCEPT !.state = "committed", !.epoch = Top(c).epoch,
                      !.time = Top(c).time, !.after = Top(c).after]]
  /\ Pop(c)
  /\ UNCHANGED <<eventSeq, attempts, lossTime, lossEpoch, statTime, failures>>

\* Writing the header or the body fails: the record will be discarded.
SubmitFail(c) ==
  /\ At(c, "submit")
  /\ Fail(c, "copy", "discard")
  /\ UNCHANGED <<eventSeq, attempts, ring, lossTime, lossEpoch, statTime, failures>>

DiscardRecord(c) ==
  /\ At(c, "discard")
  /\ \E i \in DOMAIN ring :
       /\ OwnSlot(c, i)
       /\ ring' = [ring EXCEPT ![i] = [@ EXCEPT !.state = "discarded"]]
  /\ Pop(c)
  /\ UNCHANGED <<eventSeq, attempts, lossTime, lossEpoch, statTime, failures>>
-----------------------------------------------------------------------------
StateLossesInFlight(c) == {i \in DOMAIN stack[c] : stack[c][i].kind = "state"}

\* A BPF map or task-storage update fails, or a pending syscall does not match
\* its exit: no record is lost, but the consumer's history is.
StateUpdateFail(c) ==
  /\ Len(stack[c]) < MaxNesting
  /\ failures[c]["state"] + Cardinality(StateLossesInFlight(c)) < MaxStateLosses
  /\ Bodies # {}
  /\ stack' = [stack EXCEPT ![c] = Append(@,
       [pc |-> "stamp", ret |-> "return", kind |-> "state", reg |-> 0,
        attempt |-> 0, seq |-> 0, body |-> CHOOSE b \in Bodies : TRUE,
        epoch |-> 0, time |-> FALSE, after |-> FALSE])]
  /\ UNCHANGED <<eventSeq, attempts, ring, lossTime, lossEpoch, statTime, failures>>

\* record_event_integrity_loss: the CPU's first-loss time ...
StampCPULoss(c) ==
  /\ At(c, "stamp")
  /\ statTime' = [statTime EXCEPT ![c] = TRUE]
  /\ Goto(c, "first")
  /\ UNCHANGED <<eventSeq, attempts, ring, lossTime, lossEpoch, failures>>

\* ... then the global first-loss time ...
StampGlobalLoss(c) ==
  /\ At(c, "first")
  /\ lossTime' = TRUE
  /\ Goto(c, "bump")
  /\ UNCHANGED <<eventSeq, attempts, ring, lossEpoch, statTime, failures>>

\* ... then the global loss epoch.
BumpLossEpoch(c) ==
  /\ At(c, "bump")
  /\ lossEpoch' = lossEpoch + 1
  /\ Goto(c, "load")
  /\ UNCHANGED <<eventSeq, attempts, ring, lossTime, statTime, failures>>

\* stats->counter++ is a plain load ...
LoadFailureCount(c) ==
  /\ At(c, "load")
  /\ Update(c, [Top(c) EXCEPT !.pc = "store", !.reg = failures[c][Top(c).kind]])
  /\ UNCHANGED <<eventSeq, attempts, ring, lossTime, lossEpoch, statTime, failures>>

\* ... and a plain store: an increment by an interrupting producer is overwritten.
StoreFailureCount(c) ==
  /\ At(c, "store")
  /\ failures' = [failures EXCEPT ![c][Top(c).kind] = Top(c).reg + 1]
  /\ IF Top(c).ret = "return" THEN Pop(c) ELSE Goto(c, Top(c).ret)
  /\ UNCHANGED <<eventSeq, attempts, ring, lossTime, lossEpoch, statTime>>

\* The steps of the producer on top of CPU c's stack.
ProducerStep(c) ==
  \/ ReserveRecord(c)
  \/ ReserveFail(c)
  \/ CapturePayload(c)
  \/ CaptureLossEpoch(c)
  \/ CaptureLossTime(c)
  \/ SubmitRecord(c)
  \/ SubmitFail(c)
  \/ DiscardRecord(c)
  \/ StampCPULoss(c)
  \/ StampGlobalLoss(c)
  \/ BumpLossEpoch(c)
  \/ LoadFailureCount(c)
  \/ StoreFailureCount(c)

ProducerNext ==
  \E c \in CPUs :
    \/ \E body \in Bodies : NextEventSequence(c, body)
    \/ StateUpdateFail(c)
    \/ ProducerStep(c)
=============================================================================
