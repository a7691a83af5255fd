--------------------------- MODULE EventPipeline ---------------------------
(***************************************************************************)
(* One tracing session: the BPF producers, the shared ring buffer, the     *)
(* single Go goroutine that reads it, and the ways a session ends.  The    *)
(* producers stay attached until after the verdict, so they keep running   *)
(* while the consumer drains, reads the statistics and finalizes.          *)
(***************************************************************************)
EXTENDS EventProducer, TraceIntegrity

ASSUME PipelineAssumption == Bodies \subseteq EventBodies

VARIABLES
  phase,      \* where the run loop and the finalizer are
  statRead,   \* CPUs whose statistics have been copied
  statSeq,    \* the copied event_seq values
  statLoss,   \* whether the copied values show a failure or a loss time
  statCount,  \* history: attempts[c] when c's statistics were copied
  seen,       \* history: attempts of each CPU handed to Observe
  rejected    \* history: a record failed to decode

sessionVars == <<phase, statRead, statSeq, statLoss, statCount, seen, rejected>>
vars == <<producerVars, integrityVars, sessionVars>>

(***************************************************************************)
(* "run" is the read loop, "drain" the drain after the tracees are done,   *)
(* "stats" and "finished" the normal finish, "blind" the finish without    *)
(* statistics, "abandon" and "stopped" the stop a limit asked for.         *)
(***************************************************************************)
Reading == {"run", "drain"}
Ended == {"finished", "blind", "stopped"}
Phases == Reading \cup {"stats", "abandon"} \cup Ended

TypeOK ==
  /\ ProducerTypeOK
  /\ IntegrityTypeOK
  /\ phase \in Phases
  /\ statRead \subseteq CPUs
  /\ statSeq \in [CPUs -> SeqNumbers]
  /\ statLoss \in BOOLEAN
  /\ statCount \in [CPUs -> Nat]
  /\ seen \in [CPUs -> SUBSET Nat]
  /\ rejected \in BOOLEAN

Init ==
  /\ ProducerInit
  /\ IntegrityInit
  /\ phase = "run"
  /\ statRead = {}
  /\ statSeq = [c \in CPUs |-> 0]
  /\ statLoss = FALSE
  /\ statCount = [c \in CPUs |-> 0]
  /\ seen = [c \in CPUs |-> {}]
  /\ rejected = FALSE
-----------------------------------------------------------------------------
(***************************************************************************)
(* The reader.  It takes records in reservation order and waits at a       *)
(* record that is still being written.                                     *)
(***************************************************************************)
Readable == ring # <<>> /\ Head(ring).state # "busy"

TakeHead ==
  /\ phase \in Reading
  /\ Readable
  /\ ring' = Tail(ring)
  /\ UNCHANGED <<eventSeq, attempts, stack, lossTime, lossEpoch, statTime, failures>>

\* ReadInto steps over a discarded record.
SkipDiscarded ==
  /\ TakeHead
  /\ Head(ring).state = "discarded"
  /\ UNCHANGED <<integrityVars, sessionVars>>

\* A record decodes: the integrity owner sees it before any other state.
ConsumeRecord ==
  /\ TakeHead
  /\ Head(ring).state = "committed"
  /\ Head(ring).body.kind \notin {"malformed", "abi"}
  /\ Observe(Head(ring))
  /\ seen' = [seen EXCEPT ![Head(ring).cpu] = @ \cup {Head(ring).attempt}]
  /\ UNCHANGED <<phase, statRead, statSeq, statLoss, statCount, rejected>>

\* A record does not decode; the loop goes on.
ConsumeMalformed ==
  /\ TakeHead
  /\ Head(ring).state = "committed"
  /\ Head(ring).body.kind = "malformed"
  /\ InvalidRecord
  /\ rejected' = TRUE
  /\ UNCHANGED <<phase, statRead, statSeq, statLoss, statCount, seen>>

\* A record reports a syscall of a foreign ABI: it is not observed, no later
\* record is read, and the run finishes with the error.
ConsumeUnsupportedABI ==
  /\ TakeHead
  /\ Head(ring).state = "committed"
  /\ Head(ring).body.kind = "abi"
  /\ phase' = "stats"
  /\ UNCHANGED <<integrityVars, statRead, statSeq, statLoss, statCount, seen, rejected>>
-----------------------------------------------------------------------------
(***************************************************************************)
(* The end of a session.                                                   *)
(***************************************************************************)
\* The tracees are done (see README): the ring is flushed and drained.
StartDrain ==
  /\ phase = "run"
  /\ phase' = "drain"
  /\ UNCHANGED <<producerVars, integrityVars,
                 statRead, statSeq, statLoss, statCount, seen, rejected>>

\* Mutant of FinishDrain: the drain waits until every number has arrived.
FinishDrainComplete ==
  /\ phase = "drain"
  /\ ring = <<>>
  /\ \A c \in CPUs : seen[c] = 1 .. attempts[c]
  /\ phase' = "stats"
  /\ UNCHANGED <<producerVars, integrityVars,
                 statRead, statSeq, statLoss, statCount, seen, rejected>>

\* ReadInto reports ErrFlushed only at an empty ring: at a record that is still
\* being written it tries again.
FinishDrain ==
  /\ phase = "drain"
  /\ ring = <<>>
  /\ phase' = "stats"
  /\ UNCHANGED <<producerVars, integrityVars,
                 statRead, statSeq, statLoss, statCount, seen, rejected>>

\* A read error, a closed reader or a failed lifecycle refresh: no drain.
AbortRun ==
  /\ phase \in Reading
  /\ phase' = "stats"
  /\ UNCHANGED <<producerVars, integrityVars,
                 statRead, statSeq, statLoss, statCount, seen, rejected>>

\* The map lookup copies the per-CPU values one CPU after the other.
ReadCPUStats(c) ==
  /\ phase = "stats"
  /\ c \notin statRead
  /\ statRead' = statRead \cup {c}
  /\ statSeq' = [statSeq EXCEPT ![c] = eventSeq[c]]
  /\ statLoss' = (statLoss \/ statTime[c] \/ \E k \in FailureKinds : failures[c][k] # 0)
  /\ statCount' = [statCount EXCEPT ![c] = attempts[c]]
  /\ UNCHANGED <<producerVars, integrityVars, phase, seen, rejected>>

Finish ==
  /\ phase = "stats"
  /\ statRead = CPUs
  /\ Finalize(statSeq, statLoss)
  /\ phase' = "finished"
  /\ UNCHANGED <<producerVars, statRead, statSeq, statLoss, statCount, seen, rejected>>

\* The map lookup fails.
FinishWithoutStats ==
  /\ phase = "stats"
  /\ FinalizeWithoutStats
  /\ phase' = "blind"
  /\ UNCHANGED <<producerVars, statRead, statSeq, statLoss, statCount, seen, rejected>>

\* A syscall limit or detach-on-execve ends the loop without a drain.
IntentionalStop ==
  /\ phase = "run"
  /\ phase' = "abandon"
  /\ UNCHANGED <<producerVars, integrityVars,
                 statRead, statSeq, statLoss, statCount, seen, rejected>>

AbandonUnconfirmedSequenceGaps ==
  /\ phase = "abandon"
  /\ \/ /\ \E g \in DOMAIN groups : AbandonGroup(g)
        /\ UNCHANGED phase
     \/ /\ OnlyConfirmedGaps
        /\ phase' = "stopped"
        /\ UNCHANGED integrityVars
  /\ UNCHANGED <<producerVars, statRead, statSeq, statLoss, statCount, seen, rejected>>

Consume == SkipDiscarded \/ ConsumeRecord \/ ConsumeMalformed \/ ConsumeUnsupportedABI

FinishStep ==
  \/ FinishDrain
  \/ \E c \in CPUs : ReadCPUStats(c)
  \/ Finish
  \/ FinishWithoutStats
  \/ AbandonUnconfirmedSequenceGaps

EndRun == StartDrain \/ AbortRun \/ IntentionalStop

\* Bound: on each CPU fewer than ForwardLimit (2^63) numbers are handed out
\* from the oldest one that has not arrived on.
SequenceWindow ==
  \A c \in CPUs : \A n \in (1 .. attempts[c]) \ seen[c] :
    attempts'[c] - n + 1 < ForwardLimit

Produce ==
  /\ ProducerNext
  /\ SequenceWindow
  /\ UNCHANGED <<integrityVars, sessionVars>>

Next == Produce \/ Consume \/ EndRun \/ FinishStep

Spec == Init /\ [][Next]_vars

(***************************************************************************)
(* A BPF program that has started runs to its end, and the reader keeps    *)
(* reading what is readable and finishing what it has begun to finish.     *)
(* Nothing forces a tracee to issue a syscall or the run to end.           *)
(***************************************************************************)
Fairness ==
  /\ \A c \in CPUs : WF_vars(ProducerStep(c) /\ UNCHANGED <<integrityVars, sessionVars>>)
  /\ WF_vars(Consume)
  /\ WF_vars(FinishStep)

FairSpec == Spec /\ Fairness
-----------------------------------------------------------------------------
(***************************************************************************)
(* What the session promises.                                              *)
(***************************************************************************)
\* The gaps of a CPU (event_integrity_sequence.go) hold exactly the numbers
\* below the newest one that no record has brought: a nested producer that
\* arrives late is taken out, and nothing else is.
GapsExact ==
  phase \notin {"abandon", "stopped"} => GapsMatch(seen)

\* EstimatedLost and StreamGaps of the snapshot agree with the gap intervals
\* at all times: every number is counted once and every jump once, through
\* late arrivals and the abandonment at an intentional stop.
EstimateExact == EstimateMatchesGaps

\* Attempts of CPU c up to n that were never handed to Observe.
Unseen(c, n) == (1 .. n) \ seen[c]

\* A finish with statistics and no taint (run_finalizer.go, Finalize) means
\* that the domain state saw every attempt the statistics count, that no
\* record was rejected and that no copied counter shows a loss.
CleanVerdictComplete ==
  phase = "finished" /\ ~tainted =>
    /\ \A c \in CPUs : Unseen(c, statCount[c]) = {}
    /\ ~rejected
    /\ ~statLoss

\* A session is tainted only for cause: while it reads, a recorded loss or a
\* rejected record, never the mere reordering of nested producers; at the
\* finish also a number the statistics count and no record brought.
TaintJustified ==
  tainted =>
    \/ \E c \in CPUs : statTime[c]
    \/ rejected
    \/ phase = "blind"
    \/ phase = "finished" /\ \E c \in CPUs : Unseen(c, statCount[c]) # {}

\* After an intentional stop (FinalizeAtIntentionalStop) gaps and lost records
\* are reported only by a tainted session.
StoppedReport ==
  phase = "stopped" /\ (streamGaps > 0 \/ estimatedLost > 0) => tainted

\* The loss barrier (event_integrity.h): a record whose emission began after
\* some loss had been recorded is never handed on by an untainted session,
\* whatever CPU the loss happened on.
LossBarrier ==
  [][\A c \in CPUs : seen'[c] # seen[c] /\ Head(ring).after => tainted']_vars

\* The backpressure contract of doc/arch.md: once nothing is in flight, every
\* attempt is a record that was read or a failure that a counter shows.  Only
\* this direction is stated: a copy failure may also be counted for a record
\* that was read, without one of its sections.
BackpressureContract ==
  phase = "run" /\ ring = <<>> /\ (\A c \in CPUs : Idle(c)) =>
    \A c \in CPUs :
      attempts[c] <= Cardinality(seen[c]) + failures[c]["reserve"] + failures[c]["copy"]

\* If the tracees stop issuing records, a run that has begun to end reaches its
\* verdict, whatever was lost: Drain gets to an empty ring past discarded
\* records and past records that are still being written, and neither it nor
\* the accounting waits for a number that was lost.  While records keep coming,
\* nothing in Drain bounds it.
FinishReached ==
  <>[][UNCHANGED attempts]_vars => (phase # "run" ~> phase \in Ended)

\* The session implements the abstract stream: every number is delivered to the
\* domain state at most once, and a clean verdict means that all numbers the
\* statistics count were delivered.
Stream == INSTANCE LossyStream WITH
  emitted <- attempts,
  delivered <- seen,
  counted <- statRead,
  count <- statCount,
  verdict <- CASE phase \in Reading -> "open"
               [] phase = "stats" -> "closing"
               [] phase \in {"abandon", "stopped"} -> "stopped"
               [] phase \in {"finished", "blind"} ->
                    IF tainted THEN "tainted" ELSE "clean"

ImplementsLossyStream == Stream!StreamSpec
=============================================================================
