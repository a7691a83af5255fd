--------------------------- MODULE SequenceStream ---------------------------
(***************************************************************************)
(* The sequence accounting on its own, fed by a stream that numbers its    *)
(* records per CPU and delivers them in any order within the window a      *)
(* 64-bit counter leaves, or not at all.  Without the producers' steps the *)
(* counter can be taken past its wrap.                                     *)
(***************************************************************************)
EXTENDS TraceIntegrity

CONSTANTS MaxEmitted,   \* bound: numbers handed out per CPU
          MaxDisorder   \* bound: numbers handed out and not delivered

ASSUME StreamAssumption ==
  MaxEmitted \in Nat /\ MaxDisorder \in Nat /\ MaxDisorder + 1 < ForwardLimit

VARIABLES emitted,      \* numbers handed out on each CPU, never wrapping
          observed,     \* history: those handed to Observe
          stopped       \* the accounting is being abandoned

vars == <<integrityVars, emitted, observed, stopped>>

Init ==
  /\ IntegrityInit
  /\ emitted = [c \in CPUs |-> 0]
  /\ observed = [c \in CPUs |-> {}]
  /\ stopped = FALSE

Outstanding(c) == (1 .. emitted[c]) \ observed[c]

\* Bound: a number is handed out only while all outstanding ones are recent.
Emit(c) ==
  /\ emitted[c] < MaxEmitted
  /\ \A n \in Outstanding(c) : emitted[c] + 1 - n <= MaxDisorder
  /\ emitted' = [emitted EXCEPT ![c] = @ + 1]
  /\ UNCHANGED <<integrityVars, observed, stopped>>

\* Whether the header shows a producer loss is left open.
Deliver(c, n, epoch) ==
  /\ ~stopped
  /\ n \in Outstanding(c)
  /\ Observe([cpu |-> c, seq |-> SeqImage(n), epoch |-> epoch, time |-> epoch > 0,
              body |-> [kind |-> "syscall", tid |-> NoTid, call |-> 0,
                        old |-> NoTid, new |-> NoTid]])
  /\ observed' = [observed EXCEPT ![c] = @ \cup {n}]
  /\ UNCHANGED <<emitted, stopped>>

Stop ==
  /\ ~stopped
  /\ stopped' = TRUE
  /\ UNCHANGED <<integrityVars, emitted, observed>>

Abandon ==
  /\ stopped
  /\ \E g \in DOMAIN groups : AbandonGroup(g)
  /\ UNCHANGED <<emitted, observed, stopped>>

Next ==
  \/ \E c \in CPUs : Emit(c)
  \/ \E c \in CPUs : \E n \in Outstanding(c) : \E epoch \in 0 .. 1 : Deliver(c, n, epoch)
  \/ Stop
  \/ Abandon

Spec == Init /\ [][Next]_vars
-----------------------------------------------------------------------------
\* While it reads, the gaps of event_integrity_sequence.go hold exactly the
\* numbers skipped and not yet brought, whatever the order of arrival and
\* whether or not the counter has wrapped.
WrappedGapsExact == ~stopped => GapsMatch(observed)

\* EstimatedLost and StreamGaps count those numbers and jumps exactly, also
\* when a gap is cut in two by the wrap and when gaps are abandoned.
WrappedEstimateExact == EstimateMatchesGaps

\* No order of arrival within the window makes a record look like a
\* duplicate: the session is tainted only when a header showed a loss.
ReorderingNeverTaints == tainted => seenEpoch > 0
=============================================================================
