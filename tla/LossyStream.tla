---------------------------- MODULE LossyStream ----------------------------
(***************************************************************************)
(* What an event stream with loss accounting promises its user, without    *)
(* sequence numbers, gaps, epochs or a ring buffer: every attempt is       *)
(* delivered at most once, nothing is delivered once the session has begun *)
(* to close, and a clean verdict covers every attempt that had been made   *)
(* on a CPU when that CPU was counted.                                     *)
(***************************************************************************)
EXTENDS Naturals

CONSTANT CPUs

VARIABLES emitted,    \* attempts made on each CPU
          delivered,  \* attempts handed to the user of the stream
          counted,    \* CPUs counted while closing
          count,      \* attempts made on a CPU when it was counted
          verdict     \* "open", "closing", "clean", "tainted" or "stopped"

streamVars == <<emitted, delivered, counted, count, verdict>>

StreamInit ==
  /\ emitted = [c \in CPUs |-> 0]
  /\ delivered = [c \in CPUs |-> {}]
  /\ counted = {}
  /\ count = [c \in CPUs |-> 0]
  /\ verdict = "open"

Emit(c) ==
  /\ emitted' = [emitted EXCEPT ![c] = @ + 1]
  /\ UNCHANGED <<delivered, counted, count, verdict>>

Deliver(c, n) ==
  /\ verdict = "open"
  /\ n \notin delivered[c]
  /\ delivered' = [delivered EXCEPT ![c] = @ \cup {n}]
  /\ UNCHANGED <<emitted, counted, count, verdict>>

Close ==
  /\ verdict = "open"
  /\ verdict' \in {"closing", "stopped"}
  /\ UNCHANGED <<emitted, delivered, counted, count>>

Count(c) ==
  /\ verdict = "closing"
  /\ c \notin counted
  /\ counted' = counted \cup {c}
  /\ count' = [count EXCEPT ![c] = emitted[c]]
  /\ UNCHANGED <<emitted, delivered, verdict>>

DeclareClean ==
  /\ verdict = "closing"
  /\ counted = CPUs
  /\ \A c \in CPUs : 1 .. count[c] \subseteq delivered[c]
  /\ verdict' = "clean"
  /\ UNCHANGED <<emitted, delivered, counted, count>>

DeclareTainted ==
  /\ verdict = "closing"
  /\ verdict' = "tainted"
  /\ UNCHANGED <<emitted, delivered, counted, count>>

StreamNext ==
  \/ \E c \in CPUs : Emit(c) \/ Count(c)
  \/ \E c \in CPUs : \E n \in 1 .. emitted[c] : Deliver(c, n)
  \/ Close
  \/ DeclareClean
  \/ DeclareTainted

StreamSpec == StreamInit /\ [][StreamNext]_streamVars
=============================================================================
