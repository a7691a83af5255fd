--------------------------- MODULE EventSequence ---------------------------
(***************************************************************************)
(* Unsigned sequence arithmetic shared by the BPF producers, which number  *)
(* every emission attempt of a CPU, and by the Go consumer, which compares *)
(* the numbers it reads with the number it expects.                        *)
(*                                                                         *)
(* The code uses uint64 counters.  Here the width is a parameter: counters *)
(* range over 0 .. SeqModulus - 1 and ForwardLimit is half that range, the *)
(* distance up to which a jump counts as "forward".                        *)
(***************************************************************************)
EXTENDS Integers

CONSTANTS CPUs,            \* the CPUs, each with a counter of its own
          ForwardLimit     \* traceSequenceForwardLimit, 2^63 in the code

ASSUME ForwardLimitAssumption == ForwardLimit \in Nat \ {0}

SeqModulus == 2 * ForwardLimit

SeqNumbers == 0 .. (SeqModulus - 1)

\* n + 1 in the counter's width.
SeqSucc(n) == IF n + 1 < SeqModulus THEN n + 1 ELSE 0

\* Mutant of SeqMinus: the difference is signed.
SeqMinusSigned(a, b) == a - b

\* a - b in the counter's width.
SeqMinus(a, b) == IF a >= b THEN a - b ELSE a + SeqModulus - b

\* The number an unbounded count shows through a counter of this width.
SeqImage(n) == n % SeqModulus
=============================================================================
