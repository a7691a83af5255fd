--------------------------- MODULE MCEventPipeline ---------------------------
(***************************************************************************)
(* EventPipeline for TLC.  The bodies carry no TID: correlation trust is   *)
(* the subject of other models.                                            *)
(***************************************************************************)
EXTENDS EventPipeline, TLC

MCBody(kind) ==
  [kind |-> kind, tid |-> NoTid, call |-> 0, old |-> NoTid, new |-> NoTid]

MCBodies == {MCBody("syscall")}

MCAllBodies == {MCBody(kind) : kind \in {"syscall", "malformed", "abi"}}

Symmetry == Permutations(CPUs)
=============================================================================
