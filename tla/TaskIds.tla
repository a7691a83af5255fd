------------------------------ MODULE TaskIds ------------------------------
(***************************************************************************)
(* The thread ids that records, the tracees and the consumer share.        *)
(***************************************************************************)
CONSTANTS Tids,   \* thread ids, all nonzero
          NoTid,  \* thread id 0
          NoTask  \* a TID without an entry in a table of tasks

ASSUME TidsAssumption == NoTid \notin Tids /\ NoTask \notin Tids \cup {NoTid}
=============================================================================
