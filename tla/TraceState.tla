----------------------------- MODULE TraceState -----------------------------
(***************************************************************************)
(* The consumer's correlation state: which enters wait for their exit,     *)
(* which exits wait for their enter, which waiting enters still have to be *)
(* printed as "unfinished", and which tasks are known to be alive.         *)
(*                                                                         *)
(* The state is one record and every operation of the code a function of   *)
(* it.  "dirty" is TraceState.tainted: TaintHistory sets it with the       *)
(* integrity owner's taint, before the record is routed.                   *)
(*                                                                         *)
(* Left out: signals, attach targets, exec argument text and suspended     *)
(* syscalls, the recycling of buffers, and fields that only describe a     *)
(* task in a report.  A payload is the set of calls it was captured from.  *)
(***************************************************************************)
EXTENDS TraceeTasks

CONSTANT DeferUnmatchedExits   \* enters are emitted, so an exit may wait for one

ASSUME DeferAssumption == DeferUnmatchedExits \in BOOLEAN

PendingEnters ==
  [sys : SyscallKinds, call : Nat, payload : SUBSET Nat, printed : BOOLEAN]

(***************************************************************************)
(* pending   pendingSyscalls                                               *)
(* exits     pendingExits: an exit, or the marker of an execve             *)
(* unqueued  candidates for an "unfinished" line                           *)
(* tasks     the task table: TGID, NoTid while it is unknown, or NoTask    *)
(* forks     pendingForks: the parent's TGID, or NoTid                     *)
(* dying     lifecyclePending                                              *)
(* exited    lifecycleExited holds the command                             *)
(***************************************************************************)
TraceStates ==
  [pending : [Tids -> PendingEnters \cup {NoCall}],
   exits : [Tids -> Bodies \cup {NoCall}],
   unqueued : SUBSET Tids,
   tasks : [Tids -> Tids \cup {NoTid, NoTask}],
   forks : [Tids -> Tids \cup {NoTid}],
   dying : SUBSET Tids,
   exited : BOOLEAN]

\* After the records of the command's first exec.
InitialState ==
  [pending |-> [t \in Tids |-> NoCall],
   exits |-> [t \in Tids |-> NoCall],
   unqueued |-> {},
   tasks |-> [t \in Tids |-> IF t = Target THEN Target ELSE NoTask],
   forks |-> [t \in Tids |-> NoTid],
   dying |-> {},
   exited |-> FALSE]
-----------------------------------------------------------------------------
\* What the dispatcher is given to handle as an exit: the call (as exit, or as
\* marker when it is the marker of an execve), the enter it was paired with (0:
\* none), the payload, and whether it was printed before.
Outputs ==
  [tid : Tids \cup {NoTid}, exit : Nat, marker : Nat, enter : Nat,
   payload : SUBSET Nat, resumed : BOOLEAN]

NoExit ==
  [tid |-> NoTid, exit |-> 0, marker |-> 0, enter |-> 0, payload |-> {},
   resumed |-> FALSE]

Paired(b, enter) ==
  [tid |-> b.tid, exit |-> b.call, marker |-> 0, enter |-> enter.call,
   payload |-> enter.payload, resumed |-> enter.printed]

Unpaired(b) ==
  IF b.kind = "exit" THEN [NoExit EXCEPT !.tid = b.tid, !.exit = b.call]
  ELSE [NoExit EXCEPT !.tid = b.tid, !.marker = b.call]

\* shouldTrackUnfinishedSyscall
Trackable(sys) == sys # "plain"

\* TaintHistory
TaintHistory(st) ==
  [st EXCEPT !.pending = InitialState.pending, !.exits = InitialState.exits,
             !.unqueued = {}, !.forks = InitialState.forks]

\* correlation.clearTask
ClearCorrelation(st, t) ==
  [st EXCEPT !.pending[t] = NoCall, !.exits[t] = NoCall]

\* TraceState.clearTaskPending
ClearTaskPending(st, t) ==
  [ClearCorrelation(st, t) EXCEPT !.unqueued = @ \ {t}, !.forks[t] = NoTid]

\* Any record that shows the TGID of a forked task settles its identity.
ResolveForkIdentity(st, t) == [st EXCEPT !.forks[t] = NoTid]

\* ensureTaskState
EnsureTask(st, t, group) == [st EXCEPT !.tasks[t] = group]

\* taskTIDForSyscall: the exit of a successful execve names the leader.
NotedTid(b) == IF b.execed THEN b.pid ELSE b.tid

NoteSyscallTask(st, b) == EnsureTask(st, NotedTid(b), b.pid)

RetireTask(st, t) == [ClearTaskPending(st, t) EXCEPT !.tasks[t] = NoTask]
-----------------------------------------------------------------------------
(***************************************************************************)
(* Syscall records.  An operation is given the state and the record, and   *)
(* returns the new state and what goes to the dispatcher.                  *)
(***************************************************************************)
Result(st, out) == [st |-> st, out |-> out]

\* The payload sections of an enter record.
EnterPayload(b) == IF b.sys \in {"plain", "exit"} THEN {} ELSE {b.call}

\* An enter of the syscall that is already pending only adds its payload.
RememberEnter(st, b, dirty) ==
  LET known == st.pending[b.tid] # NoCall /\ st.pending[b.tid].sys = b.sys IN
  IF known THEN [st EXCEPT !.pending[b.tid].payload = @ \cup EnterPayload(b)]
  ELSE [st EXCEPT
         !.pending[b.tid] =
           [sys |-> b.sys, call |-> b.call, payload |-> EnterPayload(b), printed |-> FALSE],
         !.unqueued = IF ~dirty /\ Trackable(b.sys) THEN @ \cup {b.tid} ELSE @ \ {b.tid}]

\* isExitView: the marker of an execve takes the exit's way, and is none.
IsExit(b) == b.kind = "exit"

\* Mutant of ConsumeEnter: a marker consumes the pending enter like an exit.
ConsumeEnterAlways(st, b, dirty) ==
  [st EXCEPT !.pending[b.tid] = NoCall, !.unqueued = @ \ {b.tid}]

\* Mutant of ConsumeEnter: the enter stays pending.
ConsumeEnterKeeps(st, b, dirty) == [st EXCEPT !.unqueued = @ \ {b.tid}]

\* consumeEnterEvent: the enter that is pending for an exit's TID goes in any
\* case, and so does the candidate; after a taint a different call takes the
\* TID's other state along.
ConsumeEnter(st, b, dirty) ==
  LET pending == st.pending[b.tid]
      stale == dirty /\ pending # NoCall /\ pending.call # b.call
      kept == IF stale THEN ClearCorrelation(st, b.tid) ELSE st
  IN  [kept EXCEPT !.pending[b.tid] = IF IsExit(b) THEN NoCall ELSE @,
                   !.unqueued = @ \ {b.tid}]

ConsumedEnter(st, b, dirty) ==
  LET pending == st.pending[b.tid] IN
  IF /\ IsExit(b)
     /\ pending # NoCall /\ pending.sys = b.sys
     /\ dirty => pending.call = b.call
  THEN pending ELSE NoCall

\* A terminating syscall waits for the task's exit record.
Terminate(st, b) ==
  IF b.sys = "exit"
  THEN ClearTaskPending([st EXCEPT !.dying = @ \cup {b.tid}], b.tid) ELSE st

\* handleSyscallEnter.  What waited for the TID goes; it is combined with the
\* enter only when it is the exit of the same call.
HandleEnter(st0, b, dirty) ==
  LET noted == NoteSyscallTask(ResolveForkIdentity(st0, b.tid), b)
      st == RememberEnter(IF dirty THEN ClearCorrelation(noted, b.tid) ELSE noted, b, dirty)
      waiting == st.exits[b.tid]
      taken == [st EXCEPT !.exits[b.tid] = NoCall]
      matches == waiting # NoCall /\ waiting.sys = b.sys /\ waiting.call = b.call
      rest == ConsumeEnter(taken, waiting, dirty)
      enter == ConsumedEnter(taken, waiting, dirty)
  IN  CASE ~matches -> Result(taken, NoExit)
        [] matches /\ enter = NoCall -> Result(rest, NoExit)
        [] matches /\ enter # NoCall ->
             Result(Terminate(rest, waiting), Paired(waiting, enter))

HandleFragment(st0, b, dirty) ==
  LET st == NoteSyscallTask(ResolveForkIdentity(st0, b.tid), b)
      pending == st.pending[b.tid]
  IN  IF pending # NoCall /\ pending.sys = b.sys /\ (dirty => pending.call = b.call)
      THEN Result([st EXCEPT !.pending[b.tid].payload = @ \cup {b.call}], NoExit)
      ELSE Result(st, NoExit)

\* The enter of an elided syscall is made up from its exit.
Synthesized(b) == [sys |-> b.sys, call |-> b.call, payload |-> {}, printed |-> FALSE]

\* handleSyscallExit, also of the marker of an execve.
HandleExit(st0, b, dirty) ==
  LET resolved == ResolveForkIdentity(st0, b.tid)
      consumed == ConsumedEnter(resolved, b, dirty)
      enter == IF consumed = NoCall /\ Elided(b.sys) THEN Synthesized(b) ELSE consumed
      rest == ConsumeEnter(resolved, b, dirty)
      st == IF enter = NoCall THEN NoteSyscallTask(rest, b) ELSE rest
  IN  CASE enter # NoCall -> Result(Terminate(st, b), Paired(b, enter))
        [] enter = NoCall /\ DeferUnmatchedExits /\ ~dirty ->
             Result([st EXCEPT !.exits[b.tid] = b], NoExit)
        [] OTHER -> Result(Terminate(st, b), Unpaired(b))
-----------------------------------------------------------------------------
(***************************************************************************)
(* Lifecycle records.                                                      *)
(***************************************************************************)
\* Mutant of HandleFork: the child is not entered in the task table.
HandleForkParentOnly(st, b, dirty) == Result(EnsureTask(st, b.tid, b.pid), NoExit)

\* applyFork: a followed child is alive before it has sent a record.
HandleFork(st, b, dirty) ==
  LET parent == EnsureTask(st, b.tid, b.pid)
      child == [parent EXCEPT !.tasks[b.new] = IF @ = NoTask THEN NoTid ELSE @]
      known == child.tasks[b.new] # NoTid
  IN  IF ~FollowForks THEN Result(parent, NoExit)
      ELSE Result([child EXCEPT !.forks[b.new] =
                     IF known THEN NoTid ELSE IF dirty THEN @ ELSE b.pid], NoExit)

\* applyExec: the entry moves from the old TID to the leader's.
HandleExec(st0, b, dirty) ==
  LET cleared == IF dirty
                 THEN ClearTaskPending(ClearTaskPending(st0, b.old), b.new) ELSE st0
      st == IF b.old # b.new THEN ClearTaskPending(cleared, b.new) ELSE cleared
      moved == [st EXCEPT !.tasks[b.old] = NoTask, !.tasks[b.new] = b.pid]
  IN  Result(ResolveForkIdentity(moved, b.old), NoExit)

\* LIFECYCLE_EXIT and LIFECYCLE_FREE: an exit that waits is handed on alone.
HandleTaskExit(st0, b) ==
  LET st == ResolveForkIdentity(st0, b.tid)
      waiting == st.exits[b.tid]
      ended == [st EXCEPT !.exited = @ \/ Target \in {b.pid, b.tid},
                          !.dying = @ \ {b.tid}]
  IN  Result(RetireTask(ended, b.tid), IF waiting = NoCall THEN NoExit ELSE Unpaired(waiting))

Handle(st, b, dirty) ==
  CASE b.kind = "enter" -> HandleEnter(st, b, dirty)
    [] b.kind = "syscall" -> HandleFragment(st, b, dirty)
    [] b.kind \in {"exit", "marker"} -> HandleExit(st, b, dirty)
    [] b.kind = "fork" -> HandleFork(st, b, dirty)
    [] b.kind = "exec" -> HandleExec(st, b, dirty)
    [] OTHER -> HandleTaskExit(st, b)
-----------------------------------------------------------------------------
(***************************************************************************)
(* "Unfinished" lines: a record of one task interrupts the line of others. *)
(***************************************************************************)
\* pendingForOtherTID
Unfinished(st, t) ==
  {u \in st.unqueued \ {t} :
     st.pending[u] # NoCall /\ ~st.pending[u].printed /\ Trackable(st.pending[u].sys)}

TakeUnfinished(st, t) == [st EXCEPT !.unqueued = @ \cap {t}]

\* Mutant of MarkUnfinishedPrinted: the pending enter is not marked.
MarkNothing(st, shown) == st

MarkUnfinishedPrinted(st, shown) ==
  [st EXCEPT !.pending = [u \in Tids |->
     IF u \in shown /\ @[u] # NoCall THEN [@[u] EXCEPT !.printed = TRUE] ELSE @[u]]]

\* Mutant of RequeueUnfinished: a view that was not shown is dropped.
RequeueNothing(st, views) == st

RequeueUnfinished(st, views) ==
  [st EXCEPT !.unqueued = @ \cup
     {u \in views : st.pending[u] # NoCall /\ ~st.pending[u].printed
                      /\ Trackable(st.pending[u].sys)}]

\* TargetLifecycleQuiescent
Quiescent(st, dirty) ==
  /\ \A t \in Tids : st.tasks[t] = NoTask
  /\ st.dying = {}
  /\ \A t \in Tids : st.forks[t] # Target
  /\ ~(FollowForks /\ dirty)
=============================================================================
