---------------------------- MODULE TraceeTasks ----------------------------
(***************************************************************************)
(* The traced tasks and the BPF programs that run in their context: the    *)
(* sys_enter and sys_exit programs, the sched_process_* programs, and the  *)
(* state these keep (the pending syscall in task storage, filter_map,      *)
(* pending_exec_map).                                                      *)
(*                                                                         *)
(* A kernel event of a task fixes the program the task then runs: records  *)
(* to emit and the pending syscall to save, in order.  A task does nothing *)
(* else while its program is not finished; other tasks do.                 *)
(*                                                                         *)
(* Left out: signals, attach bookkeeping, tasks before their first exec,   *)
(* the fork flags of unfollowed children, main_exited_map, and failing     *)
(* updates of pending_exec_map.  Enters are emitted (CONFIG_EMIT_ENTER).   *)
(***************************************************************************)
EXTENDS TaskIds, Integers, Sequences

CONSTANTS
  Target,       \* the command: leader of the first thread group
  NoCall,       \* no syscall
  NoStorage,    \* a task without task storage
  Syscalls,     \* the syscalls the tasks may issue
  Selected,     \* those should_trace_syscall or fd-state tracking selects
  FollowForks,  \* CONFIG_FOLLOW_FORKS
  ElidePlain,   \* CONFIG_ELIDE_PLAIN_ENTER, for "plain" syscalls
  MaxCalls      \* bound: syscalls issued

(***************************************************************************)
(* "plain" stands for the stable non-blocking syscalls without payload,    *)
(* "io" for one whose enter is followed by a payload fragment, "clone",    *)
(* "exec" and "exit" for the ones that create, replace and end tasks.  All *)
(* but "plain" and "exit" carry a payload in their enter.                  *)
(***************************************************************************)
SyscallKinds == {"plain", "io", "clone", "exec", "exit"}

ASSUME TasksAssumption ==
  /\ Target \in Tids
  /\ Syscalls \subseteq SyscallKinds
  /\ Selected \subseteq Syscalls
  /\ FollowForks \in BOOLEAN
  /\ ElidePlain \in BOOLEAN
  /\ MaxCalls \in Nat

VARIABLES
  alive,        \* tasks that have not begun to exit
  tgid,         \* the thread group of each task
  call,         \* the syscall each task is in
  calls,        \* syscalls issued so far; a call's number is its enter time
  storage,      \* pending_task_storage: the pending syscall of each task
  filter,       \* filter_map: TIDs with FILTER_TASK_TRACKED
  pendingExec,  \* pending_exec_map: thread group -> thread in execve
  unfreed,      \* dead TIDs still in filter_map when sched_process_free comes
  program       \* what is left of the program each task runs

taskVars ==
  <<alive, tgid, call, calls, storage, filter, pendingExec, unfreed, program>>

\* "spent": a clone has created its task; "traced": its enter was in scope.
Calls == [id : Nat, sys : SyscallKinds, spent : BOOLEAN, traced : BOOLEAN]

Pendings == [tid : Tids, pid : Tids, id : Nat, sys : SyscallKinds]

\* "enter" has EVENT_FLAG_GENERIC_ENTER; "marker" is the second enter record
\* of an execve, without that flag and with the return value -514.
Bodies ==
  [kind : {"enter", "marker", "syscall", "exit", "fork", "exec", "taskexit", "free"},
   tid : Tids, pid : Tids, call : Nat, sys : SyscallKinds \cup {NoCall},
   execed : BOOLEAN, old : Tids \cup {NoTid}, new : Tids \cup {NoTid}]

Steps ==
  [op : {"emit"}, body : Bodies] \cup [op : {"save", "arm"}, pending : Pendings]

TasksTypeOK ==
  /\ alive \subseteq Tids
  /\ tgid \in [Tids -> Tids]
  /\ call \in [Tids -> Calls \cup {NoCall}]
  /\ calls \in 0 .. MaxCalls
  /\ storage \in [Tids -> Pendings \cup {NoCall, NoStorage}]
  /\ filter \subseteq Tids
  /\ pendingExec \in [Tids -> Tids \cup {NoTid}]
  /\ unfreed \subseteq Tids
  /\ program \in [Tids -> Seq(Steps)]

\* The command after its first exec.
TasksInit ==
  /\ alive = {Target}
  /\ tgid = [t \in Tids |-> t]
  /\ call = [t \in Tids |-> NoCall]
  /\ calls = 0
  /\ storage = [t \in Tids |-> NoStorage]
  /\ filter = {Target}
  /\ pendingExec = [t \in Tids |-> NoTid]
  /\ unfreed = {}
  /\ program = [t \in Tids |-> <<>>]
-----------------------------------------------------------------------------
\* A new task runs after the fork program of its parent.
Unborn(t) ==
  \E u \in Tids \ {t} :
    /\ program[u] # <<>>
    /\ Head(program[u]).op = "emit"
    /\ Head(program[u]).body.kind = "fork"
    /\ Head(program[u]).body.new = t

Runs(t) == t \in alive /\ program[t] = <<>> /\ ~Unborn(t)

\* lookup_lifecycle_task_filter_flags finds the group's or the task's entry.
Tracked(t) == tgid[t] \in filter \/ t \in filter

Valid(pending) == pending \notin {NoCall, NoStorage}

\* clear_pending_task_state on the storage of task t.
Cleared(t) == IF storage[t] = NoStorage THEN NoStorage ELSE NoCall

Emit(body) == <<[op |-> "emit", body |-> body]>>

Save(pending) == <<[op |-> "save", pending |-> pending]>>

SyscallRecord(kind, pending) ==
  [kind |-> kind, tid |-> pending.tid, pid |-> pending.pid, call |-> pending.id,
   sys |-> pending.sys, execed |-> FALSE, old |-> NoTid, new |-> NoTid]

\* The exit of a successful execve, emitted by trace_sched_process_exec.
ExecCompletion(pending) == [SyscallRecord("exit", pending) EXCEPT !.execed = TRUE]

LifecycleRecord(kind, t, pid, old, new) ==
  [kind |-> kind, tid |-> t, pid |-> pid, call |-> 0, sys |-> NoCall,
   execed |-> FALSE, old |-> old, new |-> new]

\* enter_exec of a thread writes pending_exec_map once more at its end.
Arm(pending) ==
  IF pending.tid = pending.pid THEN <<>> ELSE <<[op |-> "arm", pending |-> pending]>>

Start(t, steps) == program' = [program EXCEPT ![t] = steps]

\* plain_enter_elide_map lists the syscall.
Elided(sys) == ElidePlain /\ sys = "plain"

EnterRecord(pending) == Emit(SyscallRecord("enter", pending))

\* enter_no_payload_generic
EnterPlain(pending) ==
  (IF Elided(pending.sys) THEN <<>> ELSE EnterRecord(pending)) \o Save(pending)

\* enter_clone3, and every family that sends its payload with the enter.
EnterWithPayload(pending) == EnterRecord(pending) \o Save(pending)

\* enter_iovec: the pending is saved before the program that sends the
\* fragment is called, because tail calls do not return.
EnterIovec(pending) ==
  EnterRecord(pending) \o Save(pending) \o Emit(SyscallRecord("syscall", pending))

\* enter_terminating: the exit is emitted at once and nothing is pending.
EnterTerminating(pending) ==
  EnterRecord(pending) \o Emit(SyscallRecord("exit", pending))

\* emit_exec_enter_event_v2_direct: the enter, then the restart marker.
ExecEnterRecords(pending) ==
  EnterRecord(pending) \o Emit(SyscallRecord("marker", pending))

\* enter_exec
EnterExec(pending) == ExecEnterRecords(pending) \o Save(pending) \o Arm(pending)

\* The tail call through enter_routes.
EnterProgram(pending) ==
  CASE pending.sys = "plain" -> EnterPlain(pending)
    [] pending.sys = "io" -> EnterIovec(pending)
    [] pending.sys = "clone" -> EnterWithPayload(pending)
    [] pending.sys = "exec" -> EnterExec(pending)
    [] pending.sys = "exit" -> EnterTerminating(pending)

\* trace_sys_enter: an execve of a thread is armed before the selection.
SysEnter(t, sys) ==
  LET pending == [tid |-> t, pid |-> tgid[t], id |-> calls + 1, sys |-> sys] IN
  /\ Runs(t)
  /\ call[t] = NoCall
  /\ calls < MaxCalls
  /\ calls' = calls + 1
  /\ call' = [call EXCEPT ![t] =
       [id |-> calls + 1, sys |-> sys, spent |-> FALSE, traced |-> Tracked(t)]]
  /\ pendingExec' = IF sys = "exec" /\ t # tgid[t] /\ Tracked(t)
                    THEN [pendingExec EXCEPT ![tgid[t]] = t] ELSE pendingExec
  /\ Start(t, IF Tracked(t) /\ sys \in Selected THEN EnterProgram(pending) ELSE <<>>)
  /\ UNCHANGED <<alive, tgid, storage, filter, unfreed>>

\* A step of the program that saves the pending syscall.
SavePending(t) ==
  /\ program[t] # <<>>
  /\ Head(program[t]).op = "save"
  /\ storage' = [storage EXCEPT ![t] = Head(program[t]).pending]
  /\ Start(t, Tail(program[t]))
  /\ UNCHANGED <<alive, tgid, call, calls, filter, pendingExec, unfreed>>

\* Task storage can only fail to be created: record_pending_update_fail.
SavePendingFail(t) ==
  /\ program[t] # <<>>
  /\ Head(program[t]).op = "save"
  /\ storage[t] = NoStorage
  /\ Start(t, Tail(program[t]))
  /\ UNCHANGED <<alive, tgid, call, calls, storage, filter, pendingExec, unfreed>>

ArmExec(t) ==
  /\ program[t] # <<>>
  /\ Head(program[t]).op = "arm"
  /\ pendingExec' = [pendingExec EXCEPT ![tgid[t]] = t]
  /\ Start(t, Tail(program[t]))
  /\ UNCHANGED <<alive, tgid, call, calls, storage, filter, unfreed>>

\* The record at the head of the program is emitted or lost.
EmitStep(t) ==
  /\ program[t] # <<>>
  /\ Head(program[t]).op = "emit"
  /\ Start(t, Tail(program[t]))
  /\ UNCHANGED <<alive, tgid, call, calls, storage, filter, pendingExec, unfreed>>

\* trace_sys_exit goes on to the handler of the syscall.
ExitSelected(t) == Tracked(t) /\ call[t].sys \in Selected

\* The handler finds a pending syscall; without one it counts an orphan exit.
ExitTraced(t) == ExitSelected(t) /\ Valid(storage[t])

\* validate_pending_syscall_exit fails: record_pending_mismatch.
ExitMismatch(t) ==
  ExitTraced(t) /\ ~(storage[t].sys = call[t].sys /\ storage[t].tid = t)

\* consume_pending_syscall of a thread's execve, and a mismatch, drop the arm.
ExitDisarms(t) ==
  ExitMismatch(t) \/ (ExitTraced(t) /\ storage[t].sys = "exec" /\ t # tgid[t])

\* Mutant of SysExit: the pending syscall is not consumed.
SysExitKeepsPending(t) ==
  /\ Runs(t)
  /\ call[t] # NoCall
  /\ call[t].sys # "exit"
  /\ call' = [call EXCEPT ![t] = NoCall]
  /\ Start(t, IF ExitTraced(t) /\ ~ExitMismatch(t)
              THEN Emit(SyscallRecord("exit", storage[t])) ELSE <<>>)
  /\ UNCHANGED <<alive, tgid, calls, storage, filter, pendingExec, unfreed>>

\* The exit handler, for an execve only when it fails.
SysExit(t) ==
  /\ Runs(t)
  /\ call[t] # NoCall
  /\ call[t].sys # "exit"
  /\ call' = [call EXCEPT ![t] = NoCall]
  /\ storage' = IF ExitTraced(t) THEN [storage EXCEPT ![t] = NoCall] ELSE storage
  /\ pendingExec' =
       IF ExitDisarms(t) THEN [pendingExec EXCEPT ![tgid[t]] = NoTid] ELSE pendingExec
  /\ Start(t, IF ExitTraced(t) /\ ~ExitMismatch(t)
              THEN Emit(SyscallRecord("exit", storage[t])) ELSE <<>>)
  /\ UNCHANGED <<alive, tgid, calls, filter, unfreed>>
-----------------------------------------------------------------------------
\* trace_sched_process_fork, in the parent and before the child runs.
\* installed: the child's filter was installed.
Fork(t, child, group, installed) ==
  /\ Runs(t)
  /\ call[t] # NoCall
  /\ call[t].sys = "clone" /\ ~call[t].spent
  /\ child \notin alive \cup unfreed
  /\ program[child] = <<>>
  /\ \A u \in alive : tgid[u] # child
  /\ group \in {tgid[t], child}
  /\ installed => FollowForks /\ Tracked(t)
  /\ alive' = alive \cup {child}
  /\ tgid' = [tgid EXCEPT ![child] = group]
  /\ call' = [call EXCEPT ![t] = [@ EXCEPT !.spent = TRUE], ![child] = NoCall]
  /\ storage' = [storage EXCEPT ![child] = NoStorage]
  /\ filter' = IF installed THEN filter \cup {child} ELSE filter
  /\ Start(t, IF Tracked(t) THEN Emit(LifecycleRecord("fork", t, tgid[t], NoTid, child))
              ELSE <<>>)
  /\ UNCHANGED <<calls, pendingExec, unfreed>>

\* Mutant of Replaced: the arm is taken for the leader's own execve.
ReplacedBySelf(t) == t = tgid[t] /\ pendingExec[t] = t

\* is_exec_replaced_leader: some thread of the group is thought to be in execve.
Replaced(t) == t = tgid[t] /\ pendingExec[t] \notin {NoTid, t}

\* trace_sched_process_exit: at the end of an exit, or of a killed task.
TaskExit(t) ==
  LET recorded == Tracked(t) /\ ~Replaced(t) IN
  /\ Runs(t)
  /\ alive' = alive \ {t}
  /\ call' = [call EXCEPT ![t] = NoCall]
  /\ storage' = IF Tracked(t) THEN [storage EXCEPT ![t] = Cleared(t)] ELSE storage
  /\ filter' = IF recorded THEN filter \ {t} ELSE filter
  /\ pendingExec' =
       IF recorded /\ (t = tgid[t] \/ pendingExec[tgid[t]] = t)
       THEN [pendingExec EXCEPT ![tgid[t]] = NoTid] ELSE pendingExec
  /\ Start(t, IF recorded THEN Emit(LifecycleRecord("taskexit", t, tgid[t], NoTid, NoTid))
              ELSE <<>>)
  /\ unfreed' = IF Tracked(t) /\ Replaced(t) THEN unfreed \cup {t} ELSE unfreed
  /\ UNCHANGED <<tgid, calls>>

\* adopt_exec_task_tracking has to move the filter to the leader's TID.
AdoptsFilter(t) == t # tgid[t] /\ tgid[t] \notin filter /\ t \in filter

\* trace_sched_process_exec.  The rest of the group is gone; the task takes the
\* leader's TID, and the replaced leader is freed under the task's old TID.
ExecSucceeds(t, adopted) ==
  LET leader == tgid[t]
      tracked == leader \in filter \/ (AdoptsFilter(t) /\ adopted)
      completes == tracked /\ Valid(storage[t]) /\ storage[t].sys = "exec"
      kept == IF completes THEN NoCall ELSE storage[t]
      completion == IF completes THEN Emit(ExecCompletion(storage[t])) ELSE <<>>
  IN
  /\ Runs(t)
  /\ call[t] # NoCall
  /\ call[t].sys = "exec"
  /\ \A u \in Tids \ {t} : tgid[u] = leader => u \notin alive /\ program[u] = <<>>
  /\ adopted \/ AdoptsFilter(t)
  /\ alive' = (alive \ {t}) \cup {leader}
  /\ call' = [call EXCEPT ![t] = NoCall, ![leader] = NoCall]
  /\ storage' = [storage EXCEPT ![t] = NoStorage, ![leader] = kept]
  /\ filter' = IF AdoptsFilter(t) /\ adopted THEN (filter \ {t}) \cup {leader} ELSE filter
  /\ pendingExec' = IF tracked THEN [pendingExec EXCEPT ![leader] = NoTid] ELSE pendingExec
  /\ unfreed' = IF t = leader THEN unfreed ELSE (unfreed \ {leader}) \cup {t}
  /\ Start(leader, IF tracked
                   THEN completion \o Emit(LifecycleRecord("exec", leader, leader, t, leader))
                   ELSE <<>>)
  /\ UNCHANGED <<tgid, calls>>

\* trace_sched_process_free runs in the context of any task.  A TID that is not
\* in the filter is left alone.
TaskFree(t, current) ==
  /\ t \in unfreed
  /\ \A u \in alive : tgid[u] # t
  /\ current \in alive \cup {NoTid}
  /\ unfreed' = unfreed \ {t}
  /\ storage' = IF t \in filter /\ current # NoTid
                THEN [storage EXCEPT ![current] = Cleared(current)] ELSE storage
  /\ pendingExec' = IF t \in filter THEN [pendingExec EXCEPT ![t] = NoTid] ELSE pendingExec
  /\ filter' = filter \ {t}
  /\ Start(t, IF t \in filter THEN Emit(LifecycleRecord("free", t, t, NoTid, NoTid))
              ELSE <<>>)
  /\ UNCHANGED <<alive, tgid, call, calls>>
=============================================================================
