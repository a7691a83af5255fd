---------------------------- MODULE SyscallTrace ----------------------------
(***************************************************************************)
(* From the tracees' kernel events to the exits the dispatcher prints: the *)
(* BPF programs, the integrity owner and the correlation state together.   *)
(*                                                                         *)
(* A record is emitted, read, observed and routed in one step, or lost in  *)
(* one step.  The ring keeps the order of the records and the consumer     *)
(* only depends on that order, so its lag changes nothing here; how a      *)
(* record and the evidence of a loss travel is the subject of              *)
(* EventPipeline.                                                          *)
(***************************************************************************)
EXTENDS TraceState, TraceIntegrity

CONSTANT MaxLosses   \* bound: losses and failed updates

ASSUME MaxLossesAssumption == MaxLosses \in Nat

VARIABLES
  eventSeq,   \* event_seq of each CPU
  lossEpoch,  \* event_loss_state.epoch
  st,         \* TraceState
  out,        \* what this step handed to the dispatcher
  printed     \* history: calls shown as unfinished

consumerVars == <<integrityVars, st, printed>>
vars == <<taskVars, integrityVars, eventSeq, lossEpoch, st, out, printed>>

\* Every variable holds a value of its kind.
TypeOK ==
  /\ TasksTypeOK
  /\ IntegrityTypeOK
  /\ eventSeq \in [CPUs -> SeqNumbers]
  /\ lossEpoch \in Nat
  /\ st \in TraceStates
  /\ out \in Outputs
  /\ printed \subseteq 1 .. MaxCalls

Init ==
  /\ TasksInit
  /\ IntegrityInit
  /\ eventSeq = [c \in CPUs |-> 0]
  /\ lossEpoch = 0
  /\ st = InitialState
  /\ out = NoExit
  /\ printed = {}
-----------------------------------------------------------------------------
\* next_event_sequence
NumberRecord(c) == eventSeq' = [eventSeq EXCEPT ![c] = SeqSucc(@)]

\* record_event_integrity_loss, in a step that fails.
RecordLoss == lossEpoch < MaxLosses /\ lossEpoch' = lossEpoch + 1

\* TraceScope.AllowsEvent, of a command that was started.
AllowsEvent(body) == FollowForks \/ Target \in {body.pid, body.tid}

\* The router: state, then the unfinished lines, then the event itself.
\* shown: the views the text output accepts.
HandleEnvelope(body) ==
  LET clean == IF taintEpoch' = taintEpoch THEN st ELSE TaintHistory(st)
      views == Unfinished(clean, body.tid)
      handled == Handle(TakeUnfinished(clean, body.tid), body, tainted')
  IN  \E shown \in SUBSET views :
        /\ st' = RequeueUnfinished(MarkUnfinishedPrinted(handled.st, shown), views)
        /\ printed' = printed \cup {clean.pending[u].call : u \in shown}
        /\ out' = handled.out

\* HandleRecord: the integrity owner sees a record before the router does.
Deliver(t, c) ==
  LET body == Head(program[t]).body
      ev == [cpu |-> c, seq |-> SeqSucc(eventSeq[c]), epoch |-> lossEpoch,
             time |-> lossEpoch > 0, body |-> body]
  IN  /\ EmitStep(t)
      /\ NumberRecord(c)
      /\ Observe(ev)
      /\ IF AllowsEvent(body) THEN HandleEnvelope(body)
         ELSE out' = NoExit /\ UNCHANGED <<st, printed>>
      /\ UNCHANGED lossEpoch

\* The record cannot be reserved or copied.
Lose(t, c) ==
  /\ EmitStep(t)
  /\ NumberRecord(c)
  /\ RecordLoss
  /\ out' = NoExit
  /\ UNCHANGED consumerVars

\* A step of a task that emits nothing; failed: it records a loss.
Silent(failed) ==
  /\ IF failed THEN RecordLoss ELSE UNCHANGED lossEpoch
  /\ out' = NoExit
  /\ UNCHANGED <<consumerVars, eventSeq>>

Next ==
  \E t \in Tids :
    \/ \E c \in CPUs : Deliver(t, c)
    \/ \E c \in CPUs : Lose(t, c)
    \/ \E sys \in Syscalls : SysEnter(t, sys) /\ Silent(FALSE)
    \/ SavePending(t) /\ Silent(FALSE)
    \/ SavePendingFail(t) /\ Silent(TRUE)
    \/ ArmExec(t) /\ Silent(FALSE)
    \/ SysExit(t) /\ Silent(ExitMismatch(t))
    \/ \E child, group \in Tids, installed \in BOOLEAN :
         /\ Fork(t, child, group, installed)
         /\ Silent(FollowForks /\ Tracked(t) /\ ~installed)
    \/ TaskExit(t) /\ Silent(FALSE)
    \/ \E adopted \in BOOLEAN : ExecSucceeds(t, adopted) /\ Silent(~adopted)
    \/ \E current \in Tids \cup {NoTid} : TaskFree(t, current) /\ Silent(FALSE)

Spec == Init /\ [][Next]_vars
-----------------------------------------------------------------------------
(***************************************************************************)
(* Properties.                                                             *)
(***************************************************************************)
\* Whatever was lost, an exit is only ever combined with the enter and the
\* payload fragments of the same call: a stale pending enter that survived a
\* loss, or one of another syscall on the same TID, is never used.
PairSound ==
  out.enter # 0 => out.enter = out.exit /\ out.payload \subseteq {out.exit}

\* An exit of a TID whose correlation counts as trusted has its enter: a TID
\* that regains trust after a loss does so with its enter still pending.
TrustedPaired ==
  out.exit # 0 /\ ~CorrelationTainted(out.tid) => out.enter # 0

\* In a clean session nothing but the marker of an execve waits in pendingExits.
\* The marker goes the way of an exit (handleSyscallExit) with the syscall, the
\* time and the arguments of its enter, and must leave that enter for the exit
\* that follows; a lost enter taints the session before its exit is looked at.
OnlyMarkersWait ==
  ~tainted => \A t \in Tids : st.exits[t] # NoCall => st.exits[t].kind = "marker"

\* A call is resumed exactly when it was shown as unfinished before.
ResumedIffUnfinished == out.enter # 0 => (out.resumed <=> out.exit \in printed)

\* The marker of the execve that is pending for task t has been handled.
Marked(t) ==
  /\ st.pending[t] # NoCall
  /\ st.exits[t] # NoCall
  /\ st.exits[t].call = st.pending[t].call

\* In a clean session every pending call that may block and has not been shown
\* is a candidate for the next unfinished line: requeueing loses none.  The one
\* exception is an execve whose marker was handled: consumeEnterEvent keeps its
\* enter and deletes the candidate, so no later record shows it as unfinished.
UnfinishedQueued ==
  ~tainted =>
    st.unqueued = {t \in Tids : /\ st.pending[t] # NoCall
                                /\ Trackable(st.pending[t].sys)
                                /\ ~st.pending[t].printed
                                /\ ~Marked(t)}

\* When the consumer takes the command's exit and an empty task table for the
\* end of the trace, no traced task is left.
QuiescentSound ==
  st.exited /\ Quiescent(st, tainted) => \A t \in alive : ~Tracked(t)

\* The pending syscall in task storage is that of the call its task is in,
\* from the end of the enter program to the exit of the call.
PendingOwned ==
  \A t \in alive :
    Tracked(t) /\ program[t] = <<>> =>
      IF call[t] # NoCall /\ call[t].traced /\ call[t].sys \in Selected \ {"exit"}
      THEN \/ storage[t] = NoStorage
           \/ Valid(storage[t]) /\ storage[t].id = call[t].id /\ storage[t].tid = t
      ELSE ~Valid(storage[t])

\* The filter of a thread group survives an execve that was entered under it,
\* also one that ends the leader whose TID carries the filter: after the exec
\* the group is still traced, unless a failed update was recorded.
ExecTrackingSurvives ==
  [][\A t \in Tids, adopted \in BOOLEAN :
       ExecSucceeds(t, adopted) /\ adopted /\ call[t].traced =>
         tgid[t] \in filter']_vars

\* The next record of task t is the marker of an execve.
MarkerNext(t) ==
  /\ program[t] # <<>>
  /\ Head(program[t]).op = "emit"
  /\ Head(program[t]).body.kind = "marker"

\* A marker that is read reaches the exec output (trace_event_v2_decoder.go:
\* it must not be swallowed "before the exec output state machine can consume
\* it"), that is, it is handed to the dispatcher when it is handled.
MarkerReachesOutput ==
  [][\A t \in Tids :
       MarkerNext(t) /\ records' # records /\ program'[t] # program[t] =>
         out'.marker = Head(program[t]).body.call]_vars
=============================================================================
