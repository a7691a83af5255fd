--------------------------- MODULE TraceIntegrity ---------------------------
(***************************************************************************)
(* The consumer's integrity owner.  For every record, before any domain    *)
(* state sees it, it compares the record's per-CPU number with the one it  *)
(* expects, keeps the numbers it skipped as unresolved gaps, and decides   *)
(* whether the session's history can still be trusted ("tainted").         *)
(*                                                                         *)
(* A record is [cpu, seq, epoch, time, body]: the CPU that emitted it, its *)
(* number, the loss epoch its header carries and whether the header        *)
(* carries a first-loss time.  A body is [kind, tid, call, old, new]: call *)
(* stands for the triple (sys_id, enter_time, args) by which an exit       *)
(* matches its enter; old and new are the TIDs a lifecycle record names.   *)
(*                                                                         *)
(* Left out: counters that only describe a report (discontinuities,        *)
(* reorders, positions, names), and headers of the old 56-byte layout,     *)
(* which no program under bpf/ writes.                                     *)
(***************************************************************************)
EXTENDS EventSequence, TaskIds, FiniteSetsExt

VARIABLES
  sequence,       \* cpus[cpu].sequence, 0 for a CPU not yet seen
  gaps,           \* cpus[cpu].gaps: intervals of numbers not yet seen
  groups,         \* the traceSequenceGapGroup of each forward jump, named by
                  \* the record that detected it
  records,        \* records handed to Observe or InvalidRecord
  tainted,        \* snapshot.Tainted
  taintEpoch,     \* snapshot.Epoch
  seenEpoch,      \* snapshot.LossEpoch
  streamGaps,     \* snapshot.StreamGaps
  estimatedLost,  \* snapshot.EstimatedLost
  unobservedTail, \* snapshot.UnobservedTail, split by CPU
  tasks           \* the per-TID correlation trust

sequenceVars == <<sequence, gaps, groups, streamGaps, estimatedLost>>
taintVars == <<tainted, taintEpoch>>
integrityVars ==
  <<sequence, gaps, groups, records, tainted, taintEpoch, seenEpoch,
    streamGaps, estimatedLost, unobservedTail, tasks>>

GroupStates == [cpu : CPUs, remaining : Nat, confirmed : BOOLEAN]

Gaps == [first : SeqNumbers, last : SeqNumbers, group : Nat]

BodyKinds ==
  {"enter", "marker", "syscall", "exit", "fork", "exec", "taskexit", "free",
   "malformed", "abi"}

EventBodies ==
  [kind : BodyKinds, tid : Tids \cup {NoTid}, call : Nat,
   old : Tids \cup {NoTid}, new : Tids \cup {NoTid}]

TaskStates ==
  [epoch : Nat, clean : BOOLEAN, candidate : BOOLEAN, call : Nat]

SequenceTypeOK ==
  /\ sequence \in [CPUs -> SeqNumbers]
  /\ gaps \in [CPUs -> SUBSET Gaps]
  /\ DOMAIN groups \subseteq 1 .. records
  /\ groups \in [DOMAIN groups -> GroupStates]
  /\ \A c \in CPUs : \A gap \in gaps[c] : gap.group \in DOMAIN groups
  /\ streamGaps \in Nat
  /\ estimatedLost \in Nat

TaintTypeOK ==
  /\ tainted \in BOOLEAN
  /\ taintEpoch \in Nat
  /\ tasks \in [Tids -> TaskStates \cup {NoTask}]

IntegrityTypeOK ==
  /\ SequenceTypeOK
  /\ TaintTypeOK
  /\ records \in Nat
  /\ seenEpoch \in Nat
  /\ unobservedTail \in [CPUs -> SeqNumbers]

IntegrityInit ==
  /\ sequence = [c \in CPUs |-> 0]
  /\ gaps = [c \in CPUs |-> {}]
  /\ groups = [g \in {} |-> 0]
  /\ records = 0
  /\ tainted = FALSE
  /\ taintEpoch = 0
  /\ seenEpoch = 0
  /\ streamGaps = 0
  /\ estimatedLost = 0
  /\ unobservedTail = [c \in CPUs |-> 0]
  /\ tasks = [t \in Tids |-> NoTask]
-----------------------------------------------------------------------------
(***************************************************************************)
(* Sequence accounting.                                                    *)
(***************************************************************************)
\* Mutant of Covers: the last number of a gap is left out.
CoversOpen(gap, n) == gap.first <= n /\ n < gap.last

Covers(gap, n) == gap.first <= n /\ n <= gap.last

\* The numbers of CPU c that some gap still waits for.
Missing(c) == {n \in SeqNumbers : \E gap \in gaps[c] : Covers(gap, n)}

\* The first record of a CPU is expected to be number 1.
Expected(c) == SeqSucc(sequence[c])

\* How far ahead of the expected number a record is.
Ahead(ev) == SeqMinus(ev.seq, Expected(ev.cpu))

\* Mutant of SkippedIntervals: the interval is not cut at the wrap.
SkippedUncut(first, next, group) ==
  {[first |-> first, last |-> SeqMinus(next, 1), group |-> group]}

\* The interval first .. next - 1, cut in two where the counter wraps.
SkippedIntervals(first, next, group) ==
  LET last == SeqMinus(next, 1) IN
  IF first <= last
  THEN {[first |-> first, last |-> last, group |-> group]}
  ELSE {[first |-> first, last |-> SeqModulus - 1, group |-> group],
        [first |-> 0, last |-> last, group |-> group]}

\* Mutant of WithoutNumber: the numbers above n are forgotten.
BelowNumber(gap, n) ==
  {rest \in {[gap EXCEPT !.last = n - 1]} : rest.first <= rest.last}

\* What is left of a gap once number n has arrived.
WithoutNumber(gap, n) ==
  {rest \in {[gap EXCEPT !.last = n - 1], [gap EXCEPT !.first = n + 1]} :
     rest.first <= rest.last}

InOrder(ev) ==
  /\ ev.seq = Expected(ev.cpu)
  /\ sequence' = [sequence EXCEPT ![ev.cpu] = ev.seq]
  /\ UNCHANGED <<gaps, groups, streamGaps, estimatedLost>>

\* Mutant of ForwardJump: every jump counts as confirmed producer loss.
ForwardJumpConfirmed(ev, confirmed) ==
  LET group == records + 1 IN
  /\ ev.seq # Expected(ev.cpu)
  /\ Ahead(ev) < ForwardLimit
  /\ sequence' = [sequence EXCEPT ![ev.cpu] = ev.seq]
  /\ gaps' = [gaps EXCEPT ![ev.cpu] =
       @ \cup SkippedIntervals(Expected(ev.cpu), ev.seq, group)]
  /\ groups' = [g \in DOMAIN groups \cup {group} |->
       IF g = group
       THEN [cpu |-> ev.cpu, remaining |-> Ahead(ev), confirmed |-> TRUE]
       ELSE groups[g]]
  /\ streamGaps' = streamGaps + 1
  /\ estimatedLost' = estimatedLost + Ahead(ev)

\* addSequenceGap: the skipped numbers form a new group.  The record that
\* detects it confirms it when it carries new evidence of producer loss.
ForwardJump(ev, confirmed) ==
  LET group == records + 1 IN
  /\ ev.seq # Expected(ev.cpu)
  /\ Ahead(ev) < ForwardLimit
  /\ sequence' = [sequence EXCEPT ![ev.cpu] = ev.seq]
  /\ gaps' = [gaps EXCEPT ![ev.cpu] =
       @ \cup SkippedIntervals(Expected(ev.cpu), ev.seq, group)]
  /\ groups' = [g \in DOMAIN groups \cup {group} |->
       IF g = group
       THEN [cpu |-> ev.cpu, remaining |-> Ahead(ev), confirmed |-> confirmed]
       ELSE groups[g]]
  /\ streamGaps' = streamGaps + 1
  /\ estimatedLost' = estimatedLost + Ahead(ev)

\* Mutant of Reordered: each late number closes a whole jump.
ReorderedClosesJump(ev) ==
  /\ Ahead(ev) >= ForwardLimit
  /\ \E gap \in gaps[ev.cpu] :
       /\ Covers(gap, ev.seq)
       /\ gaps' = [gaps EXCEPT ![ev.cpu] =
            (@ \ {gap}) \cup WithoutNumber(gap, ev.seq)]
       /\ groups' = [groups EXCEPT ![gap.group].remaining = @ - 1]
       /\ estimatedLost' = estimatedLost - 1
       /\ streamGaps' = IF streamGaps # 0 THEN streamGaps - 1 ELSE streamGaps
  /\ UNCHANGED sequence

\* resolveSequenceGap: a smaller number that a gap waits for.
Reordered(ev) ==
  /\ Ahead(ev) >= ForwardLimit
  /\ \E gap \in gaps[ev.cpu] :
       LET left == groups[gap.group].remaining IN
       /\ Covers(gap, ev.seq)
       /\ gaps' = [gaps EXCEPT ![ev.cpu] =
            (@ \ {gap}) \cup WithoutNumber(gap, ev.seq)]
       /\ groups' = [groups EXCEPT ![gap.group].remaining =
            IF left = 0 THEN 0 ELSE left - 1]
       /\ estimatedLost' =
            IF left # 0 /\ estimatedLost # 0 THEN estimatedLost - 1 ELSE estimatedLost
       /\ streamGaps' =
            IF left = 1 /\ streamGaps # 0 THEN streamGaps - 1 ELSE streamGaps
  /\ UNCHANGED sequence

\* A smaller number nobody waits for: a duplicate or an impossible record.
OutOfPlace(ev) ==
  /\ Ahead(ev) >= ForwardLimit
  /\ \A gap \in gaps[ev.cpu] : ~Covers(gap, ev.seq)

\* Every call of taintAt opens a new epoch.
Taint(n) ==
  /\ tainted' = (tainted \/ n > 0)
  /\ taintEpoch' = taintEpoch + n
-----------------------------------------------------------------------------
(***************************************************************************)
(* Correlation trust per TID: lost when a task's entry belongs to an older *)
(* taint epoch, regained by a generic enter and its own exit.              *)
(***************************************************************************)
FreshTask(epoch) ==
  [epoch |-> epoch, clean |-> FALSE, candidate |-> FALSE, call |-> 0]

\* The zero value a Go map returns for a missing entry.
TaskEntry(t) == IF tasks[t] = NoTask THEN FreshTask(0) ELSE tasks[t]

\* Mutant of SyscallTrust: trust survives a loss.
SyscallTrustAcrossLoss(body, epoch, dirty) ==
  LET task == [TaskEntry(body.tid) EXCEPT !.epoch = epoch]
      clean == task.clean \/ ~dirty
      matched == task.candidate /\ task.call = body.call
  IN  CASE body.kind = "enter" ->
             [task EXCEPT !.clean = clean, !.candidate = TRUE, !.call = body.call]
        [] body.kind = "exit" ->
             [task EXCEPT !.clean = clean \/ matched, !.candidate = FALSE]
        [] OTHER -> [task EXCEPT !.clean = clean]

SyscallTrust(body, epoch, dirty) ==
  LET entry == TaskEntry(body.tid)
      task == IF entry.epoch # epoch THEN FreshTask(epoch) ELSE entry
      clean == task.clean \/ ~dirty
      matched == task.candidate /\ task.call = body.call
  IN  CASE body.kind = "enter" ->
             [task EXCEPT !.clean = clean, !.candidate = TRUE, !.call = body.call]
        [] body.kind = "exit" ->
             [task EXCEPT !.clean = clean \/ matched, !.candidate = FALSE]
        [] OTHER -> [task EXCEPT !.clean = clean]

\* The entry a fork or exec record installs.
AdoptedTask(epoch, dirty) == [FreshTask(epoch) EXCEPT !.clean = ~dirty]

\* observeTask: epoch and dirty are the values after this record's taint.
ObservedTasks(body, epoch, dirty) ==
  CASE body.tid = NoTid -> tasks
    [] body.kind \in {"taskexit", "free"} /\ body.tid # NoTid ->
         [tasks EXCEPT ![body.tid] = NoTask]
    [] body.kind = "exec" /\ body.tid # NoTid ->
         LET adopted == IF body.new = NoTid THEN body.tid ELSE body.new IN
         [t \in Tids |-> IF t = adopted THEN AdoptedTask(epoch, dirty)
                         ELSE IF t = body.old THEN NoTask ELSE tasks[t]]
    [] body.kind = "fork" /\ body.tid # NoTid ->
         [t \in Tids |-> IF t = body.new THEN AdoptedTask(epoch, dirty) ELSE tasks[t]]
    [] OTHER -> [tasks EXCEPT ![body.tid] = SyscallTrust(body, epoch, dirty)]

\* A TID whose pairs cannot be trusted.
CorrelationTainted(t) ==
  tainted /\ (tasks[t] = NoTask \/ tasks[t].epoch # taintEpoch \/ ~tasks[t].clean)
-----------------------------------------------------------------------------
(***************************************************************************)
(* The operations of TraceIntegrity.                                       *)
(***************************************************************************)
\* Mutant of ProducerLoss: the first-loss time is ignored.
ProducerLossByEpoch(ev) == ev.epoch > seenEpoch

\* Mutant of ProducerLoss: a jump is taken for a loss.
ProducerLossOrJump(ev) ==
  ev.epoch > seenEpoch \/ (ev.time /\ ~tainted) \/ ev.seq # Expected(ev.cpu)

\* New evidence of producer loss: a newer epoch, or a loss time while clean.
ProducerLoss(ev) == ev.epoch > seenEpoch \/ (ev.time /\ ~tainted)

Observe(ev) ==
  /\ records' = records + 1
  /\ seenEpoch' = IF ev.epoch > seenEpoch THEN ev.epoch ELSE seenEpoch
  /\ \/ /\ InOrder(ev) \/ ForwardJump(ev, ProducerLoss(ev)) \/ Reordered(ev)
        /\ Taint(IF ProducerLoss(ev) THEN 1 ELSE 0)
     \/ /\ OutOfPlace(ev)
        /\ Taint(1)
        /\ UNCHANGED sequenceVars
  /\ tasks' = ObservedTasks(ev.body, taintEpoch', tainted')
  /\ UNCHANGED unobservedTail

InvalidRecord ==
  /\ records' = records + 1
  /\ Taint(1)
  /\ UNCHANGED <<sequenceVars, seenEpoch, unobservedTail, tasks>>

\* firstUnresolvedSequenceGap finds something.
Unresolved ==
  \E c \in CPUs : \E gap \in gaps[c] : groups[gap.group].remaining # 0

\* Mutant of UnobservedAt: a CPU that no record came from is skipped.
UnobservedIfSeen(c, seqs) ==
  LET delta == SeqMinus(seqs[c], sequence[c]) IN
  IF sequence[c] # 0 /\ delta < ForwardLimit THEN delta ELSE 0

\* Numbers handed out on CPU c that no record has shown.
UnobservedAt(c, seqs) ==
  LET delta == SeqMinus(seqs[c], sequence[c]) IN
  IF delta < ForwardLimit THEN delta ELSE 0

\* Mutant of Finalize: the unobserved tail is reported but does not taint.
FinalizeDespiteTail(seqs, evidence) ==
  /\ Taint(IF ~tainted /\ (evidence \/ Unresolved) THEN 1 ELSE 0)
  /\ unobservedTail' = [c \in CPUs |-> UnobservedAt(c, seqs)]
  /\ UNCHANGED <<sequenceVars, records, seenEpoch, tasks>>

\* Finalize with readable statistics: seqs are the CPUs' counters, evidence
\* tells whether any failure counter or loss time is set.
Finalize(seqs, evidence) ==
  LET tail == \E c \in CPUs : UnobservedAt(c, seqs) > 0
      late == ~tainted /\ (evidence \/ Unresolved)
  IN  /\ Taint((IF late THEN 1 ELSE 0) + (IF tail THEN 1 ELSE 0))
      /\ unobservedTail' = [c \in CPUs |-> UnobservedAt(c, seqs)]
      /\ UNCHANGED <<sequenceVars, records, seenEpoch, tasks>>

\* Finalize when the statistics cannot be read.
FinalizeWithoutStats ==
  /\ Taint(1)
  /\ UNCHANGED <<sequenceVars, records, seenEpoch, unobservedTail, tasks>>

\* Mutant of AbandonGroup: only the interval that was found goes.
AbandonInterval(g) ==
  /\ ~groups[g].confirmed
  /\ \E c \in CPUs : \E gap \in gaps[c] :
       /\ gap.group = g
       /\ gaps' = [gaps EXCEPT ![c] = @ \ {gap}]
  /\ streamGaps' = IF streamGaps # 0 THEN streamGaps - 1 ELSE 0
  /\ estimatedLost' =
       IF groups[g].remaining <= estimatedLost THEN estimatedLost - groups[g].remaining ELSE 0
  /\ UNCHANGED <<sequence, groups, records, tainted, taintEpoch, seenEpoch,
                 unobservedTail, tasks>>

\* One round of abandonUnconfirmedSequenceGaps: an unconfirmed group leaves
\* the estimate, and all its intervals go.
AbandonGroup(g) ==
  /\ ~groups[g].confirmed
  /\ \E c \in CPUs : \E gap \in gaps[c] : gap.group = g
  /\ gaps' = [c \in CPUs |-> {gap \in gaps[c] : gap.group # g}]
  /\ streamGaps' = IF streamGaps # 0 THEN streamGaps - 1 ELSE 0
  /\ estimatedLost' =
       IF groups[g].remaining <= estimatedLost THEN estimatedLost - groups[g].remaining ELSE 0
  /\ UNCHANGED <<sequence, groups, records, tainted, taintEpoch, seenEpoch,
                 unobservedTail, tasks>>

\* Nothing is left to abandon.
OnlyConfirmedGaps ==
  \A c \in CPUs : \A gap \in gaps[c] : groups[gap.group].confirmed
-----------------------------------------------------------------------------
(***************************************************************************)
(* What the accounting says about the stream, given the set of attempts of *)
(* each CPU that Observe has been handed.                                  *)
(***************************************************************************)
GapsMatch(observed) ==
  \A c \in CPUs :
    LET newest == Max(observed[c] \cup {0}) IN
    /\ sequence[c] = SeqImage(newest)
    /\ Missing(c) = {SeqImage(n) : n \in (1 .. newest) \ observed[c]}

EstimateMatchesGaps ==
  /\ estimatedLost = MapThenSumSet(LAMBDA c : Cardinality(Missing(c)), CPUs)
  /\ streamGaps = Cardinality({gap.group : gap \in UNION {gaps[c] : c \in CPUs}})
=============================================================================
