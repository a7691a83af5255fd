# strace-go: TLA+ models and proofs

strace-go traces system calls with eBPF. BPF programs (`bpf/`, C) run in the
context of the traced tasks and write records to one ring buffer. A single Go
goroutine (`cmd/strace-go/`) reads the records, pairs the enters and exits of
system calls, follows forks, execs and exits, and prints. The ring is finite,
so records can be lost. Whether the program notices, and what it still claims
afterwards, is the core of this project.

## Inventory

| Part | Source | State | Models |
|---|---|---|---|
| Record producer | `bpf/event_integrity.h`, `runtime_stats.h`, `syscall_event_core_v2.h`, `*_event_v2.h` | per-CPU counter and statistics, global loss state | `EventSequence`, `EventProducer` |
| Ring buffer | kernel, external | reserved records in order | `EventProducer`, `EventPipeline` |
| Reader, finalizer, run loop | `event_reader.go`, `run_finalizer.go`, `bpf_stats.go`, `session_run.go` | phase of the session | `EventPipeline` (the choice to end is open) |
| Integrity owner | `event_integrity*.go` | gaps, taint, trust per TID | `TraceIntegrity`, `SequenceStream` |
| Tracees, pending state, lifecycle programs | `strace.c`, `pending_state.h`, `lifecycle_*.h`, `*_dispatch.h` | task storage, `filter_map`, `pending_exec_map` | `TraceeTasks` |
| Correlation and task table | `event_state*.go`, `event_syscall_correlation.go`, `event_unfinished_state.go`, `event_task_lifecycle.go` | pending enters, unfinished candidates, tasks, forks | `TraceState` |
| Router, scope | `event_router.go`, `trace_scope.go` | none of their own | `SyscallTrace` |
| Command exit status, attach targets, stop conditions, target start, cleanup | `exit_status_queue.go`, `event_attach_state.go`, `syscall_limit.go`, `target_*.go`, `trace_cleanup.go` | small state machines | planned |
| FD and path state | `fd_*.go`, `process_state.go` | FD tables per process | planned |
| Decoder | `trace_event_v2_decoder.go`, `event_payload_tlv.go` | none | verdict only; bounds planned |
| Payload capture, handlers, formatting, output, CLI, generators | `bpf/*capture*`, `pkg/`, `cmd/generate-*` | none between events | not modelled |

`PROJECT.json` lists all components with reasons, and the hazards at their
lines.

## Modules

**Event stream.** `EventSequence` is the per-CPU counter with its wrap;
`ForwardLimit` is half its range (2^63 in the code). `EventProducer` has one
action for each step at which another program can interfere: number, reserve,
capture payload, read loss epoch, read loss time, submit or discard; and, for a
loss, stamp the CPU, stamp the global time, bump the epoch, load and store the
failure counter. A CPU has a stack of producers, because one may interrupt
another. `TraceIntegrity` is the Go integrity owner: `Observe` (gaps, groups,
taint, trust), `Finalize`, and the abandonment of gaps at an intentional stop.
`EventPipeline` composes both with the reader and the finalizer and keeps
history variables (`attempts`, `seen`, `statCount`) for the properties.
`LossyStream` is the abstract contract, and `EventPipeline` refines it.
`SequenceStream` feeds the accounting alone, so that the counter can be taken
past its wrap.

**System calls.** `TraceeTasks` has the tasks of the tracee and the BPF programs
they run. A kernel event fixes a program, a list of steps (emit, save, arm)
that other tasks interleave with. `TraceState` is the Go correlation state as
operators on a record. `SyscallTrace` joins them with `TraceIntegrity`: a record
is delivered or lost. It has no ring queue, since the consumer depends only on
the order of the records. A call carries a number that stands for its syscall
id, arguments and enter time. Kinds of syscalls are `plain` (its enter may be
elided), `io` (payload fragments, may block), `clone`, `exec`, `exit`, each with
the enter program its route leads to (`EnterProgram`). An `exec` sends two enter
records: the generic enter, and the restart marker (return value -514, no
generic flag), which the consumer sends down the exit's path although it is not
an exit.

`TaskIds` declares the constants these modules share.

## Runs

| Run | Distinct states | Checks |
|---|---|---|
| `pipeline_nested` | 1.7 million | `TypeOK`; `GapsExact`, `EstimateExact`: gap accounting is exact at all times; `StoppedReport`; `CleanVerdictComplete` |
| `pipeline_smp` | 1.4 million | `LossBarrier`; `ImplementsLossyStream` |
| `pipeline_rejects` | 1.8 million | `TaintJustified`: reordering alone never taints |
| `pipeline_live` | 29 thousand | `FinishReached`: once producers stop starting records, a drain ends in a verdict |
| `sequence_stream` | 393 thousand | `WrappedGapsExact`, `WrappedEstimateExact`: exactness across the wrap; `ReorderingNeverTaints` |
| `trace_follow` | 1.0 million | `TypeOK`, `PairSound`, `TrustedPaired`, `QuiescentSound` |
| `trace_exec` | 165 thousand | `OnlyMarkersWait`: without a loss no exit is put by for want of its enter; `ResumedIffUnfinished`, `UnfinishedQueued`, `PendingOwned`, `ExecTrackingSurvives` |
| `pipeline_backpressure` | violated | `BackpressureContract` |
| `trace_two_execs` | violated | `ExecTrackingSurvives` |
| `trace_free` | violated | `PendingOwned` |
| `trace_marker` | violated | `MarkerReachesOutput` |

**Bounds.** `pipeline_nested`: one CPU, three attempts, three nested producers,
enough for a gap, a late record that closes it and a loss at the tail. A late
record that splits a gap in the middle takes more numbers and is reached in
`sequence_stream` only.
`pipeline_smp`: two CPUs, one attempt each and one failed state update, enough
for a loss on one CPU to race the header of another and for statistics copied
one CPU at a time; gaps need two attempts per CPU and are the subject of
`pipeline_nested`. `sequence_stream`: range 10, 14 numbers, up to 3 outstanding,
so that the counter wraps once and gaps span the wrap. `trace_follow`: two tasks, three calls, two losses,
and a counter that wraps. `trace_exec`: two tasks, three calls, one loss.
The violation runs use the smallest instance that shows the behaviour.
`SequenceWindow` in `EventPipeline` keeps outstanding numbers within half the
counter's range, which 64-bit counters never leave. `MaxAttempts`,
`MaxNesting`, `MaxStateLosses`, `MaxCalls`, `MaxLosses`, `MaxEmitted` and
`MaxDisorder` are bounds of the models, not of the code. Deadlock is not
checked, since sessions end and bounds are used up.

**Fairness.** Only `pipeline_live` assumes any: a BPF program that has started
runs to its end (the kernel guarantees it), the reader takes what is readable,
and the finalizer goes on. Nothing forces a tracee to issue a call or a run to
end. `FinishReached` has a premise besides: from some moment on no producer
starts a record. `Drain` returns only at an empty ring, so while traced tasks
keep filling it nothing in the code bounds the drain. What the property adds is
that no record that is reserved late, discarded or nested keeps a drain from
its end.

## Proofs

TLAPS proves, for every number of CPUs, nesting depth, ring capacity and bound:

- `EventPipelineProofs`, `TypeCorrect`: `Spec => []TypeOK`. Its lemmas
  `StackShape` and `RingShape` say what a producer step does to stack and ring,
  and the other modules use them.
- `CleanVerdictProofs`, `CleanVerdict`: `Spec => []CleanVerdictComplete` when the
  counter does not wrap (`NoWrap`). The verdict looks at counts, so the invariant
  `CleanInv` ties them to the numbers: producers number by attempt (`Numbered`);
  the gaps of a CPU are disjoint and below its newest number (`GapShape`); every
  number below it was observed or is in a gap (`Coverage`); the remaining count
  of a group is the number of numbers its gaps hold (`GroupCount`).
- `LossBarrierProofs`, `LossBarrierHolds`: `Spec => LossBarrier`. The invariant
  `BarrierInv` follows the loss time from the global state through the header
  of a producer into the ring.

The assumptions are those of the modules (`ForwardLimitAssumption`,
`ProducerAssumption`, `PipelineAssumption`, `TidsAssumption`).

Only model-checked: liveness (out of the prover's reach); everything about
wraps; `GapsExact`, `EstimateExact`, `StoppedReport` and `TaintJustified`; the
refinement; and all properties of `SyscallTrace`.

## Findings

1. `pipeline_backpressure`: the failure counters are incremented with a plain
   `++`. A producer nested between load and store loses its increment, so the
   account of `doc/arch.md:351-355` does not close. The sequence numbers still
   show the loss.
2. `trace_two_execs`: two threads of a group in `execve` share one entry of
   `pending_exec_map`. The failing one deletes it (`bpf/pending_state.h:130`).
   The other's success then looks like an ordinary exit of the leader and
   removes the filter; without `-f` the rest of the trace is missing.
3. `trace_free`: `trace_sched_process_free` clears the pending syscall of the
   *current* task (`bpf/lifecycle_dispatch.h:152`), not of the freed one. With
   `-f`, after a thread other than the leader execs, this hits a live task. Its
   exit is dropped without a loss epoch, so the session stays clean.
4. `trace_marker`: a session that emits enters defers exits without an enter.
   The restart marker of an `execve` consumes no enter (it is not an exit), so
   it is deferred like one (`event_state_dispatch.go:139`), and the dispatcher
   passes no deferred update on. It is dropped at the next generic enter of its
   TID, or handed on when the task ends. `trace_event_v2_decoder.go:131-133`
   keeps it apart from generic enters so that they do not "swallow it before the
   exec output state machine can consume it".

`trace_exec` keeps clear of 2 and 3 by its instance, and so cannot show them:
the free of a replaced leader in another task's context takes `-f`, and two
pending execs take two threads beside the leader. Only `trace_free` and
`trace_two_execs` reach those hazards. `trace_follow` has no exec, so a call
whose exit was dropped as in 3, and whose enter the next call of the same
syscall is then merged into, is outside `PairSound`'s run: there an exit goes
missing only by a loss.

## Not modelled, and plan

Next, in this order:

1. `ExitStatusQueue` and `RunState`: the command's wait status against its exit
   record, quiescence, the grace period and its timer, attach targets.
2. `TargetHandoff` and `CleanupPlan`: start, hand-over, and release after a
   partial start; detach on execve and the syscall limit as stop conditions.
3. `FDState`: descriptors through dup, close_range, CLOEXEC, fork and taint.
4. The decoder's bounds arithmetic as pure operators, in wrapped integers.
5. TID reuse before a delayed free, unknown children and attach maps in
   `TraceeTasks`.
6. Proofs: type correctness and `PendingOwned` of `SyscallTrace`, `GapsExact`,
   `TaintJustified`, and the refinement of `LossyStream`.

Left out for good: payload bytes, text and JSON layout, option parsing, generated
tables, and set-up calls into the kernel. They have no state between events.
