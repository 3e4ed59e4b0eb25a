----------------------------- MODULE ToolBatch -----------------------------
(***************************************************************************)
(* One batch of tool calls: execute_tool_calls                             *)
(* (pirs-agent/src/agent_loop/tool_exec.rs), sequential and parallel, with *)
(* the steering check, the thrash guard, the per-path locks, the retry of  *)
(* idempotent tools and the results filled in after a cancellation.        *)
(*                                                                         *)
(* The user steers and cancels from other threads between any two steps;   *)
(* parallel tools interleave at their awaits.                              *)
(***************************************************************************)
EXTENDS Naturals, FiniteSets

CONSTANTS
  N,            \* calls of the batch
  Paths,        \* normalized paths the calls may name
  NoPath,       \* what tool_path_for_lock gives a call without one
  PathOf,       \* the path of each call
  Idempotent    \* calls of tools that may be retried

Calls == 1..N

ASSUME BatchAssumption ==
  /\ N \in Nat
  /\ NoPath \notin Paths
  /\ PathOf \in [Calls -> Paths \cup {NoPath}]
  /\ Idempotent \subseteq Calls

None == "none"
Skips == {"skipped_steer", "skipped_thrash"}
\* The kinds of result: a tool that ran gave ok or error (one that noticed the
\* cancellation itself gave an error).
Kinds == {"ok", "error", "failed", "loop_detect", "cancelled", "incomplete"}
         \cup Skips
Ran == {"ok", "error"}

VARIABLES
  mode,       \* "sequential" or "parallel"
  pc,         \* "take", "run", "prepare", "launch", "collect", "done"
  next,       \* index of the call the loop is at
  res,        \* results by call
  st,         \* what became of a call: see States
  execs,      \* how often the tool of a call was executed
  starts,     \* ToolExecutionStart events by call
  ends,       \* ToolExecutionEnd events by call
  skipRest,   \* skip_rest (sequential), steer_skip (parallel)
  blocked,    \* thrash_blocked
  steered,    \* a user message is queued: only the loop drains it, later
  cancelled,  \* the cancel token
  late        \* calls whose tool started after the user had steered

loopVars == <<pc, next, skipRest, blocked>>
userVars == <<steered, cancelled>>
vars == <<mode, loopVars, res, st, execs, starts, ends, userVars, late>>

\* A prepared call is launched into the in-flight set, waits for its path and
\* runs.
States == {"todo", "ready", "launched", "running", "over"}

Init ==
  /\ mode \in {"sequential", "parallel"}
  /\ pc = IF mode = "sequential" THEN "take" ELSE "prepare"
  /\ next = 1
  /\ res = [i \in Calls |-> None]
  /\ st = [i \in Calls |-> "todo"]
  /\ execs = [i \in Calls |-> 0]
  /\ starts = [i \in Calls |-> 0] /\ ends = [i \in Calls |-> 0]
  /\ skipRest = FALSE /\ blocked = FALSE
  /\ steered = FALSE /\ cancelled = FALSE /\ late = {}

-----------------------------------------------------------------------------
Bump(f, i) == [f EXCEPT ![i] = @ + 1]

\* A result goes into its slot and its end event out.
Answer(i, kind) ==
  /\ res' = [res EXCEPT ![i] = kind]
  /\ st' = [st EXCEPT ![i] = "over"]
  /\ ends' = Bump(ends, i)

\* A tool starts executing.
Execute(i) ==
  /\ st' = [st EXCEPT ![i] = "running"]
  /\ execs' = Bump(execs, i)
  /\ late' = IF steered THEN late \cup {i} ELSE late

(* The sequential loop. *)

\* A call after skip_rest is answered without running.
SeqSkip ==
  /\ pc = "take" /\ next <= N /\ skipRest
  /\ Answer(next, "skipped_steer")
  /\ starts' = Bump(starts, next)
  /\ next' = next + 1
  /\ UNCHANGED <<mode, pc, skipRest, blocked, execs, userVars, late>>

\* The guard recognizes a loop: this call is refused, the rest skipped.
SeqLoopDetected ==
  /\ pc = "take" /\ next <= N /\ ~skipRest
  /\ Answer(next, "loop_detect")
  /\ starts' = Bump(starts, next)
  /\ next' = next + 1 /\ skipRest' = TRUE
  /\ UNCHANGED <<mode, pc, blocked, execs, userVars, late>>

\* After a result: a cancelled batch breaks off, a queued user message skips
\* the rest.
AfterResult ==
  /\ next' = IF cancelled THEN N + 1 ELSE next + 1
  /\ skipRest' = (skipRest \/ (~cancelled /\ steered))
  /\ pc' = "take"

\* Preparation refuses the call: unknown, hidden, invalid or blocked by a hook.
SeqRefused ==
  /\ pc = "take" /\ next <= N /\ ~skipRest
  /\ Answer(next, "failed")
  /\ starts' = Bump(starts, next)
  /\ AfterResult
  /\ UNCHANGED <<mode, blocked, execs, userVars, late>>

SeqStart ==
  /\ pc = "take" /\ next <= N /\ ~skipRest
  /\ Execute(next)
  /\ starts' = Bump(starts, next)
  /\ pc' = "run"
  /\ UNCHANGED <<mode, next, skipRest, blocked, res, ends, userVars>>

SeqFinish(kind) ==
  /\ pc = "run"
  /\ Answer(next, kind)
  /\ AfterResult
  /\ UNCHANGED <<mode, blocked, execs, starts, userVars, late>>

\* Variant: a tool is retried as long as its errors are transient.
RetryOn(i) ==
  /\ st[i] = "running" /\ i \in Idempotent /\ ~cancelled
  /\ execs' = Bump(execs, i)
  /\ UNCHANGED <<mode, loopVars, res, st, starts, ends, userVars, late>>

\* run_tool: one retry after a transient error, of an idempotent tool, unless
\* the batch was cancelled meanwhile.
Retry(i) ==
  /\ st[i] = "running" /\ i \in Idempotent /\ execs[i] = 1 /\ ~cancelled
  /\ execs' = Bump(execs, i)
  /\ UNCHANGED <<mode, loopVars, res, st, starts, ends, userVars, late>>

-----------------------------------------------------------------------------
(* The parallel path: prepare every call, launch them, collect. *)

\* Advance past a call, entering the next phase after the last one.
Advance(phase) ==
  /\ next' = IF next = N THEN 1 ELSE next + 1
  /\ pc' = IF next = N THEN phase ELSE pc

\* Variant: a loop is answered but blocks nothing.
PrepareUnblocked ==
  /\ pc = "prepare" /\ N > 0
  /\ skipRest' = (skipRest \/ steered)
  /\ starts' = Bump(starts, next)
  /\ \/ /\ skipRest' /\ Answer(next, "skipped_steer")
     \/ /\ ~skipRest'
        /\ Answer(next, "loop_detect") \/ Answer(next, "failed")
     \/ /\ ~skipRest'
        /\ st' = [st EXCEPT ![next] = "ready"] /\ UNCHANGED <<res, ends>>
  /\ Advance("launch")
  /\ UNCHANGED <<mode, blocked, execs, userVars, late>>

\* Prepare a call.  The queue is looked at first, the guard only for calls
\* that are neither blocked nor skipped.
Prepare ==
  /\ pc = "prepare" /\ N > 0
  /\ skipRest' = (skipRest \/ steered)
  /\ starts' = Bump(starts, next)
  /\ \/ /\ blocked
        /\ Answer(next, "skipped_thrash") /\ UNCHANGED blocked
     \/ /\ ~blocked /\ skipRest'
        /\ Answer(next, "skipped_steer") /\ UNCHANGED blocked
     \/ /\ ~blocked /\ ~skipRest'
        /\ Answer(next, "loop_detect") /\ blocked' = TRUE
     \/ /\ ~blocked /\ ~skipRest'
        /\ Answer(next, "failed") /\ UNCHANGED blocked
     \/ /\ ~blocked /\ ~skipRest'
        /\ st' = [st EXCEPT ![next] = "ready"]
        /\ UNCHANGED <<res, ends, blocked>>
  /\ Advance("launch")
  /\ UNCHANGED <<mode, execs, userVars, late>>

\* Variant: a skipped call is also launched.
LaunchSkipped ==
  /\ pc = "launch"
  /\ \/ /\ st[next] = "ready"
        /\ st' = [st EXCEPT ![next] = "launched"]
        /\ IF steered
           THEN res' = [res EXCEPT ![next] = "skipped_steer"] /\ ends' = Bump(ends, next)
           ELSE UNCHANGED <<res, ends>>
     \/ st[next] # "ready" /\ UNCHANGED <<res, st, ends>>
  /\ Advance("collect")
  /\ UNCHANGED <<mode, skipRest, blocked, execs, starts, userVars, late>>

\* Launch a prepared call, unless the user steered meanwhile.
Launch ==
  /\ pc = "launch"
  /\ \/ /\ st[next] = "ready" /\ steered
        /\ Answer(next, "skipped_steer")
     \/ /\ st[next] = "ready" /\ ~steered
        /\ st' = [st EXCEPT ![next] = "launched"]
        /\ UNCHANGED <<res, ends>>
     \/ st[next] # "ready" /\ UNCHANGED <<res, st, ends>>
  /\ Advance("collect")
  /\ UNCHANGED <<mode, skipRest, blocked, execs, starts, userVars, late>>

\* The call's path lock is free: it names no path, or no call runs on it.
LockFree(i) ==
  PathOf[i] = NoPath
  \/ \A j \in Calls \ {i} : st[j] = "running" => PathOf[j] # PathOf[i]

ParStart(i) ==
  /\ pc = "collect" /\ st[i] = "launched" /\ LockFree(i)
  /\ Execute(i)
  /\ UNCHANGED <<mode, loopVars, res, starts, ends, userVars>>

\* Variant of ParFinish: the end event is lost.
ParFinishSilent(i, kind) ==
  /\ pc = "collect" /\ st[i] = "running"
  /\ res' = [res EXCEPT ![i] = kind]
  /\ st' = [st EXCEPT ![i] = "over"]
  /\ UNCHANGED <<mode, loopVars, execs, starts, ends, userVars, late>>

\* The future of a call completes: its lock is released, its result collected.
ParFinish(i, kind) ==
  /\ pc = "collect" /\ st[i] = "running"
  /\ Answer(i, kind)
  /\ UNCHANGED <<mode, loopVars, execs, starts, userVars, late>>

-----------------------------------------------------------------------------
\* Every call was taken, or the sequential loop broke off; nothing in flight.
Over ==
  \/ pc = "take" /\ next > N
  \/ pc = "collect" /\ \A i \in Calls : st[i] \notin {"launched", "running"}
  \/ pc = "prepare" /\ N = 0

\* The open slots are filled in, without events.
HandBack ==
  /\ Over
  /\ pc' = "done"
  /\ res' = [i \in Calls |->
               IF res[i] # None THEN res[i]
               ELSE IF cancelled THEN "cancelled" ELSE "incomplete"]
  /\ UNCHANGED <<mode, next, skipRest, blocked, st, execs, starts, ends,
                 userVars, late>>

Steer ==
  /\ pc # "done" /\ ~steered /\ steered' = TRUE
  /\ UNCHANGED <<mode, loopVars, res, st, execs, starts, ends, cancelled, late>>

Cancel ==
  /\ pc # "done" /\ ~cancelled /\ cancelled' = TRUE
  /\ UNCHANGED <<mode, loopVars, res, st, execs, starts, ends, steered, late>>

\* A tool comes to its end, or is run once more.
ToolStep ==
  \/ \E kind \in Ran : SeqFinish(kind) \/ \E i \in Calls : ParFinish(i, kind)
  \/ \E i \in Calls : Retry(i)

LoopStep ==
  \/ SeqSkip \/ SeqLoopDetected \/ SeqRefused \/ SeqStart
  \/ Prepare \/ Launch \/ HandBack
  \/ \E i \in Calls : ParStart(i)

Next == LoopStep \/ ToolStep \/ Steer \/ Cancel

Spec == Init /\ [][Next]_vars

\* The task is polled, and each tool comes to its end.
FairSpec == Spec /\ WF_vars(LoopStep) /\ WF_vars(ToolStep)

-----------------------------------------------------------------------------
(* What a batch promises. *)

\* Every variable holds a value of its kind; a tool runs at most twice.
TypeOK ==
  /\ mode \in {"sequential", "parallel"}
  /\ pc \in {"take", "run", "prepare", "launch", "collect", "done"}
  /\ next \in 1..(N + 1)
  /\ res \in [Calls -> Kinds \cup {None}]
  /\ st \in [Calls -> States]
  /\ execs \in [Calls -> 0..2]
  /\ starts \in [Calls -> Nat] /\ ends \in [Calls -> Nat]
  /\ skipRest \in BOOLEAN /\ blocked \in BOOLEAN
  /\ steered \in BOOLEAN /\ cancelled \in BOOLEAN
  /\ late \subseteq Calls

\* A batch handed back answers every call, and no answer says that the call
\* got lost: the "incomplete" filled in at the end of execute_tool_calls for
\* a slot nobody wrote never reaches the model (tool_exec.rs:630-645).
EveryCallAnswered ==
  pc = "done" => \A i \in Calls : res[i] \in Kinds \ {"incomplete"}

\* A call reported as skipped, refused or cancelled was not executed: the
\* model may issue it again without doing its work twice.
SkippedNeverRan ==
  \A i \in Calls : res[i] \notin Ran \cup {None} => execs[i] = 0

\* Only a call of an idempotent tool is ever executed twice, whatever its
\* errors look like (tool_exec.rs:680-682).
OnceUnlessIdempotent ==
  \A i \in Calls \ Idempotent : execs[i] <= 1

\* A steer stops a sequential batch: at most the one call that was being
\* started when the user spoke still runs.
SteerStopsBatch ==
  mode = "sequential" => Cardinality(late) <= 1

\* A listener that counts starts and ends (a progress display, the RPC client)
\* ends up even: each call has one of both, or none where a cancelled batch
\* never came to it, and no end goes before its start.
EventsPaired ==
  \A i \in Calls :
    /\ ends[i] <= starts[i] /\ starts[i] <= 1
    /\ pc = "done" =>
         ends[i] = starts[i] /\ (starts[i] = 0 => res[i] = "cancelled")

\* Once the guard refuses a call as a loop, nothing behind it in the batch runs.
LoopBlocksRest ==
  \A i, j \in Calls : res[i] = "loop_detect" /\ i < j => execs[j] = 0

\* Calls on one path never run at the same time (tool_exec.rs:554-557).
SamePathSerial ==
  \A i, j \in Calls :
    i # j /\ st[i] = "running" /\ st[j] = "running" /\ PathOf[i] # NoPath
      => PathOf[i] # PathOf[j]

\* What runs, and when, is what the transcript says and what the guards of the
\* loop allow, under any steer and cancellation.
ExecutionRules ==
  /\ SkippedNeverRan /\ OnceUnlessIdempotent /\ LoopBlocksRest
  /\ SteerStopsBatch /\ SamePathSerial

\* What the model and the listeners are told of a batch is complete.
ReportsAreComplete == EveryCallAnswered /\ EventsPaired

\* The batch is handed back: no two calls wait for each other's path.
BatchCompletes == <>(pc = "done")

\* The batch is the one the agent loop relies on.
Contract == INSTANCE BatchContract WITH done <- (pc = "done")
ContractHolds == Contract!Spec
=============================================================================
