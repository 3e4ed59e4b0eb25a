----------------------------- MODULE AgentLoop -----------------------------
(***************************************************************************)
(* The agent loop: run_agent_loop (pirs-agent/src/agent_loop/mod.rs), the  *)
(* streaming of one reply (agent_loop/stream.rs) and the Agent that owns   *)
(* the history, the steering and follow-up queues and the cancel token     *)
(* (pirs-agent/src/agent.rs), with the session file the products append    *)
(* from MessageEnd events (pirs/src/main.rs).                              *)
(*                                                                         *)
(* One run is one task; the user steers, queues follow-ups and cancels     *)
(* from other threads.  An action is the code between two points where     *)
(* such a thread can be observed: an await or a poll of a locked queue.    *)
(* The tools of a batch run in one action here; ToolBatch opens it up.     *)
(***************************************************************************)
EXTENDS Integers, Sequences, FiniteSets

CONSTANTS
  Inputs,         \* user inputs that may be typed while the agent lives
  BlankInputs,    \* those of them that carry no usable text
  MaxCalls,       \* the most tool calls of one reply
  Setups,         \* the configurations an agent may be built with
  Resumable,      \* the histories --resume may load before the first run
  MaxRuns         \* bound: the runs a behaviour may start

ASSUME LoopAssumption ==
  /\ BlankInputs \subseteq Inputs
  /\ MaxCalls \in Nat /\ MaxRuns \in Nat
  /\ Setups \subseteq
       [maxTurns : Nat,        \* Budgets::max_turns, 0 for None
        maxToolCalls : Nat,    \* Budgets::max_tool_calls, 0 for None
        maxAdvice : Nat,       \* advisor calls of the hybrid, 0 for no hybrid
        drainAll : BOOLEAN,    \* QueueMode::All for both queues
        cascade : BOOLEAN,     \* a draft model and a judge are configured
        compacts : BOOLEAN,    \* auto-compaction is configured
        stops : BOOLEAN,       \* a stop hook or a wall-time budget is set
        resumes : BOOLEAN,     \* --resume may load a history
        typing : SUBSET Inputs, \* bound: the inputs typed,
        calls : 0..MaxCalls]   \* ... the calls of a reply

VARIABLE setup    \* the configuration of the agent

-----------------------------------------------------------------------------
(* Messages.  A tool call is named by its position in its reply, a result  *)
(* by the position of the call it answers; said holds the user inputs a    *)
(* message carries (a user message one, a soft-steered result several).    *)

Tags == {"prompt", "input", "nudge", "advice", "stop", "summary",
         "text", "freeform", "tools", "length", "error", "aborted", "draft",
         "plain", "terminate"}

Message == [role : {"user", "assistant", "result"}, tag : Tags,
            n : 0..MaxCalls, idx : 0..MaxCalls, said : SUBSET Inputs]

User(tag, said) ==
  [role |-> "user", tag |-> tag, n |-> 0, idx |-> 0, said |-> said]
Reply(tag, n) ==
  [role |-> "assistant", tag |-> tag, n |-> n, idx |-> 0, said |-> {}]
Result(k, tag) ==
  [role |-> "result", tag |-> tag, n |-> 0, idx |-> k, said |-> {}]

\* What a provider can end a reply with: StopReason and the calls it carries.
\* An aborted reply carries none (both clients strip them), a failed one may.
Replies ==
  {Reply(t, 0) : t \in {"text", "freeform", "aborted"}}
  \cup {Reply("error", n) : n \in 0..setup.calls}
  \cup {Reply(t, n) : t \in {"tools", "length"}, n \in 1..setup.calls}

\* The results of a batch that ran: any of them may ask to terminate.
Outcomes(n) ==
  {[k \in 1..n |-> Result(k, f[k])] : f \in [1..n -> {"plain", "terminate"}]}

\* Variant: results numbered from the next call on.
RefusedShifted(n) == [k \in 1..n |-> Result(k + 1, "plain")]

\* The results of a batch that was refused: errors, in source order.
Refused(n) == [k \in 1..n |-> Result(k, "plain")]

\* A resumed history says nothing that is typed later.
ASSUME HistoryAssumption ==
  \A h \in Resumable :
    h \in Seq(Message) /\ \A i \in DOMAIN h : h[i].said = {}

VARIABLES
  messages,     \* Agent::messages, the history between runs
  running,      \* Agent::running
  cancelled,    \* the token in the CancelSlot is cancelled
  steering,     \* the steering queue
  followUp,     \* the follow-up queue
  typed,        \* the inputs typed so far
  runs,         \* runs started so far
  file,         \* the session file: one message per MessageEnd event
  pc,           \* where the run is
  context,      \* Context::messages
  newMsgs,      \* new_messages
  pending,      \* messages drained from a queue, not yet in the context
  hasMore,      \* has_more_tool_calls
  firstTurn,    \* first_turn
  turns,        \* turn_count
  calls,        \* tool_call_count
  nudged,       \* freeform_tool_nudge_sent
  drafted,      \* the draft model's reply to this turn was rejected
  doomed,       \* the token was already cancelled when the request started
  batch,        \* results of the current turn
  tripped,      \* ThrashGuard holds a stop
  advice,       \* HybridConfig advisor_calls
  ended         \* why the last run ended

agent == <<setup, messages, running, runs>>
queues == <<steering, followUp, typed>>
counters == <<turns, calls, nudged>>
flow == <<hasMore, firstTurn>>
guards == <<tripped, advice>>
stream == <<drafted, doomed>>
logs == <<context, newMsgs, file>>
vars == <<agent, queues, counters, flow, guards, stream, logs,
          cancelled, pc, pending, batch, ended>>

PCs == {"idle", "start", "loop", "call", "streaming", "exec", "attach",
        "turnEnd", "budget", "poll", "follow", "done"}
Reasons == {"none", "natural", "error", "budget", "thrash", "hook"}

Init ==
  /\ setup \in Setups
  /\ messages \in {<<>>} \cup (IF setup.resumes THEN Resumable ELSE {})
  /\ running = FALSE /\ runs = 0
  /\ steering = <<>> /\ followUp = <<>> /\ typed = {}
  /\ cancelled = FALSE /\ pc = "idle"
  /\ context = <<>> /\ newMsgs = <<>> /\ file = messages
  /\ pending = <<>> /\ batch = <<>>
  /\ hasMore = TRUE /\ firstTurn = TRUE
  /\ turns = 0 /\ calls = 0 /\ nudged = FALSE
  /\ drafted = FALSE /\ doomed = FALSE
  /\ tripped = FALSE /\ advice = 0 /\ ended = "none"

-----------------------------------------------------------------------------
(* The user, on other threads. *)

Steer(u) ==
  /\ u \notin typed
  /\ typed' = typed \cup {u}
  /\ steering' = Append(steering, User("input", {u}))
  /\ UNCHANGED <<followUp, agent, counters, flow, guards, stream, logs,
                 cancelled, pc, pending, batch, ended>>

FollowUp(u) ==
  /\ u \notin typed
  /\ typed' = typed \cup {u}
  /\ followUp' = Append(followUp, User("input", {u}))
  /\ UNCHANGED <<steering, agent, counters, flow, guards, stream, logs,
                 cancelled, pc, pending, batch, ended>>

Cancel ==
  /\ running
  /\ cancelled' = TRUE
  /\ UNCHANGED <<agent, queues, counters, flow, guards, stream, logs,
                 pc, pending, batch, ended>>

\* The locals of a run, before it starts and after it ended.
FreshLocals ==
  /\ hasMore' = TRUE /\ firstTurn' = TRUE
  /\ turns' = 0 /\ calls' = 0 /\ nudged' = FALSE
  /\ pending' = <<>> /\ batch' = <<>>
  /\ drafted' = FALSE /\ doomed' = FALSE
  /\ ended' = "none"

\* begin_prompt: claim the running flag, mint a fresh token, snapshot the
\* history.  continue_ starts without a prompt when the model owes a reply.
BeginPrompt(prompts) ==
  /\ ~running /\ runs < MaxRuns
  /\ prompts = <<>> /\ messages # <<>> =>
       messages[Len(messages)].role # "assistant"
  /\ running' = TRUE /\ runs' = runs + 1
  /\ cancelled' = FALSE
  /\ context' = messages \o prompts
  /\ newMsgs' = prompts
  /\ file' = file \o prompts
  /\ FreshLocals
  /\ pc' = "start"
  /\ UNCHANGED <<setup, messages, queues, guards>>

-----------------------------------------------------------------------------
(* The run. *)

\* drain_queue: what a poll takes and what it leaves.
Taken(q) == IF setup.drainAll THEN q ELSE SubSeq(q, 1, IF q = <<>> THEN 0 ELSE 1)
\* Variant of Left: a poll that only peeks at the front.
LeftPeeked(q) == IF setup.drainAll THEN <<>> ELSE q
Left(q) == IF setup.drainAll THEN <<>> ELSE SubSeq(q, 2, Len(q))

\* A message emitted with MessageEnd: context, new_messages and file get it.
Record(ms) ==
  /\ context' = context \o ms
  /\ newMsgs' = newMsgs \o ms
  /\ file' = file \o ms

End(reason) == pc' = "done" /\ ended' = reason

\* Steering is polled before the first model call.
FirstPoll ==
  /\ pc = "start"
  /\ pending' = Taken(steering) /\ steering' = Left(steering)
  /\ pc' = "loop"
  /\ UNCHANGED <<followUp, typed, agent, counters, flow, guards, stream, logs,
                 cancelled, batch, ended>>

\* The inner while: drain pending into the history and call the model, or
\* leave for the follow-up poll.
LoopHead ==
  /\ pc = "loop"
  /\ IF hasMore \/ pending # <<>> \/ firstTurn
     THEN /\ Record(pending)
          /\ pending' = <<>> /\ firstTurn' = FALSE /\ batch' = <<>>
          /\ pc' = "call"
     ELSE /\ pc' = "follow"
          /\ UNCHANGED <<pending, firstTurn, batch, logs>>
  /\ drafted' = FALSE
  /\ UNCHANGED <<hasMore, agent, queues, counters, guards, doomed,
                 cancelled, ended>>

\* stream_once sends the request; a token cancelled by now aborts it.
CallModel ==
  /\ pc = "call"
  /\ doomed' = cancelled /\ pc' = "streaming"
  /\ UNCHANGED <<agent, queues, counters, flow, guards, drafted, logs,
                 cancelled, pending, batch, ended>>

\* The provider's answers that are possible in this state.
Answers ==
  IF doomed THEN {Reply("aborted", 0)}
  ELSE IF cancelled THEN Replies
  ELSE Replies \ {Reply("aborted", 0)}

\* Cascade: the judge rejects the draft.  It is popped from the context, but
\* its MessageEnd was emitted.
RejectDraft(r) ==
  /\ pc = "streaming" /\ setup.cascade /\ ~drafted
  /\ file' = Append(file, [r EXCEPT !.tag = "draft"])
  /\ drafted' = TRUE /\ pc' = "call"
  /\ UNCHANGED <<agent, queues, counters, flow, guards, doomed, context,
                 newMsgs, cancelled, pending, batch, ended>>

\* Variant: the synthesized results miss new_messages.
ReplyFailedUnlisted(r) ==
  /\ pc = "streaming" /\ r.tag \in {"error", "aborted"}
  /\ context' = Append(context, r) \o Refused(r.n)
  /\ newMsgs' = Append(newMsgs, r)
  /\ file' = Append(file, r)
  /\ End("error")
  /\ UNCHANGED <<agent, queues, counters, flow, guards, stream, cancelled,
                 pending, batch>>

\* An errored or aborted reply: its calls get synthesized results, which are
\* pushed without events, and the run ends.
ReplyFailed(r) ==
  /\ pc = "streaming" /\ r.tag \in {"error", "aborted"}
  /\ context' = Append(context, r) \o Refused(r.n)
  /\ newMsgs' = Append(newMsgs, r) \o Refused(r.n)
  /\ file' = Append(file, r)
  /\ End("error")
  /\ UNCHANGED <<agent, queues, counters, flow, guards, stream, cancelled,
                 pending, batch>>

\* Variant: the nudge does not count as a turn.
NudgeUncounted(r) ==
  /\ pc = "streaming" /\ r.tag = "freeform" /\ ~nudged
  /\ Record(<<r, User("nudge", {})>>)
  /\ nudged' = TRUE /\ pc' = "loop"
  /\ UNCHANGED <<agent, queues, turns, calls, flow, guards, stream, cancelled,
                 pending, batch, ended>>

\* Variant: the nudge is pushed without its MessageEnd.
NudgeUnsaved(r) ==
  /\ pc = "streaming" /\ r.tag = "freeform" /\ ~nudged
  /\ context' = context \o <<r, User("nudge", {})>>
  /\ newMsgs' = newMsgs \o <<r, User("nudge", {})>>
  /\ file' = Append(file, r)
  /\ nudged' = TRUE /\ turns' = turns + 1
  /\ IF setup.maxTurns # 0 /\ turns + 1 >= setup.maxTurns
     THEN End("budget") ELSE pc' = "loop" /\ UNCHANGED ended
  /\ UNCHANGED <<agent, queues, calls, flow, guards, stream, cancelled,
                 pending, batch>>

\* A text reply that looks like pasted tool calls is answered once per run
\* with a repair nudge; only the turn budget is checked before going round.
NudgeFreeform(r) ==
  /\ pc = "streaming" /\ r.tag = "freeform" /\ ~nudged
  /\ Record(<<r, User("nudge", {})>>)
  /\ nudged' = TRUE /\ turns' = turns + 1
  /\ IF setup.maxTurns # 0 /\ turns + 1 >= setup.maxTurns
     THEN End("budget") ELSE pc' = "loop" /\ UNCHANGED ended
  /\ UNCHANGED <<agent, queues, calls, flow, guards, stream, cancelled,
                 pending, batch>>

\* Any other reply without calls ends the turn.
ReplyText(r) ==
  /\ pc = "streaming"
  /\ r.tag = "text" \/ (r.tag = "freeform" /\ nudged)
  /\ Record(<<r>>)
  /\ pc' = "turnEnd"
  /\ UNCHANGED <<agent, queues, counters, flow, guards, stream, cancelled,
                 pending, batch, ended>>

\* A reply cut off by the token limit: every call is refused unexecuted.
ReplyTruncated(r) ==
  /\ pc = "streaming" /\ r.tag = "length"
  /\ Record(<<r>>)
  /\ batch' = Refused(r.n) /\ pc' = "attach"
  /\ UNCHANGED <<agent, queues, counters, flow, guards, stream, cancelled,
                 pending, ended>>

ReplyTools(r) ==
  /\ pc = "streaming" /\ r.tag = "tools"
  /\ Record(<<r>>)
  /\ pc' = "exec"
  /\ UNCHANGED <<agent, queues, counters, flow, guards, stream, cancelled,
                 pending, batch, ended>>

StreamReply == \E r \in Answers :
  RejectDraft(r) \/ ReplyFailed(r) \/ NudgeFreeform(r) \/ ReplyText(r)
    \/ ReplyTruncated(r) \/ ReplyTools(r)

\* Variant: a thrash stop ends the run before the results are attached.
ExecBatchStopsEarly ==
  /\ pc = "exec"
  /\ \E b \in Outcomes(context[Len(context)].n), t \in BOOLEAN :
       /\ batch' = b /\ tripped' = FALSE
       /\ IF t THEN End("thrash") ELSE pc' = "attach" /\ UNCHANGED ended
  /\ UNCHANGED <<agent, queues, counters, flow, advice, stream, logs,
                 cancelled, pending>>

\* execute_tool_calls: one result per call in source order; the thrash guard
\* may raise a stop.
ExecBatch ==
  /\ pc = "exec"
  /\ \E b \in Outcomes(context[Len(context)].n), t \in BOOLEAN :
       batch' = b /\ tripped' = (tripped \/ t)
  /\ pc' = "attach"
  /\ UNCHANGED <<agent, queues, counters, flow, advice, stream, logs,
                 cancelled, pending, ended>>

\* The usable text of polled steers.
SteerTexts(ms) == (UNION {ms[i].said : i \in DOMAIN ms}) \ BlankInputs

\* apply_soft_steer_to_last_tool_result on a history.
SoftSteer(ms, texts) ==
  [ms EXCEPT ![Len(ms)].said = @ \cup texts]

\* Push the results, then append what the user typed meanwhile to the last of
\* them; the events were already emitted.  Steers without text wait in pending.
AttachResults ==
  /\ pc = "attach"
  /\ LET texts == SteerTexts(Taken(steering)) IN
     /\ context' = SoftSteer(context \o batch, texts)
     /\ newMsgs' = SoftSteer(newMsgs \o batch, texts)
     /\ file' = file \o batch
     /\ pending' = IF texts = {} THEN Taken(steering) ELSE <<>>
  /\ steering' = Left(steering)
  /\ pc' = "turnEnd"
  /\ UNCHANGED <<followUp, typed, agent, counters, flow, guards, stream,
                 cancelled, batch, ended>>

\* A pending thrash stop: the advisor's guidance keeps the run going past the
\* budget and steering checks of this turn ...
ThrashAdvice ==
  /\ pc = "turnEnd" /\ batch # <<>> /\ tripped /\ advice < setup.maxAdvice
  /\ Record(<<User("advice", {})>>)
  /\ tripped' = FALSE /\ advice' = advice + 1
  /\ turns' = turns + 1 /\ calls' = calls + Len(batch)
  /\ pc' = "loop"
  /\ UNCHANGED <<agent, queues, nudged, flow, stream, cancelled, pending,
                 batch, ended>>

\* ... without one (no hybrid, budget used up, advisor call failed) it stops.
ThrashStop ==
  /\ pc = "turnEnd" /\ batch # <<>> /\ tripped
  /\ Record(<<User("stop", {})>>)
  /\ tripped' = FALSE
  /\ advice' = IF advice < setup.maxAdvice THEN advice + 1 ELSE advice
  /\ End("thrash")
  /\ UNCHANGED <<agent, queues, counters, flow, stream, cancelled, pending,
                 batch>>

CountTurn ==
  /\ pc = "turnEnd" /\ (batch = <<>> \/ ~tripped)
  /\ turns' = turns + 1 /\ calls' = calls + Len(batch)
  /\ pc' = "budget"
  /\ UNCHANGED <<agent, queues, nudged, flow, guards, stream, logs, cancelled,
                 pending, batch, ended>>

BudgetSpent ==
  \/ setup.maxTurns # 0 /\ turns >= setup.maxTurns
  \/ setup.maxToolCalls # 0 /\ calls >= setup.maxToolCalls

\* tool_pairs_intact of a kept tail: a result follows its call, a call has
\* its results.
ToolPairsIntact(s) ==
  \A i \in 1..Len(s) :
    /\ s[i].role = "result" => i > s[i].idx
    /\ s[i].role = "assistant" => i + s[i].n <= Len(s)

\* compact_messages: a summary replaces the messages before some cut, refused
\* where the cut would split a call from its results.
Compact(cut) ==
  /\ setup.compacts
  /\ ToolPairsIntact(SubSeq(context, cut + 1, Len(context)))
  /\ context' = <<User("summary", {})>> \o SubSeq(context, cut + 1, Len(context))

\* After the turn: budgets (the wall clock may also have run out), then
\* compaction, which may find no cut or fail.
CheckBudgets ==
  /\ pc = "budget"
  /\ \/ /\ BudgetSpent \/ setup.stops
        /\ End("budget") /\ UNCHANGED context
     \/ /\ ~BudgetSpent
        /\ (\E cut \in 1..(Len(context) - 1) : Compact(cut)) \/ UNCHANGED context
        /\ pc' = "poll" /\ UNCHANGED ended
  /\ UNCHANGED <<agent, queues, counters, flow, guards, stream, newMsgs, file,
                 cancelled, pending, batch>>

\* terminate needs every result of a batch to ask for it.
BatchTerminates ==
  batch # <<>> /\ \A k \in DOMAIN batch : batch[k].tag = "terminate"

\* should_stop_after_turn, else poll steering once more.
PollSteering ==
  /\ pc = "poll"
  /\ hasMore' = (batch # <<>> /\ ~BatchTerminates)
  /\ \/ /\ setup.stops /\ End("hook")
        /\ UNCHANGED <<pending, steering>>
     \/ /\ pending' = pending \o Taken(steering)
        /\ steering' = Left(steering)
        /\ pc' = "loop" /\ UNCHANGED ended
  /\ UNCHANGED <<followUp, typed, agent, counters, firstTurn, guards, stream,
                 logs, cancelled, batch>>

\* The agent would stop: a queued follow-up opens another round.
PollFollowUp ==
  /\ pc = "follow"
  /\ IF followUp = <<>>
     THEN End("natural") /\ UNCHANGED <<pending, hasMore>>
     ELSE pending' = Taken(followUp) /\ hasMore' = TRUE /\ pc' = "loop"
            /\ UNCHANGED ended
  /\ followUp' = Left(followUp)
  /\ UNCHANGED <<steering, typed, agent, counters, firstTurn, guards, stream,
                 logs, cancelled, batch>>

\* Variant: the running flag stays set.
CompleteRunStillRunning ==
  /\ pc = "done"
  /\ messages' = context
  /\ context' = <<>> /\ newMsgs' = <<>>
  /\ FreshLocals
  /\ pc' = "idle"
  /\ UNCHANGED <<setup, running, runs, queues, guards, file, cancelled>>

\* complete_run: the context becomes the history.
CompleteRun ==
  /\ pc = "done"
  /\ messages' = context /\ running' = FALSE
  /\ context' = <<>> /\ newMsgs' = <<>>
  /\ FreshLocals
  /\ pc' = "idle"
  /\ UNCHANGED <<setup, runs, queues, guards, file, cancelled>>

RunStep ==
  \/ FirstPoll \/ LoopHead \/ CallModel \/ StreamReply \/ ExecBatch
  \/ AttachResults \/ ThrashAdvice \/ ThrashStop \/ CountTurn \/ CheckBudgets
  \/ PollSteering \/ PollFollowUp \/ CompleteRun

UserStep ==
  \/ \E u \in setup.typing : Steer(u) \/ FollowUp(u)
  \/ Cancel
  \/ \E prompts \in {<<>>, <<User("prompt", {})>>} : BeginPrompt(prompts)

Next == RunStep \/ UserStep

Spec == Init /\ [][Next]_vars

\* The runtime polls the task and a request ends: by reply, error or timeout.
FairSpec == Spec /\ WF_vars(RunStep)

-----------------------------------------------------------------------------
(* What the loop promises. *)

History == Seq(Message)

\* Every variable holds a value of its kind.
TypeOK ==
  /\ {messages, context, newMsgs, file} \subseteq History
  /\ {steering, followUp, pending, batch} \subseteq History
  /\ setup \in Setups /\ typed \subseteq Inputs
  /\ {running, cancelled, hasMore, firstTurn, nudged} \subseteq BOOLEAN
  /\ {drafted, doomed, tripped} \subseteq BOOLEAN
  /\ {runs, turns, calls, advice} \subseteq Nat
  /\ pc \in PCs /\ ended \in Reasons

\* Each call of each reply is answered by the result at its place behind the
\* reply, and no result stands anywhere else.
Answered(s) ==
  \A i \in 1..Len(s) :
    /\ s[i].role = "assistant" =>
         /\ i + s[i].n <= Len(s)
         /\ \A k \in 1..s[i].n : s[i + k].role = "result" /\ s[i + k].idx = k
    /\ s[i].role = "result" =>
         /\ s[i].idx \in 1..(i - 1)
         /\ s[i - s[i].idx].role = "assistant"
         /\ s[i].idx <= s[i - s[i].idx].n

\* Whenever the model can be called, and in the history a run leaves behind,
\* every tool call has its result: whatever mix of errors, truncation, thrash
\* stops, steers, budgets and compaction the run went through.  A history that
\* breaks this is refused by the provider for ever (mod.rs:146-150, 242-244).
HistoryAnswered ==
  /\ Answered(messages)
  /\ pc \notin {"exec", "attach"} => Answered(context)

\* Everything that was said: the history before the run and the run's own.
Said == messages \o newMsgs

\* Where an input is: once in a queue, in pending or in a message.
Places(u) ==
  Cardinality({i \in DOMAIN steering : u \in steering[i].said})
  + Cardinality({i \in DOMAIN followUp : u \in followUp[i].said})
  + Cardinality({i \in DOMAIN pending : u \in pending[i].said})
  + Cardinality({i \in DOMAIN Said : u \in Said[i].said})

\* No steer or follow-up with text is lost, however the run it fell into ends,
\* and none is delivered twice: until compaction it has exactly one place.
InputsConserved ==
  ~setup.compacts => \A u \in typed \ BlankInputs : Places(u) = 1

\* The history the model sees is what was said, minus a prefix that compaction
\* replaced by one summary: new_messages and the context never drift apart.
HistoryIsWhatWasSaid ==
  pc # "idle" =>
    \/ context = Said
    \/ \E k \in 1..Len(Said) :
         context = <<User("summary", {})>> \o SubSeq(Said, k + 1, Len(Said))

Turns(s) == Cardinality({i \in DOMAIN s : s[i].role = "assistant"})

\* A run makes at most max_turns turns, and one more for each piece of advice:
\* no path round the loop, the repair nudge's included, is free.
TurnBudgetHolds == setup.maxTurns # 0 => Turns(newMsgs) <= setup.maxTurns + advice

\* What is said: neither a result nor a rejected draft; how much of it from i on.
IsSpoken(m) == m.role # "result" /\ m.tag # "draft"
SpokenFrom(s, i) == Cardinality({k \in i..Len(s) : IsSpoken(s[k])})

\* What the session file gains during a run is what was said in it, in order and
\* once each: counted from the end, each message stands at the same place in both.
\* Rejected drafts come on top in the file and tool results are left aside.
FileKeepsDialogue ==
  \A i \in DOMAIN newMsgs : IsSpoken(newMsgs[i]) =>
    \E j \in DOMAIN file :
      file[j] = newMsgs[i] /\ SpokenFrom(file, j) = SpokenFrom(newMsgs, i)

\* A run ends, whatever the user types meanwhile.
RunEnds == running ~> ~running

\* "Persisting a tool_use with no following tool_result ... permanently wedging
\* the session" (mod.rs:146-150): between runs the session file, which --resume
\* loads as the history, has a result for every call.
SessionFileAnswered == pc = "idle" => Answered(file)
=============================================================================
