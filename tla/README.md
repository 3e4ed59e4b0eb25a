# pirs: a TLA+ verification project

pirs is a coding agent in Rust: a library that runs a language model in a loop
with tools, and several products on top of it (a terminal program, an
orchestrator daemon that supervises many of them, and `pirs-claw`, an assistant
that lives in messengers and on a schedule). This directory holds TLA+ models
of the parts of it where actors meet (threads, tasks, processes, files), the
TLC runs that check them, and TLAPS proofs of what matters most.

All paths below are relative to `src/crates/` unless they say otherwise.
`PROJECT.json` maps each definition to its lines, and lists the hazards.

## 1. Inventory

| component (crate) | state it keeps | operations and interactions | hard behaviours | what makes it correct | here |
|---|---|---|---|---|---|
| Agent loop (pirs-agent `agent_loop/mod.rs`, `stream.rs`, `agent.rs`) | history, run flag, cancel slot, steering and follow-up queues; context, counters and `new_messages` of a run | prompt, continue, steer, follow up, cancel; stream a reply, run a batch, nudge, advise, compact, stop | input typed at any moment of a run; many ways to leave a turn; errors and truncated replies | every call has its result; no input lost or read twice; budgets hold; runs end | `AgentLoop` |
| Tool batches (`agent_loop/tool_exec.rs`) | result slots, skip flags, in-flight futures, path locks | prepare, launch, collect, retry, fill in | parallel tools, steer and cancel in between | every call answered once; a skipped call never ran; paths exclusive | `ToolBatch`, `BatchContract` |
| Background jobs (`jobs.rs`, `delegate.rs`, pirs-tools `job_tools.rs`) | the registry's map, stop flags, waiters; a watcher thread per job | register, set_status, wait, kill, restart, evict | kill against restart, wait against end, eviction | no lost wake-up; a kill kills; statuses final | `Jobs` |
| Compaction (`compaction.rs`) | history, searchable memory, account of usage | cut and summarize, prune, emergency cut | where a cut may fall; a summary that fails | calls stay with their results; nothing dropped is lost to the memory | `Compaction`; its part in a run: `AgentLoop` |
| Thrash guard, hybrid advisor (`thrash.rs`, `hybrid.rs`) | windows and counters, advisor budget | look before and after each call, take a stop, advise | counters reset by other events; parallel calls | a loop is noticed and stopped; the budget holds | `Thrash` |
| LLM clients (pirs-ai `openai.rs`, `anthropic.rs`; pirs-agent `stream.rs`) | a task and a channel per request, the message under assembly | post, retry, stream, abort | broken streams, retries after something was shown, cancel while nobody sends | one voice per reply; one end; a cancel is heard | `Completion` |
| Model routing, catalog (`routing.rs`) | targets | parse, probe, fail over | a target that fails late | failover only before content | `Completion` |
| Pins, strategies, gates (`control_pins.rs`, `strategy.rs`, `phase_agent.rs`, `gate.rs`, `turn.rs`; packs) | request list; step, texts, verdict, attempts | rewrite a request; run phases, fan out, skip, verify, retry | packs that drop or merge; edits behind a verification | reminders stay, results stay adjacent; a pass is about the tree verified | `Pins`, `Phases` |
| Memory, audit, trace, usage | append-only files, a full-text index | append, search | - | - | not modelled |
| Orchestrator daemon (pirs-orchestrator `supervisor.rs`, `rpc_process.rs`, `storage.rs`) | `instances.json`, live map, pending requests of each child | spawn, rpc, stop, exit watcher, recovery | concurrent requests, children that die, daemon crash, lock-free file | records are true; deaths are noticed; requests end | `Orchestrator` |
| Orchestrator server, client (`server.rs`, `client.rs`, `main.rs`) | a socket and two tasks per raw bridge, the commands that wait for the child | attach, type, pass on answers and events, time out, detach | several clients share one child's pipes; a client leaves, the child dies; a line read beside another source | a reply is to one's own command; an attached client misses nothing; commands are answered | `Bridge`; framing and dispatch are left out |
| Claw schedule (pirs-claw `lib.rs`, `gateway/cron.rs`, `instance_lock.rs`) | `schedule.json`, the cron lock | tick, claim, fire, mark; add, pause, resume, remove, run | several processes on one file, dying in a fire | a slot fires once; a pause holds; retries bounded | `Schedule` |
| Claw gateways (`gateway/telegram.rs`, `gateway/mod.rs`) | offset, batch, allowlist in memory | lock, poll, redeem, chat, answer | redelivery after a crash, two gateways | each update ends; nobody unpaired is served | `Inbox` |
| Claw pairing, sessions (`pairing.rs`, `session.rs`) | codes, allowlist, a file per peer | redeem, add, remove, append | two files changed one after the other, by two processes | a code is worth one peer; the log answers what it holds | `Inbox` |
| MCP pool and clients (pirs-mcp `pool.rs`, `client.rs`, `http.rs`) | live map, catalog, pending requests per client | enable, disable, call, describe; request, answer, time out, die | concurrent connects under a cap, servers that die meanwhile | the cap holds; a call keeps its server; none hangs | `McpPool` |
| Session files (pirs `session.rs`, `session_rewind.rs`) | one JSON line per message, snapshots | append, resume, fork, undo | torn and failed writes, exits at any byte | what was said is what is resumed | `Sessions`; what a run writes: `AgentLoop` |
| File tools and locks (pirs-tools `edit*.rs`, `write`, `filelock.rs`; pirs-graph `ast_edit.rs`; pirs-lsp `rename.rs`) | lock per file, the files | read, edit, write, move, rename | two edits of a file; a write that fails or is undone | no edit is silently lost | `Workspace` |
| Shell (pirs-tools `bash.rs`) | a process group, a pipe, a channel | start, read, time out, cancel, reap | processes left behind, output still coming, a cancel meanwhile | the shell is reaped once and after its output; a call that is told to end ends | `Shell` |
| Checkpoints (pirs-tools `checkpoint.rs`) | git stash commits, `index.json` | save, restore | clean trees, tracked index | a restore restores | `Workspace` |
| Front ends (pirs `repl.rs`, `rpc_mode.rs`, `acp_mode.rs`, `tui/`) | current session, histories; queues between threads | prompt, steer, switch, compact, undo, `!cmd` | commands beside a run, lines typed at any moment | a message belongs to the session it was said in; the screen comes back | `Sessions`, `Screen` |
| Code graph (pirs-graph `store.rs`, `bg_index.rs`, `lib.rs`) | rows, vectors, a cached graph | refresh, embed, build, invalidate | indexers of several processes, edits during an await | vectors are those of the text | `CodeIndex` |
| Language server client (pirs-lsp `client.rs`) | pending table, opened documents | start, open, touch, request, retry; the server's own requests | answers out of order, end of the stream | an answer is that of its question; calls end | `Lsp` |
| Rhai extensions (pirs-rhai `lib.rs`, `subagent.rs`) | a lock per engine | hooks, policies, tools, sub-agents | re-entry from a sub-agent or a parallel call | a policy never fails open; no deadlock | `Extensions` |
| Other tools; skills; audio; benchmarks | caches | I/O | - | - | not modelled, see section 7 |

How they interact. A front end owns an `Agent`; it calls `prompt` on one thread
and `steer`, `follow_up`, `cancel` on others, which only touch locked queues and
the cancel token. The loop asks `stream_once` for a reply, which goes through
the packs (`Pins`), the router and a client (`Completion`), and hands the calls
of the reply to `execute_tool_calls`, from which it takes one result per call:
`BatchContract` is that interface, `AgentLoop` uses its outcome and `ToolBatch`
implements it. Tools reach the MCP pool, language servers, extensions, files,
the code index and shells, which calls of one batch, of sub-agents or of several
processes share; background jobs outlive the run. A strategy runs one agent per
phase and may run it all again behind a verification. The orchestrator and claw
run whole `pirs` processes: the former over pipes, the latter one chat per
message or per due schedule entry. Session files are written from the loop's
events, not from its history.

## 2. Modules

| module | what it is | lines it stands for |
|---|---|---|
| `AgentLoop` | the loop, the queues, what the session file gets | pirs-agent `agent_loop/mod.rs`, `stream.rs`, `agent.rs`, part of `compaction.rs` |
| `BatchContract` | abstract batch: each call answered once, handed back complete | the loop's use of a batch, `agent_loop/mod.rs` |
| `ToolBatch` | the batch as it is executed; `ContractHolds` is the refinement | `agent_loop/tool_exec.rs` |
| `Completion` | one reply: `stream_once`, router, both clients | `stream.rs`, pirs-ai `routing.rs`, `openai.rs`, `anthropic.rs` |
| `Pins` | the messages of one request behind the packs | `control_pins.rs`, `stream.rs`, the Rhai packs |
| `Compaction` | cut, summary, memory, account | `compaction.rs`, its callers |
| `Thrash` | detectors, verdict, advisor | `thrash.rs`, `hybrid.rs`, their callers |
| `Phases` | gated strategies | `strategy.rs`, `gate.rs`, `phase_agent.rs`, pirs `turn.rs` |
| `Jobs` | registry, watcher threads, kills, waits, sub-agents | `jobs.rs`, `delegate.rs`, pirs-tools `job_tools.rs` |
| `Shell` | one foreground call of bash | pirs-tools `bash.rs` |
| `Workspace` | files, locks, edits, checkpoints | pirs-tools `edit.rs`, `edit_block.rs`, `filelock.rs`, `checkpoint.rs`, pirs-graph `ast_edit.rs`, pirs-lsp `rename.rs`, `edit.rs` |
| `CodeIndex` | rows, vectors, cached graph | pirs-graph `store.rs`, `bg_index.rs`, `lib.rs` |
| `Lsp` | client of a language server | pirs-lsp `client.rs`, `tool.rs` |
| `McpPool` | pool, clients over three transports | pirs-mcp `pool.rs`, `client.rs`, `http.rs` |
| `Extensions` | engine locks, hooks, sub-agents | pirs-rhai `lib.rs`, `subagent.rs` |
| `Sessions` | histories and session files behind REPL, rpc, acp | pirs `session.rs`, `session_rewind.rs`, `repl.rs`, `rpc_mode.rs`, `acp_mode.rs` |
| `Screen` | threads of the terminal interface | pirs `tui/` |
| `Orchestrator` | supervisor, child pipes, `instances.json`, crash and recovery | pirs-orchestrator `supervisor.rs`, `rpc_process.rs`, `storage.rs` |
| `Bridge` | clients attached to one instance, the tasks between | pirs-orchestrator `server.rs`, `client.rs`, `main.rs`, part of `rpc_process.rs` |
| `Schedule` | `schedule.json`, ticker, commands, crash of any process | pirs-claw `lib.rs`, `gateway/cron.rs`, `main.rs` |
| `Inbox` | Telegram gateway, pairing, a peer's log | pirs-claw `gateway/telegram.rs`, `pairing.rs`, `session.rs` |
| `ToolBatch_proofs`, `AgentLoop_proofs`, `TurnParts_proofs`, `Processes_proofs`, `Schedule_proofs`, `Tools_proofs`, `Files_proofs`, `FrontEnds_proofs` | theorems and proofs | |
| `MC*` | the constants TLC needs; four of them put several parts side by side | |

Four MC modules check several components in one run: `MCTools` (a batch and
what serves its tools: pool, extensions, language server, files, index, shell),
`MCTurnParts` (completion, compaction, thrash guard, a request, a strategy),
`MCFrontEnds` (gateway, sessions, screen) and `MCProcesses` (jobs, the daemon, the
bridge). The parts share no state there: a behaviour is one of a single part and
the others rest, so each property is checked on each part by itself and a run
costs the sum of its parts, not the product.

Definitions marked "Variant" in a comment are not part of any specification:
each is one definition with a plausible bug in it, and checking a property
against the variant shows that the property would notice that bug.

### AgentLoop

One run is the program counter `pc`, walking `start -> loop -> call -> streaming
-> exec -> attach -> turnEnd -> budget -> poll -> loop`, with `follow` and `done`
at its end. An action reaches from one await, or one poll of a locked queue, to
the next, so `Steer`, `FollowUp` and `Cancel` fall between any two of them.
`context`, `newMsgs` and `file` are the three copies of what is said: what the
model sees, what the run returns, and what the session file gets through
`MessageEnd` events. A message keeps its role, a tag for what the loop
distinguishes about it, the number of its calls or its place among them, and the
set of user inputs it carries; its text is left out.

Abstractions: a tool call is known by its position in its reply, not by its id;
the two steps of `begin_prompt` (flag, then token) are one, and so are the end
of a run and its guard; the approval dialogue is left out; a budget of 0 stands
for `None`; what the batch, the thrash guard, the advisor, the judge of a
cascade, hooks and the wall clock decide is a choice.

### ToolBatch and BatchContract

`mode` picks the sequential loop (`take`, `run`) or the parallel path (`prepare`,
`launch`, `collect`). `st` says how far a call has come, `res` is its slot,
`starts` and `ends` count its events, `execs` its executions. `late` is a
history variable: calls whose tool started after the user spoke. The loop
detector and the argument checks are choices. A tool that notices the
cancellation itself, or times out, has the result kind `error`: a cancel is
passed to the tools and nothing else races them with it, so a batch waits for
every call in flight. `Contract` maps `done` to `pc = "done"` and leaves `res`
alone.

### Completion, Pins, Compaction, Thrash, Phases

`Completion` has a task per target of the request, which posts, streams, backs
off and ends, a queue of events per task, and the reader: the router that walks
the targets and `stream_once` that assembles the reply. A reply is pieces of text
and at most one call in two pieces; `voice` tells attempts apart. The server may
refuse, break off or fall silent at any point. Channels have no bound: a sender
that waits sends the same events later.

`Pins` rewrites a list of messages, one pack after another, and then does what
the host does (`preserve_control_pins`, `enforce_tool_result_adjacency`). The
packs are translated from the bundled scripts by what they do to the list:
renew a pin of one kind, drop all reminders, merge consecutive results of a tool.

`Compaction` sizes messages by their estimated tokens and keeps of each its place
in all that was said, so that what the memory holds can be compared with what
was dropped. The choice of the cut is the code's algorithm:
snapping to call boundaries, the minimum of user turns, the emergency rule.
The memory is there or not (`open`), and has two writers: the loop hands it each
result as it comes, and a compaction the texts of what it is about to drop. What
neither takes is in `silent`: replies without a text, the results of `recall`,
blank ones, and those made up for an errored reply. A summary may fail after
the hand-over, and what it has cost by then is on no account (`failures`). The
memory's rows, their eviction at the cap, writes of it that fail, and the guidance
a soft steer appends to a result after the memory has got it are left out.

`Thrash` looks at real calls (a path and a body) with real windows, counters and
content hashes; `starts` and `ends` record them, and what it stopped is compared
with what a reader of that record would have stopped.

`Phases` runs one gated strategy. Texts are known by the attempt and step that
produced them, `given` is what a phase's prompt was rendered from, `since` who
has edited the tree since the verification began. A phase may leave a background
job that goes on editing; Ctrl-C may fall at any time.

### Jobs, Shell

Each job has its thread (`jpc`), each call of `job_kill` (`kpc`) and `job_wait`
(`wpc`) is an actor. An action is one lock section or one system call; hence
`set_status` is two actions (the status, then the waiters) and a kill five.
Processes of a job are numbered: `gen` is the newest, `pid` the one published.
Pids are not reused. Removing the stop flag and firing the waiters are one step
although they take two locks. Notifications, progress lines and the steering of
sub-agents are left out. A job whose log or shell cannot be opened is `stranded`:
listed as running, with no thread, as in the code.

`Shell` is one call: the shell and its kin (in its group or in a session of
their own, holding the pipe or not), the pipe, the task that reads it, its
channel, and the loop that waits for pipe and exit with an eye on timeout and
token. Output is counted; stdout and stderr are one pipe. When a process ends, what it
writes and whom it starts are its own affair.

### Workspace, CodeIndex

`Workspace`: agents of one process, each with a program of calls on two files. A
file is the set of texts in it; an edit replaces a text it must find. Reading,
writing, locking, a git command are steps of their own; a write that is not
atomic may stop in the middle. Checkpoints are the stash commit, the copies and
the index, which is a file git may track.

`CodeIndex`: one source file stands for all, since a refresh treats each by
itself. Its stamp (size and mtime) may stay equal over an edit (`blurred`).
Vectors are kept by start byte and remember the text and model they came from.
An indexer's tick is refresh, read of what is pending, await, store; a call is
the build of the graph and its caching. An edit of one of the agent's tools is
followed by the hook that invalidates the graph, or it is not: sub-agents and
`--no-extensions` have no such hook (`Hooked`), and it leaves out errors, results
without a path and `rename_symbol`. Shell commands and other programs edit the
file too (`EditOutside`). `lapses` records how the graph may have become older than
the file: passed over by a tool's edit, by another one, or built meanwhile.

### Lsp, McpPool, Extensions

`Lsp`: calls race to start the client, open the document and ask; ids of both
sides are the same numbers; a request is retried while the server indexes, and
a document re-sent when the answer says that it was modified. The server may
answer late, ask something itself, close or send garbage. Answers are tagged with
the request they answer, which the client cannot see.

`McpPool`: a task is one tool call, a client is named after the task that
connected it and by whether it did so to refresh the catalog (a `describe` may
connect twice). `live` is the locked map, `lock` the task that holds its mutex over
an await (shutdown does), `link` a client's connection. Over stdio a reader
serves a pending table, over SSE a stream does, over HTTP each POST has its own
answer; each has its own ways to lose one.

`Extensions`: an extension is a lock. Hooks try it (policies deny when it is
taken, the others are skipped), Rhai tools and sub-agents come back to it from
other threads. `passed` records which policies have seen a call.

### Sessions, Screen, Inbox

`Sessions` is a process with one of three front ends, its agent's history, the
history of a run under way, the files and the snapshots. A run reports its prompt
and one reply, errored with calls or not, behind a draft that a cascade rejects or
not; results may be steered or shortened, the history compacted in the run or
by `/compact`, an image put into it, a strategy run its phases; commands of rpc and
acp fall between these steps, the REPL waits. A line may be torn by an exit at any
byte, and a write may fail. `inSync` says that no message has gone to one of
history and file alone; the comment on `FileIsHistory` lists the steps by
which one does.

`Screen` is the loop of the TUI, the agent's thread, the forwarder of steers, the
threads of `!cmd` and the tasks of `/compact`, with the channels and the mutex
between them. A line is its number; where it is, is the state.

`Inbox` is Telegram (what has come, what is confirmed), one gateway process after
another (a crash ends one), and `pirs-claw pair` beside it. Files are read and
written whole; `raced` tells that one process has written over another one's
change, after which the properties about the files claim nothing.

### Orchestrator, Bridge, Schedule

`Orchestrator`: each request is a task. A write of `instances.json` is `Load` and
`Save`: the task keeps the whole file in `copy` in between, and `Save` writes the
other records back as they were loaded. `lock` is the live-map mutex while a task
holds it over a write; steps that take and release it at once need it free.
`child` is the process; `ChildExits` may happen whenever it runs, `Reap` is the
exit task. `Crash` forgets all but the file, and the children become orphans.
Writes succeed and the rename is atomic; `list`, `status`, `touch`, the event
stream and `stop_all` repeat or read what is modelled; ids chosen by a caller are
unique.

`Bridge`: each client of `rpc-stream` has its socket, the task that reads lines
from it, the task that takes them one at a time to their answer, and the loop
that writes answers and events back. They share the child's stdin, the table of
pending requests and the reader that passes out what the child says. The socket
and the channel behind it are one queue (`lines`); a reply is passed on as it is
made, and an event at once when none is before it. What a client prints is left
out, except that printing drops what it had read of a line of its own input
(`torn`). The child's stdin is assumed to take lines. The child is external: it
answers in its order, once or twice, or dies.

`Schedule`: `store` is the file, `copy` what a process has read of it, `now` the
clock and `at` the time a tick started (the code passes that one on to all
marks). A tick goes `recover` (gateway only), `look`, `claim`, `fire`, `mark`,
`fire`, ...; a `run` by hand starts at `fire` without a lock; the other commands
are a read (`StartEdit`) and a write (`EndEdit`). A process may die anywhere, and
its flock goes with it. `lost` tells that a write has undone another one: the
commands take no lock, so a pause and a mark may overwrite each other. The
properties are stated for files no stale write has clobbered. A cron expression
is a grid of times with period `Period`; the order in which a tick fires its jobs
is free; heartbeat and blueprints are left out; reads and writes succeed.

## 3. Runs

| run | properties | what it shows |
|---|---|---|
| `agent_loop` | `TypeOK`, `HistoryAnswered`, `HistoryIsWhatWasSaid`, `FileKeepsDialogue`, `InputsConserved`, `TurnBudgetHolds`, `RunEnds` | two inputs typed at any time, a cancel and an advisor against a long run, and batches of two with cascade, compaction, hooks and a resumed history: nothing typed is lost or doubled, calls always have their results, the copies agree, the budget holds, the run ends |
| `tools` | `TypeOK`, `ExecutionRules`, `ReportsAreComplete`, `ContractHolds`, `PoolIsSound`, `LspIsSound`, `FailsClosed`, `WorkIsKept`, `IndexIsSound`, `ShellIsReaped`, `EveryCallEnds` | a batch of three in either mode implements its contract; pool, extensions, language server, files, index and shell keep what they promise to concurrent calls, and every call ends |
| `turn_parts` | `CompletionIsSound`, `CancelIsHeard`, `CompactionIsSound`, `ThrashIsStopped`, `WireIsValid`, `GateIsHonest` | whatever fails on the way, a reply is of one voice and ends once; a cancel is heard; compaction, guard, request and gate do what they are for over long histories, the memory has what it is handed and the account what was spent |
| `processes` | `TypeOK`, `StatusIsTrue`, `KillsWork`, `NoLostWakeup`, `RecordsAreTrue`, `BridgeIsSound`, `NobodyHangs`, `DeathIsNoticed` | jobs under kills, waits, restarts and eviction; spawn, two stops, a call, a dying child and a crash of the daemon, in every order; two clients on one child |
| `front_ends` | `InboxIsHonest`, `SessionsAreTrue`, `ScreensAreTrue`, `EveryRequestEnds` | gateway with crashes and pairing, session files over exits and resumes, the threads of the screen: what is said is heard as often as it should be; a file and its history part by the named steps only, and histories mix by one of them only; every request is answered |
| `schedule` | `TypeOK`, `OneshotBudget`, `SlotFiresOnce`, `PauseHolds` | ticker and commands on a one-shot and a cron job, all of them mortal |
| `agent_loop_session` | `SessionFileAnswered` (violated) | finding 1 |
| `inbox_paired` | `PairedCanChat` (violated) | finding 2 |
| `completion_retry` | `RetryIsForgiven` (violated) | finding 3 |
| `pins_merged` | `WireIsAnswered` (violated) | finding 4 |
| `workspace_restore` | `RestoreBringsBack` (violated) | finding 5 |
| `index_overtaken` | `EditsAreReembedded` (violated) | finding 6 |

Several properties are conjunctions of named parts, each with its comment in its
module: `PoolIsSound` (`PoolTypeOK`, `WithinCap`, `CallKeepsServer`),
`WorkIsKept` (`EditsSurvive`, `MovesKeepText`), `GateIsHonest`
(`PassIsOfThisTree`, `PromptsAreOfThisAttempt`, `RetryKnowsTheFailure`,
`OnlyApprovalSkips`), `InboxIsHonest` (the types, `DeliveryIsHonest`,
`CodePairsOnce`), `SessionsAreTrue` (the types, `FilesResume`,
`OwnUnlessSwitched`), `ScreensAreTrue` (`ShowsWhatRuns`, `NoLineIsLost`),
`BridgeIsSound` (`RepliesAreOwn`, `NothingMissed`, `WaitersAreKnown`),
`NobodyHangs` (`JobsAndWaitsEnd`, `CallsEnd`, `StreamsEnd`), and so on.

Some invariants are conditional, and say so: `RecordsAreTrue`, `InboxIsHonest`,
`SlotFiresOnce` and `PauseHolds` claim nothing of files that one process has
written over another one's change, which the code allows; `SessionsAreTrue`
nothing of whose message is whose once a session was changed under a run, and nothing of a file whose history was changed without it, or the
other way round, until a resume or a fork joins them; `CompactionIsSound`
nothing of messages in `silent`, of the cost of failed summaries, and of a memory
that is not there;
`BridgeIsSound` nothing of replies and waiters once clients gave one id twice;
`IndexIsSound` nothing of vectors stored over a later refresh (finding 6), and of
a graph that an edit without the hook has passed over, that was being
built while the file or its row was written, or whose file has changed under its
stamp; `WorkIsKept` nothing of text that was rolled back or that a call has gone
over that takes no lock, and of functions whose move another call came between or
whose source could not be put back; `HistoryAnswered` nothing of what packs make
of a request (finding 4). Each of
these conditions is a hazard in `PROJECT.json`, and the steps behind it are in the
model.

### Bounds, and why they are enough

- `AgentLoop`: two set-ups. *Steered*: two turns, and a third behind the one piece of
  advice, let a run pass through each of its turn-opening causes (prompt, results,
  steer, nudge, advice, follow-up) and be asked once more at the budget; two inputs
  make queue order visible, a blank one takes the branch where a steer has no text.
  The proofs lift each of its invariants to any budget and any number of inputs. *Loaded*:
  two turns, batches of two (some against all), three tool calls, everything
  configured, a fresh or a resumed history. One run (`MaxRuns`): runs share only
  the history and the queues, which a resumed history covers.
- `ToolBatch`: three calls, two on one path: a lock conflict with a bystander,
  something before and behind a refused call. The proofs lift it to any number.
- `McpPool`: `CallMixes`: up to three calls about a stdio server and one that
  competes for the only slot, each pair of operations on an SSE and an HTTP one.
- `Extensions`: two policies, one of them with a result hook, the other with
  observers; a main agent with a Rhai tool of each, two sub-agents
  (`SubAgents`), of which one calls a tool.
- `Lsp`: two calls about one document, each kind beside each other kind;
  `MaxTries` 2 for the 7 of the code (one retry already meets a late answer);
  one request of the server's own (`MaxAsks`).
- `Workspace`: `Programs`: every pair of calls of one agent beside an edit and a
  restore of the other, or beside an edit of each file; two files, both orders
  of a move.
- `CodeIndex`: `Crews`: pairs of two indexers (of different models)
  and two calls, whose edits may or may not be followed by the hook; two texts with different symbols, two edits, batches of one
  symbol (`Batch`, 64 in the code) so that a file takes several.
- `Shell`: two processes left behind (one in the group, one away, holding the
  pipe or not), two chunks (`MaxOutput`), a channel of one (`MaxQueue`, 128 in
  the code), so that it fills.
- `Completion`: routes: each client alone, a pin to an unknown backend, an alias
  with an unknown, a keyless and two usable backends; one retry (`MaxRetries`),
  two pieces of text; `MaxLag` 0 takes a new event from the server only when the
  reader has read the last, except for those sent together.
- `Compaction`: nine messages of two sizes, from a fresh history with a memory or a
  torn one without (`NoMemoryIfTorn`), any number of compactions by the loop and of
  `/compact` while the account and what failures cost are below `MaxExtra`. The
  limits are small numbers in the code's order. Replies without a text make one
  call, and a result that memory does not get is a large one: two choices made to
  bound the run.
- `Thrash`: five calls (`MaxStarts`) of five kinds, window 4, three repeats, two
  mistakes, two contents of a path, one advice.
- `Pins`: histories of five messages, three packs, two protected kinds.
- `Phases`: weak-drive and two fans, with no or two attempts allowed
  (`Allowances`), three edits of the tree.
- `Jobs`: capacity 1 with two jobs evicts in the very next registration; three
  processes of the bash job give a restart before and after a kill. The proofs
  lift it.
- `Orchestrator`: one instance, two stops and a call race on the same record. One
  crash leaves each task at each place of its code.
- `Bridge`: two clients; a line of each, or one line and an event (`MaxInputs` 2,
  `MaxEvents` 1), of each kind (`LineKinds`), with equal or different ids: two
  requests in one table, or one beside an event, is where they can be mixed up.
- `Schedule`: three ticks of the clock are three slots of the cron job; backoff
  starts at the second failure and a one-shot gives up at the third instead of
  third and fifth (`BackoffAfter`, `GiveUpAfter`), in the same order as in the
  code. Two commands at once with one job and before the last tick, one command
  with two jobs at any time (`Explored`); states behind a lost update are not explored, in which the properties claim
  nothing. `FailCap` saturates the counter where nothing reads it further.
- `Inbox`: five conversations of up to three updates with pairing, strangers and
  redelivery; two gateways, two runs of `pirs-claw pair`, one crash.
- `Sessions`: two prompts or notes, three sessions or files. `Screen`: three
  lines, one compaction.

### Fairness

- `AgentLoop`: `WF(RunStep)`: the runtime polls the task, and a request to a
  provider ends by a reply, an error or a timeout. The user is free.
- `ToolBatch`: `WF(LoopStep)`, `WF(ToolStep)`: tools end. Nothing but the tools
  themselves ends them: the loop passes the token and waits.
- `Completion`: weak fairness of the reader and of what a client task does by
  itself, and of the body of an error response, which is read without an eye on
  the token; none of the server otherwise. `CancelIsHeard` needs no answer.
- `McpPool`, `Extensions`, `Lsp`, `Jobs`, `Orchestrator`, `Bridge`, `Shell`,
  `Screen`: one
  weak fairness condition per part: while something of the part can go on by
  itself, something does. Each actor takes boundedly many such steps, so that is
  the fairness of each of them. It holds no answer of a server, no exit of a
  process that nobody has killed, no timeout of a wait. What is assumed: a
  child that has got SIGTERM ends (`Orchestrator`; the code needs it, since
  `dispose` waits for a mutex which the exit task holds as long as the child
  lives, `rpc_process.rs:202`); a script ends (the engine has a limit of
  operations); a server takes in what is written to it (stdio writes and SSE
  POSTs have no timeout); a `!cmd` of the TUI ends (it has no timeout either).
  `Extensions` adds weak fairness of the last notification of a hook.
- `Inbox`: weak fairness of serving, polling and handling, strong fairness of
  taking the flock, which the other gateway takes and drops. A chat ends by the
  agent's own limits.
- `Sessions`: weak fairness of a run's report and of its end.
- `Schedule`, `Workspace`, `CodeIndex`, `Compaction`, `Thrash`, `Pins`, `Phases`:
  none. The gateway fires a job by a blocking call without a timeout
  (`gateway/cron.rs:106`), so a chat that hangs stops all fires: no liveness
  holds there, and none is claimed. The others are questions of what may happen,
  not of what must.

## 4. Findings

Each is a run that is expected to be violated; TLC prints the behaviour.

1. `SessionFileAnswered`: an errored reply with tool calls gets synthesized results
   in memory, but not in the session file; a resumed session is then in the state
   which the comment at pirs-agent `agent_loop/mod.rs:146-150` wants to exclude.
2. `PairedCanChat`: the allowlist reloaded after a redeem replaces a clone made for
   this update alone (pirs-claw `gateway/telegram.rs:662`): the peer is told that
   it can chat and is refused until the gateway restarts.
3. `RetryIsForgiven`: a client sends an Error event for a broken stream before it
   retries it; `stream_once` keeps it and turns the successful retry into an error
   (pirs-agent `agent_loop/stream.rs:136`).
4. `WireIsAnswered`: the bundled pack `diff-shield` merges consecutive results of
   one tool; the host restores order, not results, so a batch of two reads is sent
   with a call that has none (pirs-agent `agent_loop/stream.rs:87`).
5. `RestoreBringsBack`: a checkpoint of a clean git tree holds nothing; its restore
   reports success and changes nothing (pirs-tools `checkpoint.rs:142`).
6. `EditsAreReembedded`: vectors of an old text stored over a refresh of the new one
   stay (pirs-graph `store.rs:366`, against `bg_index.rs:12`).

Also met while modelling, and in the models where their part is modelled:

- *Loop and strategies.* A final reply in a turn that a late steer opened is not
  re-asked after the repair nudge (`agent_loop/mod.rs:207`). `prompt` returns `Ok`
  after a run that ended in an error (`agent.rs:329`), so a gate never sees a
  provider failure. The advisor's plan, stage and budget of the first attempt of
  a strategy stay for its retries (`turn.rs`), against `hybrid.rs:30`. The thrash
  guard is not reset between prompts.
- *Jobs.* A `job_kill` in the last 100 ms of the restart backoff is answered as done
  and the shell is started again (pirs-tools `job_tools.rs:340`); `KillsWork`
  bounds the damage to that one process. A job whose log cannot be reopened stays
  listed as running (`job_tools.rs:345`).
- *Orchestrator.* Two tasks that write `instances.json` undo each other; a stopped
  instance stays listed (`storage.rs:58`). An instance whose child exits before
  its insertion stays online for ever (`supervisor.rs`).
- *Bridge.* A client that is attached and asks nothing is not told of the instance's
  death (`server.rs`, `bridge_stream`); a command that takes over 30 s ends its
  whole stream; `read_line` in the client's `select!` is not cancel-safe, so a line
  typed while something is printed may be sent torn (`main.rs`); a command with
  the id of a pending one takes its place; an aborted write may leave part of a
  line in the child's stdin; the end of its own input never ends a client. Two
  daemons started at once can both remove a stale socket (read, not modelled).
- *Schedule.* A `schedule run` that outlasts a tick moves `next_fire` back to a slot
  that was claimed (pirs-claw `lib.rs:430`); the third failure of a rare cron job
  brings its next fire nearer (`lib.rs:468`); commands undo each other's writes.
- *Pairing.* A crash between consuming a code and saving the allowlist loses the
  code (`pairing.rs:229`).
- *Compaction.* A reply without a text that is dropped, a result of `recall` and the
  results made up for an errored reply never reach the memory (pirs-agent
  `memory.rs:332`, `agent_loop/mod.rs:249`, `:155`), against the repository's
  `README.md:205`, "every tool result and every message compaction drops". A
  summary that fails drops the usage it has read (`compaction.rs:357-383`), so the
  cost shown is too low.
- *Code graph.* Sub-agents share the graph and the edit tools but not the hook that
  invalidates it, nor is there one under `--no-extensions` (pirs `main.rs:910`,
  `:982`, `:996`), so the graph is served as it was before such an edit, against
  the comment at `:1047`, "Mark the index stale on EVERY edit".
- *Sessions.* `session/new` during a run puts its transcript into the new session
  and takes it from the old one (pirs `acp_mode.rs:375`, against `:93`); rpc's
  `new_session` does the same to its one history. `/image` and `!cmd` change the history and not the file
  (pirs `repl.rs:501`); `/undo` restores the snapshot before the
  last one (`session_rewind.rs:64`); a line torn by an exit and written onto makes
  the file unreadable.
- *Screen.* A line typed while a `!cmd` runs, or just behind the last poll of a run,
  waits as a steer until the next prompt and is read behind it; a `/compact` at
  the end of a run freezes the keys until it is done (`tui/mod.rs:251`); `!cmd`
  that ends during a `/compact` is not recorded though the screen says so (`:304`).
- *Tools.* `ast_edit` writes the destination of a move without its lock
  (pirs-graph `ast_edit.rs:568`); a rename over several files is not atomic
  (pirs-lsp `edit.rs:72`, against `rename.rs:6`); parallel enables of MCP servers
  start more processes than the cap, which counts connected ones (`pool.rs:130`);
  a tool call cut off in its arguments may be executed with empty ones
  (pirs-ai `openai.rs`); an LSP document edited behind the server's back is sent again
  only when the server objects.

## 5. Proofs

| module | theorems |
|---|---|
| `ToolBatch_proofs` | `Invariance`; from it `TypeCorrect`, `ExecutionIsRight` (`ExecutionRules`), `ReportingIsComplete` (`ReportsAreComplete`), `AllAnswered`, `SteeredBatchStops`, `PathsAreExclusive` and the other parts of the two; and `Refinement` (`ContractHolds`) |
| `AgentLoop_proofs` | `LoopTyped` (`TypeOK`), `CallsAnswered` (`HistoryAnswered`), `NothingLost` (`InputsConserved`), `TurnsBounded` (`TurnBudgetHolds`), `HistoryRetells` (`HistoryIsWhatWasSaid`), `DialogueIsKept` (`FileKeepsDialogue`) |
| `Processes_proofs` | three parts. `Invariance`; from it `TypeCorrect`, `StatusesAreTrue` (`StatusIsTrue`), `NoWakeupIsLost` (`NoLostWakeup`), `KillsAreFelt` (`KillsWork`) and their parts; `DaemonInvariant`, `RecordsTrue` (`RecordsAreTrue`); `BridgeIsSoundHolds` (`BridgeIsSound`) |
| `TurnParts_proofs` | two parts. `CompletionIsSoundHolds` (`CompletionIsSound`); `GateIsHonestHolds` (`GateIsHonest`) |
| `Schedule_proofs` | `ScheduleInvariant`; from it `ScheduleTyped` (`TypeOK`), `BudgetHolds` (`OneshotBudget`), `SlotOnce` (`SlotFiresOnce`), `PausesHold` (`PauseHolds`) |
| `Tools_proofs` | four parts. `ShellInvariance`, `ShellReaped` (`ShellIsReaped`); `HostInvariance`, `PoliciesFailClosed` (`FailsClosed`); `PoolInvariance`, `PoolSound` (`PoolIsSound`) with `CapIsKept` and `CallsKeepServers`; `LspInvariance`, `LspSound` (`LspIsSound`) |
| `Files_proofs` | two parts. `WorkIsKeptHolds` (`WorkIsKept`); `IndexIsSoundHolds` (`IndexIsSound`) |
| `FrontEnds_proofs` | three parts. `InboxInvariance`, `InboxHonest` (`InboxIsHonest`); `SessionsInvariance`, `SessionsTrue` (`SessionsAreTrue`); `ScreenInvariance`, `ScreenTrue` (`ScreensAreTrue`) |

A theorem is about the specification of its module, for all values of its
constants: no bound of section 3 remains, however many jobs, calls, inputs,
callers or crashes there are. The bounds that are part of a model (how many
inputs a user may type, how often a job may be killed) are parameters there.

Assumptions: those that the modules state of their constants, which TLC evaluates
for its instances. They give each constant its kind (`JobsAssumption`: ids and
process bounds are naturals and the capacity is positive; `BatchAssumption`: a
call has a path or none; `ExtensionsAssumption`: a call belongs to one agent;
`McpPoolAssumption` and others: names of different kinds differ; `InboxAssumption`:
a pairing code is minted once, as one drawn at random is; `BridgeAssumption`: a
client's id is never one that the bridge makes up; `IndexAssumption`: there is a
text to begin with; `PhasesAssumption`: a strategy is a sequence of steps and the
tree has a last version; `CompletionAssumption`: a route names a sequence of
backends and one default), and `HistoryAssumption` what a resumed history consists
of. One theorem has a
hypothesis beside them: `CallsAnswered` assumes that the histories the session
file yields are answered (`ResumesAnswered`). It is needed: finding 1 shows a file
that is not, and a run resumed from it starts outside the invariant.

Batch. The properties speak of results and events, and none is inductive: whether
a skipped call never ran depends on where the loop stood when it skipped it. `Inv`
adds `Place` (calls before and behind the one the loop is at, for each `pc`),
`Record` (what a call at each stage has to show: executions, slot, start and end
events), `LoopRefused` (behind a refused loop every call is untouched, and the
flag that keeps it so is set) and `SteerSeen` (the one late call is the current
one, or the loop skips by now). Each of the actions is one step of the proof, with
one step below for each conjunct it can disturb. The refinement has one lemma for
the steps that answer a call; the others hand back or stutter.

Jobs. `Inv` adds `Places` (a job is new until registered and at a place of its
kind), `Quiet` (where no process runs), `Wakeup` (a waiter about to sleep has its
sender registered or fired, which is why the second look after the registration
matters), `Pids` with `KillKnows` (a pid in hand is never from the future, and the
process behind it is dead once the signal went out) and `Flags` (a watcher that is
about to respawn was not stopped before its last look). The lemmas `Move*` state
once what a step of a job's own thread does to types, wake-ups and pids.

Agent loop. `LoopShape` says what the locals of a run hold at each `pc` (when
`pending` may be lost, that the batch under way is the one of the last reply) and
each promise adds its own part. `AnsweredInv`: the context is answered but for
its last message while a batch runs. `TurnInv`: `turns` is the number of replies,
one behind while a turn is under way, and below the budget wherever another reply
can still begin. `ConserveInv`: an input is in exactly one place from when it is
typed; the places are queues, locals and messages, and what compaction replaced.
`RetellInv`: the context is what was said but for its first message and a prefix.
`Keeps`: what is spoken in `newMsgs` stands in the file with as much spoken behind
it, which also fixes the order. It is counted from the end, so that a message
recorded in both adds the same to both sides, and a result, a draft or a filler that
one of them has alone adds nothing (`KeepsBoth`, `KeepsSilent`). The lemmas on
counting the members of a set in a concatenation, a tail, an append carry the last
four.

Orchestrator. `DaemonInv` is `DaemonTypeOK` with `NoGhostOnline`, the same of the
file copies that tasks hold (`CopiesOwn`), and what a stop knows at each of its
places (`StopKnows`): its spawn is past the point where it starts a child, so what
has ended is not replaced and what was dropped from the live map is not put back.

Schedule. `SchedInv` is conditional: until a stale write, what a process has read
is the file (`CopiesCurrent`), so that each write is one step from the file as it
is. Then a job that may fire is past the slot last claimed (`SlotsAdvance`), which
the marks keep since what a tick holds is marked as running (`BatchRuns`); a job
switched off is off (`OffStaysOff`); and every claim of a one-shot but the last is
paid for by a failure on record (`TriesCounted`). `BudgetHolds` has to hold behind
a lost write too, in which case the property asks nothing.

Shell. `ShellInv`: chunks in the pipe, the channel and the output add up
(`ChunksCounted`), what each ending has done (`EndIsSettled`), who may be left in
the group (`GroupIsDead`) and who may still write (`PipeIsKnown`).

Extensions. `HostInv`: a script that runs holds its lock (`LocksHeld`); the
policies a call has passed are those before its turn (`PassedBefore`), which is
what the code's loop over the extensions amounts to however other threads come
between; verdicts arrive in that order (`VerdictsInOrder`), and the calls a batch
runs are those whose turn is over (`ToolsRun`).

MCP pool. `PoolInv`: what a task has in hand at each place (`HandlesFit`), a
connection that is up is in the map, in the hand of a task, or of a task that is
connecting (`LinksKnown`), and the map is below its cap whenever its mutex is free
or about to insert (`CapHolds`).

Language server. `LspInv`: one call starts the client while the others wait
(`OneStarts`); whoever is past opening a document can rely on the server's having
been told (`ServerKnows`), although `opened` is set before; ids in use differ and
an answer is delivered by id (`AnswersFit`).

Inbox. `InboxInv`: who holds the flock is the one process at work, and it has
handled what is before its offset (`HandledBefore`); a line is in a session once
per crash, and once more when the process at work has come past the place where it
writes it (`CountsFit`), which is why an update redelivered after a crash is the
only one heard twice; a code that was redeemed or is being redeemed is out of the
file, and whoever minted it is done (`SpentIsGone`), until a write has lost a
change.

Sessions. `SessionsInv`: as long as nothing has gone to one of the two alone, the
REPL's file has the history and, of a run, what it has reported (`FileFollows`);
a cut-off line is the last of a file that no process
appends to (`FilesClean`), since each process begins a file of its own; in rpc and
acp the run's copy of the history, not the history, belongs to the current session
(`SaidIn`). That the oldest summary and the newest file exist is the principle of
the least number, taken from the library in a form without operator parameters
(`Least`).

Screen. `ScreenInv`: each line is in one channel, queue or hand, once
(`LinesApart`, `LinesOnce`, `LinesTyped`).

Workspace. `WorkInv`: a call past its beginning holds the lock of its file
(`HoldsItsLock`), so that what an edit has read still has the text of every edit
that nothing excuses (`HasRead`) and its write loses none; whatever a call has
written is the last of its trail (`MarksAreOld`). For a move, `MovesTrue` says
where its function is at each step as long as all that was written is its own
(`Quiet`), and that a file it has read and nobody wrote has what was committed,
which is what its undo puts back. A frame lemma states once, for any step, what
stays true of the agents that did not move.

Code index. `IndexInv`: whatever was read under a stamp of the file is its text
while the file has that stamp and was not changed under it (`Under`); the rows of
the store, the rows of a batch and a file just parsed are such readings
(`Rows`, `ReadIsTrue`, `BatchIsTrue`), and the graph is what its builder was
entitled to cache unless it is known how it fell behind (`BuildIsTrue`). Where
nobody builds and nothing is cached, an edit without the hook leaves no lapse
(`PassesOverIs`, `NobodyBuilds`).

Phases. `PhasesInv`: the texts are of this attempt and in the order of its steps,
and {prev} is the last (`TextsInOrder`); every step gone by has given one or was
left out by an approval that was the last before it (`Told`); a phase that runs
was given these texts (`PhaseRuns`) and the verdict is that of the attempt before
(`VerdictIsLast`).

Completion. `CompletionInv`: a task has posted once more than it has retried, and
what it has assembled goes with its attempt (`TasksFit`); of the target that is
heard, what the reader has seen and what is in the channel are of the attempt the
task is at, and hold as much text as the task has, until the task has ended: then
its one Done is the last thing said and its message has that text (`StreamFits`).
So a retry, which the clients take only while nothing was shown, starts with a
reader that has seen nothing, and so does the next target (`HeardFits`). Lemmas on
`StreamFits` say once what a send, an end and a read do to it, with pieces of text
counted by the cardinality of a set of positions.

Bridge. `BridgeInv`: the lines a client typed are, in order, with the task that
takes them, in its socket or still to be read (`LinesInOrder`, `TaskIsAtLine`); the
replies of a client are as many as its lines that call for one, up to the one in
work (`RepliesCount`); a request in work has its own answer, a refusal, or an entry
in the table (`AnswerIsOwn`); what is in the child's pipes and the table are
requests that were typed (`WiresAreKnown`). `RepliesAreOwn` follows while the ids
are distinct. Its count of lines is the cardinality of a set, and the lemmas
on how it grows with one more line take the place of induction over a filter.

Only model-checked. Invariants: `CompactionIsSound`,
`ThrashIsStopped`, `WireIsValid`, which rest on recursive definitions over lists
(the cut of a compaction, the wire order, the windows of the thrash guard), for
which induction over data would be needed. And for good the liveness properties
(`RunEnds`, `EveryCallEnds`, `CancelIsHeard`, `NobodyHangs`, `DeathIsNoticed`,
`EveryRequestEnds`): liveness under fairness and `ENABLED` are beyond the proof
system used here.

## 6. Plan

Done, in this order: `AgentLoop`, `BatchContract`, `ToolBatch`, `Jobs`,
`Orchestrator`, `Schedule`, proofs of `ToolBatch` and `Jobs`; `McpPool`, `Inbox`,
`Sessions`, `Completion`, `Compaction`, `Thrash`, `Extensions`, `Lsp`, `Pins`,
`Workspace`, `CodeIndex`, `Phases`, `Shell`, `Screen`, each composed into one of
the runs; `Bridge`; proofs of `AgentLoop`, `Orchestrator`, `Schedule`, `Shell`,
`Extensions`, `McpPool`, `Lsp`, `Inbox`, `Sessions` and `Screen`; proofs of
`Workspace`, `CodeIndex`, `Phases`, `Bridge` and `Completion`.

## 7. Not modelled

The map covers about a tenth of the implementation. Most of the rest has no
state that outlives a call, or none that two actors share:

- *Rendering and wording*: the widgets of the TUI, `--help`, themes, exports,
  the texts of prompts, nudges and reports.
- *Wiring*: `main.rs` reads flags and configuration and hands each part its
  arguments; what those parts do with them is modelled.
- *Tools over data*: `code_review.rs`, `project.rs`, office, browser, speech and
  search tools run an external program or read files and format what comes back;
  the language front ends of pirs-graph parse, rank and print. Their outcome is
  a choice in `ToolBatch`.
- *Decisions on text*: shell parsing, permission rules, sandbox arguments, secret
  redaction, argument schemas. They are functions of a string; the model has
  their outcome as a choice.
- *Request bodies*: conversion of messages to the providers' formats, SSE
  framing, OAuth, speech, embeddings.
- *Memory, audit, trace, usage, skills*: files that are appended to and searched,
  with no decision of the loop depending on them.
- *Framing*: the orchestrator's socket server and client but for the raw
  bridge, the web front end, the webhook and Signal gateways (same duties as
  Telegram's, without its batch).
- *Benchmarks and the audio server*: not part of the product, or stateless.
