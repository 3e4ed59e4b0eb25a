----------------------------- MODULE Sessions -----------------------------
(***************************************************************************)
(* The conversations of a pirs process: the front ends that hold the agent *)
(* (repl.rs with main.rs, rpc_mode.rs, acp_mode.rs), the history they swap *)
(* in and out of it, and the session file (session.rs).                    *)
(*                                                                         *)
(* A run takes a copy of the history and gives back a longer one when it   *)
(* ends (Agent::begin_prompt, complete_run). Meanwhile rpc and acp serve   *)
(* commands; the REPL waits. The file is written from the MessageEnd       *)
(* events of the run, one line per message; only the REPL and the terminal *)
(* screen (mode "repl") read it again. Not every change of the history has *)
(* such an event, and not every event is of a message that stays in the    *)
(* history. What else a run does is AgentLoop.                             *)
(***************************************************************************)
EXTENDS Naturals, Sequences

CONSTANTS
  Modes,        \* bound: the front ends to start with
  MaxSaid,      \* bound on prompts and notes
  MaxSessions   \* bound on session files and ACP sessions

AllModes == {"repl", "rpc", "acp"}

ASSUME SessionsAssumption ==
  /\ Modes \subseteq AllModes
  /\ MaxSaid \in Nat \ {0} /\ MaxSessions \in Nat \ {0}

VARIABLES
  mode,
  up,        \* the process runs
  msgs,      \* agent.messages
  ctx,       \* the history of the run
  phase,     \* where the run is
  cur,       \* the current session: its file, or its ACP id; 0 before one
  asked,     \* ACP: a session/prompt request waits for its response
  hist,      \* ACP: session_histories
  jsonl,     \* the session files, by age
  made,      \* how many sessions there have been
  snaps,     \* the rewind snapshots of the process
  before,    \* REPL: the length of the history when the run began
  \* history
  home,      \* the session a message was said in
  switched,  \* the session was changed under a run
  inSync,    \* no message has gone to one of history and file alone
  failed,    \* a write has failed
  panicked

sessionVars ==
  <<mode, up, msgs, ctx, phase, cur, asked, hist, jsonl, made, snaps, before,
    home, switched, inSync, failed, panicked>>
run == <<ctx, phase>>
frontEnd == <<mode, up, made, panicked>>

SessionIds == 1..MaxSessions
Said == Len(home)
\* A reply stands for the replies and results of a run that goes well; a
\* result for those made up for an errored reply, or changed later on.
Roles == {"user", "reply", "result", "note", "summary"}
Phases == {"none", "begun", "heard", "drafted", "replied", "errored", "phased"}
Messages == [n : 0..MaxSaid, role : Roles]
Msg(n, role) == [n |-> n, role |-> role]

\* Lines of a file that are no message: one cut off in the middle, and one
\* that another line was written onto.
Torn == Msg(0, "torn")
Bad == Msg(0, "bad")
Junk == {Torn, Bad}

NoRun == phase = "none"
Last(seq) == seq[Len(seq)]
Front(seq) == SubSeq(seq, 1, Len(seq) - 1)

\* The file of the current session: ACP writes all its sessions to one.
File == IF mode = "acp" THEN 1 ELSE cur

SessionInit ==
  /\ mode \in Modes
  /\ up = TRUE /\ panicked = FALSE
  /\ msgs = <<>> /\ ctx = <<>> /\ phase = "none"
  /\ cur = (IF mode = "acp" THEN 0 ELSE 1)
  /\ made = cur
  /\ asked = FALSE
  /\ hist = [s \in SessionIds |-> <<>>]
  /\ jsonl = [s \in SessionIds |-> <<>>]
  /\ snaps = <<>> /\ before = 0
  /\ home = <<>> /\ switched = FALSE /\ inSync = TRUE /\ failed = FALSE

-----------------------------------------------------------------------------
(* The session file. *)

\* A line written after one without its newline is glued to it.
Put(lines, m) ==
  IF lines # <<>> /\ Last(lines) = Torn
  THEN Append(Front(lines), IF m = Torn THEN Torn ELSE Bad)
  ELSE Append(lines, m)

\* session::append; its callers drop the error. The history gets the message
\* as well, and no other, if the two are to stay the same.
Write(f, m, same) ==
  \/ /\ jsonl' = [jsonl EXCEPT ![f] = Put(@, m)]
     /\ inSync' = (inSync /\ same)
     /\ UNCHANGED failed
  \/ /\ jsonl' \in {jsonl, [jsonl EXCEPT ![f] = Put(@, Torn)]}
     /\ failed' = TRUE /\ inSync' = FALSE

\* messages_from_file: only the last line may be broken.
Loadable(lines) == \A i \in 1..(Len(lines) - 1) : lines[i] \notin Junk
Load(lines) ==
  IF lines # <<>> /\ Last(lines) \in Junk THEN Front(lines) ELSE lines

\* load_latest: the newest file, from the first summary on.
Folded(seq) ==
  LET marks == {i \in DOMAIN seq : seq[i].role = "summary"} IN
  IF marks = {} THEN seq
  ELSE SubSeq(seq, CHOOSE i \in marks : \A j \in marks : i <= j, Len(seq))

Written == {f \in 1..made : jsonl[f] # <<>>}
Latest == CHOOSE f \in Written : \A g \in Written : g <= f

-----------------------------------------------------------------------------
(* A run. *)

\* begin_prompt, with what the front end does before it.
Begin(s, history) ==
  /\ NoRun
  /\ Said < MaxSaid
  /\ home' = Append(home, s)
  /\ ctx' = Append(history, Msg(Said + 1, "user"))
  /\ phase' = "begun"

\* A step of a run that tells of m: a MessageEnd, which the listener of the
\* front end writes to the file.
Tell(m, same, next) ==
  /\ up
  /\ Write(File, m, same)
  /\ phase' = next
  /\ UNCHANGED <<frontEnd, msgs, cur, asked, hist, snaps, before, home,
                 switched>>

\* The prompt is in the history of the run already.
ReportPrompt ==
  /\ phase = "begun"
  /\ Tell(Last(ctx), TRUE, "heard")
  /\ UNCHANGED ctx

Awaited == phase \in {"heard", "drafted"}
NextReply == Msg(Last(ctx).n, "reply")

ReportReply ==
  /\ Awaited
  /\ Tell(NextReply, TRUE, "replied")
  /\ ctx' = Append(ctx, NextReply)

\* An errored or aborted reply with tool calls: their results are made up for
\* the history, and no event tells of them.
ReportErrored ==
  /\ Awaited
  /\ Tell(NextReply, FALSE, "errored")
  /\ ctx' = Append(Append(ctx, NextReply), Msg(Last(ctx).n, "result"))

\* A cascade tells of the draft that it has taken out of the history again.
ReportDraft ==
  /\ phase = "heard"
  /\ Tell(NextReply, FALSE, "drafted")
  /\ UNCHANGED ctx

Report == ReportPrompt \/ ReportReply \/ ReportErrored \/ ReportDraft

\* A result that was told changes in the history: steering is appended to the
\* last one (soft steer), and a long one is cut before a compaction.
AmendResult ==
  /\ up /\ phase = "replied"
  /\ ctx' = [ctx EXCEPT ![Len(ctx)].role = "result"]
  /\ inSync' = FALSE
  /\ UNCHANGED <<frontEnd, msgs, phase, cur, asked, hist, jsonl, snaps, before,
                 home, switched, failed>>

\* compact_messages: a summary in place of the oldest messages. No event tells
\* the file. All front ends compact in the run.
Summarized(seq, cut) ==
  <<Msg(0, "summary")>> \o SubSeq(seq, cut + 1, Len(seq))

CompactRun ==
  /\ up /\ phase = "replied"
  /\ \E cut \in 2..(Len(ctx) - 1) : ctx' = Summarized(ctx, cut)
  /\ inSync' = FALSE
  /\ UNCHANGED <<frontEnd, msgs, phase, cur, asked, hist, jsonl, snaps, before,
                 home, switched, failed>>

Over == phase' = "none" /\ ctx' = <<>>

FinishUnanswered ==
  /\ up
  /\ phase \in {"replied", "errored"}
  /\ Over
  /\ msgs' = ctx
  /\ hist' = IF mode = "acp" THEN [hist EXCEPT ![cur] = ctx] ELSE hist
  /\ UNCHANGED <<frontEnd, asked, cur, jsonl, snaps, before, home, switched,
                 inSync, failed>>

\* complete_run with the history of the run. ACP keeps it under the session
\* that is current now; the REPL counts the messages behind those it had before.
Complete(full) ==
  /\ up
  /\ Over
  /\ asked' = FALSE
  /\ panicked' = (mode = "repl" /\ Len(full) < before)
  /\ up' = ~panicked'
  /\ msgs' = IF up' THEN full ELSE <<>>
  /\ snaps' = IF up' THEN snaps ELSE <<>>
  /\ hist' = IF mode = "acp" THEN [hist EXCEPT ![cur] = full] ELSE hist
  /\ UNCHANGED <<mode, made, cur, jsonl, before, home, switched, inSync, failed>>

\* A run ends with a reply, errored or not. ACP takes one whose task has gone
\* for an empty history.
FinishRun ==
  \/ phase \in {"replied", "errored"} /\ Complete(ctx)
  \/ mode = "acp" /\ ~NoRun /\ Complete(<<>>)

-----------------------------------------------------------------------------
(* The REPL. *)

\* A line for the agent, after a snapshot for /undo.
ReplPrompt ==
  /\ mode = "repl" /\ up
  /\ Begin(cur, msgs)
  /\ snaps' = Append(snaps, msgs)
  /\ before' = Len(msgs)
  /\ UNCHANGED <<frontEnd, msgs, cur, asked, hist, jsonl, switched, inSync,
                 failed>>

\* A prompt to a strategy (terminal screen): run_strategy_turn runs the phases
\* on copies of the agent, each with a history of its own.
StrategyPrompt ==
  /\ mode = "repl" /\ up /\ NoRun
  /\ Said < MaxSaid
  /\ home' = Append(home, cur)
  /\ ctx' = <<Msg(Said + 1, "user")>>
  /\ phase' = "phased"
  /\ snaps' = Append(snaps, msgs)
  /\ UNCHANGED <<frontEnd, msgs, cur, asked, hist, jsonl, before, switched,
                 inSync, failed>>

\* The copies share the listeners of the agent: what the phases say (here one
\* line) goes to the file, and the agent's history stays as it was.
StrategyTurn ==
  /\ mode = "repl" /\ up /\ phase = "phased"
  /\ Write(File, Last(ctx), FALSE)
  /\ Over
  /\ UNCHANGED <<frontEnd, msgs, cur, asked, hist, snaps, before, home,
                 switched>>

\* restore_last: the last snapshot but one, or the only one.
Undo ==
  /\ mode = "repl" /\ up /\ NoRun
  /\ snaps # <<>>
  /\ msgs' = snaps[IF Len(snaps) < 2 THEN 1 ELSE Len(snaps) - 1]
  /\ inSync' = FALSE
  /\ UNCHANGED <<frontEnd, run, cur, asked, hist, jsonl, snaps, before, home,
                 switched, failed>>

Compact ==
  /\ mode = "repl" /\ up /\ NoRun
  /\ \E cut \in 2..(Len(msgs) - 1) : msgs' = Summarized(msgs, cut)
  /\ inSync' = FALSE
  /\ UNCHANGED <<frontEnd, run, cur, asked, hist, jsonl, snaps, before, home,
                 switched, failed>>

\* /fork i, or /fork for the last entry: fork_session copies the first entries
\* to a file of its own, where the next lines go. The parent is read strictly.
Fork ==
  /\ mode = "repl" /\ up /\ NoRun
  /\ made < MaxSessions
  /\ cur \in Written
  /\ \A i \in DOMAIN jsonl[cur] : jsonl[cur][i] \notin Junk
  /\ made' = made + 1 /\ cur' = made'
  /\ \E i \in DOMAIN jsonl[cur] : msgs' = SubSeq(jsonl[cur], 1, i)
  /\ jsonl' = [jsonl EXCEPT ![made'] = msgs']
  /\ inSync' = TRUE
  /\ UNCHANGED <<mode, up, panicked, run, asked, hist, snaps, before, home,
                 switched, failed>>

\* The process ends, with a run under way or without, perhaps in the middle of
\* a line.
Exit ==
  /\ mode = "repl" /\ up
  /\ up' = FALSE
  /\ \/ UNCHANGED jsonl
     \/ ~NoRun /\ jsonl' = [jsonl EXCEPT ![cur] = Put(@, Torn)]
  /\ msgs' = <<>> /\ Over /\ snaps' = <<>>
  /\ UNCHANGED <<mode, made, panicked, cur, asked, hist, before, home,
                 switched, inSync, failed>>

\* A new process and its new file. With --resume it takes over what it can
\* load of the newest file, and writes it to its own.
StartIn(f, resume) ==
  /\ mode = "repl" /\ ~up
  /\ up' = TRUE /\ panicked' = FALSE
  /\ cur' = f
  /\ msgs' = IF resume /\ Written # {} /\ Loadable(jsonl[Latest])
             THEN Folded(Load(jsonl[Latest])) ELSE <<>>
  /\ snaps' = <<>> /\ before' = 0
  /\ inSync' = TRUE
  /\ UNCHANGED <<mode, run, asked, hist, home, switched, failed>>

StartInLatest ==
  \E resume \in BOOLEAN :
    IF resume /\ Written # {}
    THEN StartIn(Latest, TRUE) /\ UNCHANGED <<made, jsonl>>
    ELSE /\ made < MaxSessions
         /\ made' = made + 1
         /\ StartIn(made', FALSE)
         /\ UNCHANGED jsonl

Start ==
  /\ made < MaxSessions
  /\ made' = made + 1
  /\ \E resume \in BOOLEAN : StartIn(made', resume)
  /\ jsonl' = [jsonl EXCEPT ![made'] = msgs']

-----------------------------------------------------------------------------
(* rpc and acp: commands, during a run or not. *)

\* A message goes into the history behind the file's back. A run that is under
\* way (rpc) replaces the history when it ends.
Push ==
  /\ up
  /\ mode = "repl" => NoRun
  /\ Said < MaxSaid
  /\ home' = Append(home, cur)
  /\ msgs' = Append(msgs, Msg(Said + 1, "note"))
  /\ inSync' = FALSE
  /\ UNCHANGED <<frontEnd, run, cur, asked, hist, jsonl, snaps, before,
                 switched, failed>>

\* `!cmd` of the REPL and the screen, "bash" of rpc: the output of a command.
Note == mode \in {"repl", "rpc"} /\ Push

\* /image of the REPL and the screen.
AttachImage == mode = "repl" /\ Push

RpcPrompt ==
  /\ mode = "rpc"
  /\ Begin(cur, msgs)
  /\ UNCHANGED <<frontEnd, msgs, cur, asked, hist, jsonl, snaps, before,
                 switched, inSync, failed>>

\* new_session cancels the run, which ends a little later all the same.
RpcNewSession ==
  /\ mode = "rpc"
  /\ made < MaxSessions
  /\ made' = made + 1 /\ cur' = made'
  /\ msgs' = <<>>
  /\ switched' = (switched \/ ~NoRun)
  /\ UNCHANGED <<mode, up, panicked, run, asked, hist, jsonl, snaps, before,
                 home, inSync, failed>>

\* The history of the current session is put away for that of another.
Saved == IF cur = 0 THEN hist ELSE [hist EXCEPT ![cur] = msgs]

AcpNew ==
  /\ mode = "acp"
  /\ made < MaxSessions
  /\ made' = made + 1 /\ cur' = made'
  /\ hist' = Saved
  /\ msgs' = <<>>
  /\ switched' = (switched \/ ~NoRun)
  /\ UNCHANGED <<mode, up, panicked, run, asked, jsonl, snaps, before, home,
                 inSync, failed>>

AcpSwitch(s) ==
  /\ mode = "acp"
  /\ s \in 1..made
  /\ hist' = Saved
  /\ cur' = s
  /\ msgs' = Saved[s]

\* session/load is refused while a run is under way.
AcpLoad ==
  /\ NoRun
  /\ \E s \in SessionIds : AcpSwitch(s)
  /\ UNCHANGED <<frontEnd, run, asked, jsonl, snaps, before, home, switched,
                 inSync, failed>>

\* session/prompt names a session, and is refused as well.
AcpPrompt ==
  \E s \in SessionIds :
    /\ AcpSwitch(s)
    /\ Begin(s, msgs')
    /\ asked' = TRUE
    /\ UNCHANGED <<frontEnd, jsonl, snaps, before, switched, inSync, failed>>

Repl ==
  \/ ReplPrompt \/ StrategyPrompt \/ StrategyTurn
  \/ Undo \/ Compact \/ AttachImage \/ Fork \/ Exit \/ Start
Commands == Note \/ RpcPrompt \/ RpcNewSession \/ AcpNew \/ AcpLoad \/ AcpPrompt

SessionNext == Report \/ AmendResult \/ CompactRun \/ FinishRun \/ Repl \/ Commands

\* A run ends (RunEnds of AgentLoop), whatever commands come meanwhile.
SessionFairness == WF_sessionVars(Report) /\ WF_sessionVars(FinishRun)
SessionSpec == SessionInit /\ [][SessionNext]_sessionVars /\ SessionFairness

-----------------------------------------------------------------------------
(* Properties. *)

\* The variables have their types; a process that is down has no run and no
\* history, and only ACP has requests and histories of other sessions.
SessionTypeOK ==
  /\ mode \in Modes
  /\ msgs \in Seq(Messages) /\ ctx \in Seq(Messages)
  /\ phase \in Phases
  /\ cur \in 0..made /\ made \in 0..MaxSessions
  /\ jsonl \in [SessionIds -> Seq(Messages \cup Junk)]
  /\ hist \in [SessionIds -> Seq(Messages)]
  /\ home \in Seq(SessionIds) /\ Said <= MaxSaid
  /\ ~up => NoRun /\ msgs = <<>> /\ snaps = <<>>
  /\ NoRun <=> ctx = <<>>
  /\ asked => mode = "acp" /\ ~NoRun

\* After any number of forks, plain errors, crashes and resumes, what a resume
\* would load (session.rs) is what the agent has, line for line. inSync names
\* every exception: the history alone is changed by
\*   - an errored or aborted reply with tool calls, for its results (mod.rs:146),
\*   - soft steering and the cut of long results (mod.rs:272, 370),
\*   - compaction, in the run or by /compact,
\*   - /undo, `!cmd`, /image,
\* and the file alone by
\*   - the draft that a cascade rejects (stream.rs:35),
\*   - the phases of a strategy (turn.rs:104),
\*   - a write that fails, in whole or in part.
\* A fork and a resume make them the same again.
FileIsHistory ==
  mode = "repl" /\ up /\ NoRun /\ inSync =>
    Loadable(jsonl[cur]) /\ Load(jsonl[cur]) = msgs

\* A crash alone never makes a session unreadable, at whatever byte and however
\* often: that takes a write that failed (session.rs:186, "Tolerate it rather
\* than making the whole session unresumable").
CrashKeepsFiles == ~failed => \A f \in SessionIds : Loadable(jsonl[f])

\* A resume finds what there was.
FilesResume == FileIsHistory /\ CrashKeepsFiles

Own(s, seq) == \A i \in DOMAIN seq : seq[i].n = 0 \/ home[seq[i].n] = s

\* "Optional sessionId routes to the right history" (acp_mode.rs:435): a
\* session's history holds what was said in that session and nothing else.
HistoryIsOwn ==
  mode \in {"rpc", "acp"} =>
    /\ NoRun /\ cur # 0 => Own(cur, msgs)
    /\ \A s \in SessionIds : Own(s, hist[s])

\* ... as long as session/new and new_session wait for the end of a run: load
\* and prompt do keep sessions apart, whatever their order.
OwnUnlessSwitched == switched \/ HistoryIsOwn

\* What was said is resumed, and where it was said.
SessionsAreTrue == SessionTypeOK /\ FilesResume /\ OwnUnlessSwitched

\* A session/prompt is answered, although other requests come meanwhile.
PromptAnswered == []<>~asked
=============================================================================
