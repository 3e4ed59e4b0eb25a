------------------------------- MODULE Screen -------------------------------
(***************************************************************************)
(* The terminal screen (tui::run): the loop that reads keys and messages,  *)
(* the thread that runs the agent, the thread that hands lines typed       *)
(* during a run to it, the threads of `!cmd` and the tasks of /compact.    *)
(* They meet at channels and at the mutex of the agent.  Lines are known   *)
(* by their number; what a run does is AgentLoop, it may end at any time.  *)
(***************************************************************************)
EXTENDS Integers, Sequences, FiniteSets

CONSTANTS
  MaxLines,   \* bound on the lines typed
  MaxPacks    \* bound on the compactions

ASSUME ScreenAssumption == MaxLines \in Nat /\ MaxPacks \in Nat

VARIABLES
  screen,     \* the loop: "off", "keys", "locking", "leaving", "gone"
  running,    \* App.running: what the screen shows
  typed,      \* lines so far
  packs,      \* compactions so far
  sent,       \* prompt_tx
  steers,     \* steer_queue
  steering,   \* Agent.steering
  agent,      \* the agent's thread: "idle", "locking", "runs", "reports"
  prompt,     \* its line
  holder,     \* of the agent's mutex: "nobody", "agent", "pack"
  packing,    \* compactions that wait for it
  reports,    \* done_tx
  shell,      \* of `!cmd`: "none", "runs", "ended"
  noted,      \* lines of `!cmd`, whether recorded or not
  heard       \* lines that a run has read, in that order

screenVars == <<screen, running, typed, packs, sent, steers, steering, agent,
                prompt, holder, packing, reports, shell, noted, heard>>
agentVars == <<agent, prompt, holder, packing>>

ScreenIs(s) ==
  /\ screen = s /\ running = FALSE /\ typed = 0 /\ packs = 0
  /\ sent = <<>> /\ steers = <<>> /\ steering = <<>>
  /\ agent = "idle" /\ prompt = 0 /\ holder = "nobody" /\ packing = 0
  /\ reports = 0 /\ shell = "none" /\ noted = {} /\ heard = <<>>

ScreenInit == ScreenIs("keys")

Reads == screen = "keys"
Lives == screen \notin {"off", "gone"}

---------------------------------------------------------------------------
(* The loop: a key, or a message of one of the channels. *)

\* submit_input: a line starts a run, or steers the one that is shown.
TypeLine ==
  /\ Reads /\ typed < MaxLines
  /\ typed' = typed + 1
  /\ IF running
     THEN steers' = Append(steers, typed') /\ UNCHANGED <<running, sent>>
     ELSE running' = TRUE /\ sent' = Append(sent, typed') /\ UNCHANGED steers
  /\ UNCHANGED <<screen, packs, steering, agentVars, reports, shell, noted,
                 heard>>

\* `!cmd` waits for the run that is shown.
ShellAnytime ==
  /\ Reads /\ typed < MaxLines /\ shell = "none"
  /\ typed' = typed + 1 /\ noted' = noted \union {typed'}
  /\ running' = TRUE /\ shell' = "runs"
  /\ UNCHANGED <<screen, packs, sent, steers, steering, agentVars, reports,
                 heard>>

TypeShell ==
  /\ Reads /\ typed < MaxLines /\ ~running
  /\ typed' = typed + 1 /\ noted' = noted \union {typed'}
  /\ running' = TRUE /\ shell' = "runs"
  /\ UNCHANGED <<screen, packs, sent, steers, steering, agentVars, reports,
                 heard>>

\* /compact looks at the mutex, not at what is shown; its task locks later.
TypeCompact ==
  /\ Reads /\ packs < MaxPacks /\ holder = "nobody"
  /\ packs' = packs + 1 /\ packing' = packing + 1
  /\ UNCHANGED <<screen, running, typed, sent, steers, steering, agent,
                 prompt, holder, reports, shell, noted, heard>>

Quit ==
  /\ Reads /\ screen' = "leaving"
  /\ UNCHANGED <<running, typed, packs, sent, steers, steering, agentVars,
                 reports, shell, noted, heard>>

\* The end of a run: the screen is idle, then it waits for the usage report.
DrainDone ==
  /\ Reads /\ reports > 0
  /\ reports' = reports - 1 /\ running' = FALSE /\ screen' = "locking"
  /\ UNCHANGED <<typed, packs, sent, steers, steering, agentVars, shell,
                 noted, heard>>

UsageRead ==
  /\ screen = "locking" /\ holder = "nobody"
  /\ screen' = "keys"
  /\ UNCHANGED <<running, typed, packs, sent, steers, steering, agentVars,
                 reports, shell, noted, heard>>

\* The end of `!cmd`: its output goes to the agent if that can be locked.
DrainShell ==
  /\ Reads /\ shell = "ended"
  /\ shell' = "none" /\ running' = FALSE
  /\ UNCHANGED <<screen, typed, packs, sent, steers, steering, agentVars,
                 reports, noted, heard>>

\* After a cancel and at most two seconds for the usage the process ends.
Leave ==
  /\ screen = "leaving" /\ screen' = "gone"
  /\ UNCHANGED <<running, typed, packs, sent, steers, steering, agentVars,
                 reports, shell, noted, heard>>

---------------------------------------------------------------------------
(* The threads. *)

\* Every 200 ms.
Forward ==
  /\ Lives /\ steers # <<>>
  /\ steering' = Append(steering, Head(steers)) /\ steers' = Tail(steers)
  /\ UNCHANGED <<screen, running, typed, packs, sent, agentVars, reports,
                 shell, noted, heard>>

ShellEnds ==
  /\ Lives /\ shell = "runs" /\ shell' = "ended"
  /\ UNCHANGED <<screen, running, typed, packs, sent, steers, steering,
                 agentVars, reports, noted, heard>>

TakePrompt ==
  /\ Lives /\ agent = "idle" /\ sent # <<>>
  /\ agent' = "locking" /\ prompt' = Head(sent) /\ sent' = Tail(sent)
  /\ UNCHANGED <<screen, running, typed, packs, steers, steering, holder,
                 packing, reports, shell, noted, heard>>

BeginRun ==
  /\ Lives /\ agent = "locking" /\ holder = "nobody"
  /\ agent' = "runs" /\ holder' = "agent"
  /\ heard' = Append(heard, prompt) /\ prompt' = 0
  /\ UNCHANGED <<screen, running, typed, packs, sent, steers, steering,
                 packing, reports, shell, noted>>

HearSteer ==
  /\ Lives /\ agent = "runs" /\ steering # <<>>
  /\ heard' = Append(heard, Head(steering)) /\ steering' = Tail(steering)
  /\ UNCHANGED <<screen, running, typed, packs, sent, steers, agentVars,
                 reports, shell, noted>>

\* The run is over, or has failed or been cancelled: the mutex is free.
EndRun ==
  /\ Lives /\ agent = "runs"
  /\ agent' = "reports" /\ holder' = "nobody"
  /\ UNCHANGED <<screen, running, typed, packs, sent, steers, steering,
                 prompt, packing, reports, shell, noted, heard>>

ReportDone ==
  /\ Lives /\ agent = "reports"
  /\ agent' = "idle" /\ reports' = reports + 1
  /\ UNCHANGED <<screen, running, typed, packs, sent, steers, steering,
                 prompt, holder, packing, shell, noted, heard>>

PackBegins ==
  /\ Lives /\ packing > 0 /\ holder = "nobody"
  /\ packing' = packing - 1 /\ holder' = "pack"
  /\ UNCHANGED <<screen, running, typed, packs, sent, steers, steering, agent,
                 prompt, reports, shell, noted, heard>>

PackEnds ==
  /\ Lives /\ holder = "pack" /\ holder' = "nobody"
  /\ UNCHANGED <<screen, running, typed, packs, sent, steers, steering, agent,
                 prompt, packing, reports, shell, noted, heard>>

\* While one of the loop, the threads and the tasks can go on, one does; runs,
\* commands and compactions end.
ScreenProgress ==
  \/ DrainDone \/ UsageRead \/ DrainShell \/ Leave \/ Forward \/ ShellEnds
  \/ TakePrompt \/ BeginRun \/ HearSteer \/ EndRun \/ ReportDone
  \/ PackBegins \/ PackEnds

ScreenNext ==
  \/ TypeLine \/ TypeShell \/ TypeCompact \/ Quit
  \/ ScreenProgress

ScreenSpec == ScreenInit /\ [][ScreenNext]_screenVars /\ WF_screenVars(ScreenProgress)

---------------------------------------------------------------------------
(* Properties. *)

ScreenTypeOK ==
  /\ screen \in {"off", "keys", "locking", "leaving", "gone"}
  /\ agent \in {"idle", "locking", "runs", "reports"}
  /\ holder \in {"nobody", "agent", "pack"}
  /\ shell \in {"none", "runs", "ended"}
  /\ typed \in 0..MaxLines /\ packs \in 0..MaxPacks

InRun == Len(sent) + reports + (IF agent = "idle" THEN 0 ELSE 1)

\* What is shown is what is going on: one prompt that has not been reported,
\* or one `!cmd`, while the screen shows a run; neither while it is idle.  A
\* screen idle too early would queue a second prompt where the user steers.
ShowsWhatRuns ==
  InRun + (IF shell = "none" THEN 0 ELSE 1) = IF running THEN 1 ELSE 0

\* No line is lost between the channels and queues, none is heard twice.
Elements(s) == {s[i] : i \in DOMAIN s}
NoLineIsLost ==
  /\ 1..typed = Elements(sent) \union Elements(steers) \union Elements(steering)
                \union (IF prompt = 0 THEN {} ELSE {prompt})
                \union noted \union Elements(heard)
  /\ \A i, j \in DOMAIN heard : heard[i] = heard[j] => i = j

ScreensAreTrue == ScreenTypeOK /\ ShowsWhatRuns /\ NoLineIsLost

\* The screen comes back to the keys, idle, or is left.
ScreenReturns == []<>(screen \in {"off", "gone"} \/ (Reads /\ ~running))
=============================================================================
