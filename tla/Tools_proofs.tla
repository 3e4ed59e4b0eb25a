---------------------------- MODULE Tools_proofs ----------------------------
(***************************************************************************)
(* Theorems about what serves the tools of a batch: the shell, the host of *)
(* the Rhai extensions, the pool of MCP servers, the client of a language  *)
(* server. Each is a specification of its own with an inductive invariant  *)
(* of its own; they share no variable.                                     *)
(***************************************************************************)
EXTENDS Shell, Extensions, McpPool, Lsp, FiniteSetTheorems, TLAPS

-----------------------------------------------------------------------------
(***************************************************************************)
(* The shell. A call returns what its processes wrote and leaves none of   *)
(* them behind, which depends on who may still write when the reader has   *)
(* ended.                                                                  *)
(***************************************************************************)

ShellStates == {"none", "lives", "zombie", "reaped"}
KinStates == {"unborn", "group", "away", "dead"}

\* Every variable stays in its range.
ShellTypes ==
  /\ shell \in ShellStates /\ kin \in [Kin -> KinStates] /\ holders \subseteq Kin
  /\ wrote \in Nat /\ pipe \in Nat /\ channel \in Nat /\ output \in Nat
  /\ reader \in {"reads", "ended"}
  /\ open \in BOOLEAN /\ status \in BOOLEAN
  /\ ending \in {"none", "timeout", "cancel"}
  /\ waiting \in [at : {"loop", "killed", "done"},
                  how : {"none", "timeout", "cancel", "natural"}]

\* Chunks are in one place each. Only a call that is told to end loses some.
ChunksCounted ==
  /\ wrote <= MaxOutput /\ channel <= MaxQueue
  /\ pipe + channel + output <= wrote
  /\ waiting.at # "done" \/ waiting.how = "natural"
       => pipe + channel + output = wrote

\* How a call ends is settled when the loop is left.
EndIsSettled ==
  /\ waiting.at = "loop" => waiting.how = "none"
  /\ waiting.at = "killed" => waiting.how \in {"timeout", "cancel"}
  /\ waiting.at = "done" => waiting.how # "none" /\ shell = "reaped"
  /\ waiting.how = "natural" => ~open /\ status

\* The group is dead once it got its signal: who is left in it when the shell
\* has ended nobody can join any more.
GroupIsDead ==
  waiting.how \in {"timeout", "cancel"} =>
    shell \in {"zombie", "reaped"} /\ \A k \in Kin : kin[k] # "group"

\* What the loop knows of the shell and of its pipe.
PipeIsKnown ==
  /\ status => shell = "reaped"
  /\ ~open => reader = "ended" /\ channel = 0
  /\ reader = "ended" /\ (waiting.at # "done" \/ waiting.how = "natural")
       => pipe = 0 /\ shell \in {"zombie", "reaped"} /\ Writers = {}

\* The inductive invariant.
ShellInv ==
  ShellTypes /\ ChunksCounted /\ EndIsSettled /\ GroupIsDead /\ PipeIsKnown

\* A call starts with a shell, and with nothing written.
LEMMA ShellStartsRight == ShellInit => ShellInv
<1> SUFFICES ASSUME ShellInit PROVE ShellInv
  OBVIOUS
<1>1. ShellTypes
  BY DEF ShellInit, ShellStarts, ShellTypes, ShellStates, KinStates
<1>2. ChunksCounted
  BY ShellAssumption DEF ShellInit, ShellStarts, ChunksCounted
<1>3. EndIsSettled /\ GroupIsDead /\ PipeIsKnown
  BY DEF ShellInit, ShellStarts, EndIsSettled, GroupIsDead, PipeIsKnown
<1> QED
  BY <1>1, <1>2, <1>3 DEF ShellInv

\* Every step keeps the variables in their ranges.
LEMMA ShellTypesKept ==
  ASSUME ShellInv, [ShellNext]_shellVars
  PROVE  ShellTypes'
<1>0. CASE UNCHANGED shellVars
  BY <1>0 DEF shellVars, ShellInv, ShellTypes, ShellStates, KinStates
<1>1. CASE Output
  BY <1>1 DEF Output, processVars, awaiterVars, ShellInv, ShellTypes,
     ShellStates, KinStates
<1>2. CASE ShellExits
  BY <1>2 DEF ShellExits, awaiterVars, ShellInv, ShellTypes, ShellStates,
     KinStates
<1>3. CASE ReadsPipe
  BY <1>3 DEF ReadsPipe, processVars, ShellInv, ShellTypes, ShellStates, KinStates
<1>4. CASE ReaderEnds
  BY <1>4 DEF ReaderEnds, processVars, awaiterVars, ShellInv, ShellTypes,
     ShellStates, KinStates
<1>5. CASE Receive
  BY <1>5 DEF Receive, processVars, Loops, Ready, ShellInv, ShellTypes,
     ShellStates, KinStates
<1>6. CASE Closed
  BY <1>6 DEF Closed, processVars, Loops, Ready, ShellInv, ShellTypes,
     ShellStates, KinStates
<1>7. CASE Wait
  BY <1>7 DEF Wait, Loops, Ready, ShellInv, ShellTypes, ShellStates, KinStates
<1>8. CASE Abort
  BY <1>8 DEF Abort, Loops, Ready, KillTree, ShellInv, ShellTypes, ShellStates,
     KinStates
<1>9. CASE WaitForKilled
  BY <1>9 DEF WaitForKilled, ShellInv, ShellTypes, ShellStates, KinStates
<1>10. CASE Finish
  BY <1>10 DEF Finish, processVars, Ready, ShellInv, ShellTypes, ShellStates,
     KinStates
<1>11. ASSUME NEW k \in Kin, Fork(k) PROVE ShellTypes'
  BY <1>11 DEF Fork, awaiterVars, ShellInv, ShellTypes, ShellStates, KinStates
<1>12. ASSUME NEW k \in Kin, Leaves(k) PROVE ShellTypes'
  BY <1>12 DEF Leaves, awaiterVars, ShellInv, ShellTypes, ShellStates, KinStates
<1>13. ASSUME NEW k \in Kin, Dies(k) PROVE ShellTypes'
  BY <1>13 DEF Dies, awaiterVars, ShellInv, ShellTypes, ShellStates, KinStates
<1>14. ASSUME NEW what \in {"timeout", "cancel"}, IsAsked(what) PROVE ShellTypes'
  BY <1>14 DEF IsAsked, processVars, ShellInv, ShellTypes, ShellStates, KinStates
<1> QED
  BY <1>0, <1>1, <1>2, <1>3, <1>4, <1>5, <1>6, <1>7, <1>8, <1>9, <1>10, <1>11,
     <1>12, <1>13, <1>14 DEF ShellNext

\* The pipe, the channel and the output hold all that was written, until the
\* channel of a call that was told to end is dropped: nobody writes, and nobody
\* reads, once the other ways out are taken.
LEMMA ChunksStayCounted ==
  ASSUME ShellInv, [ShellNext]_shellVars
  PROVE  ChunksCounted'
<1>0. CASE UNCHANGED shellVars
  BY <1>0 DEF shellVars, ShellInv, ShellTypes, ChunksCounted, EndIsSettled,
     PipeIsKnown, Loops, Ready
<1>1. CASE Output
  BY <1>1, ShellAssumption DEF Output, processVars, awaiterVars, ShellInv,
     ShellTypes, ChunksCounted, EndIsSettled, PipeIsKnown, Loops, Ready
<1>2. CASE ShellExits
  BY <1>2, ShellAssumption DEF ShellExits, awaiterVars, ShellInv, ShellTypes,
     ChunksCounted, EndIsSettled, PipeIsKnown, Loops, Ready
<1>3. CASE ReadsPipe
  BY <1>3, ShellAssumption DEF ReadsPipe, processVars, ShellInv, ShellTypes,
     ChunksCounted, EndIsSettled, PipeIsKnown, Loops, Ready
<1>4. CASE ReaderEnds
  BY <1>4, ShellAssumption DEF ReaderEnds, processVars, awaiterVars, ShellInv,
     ShellTypes, ChunksCounted, EndIsSettled, PipeIsKnown, Loops, Ready
<1>5. CASE Receive
  BY <1>5, ShellAssumption DEF Receive, processVars, Loops, Ready, ShellInv,
     ShellTypes, ChunksCounted, EndIsSettled, PipeIsKnown, Loops, Ready
<1>6. CASE Closed
  BY <1>6, ShellAssumption DEF Closed, processVars, Loops, Ready, ShellInv,
     ShellTypes, ChunksCounted, EndIsSettled, PipeIsKnown, Loops, Ready
<1>7. CASE Wait
  BY <1>7, ShellAssumption DEF Wait, Loops, Ready, ShellInv, ShellTypes,
     ChunksCounted, EndIsSettled, PipeIsKnown, Loops, Ready
<1>8. CASE Abort
  BY <1>8, ShellAssumption DEF Abort, Loops, Ready, KillTree, ShellInv,
     ShellTypes, ChunksCounted, EndIsSettled, PipeIsKnown, Loops, Ready
<1>9. CASE WaitForKilled
  BY <1>9, ShellAssumption DEF WaitForKilled, ShellInv, ShellTypes,
     ChunksCounted, EndIsSettled, PipeIsKnown, Loops, Ready
<1>10. CASE Finish
  BY <1>10, ShellAssumption DEF Finish, processVars, Ready, ShellInv,
     ShellTypes, ChunksCounted, EndIsSettled, PipeIsKnown, Loops, Ready
<1>11. ASSUME NEW k \in Kin, Fork(k) PROVE ChunksCounted'
  BY <1>11, ShellAssumption DEF Fork, awaiterVars, ShellInv, ShellTypes,
     ChunksCounted, EndIsSettled, PipeIsKnown, Loops, Ready
<1>12. ASSUME NEW k \in Kin, Leaves(k) PROVE ChunksCounted'
  BY <1>12, ShellAssumption DEF Leaves, awaiterVars, ShellInv, ShellTypes,
     ChunksCounted, EndIsSettled, PipeIsKnown, Loops, Ready
<1>13. ASSUME NEW k \in Kin, Dies(k) PROVE ChunksCounted'
  BY <1>13, ShellAssumption DEF Dies, awaiterVars, ShellInv, ShellTypes,
     ChunksCounted, EndIsSettled, PipeIsKnown, Loops, Ready
<1>14. ASSUME NEW what \in {"timeout", "cancel"}, IsAsked(what) PROVE ChunksCounted'
  BY <1>14, ShellAssumption DEF IsAsked, processVars, ShellInv, ShellTypes,
     ChunksCounted, EndIsSettled, PipeIsKnown, Loops, Ready
<1> QED
  BY <1>0, <1>1, <1>2, <1>3, <1>4, <1>5, <1>6, <1>7, <1>8, <1>9, <1>10, <1>11,
     <1>12, <1>13, <1>14 DEF ShellNext

\* `how` is written where the loop is left, and only Finish writes "natural".
LEMMA EndStaysSettled ==
  ASSUME ShellInv, [ShellNext]_shellVars
  PROVE  EndIsSettled'
<1>0. CASE UNCHANGED shellVars
  BY <1>0 DEF shellVars, ShellInv, ShellTypes, EndIsSettled, Loops, Ready,
     PipeIsKnown, GroupIsDead
<1>1. CASE Output
  BY <1>1 DEF Output, processVars, awaiterVars, ShellInv, ShellTypes,
     EndIsSettled, Loops, Ready, PipeIsKnown, GroupIsDead
<1>2. CASE ShellExits
  BY <1>2 DEF ShellExits, awaiterVars, ShellInv, ShellTypes, EndIsSettled,
     Loops, Ready, PipeIsKnown, GroupIsDead
<1>3. CASE ReadsPipe
  BY <1>3 DEF ReadsPipe, processVars, ShellInv, ShellTypes, EndIsSettled, Loops,
     Ready, PipeIsKnown, GroupIsDead
<1>4. CASE ReaderEnds
  BY <1>4 DEF ReaderEnds, processVars, awaiterVars, ShellInv, ShellTypes,
     EndIsSettled, Loops, Ready, PipeIsKnown, GroupIsDead
<1>5. CASE Receive
  BY <1>5 DEF Receive, processVars, Loops, Ready, ShellInv, ShellTypes,
     EndIsSettled, Loops, Ready, PipeIsKnown, GroupIsDead
<1>6. CASE Closed
  BY <1>6 DEF Closed, processVars, Loops, Ready, ShellInv, ShellTypes,
     EndIsSettled, Loops, Ready, PipeIsKnown, GroupIsDead
<1>7. CASE Wait
  BY <1>7 DEF Wait, Loops, Ready, ShellInv, ShellTypes, EndIsSettled, Loops,
     Ready, PipeIsKnown, GroupIsDead
<1>8. CASE Abort
  BY <1>8 DEF Abort, Loops, Ready, KillTree, ShellInv, ShellTypes, EndIsSettled,
     Loops, Ready, PipeIsKnown, GroupIsDead
<1>9. CASE WaitForKilled
  BY <1>9 DEF WaitForKilled, ShellInv, ShellTypes, EndIsSettled, Loops, Ready,
     PipeIsKnown, GroupIsDead
<1>10. CASE Finish
  BY <1>10 DEF Finish, processVars, Ready, ShellInv, ShellTypes, EndIsSettled,
     Loops, Ready, PipeIsKnown, GroupIsDead
<1>11. ASSUME NEW k \in Kin, Fork(k) PROVE EndIsSettled'
  BY <1>11 DEF Fork, awaiterVars, ShellInv, ShellTypes, EndIsSettled, Loops,
     Ready, PipeIsKnown, GroupIsDead
<1>12. ASSUME NEW k \in Kin, Leaves(k) PROVE EndIsSettled'
  BY <1>12 DEF Leaves, awaiterVars, ShellInv, ShellTypes, EndIsSettled, Loops,
     Ready, PipeIsKnown, GroupIsDead
<1>13. ASSUME NEW k \in Kin, Dies(k) PROVE EndIsSettled'
  BY <1>13 DEF Dies, awaiterVars, ShellInv, ShellTypes, EndIsSettled, Loops,
     Ready, PipeIsKnown, GroupIsDead
<1>14. ASSUME NEW what \in {"timeout", "cancel"}, IsAsked(what) PROVE EndIsSettled'
  BY <1>14 DEF IsAsked, processVars, ShellInv, ShellTypes, EndIsSettled, Loops,
     Ready, PipeIsKnown, GroupIsDead
<1> QED
  BY <1>0, <1>1, <1>2, <1>3, <1>4, <1>5, <1>6, <1>7, <1>8, <1>9, <1>10, <1>11,
     <1>12, <1>13, <1>14 DEF ShellNext

\* Only a living shell starts processes of its group, and kill_tree has ended it.
LEMMA GroupStaysDead ==
  ASSUME ShellInv, [ShellNext]_shellVars
  PROVE  GroupIsDead'
<1>0. CASE UNCHANGED shellVars
  BY <1>0 DEF shellVars, ShellInv, ShellTypes, ShellStates, KinStates,
     EndIsSettled, GroupIsDead, Loops, PipeIsKnown, Alive
<1>1. CASE Output
  BY <1>1 DEF Output, processVars, awaiterVars, ShellInv, ShellTypes,
     ShellStates, KinStates, EndIsSettled, GroupIsDead, Loops, PipeIsKnown,
     Alive
<1>2. CASE ShellExits
  BY <1>2 DEF ShellExits, awaiterVars, ShellInv, ShellTypes, ShellStates,
     KinStates, EndIsSettled, GroupIsDead, Loops, PipeIsKnown, Alive
<1>3. CASE ReadsPipe
  BY <1>3 DEF ReadsPipe, processVars, ShellInv, ShellTypes, ShellStates,
     KinStates, EndIsSettled, GroupIsDead, Loops, PipeIsKnown, Alive
<1>4. CASE ReaderEnds
  BY <1>4 DEF ReaderEnds, processVars, awaiterVars, ShellInv, ShellTypes,
     ShellStates, KinStates, EndIsSettled, GroupIsDead, Loops, PipeIsKnown,
     Alive
<1>5. CASE Receive
  BY <1>5 DEF Receive, processVars, Loops, Ready, ShellInv, ShellTypes,
     ShellStates, KinStates, EndIsSettled, GroupIsDead, Loops, PipeIsKnown,
     Alive
<1>6. CASE Closed
  BY <1>6 DEF Closed, processVars, Loops, Ready, ShellInv, ShellTypes,
     ShellStates, KinStates, EndIsSettled, GroupIsDead, Loops, PipeIsKnown,
     Alive
<1>7. CASE Wait
  BY <1>7 DEF Wait, Loops, Ready, ShellInv, ShellTypes, ShellStates, KinStates,
     EndIsSettled, GroupIsDead, Loops, PipeIsKnown, Alive
<1>8. CASE Abort
  BY <1>8 DEF Abort, Loops, Ready, KillTree, ShellInv, ShellTypes, ShellStates,
     KinStates, EndIsSettled, GroupIsDead, Loops, PipeIsKnown, Alive
<1>9. CASE WaitForKilled
  BY <1>9 DEF WaitForKilled, ShellInv, ShellTypes, ShellStates, KinStates,
     EndIsSettled, GroupIsDead, Loops, PipeIsKnown, Alive
<1>10. CASE Finish
  BY <1>10 DEF Finish, processVars, Ready, ShellInv, ShellTypes, ShellStates,
     KinStates, EndIsSettled, GroupIsDead, Loops, PipeIsKnown, Alive
<1>11. ASSUME NEW k \in Kin, Fork(k) PROVE GroupIsDead'
  BY <1>11 DEF Fork, awaiterVars, ShellInv, ShellTypes, ShellStates, KinStates,
     EndIsSettled, GroupIsDead, Loops, PipeIsKnown, Alive
<1>12. ASSUME NEW k \in Kin, Leaves(k) PROVE GroupIsDead'
  BY <1>12 DEF Leaves, awaiterVars, ShellInv, ShellTypes, ShellStates,
     KinStates, EndIsSettled, GroupIsDead, Loops, PipeIsKnown, Alive
<1>13. ASSUME NEW k \in Kin, Dies(k) PROVE GroupIsDead'
  BY <1>13 DEF Dies, awaiterVars, ShellInv, ShellTypes, ShellStates, KinStates,
     EndIsSettled, GroupIsDead, Loops, PipeIsKnown, Alive
<1>14. ASSUME NEW what \in {"timeout", "cancel"}, IsAsked(what) PROVE GroupIsDead'
  BY <1>14 DEF IsAsked, processVars, ShellInv, ShellTypes, ShellStates,
     KinStates, EndIsSettled, GroupIsDead, Loops, PipeIsKnown, Alive
<1> QED
  BY <1>0, <1>1, <1>2, <1>3, <1>4, <1>5, <1>6, <1>7, <1>8, <1>9, <1>10, <1>11,
     <1>12, <1>13, <1>14 DEF ShellNext

\* The reader ends by itself when the shell and all who hold its pipe have
\* ended, and nobody is left then who could start another holder.
LEMMA PipeStaysKnown ==
  ASSUME ShellInv, [ShellNext]_shellVars
  PROVE  PipeIsKnown'
<1>0. CASE UNCHANGED shellVars
  BY <1>0 DEF shellVars, ShellInv, ShellTypes, ShellStates, EndIsSettled,
     GroupIsDead, PipeIsKnown, Writers, Alive, Loops
<1>1. CASE Output
  BY <1>1 DEF Output, processVars, awaiterVars, ShellInv, ShellTypes,
     ShellStates, EndIsSettled, GroupIsDead, PipeIsKnown, Writers, Alive, Loops
<1>2. CASE ShellExits
  BY <1>2 DEF ShellExits, awaiterVars, ShellInv, ShellTypes, ShellStates,
     EndIsSettled, GroupIsDead, PipeIsKnown, Writers, Alive, Loops
<1>3. CASE ReadsPipe
  BY <1>3 DEF ReadsPipe, processVars, ShellInv, ShellTypes, ShellStates,
     EndIsSettled, GroupIsDead, PipeIsKnown, Writers, Alive, Loops
<1>4. CASE ReaderEnds
  BY <1>4 DEF ReaderEnds, processVars, awaiterVars, ShellInv, ShellTypes,
     ShellStates, EndIsSettled, GroupIsDead, PipeIsKnown, Writers, Alive, Loops
<1>5. CASE Receive
  BY <1>5 DEF Receive, processVars, Loops, Ready, ShellInv, ShellTypes,
     ShellStates, EndIsSettled, GroupIsDead, PipeIsKnown, Writers, Alive, Loops
<1>6. CASE Closed
  BY <1>6 DEF Closed, processVars, Loops, Ready, ShellInv, ShellTypes,
     ShellStates, EndIsSettled, GroupIsDead, PipeIsKnown, Writers, Alive, Loops
<1>7. CASE Wait
  BY <1>7 DEF Wait, Loops, Ready, ShellInv, ShellTypes, ShellStates,
     EndIsSettled, GroupIsDead, PipeIsKnown, Writers, Alive, Loops
<1>8. CASE Abort
  BY <1>8 DEF Abort, Loops, Ready, KillTree, ShellInv, ShellTypes, ShellStates,
     EndIsSettled, GroupIsDead, PipeIsKnown, Writers, Alive, Loops
<1>9. CASE WaitForKilled
  BY <1>9 DEF WaitForKilled, ShellInv, ShellTypes, ShellStates, EndIsSettled,
     GroupIsDead, PipeIsKnown, Writers, Alive, Loops
<1>10. CASE Finish
  BY <1>10 DEF Finish, processVars, Ready, ShellInv, ShellTypes, ShellStates,
     EndIsSettled, GroupIsDead, PipeIsKnown, Writers, Alive, Loops
<1>11. ASSUME NEW k \in Kin, Fork(k) PROVE PipeIsKnown'
  BY <1>11 DEF Fork, awaiterVars, ShellInv, ShellTypes, ShellStates,
     EndIsSettled, GroupIsDead, PipeIsKnown, Writers, Alive, Loops
<1>12. ASSUME NEW k \in Kin, Leaves(k) PROVE PipeIsKnown'
  BY <1>12 DEF Leaves, awaiterVars, ShellInv, ShellTypes, ShellStates,
     EndIsSettled, GroupIsDead, PipeIsKnown, Writers, Alive, Loops
<1>13. ASSUME NEW k \in Kin, Dies(k) PROVE PipeIsKnown'
  BY <1>13 DEF Dies, awaiterVars, ShellInv, ShellTypes, ShellStates,
     EndIsSettled, GroupIsDead, PipeIsKnown, Writers, Alive, Loops
<1>14. ASSUME NEW what \in {"timeout", "cancel"}, IsAsked(what) PROVE PipeIsKnown'
  BY <1>14 DEF IsAsked, processVars, ShellInv, ShellTypes, ShellStates,
     EndIsSettled, GroupIsDead, PipeIsKnown, Writers, Alive, Loops
<1> QED
  BY <1>0, <1>1, <1>2, <1>3, <1>4, <1>5, <1>6, <1>7, <1>8, <1>9, <1>10, <1>11,
     <1>12, <1>13, <1>14 DEF ShellNext

\* ShellInv holds throughout.
THEOREM ShellInvariance == ShellSpec => []ShellInv
<1>1. ShellInv /\ [ShellNext]_shellVars => ShellInv'
  BY ShellTypesKept, ChunksStayCounted, EndStaysSettled, GroupStaysDead,
    PipeStaysKnown DEF ShellInv
<1> QED
  BY <1>1, ShellStartsRight, PTL DEF ShellSpec

\* A call of bash returns with its shell reaped; after a timeout or a cancel its
\* group is dead; one that ends by itself returns all that was written.
THEOREM ShellReaped == ShellSpec => []ShellIsReaped
<1>1. ShellInv => ShellTypeOK
  BY ShellAssumption DEF ShellInv, ShellTypes, ShellStates, KinStates,
    ChunksCounted, ShellTypeOK
<1>2. ShellInv => ShellIsReaped
  BY <1>1 DEF ShellInv, ShellTypes, ChunksCounted, EndIsSettled, GroupIsDead,
    PipeIsKnown, ShellIsReaped
<1> QED
  BY <1>2, ShellInvariance, PTL

-----------------------------------------------------------------------------
(***************************************************************************)
(* The extension host. A call's loop over the policies is spread over the  *)
(* scripts of many agents: the invariant says whose turn it is while a     *)
(* loop waits for a verdict.                                               *)
(***************************************************************************)

Hooks == {"none", "on_tool_call", "on_tool_result", "tool", "other"}

\* Every variable stays in its range.
ScriptTypes ==
  /\ holder \in [Extensions -> Threads \cup {Nobody}]
  /\ script \in [Threads -> [ext : Extensions \cup {0}, hook : Hooks]]
  /\ awaited \in [Threads -> SUBSET SubAgents]

CallTypes ==
  /\ agent \in [Agents -> {"none", "runs", "over"}]
  /\ call \in [ToolCalls -> CallStates]
  /\ turnOf \in [ToolCalls -> Nat]
  /\ passed \in [ToolCalls -> SUBSET Extensions]

\* A thread in a script holds the lock of its engine.
LocksHeld ==
  \A t \in Threads :
    script[t] # Out =>
      script[t].ext \in Extensions /\ holder[script[t].ext] = t

\* A call in the script of its tool is running.
ToolsRun ==
  \A c \in ToolCalls :
    script[c].hook = "tool" => call[c] = "running" /\ ToolOf[c] # 0

\* The policy an agent waits for is the next one of the call it prepares.
VerdictsInOrder ==
  \A a \in Agents, c \in ToolCalls :
    script[a].hook = "on_tool_call" /\ IsNext(a, c) =>
      \A d \in Policies : d < script[a].ext => d < turnOf[c]

\* A call has passed the policies behind it, and all of them once it is prepared.
PassedBefore ==
  \A c \in ToolCalls :
    /\ call[c] = "new" => \A d \in Policies : d < turnOf[c] => d \in passed[c]
    /\ call[c] \in {"ready", "running", "ran", "patched"}
         => Policies \subseteq passed[c]

\* The inductive invariant.
HostInv ==
  ScriptTypes /\ CallTypes /\ LocksHeld /\ ToolsRun /\ VerdictsInOrder /\ PassedBefore

-----------------------------------------------------------------------------
\* What the assumption says of extensions.
LEMMA Numbered ==
  /\ Extensions \subseteq Nat \ {0}
  /\ Policies \subseteq Extensions /\ Patches \subseteq Extensions
  /\ Observers \subseteq Extensions
  /\ ToolOf \in [ToolCalls -> Extensions \cup {0}]
  /\ Nobody \notin Threads
  BY ExtensionsAssumption, Zenon

\* Calls have a place in the batch of one agent.
LEMMA CallsPlaced ==
  ASSUME NEW a \in Agents, NEW c \in CallsOf(a)
  PROVE  /\ c \in ToolCalls
         /\ IndexOf(a, c) \in Nat /\ BatchOf[a][IndexOf(a, c)] = c
<1>1. PICK i \in DOMAIN BatchOf[a] : BatchOf[a][i] = c
  BY DEF CallsOf
<1>2. IndexOf(a, c) \in DOMAIN BatchOf[a] /\ BatchOf[a][IndexOf(a, c)] = c
  BY <1>1 DEF IndexOf
<1>3. DOMAIN BatchOf[a] \subseteq Nat
  BY ExtensionsAssumption
<1> QED
  BY <1>1, <1>2, <1>3 DEF ToolCalls

\* A call is in the batch of one agent.
LEMMA CallsApart ==
  ASSUME NEW a \in Agents, NEW b \in Agents, NEW c \in CallsOf(a), c \in
         CallsOf(b)
  PROVE  a = b
  BY ExtensionsAssumption DEF CallsOf

\* An agent prepares one call at a time.
LEMMA OneIsNext ==
  ASSUME NEW a \in Agents, NEW c, NEW d, IsNext(a, c), IsNext(a, d)
  PROVE  c = d
<1>1. IndexOf(a, c) <= IndexOf(a, d) /\ IndexOf(a, d) <= IndexOf(a, c)
  BY DEF IsNext
<1>2. /\ IndexOf(a, c) \in Nat /\ BatchOf[a][IndexOf(a, c)] = c
      /\ IndexOf(a, d) \in Nat /\ BatchOf[a][IndexOf(a, d)] = d
  BY CallsPlaced DEF IsNext
<1>3. IndexOf(a, c) = IndexOf(a, d)
  BY <1>1, <1>2
<1> QED
  BY <1>2, <1>3

\* At first nobody is in a script, and no call is prepared.
LEMMA HostStartsRight == ExtInit => HostInv
<1> SUFFICES ASSUME ExtInit PROVE HostInv
  OBVIOUS
<1> USE DEF ExtInit, Out
<1>1. ScriptTypes /\ CallTypes
  BY DEF ScriptTypes, CallTypes, Hooks, CallStates, Threads
<1>2. LocksHeld /\ ToolsRun
  BY DEF LocksHeld, ToolsRun, Threads
<1>3. VerdictsInOrder
  BY DEF VerdictsInOrder, Threads
<1>4. PassedBefore
  <2> SUFFICES ASSUME NEW c \in ToolCalls, NEW d \in Policies, d < turnOf[c]
               PROVE  FALSE
    BY DEF PassedBefore
  <2>1. d \in Nat \ {0}
    BY Numbered
  <2> QED
    BY <2>1
<1> QED
  BY <1>1, <1>2, <1>3, <1>4 DEF HostInv

-----------------------------------------------------------------------------
(* The locks. *)

\* A step begins a script, ends one, or leaves the locks alone.
ScriptStep ==
  \/ UNCHANGED <<holder, script>>
  \/ \E t \in Threads, e \in Extensions, h \in Hooks \ {"none"} : Enter(t, e, h)
  \/ \E t \in Threads, h \in Hooks \ {"none"} : Return(t, h)

\* Whoever enters has found the lock free, and nobody else is touched.
LEMMA Entered ==
  ASSUME ScriptTypes, LocksHeld, NEW t \in Threads, NEW e \in Extensions,
         NEW h \in Hooks \ {"none"}, Enter(t, e, h)
  PROVE  /\ holder' \in [Extensions -> Threads \cup {Nobody}]
         /\ script' \in [Threads -> [ext : Extensions \cup {0}, hook : Hooks]]
         /\ script'[t].ext = e /\ script'[t].hook = h
         /\ \A u \in Threads \ {t} : script'[u] = script[u]
         /\ LocksHeld'
<1>1. In(e, h) \in [ext : Extensions \cup {0}, hook : Hooks]
  BY DEF In
<1>2. /\ holder' \in [Extensions -> Threads \cup {Nobody}]
      /\ script' \in [Threads -> [ext : Extensions \cup {0}, hook : Hooks]]
      /\ script'[t] = In(e, h) /\ holder'[e] = t /\ holder[e] = Nobody
      /\ \A u \in Threads \ {t} : script'[u] = script[u]
      /\ \A x \in Extensions \ {e} : holder'[x] = holder[x]
  BY <1>1 DEF Enter, ScriptTypes, Busy
<1>3. script'[t].ext = e /\ script'[t].hook = h
  BY <1>2 DEF In
<1>4. ASSUME NEW u \in Threads, script'[u] # Out
      PROVE  script'[u].ext \in Extensions /\ holder'[script'[u].ext] = u
  <2>1. CASE u = t
    BY <2>1, <1>2, <1>3
  <2>2. CASE u # t
    <3>1. script[u].ext \in Extensions /\ holder[script[u].ext] = u
      BY <2>2, <1>2, <1>4 DEF LocksHeld, Out
    <3>2. script[u].ext # e
      BY <3>1, <1>2, Numbered
    <3> QED
      BY <3>1, <3>2, <2>2, <1>2
  <2> QED
    BY <2>1, <2>2
<1> QED
  BY <1>2, <1>3, <1>4 DEF LocksHeld, Out

\* Whoever leaves held the lock, so nobody else has lost one.
LEMMA Left ==
  ASSUME ScriptTypes, LocksHeld, NEW t \in Threads, NEW h \in Hooks \ {"none"},
         Return(t, h)
  PROVE  /\ script[t].ext \in Extensions
         /\ ScriptTypes'
         /\ script'[t] = Out
         /\ \A u \in Threads \ {t} : script'[u] = script[u]
         /\ LocksHeld'
<1>1. script[t].ext \in Extensions /\ holder[script[t].ext] = t
  BY DEF Return, LocksHeld, Out
<1>2. Out \in [ext : Extensions \cup {0}, hook : Hooks]
  BY DEF Out, Hooks
<1>3. /\ ScriptTypes'
      /\ script'[t] = Out
      /\ \A u \in Threads \ {t} : script'[u] = script[u]
      /\ \A x \in Extensions \ {script[t].ext} : holder'[x] = holder[x]
  BY <1>1, <1>2 DEF Return, ScriptTypes
<1>4. ASSUME NEW u \in Threads, script'[u] # Out
      PROVE  script'[u].ext \in Extensions /\ holder'[script'[u].ext] = u
  <2>1. u # t
    BY <1>4, <1>3
  <2>2. script[u].ext \in Extensions /\ holder[script[u].ext] = u
    BY <2>1, <1>3, <1>4 DEF LocksHeld, Out
  <2>3. script[u].ext # script[t].ext
    BY <2>1, <2>2, <1>1
  <2> QED
    BY <2>1, <2>2, <2>3, <1>3
<1> QED
  BY <1>1, <1>3, <1>4 DEF LocksHeld, Out

\* Every step is one of the three.
LEMMA ScriptSteps ==
  ASSUME [ExtNext]_extVars
  PROVE  ScriptStep
<1>0. CASE UNCHANGED extVars
  BY <1>0 DEF extVars, ScriptStep
<1>1. ASSUME NEW a \in Agents, NEW c \in ToolCalls, EvaluatePolicy(a, c)
      PROVE  ScriptStep
  BY <1>1, Numbered DEF EvaluatePolicy, ScriptStep, IsTurnOf, Hooks, Threads
<1>2. ASSUME NEW a \in Agents, NEW c \in ToolCalls, PolicyReturns(a, c)
      PROVE  ScriptStep
  BY <1>2 DEF PolicyReturns, ScriptStep, Hooks, Threads
<1>3. ASSUME NEW a \in Agents, NEW c \in ToolCalls, Prepared(a, c)
      PROVE  ScriptStep
  BY <1>3 DEF Prepared, ScriptStep
<1>4. ASSUME NEW a \in Agents, NEW c \in ToolCalls, RunTool(a, c)
      PROVE  ScriptStep
  BY <1>4 DEF RunTool, ScriptStep
<1>5. ASSUME NEW a \in Agents, NEW c \in ToolCalls, PatchResult(a, c)
      PROVE  ScriptStep
  BY <1>5, Numbered DEF PatchResult, ScriptStep, IsTurnOf, Hooks, Threads
<1>6. ASSUME NEW a \in Agents, NEW c \in ToolCalls, PatchReturns(a, c)
      PROVE  ScriptStep
  BY <1>6 DEF PatchReturns, ScriptStep, Hooks, Threads
<1>7. ASSUME NEW a \in Agents, AgentEnds(a)
      PROVE  ScriptStep
  BY <1>7 DEF AgentEnds, ScriptStep
<1>8. ASSUME NEW c \in ToolCalls, RunScript(c)
      PROVE  ScriptStep
  BY <1>8, Numbered DEF RunScript, ScriptStep, Hooks, Threads
<1>9. ASSUME NEW c \in ToolCalls, ToolReturns(c)
      PROVE  ScriptStep
  BY <1>9 DEF ToolReturns, ScriptStep, Hooks, Threads
<1>10. ASSUME NEW e \in Extensions, Notify(e)
      PROVE  ScriptStep
  BY <1>10, Numbered DEF Notify, ScriptStep, Hooks, Threads, Agents
<1>11. CASE Notified
  BY <1>11 DEF Notified, ScriptStep, Hooks, Threads, Agents
<1>12. ASSUME NEW t \in Threads, StartSubAgents(t)
      PROVE  ScriptStep
  BY <1>12 DEF StartSubAgents, ScriptStep
<1> QED
  BY <1>0, <1>1, <1>2, <1>3, <1>4, <1>5, <1>6, <1>7, <1>8, <1>9, <1>10, <1>11,
     <1>12 DEF ExtNext, Loop

\* So a thread in a script keeps the lock of its engine.
LEMMA LocksStayHeld ==
  ASSUME ScriptTypes, LocksHeld, [ExtNext]_extVars
  PROVE  LocksHeld'
<1>1. CASE UNCHANGED <<holder, script>>
  BY <1>1 DEF LocksHeld
<1> QED
  BY <1>1, ScriptSteps, Entered, Left DEF ScriptStep

\* A thread joins the sub-agents its script has started.
LEMMA AwaitedKept ==
  ASSUME ScriptTypes, [ExtNext]_extVars
  PROVE  awaited' \in [Threads -> SUBSET SubAgents]
<1>0. CASE UNCHANGED extVars
  BY <1>0 DEF extVars, ScriptTypes
<1>1. ASSUME NEW a \in Agents, NEW c \in ToolCalls, EvaluatePolicy(a, c)
      PROVE  awaited' \in [Threads -> SUBSET SubAgents]
  BY <1>1 DEF EvaluatePolicy, Go2, ScriptTypes
<1>2. ASSUME NEW a \in Agents, NEW c \in ToolCalls, PolicyReturns(a, c)
      PROVE  awaited' \in [Threads -> SUBSET SubAgents]
  BY <1>2 DEF PolicyReturns, NextTurn, Go2, Return, ScriptTypes
<1>3. ASSUME NEW a \in Agents, NEW c \in ToolCalls, Prepared(a, c)
      PROVE  awaited' \in [Threads -> SUBSET SubAgents]
  BY <1>3 DEF Prepared, Go2, FirstTurn, Prepares, IsNext, ScriptTypes
<1>4. ASSUME NEW a \in Agents, NEW c \in ToolCalls, RunTool(a, c)
      PROVE  awaited' \in [Threads -> SUBSET SubAgents]
  BY <1>4 DEF RunTool, Go2, ScriptTypes
<1>5. ASSUME NEW a \in Agents, NEW c \in ToolCalls, PatchResult(a, c)
      PROVE  awaited' \in [Threads -> SUBSET SubAgents]
  BY <1>5 DEF PatchResult, NextTurn, Go2, ScriptTypes
<1>6. ASSUME NEW a \in Agents, NEW c \in ToolCalls, PatchReturns(a, c)
      PROVE  awaited' \in [Threads -> SUBSET SubAgents]
  BY <1>6 DEF PatchReturns, Go2, Return, ScriptTypes
<1>7. ASSUME NEW a \in Agents, AgentEnds(a)
      PROVE  awaited' \in [Threads -> SUBSET SubAgents]
  BY <1>7 DEF AgentEnds, ScriptTypes
<1>8. ASSUME NEW c \in ToolCalls, RunScript(c)
      PROVE  awaited' \in [Threads -> SUBSET SubAgents]
  BY <1>8 DEF RunScript, Go2, ScriptTypes
<1>9. ASSUME NEW c \in ToolCalls, ToolReturns(c)
      PROVE  awaited' \in [Threads -> SUBSET SubAgents]
  BY <1>9 DEF ToolReturns, Go2, Return, ScriptTypes
<1>10. ASSUME NEW e \in Extensions, Notify(e)
      PROVE  awaited' \in [Threads -> SUBSET SubAgents]
  BY <1>10 DEF Notify, ScriptTypes
<1>11. CASE Notified
  BY <1>11 DEF Notified, Return, ScriptTypes
<1>12. ASSUME NEW t \in Threads, StartSubAgents(t)
      PROVE  awaited' \in [Threads -> SUBSET SubAgents]
  BY <1>12 DEF StartSubAgents, ScriptTypes
<1> QED
  BY <1>0, <1>1, <1>2, <1>3, <1>4, <1>5, <1>6, <1>7, <1>8, <1>9, <1>10, <1>11,
     <1>12 DEF ExtNext, Loop

\* A step keeps the locks, the scripts and the joins in their ranges.
LEMMA ScriptTypesKept ==
  ASSUME ScriptTypes, LocksHeld, [ExtNext]_extVars
  PROVE  ScriptTypes'
<1>1. CASE UNCHANGED <<holder, script>>
  BY <1>1, AwaitedKept DEF ScriptTypes
<1>2. ASSUME NEW t \in Threads, NEW h \in Hooks \ {"none"}, Return(t, h)
      PROVE  ScriptTypes'
  BY <1>2, Left
<1>3. ASSUME NEW t \in Threads, NEW e \in Extensions, NEW h \in Hooks \ {"none"},
             Enter(t, e, h)
      PROVE  ScriptTypes'
  BY <1>3, Entered, AwaitedKept DEF ScriptTypes
<1> QED
  BY <1>1, <1>2, <1>3, ScriptSteps DEF ScriptStep

-----------------------------------------------------------------------------
(* The calls. *)

\* A call's turn is a number behind that of a hook.
LEMMA CallTypesKept ==
  ASSUME ScriptTypes, LocksHeld, CallTypes, [ExtNext]_extVars
  PROVE  CallTypes'
<1>0. CASE UNCHANGED extVars
  BY <1>0 DEF extVars, CallTypes
<1>1. ASSUME NEW a \in Agents, NEW c \in ToolCalls, EvaluatePolicy(a, c)
      PROVE  CallTypes'
  BY <1>1 DEF EvaluatePolicy, Go2, CallTypes, CallStates
<1>2. ASSUME NEW a \in Agents, NEW c \in ToolCalls, PolicyReturns(a, c)
      PROVE  CallTypes'
  <2>1. script[a].ext \in Extensions
    BY <1>2, Left DEF PolicyReturns, Hooks, Threads
  <2>2. ASSUME NEW e \in Extensions PROVE e + 1 \in Nat
    BY Numbered
  <2>3. turnOf' \in [ToolCalls -> Nat] /\ passed' \in [ToolCalls -> SUBSET Extensions]
    BY <1>2, <2>1, <2>2 DEF PolicyReturns, NextTurn, CallTypes
  <2> QED
    BY <1>2, <2>3 DEF PolicyReturns, Go2, CallTypes, CallStates
<1>3. ASSUME NEW a \in Agents, NEW c \in ToolCalls, Prepared(a, c)
      PROVE  CallTypes'
  BY <1>3 DEF Prepared, Go2, FirstTurn, Prepares, IsNext, CallTypes, CallStates
<1>4. ASSUME NEW a \in Agents, NEW c \in ToolCalls, RunTool(a, c)
      PROVE  CallTypes'
  BY <1>4 DEF RunTool, Go2, CallTypes, CallStates
<1>5. ASSUME NEW a \in Agents, NEW c \in ToolCalls, PatchResult(a, c)
      PROVE  CallTypes'
  <2>1. ASSUME NEW e \in Patches PROVE e + 1 \in Nat
    BY Numbered
  <2> QED
    BY <1>5, <2>1 DEF PatchResult, IsTurnOf, NextTurn, Go2, CallTypes, CallStates
<1>6. ASSUME NEW a \in Agents, NEW c \in ToolCalls, PatchReturns(a, c)
      PROVE  CallTypes'
  BY <1>6 DEF PatchReturns, Go2, CallTypes, CallStates
<1>7. ASSUME NEW a \in Agents, AgentEnds(a)
      PROVE  CallTypes'
  BY <1>7 DEF AgentEnds, CallTypes, CallStates
<1>8. ASSUME NEW c \in ToolCalls, RunScript(c)
      PROVE  CallTypes'
  BY <1>8 DEF RunScript, Go2, CallTypes, CallStates
<1>9. ASSUME NEW c \in ToolCalls, ToolReturns(c)
      PROVE  CallTypes'
  BY <1>9 DEF ToolReturns, Go2, CallTypes, CallStates
<1>10. ASSUME NEW e \in Extensions, Notify(e)
      PROVE  CallTypes'
  BY <1>10 DEF Notify, CallTypes, CallStates
<1>11. CASE Notified
  BY <1>11 DEF Notified, CallTypes, CallStates
<1>12. ASSUME NEW t \in Threads, StartSubAgents(t)
      PROVE  CallTypes'
  BY <1>12 DEF StartSubAgents, CallTypes, CallStates
<1> QED
  BY <1>0, <1>1, <1>2, <1>3, <1>4, <1>5, <1>6, <1>7, <1>8, <1>9, <1>10, <1>11,
     <1>12 DEF ExtNext, Loop

\* A call whose script runs is touched by nobody but its own thread.
LEMMA ToolsGoOn ==
  ASSUME ScriptTypes, LocksHeld, CallTypes, ToolsRun, [ExtNext]_extVars
  PROVE  ToolsRun'
<1>0. CASE UNCHANGED extVars
  BY <1>0 DEF extVars, ToolsRun
<1>1. ASSUME NEW a \in Agents, NEW c \in ToolCalls, EvaluatePolicy(a, c)
      PROVE  ToolsRun'
  <2>1. ASSUME NEW d \in ToolCalls, script'[d].hook = "tool"
        PROVE  script[d].hook = "tool"
    <3>1. CASE UNCHANGED script
      BY <2>1, <3>1
    <3>2. ASSUME NEW e \in Extensions, Enter(a, e, "on_tool_call")
          PROVE  script[d].hook = "tool"
      BY <2>1, <3>2, Entered DEF Hooks, Threads
    <3> QED
      BY <1>1, <3>1, <3>2, Numbered DEF EvaluatePolicy, IsTurnOf
  <2> QED
    BY <1>1, <2>1 DEF EvaluatePolicy, Prepares, IsNext, Go2, CallTypes, ToolsRun
<1>2. ASSUME NEW a \in Agents, NEW c \in ToolCalls, PolicyReturns(a, c)
      PROVE  ToolsRun'
  <2>1. ASSUME NEW d \in ToolCalls, script'[d].hook = "tool"
        PROVE  script[d].hook = "tool"
    BY <1>2, <2>1, Left DEF PolicyReturns, Hooks, Threads, Out
  <2> QED
    BY <1>2, <2>1 DEF PolicyReturns, IsNext, Go2, CallTypes, ToolsRun
<1>3. ASSUME NEW a \in Agents, NEW c \in ToolCalls, Prepared(a, c)
      PROVE  ToolsRun'
  BY <1>3 DEF Prepared, Go2, FirstTurn, Prepares, IsNext, CallTypes, ToolsRun,
     Threads
<1>4. ASSUME NEW a \in Agents, NEW c \in ToolCalls, RunTool(a, c)
      PROVE  ToolsRun'
  BY <1>4 DEF RunTool, Go2, CallTypes, ToolsRun, Threads
<1>5. ASSUME NEW a \in Agents, NEW c \in ToolCalls, PatchResult(a, c)
      PROVE  ToolsRun'
  <2>1. ASSUME NEW d \in ToolCalls, script'[d].hook = "tool"
        PROVE  script[d].hook = "tool"
    <3>1. CASE UNCHANGED script
      BY <2>1, <3>1
    <3>2. ASSUME NEW e \in Extensions, Enter(a, e, "on_tool_result")
          PROVE  script[d].hook = "tool"
      BY <2>1, <3>2, Entered DEF Hooks, Threads
    <3> QED
      BY <1>5, <3>1, <3>2, Numbered DEF PatchResult, IsTurnOf
  <2> QED
    BY <1>5, <2>1 DEF PatchResult, Go2, CallTypes, ToolsRun
<1>6. ASSUME NEW a \in Agents, NEW c \in ToolCalls, PatchReturns(a, c)
      PROVE  ToolsRun'
  <2>1. ASSUME NEW d \in ToolCalls, script'[d].hook = "tool"
        PROVE  script[d].hook = "tool"
    BY <1>6, <2>1, Left DEF PatchReturns, Hooks, Threads, Out
  <2> QED
    BY <1>6, <2>1 DEF PatchReturns, Go2, CallTypes, ToolsRun
<1>7. ASSUME NEW a \in Agents, AgentEnds(a)
      PROVE  ToolsRun'
  BY <1>7 DEF AgentEnds, CallTypes, ToolsRun, Threads
<1>8. ASSUME NEW c \in ToolCalls, RunScript(c)
      PROVE  ToolsRun'
  <2>1. CASE Busy(ToolOf[c])
    BY <1>8, <2>1 DEF RunScript, Free, Out, Go2, CallTypes, ToolsRun
  <2>2. CASE ~Busy(ToolOf[c])
    <3>1. ToolOf[c] \in Extensions /\ Enter(c, ToolOf[c], "tool") /\ call' = call
      BY <1>8, <2>2, Numbered DEF RunScript
    <3>2. \A u \in Threads \ {c} : script'[u] = script[u]
      BY <3>1, Entered DEF Hooks, Threads
    <3> QED
      BY <1>8, <3>1, <3>2 DEF RunScript, ToolsRun, Threads
  <2> QED
    BY <2>1, <2>2
<1>9. ASSUME NEW c \in ToolCalls, ToolReturns(c)
      PROVE  ToolsRun'
  <2>1. /\ \A u \in Threads \ {c} : script'[u] = script[u]
        /\ script'[c].hook # "tool"
    <3>1. CASE ToolOf[c] = 0
      BY <1>9, <3>1 DEF ToolReturns, ToolsRun
    <3>2. CASE ToolOf[c] # 0
      BY <1>9, <3>2, Left DEF ToolReturns, Hooks, Threads, Out
    <3> QED
      BY <3>1, <3>2
  <2> QED
    BY <1>9, <2>1 DEF ToolReturns, Go2, CallTypes, ToolsRun, Threads
<1>10. ASSUME NEW e \in Extensions, Notify(e)
      PROVE  ToolsRun'
  <2>1. ASSUME NEW d \in ToolCalls, script'[d].hook = "tool"
        PROVE  script[d].hook = "tool"
    BY <1>10, <2>1, Entered, Numbered
       DEF Notify, Hooks, Threads, Agents
  <2> QED
    BY <1>10, <2>1 DEF Notify, ToolsRun
<1>11. CASE Notified
  <2>1. ASSUME NEW d \in ToolCalls, script'[d].hook = "tool"
        PROVE  script[d].hook = "tool"
    BY <1>11, <2>1, Left DEF Notified, Hooks, Threads, Agents, Out
  <2> QED
    BY <1>11, <2>1 DEF Notified, ToolsRun
<1>12. ASSUME NEW t \in Threads, StartSubAgents(t)
      PROVE  ToolsRun'
  BY <1>12 DEF StartSubAgents, CallTypes, ToolsRun, Threads
<1> QED
  BY <1>0, <1>1, <1>2, <1>3, <1>4, <1>5, <1>6, <1>7, <1>8, <1>9, <1>10, <1>11,
     <1>12 DEF ExtNext, Loop

\* Whoever waits for a verdict is not stirred: its calls stay as they are.
Undisturbed(x) ==
  /\ script'[x] = script[x]
  /\ \A d \in CallsOf(x) : call'[d] = "new" => call[d] = "new"
  /\ \A d \in CallsOf(x) : call[d] = "new" =>
       call'[d] = "new" /\ turnOf'[d] = turnOf[d]

\* Nobody but its own loop touches a call that is not prepared.
LEMMA WaitersAreLeft ==
  ASSUME ScriptTypes, LocksHeld, CallTypes, ToolsRun, NEW x \in Agents,
         script'[x].hook = "on_tool_call", [ExtNext]_extVars
  PROVE  Undisturbed(x) \/ \E d \in ToolCalls : EvaluatePolicy(x, d)
<1>0. CASE UNCHANGED extVars
  BY <1>0 DEF extVars, Undisturbed
<1>1. ASSUME NEW a \in Agents, NEW c \in ToolCalls, EvaluatePolicy(a, c)
      PROVE  Undisturbed(x) \/ \E d \in ToolCalls : EvaluatePolicy(x, d)
  <2>1. CASE a = x
    BY <1>1, <2>1 DEF EvaluatePolicy
  <2>2. CASE a # x
    <3>1. script'[x] = script[x]
      BY <1>1, <2>2, Entered, Numbered DEF EvaluatePolicy, IsTurnOf, Hooks,
         Threads
    <3>2. c \in CallsOf(a) /\ c \notin CallsOf(x)
      BY <1>1, <2>2, CallsApart DEF EvaluatePolicy, Prepares, IsNext
    <3> QED
      BY <1>1, <3>1, <3>2, CallsPlaced DEF EvaluatePolicy, Undisturbed,
         CallTypes, Go2, NextTurn, FirstTurn
  <2> QED
    BY <2>1, <2>2
<1>2. ASSUME NEW a \in Agents, NEW c \in ToolCalls, PolicyReturns(a, c)
      PROVE  Undisturbed(x) \/ \E d \in ToolCalls : EvaluatePolicy(x, d)
  <2>1. CASE a = x
    BY <1>2, <2>1, Left DEF PolicyReturns, Hooks, Threads, Out
  <2>2. CASE a # x
    <3>1. script'[x] = script[x]
      BY <1>2, <2>2, Left DEF PolicyReturns, Hooks, Threads
    <3>2. c \in CallsOf(a) /\ c \notin CallsOf(x)
      BY <1>2, <2>2, CallsApart DEF PolicyReturns, IsNext
    <3> QED
      BY <1>2, <3>1, <3>2, CallsPlaced DEF PolicyReturns, Undisturbed,
         CallTypes, Go2, NextTurn, FirstTurn
  <2> QED
    BY <2>1, <2>2
<1>3. ASSUME NEW a \in Agents, NEW c \in ToolCalls, Prepared(a, c)
      PROVE  Undisturbed(x) \/ \E d \in ToolCalls : EvaluatePolicy(x, d)
  <2>1. CASE a = x
    BY <1>3, <2>1 DEF Prepared, Prepares, Free, Out
  <2>2. CASE a # x
    <3>1. script'[x] = script[x]
      BY <1>3, <2>2, Zenon DEF Prepared
    <3>2. c \in CallsOf(a) /\ c \notin CallsOf(x)
      BY <1>3, <2>2, CallsApart DEF Prepared, Prepares, IsNext
    <3> QED
      BY <1>3, <3>1, <3>2, CallsPlaced DEF Prepared, Undisturbed, CallTypes,
         Go2, NextTurn, FirstTurn
  <2> QED
    BY <2>1, <2>2
<1>4. ASSUME NEW a \in Agents, NEW c \in ToolCalls, RunTool(a, c)
      PROVE  Undisturbed(x) \/ \E d \in ToolCalls : EvaluatePolicy(x, d)
  BY <1>4, CallsPlaced DEF RunTool, Go2, CallTypes, Undisturbed
<1>5. ASSUME NEW a \in Agents, NEW c \in ToolCalls, PatchResult(a, c)
      PROVE  Undisturbed(x) \/ \E d \in ToolCalls : EvaluatePolicy(x, d)
  <2>1. script'[x] = script[x]
    <3>1. CASE UNCHANGED script
      BY <3>1
    <3>2. ASSUME NEW e \in Extensions, Enter(a, e, "on_tool_result")
          PROVE  script'[x] = script[x]
      BY <3>2, Entered DEF Hooks, Threads
    <3> QED
      BY <1>5, <3>1, <3>2, Numbered DEF PatchResult, IsTurnOf
  <2> QED
    BY <1>5, <2>1, CallsPlaced DEF PatchResult, Go2, NextTurn, CallTypes,
       Undisturbed
<1>6. ASSUME NEW a \in Agents, NEW c \in ToolCalls, PatchReturns(a, c)
      PROVE  Undisturbed(x) \/ \E d \in ToolCalls : EvaluatePolicy(x, d)
  <2>1. script'[x] = script[x]
    BY <1>6, Left DEF PatchReturns, Hooks, Threads, Out
  <2> QED
    BY <1>6, <2>1, CallsPlaced DEF PatchReturns, Go2, CallTypes, Undisturbed
<1>7. ASSUME NEW a \in Agents, AgentEnds(a)
      PROVE  Undisturbed(x) \/ \E d \in ToolCalls : EvaluatePolicy(x, d)
  BY <1>7 DEF AgentEnds, Undisturbed
<1>8. ASSUME NEW c \in ToolCalls, RunScript(c)
      PROVE  Undisturbed(x) \/ \E d \in ToolCalls : EvaluatePolicy(x, d)
  <2>1. script'[x] = script[x]
    <3>1. CASE UNCHANGED script
      BY <3>1
    <3>2. ASSUME NEW e \in Extensions, Enter(c, e, "tool")
          PROVE  script'[x] = script[x]
      BY <3>2, Entered DEF Hooks, Threads
    <3> QED
      BY <1>8, <3>1, <3>2, Numbered DEF RunScript
  <2> QED
    BY <1>8, <2>1, CallsPlaced DEF RunScript, Go2, CallTypes, Undisturbed
<1>9. ASSUME NEW c \in ToolCalls, ToolReturns(c)
      PROVE  Undisturbed(x) \/ \E d \in ToolCalls : EvaluatePolicy(x, d)
  <2>1. script'[x] = script[x]
    BY <1>9, Left DEF ToolReturns, Hooks, Threads, Out
  <2>2. call[c] = "running"
    BY <1>9 DEF ToolReturns, Return, ToolsRun
  <2> QED
    BY <1>9, <2>1, <2>2, CallsPlaced DEF ToolReturns, Go2, CallTypes, Undisturbed
<1>10. ASSUME NEW e \in Extensions, Notify(e)
      PROVE  Undisturbed(x) \/ \E d \in ToolCalls : EvaluatePolicy(x, d)
  <2>1. script'[x] = script[x]
    <3>1. CASE UNCHANGED script
      BY <3>1
    <3>2. ASSUME Enter(MainAgent, e, "other")
          PROVE  script'[x] = script[x]
      BY <3>2, Entered DEF Hooks, Threads, Agents
    <3> QED
      BY <1>10, <3>1, <3>2 DEF Notify
  <2> QED
    BY <1>10, <2>1 DEF Notify, Undisturbed
<1>11. CASE Notified
  <2>1. script'[x] = script[x]
    BY <1>11, Left DEF Notified, Hooks, Threads, Agents, Out
  <2> QED
    BY <1>11, <2>1 DEF Notified, Undisturbed
<1>12. ASSUME NEW t \in Threads, StartSubAgents(t)
      PROVE  Undisturbed(x) \/ \E d \in ToolCalls : EvaluatePolicy(x, d)
  BY <1>12 DEF StartSubAgents, Undisturbed
<1> QED
  BY <1>0, <1>1, <1>2, <1>3, <1>4, <1>5, <1>6, <1>7, <1>8, <1>9, <1>10, <1>11,
     <1>12 DEF ExtNext, Loop

\* Evaluating a policy takes the next one in turn, and the wait for its verdict
\* moves nothing.
LEMMA VerdictsStayInOrder ==
  ASSUME ScriptTypes, LocksHeld, CallTypes, ToolsRun, VerdictsInOrder,
         [ExtNext]_extVars
  PROVE  VerdictsInOrder'
<1> SUFFICES ASSUME NEW x \in Agents, NEW c \in ToolCalls,
                    script'[x].hook = "on_tool_call", IsNext(x, c)',
                    NEW d \in Policies, d < script'[x].ext
             PROVE  d < turnOf'[c]
  BY DEF VerdictsInOrder
<1>1. CASE Undisturbed(x)
  <2>1. IsNext(x, c)
    BY <1>1 DEF IsNext, Undisturbed, CallsOf
  <2>2. turnOf'[c] = turnOf[c] /\ script'[x] = script[x]
    BY <1>1, <2>1 DEF IsNext, Undisturbed
  <2> QED
    BY <2>1, <2>2 DEF VerdictsInOrder
<1>2. ASSUME NEW b \in ToolCalls, EvaluatePolicy(x, b)
      PROVE  d < turnOf'[c]
  <2>1. PICK e \in Policies :
         /\ IsTurnOf(e, b, Policies)
         /\ IF Busy(e) THEN Go2(b, "refused") /\ UNCHANGED <<holder, script>>
                       ELSE Enter(x, e, "on_tool_call") /\ UNCHANGED call
    BY <1>2 DEF EvaluatePolicy
  <2>2. ~Busy(e)
    BY <1>2, <2>1 DEF EvaluatePolicy, Prepares, Free, Out
  <2>3. script'[x].ext = e
    BY <2>1, <2>2, Entered, Numbered DEF Hooks, Threads
  <2>4. IsNext(x, c) /\ IsNext(x, b)
    BY <1>2, <2>1, <2>2 DEF IsNext, EvaluatePolicy, Prepares, CallsOf
  <2>5. c = b
    BY <2>4, OneIsNext
  <2>6. \A p \in Policies : p >= e \/ p < turnOf[b]
    BY <2>1 DEF IsTurnOf
  <2>7. d \in Nat /\ e \in Nat
    BY Numbered
  <2>8. d < turnOf[b]
    BY <2>3, <2>6, <2>7
  <2> QED
    BY <1>2, <2>5, <2>8 DEF EvaluatePolicy
<1> QED
  BY <1>1, <1>2, WaitersAreLeft

\* A policy lets a call pass in its turn, and Prepared has seen them all.
LEMMA PassesKept ==
  ASSUME ScriptTypes, LocksHeld, CallTypes, VerdictsInOrder, ToolsRun,
         PassedBefore, [ExtNext]_extVars
  PROVE  PassedBefore'
<1>0. CASE UNCHANGED extVars
  BY <1>0 DEF extVars, PassedBefore
<1>1. ASSUME NEW a \in Agents, NEW c \in ToolCalls, EvaluatePolicy(a, c)
      PROVE  PassedBefore'
  BY <1>1 DEF EvaluatePolicy, Go2, Prepares, IsNext, CallTypes, CallStates,
     PassedBefore
<1>2. ASSUME NEW a \in Agents, NEW c \in ToolCalls, PolicyReturns(a, c)
      PROVE  PassedBefore'
  <2> DEFINE e == script[a].ext
  <2>1. e \in Extensions /\ e \in Nat /\ script[a].hook = "on_tool_call"
    BY <1>2, Left, Numbered DEF PolicyReturns, Return, Hooks, Threads
  <2>2. \A d \in Policies : d < e => d < turnOf[c]
    BY <1>2, <2>1 DEF VerdictsInOrder, PolicyReturns
  <2>3. call[c] = "new" /\ \A d \in Policies : d < turnOf[c] => d \in passed[c]
    BY <1>2 DEF PolicyReturns, IsNext, PassedBefore
  <2>4. \/ /\ NextTurn(c, e) /\ passed' = [passed EXCEPT ![c] = passed[c] \cup {e}]
           /\ UNCHANGED call
        \/ Go2(c, "refused") /\ UNCHANGED <<turnOf, passed>>
    BY <1>2 DEF PolicyReturns
  <2> HIDE DEF e
  <2>5. CASE /\ NextTurn(c, e) /\ passed' = [passed EXCEPT ![c] = passed[c] \cup {e}]
             /\ UNCHANGED call
    <3>1. ASSUME NEW d \in Policies, d < e + 1 PROVE d \in passed'[c]
      <4>1. d \in Nat
        BY Numbered
      <4>2. d < e \/ d = e
        BY <2>1, <3>1, <4>1
      <4>3. passed'[c] = passed[c] \cup {e}
        BY <2>5 DEF CallTypes
      <4> QED
        BY <4>2, <4>3, <2>2, <2>3
    <3> QED
      BY <2>3, <2>5, <3>1 DEF NextTurn, CallTypes, PassedBefore
  <2>6. CASE Go2(c, "refused") /\ UNCHANGED <<turnOf, passed>>
    BY <2>6 DEF Go2, CallTypes, PassedBefore
  <2> QED
    BY <2>5, <2>6, <2>4
<1>3. ASSUME NEW a \in Agents, NEW c \in ToolCalls, Prepared(a, c)
      PROVE  PassedBefore'
  BY <1>3 DEF Prepared, Go2, FirstTurn, Prepares, IsNext, LoopIsOver, CallTypes,
     CallStates, PassedBefore
<1>4. ASSUME NEW a \in Agents, NEW c \in ToolCalls, RunTool(a, c)
      PROVE  PassedBefore'
  BY <1>4 DEF RunTool, Go2, CallTypes, CallStates, PassedBefore
<1>5. ASSUME NEW a \in Agents, NEW c \in ToolCalls, PatchResult(a, c)
      PROVE  PassedBefore'
  BY <1>5 DEF PatchResult, NextTurn, Go2, CallTypes, CallStates, PassedBefore
<1>6. ASSUME NEW a \in Agents, NEW c \in ToolCalls, PatchReturns(a, c)
      PROVE  PassedBefore'
  BY <1>6 DEF PatchReturns, Go2, CallTypes, CallStates, PassedBefore
<1>7. ASSUME NEW a \in Agents, AgentEnds(a)
      PROVE  PassedBefore'
  BY <1>7 DEF AgentEnds, CallTypes, CallStates, PassedBefore
<1>8. ASSUME NEW c \in ToolCalls, RunScript(c)
      PROVE  PassedBefore'
  BY <1>8 DEF RunScript, Go2, CallTypes, CallStates, PassedBefore
<1>9. ASSUME NEW c \in ToolCalls, ToolReturns(c)
      PROVE  PassedBefore'
  BY <1>9 DEF ToolReturns, Go2, Return, ToolsRun, CallTypes, CallStates,
     PassedBefore
<1>10. ASSUME NEW e \in Extensions, Notify(e)
      PROVE  PassedBefore'
  BY <1>10 DEF Notify, CallTypes, CallStates, PassedBefore
<1>11. CASE Notified
  BY <1>11 DEF Notified, CallTypes, CallStates, PassedBefore
<1>12. ASSUME NEW t \in Threads, StartSubAgents(t)
      PROVE  PassedBefore'
  BY <1>12 DEF StartSubAgents, CallTypes, CallStates, PassedBefore
<1> QED
  BY <1>0, <1>1, <1>2, <1>3, <1>4, <1>5, <1>6, <1>7, <1>8, <1>9, <1>10, <1>11,
     <1>12 DEF ExtNext, Loop

-----------------------------------------------------------------------------
\* HostInv holds throughout.
THEOREM HostInvariance == ExtSpec => []HostInv
<1>1. HostInv /\ [ExtNext]_extVars => HostInv'
  BY ScriptTypesKept, CallTypesKept, LocksStayHeld, ToolsGoOn,
     VerdictsStayInOrder,
    PassesKept DEF HostInv
<1> QED
  BY <1>1, HostStartsRight, PTL DEF ExtSpec

\* No call runs that a policy has not let pass, however many agents and scripts
\* run beside each other; and a script holds the lock of its engine.
THEOREM PoliciesFailClosed == ExtSpec => []FailsClosed
<1>1. HostInv => FailsClosed
  BY DEF HostInv, PassedBefore, LocksHeld, FailsClosed, Free
<1> QED
  BY <1>1, HostInvariance, PTL

-----------------------------------------------------------------------------
(***************************************************************************)
(* The MCP pool. A connection lives as long as the map or a task has a     *)
(* handle to its client.                                                   *)
(***************************************************************************)

\* Which places a task has a handle at, and a request.
HandlesFit ==
  \A t \in Tasks :
    /\ where[t] \in {"list", "catalog", "insert", "shut", "ask"} => cli[t] # NoOne
    /\ where[t] \in Pcs \ {"connect", "list", "catalog", "insert", "shut", "ask"}
         => cli[t] = NoOne
    /\ where[t] = "shut" => cli[t] \in shut
    /\ cli[t] = NoOne \/ where[t] \in {"catalog", "insert"} => req[t] = "none"

\* Somebody has a handle to the client: the map or a task.
Handled(c) ==
  (\E s \in Servers : live[s] = c) \/ (\E t \in Tasks : cli[t] = c)

\* A connection ends with the last handle, and before that only by a shutdown.
LinksKnown ==
  \A c \in Clients :
    /\ link[c] \in {"up", "down"} => Handled(c)
    /\ link[c] = "gone" /\ Handled(c) => c \in shut

\* The live map is within its cap.
CapHolds == IsFiniteSet(Live) /\ Cardinality(Live) <= MaxLive

\* The inductive invariant.
PoolInv == PoolTypeOK /\ HandlesFit /\ LinksKnown /\ CapHolds

\* What the assumption says of the constant.
LEMMA NoOneIsNone ==
  /\ NoOne \notin Tasks /\ NoOne \notin Clients
  /\ NoOne \notin Ops /\ NoOne # "refresh"
  BY McpPoolAssumption

\* A task's next client has a name.
LEMMA ClientsAreNamed == ASSUME NEW t \in Tasks PROVE Client(t) \in Clients
<1> DEFINE b == op[t] = "refresh"
<1>1. b \in BOOLEAN
  OBVIOUS
<1>2. Client(t) = <<t, b>>
  BY DEF Client
<1> HIDE DEF b
<1> QED
  BY <1>1, <1>2 DEF Clients

\* A server that is live has a client.
LEMMA LiveAreClients ==
  ASSUME PoolTypeOK, NEW s \in Live
  PROVE  s \in Servers /\ live[s] \in Clients
  BY DEF PoolTypeOK, Live

\* At first nothing is connected.
LEMMA PoolStartsRight == PoolInit => PoolInv
<1> SUFFICES ASSUME PoolInit PROVE PoolInv
  OBVIOUS
<1>1. PoolTypeOK
  <2>1. PICK w \in CallMixes :
          /\ op = [t \in Tasks |-> w[t].op]
          /\ srv = [t \in Tasks |-> w[t].srv]
          /\ where = [t \in Tasks |->
                  CASE w[t].op = NoOne -> "done"
                    [] w[t].op = "enable" -> "reserve"
                    [] w[t].op = "describe" -> "cached"
                    [] OTHER -> "ensure"]
    BY DEF PoolInit
  <2>2. \A t \in Tasks : w[t].op \in Ops \cup {NoOne} /\ w[t].srv \in Servers
    BY <2>1, McpPoolAssumption
  <2>3. where \in [Tasks -> Pcs]
    <3>1. \A t \in Tasks : where[t] \in Pcs
      BY <2>1 DEF Pcs
    <3> QED
      BY <2>1, <3>1
  <2> QED
    BY <2>1, <2>2, <2>3 DEF PoolInit, PoolTypeOK, Requests, Links
<1>2. \A t \in Tasks : where[t] \in {"done", "reserve", "cached", "ensure"}
  BY DEF PoolInit
<1>3. HandlesFit
  BY <1>2 DEF HandlesFit, PoolInit
<1>4. LinksKnown
  BY NoOneIsNone DEF LinksKnown, PoolInit
<1>5. CapHolds
  <2>1. Live = {}
    BY DEF PoolInit, Live
  <2> QED
    BY <2>1, FS_EmptySet, McpPoolAssumption DEF CapHolds
<1> QED
  BY <1>1, <1>3, <1>4, <1>5 DEF PoolInv

-----------------------------------------------------------------------------
(* Handles. *)

\* What dropping a handle does to the connections.
LEMMA DropsTheUnheld ==
  ASSUME PoolTypeOK, Dropped
  PROVE  /\ link' \in [Clients -> Links]
         /\ \A c \in Clients :
              /\ link'[c] \in {"up", "down"} => link'[c] = link[c] /\ Handled(c)'
              /\ link'[c] = "gone" /\ Handled(c)' => link[c] = "gone"
<1>1. \A c \in Clients : link[c] \in Links
  BY DEF PoolTypeOK
<1>2. \A c \in Clients :
        link'[c] = IF /\ link[c] \in {"up", "down"}
                      /\ \A s \in Servers : live'[s] # c
                      /\ \A t \in Tasks : cli'[t] # c
                   THEN "gone" ELSE link[c]
  <2> TAKE c \in Clients
  <2> QED
    BY DEF Dropped
<1>3. link' \in [Clients -> Links]
  BY <1>1 DEF Dropped, Links
<1> QED
  BY <1>2, <1>3 DEF Handled

\* A task that ends drops its handle and touches nothing else.
LEMMA EndKeepsTypes ==
  ASSUME PoolTypeOK, NEW t \in Tasks, End(t)
  PROVE  /\ where' \in [Tasks -> Pcs] /\ cli' \in [Tasks -> Clients \cup {NoOne}]
         /\ req' \in [Tasks -> Requests] /\ live' = live
         /\ link' \in [Clients -> Links]
         /\ where'[t] = "done" /\ cli'[t] = NoOne /\ req'[t] = "none"
         /\ \A u \in Tasks \ {t} :
              where'[u] = where[u] /\ cli'[u] = cli[u] /\ req'[u] = req[u]
  BY DropsTheUnheld DEF End, Go, Hold, PoolTypeOK, Pcs, Requests

\* Every step keeps the variables in their ranges.
LEMMA PoolTypesKept ==
  ASSUME PoolInv, [PoolNext]_mcpVars
  PROVE  PoolTypeOK'
<1>0. CASE UNCHANGED mcpVars
  <2>1. UNCHANGED <<op, srv, where, cli, req>>
    BY <1>0 DEF taskVars, linkVars, mcpVars
  <2>2. UNCHANGED <<live, lock, catLock, known, link, shut>>
    BY <1>0 DEF poolVars, linkVars, mcpVars
  <2> QED
    BY <2>1, <2>2, Zenon DEF PoolInv, PoolTypeOK
<1>1. ASSUME NEW t \in Tasks, EnsureLive(t) PROVE PoolTypeOK'
  BY <1>1 DEF EnsureLive, Go, Enabled, Pcs, Requests, Links, Clients, Client,
     PoolInv, HandlesFit, taskVars, poolVars, linkVars, mcpVars, PoolTypeOK
<1>2. ASSUME NEW t \in Tasks, Cached(t) PROVE PoolTypeOK'
  BY <1>2 DEF Cached, Go, Pcs, Requests, Links, Clients, Client, PoolInv,
     HandlesFit, taskVars, poolVars, linkVars, mcpVars, PoolTypeOK
<1>3. ASSUME NEW t \in Tasks, Find(t) PROVE PoolTypeOK'
  BY <1>3 DEF Find, Go, Pcs, Requests, Links, Clients, Client, PoolInv,
     HandlesFit, taskVars, poolVars, linkVars, mcpVars, PoolTypeOK
<1>4. ASSUME NEW t \in Tasks, Relook(t) PROVE PoolTypeOK'
  BY <1>4 DEF Relook, Go, Pcs, Requests, Links, Clients, Client, PoolInv,
     HandlesFit, taskVars, poolVars, linkVars, mcpVars, PoolTypeOK
<1>5. ASSUME NEW t \in Tasks, Reserve(t) PROVE PoolTypeOK'
  BY <1>5 DEF Reserve, Go, Enabled, Pcs, Requests, Links, Clients, Client,
     PoolInv, HandlesFit, taskVars, poolVars, linkVars, mcpVars, PoolTypeOK
<1>6. ASSUME NEW t \in Tasks, Connect(t) PROVE PoolTypeOK'
  <2>1. CASE /\ link' = [link EXCEPT ![Client(t)] = "up"]
             /\ Hold(t, Client(t)) /\ Ask(t) /\ UNCHANGED <<where, live>>
    BY <1>6, <2>1, ClientsAreNamed
       DEF Connect, Hold, Ask, PoolInv, PoolTypeOK, Requests, Links
  <2>2. CASE End(t)
    BY <1>6, <2>2, EndKeepsTypes DEF Connect, PoolInv, PoolTypeOK
  <2> QED
    BY <1>6, <2>1, <2>2 DEF Connect
<1>7. ASSUME NEW t \in Tasks, NoEndpoint(t) PROVE PoolTypeOK'
  BY <1>7 DEF NoEndpoint, Go, Pcs, Requests, Links, Clients, Client, PoolInv,
     HandlesFit, taskVars, poolVars, linkVars, mcpVars, PoolTypeOK
<1>8. ASSUME NEW t \in Tasks, Initialized(t) PROVE PoolTypeOK'
  <2>1. CASE End(t)
    BY <1>8, <2>1, EndKeepsTypes DEF Initialized, PoolInv, PoolTypeOK
  <2>2. CASE ~End(t)
    BY <1>8, <2>2 DEF Initialized, Go, Ask, PoolInv, PoolTypeOK, Pcs, Requests
  <2> QED
    BY <2>1, <2>2
<1>9. ASSUME NEW t \in Tasks, Listed(t) PROVE PoolTypeOK'
  <2>1. CASE End(t)
    BY <1>9, <2>1, EndKeepsTypes DEF Listed, PoolInv, PoolTypeOK
  <2>2. CASE ~End(t)
    BY <1>9, <2>2 DEF Listed, Go, PoolInv, PoolTypeOK, Pcs, Requests
  <2> QED
    BY <2>1, <2>2
<1>10. ASSUME NEW t \in Tasks, SetKnownTools(t) PROVE PoolTypeOK'
  BY <1>10 DEF SetKnownTools, Go, Pcs, Requests, Links, Clients, Client,
     PoolInv, HandlesFit, taskVars, poolVars, linkVars, mcpVars, PoolTypeOK
<1>11. ASSUME NEW t \in Tasks, Insert(t) PROVE PoolTypeOK'
  <2>1. CASE srv[t] \notin Live /\ Cardinality(Live) >= MaxLive
    BY <1>11, <2>1
       DEF Insert, Shutdown, Go, Hold, Ask, PoolInv, PoolTypeOK, HandlesFit,
          Pcs, Requests
  <2>2. CASE ~(srv[t] \notin Live /\ Cardinality(Live) >= MaxLive)
    <3>1. Dropped /\ cli[t] \in Clients
      BY <1>11, <2>2 DEF Insert, PoolInv, PoolTypeOK, HandlesFit
    <3>2. link' \in [Clients -> Links]
      BY <3>1, DropsTheUnheld DEF PoolInv
    <3>3. Enabled(t) \in Pcs
      BY DEF Enabled, Pcs
    <3> QED
      BY <1>11, <2>2, <3>1, <3>2, <3>3 DEF Insert, Go, Hold, PoolInv, PoolTypeOK
  <2> QED
    BY <2>1, <2>2
<1>12. ASSUME NEW t \in Tasks, Disable(t) PROVE PoolTypeOK'
  <2>1. CASE srv[t] \in Live
    <3>1. live[srv[t]] \in Clients
      BY <2>1, LiveAreClients DEF PoolInv
    <3> QED
      BY <1>12, <2>1, <3>1
         DEF Disable, Shutdown, Go, Hold, Ask, PoolInv, PoolTypeOK, Pcs, Requests
  <2>2. CASE srv[t] \notin Live
    BY <1>12, <2>2 DEF Disable, Go, PoolInv, PoolTypeOK, Pcs
  <2> QED
    BY <2>1, <2>2
<1>13. ASSUME NEW t \in Tasks, ShutdownEnds(t) PROVE PoolTypeOK'
  BY <1>13, DropsTheUnheld DEF ShutdownEnds, Go, Hold, Pcs, Requests, Links,
     Clients, Client, PoolInv, HandlesFit, taskVars, poolVars, linkVars,
     mcpVars, PoolTypeOK
<1>14. ASSUME NEW t \in Tasks, Take(t) PROVE PoolTypeOK'
  <2>1. CASE srv[t] \in Live
    <3>1. live[srv[t]] \in Clients
      BY <2>1, LiveAreClients DEF PoolInv
    <3> QED
      BY <1>14, <2>1, <3>1
         DEF Take, Go, Hold, Ask, poolVars, PoolInv, PoolTypeOK, Pcs, Requests
  <2>2. CASE srv[t] \notin Live
    BY <1>14, <2>2 DEF Take, Go, poolVars, PoolInv, PoolTypeOK, Pcs
  <2> QED
    BY <2>1, <2>2
<1>15. ASSUME NEW t \in Tasks, Called(t) PROVE PoolTypeOK'
  BY <1>15, EndKeepsTypes DEF Called, PoolInv, PoolTypeOK
<1>16. ASSUME NEW t \in Tasks, Report(t) PROVE PoolTypeOK'
  BY <1>16 DEF Report, Go, Pcs, Requests, Links, Clients, Client, PoolInv,
     HandlesFit, taskVars, poolVars, linkVars, mcpVars, PoolTypeOK
<1>17. ASSUME NEW t \in Tasks, Count(t) PROVE PoolTypeOK'
  BY <1>17 DEF Count, Go, Pcs, Requests, Links, Clients, Client, PoolInv,
     HandlesFit, taskVars, poolVars, linkVars, mcpVars, PoolTypeOK
<1>18. ASSUME NEW t \in Tasks, Post(t) PROVE PoolTypeOK'
  BY <1>18 DEF Post, Pcs, Requests, Links, Clients, Client, PoolInv, HandlesFit,
     taskVars, poolVars, linkVars, mcpVars, PoolTypeOK
<1>19. ASSUME NEW t \in Tasks, AnswerRequest(t) PROVE PoolTypeOK'
  BY <1>19 DEF AnswerRequest, Pcs, Requests, Links, Clients, Client, PoolInv,
     HandlesFit, taskVars, poolVars, linkVars, mcpVars, PoolTypeOK
<1>20. ASSUME NEW t \in Tasks, TakenForAnswer(t) PROVE PoolTypeOK'
  BY <1>20 DEF TakenForAnswer, Pcs, Requests, Links, Clients, Client, PoolInv,
     HandlesFit, taskVars, poolVars, linkVars, mcpVars, PoolTypeOK
<1>21. ASSUME NEW t \in Tasks, Timeout(t) PROVE PoolTypeOK'
  BY <1>21 DEF Timeout, Pcs, Requests, Links, Clients, Client, PoolInv,
     HandlesFit, taskVars, poolVars, linkVars, mcpVars, PoolTypeOK
<1>22. ASSUME NEW c \in Clients, Lose(c) PROVE PoolTypeOK'
  BY <1>22 DEF Lose, Drained, Requests, Links, PoolInv, taskVars, poolVars,
     linkVars, mcpVars, PoolTypeOK
<1>23. ASSUME NEW c \in Clients, Reopen(c) PROVE PoolTypeOK'
  BY <1>23 DEF Reopen, Links, PoolInv, taskVars, poolVars, linkVars, mcpVars,
     PoolTypeOK
<1> QED
  BY <1>0, <1>1, <1>2, <1>3, <1>4, <1>5, <1>6, <1>7, <1>8, <1>9, <1>10, <1>11,
     <1>12, <1>13, <1>14, <1>15, <1>16, <1>17, <1>18, <1>19, <1>20, <1>21,
     <1>22, <1>23
     DEF PoolNext, Pool, Done

\* A task takes its handle with its place, and drops it so.
LEMMA HandlesStayFit ==
  ASSUME PoolInv, [PoolNext]_mcpVars
  PROVE  HandlesFit'
<1>0. CASE UNCHANGED mcpVars
  BY <1>0 DEF taskVars, poolVars, linkVars, mcpVars, HandlesFit, PoolInv
<1>1. ASSUME NEW t \in Tasks, EnsureLive(t) PROVE HandlesFit'
  BY <1>1 DEF EnsureLive, Go, Enabled, Pcs, taskVars, poolVars, linkVars,
     mcpVars, PoolInv, PoolTypeOK, HandlesFit
<1>2. ASSUME NEW t \in Tasks, Cached(t) PROVE HandlesFit'
  BY <1>2 DEF Cached, Go, Pcs, taskVars, poolVars, linkVars, mcpVars, PoolInv,
     PoolTypeOK, HandlesFit
<1>3. ASSUME NEW t \in Tasks, Find(t) PROVE HandlesFit'
  BY <1>3 DEF Find, Go, Pcs, taskVars, poolVars, linkVars, mcpVars, PoolInv,
     PoolTypeOK, HandlesFit
<1>4. ASSUME NEW t \in Tasks, Relook(t) PROVE HandlesFit'
  BY <1>4 DEF Relook, Go, Pcs, taskVars, poolVars, linkVars, mcpVars, PoolInv,
     PoolTypeOK, HandlesFit
<1>5. ASSUME NEW t \in Tasks, Reserve(t) PROVE HandlesFit'
  BY <1>5 DEF Reserve, Go, Enabled, Pcs, taskVars, poolVars, linkVars, mcpVars,
     PoolInv, PoolTypeOK, HandlesFit
<1>6. ASSUME NEW t \in Tasks, Connect(t) PROVE HandlesFit'
  <2>1. CASE End(t)
    BY <1>6, <2>1, EndKeepsTypes DEF Connect, PoolInv, HandlesFit, Pcs
  <2>2. CASE ~End(t)
    BY <1>6, <2>2, NoOneIsNone, ClientsAreNamed
       DEF Connect, Hold, Ask, PoolInv, PoolTypeOK, HandlesFit, Pcs
  <2> QED
    BY <2>1, <2>2
<1>7. ASSUME NEW t \in Tasks, NoEndpoint(t) PROVE HandlesFit'
  BY <1>7 DEF NoEndpoint, Go, Pcs, taskVars, poolVars, linkVars, mcpVars,
     PoolInv, PoolTypeOK, HandlesFit
<1>8. ASSUME NEW t \in Tasks, Initialized(t) PROVE HandlesFit'
  <2>1. CASE End(t)
    BY <1>8, <2>1, EndKeepsTypes DEF Initialized, PoolInv, HandlesFit, Pcs
  <2>2. CASE ~End(t)
    <3>1. /\ where' = [where EXCEPT ![t] = "list"] /\ cli' = cli /\ shut' = shut
          /\ where[t] = "connect"
      BY <1>8, <2>2 DEF Initialized, Go
    <3>2. cli[t] # NoOne /\ req' = [req EXCEPT ![t] = "queued"]
      BY <1>8, <2>2 DEF Initialized, Ask, PoolInv, HandlesFit
    <3> QED
      BY <3>1, <3>2 DEF PoolInv, PoolTypeOK, HandlesFit, Pcs
  <2> QED
    BY <2>1, <2>2
<1>9. ASSUME NEW t \in Tasks, Listed(t) PROVE HandlesFit'
  BY <1>9 DEF Listed, Go, Ask, End, Hold, Pcs, taskVars, poolVars, linkVars,
     mcpVars, PoolInv, PoolTypeOK, HandlesFit
<1>10. ASSUME NEW t \in Tasks, SetKnownTools(t) PROVE HandlesFit'
  BY <1>10 DEF SetKnownTools, Go, Pcs, taskVars, poolVars, linkVars, mcpVars,
     PoolInv, PoolTypeOK, HandlesFit
<1>11. ASSUME NEW t \in Tasks, Insert(t) PROVE HandlesFit'
  BY <1>11, NoOneIsNone DEF Insert, Go, Hold, Ask, Shutdown, Enabled, Pcs,
     taskVars, poolVars, linkVars, mcpVars, PoolInv, PoolTypeOK, HandlesFit
<1>12. ASSUME NEW t \in Tasks, Disable(t) PROVE HandlesFit'
  BY <1>12, NoOneIsNone DEF Disable, Go, Hold, Ask, Shutdown, Live, Pcs,
     taskVars, poolVars, linkVars, mcpVars, PoolInv, PoolTypeOK, HandlesFit
<1>13. ASSUME NEW t \in Tasks, ShutdownEnds(t) PROVE HandlesFit'
  BY <1>13 DEF ShutdownEnds, Go, Hold, Pcs, Open, taskVars, poolVars, linkVars,
     mcpVars, PoolInv, PoolTypeOK, HandlesFit
<1>14. ASSUME NEW t \in Tasks, Take(t) PROVE HandlesFit'
  BY <1>14, NoOneIsNone DEF Take, Go, Hold, Ask, Live, Pcs, taskVars, poolVars,
     linkVars, mcpVars, PoolInv, PoolTypeOK, HandlesFit
<1>15. ASSUME NEW t \in Tasks, Called(t) PROVE HandlesFit'
  BY <1>15 DEF Called, End, Hold, Go, Pcs, taskVars, poolVars, linkVars,
     mcpVars, PoolInv, PoolTypeOK, HandlesFit
<1>16. ASSUME NEW t \in Tasks, Report(t) PROVE HandlesFit'
  BY <1>16 DEF Report, Go, Pcs, taskVars, poolVars, linkVars, mcpVars, PoolInv,
     PoolTypeOK, HandlesFit
<1>17. ASSUME NEW t \in Tasks, Count(t) PROVE HandlesFit'
  BY <1>17 DEF Count, Go, Pcs, taskVars, poolVars, linkVars, mcpVars, PoolInv,
     PoolTypeOK, HandlesFit
<1>18. ASSUME NEW t \in Tasks, Post(t) PROVE HandlesFit'
  BY <1>18 DEF Post, taskVars, poolVars, linkVars, mcpVars, PoolInv, PoolTypeOK,
     HandlesFit
<1>19. ASSUME NEW t \in Tasks, AnswerRequest(t) PROVE HandlesFit'
  BY <1>19 DEF AnswerRequest, taskVars, poolVars, linkVars, mcpVars, PoolInv,
     PoolTypeOK, HandlesFit
<1>20. ASSUME NEW t \in Tasks, TakenForAnswer(t) PROVE HandlesFit'
  BY <1>20 DEF TakenForAnswer, taskVars, poolVars, linkVars, mcpVars, PoolInv,
     PoolTypeOK, HandlesFit
<1>21. ASSUME NEW t \in Tasks, Timeout(t) PROVE HandlesFit'
  BY <1>21 DEF Timeout, taskVars, poolVars, linkVars, mcpVars, PoolInv,
     PoolTypeOK, HandlesFit
<1>22. ASSUME NEW c \in Clients, Lose(c) PROVE HandlesFit'
  BY <1>22 DEF Lose, Drained, Open, taskVars, poolVars, linkVars, mcpVars,
     PoolInv, PoolTypeOK, HandlesFit
<1>23. ASSUME NEW c \in Clients, Reopen(c) PROVE HandlesFit'
  BY <1>23 DEF Reopen, taskVars, poolVars, linkVars, mcpVars, PoolInv,
     PoolTypeOK, HandlesFit
<1> QED
  BY <1>0, <1>1, <1>2, <1>3, <1>4, <1>5, <1>6, <1>7, <1>8, <1>9, <1>10, <1>11,
     <1>12, <1>13, <1>14, <1>15, <1>16, <1>17, <1>18, <1>19, <1>20, <1>21,
     <1>22, <1>23
     DEF PoolNext, Pool, Done

\* A handle that is taken or dropped takes or drops the connection with it.
LEMMA LinksStayKnown ==
  ASSUME PoolInv, [PoolNext]_mcpVars
  PROVE  LinksKnown'
<1>0. CASE UNCHANGED mcpVars
  BY <1>0 DEF taskVars, poolVars, linkVars, mcpVars, LinksKnown, PoolInv, Handled
<1>1. ASSUME NEW t \in Tasks, EnsureLive(t) PROVE LinksKnown'
  BY <1>1 DEF EnsureLive, Go, Enabled, taskVars, poolVars, linkVars, mcpVars,
     PoolInv, PoolTypeOK, LinksKnown, Handled
<1>2. ASSUME NEW t \in Tasks, Cached(t) PROVE LinksKnown'
  BY <1>2 DEF Cached, Go, taskVars, poolVars, linkVars, mcpVars, PoolInv,
     PoolTypeOK, LinksKnown, Handled
<1>3. ASSUME NEW t \in Tasks, Find(t) PROVE LinksKnown'
  BY <1>3 DEF Find, Go, taskVars, poolVars, linkVars, mcpVars, PoolInv,
     PoolTypeOK, LinksKnown, Handled
<1>4. ASSUME NEW t \in Tasks, Relook(t) PROVE LinksKnown'
  BY <1>4 DEF Relook, Go, taskVars, poolVars, linkVars, mcpVars, PoolInv,
     PoolTypeOK, LinksKnown, Handled
<1>5. ASSUME NEW t \in Tasks, Reserve(t) PROVE LinksKnown'
  BY <1>5 DEF Reserve, Go, Enabled, taskVars, poolVars, linkVars, mcpVars,
     PoolInv, PoolTypeOK, LinksKnown, Handled
<1>6. ASSUME NEW t \in Tasks, Connect(t) PROVE LinksKnown'
  BY <1>6, DropsTheUnheld, NoOneIsNone DEF Connect, Go, Hold, Ask, End,
     taskVars, poolVars, linkVars, mcpVars, PoolInv, PoolTypeOK, LinksKnown,
     Handled
<1>7. ASSUME NEW t \in Tasks, NoEndpoint(t) PROVE LinksKnown'
  BY <1>7 DEF NoEndpoint, Go, taskVars, poolVars, linkVars, mcpVars, PoolInv,
     PoolTypeOK, LinksKnown, Handled
<1>8. ASSUME NEW t \in Tasks, Initialized(t) PROVE LinksKnown'
  BY <1>8, DropsTheUnheld, NoOneIsNone DEF Initialized, Go, Ask, End, Hold,
     taskVars, poolVars, linkVars, mcpVars, PoolInv, PoolTypeOK, LinksKnown,
     Handled
<1>9. ASSUME NEW t \in Tasks, Listed(t) PROVE LinksKnown'
  BY <1>9, DropsTheUnheld, NoOneIsNone DEF Listed, Go, Ask, End, Hold, taskVars,
     poolVars, linkVars, mcpVars, PoolInv, PoolTypeOK, LinksKnown, Handled
<1>10. ASSUME NEW t \in Tasks, SetKnownTools(t) PROVE LinksKnown'
  BY <1>10 DEF SetKnownTools, Go, taskVars, poolVars, linkVars, mcpVars,
     PoolInv, PoolTypeOK, LinksKnown, Handled
<1>11. ASSUME NEW t \in Tasks, Insert(t) PROVE LinksKnown'
  BY <1>11, DropsTheUnheld, NoOneIsNone DEF Insert, Go, Hold, Ask, Shutdown,
     Enabled, taskVars, poolVars, linkVars, mcpVars, PoolInv, PoolTypeOK,
     LinksKnown, Handled
<1>12. ASSUME NEW t \in Tasks, Disable(t) PROVE LinksKnown'
  <2>1. CASE srv[t] \in Live
    <3> DEFINE k == live[srv[t]]
    <3>1. k \in Clients /\ cli[t] = NoOne
      BY <1>12, <2>1, LiveAreClients DEF Disable, PoolInv, HandlesFit, Pcs
    <3>2. /\ live' = [live EXCEPT ![srv[t]] = NoOne]
          /\ cli' = [cli EXCEPT ![t] = k] /\ shut' = shut \cup {k} /\ link' = link
      BY <1>12, <2>1 DEF Disable, Shutdown, Hold
    <3>3. ASSUME NEW c \in Clients PROVE Handled(c) <=> Handled(c)'
      BY <3>1, <3>2, <3>3, NoOneIsNone DEF Handled, PoolInv, PoolTypeOK
    <3> QED
      BY <3>2, <3>3 DEF PoolInv, LinksKnown
  <2>2. CASE srv[t] \notin Live
    BY <1>12, <2>2 DEF Disable, PoolInv, LinksKnown, Handled
  <2> QED
    BY <2>1, <2>2
<1>13. ASSUME NEW t \in Tasks, ShutdownEnds(t) PROVE LinksKnown'
  <2> DEFINE k == cli[t]
  <2>1. k \in Clients /\ k \in shut
    BY <1>13 DEF ShutdownEnds, PoolInv, PoolTypeOK, HandlesFit
  <2>2. cli' = [cli EXCEPT ![t] = NoOne] /\ live' = live /\ shut' = shut
    BY <1>13 DEF ShutdownEnds, Hold
  <2>3. ASSUME NEW c \in Clients
        PROVE  /\ Handled(c)' => Handled(c)
               /\ c # k /\ Handled(c) => Handled(c)'
    BY <2>2, <2>3, NoOneIsNone DEF Handled, PoolInv, PoolTypeOK
  <2>4. CASE Speaks(k, {"stdio"})
    <3>1. link' = [link EXCEPT ![k] = "gone"]
      BY <1>13, <2>4 DEF ShutdownEnds
    <3> HIDE DEF k
    <3> QED
      BY <2>1, <2>2, <2>3, <3>1 DEF PoolInv, PoolTypeOK, LinksKnown
  <2>5. CASE ~Speaks(k, {"stdio"})
    <3>1. Dropped
      BY <1>13, <2>5 DEF ShutdownEnds
    <3> QED
      BY <2>2, <2>3, <3>1, DropsTheUnheld DEF PoolInv, LinksKnown
  <2> QED
    BY <2>4, <2>5
<1>14. ASSUME NEW t \in Tasks, Take(t) PROVE LinksKnown'
  <2>1. CASE srv[t] \in Live
    <3> DEFINE k == live[srv[t]]
    <3>1. k \in Clients /\ cli[t] = NoOne /\ srv[t] \in Servers
      BY <1>14, <2>1, LiveAreClients DEF Take, PoolInv, HandlesFit, Pcs
    <3>2. live' = live /\ cli' = [cli EXCEPT ![t] = k] /\ shut' = shut /\ link' = link
      BY <1>14, <2>1 DEF Take, Hold, poolVars
    <3>3. ASSUME NEW c \in Clients PROVE Handled(c) <=> Handled(c)'
      BY <3>1, <3>2, <3>3, NoOneIsNone DEF Handled, PoolInv, PoolTypeOK
    <3> QED
      BY <3>2, <3>3 DEF PoolInv, LinksKnown
  <2>2. CASE srv[t] \notin Live
    BY <1>14, <2>2 DEF Take, poolVars, PoolInv, LinksKnown, Handled
  <2> QED
    BY <2>1, <2>2
<1>15. ASSUME NEW t \in Tasks, Called(t) PROVE LinksKnown'
  BY <1>15, DropsTheUnheld, NoOneIsNone DEF Called, End, Hold, Go, taskVars,
     poolVars, linkVars, mcpVars, PoolInv, PoolTypeOK, LinksKnown, Handled
<1>16. ASSUME NEW t \in Tasks, Report(t) PROVE LinksKnown'
  BY <1>16 DEF Report, Go, taskVars, poolVars, linkVars, mcpVars, PoolInv,
     PoolTypeOK, LinksKnown, Handled
<1>17. ASSUME NEW t \in Tasks, Count(t) PROVE LinksKnown'
  BY <1>17 DEF Count, Go, taskVars, poolVars, linkVars, mcpVars, PoolInv,
     PoolTypeOK, LinksKnown, Handled
<1>18. ASSUME NEW t \in Tasks, Post(t) PROVE LinksKnown'
  BY <1>18 DEF Post, taskVars, poolVars, linkVars, mcpVars, PoolInv, PoolTypeOK,
     LinksKnown, Handled
<1>19. ASSUME NEW t \in Tasks, AnswerRequest(t) PROVE LinksKnown'
  BY <1>19 DEF AnswerRequest, taskVars, poolVars, linkVars, mcpVars, PoolInv,
     PoolTypeOK, LinksKnown, Handled
<1>20. ASSUME NEW t \in Tasks, TakenForAnswer(t) PROVE LinksKnown'
  BY <1>20 DEF TakenForAnswer, taskVars, poolVars, linkVars, mcpVars, PoolInv,
     PoolTypeOK, LinksKnown, Handled
<1>21. ASSUME NEW t \in Tasks, Timeout(t) PROVE LinksKnown'
  BY <1>21 DEF Timeout, taskVars, poolVars, linkVars, mcpVars, PoolInv,
     PoolTypeOK, LinksKnown, Handled
<1>22. ASSUME NEW c \in Clients, Lose(c) PROVE LinksKnown'
  BY <1>22 DEF Lose, taskVars, poolVars, linkVars, mcpVars, PoolInv, PoolTypeOK,
     LinksKnown, Handled
<1>23. ASSUME NEW c \in Clients, Reopen(c) PROVE LinksKnown'
  BY <1>23 DEF Reopen, taskVars, poolVars, linkVars, mcpVars, PoolInv,
     PoolTypeOK, LinksKnown, Handled
<1> QED
  BY <1>0, <1>1, <1>2, <1>3, <1>4, <1>5, <1>6, <1>7, <1>8, <1>9, <1>10, <1>11,
     <1>12, <1>13, <1>14, <1>15, <1>16, <1>17, <1>18, <1>19, <1>20, <1>21,
     <1>22, <1>23
     DEF PoolNext, Pool, Done

-----------------------------------------------------------------------------
(* The cap. *)

\* Only Insert adds a server to the map, and it has counted those in it.
LEMMA CapStaysHeld ==
  ASSUME PoolInv, [PoolNext]_mcpVars
  PROVE  CapHolds'
<1> USE DEF PoolInv
<1>0. Cardinality(Live) \in Nat /\ MaxLive \in Nat
  BY FS_CardinalityType, McpPoolAssumption DEF CapHolds
<1>1. CASE live' = live
  BY <1>1 DEF CapHolds, Live
<1>2. ASSUME NEW t \in Tasks, Insert(t), live' # live
      PROVE  CapHolds'
  <2>1. /\ live' = [live EXCEPT ![srv[t]] = cli[t]]
        /\ srv[t] \in Live \/ ~(Cardinality(Live) >= MaxLive)
    BY <1>2 DEF Insert
  <2>2. cli[t] # NoOne /\ srv[t] \in Servers
    BY <1>2 DEF Insert, HandlesFit, PoolTypeOK
  <2>3. Live' = Live \cup {srv[t]}
    BY <2>1, <2>2 DEF Live, PoolTypeOK
  <2>4. /\ IsFiniteSet(Live \cup {srv[t]})
        /\ Cardinality(Live \cup {srv[t]}) =
             IF srv[t] \in Live THEN Cardinality(Live) ELSE Cardinality(Live) + 1
    BY FS_AddElement DEF CapHolds
  <2> QED
    BY <1>0, <2>1, <2>3, <2>4 DEF CapHolds
<1>3. ASSUME NEW t \in Tasks, Disable(t), live' # live
      PROVE  CapHolds'
  <2>1. live' = [live EXCEPT ![srv[t]] = NoOne]
    BY <1>3 DEF Disable
  <2>2. Live' \in SUBSET Live
    BY <2>1 DEF Live, PoolTypeOK
  <2>3. IsFiniteSet(Live') /\ Cardinality(Live') <= Cardinality(Live)
    BY <2>2, FS_Subset DEF CapHolds
  <2>4. Cardinality(Live') \in Nat
    BY <2>3, FS_CardinalityType
  <2> QED
    BY <1>0, <2>3, <2>4 DEF CapHolds
<1>4. ASSUME NEW t \in Tasks, Pool(t)
      PROVE  live' = live \/ Insert(t) \/ Disable(t)
  BY <1>4 DEF Pool, EnsureLive, Cached, Find, Relook, Reserve, Connect,
     NoEndpoint,
    Initialized, Listed, SetKnownTools, ShutdownEnds, Take, Called, Report, Count,
    End, poolVars
<1>5. ASSUME NEW t \in Tasks,
             Post(t) \/ AnswerRequest(t) \/ TakenForAnswer(t) \/ Timeout(t)
      PROVE  live' = live
  BY <1>5 DEF Post, AnswerRequest, TakenForAnswer, Timeout, poolVars
<1>6. ASSUME NEW c \in Clients, Lose(c) \/ Reopen(c)
      PROVE  live' = live
  BY <1>6 DEF Lose, Reopen, poolVars
<1>7. CASE UNCHANGED mcpVars
  BY <1>7, <1>1 DEF mcpVars, poolVars
<1> QED
  BY <1>1, <1>2, <1>3, <1>4, <1>5, <1>6, <1>7 DEF PoolNext, Done

\* PoolInv holds throughout.
THEOREM PoolInvariance == PoolSpec => []PoolInv
<1>1. PoolInv /\ [PoolNext]_mcpVars => PoolInv'
  BY PoolTypesKept, HandlesStayFit, LinksStayKnown, CapStaysHeld DEF PoolInv
<1> QED
  BY <1>1, PoolStartsRight, PTL DEF PoolSpec

\* However many enables race, the pool keeps to its cap; and when no call runs,
\* so do the connections.
THEOREM CapIsKept == PoolSpec => []WithinCap
<1>1. PoolInv => WithinCap
  <2> SUFFICES ASSUME PoolInv, \A t \in Tasks : where[t] = "done"
               PROVE  Cardinality(Connected) <= MaxLive
    BY DEF PoolInv, CapHolds, WithinCap
  <2> DEFINE f == [s \in Live |-> live[s]]
             L == {live[s] : s \in Live}
  <2>1. Connected \in SUBSET L
    <3> SUFFICES ASSUME NEW c \in Connected PROVE c \in L
      OBVIOUS
    <3>1. c \in Clients /\ Handled(c)
      BY DEF Connected, PoolInv, LinksKnown
    <3>2. c # NoOne /\ \A t \in Tasks : cli[t] = NoOne
      BY <3>1, NoOneIsNone DEF PoolInv, HandlesFit, Pcs
    <3> QED
      BY <3>1, <3>2 DEF Handled, Live
  <2>2. f \in Surjection(Live, L)
    BY DEF Surjection
  <2> HIDE DEF f, L
  <2>3. IsFiniteSet(L) /\ Cardinality(L) <= Cardinality(Live)
    BY <2>2, FS_Surjection DEF PoolInv, CapHolds
  <2>4. IsFiniteSet(Connected) /\ Cardinality(Connected) <= Cardinality(L)
    BY <2>1, <2>3, FS_Subset
  <2>5. /\ Cardinality(Live) \in Nat /\ Cardinality(L) \in Nat
        /\ Cardinality(Connected) \in Nat /\ MaxLive \in Nat
    BY <2>3, <2>4, FS_CardinalityType, McpPoolAssumption DEF PoolInv, CapHolds
  <2> QED
    BY <2>3, <2>4, <2>5 DEF PoolInv, CapHolds
<1> QED
  BY <1>1, PoolInvariance, PTL

\* A connection ends under a call only when its client is shut down.
THEOREM CallsKeepServers == PoolSpec => []CallKeepsServer
<1>1. PoolInv => CallKeepsServer
  BY DEF PoolInv, PoolTypeOK, LinksKnown, Handled, CallKeepsServer
<1> QED
  BY <1>1, PoolInvariance, PTL

\* The pool keeps its ranges and its cap, and each call its server.
THEOREM PoolSound == PoolSpec => []PoolIsSound
<1>1. PoolInv => PoolTypeOK
  BY DEF PoolInv
<1> QED
  BY <1>1, PoolInvariance, CapIsKept, CallsKeepServers, PTL DEF PoolIsSound

-----------------------------------------------------------------------------
(***************************************************************************)
(* The client of a language server. It is started once and never replaced, *)
(* so what it was told it still knows.                                     *)
(***************************************************************************)

Steps == {"client", "start", "open", "didOpen", "opened", "touch", "didChange",
          "request", "wait", "over"}

\* Every variable the argument speaks of stays in its range.
LspTypes ==
  /\ client \in {"none", "starting", "up", "eof", "garbled"}
  /\ step \in [LspCalls -> Steps]
  /\ nextId \in Nat \ {0}
  /\ id \in [LspCalls -> Nat]
  /\ got \in [LspCalls -> [from : Nat, says : Says \cup {"nothing"}]]
  /\ opened \subseteq Documents /\ told \subseteq Documents

\* One call starts the client, and until it is up the others wait for it.
OneStarts ==
  /\ \A t \in LspCalls : step[t] = "start" => client = "starting"
  /\ \A t, u \in LspCalls : step[t] = "start" /\ step[u] = "start" => t = u
  /\ client \in {"none", "starting"}
       => opened = {} /\ \A t \in LspCalls : step[t] \in {"client", "start", "over"}

\* A living server was told of every document in the map of opened ones, and of
\* those that calls are about to put there or ask of.
ServerKnows ==
  client = "up" =>
    /\ opened \subseteq told
    /\ \A t \in LspCalls :
         step[t] \in {"opened", "touch", "didChange", "request", "wait"}
           => Doc(t) \in told

\* An answer is that of the last request.
AnswersFit ==
  \A t \in LspCalls : step[t] = "wait" /\ got[t] # Nil => got[t].from = id[t]

\* The inductive invariant.
LspInv == LspTypes /\ OneStarts /\ ServerKnows /\ AnswersFit

\* Nothing is asked, opened or told before the client is started.
LEMMA LspStartsRight == LspInit => LspInv
  BY DEF LspInit, LspInv, LspTypes, OneStarts, ServerKnows, AnswersFit, Steps,
     Says,
    Nil

\* Every step keeps the variables in their ranges.
LEMMA LspTypesKept ==
  ASSUME LspInv, [LspNext]_lspVars
  PROVE  LspTypes'
<1>0. CASE UNCHANGED lspVars
  BY <1>0 DEF lspVars, callVars, serverVars, LspInv, LspTypes, Steps, Says, Nil,
     Documents, Doc
<1>1. ASSUME NEW t \in LspCalls, ClientFor(t) PROVE LspTypes'
  BY <1>1 DEF ClientFor, StepTo, callVars, serverVars, LspInv, LspTypes, Steps,
     Says, Nil, Documents, Doc
<1>2. ASSUME NEW t \in LspCalls, Spawned(t) PROVE LspTypes'
  BY <1>2 DEF Spawned, StepTo, callVars, serverVars, LspInv, LspTypes, Steps,
     Says, Nil, Documents, Doc
<1>3. ASSUME NEW t \in LspCalls, OpenDocument(t) PROVE LspTypes'
  BY <1>3 DEF OpenDocument, StepTo, callVars, serverVars, LspInv, LspTypes,
     Steps, Says, Nil, Documents, Doc
<1>4. ASSUME NEW t \in LspCalls, DidOpen(t) PROVE LspTypes'
  BY <1>4 DEF DidOpen, StepTo, callVars, serverVars, LspInv, LspTypes, Steps,
     Says, Nil, Documents, Doc
<1>5. ASSUME NEW t \in LspCalls, Opened(t) PROVE LspTypes'
  BY <1>5 DEF Opened, StepTo, callVars, serverVars, LspInv, LspTypes, Steps,
     Says, Nil, Documents, Doc
<1>6. ASSUME NEW t \in LspCalls, TouchDocument(t) PROVE LspTypes'
  BY <1>6 DEF TouchDocument, StepTo, callVars, serverVars, LspInv, LspTypes,
     Steps, Says, Nil, Documents, Doc
<1>7. ASSUME NEW t \in LspCalls, DidChange(t) PROVE LspTypes'
  BY <1>7 DEF DidChange, StepTo, callVars, serverVars, LspInv, LspTypes, Steps,
     Says, Nil, Documents, Doc
<1>8. ASSUME NEW t \in LspCalls, Request(t) PROVE LspTypes'
  BY <1>8 DEF Request, StepTo, callVars, serverVars, LspInv, LspTypes, Steps,
     Says, Nil, Documents, Doc
<1>9. ASSUME NEW t \in LspCalls, Answered(t) PROVE LspTypes'
  BY <1>9 DEF Answered, Outcome, StepTo, callVars, serverVars, LspInv, LspTypes,
     Steps, Says, Nil, Documents, Doc
<1>10. ASSUME NEW t \in LspCalls, TimedOut(t) PROVE LspTypes'
  BY <1>10 DEF TimedOut, Outcome, StepTo, callVars, serverVars, LspInv,
     LspTypes, Steps, Says, Nil, Documents, Doc
<1>11. ASSUME NEW i \in 1..(nextId - 1), Reply(i) PROVE LspTypes'
  BY <1>11 DEF Reply, Deliver, Message, Reads, callVars, serverVars, LspInv,
     LspTypes, Steps, Says, Nil, Documents, Doc
<1>12. ASSUME NEW i \in 1..(nextId - 1), ServerAsks(i) PROVE LspTypes'
  BY <1>12 DEF ServerAsks, Reads, callVars, serverVars, LspInv, LspTypes, Steps,
     Says, Nil, Documents, Doc
<1>13. CASE AnswerServer
  BY <1>13 DEF AnswerServer, callVars, serverVars, LspInv, LspTypes, Steps,
     Says, Nil, Documents, Doc
<1>14. CASE Exit
  BY <1>14 DEF Exit, callVars, serverVars, LspInv, LspTypes, Steps, Says, Nil,
     Documents, Doc
<1>15. CASE Garble
  BY <1>15 DEF Garble, Message, Reads, callVars, serverVars, LspInv, LspTypes,
     Steps, Says, Nil, Documents, Doc
<1> QED
  BY <1>0, <1>1, <1>2, <1>3, <1>4, <1>5, <1>6, <1>7, <1>8, <1>9, <1>10, <1>11,
     <1>12, <1>13, <1>14, <1>15 DEF LspNext, LspCall

\* client_for holds the mutex of the clients while it starts one.
LEMMA OneStillStarts ==
  ASSUME LspInv, [LspNext]_lspVars
  PROVE  OneStarts'
<1>0. CASE UNCHANGED lspVars
  BY <1>0 DEF lspVars, callVars, serverVars, LspInv, OneStarts, Steps
<1>1. ASSUME NEW t \in LspCalls, ClientFor(t) PROVE OneStarts'
  BY <1>1 DEF ClientFor, StepTo, callVars, serverVars, LspInv, LspTypes,
     OneStarts, Steps
<1>2. ASSUME NEW t \in LspCalls, Spawned(t) PROVE OneStarts'
  BY <1>2 DEF Spawned, StepTo, callVars, serverVars, LspInv, LspTypes,
     OneStarts, Steps
<1>3. ASSUME NEW t \in LspCalls, OpenDocument(t) PROVE OneStarts'
  BY <1>3 DEF OpenDocument, StepTo, callVars, serverVars, LspInv, LspTypes,
     OneStarts, Steps
<1>4. ASSUME NEW t \in LspCalls, DidOpen(t) PROVE OneStarts'
  BY <1>4 DEF DidOpen, StepTo, callVars, serverVars, LspInv, LspTypes,
     OneStarts, Steps
<1>5. ASSUME NEW t \in LspCalls, Opened(t) PROVE OneStarts'
  BY <1>5 DEF Opened, StepTo, callVars, serverVars, LspInv, LspTypes, OneStarts,
     Steps
<1>6. ASSUME NEW t \in LspCalls, TouchDocument(t) PROVE OneStarts'
  BY <1>6 DEF TouchDocument, StepTo, callVars, serverVars, LspInv, LspTypes,
     OneStarts, Steps
<1>7. ASSUME NEW t \in LspCalls, DidChange(t) PROVE OneStarts'
  BY <1>7 DEF DidChange, StepTo, callVars, serverVars, LspInv, LspTypes,
     OneStarts, Steps
<1>8. ASSUME NEW t \in LspCalls, Request(t) PROVE OneStarts'
  BY <1>8 DEF Request, StepTo, callVars, serverVars, LspInv, LspTypes,
     OneStarts, Steps
<1>9. ASSUME NEW t \in LspCalls, Answered(t) PROVE OneStarts'
  BY <1>9 DEF Answered, Outcome, StepTo, callVars, serverVars, LspInv, LspTypes,
     OneStarts, Steps
<1>10. ASSUME NEW t \in LspCalls, TimedOut(t) PROVE OneStarts'
  BY <1>10 DEF TimedOut, Outcome, StepTo, callVars, serverVars, LspInv,
     LspTypes, OneStarts, Steps
<1>11. ASSUME NEW i \in 1..(nextId - 1), Reply(i) PROVE OneStarts'
  BY <1>11 DEF Reply, Deliver, Message, Reads, callVars, serverVars, LspInv,
     LspTypes, OneStarts, Steps
<1>12. ASSUME NEW i \in 1..(nextId - 1), ServerAsks(i) PROVE OneStarts'
  BY <1>12 DEF ServerAsks, Reads, callVars, serverVars, LspInv, LspTypes,
     OneStarts, Steps
<1>13. CASE AnswerServer
  BY <1>13 DEF AnswerServer, callVars, serverVars, LspInv, LspTypes, OneStarts,
     Steps
<1>14. CASE Exit
  BY <1>14 DEF Exit, callVars, serverVars, LspInv, LspTypes, OneStarts, Steps
<1>15. CASE Garble
  BY <1>15 DEF Garble, Message, Reads, callVars, serverVars, LspInv, LspTypes,
     OneStarts, Steps
<1> QED
  BY <1>0, <1>1, <1>2, <1>3, <1>4, <1>5, <1>6, <1>7, <1>8, <1>9, <1>10, <1>11,
     <1>12, <1>13, <1>14, <1>15 DEF LspNext, LspCall

\* The map gets a document when the server was told; a server that has ended is
\* not replaced.
LEMMA ServerStillKnows ==
  ASSUME LspInv, [LspNext]_lspVars
  PROVE  ServerKnows'
<1>0. CASE UNCHANGED lspVars
  BY <1>0 DEF lspVars, callVars, serverVars, LspInv, ServerKnows, OneStarts,
     Doc, Documents, TakesIn
<1>1. ASSUME NEW t \in LspCalls, ClientFor(t) PROVE ServerKnows'
  BY <1>1 DEF ClientFor, StepTo, callVars, serverVars, LspInv, LspTypes,
     ServerKnows, OneStarts, Doc, Documents, TakesIn
<1>2. ASSUME NEW t \in LspCalls, Spawned(t) PROVE ServerKnows'
  BY <1>2 DEF Spawned, StepTo, callVars, serverVars, LspInv, LspTypes,
     ServerKnows, OneStarts, Doc, Documents, TakesIn
<1>3. ASSUME NEW t \in LspCalls, OpenDocument(t) PROVE ServerKnows'
  BY <1>3 DEF OpenDocument, StepTo, callVars, serverVars, LspInv, LspTypes,
     ServerKnows, OneStarts, Doc, Documents, TakesIn
<1>4. ASSUME NEW t \in LspCalls, DidOpen(t) PROVE ServerKnows'
  BY <1>4 DEF DidOpen, StepTo, callVars, serverVars, LspInv, LspTypes,
     ServerKnows, OneStarts, Doc, Documents, TakesIn
<1>5. ASSUME NEW t \in LspCalls, Opened(t) PROVE ServerKnows'
  BY <1>5 DEF Opened, StepTo, callVars, serverVars, LspInv, LspTypes,
     ServerKnows, OneStarts, Doc, Documents, TakesIn
<1>6. ASSUME NEW t \in LspCalls, TouchDocument(t) PROVE ServerKnows'
  BY <1>6 DEF TouchDocument, StepTo, callVars, serverVars, LspInv, LspTypes,
     ServerKnows, OneStarts, Doc, Documents, TakesIn
<1>7. ASSUME NEW t \in LspCalls, DidChange(t) PROVE ServerKnows'
  BY <1>7 DEF DidChange, StepTo, callVars, serverVars, LspInv, LspTypes,
     ServerKnows, OneStarts, Doc, Documents, TakesIn
<1>8. ASSUME NEW t \in LspCalls, Request(t) PROVE ServerKnows'
  BY <1>8 DEF Request, StepTo, callVars, serverVars, LspInv, LspTypes,
     ServerKnows, OneStarts, Doc, Documents, TakesIn
<1>9. ASSUME NEW t \in LspCalls, Answered(t) PROVE ServerKnows'
  BY <1>9 DEF Answered, Outcome, StepTo, callVars, serverVars, LspInv, LspTypes,
     ServerKnows, OneStarts, Doc, Documents, TakesIn
<1>10. ASSUME NEW t \in LspCalls, TimedOut(t) PROVE ServerKnows'
  BY <1>10 DEF TimedOut, Outcome, StepTo, callVars, serverVars, LspInv,
     LspTypes, ServerKnows, OneStarts, Doc, Documents, TakesIn
<1>11. ASSUME NEW i \in 1..(nextId - 1), Reply(i) PROVE ServerKnows'
  BY <1>11 DEF Reply, Deliver, Message, Reads, callVars, serverVars, LspInv,
     LspTypes, ServerKnows, OneStarts, Doc, Documents, TakesIn
<1>12. ASSUME NEW i \in 1..(nextId - 1), ServerAsks(i) PROVE ServerKnows'
  BY <1>12 DEF ServerAsks, Reads, callVars, serverVars, LspInv, LspTypes,
     ServerKnows, OneStarts, Doc, Documents, TakesIn
<1>13. CASE AnswerServer
  BY <1>13 DEF AnswerServer, callVars, serverVars, LspInv, LspTypes,
     ServerKnows, OneStarts, Doc, Documents, TakesIn
<1>14. CASE Exit
  BY <1>14 DEF Exit, callVars, serverVars, LspInv, LspTypes, ServerKnows,
     OneStarts, Doc, Documents, TakesIn
<1>15. CASE Garble
  BY <1>15 DEF Garble, Message, Reads, callVars, serverVars, LspInv, LspTypes,
     ServerKnows, OneStarts, Doc, Documents, TakesIn
<1> QED
  BY <1>0, <1>1, <1>2, <1>3, <1>4, <1>5, <1>6, <1>7, <1>8, <1>9, <1>10, <1>11,
     <1>12, <1>13, <1>14, <1>15 DEF LspNext, LspCall

\* The table is looked up by id, and a call that asks again forgets its answer.
LEMMA AnswersStillFit ==
  ASSUME LspInv, [LspNext]_lspVars
  PROVE  AnswersFit'
<1>0. CASE UNCHANGED lspVars
  BY <1>0 DEF lspVars, callVars, serverVars, LspInv, AnswersFit, Says, Nil
<1>1. ASSUME NEW t \in LspCalls, ClientFor(t) PROVE AnswersFit'
  BY <1>1 DEF ClientFor, StepTo, callVars, serverVars, LspInv, LspTypes,
     AnswersFit, Says, Nil
<1>2. ASSUME NEW t \in LspCalls, Spawned(t) PROVE AnswersFit'
  BY <1>2 DEF Spawned, StepTo, callVars, serverVars, LspInv, LspTypes,
     AnswersFit, Says, Nil
<1>3. ASSUME NEW t \in LspCalls, OpenDocument(t) PROVE AnswersFit'
  BY <1>3 DEF OpenDocument, StepTo, callVars, serverVars, LspInv, LspTypes,
     AnswersFit, Says, Nil
<1>4. ASSUME NEW t \in LspCalls, DidOpen(t) PROVE AnswersFit'
  BY <1>4 DEF DidOpen, StepTo, callVars, serverVars, LspInv, LspTypes,
     AnswersFit, Says, Nil
<1>5. ASSUME NEW t \in LspCalls, Opened(t) PROVE AnswersFit'
  BY <1>5 DEF Opened, StepTo, callVars, serverVars, LspInv, LspTypes,
     AnswersFit, Says, Nil
<1>6. ASSUME NEW t \in LspCalls, TouchDocument(t) PROVE AnswersFit'
  BY <1>6 DEF TouchDocument, StepTo, callVars, serverVars, LspInv, LspTypes,
     AnswersFit, Says, Nil
<1>7. ASSUME NEW t \in LspCalls, DidChange(t) PROVE AnswersFit'
  BY <1>7 DEF DidChange, StepTo, callVars, serverVars, LspInv, LspTypes,
     AnswersFit, Says, Nil
<1>8. ASSUME NEW t \in LspCalls, Request(t) PROVE AnswersFit'
  BY <1>8 DEF Request, StepTo, callVars, serverVars, LspInv, LspTypes,
     AnswersFit, Says, Nil
<1>9. ASSUME NEW t \in LspCalls, Answered(t) PROVE AnswersFit'
  BY <1>9 DEF Answered, Outcome, StepTo, callVars, serverVars, LspInv, LspTypes,
     AnswersFit, Says, Nil
<1>10. ASSUME NEW t \in LspCalls, TimedOut(t) PROVE AnswersFit'
  BY <1>10 DEF TimedOut, Outcome, StepTo, callVars, serverVars, LspInv,
     LspTypes, AnswersFit, Says, Nil
<1>11. ASSUME NEW i \in 1..(nextId - 1), Reply(i) PROVE AnswersFit'
  BY <1>11 DEF Reply, Deliver, Message, Reads, callVars, serverVars, LspInv,
     LspTypes, AnswersFit, Says, Nil
<1>12. ASSUME NEW i \in 1..(nextId - 1), ServerAsks(i) PROVE AnswersFit'
  BY <1>12 DEF ServerAsks, Reads, callVars, serverVars, LspInv, LspTypes,
     AnswersFit, Says, Nil
<1>13. CASE AnswerServer
  BY <1>13 DEF AnswerServer, callVars, serverVars, LspInv, LspTypes, AnswersFit,
     Says, Nil
<1>14. CASE Exit
  BY <1>14 DEF Exit, callVars, serverVars, LspInv, LspTypes, AnswersFit, Says, Nil
<1>15. CASE Garble
  BY <1>15 DEF Garble, Message, Reads, callVars, serverVars, LspInv, LspTypes,
     AnswersFit, Says, Nil
<1> QED
  BY <1>0, <1>1, <1>2, <1>3, <1>4, <1>5, <1>6, <1>7, <1>8, <1>9, <1>10, <1>11,
     <1>12, <1>13, <1>14, <1>15 DEF LspNext, LspCall

\* LspInv holds throughout.
THEOREM LspInvariance == LspSpec => []LspInv
<1>1. LspInv /\ [LspNext]_lspVars => LspInv'
  BY LspTypesKept, OneStillStarts, ServerStillKnows, AnswersStillFit DEF LspInv
<1> QED
  BY <1>1, LspStartsRight, PTL DEF LspSpec

\* An answer is that of its question, and a living server has been told of every
\* document it is asked of, however calls race to open it.
THEOREM LspSound == LspSpec => []LspIsSound
<1>1. LspInv => LspIsSound
  BY DEF LspInv, ServerKnows, AnswersFit, LspIsSound
<1> QED
  BY <1>1, LspInvariance, PTL
=============================================================================
