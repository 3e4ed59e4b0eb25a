------------------------------- MODULE Shell --------------------------------
(***************************************************************************)
(* One foreground call of the bash tool (run_command_raw): the shell in a  *)
(* process group of its own, the processes it leaves behind, the pipe they *)
(* inherit, the task that reads it, and the loop that waits for the end of *)
(* both.  Output is counted; stdout and stderr are one pipe.  The end of a *)
(* process, what it writes and whom it starts are its own affair.          *)
(***************************************************************************)
EXTENDS Naturals, FiniteSets

CONSTANTS
  Kin,        \* processes that the command may start
  MaxOutput,  \* bound on the chunks written
  MaxQueue    \* capacity of the channel (128)

ASSUME ShellAssumption == MaxOutput \in Nat /\ MaxQueue \in Nat

VARIABLES
  shell,     \* "none" (no call), "lives", "zombie", "reaped"
  kin,       \* each process: "unborn", "group", "away" (own session), "dead"
  holders,   \* those of Kin that inherited the pipe
  wrote,     \* chunks written so far
  pipe,      \* chunks in the pipe
  channel,   \* chunks in the channel
  output,    \* chunks in the output
  reader,    \* the task of read_chunks_tagged: "reads", "ended"
  open,      \* pipes_open
  status,    \* the exit status is known
  ending,    \* "none", "timeout", "cancel"
  waiting    \* the loop: "loop", "killed", "done" and how: [at, how]

shellVars == <<shell, kin, holders, wrote, pipe, channel, output, reader, open,
               status, ending, waiting>>
processVars == <<shell, kin, holders, wrote>>
awaiterVars == <<channel, output, open, status, ending, waiting>>

ShellStarts(s) ==
  /\ shell = s /\ kin = [k \in Kin |-> "unborn"] /\ holders = {}
  /\ wrote = 0 /\ pipe = 0 /\ channel = 0 /\ output = 0
  /\ reader = "reads" /\ open = TRUE /\ status = FALSE /\ ending = "none"
  /\ waiting = [at |-> "loop", how |-> "none"]

ShellInit == ShellStarts("lives")

Alive(k) == kin[k] \in {"group", "away"}
Writers == {k \in holders : Alive(k)}

---------------------------------------------------------------------------
(* The command. *)

\* The shell or a process with the pipe writes.
Output ==
  /\ shell = "lives" \/ Writers # {}
  /\ wrote < MaxOutput
  /\ wrote' = wrote + 1 /\ pipe' = pipe + 1
  /\ UNCHANGED <<shell, kin, holders, reader, awaiterVars>>

\* `cmd &`: a process of the group, with the pipe or redirected.
Fork(k) ==
  /\ shell = "lives" /\ kin[k] = "unborn"
  /\ kin' = [kin EXCEPT ![k] = "group"]
  /\ holders' \in {holders, holders \union {k}}
  /\ UNCHANGED <<shell, wrote, pipe, reader, awaiterVars>>

\* `setsid cmd`, a daemon.
Leaves(k) ==
  /\ kin[k] = "group" /\ kin' = [kin EXCEPT ![k] = "away"]
  /\ UNCHANGED <<shell, holders, wrote, pipe, reader, awaiterVars>>

Dies(k) ==
  /\ Alive(k) /\ kin' = [kin EXCEPT ![k] = "dead"]
  /\ UNCHANGED <<shell, holders, wrote, pipe, reader, awaiterVars>>

ShellExits ==
  /\ shell = "lives" /\ shell' = "zombie"
  /\ UNCHANGED <<kin, holders, wrote, pipe, reader, awaiterVars>>

\* The reader of the pipe: into the channel when there is room, until nobody
\* holds the other end, or until the call is over and the channel is gone.
ReadsPipe ==
  /\ reader = "reads" /\ pipe > 0 /\ waiting.at # "done"
  /\ channel < MaxQueue
  /\ pipe' = pipe - 1 /\ channel' = channel + 1
  /\ UNCHANGED <<processVars, output, reader, open, status, ending, waiting>>

ReaderEnds ==
  /\ reader = "reads"
  /\ \/ pipe = 0 /\ shell \in {"zombie", "reaped"} /\ Writers = {}
     \/ pipe > 0 /\ waiting.at = "done"
  /\ reader' = "ended"
  /\ UNCHANGED <<processVars, pipe, awaiterVars>>

---------------------------------------------------------------------------
(* The loop. *)

\* while pipes_open || status.is_none()
ReadyEarly == status
Ready == ~open /\ status
Loops == shell # "none" /\ waiting.at = "loop" /\ ~Ready

Receive ==
  /\ Loops /\ open /\ channel > 0
  /\ channel' = channel - 1 /\ output' = output + 1
  /\ UNCHANGED <<processVars, pipe, reader, open, status, ending, waiting>>

Closed ==
  /\ Loops /\ open /\ channel = 0 /\ reader = "ended"
  /\ open' = FALSE
  /\ UNCHANGED <<processVars, pipe, channel, output, reader, status, ending,
                 waiting>>

Wait ==
  /\ Loops /\ ~status /\ shell = "zombie"
  /\ shell' = "reaped" /\ status' = TRUE
  /\ UNCHANGED <<kin, holders, wrote, pipe, channel, output, reader, open, ending,
                 waiting>>

\* The deadline passes, the token is cancelled.
IsAsked(what) ==
  /\ shell # "none" /\ ending = "none" /\ waiting.at = "loop"
  /\ ending' = what
  /\ UNCHANGED <<processVars, pipe, channel, output, reader, open, status,
                 waiting>>

\* kill_tree: SIGKILL to the group of the shell, whatever is left of it.
KillTree ==
  /\ shell' = IF shell = "lives" THEN "zombie" ELSE shell
  /\ kin' = [k \in Kin |-> IF kin[k] = "group" THEN "dead" ELSE kin[k]]

Abort ==
  /\ Loops /\ ending # "none"
  /\ KillTree
  /\ waiting' = [at |-> "killed", how |-> ending]
  /\ UNCHANGED <<holders, wrote, pipe, channel, output, reader, open, status,
                 ending>>

\* child.wait() returns at once for a shell that has been waited for.
WaitForKilled ==
  /\ waiting.at = "killed" /\ shell \in {"zombie", "reaped"}
  /\ shell' = "reaped" /\ waiting' = [waiting EXCEPT !.at = "done"]
  /\ channel' = 0
  /\ UNCHANGED <<kin, holders, wrote, pipe, output, reader, open, status, ending>>

Finish ==
  /\ shell # "none" /\ waiting.at = "loop" /\ Ready
  /\ waiting' = [at |-> "done", how |-> "natural"]
  /\ UNCHANGED <<processVars, pipe, channel, output, reader, open, status,
                 ending>>

ShellNext ==
  \/ Output \/ ShellExits
  \/ \E k \in Kin : Fork(k) \/ Leaves(k) \/ Dies(k)
  \/ ReadsPipe \/ ReaderEnds
  \/ Receive \/ Closed \/ Wait \/ Abort \/ WaitForKilled \/ Finish
  \/ \E what \in {"timeout", "cancel"} : IsAsked(what)

ShellSpec == ShellInit /\ [][ShellNext]_shellVars

\* The task of the call is scheduled while it has something to do.
ShellProgress == Abort \/ WaitForKilled \/ Finish

ShellOver == waiting.at = "done" \/ shell = "none"

---------------------------------------------------------------------------
(* Properties. *)

ShellTypeOK ==
  /\ shell \in {"none", "lives", "zombie", "reaped"}
  /\ kin \in [Kin -> {"unborn", "group", "away", "dead"}]
  /\ holders \subseteq Kin
  /\ pipe \in 0..MaxOutput /\ channel \in 0..MaxQueue
  /\ ending \in {"none", "timeout", "cancel"}

\* When a call returns the shell has been waited for; after a timeout or a
\* cancel nothing of its group lives; one that ends by itself returns all that
\* was written, by whoever holds its pipe, and nobody can write any more.
ShellIsReaped ==
  /\ ShellTypeOK
  /\ waiting.at = "done" =>
       /\ shell = "reaped"
       /\ waiting.how # "natural" => \A k \in Kin : kin[k] # "group"
       /\ waiting.how = "natural" => output = wrote /\ Writers = {}

\* A call that is ending to end ends, whatever its command has left behind.
AskedCallsEnd == ending # "none" ~> ShellOver
=============================================================================
