------------------------------- MODULE Bridge -------------------------------
(***************************************************************************)
(* The raw bridge between clients of the orchestrator and one instance:    *)
(* `pirs-orchestrator rpc-stream` (pirs-orchestrator/src/main.rs), the     *)
(* server's end of it (server.rs, bridge_stream) and the pipes to the      *)
(* child, which the bridges share (rpc_process.rs).                        *)
(*                                                                         *)
(* A bridge has two tasks beside its own loop: one reads lines from the    *)
(* socket, the other takes them one at a time, each to its answer.  What a *)
(* client prints is left out, but for what it does to the line it is just  *)
(* reading from its input: see Show.                                       *)
(***************************************************************************)
EXTENDS Naturals, Sequences, FiniteSets

CONSTANTS
  Streams,   \* clients that attach to the instance
  Ids,       \* ids that clients give their commands
  LineKinds, \* what each of them may type: see TypeLine
  MaxLines,  \* bound: lines that each of them types
  MaxInputs, \* bound: lines that all of them type, and events of the child
  MaxEvents  \* bound: events of the child, and commands that it answers twice

NoId == "none"

ASSUME BridgeAssumption ==
  /\ NoId \notin Ids /\ MaxEvents \in Nat
  /\ Ids \cap (Streams \X Nat) = {}   \* nor is an id of theirs a generated one
  /\ MaxLines \in [Streams -> Nat] /\ MaxInputs \in Nat
  /\ LineKinds \in [Streams -> SUBSET {"command", "raw", "badId"}]

VARIABLES
  client,   \* new, waiting for RpcReady, on, gone
  typed,    \* the lines each client has sent: kind, id, and whether it is whole
  input,    \* the line a client is reading: not begun, partly read, or torn
  lines,    \* lines on their way to the command task (socket, line_rx)
  bridge,   \* none, subscribed, open, closed
  task,     \* where the command task is
  cmd,      \* the line it is at
  oneshot,  \* what the request it waits for has been sent
  events,   \* how much is in the subscription of each bridge
  awaited,  \* RpcProcess::pending: the requests that have a sender in it
  stub,     \* part of a line is in the pipe, and nobody will write its rest
  inbox,    \* lines the child has not read
  out,      \* what the child has written and the reader task has not read
  instance, \* its process: runs, exited, reaped
  emitted,  \* how many there were of those two
  owed,     \* what was said since a client asked to attach and has not been passed
            \* on to it (for checking)
  replies   \* what each command task has replied, in its order

clientVars == <<client, typed, input>>
taskVars == <<task, cmd, oneshot, replies>>
fanVars == <<events, owed>>
pipeVars == <<stub, inbox>>
instanceVars == <<out, instance, emitted>>
bridgeVars == <<clientVars, lines, bridge, taskVars, fanVars, awaited,
                pipeVars, instanceVars>>

BridgeInit ==
  /\ client = [c \in Streams |-> "new"]
  /\ typed = [c \in Streams |-> <<>>] /\ input = [c \in Streams |-> "none"]
  /\ lines = [c \in Streams |-> <<>>]
  /\ bridge = [c \in Streams |-> "none"]
  /\ task = [c \in Streams |-> "idle"] /\ cmd = [c \in Streams |-> 0]
  /\ oneshot = [c \in Streams |-> <<>>] /\ replies = [c \in Streams |-> <<>>]
  /\ events = [c \in Streams |-> 0] /\ owed = [c \in Streams |-> 0]
  /\ awaited = {} /\ stub = FALSE
  /\ inbox = <<>> /\ out = <<>>
  /\ instance = "runs" /\ emitted = 0

-----------------------------------------------------------------------------
(* Lines and messages *)

\* The id that `request` gives a command without one.
GeneratedId(c, n) == <<c, n>>

IdOf(r) ==
  LET id == typed[r[1]][r[2]].id
  IN  IF id = NoId THEN GeneratedId(r[1], r[2]) ELSE id

\* A request is a client and the number of its line.  The child's response to
\* it carries its id; the reply to a line that it cannot read carries none.
Response(r) == [kind |-> "response", of |-> r]
Anonymous == [kind |-> "response", of |-> <<>>]
Event(n) == [kind |-> "event", of |-> <<n>>]
Refusal == [kind |-> "error", of |-> <<>>]

\* The command task's error, after which it ends.
Refuse(c) ==
  /\ replies' = [replies EXCEPT ![c] = Append(@, Refusal)]
  /\ task' = [task EXCEPT ![c] = "ended"]

-----------------------------------------------------------------------------
(* Attaching: handle_connection, for an RpcStream *)

\* open_stream subscribes the bridge ...
OpenStream(c) ==
  /\ client[c] = "new" /\ client' = [client EXCEPT ![c] = "wait"]
  /\ bridge' = [bridge EXCEPT ![c] = "subscribed"]
  /\ UNCHANGED <<typed, input, lines, taskVars, fanVars, awaited,
                 pipeVars, instanceVars>>

\* Variant: the bridge subscribes when RpcReady has been written.
RpcReadyFirst(c) ==
  /\ bridge[c] = "subscribed" /\ client[c] # "gone"
  /\ bridge' = [bridge EXCEPT ![c] = "open"]
  /\ client' = [client EXCEPT ![c] = "on"]
  /\ events' = [events EXCEPT ![c] = 0]
  /\ UNCHANGED <<typed, input, lines, taskVars, owed, awaited, pipeVars,
                 instanceVars>>

\* ... and then RpcReady is written, unless the client has left.
RpcReady(c) ==
  /\ bridge[c] = "subscribed"
  /\ IF client[c] = "gone"
     THEN /\ bridge' = [bridge EXCEPT ![c] = "closed"]
          /\ events' = [events EXCEPT ![c] = 0]
          /\ owed' = [owed EXCEPT ![c] = 0]
          /\ UNCHANGED client
     ELSE /\ bridge' = [bridge EXCEPT ![c] = "open"]
          /\ client' = [client EXCEPT ![c] = "on"]
          /\ UNCHANGED fanVars
  /\ UNCHANGED <<typed, input, lines, taskVars, awaited, pipeVars, instanceVars>>

-----------------------------------------------------------------------------
(* The client: rpc_stream *)

Inputs ==
  emitted + Cardinality(UNION {{d} \X DOMAIN typed[d] : d \in Streams})

MayType(c) ==
  client[c] = "on" /\ Len(typed[c]) < MaxLines[c] /\ Inputs < MaxInputs

\* A line of its input comes in pieces: one is read ...
TypePart(c) ==
  /\ MayType(c)
  /\ input[c] = "none" /\ input' = [input EXCEPT ![c] = "partly"]
  /\ UNCHANGED <<client, typed, lines, bridge, taskVars, fanVars,
                 awaited, pipeVars, instanceVars>>

\* ... and then the rest; it goes to the socket.  When the bridge has closed
\* the write fails, and the client ends, whatever it has not printed yet.
TypeLine(c) ==
  /\ MayType(c)
  /\ input' = [input EXCEPT ![c] = "none"]
  /\ IF bridge[c] = "open"
     THEN \E k \in LineKinds[c], id \in Ids \cup {NoId} :
            /\ k = "command" \/ id = NoId
            /\ typed' = [typed EXCEPT ![c] =
                 Append(@, [kind |-> k, id |-> id, whole |-> input[c] # "torn"])]
            /\ lines' = [lines EXCEPT ![c] = Append(@, Len(typed[c]) + 1)]
            /\ UNCHANGED client
     ELSE /\ client' = [client EXCEPT ![c] = "gone"]
          /\ UNCHANGED <<typed, lines>>
  /\ UNCHANGED <<bridge, taskVars, fanVars, awaited, pipeVars,
                 instanceVars>>

\* A line from the socket, read as it comes.  It drops the other branch of the
\* select, and with it what that branch had read of the client's own line: the
\* rest will pass for a line.
AfterShow(c) == IF input[c] = "partly" THEN "torn" ELSE input[c]
Show(c) == input' = [input EXCEPT ![c] = AfterShow(c)]

\* The socket has ended, or the client is interrupted.
ClientEnds(c) ==
  /\ client[c] \in {"wait", "on"} /\ client' = [client EXCEPT ![c] = "gone"]
  /\ UNCHANGED <<typed, input, lines, bridge, taskVars, fanVars,
                 awaited, pipeVars, instanceVars>>

-----------------------------------------------------------------------------
(* The command task of a bridge, and RpcProcess::request *)

\* The next line.  One that is no JSON is passed over without a word; an id
\* that is not a string is an error; a command is registered under its id, in
\* the place of another that has the same.
Take(c) ==
  LET n == Head(lines[c]) l == typed[c][n] IN
  /\ bridge[c] = "open" /\ task[c] = "idle" /\ lines[c] # <<>>
  /\ lines' = [lines EXCEPT ![c] = Tail(@)]
  /\ cmd' = [cmd EXCEPT ![c] = n]
  /\ oneshot' = [oneshot EXCEPT ![c] = <<>>]
  /\ \/ ~l.whole /\ UNCHANGED <<task, replies, awaited>>
     \/ l.whole /\ l.kind = "badId" /\ Refuse(c) /\ UNCHANGED awaited
     \/ /\ l.whole /\ l.kind # "badId"
        /\ task' = [task EXCEPT ![c] = "write"]
        /\ awaited' =
             IF l.kind = "raw" THEN awaited
             ELSE {r \in awaited : IdOf(r) # IdOf(<<c, n>>)} \cup {<<c, n>>}
        /\ UNCHANGED replies
  /\ UNCHANGED <<clientVars, bridge, fanVars, pipeVars, instanceVars>>

\* The mutex of the child's stdin is held until the line is in the pipe.  The
\* write fails when the child is dead; the error of a raw line is ignored.  A
\* line behind a stub ends up in one line with it.
Write(c) ==
  /\ task[c] = "write"
  /\ \/ /\ instance = "runs"
        /\ inbox' = Append(inbox, IF stub THEN <<>> ELSE <<c, cmd[c]>>)
        /\ stub' = FALSE
        /\ task' = [task EXCEPT ![c] =
                      IF typed[c][cmd[c]].kind = "raw" THEN "idle" ELSE "wait"]
        /\ UNCHANGED replies
     \/ /\ instance # "runs" /\ UNCHANGED <<inbox, stub>>
        /\ IF typed[c][cmd[c]].kind = "raw"
           THEN /\ task' = [task EXCEPT ![c] = "idle"]
                /\ UNCHANGED replies
           ELSE Refuse(c)
  /\ UNCHANGED <<clientVars, lines, bridge, cmd, oneshot, fanVars, awaited,
                 instanceVars>>

\* The instance has exited, another request has taken the place of this one
\* (the same error), or 30 seconds have passed: the sender stays in pending.
Fails(c) ==
  /\ task[c] = "wait" /\ oneshot[c] \in {<<>>, <<Refusal>>}
  /\ Refuse(c)
  /\ UNCHANGED <<clientVars, lines, bridge, cmd, oneshot, fanVars, awaited,
                 pipeVars, instanceVars>>

\* The reader task has come to the end of the socket, and line_rx to its own.
LinesEnd(c) ==
  /\ bridge[c] = "open" /\ task[c] = "idle"
  /\ lines[c] = <<>> /\ client[c] = "gone"
  /\ task' = [task EXCEPT ![c] = "ended"]
  /\ UNCHANGED <<clientVars, lines, bridge, cmd, oneshot, replies,
                 fanVars, awaited, pipeVars, instanceVars>>

-----------------------------------------------------------------------------
(* The loop of bridge_stream *)

\* Its end aborts both tasks; one that is writing may leave part of its line,
\* and one that waits leaves its sender in pending.
Close(c) ==
  /\ bridge' = [bridge EXCEPT ![c] = "closed"]
  /\ events' = [events EXCEPT ![c] = 0] /\ owed' = [owed EXCEPT ![c] = 0]
  /\ lines' = [lines EXCEPT ![c] = <<>>]
  /\ task' = [task EXCEPT ![c] = "ended"]
  /\ stub' \in IF task[c] = "write" THEN {stub, TRUE} ELSE {stub}
  /\ UNCHANGED input

\* A write to a client that has left ends it.
ForwardEvent(c) ==
  /\ bridge[c] = "open" /\ events[c] > 0
  /\ IF client[c] = "gone" THEN Close(c)
     ELSE /\ events' = [events EXCEPT ![c] = @ - 1]
          /\ owed' = [owed EXCEPT ![c] = @ - 1]
          /\ Show(c)
          /\ UNCHANGED <<bridge, lines, task, stub>>
  /\ UNCHANGED <<client, typed, cmd, oneshot, replies, awaited, inbox,
                 instanceVars>>

\* So does that of a reply.  (It may wait in resp_rx first, which changes
\* nothing but the order of replies and events: a refusal is passed on as it is
\* made.)
Answered(c) ==
  /\ bridge[c] = "open" /\ task[c] = "wait"
  /\ oneshot[c] \notin {<<>>, <<Refusal>>}
  /\ replies' = [replies EXCEPT ![c] = Append(@, oneshot[c][1])]
  /\ IF client[c] = "gone" THEN Close(c)
     ELSE /\ task' = [task EXCEPT ![c] = "idle"]
          /\ Show(c)
          /\ UNCHANGED <<bridge, fanVars, lines, stub>>
  /\ UNCHANGED <<client, typed, cmd, oneshot, awaited, inbox, instanceVars>>

\* resp_rx is closed once the command task has ended.
RepliesEnd(c) ==
  /\ bridge[c] = "open" /\ task[c] = "ended"
  /\ Close(c)
  /\ UNCHANGED <<client, typed, cmd, oneshot, replies, awaited,
                 inbox, instanceVars>>

-----------------------------------------------------------------------------
(* The child (rpc_mode.rs), its reader task and its exit task *)

\* One line at a time; what is no JSON gets an answer without an id, and a
\* prompt that cannot begin is answered twice.  (An extension_ui_response is no
\* command of the child, and its answer is to a request that nobody made.)
ChildSays ==
  /\ instance = "runs" /\ inbox # <<>> /\ inbox' = Tail(inbox)
  /\ \/ Head(inbox) = <<>> /\ out' = Append(out, Anonymous)
        /\ UNCHANGED emitted
     \/ Head(inbox) # <<>> /\ out' = Append(out, Response(Head(inbox)))
        /\ UNCHANGED emitted
     \/ /\ Head(inbox) # <<>> /\ emitted < MaxEvents /\ emitted' = emitted + 1
        /\ out' = out \o <<Response(Head(inbox)), Response(Head(inbox))>>
  /\ UNCHANGED <<clientVars, lines, bridge, taskVars, fanVars, awaited,
                 stub, instance>>

ChildEmits ==
  /\ instance = "runs" /\ emitted < MaxEvents /\ Inputs < MaxInputs
  /\ emitted' = emitted + 1
  /\ out' = Append(out, Event(emitted'))
  /\ UNCHANGED <<clientVars, lines, bridge, taskVars, fanVars, awaited,
                 pipeVars, instance>>

ChildDies ==
  /\ instance = "runs" /\ instance' = "exited"
  /\ UNCHANGED <<clientVars, lines, bridge, taskVars, fanVars, awaited,
                 pipeVars, out, emitted>>

\* Where a message is passed on at once: nothing is before it.  (If it waited,
\* the end of the bridge could lose it, as it loses what is in a queue.)
Passing == {c \in Streams : /\ bridge[c] = "open" /\ client[c] # "gone"
                            /\ events[c] = 0}

\* The bridges whose receiver is alive.
Subscribed == {c \in Streams : bridge[c] \in {"subscribed", "open"}}

\* The request behind r is not over yet.
Awaits(r) == task[r[1]] \in {"write", "wait"} /\ cmd[r[1]] = r[2]

\* The reader task: a response goes to the request that is registered under its
\* id, if one is, anything else to every bridge.
ReadOut ==
  LET m == Head(out)
      match == IF m.kind = "event" \/ m = Anonymous THEN {}
               ELSE {r \in awaited : IdOf(r) = IdOf(m.of)}
  IN
  /\ out # <<>> /\ out' = Tail(out)
  /\ IF match # {}
     THEN /\ awaited' = awaited \ match
          /\ oneshot' = [c \in Streams |->
               IF \E r \in match : r[1] = c /\ Awaits(r) THEN <<m>>
               ELSE oneshot[c]]
          /\ UNCHANGED <<fanVars, input>>
     ELSE /\ events' = [c \in Streams |->
               IF c \in Subscribed \ Passing THEN events[c] + 1 ELSE events[c]]
          /\ owed' = [c \in Streams |->
               IF bridge[c] \in {"subscribed", "open"} /\ c \notin Passing
               THEN owed[c] + 1 ELSE owed[c]]
          /\ input' = [c \in Streams |->
               IF c \in Passing THEN AfterShow(c) ELSE input[c]]
          /\ UNCHANGED <<awaited, oneshot>>
  /\ UNCHANGED <<client, typed, lines, bridge, task, cmd, replies,
                 pipeVars, instance, emitted>>

\* The exit task drains pending; what the child still wrote may be unread.
ReapInstance ==
  /\ instance = "exited" /\ instance' = "reaped"
  /\ oneshot' = [c \in Streams |->
       IF \E r \in awaited : r[1] = c /\ Awaits(r) THEN <<Refusal>>
       ELSE oneshot[c]]
  /\ awaited' = {}
  /\ UNCHANGED <<clientVars, lines, bridge, task, cmd, replies,
                 fanVars, pipeVars, out, emitted>>

-----------------------------------------------------------------------------

BridgeStep(c) ==
  \/ RpcReady(c) \/ Take(c) \/ Write(c) \/ Answered(c)
  \/ Fails(c) \/ LinesEnd(c) \/ ForwardEvent(c) \/ RepliesEnd(c)

BridgeNext ==
  \/ \E c \in Streams :
       \/ OpenStream(c) \/ TypePart(c) \/ TypeLine(c)
       \/ ClientEnds(c) \/ BridgeStep(c)
  \/ ChildSays \/ ChildEmits \/ ChildDies
  \/ ReadOut \/ ReapInstance

\* The tasks of the daemon go on and its timer runs.  Neither the child nor a
\* client need do anything more; that the child's stdin takes a line is assumed.
BridgeProgress == ReadOut \/ ReapInstance \/ \E c \in Streams : BridgeStep(c)

BridgeSpec ==
  BridgeInit /\ [][BridgeNext]_bridgeVars /\ WF_bridgeVars(BridgeProgress)

-----------------------------------------------------------------------------
(* What a bridge promises. *)

\* The lines that call for a reply, among the first n.
Asks(c, n) == typed[c][n].whole /\ typed[c][n].kind # "raw"
Asked(c, n) == {m \in 1..n : Asks(c, m)}

\* Clients have given no id twice.
DistinctIds ==
  \A c, d \in Streams :
    \A n \in DOMAIN typed[c], m \in DOMAIN typed[d] :
      typed[c][n].id = typed[d][m].id /\ typed[c][n].id # NoId =>
        <<c, n>> = <<d, m>>

\* The replies of a bridge are to its client's own commands, one each and in
\* their order, and an error is the last of them, as long as ids are distinct:
\* whatever other clients ask at the same time, whatever was answered twice,
\* too late or by the exit of the child.
RepliesAreOwn ==
  DistinctIds =>
    \A c \in Streams : \A i \in DOMAIN replies[c] :
      \E n \in DOMAIN typed[c] :
        /\ Asks(c, n) /\ Cardinality(Asked(c, n)) = i
        /\ \/ replies[c][i] = Response(<<c, n>>)
           \/ replies[c][i] = Refusal /\ i = Len(replies[c])

\* A client that asked to attach misses nothing that the child says from then
\* on, while its bridge is there: it was passed on or is in its subscription.
NothingMissed ==
  \A c \in Streams : bridge[c] \in {"subscribed", "open"} => owed[c] = events[c]

\* A request that waits has its sender in pending, or has been sent something.
WaitersAreKnown ==
  DistinctIds => \A c \in Streams :
    task[c] = "wait" => <<c, cmd[c]>> \in awaited \/ oneshot[c] # <<>>

BridgeIsSound == RepliesAreOwn /\ NothingMissed /\ WaitersAreKnown

\* Every command that has reached a bridge is replied to, even when the child is
\* silent or dead, and the bridge of a client that has left does not stay.
StreamsEnd ==
  []<>(\A c \in Streams :
         bridge[c] \in {"subscribed", "open"} =>
           client[c] # "gone" /\ Len(replies[c]) = Cardinality(Asked(c, Len(typed[c]))))
=============================================================================
