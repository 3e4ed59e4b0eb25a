----------------------------- MODULE Completion -----------------------------
(***************************************************************************)
(* One completion, from the agent loop down to the provider: stream_once   *)
(* (pirs-agent/src/agent_loop/stream.rs) reads the events of a stream, the *)
(* RoutingProvider (pirs-ai/src/routing.rs) tries the targets of a model   *)
(* in order until one yields content, and each target is a task of the     *)
(* OpenAI-compatible or the Anthropic client (openai.rs, anthropic.rs)     *)
(* that posts the request, retries it, assembles the message and sends the *)
(* events over a channel.                                                  *)
(*                                                                         *)
(* A reply is text and at most one tool call, in pieces: text counts the   *)
(* pieces of text, args the pieces of the call (its head and its           *)
(* arguments), of which CallPieces make a whole.  A voice is one attempt   *)
(* of one target.  The server is honest: it ends a message only when it is *)
(* whole; but it may refuse, fail or close at any point, or stay silent.   *)
(* A channel holds 256 events in the code and has no bound here: a sender  *)
(* that waits for the reader sends the same events later.                  *)
(***************************************************************************)
EXTENDS Integers, Sequences, FiniteSets

CONSTANTS
  Routes,        \* the model specifications a behaviour may start with
  MaxRetries,    \* with_max_retries of the clients
  MaxText,       \* bound: the pieces of text of a reply
  MaxLag         \* bound: the events a task is ahead of its reader

Backends == [kind : {"openai", "anthropic"}, known : BOOLEAN, keyed : BOOLEAN]

ASSUME CompletionAssumption ==
  /\ Routes \subseteq [routed : BOOLEAN, pin : BOOLEAN,
                        serve : Seq(Backends), default : Backends]
  /\ MaxRetries \in Nat /\ MaxText \in Nat /\ MaxLag \in Nat

CallPieces == 2

VARIABLES
  targets,     \* targets_for(model): what the request may be served by
  routed,      \* the provider is a RoutingProvider
  cancelled,   \* the cancellation token of the run
  task,        \* the client task of each target
  queue,       \* the events each task has sent and nobody has read
  heard,       \* the target whose stream is read, 0 before the first
  stage,       \* where the reader is
  seen,        \* what it has read: voices shown, text, Error, Done
  reply        \* the assistant message stream_once returns

completionVars ==
  <<targets, routed, cancelled, task, queue, heard, stage, seen, reply>>

Indices == DOMAIN targets
Kind(i) == targets[i].kind
Good == {"stop", "tools", "length"}

Nothing == [reason |-> "none", text |-> 0, args |-> 0, err |-> FALSE,
            voice |-> <<0, 0>>, cut |-> FALSE]

NoTask == [pc |-> "none", posts |-> 0, tries |-> [post |-> 0, stream |-> 0],
           text |-> 0, args |-> 0, finish |-> "none", shown |-> FALSE,
           again |-> FALSE]

\* The members of s at the places in keep, in their order.
Selected(s, keep) ==
  [k \in 1..Cardinality(keep) |->
     s[CHOOSE i \in keep : Cardinality({j \in keep : j <= i}) = k]]

\* ModelSpec::parse, RoutingProvider::targets_for: a pin is served by its
\* backend, a portable name by the backends with keys, or by all of them when
\* none has one, an unknown name by the default provider.
TargetsFor(r) ==
  LET known == {i \in DOMAIN r.serve : r.serve[i].known}
      keyed == {i \in known : r.serve[i].keyed}
  IN CASE ~r.routed -> <<r.default>>
       [] r.routed /\ r.pin -> Selected(r.serve, known)
       [] OTHER -> IF keyed # {} THEN Selected(r.serve, keyed)
                   ELSE IF known # {} THEN Selected(r.serve, known) ELSE <<r.default>>

CompletionInit ==
  /\ \E r \in Routes : targets = TargetsFor(r) /\ routed = r.routed
  /\ cancelled = FALSE /\ heard = 0 /\ stage = "pick"
  /\ task = [i \in Indices |-> NoTask]
  /\ queue = [i \in Indices |-> <<>>]
  /\ seen = [voices |-> {}, text |-> 0, error |-> FALSE, dones |-> 0,
             msg |-> Nothing]
  /\ reply = Nothing

-----------------------------------------------------------------------------
(* The client task of target i. *)

Voice(i) == <<i, task[i].posts>>
Event(i, type) == [type |-> type, voice |-> Voice(i), msg |-> Nothing]
DoneEvent(msg) == [type |-> "done", voice |-> msg.voice, msg |-> msg]

\* tx.send: without a receiver the events are dropped.
Send(i, events) ==
  queue' = IF i = heard THEN [queue EXCEPT ![i] = @ \o events] ELSE queue

\* The OpenAI client counts retries of the post and of the stream apart, the
\* Anthropic client together.
MayRetry(i, what) ==
  LET t == task[i].tries
  IN (IF Kind(i) = "openai" THEN t[what] ELSE t.post + t.stream) < MaxRetries

\* The accumulator of an attempt goes with it.
Over(i, pc) ==
  [NoTask EXCEPT !.pc = pc, !.posts = task[i].posts, !.tries = task[i].tries]

Retried(i, what) ==
  [task EXCEPT ![i] = [Over(i, "backoff") EXCEPT !.tries[what] = @ + 1]]

Ended(i) == [task EXCEPT ![i] = Over(i, "ended")]

Failed(i) == [Nothing EXCEPT !.reason = "error", !.err = TRUE, !.voice = Voice(i)]

Client(i, pc) == task[i].pc = pc /\ UNCHANGED <<targets, routed, cancelled,
                                                heard, stage, seen, reply>>

\* The server has its turn, when the task is not too far ahead.
Served(i, pc) == Client(i, pc) /\ Len(queue[i]) <= MaxLag

\* The response has a success status: the stream opens with Start.
Accept(i) ==
  /\ Served(i, "post")
  /\ task' = [task EXCEPT ![i].pc = "stream"]
  /\ Send(i, <<Event(i, "start")>>)

\* An error status, retryable (429, 5xx) or not; its body is still to be read.
Refuse(i) ==
  /\ Served(i, "post")
  /\ \E again \in BOOLEAN :
       task' = [task EXCEPT ![i].pc = "body", ![i].again = again]
  /\ UNCHANGED queue

\* The body of an error response, read without an eye on the token.
Body(i) ==
  /\ Client(i, "body")
  /\ IF task[i].again /\ MayRetry(i, "post")
       THEN task' = Retried(i, "post") /\ UNCHANGED queue
       ELSE task' = Ended(i) /\ Send(i, <<DoneEvent(Failed(i))>>)

\* The request fails on the way; the OpenAI client says so in an event.
Unreachable(i) ==
  /\ Served(i, "post")
  /\ IF MayRetry(i, "post")
       THEN task' = Retried(i, "post") /\ UNCHANGED queue
       ELSE /\ task' = Ended(i)
            /\ Send(i, IF Kind(i) = "openai"
                         THEN <<Event(i, "error"),
                                DoneEvent([Failed(i) EXCEPT !.err = FALSE])>>
                         ELSE <<DoneEvent(Failed(i))>>)

\* Variant: the response is awaited without an eye on the token.
AbortPostLater(i) == FALSE /\ UNCHANGED completionVars

\* The token is cancelled while the response is awaited.
AbortPost(i) ==
  /\ Client(i, "post") /\ cancelled
  /\ task' = Ended(i)
  /\ Send(i, <<DoneEvent([Nothing EXCEPT !.reason = "aborted",
                                         !.voice = Voice(i)])>>)

\* The wait before a retry is over, or cut short by the token.
Repost(i) ==
  /\ Client(i, "backoff")
  /\ task' = [task EXCEPT ![i].pc = "post", ![i].posts = @ + 1]
  /\ UNCHANGED queue

\* A piece of text; none follows a finished message.
Text(i) ==
  /\ Served(i, "stream") /\ task[i].finish = "none" /\ task[i].text < MaxText
  /\ task' = [task EXCEPT ![i].text = @ + 1, ![i].shown = TRUE]
  /\ Send(i, <<Event(i, "text")>>)

\* A piece of the tool call: the head of an Anthropic block shows nothing.
Piece(i) ==
  LET silent == Kind(i) = "anthropic" /\ task[i].args = 0
  IN /\ Served(i, "stream")
     /\ task[i].finish = "none" /\ task[i].args < CallPieces
     /\ task' = [task EXCEPT ![i].args = @ + 1, ![i].shown = @ \/ ~silent]
     /\ IF silent THEN UNCHANGED queue ELSE Send(i, <<Event(i, "tool")>>)

Whole(i) == task[i].args \in {0, CallPieces}

\* finish_reason, or the stop_reason of message_delta; "odd" is one that
\* map_finish_reason does not know.
Finish(i) ==
  /\ Served(i, "stream") /\ task[i].finish = "none"
  /\ \E r \in {"length", "odd"} \cup
              (IF ~Whole(i) THEN {}
               ELSE IF task[i].args = 0 THEN {"stop"} ELSE {"tools"}) :
       task' = [task EXCEPT ![i].finish = r]
  /\ UNCHANGED queue

\* Accumulator::into_message with a stop reason as map_stop_reason gives it.
Assembled(i, reason, cut) ==
  [reason |-> IF reason = "odd" THEN "error" ELSE reason,
   text |-> task[i].text, args |-> task[i].args, err |-> FALSE,
   voice |-> Voice(i), cut |-> cut]

Empty(msg) == msg.text = 0 /\ msg.args = 0

\* Variant: what was shown does not keep the client from a retry.
ConcludeShown(i, events, msg) ==
  IF /\ msg.reason = "error" \/ (Empty(msg) /\ msg.reason = "stop")
     /\ MayRetry(i, "stream") /\ ~cancelled
    THEN task' = Retried(i, "stream") /\ Send(i, events)
    ELSE task' = Ended(i) /\ Send(i, Append(events, DoneEvent(msg)))

\* The end of an attempt: a failed or empty one of which nothing was shown is
\* tried again, any other is the message of this target.
Conclude(i, events, msg) ==
  IF /\ msg.reason = "error" \/ (Empty(msg) /\ msg.reason = "stop")
     /\ ~task[i].shown /\ MayRetry(i, "stream") /\ ~cancelled
    THEN task' = Retried(i, "stream") /\ Send(i, events)
    ELSE task' = Ended(i) /\ Send(i, Append(events, DoneEvent(msg)))

\* The stream breaks, or carries an error frame.
Break(i) ==
  /\ Served(i, "stream")
  /\ Conclude(i, <<Event(i, "error")>>, Failed(i))

\* The end of the stream: a message that has its stop reason is taken, the
\* OpenAI client salvages what has arrived without one, the Anthropic client
\* takes a message_stop for one.
Close(i, terminated) ==
  /\ Served(i, "stream")
  /\ CASE task[i].finish # "none" ->
            Conclude(i, <<>>, Assembled(i, task[i].finish, FALSE))
       [] /\ task[i].finish = "none" /\ Kind(i) = "openai"
          /\ task[i].text + task[i].args > 0 ->
            Conclude(i, <<>>,
              Assembled(i, IF task[i].args > 0 THEN "tools" ELSE "stop",
                        ~terminated))
       [] task[i].finish = "none" /\ Kind(i) = "anthropic" /\ terminated ->
            Conclude(i, <<>>, Assembled(i, "stop", FALSE))
       [] OTHER -> Conclude(i, <<Event(i, "error")>>, Failed(i))

\* The server ends a whole message: [DONE] or message_stop.
Stop(i) == (task[i].finish # "none" \/ Whole(i)) /\ Close(i, TRUE)

\* The connection closes, wherever the message is.
Cut(i) == Close(i, FALSE)

\* The token is cancelled in the stream: the OpenAI client drops what has
\* arrived, the Anthropic client keeps the text and drops the call.
AbortStream(i) ==
  /\ Client(i, "stream") /\ cancelled
  /\ Conclude(i, <<>>,
       [Nothing EXCEPT !.reason = "aborted", !.voice = Voice(i),
          !.text = IF Kind(i) = "openai" THEN 0 ELSE task[i].text])

-----------------------------------------------------------------------------
(* The router and the reader. *)

Reader(s) == stage = s /\ UNCHANGED <<targets, routed, cancelled>>

\* The message of a provider that has nothing else to say.
Verdict(msg, error) ==
  /\ stage' = "end"
  /\ seen' = [seen EXCEPT !.error = error, !.dones = @ + 1, !.msg = msg]
  /\ UNCHANGED <<task, queue, heard, reply>>

\* RoutingProvider::stream: the next target is asked, unless the token is
\* cancelled or none is left.  A plain client is asked at once.
Pick ==
  /\ Reader("pick")
  /\ CASE heard = Len(targets) ->
            Verdict([Nothing EXCEPT !.reason = "error", !.err = TRUE], TRUE)
       [] heard < Len(targets) /\ routed /\ cancelled ->
            Verdict([Nothing EXCEPT !.reason = "aborted"], FALSE)
       [] OTHER ->
            /\ heard' = heard + 1
            /\ stage' = IF routed THEN "probe" ELSE "read"
            /\ task' = [task EXCEPT ![heard'].pc = "post", ![heard'].posts = 1]
            /\ UNCHANGED <<queue, seen, reply>>

\* One event of the stream, as stream_once takes it.
Take(e) ==
  seen' = CASE e.type = "text" -> [seen EXCEPT !.voices = @ \cup {e.voice},
                                               !.text = @ + 1]
            [] e.type = "tool" -> [seen EXCEPT !.voices = @ \cup {e.voice}]
            [] e.type = "error" -> [seen EXCEPT !.error = TRUE]
            [] e.type = "done" -> [seen EXCEPT !.dones = @ + 1, !.msg = e.msg]
            [] OTHER -> seen

\* probe_stream: what makes the router leave a target.
ProbeFails(e) ==
  \/ e.type = "error"
  \/ e.type = "done" /\ (e.msg.reason = "error" \/ e.msg.err)

\* probe_stream: events are read until one fails the target or commits to it;
\* the stream of a failed target is dropped, its task goes on unheard.
Probe ==
  /\ Reader("probe") /\ queue[heard] # <<>>
  /\ LET e == Head(queue[heard])
     IN IF ProbeFails(e)
          THEN /\ stage' = "pick"
               /\ queue' = [queue EXCEPT ![heard] = <<>>]
               /\ UNCHANGED seen
          ELSE /\ stage' = IF e.type = "start" THEN "probe" ELSE "read"
               /\ queue' = [queue EXCEPT ![heard] = Tail(@)]
               /\ Take(e)
  /\ UNCHANGED <<task, heard, reply>>

Read ==
  /\ Reader("read") /\ queue[heard] # <<>>
  /\ Take(Head(queue[heard]))
  /\ queue' = [queue EXCEPT ![heard] = Tail(@)]
  /\ UNCHANGED <<task, heard, stage, reply>>

\* The stream is over: the sender is gone and everything is read.
Drained ==
  /\ Reader("read") /\ queue[heard] = <<>> /\ task[heard].pc = "ended"
  /\ stage' = "end"
  /\ UNCHANGED <<task, queue, heard, seen, reply>>

\* The end of stream_once: an Error event on the way is put on a message that
\* has none, and turns a Stop into an Error.
Return ==
  /\ Reader("end") /\ stage' = "done"
  /\ reply' = [seen.msg EXCEPT
                 !.err = @ \/ seen.error,
                 !.reason = IF seen.error /\ @ \in {"none", "stop"}
                              THEN "error" ELSE @]
  /\ UNCHANGED <<task, queue, heard, seen>>

\* The user cancels the run.
Cancel ==
  /\ ~cancelled /\ stage # "done"
  /\ cancelled' = TRUE
  /\ UNCHANGED <<targets, routed, task, queue, heard, stage, seen, reply>>

-----------------------------------------------------------------------------

\* What the server does, or the network to it.
Server(i) == Accept(i) \/ Refuse(i) \/ Unreachable(i) \/ Text(i) \/ Piece(i)
             \/ Finish(i) \/ Break(i) \/ Stop(i) \/ Cut(i)

\* What the task does by itself.
Own(i) == AbortPost(i) \/ AbortStream(i) \/ Repost(i)

Reading == Pick \/ Probe \/ Read \/ Drained \/ Return

CompletionNext ==
  \/ \E i \in Indices : Server(i) \/ Body(i) \/ Own(i)
  \/ Reading \/ Cancel

CompletionSpec == CompletionInit /\ [][CompletionNext]_completionVars

\* The tasks and the reader are scheduled, and the body of an error response
\* arrives or the connection fails.  Nothing else is expected of the server.
\* AbortStream is enabled at every await of a stream.
CompletionFairness ==
  /\ WF_completionVars(Reading)
  /\ \A i \in 1..2 : /\ WF_completionVars(i \in Indices /\ Own(i))
                     /\ WF_completionVars(i \in Indices /\ Body(i))

-----------------------------------------------------------------------------

\* A reply is the voice of one attempt of one target: nothing the user was
\* shown comes from another, whatever was retried or failed over
\* (openai.rs:225, anthropic.rs:158, routing.rs:367).  It comes from one Done.
OneVoice ==
  stage = "done" =>
    /\ seen.dones = 1
    /\ seen.voices \subseteq {reply.voice}

\* A reply that the loop goes on with has all the text it showed, and the
\* server had ended it, except for what the OpenAI client salvages.
ReplyIsWhole ==
  stage = "done" /\ reply.reason \in Good =>
    /\ reply.text = seen.text
    /\ reply.cut => Kind(heard) = "openai"
    /\ reply.args \in {0, CallPieces} \/ reply.cut \/ reply.reason = "length"

\* A target is left for the next only when nothing of it was shown, and a
\* request is posted a bounded number of times.
AttemptsAreBounded ==
  /\ stage \in {"pick", "probe"} => seen.voices = {}
  /\ \A i \in Indices :
       task[i].posts <= 1 + MaxRetries * (IF Kind(i) = "openai" THEN 2 ELSE 1)

\* What a completion may be trusted with, whatever fails on the way.
CompletionIsSound == OneVoice /\ ReplyIsWhole /\ AttemptsAreBounded

\* A cancelled run gets its reply, from a server that never answers too.
CancelIsHeard == cancelled ~> stage = "done"

\* "Force Error unless a Done already set a terminal reason" (stream.rs:141):
\* a message that a retry has completed is not turned into an error.
RetryIsForgiven ==
  stage = "done" /\ seen.msg.reason = "stop" => reply.reason = "stop"
=============================================================================
