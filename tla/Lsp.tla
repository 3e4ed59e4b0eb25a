-------------------------------- MODULE Lsp --------------------------------
(***************************************************************************)
(* The client of a language server (pirs-lsp: client.rs) and the calls of  *)
(* the lsp and rename_symbol tools that share it (tool.rs, rename.rs): the *)
(* first one starts it, documents are opened on the way, requests carry    *)
(* ids, and the server has requests of its own with ids of its own.        *)
(*                                                                         *)
(* A message is written in one step, under the mutex of stdin. That the    *)
(* server takes in what is written to it is an assumption.                 *)
(***************************************************************************)
EXTENDS Naturals, FiniteSets

CONSTANTS
  LspCalls,  \* tool calls
  Document,  \* [LspCalls -> documents]
  Methods,   \* bound: what the calls ask side by side
  MaxTries,  \* requests of a call to a server that indexes (7 in the code)
  MaxAsks    \* bound: requests of the server's own

Documents == {Document[t] : t \in LspCalls}

\* hover, symbols: one request. definition_in: a second one after an edit.
\* definition, references, rename: again while the server indexes.
MethodKinds == {"plain", "on_document", "indexed"}

ASSUME LspAssumption ==
  /\ Methods \subseteq [LspCalls -> MethodKinds \cup {"none"}]
  /\ MaxTries \in Nat \ {0} /\ MaxAsks \in Nat

VARIABLES
  client,   \* "none", "starting", "up", "eof" (its reader has ended) or
            \* "garbled" (... in an error)
  method,   \* what a call asks
  step,     \* where it is
  tries,    \* the requests it has made
  id,       \* its last request's id
  got,      \* ... and answer: from what message, saying what
  opened,   \* documents in the map of opened ones
  nextId,
  pending,  \* requests in the pending table
  answering,\* the request of the server that the reader answers, or 0
  \* the server
  told,     \* documents it was told of
  asked,    \* requests it has not answered
  asks      \* requests it has made

lspVars == <<client, method, step, tries, id, got, opened, nextId, pending,
             answering, told, asked, asks>>
callVars == <<method, tries, id, got, nextId, pending>>
serverVars == <<told, asked, asks>>

Nil == [from |-> 0, says |-> "nothing"]
Says == {"found", "empty", "modified", "error"}
Message(from, what) == [from |-> from, says |-> what]

LspInit ==
  /\ client = "none"
  /\ method \in Methods
  /\ step = [t \in LspCalls |-> IF method[t] = "none" THEN "over" ELSE "client"]
  /\ tries = [t \in LspCalls |-> 0]
  /\ id = [t \in LspCalls |-> 0]
  /\ got = [t \in LspCalls |-> Nil]
  /\ opened = {} /\ nextId = 1 /\ pending = {} /\ answering = 0
  /\ told = {} /\ asked = {} /\ asks = 0

StepTo(t, s) == step' = [step EXCEPT ![t] = s]
Doc(t) == Document[t]
Reads == client = "up" /\ answering = 0   \* the reader takes the next message
TakesIn == client \in {"up", "garbled"}   \* a dead process does not

-----------------------------------------------------------------------------
(* client_for: the mutex of the clients is held until the first one is up. *)

ClientFor(t) ==
  /\ step[t] = "client" /\ client # "starting"
  /\ IF client = "none"
     THEN client' = "starting" /\ StepTo(t, "start")
     ELSE StepTo(t, "open") /\ UNCHANGED client
  /\ UNCHANGED <<callVars, opened, answering, serverVars>>

\* spawn and initialize, which may fail or time out.
Spawned(t) ==
  /\ step[t] = "start"
  /\ \/ client' = "up" /\ StepTo(t, "open")
     \/ client' = "none" /\ StepTo(t, "over")
  /\ UNCHANGED <<callVars, opened, answering, serverVars>>

-----------------------------------------------------------------------------
(* Documents. *)

\* Variant: the document counts as opened before the server is told.
OpenDocumentFirst(t) ==
  /\ step[t] = "open"
  /\ \/ Doc(t) \in opened /\ StepTo(t, "request")
     \/ Doc(t) \notin opened /\ StepTo(t, "didOpen")
     \/ Doc(t) \notin opened /\ StepTo(t, "over")
  /\ opened' = opened \cup {Doc(t)}
  /\ UNCHANGED <<client, callVars, answering, serverVars>>

\* The file may be unreadable.
OpenDocument(t) ==
  /\ step[t] = "open"
  /\ \/ Doc(t) \in opened /\ StepTo(t, "request")
     \/ Doc(t) \notin opened /\ StepTo(t, "didOpen")
     \/ Doc(t) \notin opened /\ StepTo(t, "over")
  /\ UNCHANGED <<client, callVars, opened, answering, serverVars>>

DidOpen(t) ==
  /\ step[t] = "didOpen"
  /\ \/ StepTo(t, "opened")
        /\ told' = IF TakesIn THEN told \cup {Doc(t)} ELSE told
     \/ client = "eof" /\ StepTo(t, "over") /\ UNCHANGED told
  /\ UNCHANGED <<client, callVars, opened, answering, asked, asks>>

Opened(t) ==
  /\ step[t] = "opened"
  /\ opened' = opened \cup {Doc(t)}
  /\ StepTo(t, "request")
  /\ UNCHANGED <<client, callVars, answering, serverVars>>

\* The server has seen another text: the document is sent anew, or opened. Of
\* a failure, request_on_document makes an error and request_indexed nothing.
TouchDocument(t) ==
  /\ step[t] = "touch"
  /\ \/ StepTo(t, IF Doc(t) \in opened THEN "didChange" ELSE "open")
     \/ StepTo(t, IF method[t] = "indexed" THEN "request" ELSE "over")
  /\ UNCHANGED <<client, callVars, opened, answering, serverVars>>

DidChange(t) ==
  /\ step[t] = "didChange"
  /\ \/ StepTo(t, "request")
     \/ client = "eof" /\ method[t] # "indexed" /\ StepTo(t, "over")
  /\ UNCHANGED <<client, callVars, opened, answering, serverVars>>

-----------------------------------------------------------------------------
(* Requests. *)

\* The request is in the pending table before it is written.
Request(t) ==
  /\ step[t] = "request"
  /\ nextId' = nextId + 1
  /\ id' = [id EXCEPT ![t] = nextId]
  /\ tries' = [tries EXCEPT ![t] = @ + 1]
  /\ pending' = pending \cup {nextId}
  /\ got' = [got EXCEPT ![t] = Nil]
  /\ \/ StepTo(t, "wait")
        /\ asked' = IF TakesIn THEN asked \cup {nextId} ELSE asked
     \/ client = "eof" /\ StepTo(t, "over") /\ UNCHANGED asked
  /\ UNCHANGED <<client, method, opened, answering, told, asks>>

\* A message with an id and no method goes to the call that waits for it; one
\* that has given up is not there any more.
Deliver(i, message) ==
  /\ pending' = pending \ {i}
  /\ got' = [t \in LspCalls |->
       IF step[t] = "wait" /\ id[t] = i /\ i \in pending THEN message ELSE got[t]]

Reply(i) ==
  /\ Reads /\ i \in asked
  /\ asked' = asked \ {i}
  /\ \E what \in Says : Deliver(i, Message(i, what))
  /\ UNCHANGED <<client, method, step, tries, id, nextId, opened, answering,
                 told, asks>>

\* A request of the server has an id too, of its own space.
ServerAsks(i) ==
  /\ Reads /\ asks < MaxAsks
  /\ asks' = asks + 1
  /\ answering' = i
  /\ UNCHANGED <<client, callVars, step, opened, told, asked>>

\* The reader answers it, under the mutex of stdin.
AnswerServer ==
  /\ answering # 0
  /\ answering' = 0
  /\ UNCHANGED <<client, callVars, step, opened, serverVars>>

\* A reader that ends at the end of the stream leaves the pending requests to
\* their timeout, one that cannot read a message fails them. Neither takes the
\* client out of the map.
Exit ==
  /\ client = "up"
  /\ client' = "eof"
  /\ UNCHANGED <<callVars, step, opened, answering, serverVars>>

Garble ==
  /\ Reads
  /\ client' = "garbled"
  /\ pending' = {}
  /\ got' = [t \in LspCalls |->
       IF step[t] = "wait" /\ id[t] \in pending
       THEN Message(id[t], "error") ELSE got[t]]
  /\ UNCHANGED <<method, step, tries, id, nextId, opened, answering, serverVars>>

\* The outcome of a request: an answer, or an error after 30 s.
Outcome(t, what) ==
  StepTo(t,
    CASE method[t] = "indexed" /\ tries[t] < MaxTries /\ what = "empty" -> "request"
      [] method[t] = "indexed" /\ tries[t] < MaxTries /\ what = "modified" -> "touch"
      [] method[t] = "on_document" /\ tries[t] = 1 /\ what = "modified" -> "touch"
      [] OTHER -> "over")

Answered(t) ==
  /\ step[t] = "wait" /\ got[t] # Nil
  /\ Outcome(t, got[t].says)
  /\ UNCHANGED <<client, callVars, opened, answering, serverVars>>

TimedOut(t) ==
  /\ step[t] = "wait" /\ got[t] = Nil
  /\ Outcome(t, "error")
  /\ UNCHANGED <<client, callVars, opened, answering, serverVars>>

-----------------------------------------------------------------------------
LspCall(t) ==
  \/ ClientFor(t) \/ Spawned(t)
  \/ OpenDocument(t) \/ DidOpen(t) \/ Opened(t) \/ TouchDocument(t) \/ DidChange(t)
  \/ Request(t) \/ Answered(t) \/ TimedOut(t)

LspNext ==
  \/ \E t \in LspCalls : LspCall(t)
  \/ \E i \in 1..(nextId - 1) : Reply(i) \/ ServerAsks(i)
  \/ AnswerServer \/ Exit \/ Garble

\* While a call can go on or its timer fire, one does; no answer is assumed.
LspProgress == \E t \in LspCalls : LspCall(t)
LspSpec == LspInit /\ [][LspNext]_lspVars /\ WF_lspVars(LspProgress)

LspOver == \A t \in LspCalls : step[t] = "over"

-----------------------------------------------------------------------------
(* Properties. *)

\* What a call is given is the answer to its own request, although the ids of
\* the server's requests are the same numbers and answers to calls that gave up
\* come late; and whatever it asks of a document, a living server has been told
\* of the document before, although calls race to open it.
LspIsSound ==
  \A t \in LspCalls :
    /\ step[t] = "wait" /\ got[t] # Nil => got[t].from = id[t]
    /\ step[t] \in {"request", "didChange", "wait"} /\ client = "up"
         => Doc(t) \in told

\* Every call ends, whatever the server answers, garbles or leaves out.
LspCallsEnd == <>LspOver
=============================================================================
