------------------------------ MODULE McpPool ------------------------------
(***************************************************************************)
(* The live pool of MCP servers (pirs-mcp: pool.rs) and the clients it     *)
(* holds (client.rs: a child process over stdio; http.rs: one POST per     *)
(* request, or the legacy SSE stream), used by the router's tools, which   *)
(* the agent loop runs side by side.                                       *)
(*                                                                         *)
(* A task is one tool call. A client is named after the task that          *)
(* connected it, and whether it did so for a refresh: a describe may       *)
(* connect twice. The mutex of the live map is held across an await only   *)
(* while a client is shut down under it.                                   *)
(***************************************************************************)
EXTENDS Naturals, FiniteSets

CONSTANTS
  Servers,    \* servers of the catalog
  Tasks,      \* tool calls
  Transport,  \* [Servers -> Transports]
  MaxLive,    \* PIRS_MCP_MAX_LIVE
  NoOne,      \* no task, no client, nothing to do
  CallMixes       \* bound: the sets of calls that run side by side: what each
              \* does (NoOne: nothing), with which server

Transports == {"stdio", "sse", "http"}
Clients == Tasks \X BOOLEAN

Ops == {"enable", "disable", "call", "describe"}

ASSUME McpPoolAssumption ==
  /\ Transport \in [Servers -> Transports]
  /\ CallMixes \subseteq [Tasks -> [op : Ops \cup {NoOne}, srv : Servers]]
  /\ MaxLive \in Nat \ {0}
  /\ NoOne \notin Tasks \cup Clients \cup Ops \cup {"refresh"}

VARIABLES
  op,      \* what a task does, and
  srv,     \* ... with which server
  where,      \* where it is
  cli,     \* the client it holds a handle to
  req,     \* the state of the request it waits for
  live,    \* the live map: a server's client
  lock,    \* the task that holds the live map's mutex across an await
  catLock, \* ... the mutex of the catalog
  known,   \* servers with tools in the catalog
  link,    \* the state of a client's connection
  \* history
  shut      \* clients that `disable` or a full pool has shut down

taskVars == <<op, srv, where, cli>>
poolVars == <<live, lock, catLock, known>>
linkVars == <<req, link>>
mcpVars == <<taskVars, poolVars, linkVars, shut>>

Requests == {"none", "queued", "sent", "lost", "ok", "failed"}
Links == {"none", "up", "down", "gone", "stray"}
Pcs == {"ensure", "cached", "reserve", "connect", "list", "catalog",
        "insert", "shut", "take", "ask", "found", "relook", "report",
        "count", "done"}

Client(t) == <<t, op[t] = "refresh">>   \* the one a task connects next

Open == {"queued", "sent", "lost"}   \* a request without a result
Live == {s \in Servers : live[s] # NoOne}
ServerOf(c) == srv[c[1]]
Speaks(c, transports) == Transport[ServerOf(c)] \in transports

PoolInit ==
  /\ \E w \in CallMixes :
       /\ op = [t \in Tasks |-> w[t].op]
       /\ srv = [t \in Tasks |-> w[t].srv]
       /\ where = [t \in Tasks |->
                  CASE w[t].op = NoOne -> "done"
                    [] w[t].op = "enable" -> "reserve"
                    [] w[t].op = "describe" -> "cached"
                    [] OTHER -> "ensure"]
  /\ cli = [t \in Tasks |-> NoOne]
  /\ req = [t \in Tasks |-> "none"]
  /\ live = [s \in Servers |-> NoOne]
  /\ lock = NoOne /\ catLock = NoOne
  /\ known = {}
  /\ link = [c \in Clients |-> "none"]
  /\ shut = {}

-----------------------------------------------------------------------------
(* Handles and requests. *)

Go(t, label) == where' = [where EXCEPT ![t] = label]
Hold(t, c) == cli' = [cli EXCEPT ![t] = c]
Ask(t) == req' = [req EXCEPT ![t] = "queued"]

\* Variant: the map's handle is the only one that counts.
DroppedFromMap ==
  link' = [c \in Clients |->
    IF /\ link[c] \in {"up", "down"} /\ live' # live
       /\ \A s \in Servers : live'[s] # c
    THEN "gone" ELSE link[c]]

\* A client without a handle is dropped: kill_on_drop ends the process, Drop
\* stops the reader of the stream. Reads live' and cli'.
Dropped ==
  link' = [c \in Clients |->
    IF /\ link[c] \in {"up", "down"}
       /\ \A s \in Servers : live'[s] # c
       /\ \A t \in Tasks : cli'[t] # c
    THEN "gone" ELSE link[c]]

\* Every request in the client's pending table gets an error.
Drained(c) ==
  req' = [t \in Tasks |->
            IF cli[t] = c /\ req[t] \in Open THEN "failed" ELSE req[t]]

\* The task writes its request, or posts it. Nothing bounds this step over
\* stdio and SSE; a POST of the HTTP client fails after 30 s.
Post(t) ==
  /\ req[t] = "queued"
  /\ \E sent \in {"sent", "lost", "failed"} :
       /\ sent = "sent" => link[cli[t]] = "up"
       /\ sent = "lost" => link[cli[t]] # "up" \/ Speaks(cli[t], {"http"})
       /\ req' = [req EXCEPT ![t] = sent]
  /\ UNCHANGED <<taskVars, poolVars, link, shut>>

\* The server answers, with a result or an error.
AnswerRequest(t) ==
  /\ req[t] = "sent"
  /\ link[cli[t]] = "up"
  /\ \E r \in {"ok", "failed"} : req' = [req EXCEPT ![t] = r]
  /\ UNCHANGED <<taskVars, poolVars, link, shut>>

\* A request of the server's own, with the id of ours, on the stream of the
\* POST: read_sse_for_id takes it for the answer. The other two clients look
\* at "method" first.
TakenForAnswer(t) ==
  /\ req[t] = "sent"
  /\ Speaks(cli[t], {"http"})
  /\ req' = [req EXCEPT ![t] = "ok"]
  /\ UNCHANGED <<taskVars, poolVars, link, shut>>

Timeout(t) ==
  /\ req[t] \in {"sent", "lost"}
  /\ req' = [req EXCEPT ![t] = "failed"]
  /\ UNCHANGED <<taskVars, poolVars, link, shut>>

\* The process exits, or the server closes the stream.
Lose(c) ==
  /\ link[c] = "up"
  /\ Speaks(c, {"stdio", "sse"})
  /\ link' = [link EXCEPT ![c] = "down"]
  /\ Drained(c)
  /\ UNCHANGED <<taskVars, poolVars, shut>>

\* The reader of the stream reconnects, after its backoff.
Reopen(c) ==
  /\ link[c] = "down"
  /\ Speaks(c, {"sse"})
  /\ link' = [link EXCEPT ![c] = "up"]
  /\ UNCHANGED <<taskVars, poolVars, req, shut>>

-----------------------------------------------------------------------------
(* The pool. *)

\* Where a task goes on once its server is live.
Enabled(t) ==
  CASE op[t] = "enable" -> "report"
    [] op[t] = "call" -> "take"
    [] op[t] = "describe" -> "found"
    [] OTHER -> "relook"

\* The task ends, with an error or not, and drops its handle.
End(t) ==
  /\ Go(t, "done")
  /\ Hold(t, NoOne)
  /\ req' = [req EXCEPT ![t] = "none"]
  /\ live' = live
  /\ Dropped

\* ensure_live: two sections under the mutex, the second only sets last_used.
EnsureLive(t) ==
  /\ where[t] = "ensure" /\ op[t] # "disable"
  /\ lock = NoOne
  /\ Go(t, IF srv[t] \in Live THEN Enabled(t) ELSE "reserve")
  /\ UNCHANGED <<op, srv, cli, poolVars, linkVars, shut>>

\* list_tools_cached: from the live map, else from the catalog, else enable.
Cached(t) ==
  /\ where[t] = "cached"
  /\ lock = NoOne /\ catLock = NoOne
  /\ Go(t, IF srv[t] \in Live \cup known THEN "found" ELSE "reserve")
  /\ UNCHANGED <<op, srv, cli, poolVars, linkVars, shut>>

\* describe_tool: the tool is in the list, or the server is asked for it.
Find(t) ==
  /\ where[t] = "found"
  /\ \/ Go(t, "done") /\ UNCHANGED op
     \/ Go(t, "ensure") /\ op' = [op EXCEPT ![t] = "refresh"]
  /\ UNCHANGED <<srv, cli, poolVars, linkVars, shut>>

Relook(t) ==
  /\ where[t] = "relook"
  /\ lock = NoOne
  /\ Go(t, "done")
  /\ UNCHANGED <<op, srv, cli, poolVars, linkVars, shut>>

\* enable: a live server is reused, whatever its link; a full pool refuses.
Reserve(t) ==
  /\ where[t] = "reserve"
  /\ lock = NoOne
  /\ Go(t, IF srv[t] \in Live THEN Enabled(t)
           ELSE IF Cardinality(Live) >= MaxLive THEN "done" ELSE "connect")
  /\ UNCHANGED <<op, srv, cli, poolVars, linkVars, shut>>

\* The client is connected and asked to initialize.
Connect(t) ==
  /\ where[t] = "connect" /\ cli[t] = NoOne
  /\ \/ /\ link' = [link EXCEPT ![Client(t)] = "up"]
        /\ Hold(t, Client(t)) /\ Ask(t)
        /\ UNCHANGED <<where, live>>
     \/ End(t)
  /\ UNCHANGED <<op, srv, lock, catLock, known, shut>>

\* The stream opens but names no endpoint within 15 s: there is no client to
\* drop yet, and the reader goes on reconnecting for ever.
NoEndpoint(t) ==
  /\ where[t] = "connect" /\ cli[t] = NoOne
  /\ Speaks(Client(t), {"sse"})
  /\ link' = [link EXCEPT ![Client(t)] = "stray"]
  /\ Go(t, "done")
  /\ UNCHANGED <<op, srv, cli, poolVars, req, shut>>

\* ... then, after a notification, for its tools.
Initialized(t) ==
  /\ where[t] = "connect" /\ req[t] \in {"ok", "failed"}
  /\ \/ /\ req[t] = "ok"
        /\ Go(t, "list") /\ Ask(t)
        /\ UNCHANGED <<cli, live, link>>
     \/ End(t)
  /\ UNCHANGED <<op, srv, lock, catLock, known, shut>>

Listed(t) ==
  /\ where[t] = "list" /\ req[t] \in {"ok", "failed"}
  /\ IF req[t] = "ok"
     THEN /\ Go(t, "catalog")
          /\ req' = [req EXCEPT ![t] = "none"]
          /\ UNCHANGED <<cli, live, link>>
     ELSE End(t)
  /\ UNCHANGED <<op, srv, lock, catLock, known, shut>>

\* set_known_tools: the list may be empty.
SetKnownTools(t) ==
  /\ where[t] = "catalog"
  /\ catLock = NoOne
  /\ known' \in {known \cup {srv[t]}, known \ {srv[t]}}
  /\ Go(t, "insert")
  /\ UNCHANGED <<op, srv, cli, live, lock, catLock, linkVars, shut>>

\* The shutdown of a client under the mutex of the live map.
Shutdown(t, c) ==
  /\ lock' = t
  /\ shut' = shut \cup {c}
  /\ Go(t, "shut") /\ Hold(t, c) /\ Ask(t)

\* The client enters the map, unless the pool has filled up meanwhile. The
\* client that another enable of the same server has put there is replaced.
Insert(t) ==
  /\ where[t] = "insert"
  /\ lock = NoOne
  /\ IF srv[t] \notin Live /\ Cardinality(Live) >= MaxLive
     THEN /\ Shutdown(t, cli[t])
          /\ UNCHANGED <<live, link>>
     ELSE /\ live' = [live EXCEPT ![srv[t]] = cli[t]]
          /\ Go(t, Enabled(t)) /\ Hold(t, NoOne)
          /\ Dropped
          /\ UNCHANGED <<lock, req, shut>>
  /\ UNCHANGED <<op, srv, catLock, known>>

\* disable: out of the map first, then shut down.
Disable(t) ==
  /\ where[t] = "ensure" /\ op[t] = "disable"
  /\ lock = NoOne
  /\ IF srv[t] \in Live
     THEN /\ Shutdown(t, live[srv[t]])
          /\ live' = [live EXCEPT ![srv[t]] = NoOne]
     ELSE /\ Go(t, "report")
          /\ UNCHANGED <<cli, req, live, lock, shut>>
  /\ UNCHANGED <<op, srv, catLock, known, link>>

\* The shutdown request has ended, one way or the other. A child process is
\* killed then, and its reader fails the requests of others; the connections
\* of the other clients go with their last handle.
ShutdownEnds(t) ==
  /\ where[t] = "shut" /\ req[t] \in {"ok", "failed"}
  /\ Go(t, IF op[t] = "disable" THEN "report" ELSE "done")
  /\ Hold(t, NoOne)
  /\ lock' = NoOne
  /\ live' = live
  /\ IF Speaks(cli[t], {"stdio"})
     THEN /\ link' = [link EXCEPT ![cli[t]] = "gone"]
          /\ req' = [u \in Tasks |->
               IF u = t THEN "none"
               ELSE IF cli[u] = cli[t] /\ req[u] \in Open THEN "failed"
               ELSE req[u]]
     ELSE /\ Dropped
          /\ req' = [req EXCEPT ![t] = "none"]
  /\ UNCHANGED <<op, srv, catLock, known, shut>>

\* call_tool: the server may have been disabled since it was found live.
Take(t) ==
  /\ where[t] = "take"
  /\ lock = NoOne
  /\ IF srv[t] \in Live
     THEN /\ Go(t, "ask") /\ Hold(t, live[srv[t]]) /\ Ask(t)
     ELSE /\ Go(t, "done")
          /\ UNCHANGED <<cli, req>>
  /\ UNCHANGED <<op, srv, poolVars, link, shut>>

Called(t) ==
  /\ where[t] = "ask" /\ req[t] \in {"ok", "failed"}
  /\ End(t)
  /\ UNCHANGED <<op, srv, lock, catLock, known, shut>>

\* status, for the text of mcp_enable and mcp_disable: the catalog's mutex is
\* held while it waits for the other.
Report(t) ==
  /\ where[t] = "report"
  /\ catLock = NoOne
  /\ catLock' = t
  /\ Go(t, "count")
  /\ UNCHANGED <<op, srv, cli, live, lock, known, linkVars, shut>>

Count(t) ==
  /\ where[t] = "count"
  /\ lock = NoOne
  /\ catLock' = NoOne
  /\ Go(t, "done")
  /\ UNCHANGED <<op, srv, cli, live, lock, known, linkVars, shut>>

-----------------------------------------------------------------------------
Pool(t) ==
  \/ EnsureLive(t) \/ Cached(t) \/ Find(t) \/ Relook(t) \/ Reserve(t)
  \/ Connect(t) \/ NoEndpoint(t) \/ Initialized(t) \/ Listed(t) \/ SetKnownTools(t)
  \/ Insert(t) \/ Disable(t) \/ ShutdownEnds(t) \/ Take(t) \/ Called(t)
  \/ Report(t) \/ Count(t)

Done == (\A t \in Tasks : where[t] = "done") /\ UNCHANGED mcpVars

PoolNext ==
  \/ \E t \in Tasks :
       \/ Pool(t)
       \/ Post(t) \/ AnswerRequest(t) \/ TakenForAnswer(t) \/ Timeout(t)
  \/ \E c \in Clients : Lose(c) \/ Reopen(c)
  \/ Done

\* While a task can go on or a timer can fire, one does. That a server takes in
\* what is written to it is an assumption for stdio and SSE. No answer is
\* assumed.
PoolProgress == \E t \in Tasks : Pool(t) \/ Post(t) \/ Timeout(t)
PoolSpec == PoolInit /\ [][PoolNext]_mcpVars /\ WF_mcpVars(PoolProgress)

-----------------------------------------------------------------------------
(* Properties. *)

\* Every variable stays in its range.
PoolTypeOK ==
  /\ op \in [Tasks -> Ops \cup {"refresh", NoOne}] /\ srv \in [Tasks -> Servers]
  /\ where \in [Tasks -> Pcs]
  /\ cli \in [Tasks -> Clients \cup {NoOne}]
  /\ req \in [Tasks -> Requests]
  /\ live \in [Servers -> Clients \cup {NoOne}]
  /\ lock \in Tasks \cup {NoOne} /\ catLock \in Tasks \cup {NoOne}
  /\ known \subseteq Servers
  /\ link \in [Clients -> Links]
  /\ shut \subseteq Clients

\* The pool never holds more servers than its cap, however many enables race,
\* and once no call runs no more clients than that are left connected (the
\* readers that NoEndpoint leaves behind come on top).
Connected == {c \in Clients : link[c] \in {"up", "down"}}
WithinCap ==
  /\ Cardinality(Live) <= MaxLive
  /\ (\A t \in Tasks : where[t] = "done")
       => Cardinality(Connected) <= MaxLive

\* A call in flight keeps its server: an enable that replaces the client in the
\* map, or a task that drops it, never ends the connection under the call. Only
\* a shutdown does.
CallKeepsServer ==
  \A t \in Tasks : cli[t] # NoOne /\ link[cli[t]] = "gone" => cli[t] \in shut

\* All of these: the pool keeps its ranges and its cap, and each call its server.
PoolIsSound == PoolTypeOK /\ WithinCap /\ CallKeepsServer

\* Every tool call ends, whatever the servers answer or lose and whoever holds
\* the mutexes.
CallsEnd == <>(\A t \in Tasks : where[t] = "done")
=============================================================================
