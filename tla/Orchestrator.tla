---------------------------- MODULE Orchestrator ----------------------------
(***************************************************************************)
(* The orchestrator daemon: its supervisor (pirs-orchestrator/src/         *)
(* supervisor.rs), the child processes it talks to over pipes              *)
(* (rpc_process.rs) and the instance records it keeps in instances.json    *)
(* (storage.rs).                                                           *)
(*                                                                         *)
(* Each client request is a task of a multi-threaded runtime.  A write of  *)
(* instances.json is a load and a save; the map of live instances has a    *)
(* mutex that some of these writes hold and others do not.                 *)
(***************************************************************************)
EXTENDS Naturals, FiniteSets

CONSTANTS
  Instances,    \* instances that may be spawned
  StopCalls,    \* stop requests
  RpcCalls,     \* rpc requests
  MaxCrashes    \* bound: crashes of the daemon

ASSUME OrchestratorAssumption ==
  /\ MaxCrashes \in Nat
  /\ Instances \cap StopCalls = {} /\ Instances \cap RpcCalls = {}
  /\ StopCalls \cap RpcCalls = {}
  /\ {"free", "exit"} \cap (Instances \cup StopCalls \cup RpcCalls) = {}

Statuses == {"starting", "online", "stopping", "stopped", "error"}
Records == Statuses \cup {"absent"}

\* Requests to a child: the get_state of a spawn and those of an rpc call.
Requesters == Instances \cup RpcCalls
\* The tasks that write instances.json; exits do it under the live mutex, so
\* that one of them is enough.
Tasks == Instances \cup StopCalls \cup RpcCalls \cup {"exit"}

VARIABLES
  up,         \* the daemon runs
  crashes,    \* crashes so far
  store,      \* instances.json: the status of each record
  live,       \* Supervisor::live: the status of each live instance
  lock,       \* the task that holds the live mutex over a file write
  early,      \* instances whose exit was seen before their spawn was done (for
              \* checking)
  copy,       \* the file a task has loaded and not yet saved
  spc,        \* where the spawn of an instance is
  xpc,        \* where the task is that watches for its exit
  child,      \* its child process: see ChildStates
  termed,     \* the child has got SIGTERM
  pending,    \* RpcProcess::pending
  req,        \* where a request to a child is
  target,     \* the instance an rpc or a stop call is about
  rpc,        \* where an rpc call is
  stpc        \* where a stop call is

fileVars == <<store, copy>>
mapVars == <<live, lock, early>>
childVars == <<child, termed>>
reqVars == <<pending, req>>
callVars == <<target, rpc, stpc>>
daemonVars == <<up, crashes>>
orchVars ==
  <<daemonVars, fileVars, mapVars, spc, xpc, childVars, reqVars, callVars>>

SpawnPCs == {"new", "starting", "exec", "watch", "state", "insert", "mark",
             "online", "done", "error", "errorSave", "stopped", "stoppedSave",
             "remove", "failed", "gone"}
ReqPCs == {"none", "insert", "write", "await", "ok", "failed"}
RpcPCs == {"idle", "call", "refresh", "upsert", "save", "done"}
StopPCs == {"idle", "save", "term", "wait", "drop", "load", "remove", "done",
            "refused"}

\* A child is reaped when its exit task has seen the exit; the crash of the
\* daemon orphans it.
ChildStates == {"none", "runs", "exited", "reaped", "orphan"}
Alive(i) == child[i] \in {"runs", "orphan"}

\* Where no file is loaded.
Nothing == [i \in Instances |-> "absent"]

DaemonInit ==
  /\ up = TRUE /\ crashes = 0
  /\ store = Nothing /\ copy = [t \in Tasks |-> Nothing]
  /\ live = Nothing /\ lock = "free" /\ early = {}
  /\ spc = [i \in Instances |-> "new"] /\ xpc = [i \in Instances |-> "none"]
  /\ child = [i \in Instances |-> "none"]
  /\ termed = [i \in Instances |-> FALSE]
  /\ pending = [i \in Instances |-> {}]
  /\ req = [t \in Requesters |-> "none"]
  /\ target \in [StopCalls \cup RpcCalls -> Instances]
  /\ rpc = [r \in RpcCalls |-> "idle"] /\ stpc = [c \in StopCalls |-> "idle"]

-----------------------------------------------------------------------------
(* instances.json *)

\* load_instances by a task ...
Load(t) == copy' = [copy EXCEPT ![t] = store] /\ UNCHANGED store

\* ... and save_instances of what it loaded, with one record changed: the other
\* records are written back as they were at the load.
Save(t, i, s) ==
  /\ store' = [copy[t] EXCEPT ![i] = s]
  /\ copy' = [copy EXCEPT ![t] = Nothing]

\* The live mutex is free.
Unlocked == lock = "free"

-----------------------------------------------------------------------------
(* Requests to a child: RpcProcess::request. *)

Inst(t) == IF t \in Instances THEN t ELSE target[t]
Ask(t) == req' = [req EXCEPT ![t] = "insert"]
Waiting(t) == req[t] \in {"insert", "write", "await"}

ReqInsert(t) ==
  /\ up /\ req[t] = "insert" /\ req' = [req EXCEPT ![t] = "write"]
  /\ pending' = [pending EXCEPT ![Inst(t)] = @ \cup {t}]
  /\ UNCHANGED <<daemonVars, fileVars, mapVars, spc, xpc, childVars, callVars>>

\* Variant: an error of the write is ignored.
ReqWriteAnyway(t) ==
  /\ up /\ req[t] = "write" /\ req' = [req EXCEPT ![t] = "await"]
  /\ UNCHANGED <<daemonVars, fileVars, mapVars, spc, xpc, childVars, pending,
                 callVars>>

\* The line goes into the pipe; nobody reads it any more when the child is dead,
\* and the request fails (its entry stays in pending).
ReqWrite(t) ==
  /\ up /\ req[t] = "write"
  /\ req' = [req EXCEPT ![t] = IF Alive(Inst(t)) THEN "await" ELSE "failed"]
  /\ UNCHANGED <<daemonVars, fileVars, mapVars, spc, xpc, childVars, pending,
                 callVars>>

\* The reader task finds the sender by the response's id.
ChildAnswers(t) ==
  /\ up /\ req[t] = "await" /\ t \in pending[Inst(t)] /\ Alive(Inst(t))
  /\ pending' = [pending EXCEPT ![Inst(t)] = @ \ {t}]
  /\ req' = [req EXCEPT ![t] = "ok"]
  /\ UNCHANGED <<daemonVars, fileVars, mapVars, spc, xpc, childVars, callVars>>

\* 30 seconds without an answer; the entry stays in pending.
ReqTimeout(t) ==
  /\ up /\ req[t] = "await" /\ req' = [req EXCEPT ![t] = "failed"]
  /\ UNCHANGED <<daemonVars, fileVars, mapVars, spc, xpc, childVars, pending,
                 callVars>>

ChildExits(i) ==
  /\ \/ child[i] = "runs" /\ child' = [child EXCEPT ![i] = "exited"]
     \/ child[i] = "orphan" /\ child' = [child EXCEPT ![i] = "none"]
  /\ UNCHANGED <<daemonVars, fileVars, mapVars, spc, xpc, termed, reqVars,
                 callVars>>

\* The exit task of the process: every pending request fails.
ReapChild(i) ==
  /\ up /\ child[i] = "exited" /\ child' = [child EXCEPT ![i] = "reaped"]
  /\ req' = [t \in Requesters |->
               IF t \in pending[i] /\ Waiting(t) THEN "failed" ELSE req[t]]
  /\ pending' = [pending EXCEPT ![i] = {}]
  /\ UNCHANGED <<daemonVars, fileVars, mapVars, spc, xpc, termed, callVars>>

-----------------------------------------------------------------------------
(* Supervisor::spawn *)

Step(i, from, to) == up /\ spc[i] = from /\ spc' = [spc EXCEPT ![i] = to]

SpawnBegins(i) ==
  /\ Step(i, "new", "starting") /\ Load(i)
  /\ UNCHANGED <<daemonVars, mapVars, xpc, childVars, reqVars, callVars>>

SpawnStarting(i) ==
  /\ Step(i, "starting", "exec") /\ Save(i, i, "starting")
  /\ UNCHANGED <<daemonVars, mapVars, xpc, childVars, reqVars, callVars>>

\* RpcProcess::spawn: the binary may be missing.
SpawnProcess(i) ==
  /\ \/ Step(i, "exec", "error") /\ UNCHANGED childVars
     \/ /\ Step(i, "exec", "watch")
        /\ child' = [child EXCEPT ![i] = "runs"] /\ UNCHANGED termed
  /\ UNCHANGED <<daemonVars, fileVars, mapVars, xpc, reqVars, callVars>>

\* on_exit: a watcher registered after the exit was seen never fires.  Then
\* the child is asked for its state.
SpawnWatch(i) ==
  /\ Step(i, "watch", "state")
  /\ xpc' = [xpc EXCEPT ![i] = IF child[i] = "reaped" THEN "deaf" ELSE "wait"]
  /\ Ask(i)
  /\ UNCHANGED <<daemonVars, fileVars, mapVars, childVars, pending, callVars>>

SpawnState(i) ==
  /\ \/ req[i] = "ok" /\ Step(i, "state", "insert")
     \/ req[i] = "failed" /\ Step(i, "state", "error")
  /\ req' = [req EXCEPT ![i] = "none"]
  /\ UNCHANGED <<daemonVars, fileVars, mapVars, xpc, childVars, pending,
                 callVars>>

\* The instance goes into the live map as it is, still starting ...
SpawnInsert(i) ==
  /\ Step(i, "insert", "mark") /\ Unlocked
  /\ live' = [live EXCEPT ![i] = "starting"]
  /\ UNCHANGED <<daemonVars, fileVars, lock, early, xpc, childVars, reqVars,
                 callVars>>

\* Variant: the online record is inserted, not updated.
SpawnMarkInserts(i) ==
  /\ Step(i, "mark", "online") /\ Unlocked
  /\ live' = [live EXCEPT ![i] = "online"]
  /\ Load(i)
  /\ UNCHANGED <<daemonVars, lock, early, xpc, childVars, reqVars, callVars>>

\* ... and is marked online, if it is still there, whatever it was marked as
\* meanwhile.
SpawnMark(i) ==
  /\ Step(i, "mark", "online") /\ Unlocked
  /\ live' = [live EXCEPT ![i] = IF @ = "absent" THEN @ ELSE "online"]
  /\ Load(i)
  /\ UNCHANGED <<daemonVars, lock, early, xpc, childVars, reqVars, callVars>>

SpawnOnline(i) ==
  /\ Step(i, "online", "done") /\ Save(i, i, "online")
  /\ UNCHANGED <<daemonVars, mapVars, xpc, childVars, reqVars, callVars>>

\* A failed spawn is recorded as an error, then as stopped; its child, if it
\* still runs, is left to itself.
SpawnFails(i) ==
  /\ \/ Step(i, "error", "errorSave") /\ Load(i)
     \/ Step(i, "errorSave", "stopped") /\ Save(i, i, "error")
     \/ Step(i, "stopped", "stoppedSave") /\ Load(i)
     \/ Step(i, "stoppedSave", "remove") /\ Save(i, i, "stopped")
  /\ UNCHANGED <<daemonVars, mapVars, xpc, childVars, reqVars, callVars>>

SpawnRemoved(i) ==
  /\ Step(i, "remove", "failed") /\ Unlocked
  /\ live' = [live EXCEPT ![i] = "absent"]
  /\ UNCHANGED <<daemonVars, fileVars, lock, early, xpc, childVars, reqVars,
                 callVars>>

SpawnStep(i) ==
  \/ SpawnStarting(i) \/ SpawnProcess(i) \/ SpawnWatch(i) \/ SpawnState(i)
  \/ SpawnInsert(i) \/ SpawnMark(i) \/ SpawnOnline(i) \/ SpawnFails(i)
  \/ SpawnRemoved(i)

-----------------------------------------------------------------------------
(* The task that watches for an instance's exit. *)

\* Variant: an exit is only noted for an instance that is still starting.
ExitSeenStarting(i) ==
  /\ up /\ xpc[i] = "wait" /\ child[i] = "reaped" /\ Unlocked
  /\ IF live[i] = "starting"
     THEN /\ live' = [live EXCEPT ![i] = "error"]
          /\ lock' = "exit" /\ xpc' = [xpc EXCEPT ![i] = "save"] /\ Load("exit")
     ELSE /\ xpc' = [xpc EXCEPT ![i] = "over"]
          /\ UNCHANGED <<fileVars, live, lock>>
  /\ early' = IF spc[i] = "done" THEN early ELSE early \cup {i}
  /\ UNCHANGED <<daemonVars, spc, childVars, reqVars, callVars>>

\* An instance in the map that nobody is stopping becomes an error.
ExitSeen(i) ==
  /\ up /\ xpc[i] = "wait" /\ child[i] = "reaped" /\ Unlocked
  /\ IF live[i] \notin {"absent", "stopping", "stopped"}
     THEN /\ live' = [live EXCEPT ![i] = "error"]
          /\ lock' = "exit" /\ xpc' = [xpc EXCEPT ![i] = "save"] /\ Load("exit")
     ELSE /\ xpc' = [xpc EXCEPT ![i] = "over"]
          /\ UNCHANGED <<fileVars, live, lock>>
  /\ early' = IF spc[i] = "done" THEN early ELSE early \cup {i}
  /\ UNCHANGED <<daemonVars, spc, childVars, reqVars, callVars>>

ExitSaved(i) ==
  /\ up /\ xpc[i] = "save" /\ xpc' = [xpc EXCEPT ![i] = "over"]
  /\ Save("exit", i, live[i]) /\ lock' = "free"
  /\ UNCHANGED <<daemonVars, live, early, spc, childVars, reqVars, callVars>>

-----------------------------------------------------------------------------
(* Supervisor::stop *)

StopGoes(c, from, to) ==
  up /\ stpc[c] = from /\ stpc' = [stpc EXCEPT ![c] = to]

StopBegins(c) ==
  /\ Unlocked
  /\ LET i == target[c] IN
     \/ /\ live[i] = "absent" /\ StopGoes(c, "idle", "refused")
        /\ UNCHANGED <<fileVars, mapVars>>
     \/ /\ live[i] # "absent" /\ StopGoes(c, "idle", "save")
        /\ live' = [live EXCEPT ![i] = "stopping"]
        /\ lock' = c /\ UNCHANGED early /\ Load(c)
  /\ UNCHANGED <<daemonVars, spc, xpc, childVars, reqVars, target, rpc>>

StopSaved(c) ==
  /\ StopGoes(c, "save", "term")
  /\ Save(c, target[c], "stopping") /\ lock' = "free"
  /\ UNCHANGED <<daemonVars, live, early, spc, xpc, childVars, reqVars,
                 target, rpc>>

\* dispose: SIGTERM, then the child's mutex, which its exit task holds until
\* the child has exited.
StopTerm(c) ==
  /\ StopGoes(c, "term", "wait")
  /\ termed' = [termed EXCEPT ![target[c]] = TRUE]
  /\ UNCHANGED <<daemonVars, fileVars, mapVars, spc, xpc, child, reqVars,
                 target, rpc>>

StopWait(c) ==
  /\ ~Alive(target[c]) /\ StopGoes(c, "wait", "drop")
  /\ UNCHANGED <<daemonVars, fileVars, mapVars, spc, xpc, childVars, reqVars,
                 target, rpc>>

StopDrop(c) ==
  /\ StopGoes(c, "drop", "load") /\ Unlocked
  /\ live' = [live EXCEPT ![target[c]] = "absent"]
  /\ UNCHANGED <<daemonVars, fileVars, lock, early, spc, xpc, childVars,
                 reqVars, target, rpc>>

\* remove_instance, outside the mutex.
StopRemove(c) ==
  /\ \/ StopGoes(c, "load", "remove") /\ Load(c)
     \/ StopGoes(c, "remove", "done") /\ Save(c, target[c], "absent")
  /\ UNCHANGED <<daemonVars, mapVars, spc, xpc, childVars, reqVars, target,
                 rpc>>

StopStep(c) ==
  \/ StopSaved(c) \/ StopTerm(c) \/ StopWait(c) \/ StopDrop(c) \/ StopRemove(c)

-----------------------------------------------------------------------------
(* Supervisor::rpc *)

RpcGoes(r, from, to) == up /\ rpc[r] = from /\ rpc' = [rpc EXCEPT ![r] = to]

\* process_for: an unknown instance is an error.
RpcBegins(r) ==
  /\ Unlocked
  /\ \/ /\ live[target[r]] = "absent" /\ RpcGoes(r, "idle", "done")
        /\ UNCHANGED req
     \/ /\ live[target[r]] # "absent" /\ RpcGoes(r, "idle", "call") /\ Ask(r)
  /\ UNCHANGED <<daemonVars, fileVars, mapVars, spc, xpc, childVars, pending,
                 target, stpc>>

\* The answer is there, or not.  After a command that may have changed the
\* session the child is asked for its state again, if it is still known.
RpcAnswered(r) ==
  /\ \/ req[r] = "failed" /\ RpcGoes(r, "call", "done")
        /\ req' = [req EXCEPT ![r] = "none"]
     \/ req[r] = "ok" /\ RpcGoes(r, "call", "done")
        /\ req' = [req EXCEPT ![r] = "none"]
     \/ /\ req[r] = "ok" /\ Unlocked /\ live[target[r]] # "absent"
        /\ RpcGoes(r, "call", "refresh") /\ Ask(r)
  /\ UNCHANGED <<daemonVars, fileVars, mapVars, spc, xpc, childVars, pending,
                 target, stpc>>

\* maybe_refresh_session: the record goes to the file again, with its new
\* session and the status it has in the map.
RpcRefreshed(r) ==
  /\ \/ req[r] = "failed" /\ RpcGoes(r, "refresh", "done")
     \/ req[r] = "ok" /\ RpcGoes(r, "refresh", "upsert")
  /\ req' = [req EXCEPT ![r] = "none"]
  /\ UNCHANGED <<daemonVars, fileVars, mapVars, spc, xpc, childVars, pending,
                 target, stpc>>

RpcUpsert(r) ==
  /\ Unlocked
  /\ \/ /\ live[target[r]] = "absent" /\ RpcGoes(r, "upsert", "done")
        /\ UNCHANGED <<lock, early, fileVars>>
     \/ /\ live[target[r]] # "absent" /\ RpcGoes(r, "upsert", "save")
        /\ lock' = r /\ Load(r) /\ UNCHANGED early
  /\ UNCHANGED <<daemonVars, live, early, spc, xpc, childVars, reqVars,
                 target, stpc>>

RpcSaved(r) ==
  /\ RpcGoes(r, "save", "done")
  /\ Save(r, target[r], live[target[r]]) /\ lock' = "free"
  /\ UNCHANGED <<daemonVars, live, early, spc, xpc, childVars, reqVars,
                 target, stpc>>

RpcStep(r) == RpcAnswered(r) \/ RpcRefreshed(r) \/ RpcUpsert(r) \/ RpcSaved(r)

-----------------------------------------------------------------------------
(* The daemon crashes and is started again. *)

\* Its tasks and its memory are gone; the file is what was last renamed.  The
\* children lose their pipes and end by themselves.
Crash ==
  /\ up /\ crashes < MaxCrashes
  /\ up' = FALSE /\ crashes' = crashes + 1
  /\ live' = Nothing /\ lock' = "free" /\ early' = {}
  /\ copy' = [t \in Tasks |-> Nothing]
  /\ spc' = [i \in Instances |-> IF spc[i] = "new" THEN "new" ELSE "gone"]
  /\ xpc' = [i \in Instances |-> "none"]
  /\ child' = [i \in Instances |-> IF Alive(i) THEN "orphan" ELSE "none"]
  /\ pending' = [i \in Instances |-> {}]
  /\ req' = [t \in Requesters |-> "none"]
  /\ rpc' = [r \in RpcCalls |-> IF rpc[r] = "idle" THEN "idle" ELSE "done"]
  /\ stpc' = [c \in StopCalls |-> IF stpc[c] \in {"idle", "done"} THEN stpc[c]
                                 ELSE "refused"]
  /\ UNCHANGED <<store, termed, target>>

\* recover_after_restart, before the first connection is accepted.
Recover ==
  /\ ~up /\ up' = TRUE
  /\ store' = [i \in Instances |->
                 IF store[i] \in {"online", "starting"} THEN "stopped"
                 ELSE store[i]]
  /\ UNCHANGED <<crashes, copy, mapVars, spc, xpc, childVars, reqVars,
                 callVars>>

ReqStep(t) == ReqInsert(t) \/ ReqWrite(t) \/ ChildAnswers(t)

DaemonNext ==
  \/ \E i \in Instances :
       \/ SpawnBegins(i) \/ SpawnStep(i) \/ ChildExits(i) \/ ReapChild(i)
       \/ ExitSeen(i) \/ ExitSaved(i)
  \/ \E t \in Requesters : ReqStep(t) \/ ReqTimeout(t)
  \/ \E c \in StopCalls : StopBegins(c) \/ StopStep(c)
  \/ \E r \in RpcCalls : RpcBegins(r) \/ RpcStep(r)
  \/ Crash \/ Recover

DaemonProgress ==
  \/ \E i \in Instances :
       \/ SpawnStep(i) \/ ReapChild(i) \/ ExitSeen(i) \/ ExitSaved(i)
       \/ termed[i] /\ ChildExits(i)
  \/ \E t \in Requesters : ReqInsert(t) \/ ReqWrite(t)
  \/ \E c \in StopCalls : StopStep(c)
  \/ \E r \in RpcCalls : RpcStep(r)

\* The runtime polls its tasks, and a child that gets SIGTERM ends: while some
\* such step is possible, one is taken.  (Each task takes a bounded number of
\* them, so that none of them is left behind.)  A child need not answer or end
\* of itself, and no timeout is needed.
DaemonSpec ==
  DaemonInit /\ [][DaemonNext]_orchVars /\ WF_orchVars(DaemonProgress)

-----------------------------------------------------------------------------
(* What the daemon promises. *)

\* Every variable holds a value of its kind, and only an instance whose child
\* has answered is in the live map.
DaemonTypeOK ==
  /\ \A i \in Instances :
       live[i] # "absent" => spc[i] \in {"mark", "online", "done"}
  /\ up \in BOOLEAN /\ crashes \in 0..MaxCrashes /\ early \subseteq Instances
  /\ {store, live} \subseteq [Instances -> Records]
  /\ copy \in [Tasks -> [Instances -> Records]]
  /\ lock \in {"free"} \cup Tasks
  /\ spc \in [Instances -> SpawnPCs]
  /\ xpc \in [Instances -> {"none", "wait", "deaf", "save", "over"}]
  /\ child \in [Instances -> ChildStates] /\ termed \in [Instances -> BOOLEAN]
  /\ pending \in [Instances -> SUBSET Requesters]
  /\ req \in [Requesters -> ReqPCs]
  /\ target \in [StopCalls \cup RpcCalls -> Instances]
  /\ rpc \in [RpcCalls -> RpcPCs] /\ stpc \in [StopCalls -> StopPCs]

\* A stop that succeeded is final: the child has exited and no client finds
\* the instance again, whatever spawn, exit or refresh was under way.
StopIsFinal ==
  \A c \in StopCalls :
    stpc[c] = "done" => ~Alive(target[c]) /\ live[target[c]] = "absent"

\* Once the daemon has recovered, a record that says starting or online is of
\* an instance of this daemon, never of one that a crash took with it.
NoGhostOnline ==
  up => \A i \in Instances : store[i] \in {"starting", "online"} =>
                                spc[i] \notin {"new", "gone"}

\* What a client can see of an instance is true of its child.
RecordsAreTrue == DaemonTypeOK /\ StopIsFinal /\ NoGhostOnline

\* An instance whose child has died does not stay online once its spawn is done:
\* the exit watcher, however long it waits for the mutex, marks it, or a stop
\* takes it.
\* (One whose exit was seen before that does: SpawnInsert and SpawnMark do not
\* look whether the child is still there.)
DeathIsNoticed ==
  []<>(\A i \in Instances :
         spc[i] = "done" /\ child[i] \in {"exited", "reaped"} =>
           live[i] # "online" \/ i \in early)

\* No request waits for a dead child until its timeout: it was registered
\* before the line was written, so the write fails or the exit answers it.  And
\* a stop comes to its end, if children obey SIGTERM.
CallsEnd ==
  []<>(/\ \A t \in Requesters : Waiting(t) => Alive(Inst(t))
       /\ \A c \in StopCalls : stpc[c] \in {"idle", "done", "refused"})
=============================================================================
