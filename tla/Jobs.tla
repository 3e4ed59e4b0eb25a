-------------------------------- MODULE Jobs --------------------------------
(***************************************************************************)
(* Background jobs: the process-wide JobRegistry (pirs-agent/src/jobs.rs), *)
(* bash jobs and the thread that watches and restarts them, job_kill and   *)
(* job_wait (pirs-tools/src/job_tools.rs) and background sub-agents        *)
(* (pirs-agent/src/delegate.rs).                                           *)
(*                                                                         *)
(* Every actor is a thread or task of its own.  An action is what happens  *)
(* under one lock, or one system call; set_status is two of them, the      *)
(* status and then the wake-up of the waiters.                             *)
(***************************************************************************)
EXTENDS Naturals, FiniteSets

CONSTANTS
  JobIds,       \* ids handed out, 1..n
  Killers,      \* calls of job_kill
  Waiters,      \* calls of job_wait
  Capacity,     \* the registry's bound (256)
  KindsOf,      \* the kinds a job may be of
  MaxGen        \* bound: the processes a job may start

Kinds == {"bash", "restart", "agent"}   \* restart: a bash job, auto_restart

ASSUME JobsAssumption ==
  /\ JobIds \subseteq Nat
  /\ Capacity \in Nat \ {0}
  /\ KindsOf \in [JobIds -> SUBSET Kinds] /\ MaxGen \in [JobIds -> Nat]

VARIABLES
  listed,     \* ids in the registry's map
  kind,       \* kind of a job
  status,     \* JobStatus; "new" before the registration
  jpc,        \* where the job's own thread is
  gen,        \* processes the job has started
  alive,      \* the newest of them still runs
  pid,        \* Job::pid, a process being known by its number; 0 for None
  flag,       \* the stop flag the watcher reads
  flagListed, \* the flag is in stop_flags
  genAtStop,  \* processes started when the flag was raised (for checking)
  slot,       \* Job::cancel is set
  token,      \* the token in that slot is cancelled
  kpc, kjob, kpid,      \* where a kill is, its job, the pid it read
  wpc, wjob, wres,      \* where a wait is, its job, what it returned
  waiting,    \* waiters: senders by job
  notified    \* waits whose sender fired

registryVars == <<listed, kind, status>>
procVars == <<gen, alive, pid>>
stopVars == <<flag, flagListed, genAtStop, slot, token>>
killVars == <<kpc, kjob, kpid>>
waitVars == <<wpc, wjob, wres>>
wakeVars == <<waiting, notified>>
vars == <<registryVars, jpc, procVars, stopVars, killVars, waitVars, wakeVars>>

JobPCs == {"new", "open", "spawned", "recorded", "wait", "reaped", "backoff",
           "respawn", "respawned", "boot", "slot", "prompt", "agent",
           "drain", "over", "stranded"}
KillPCs == {"idle", "stop", "signal", "set", "drain", "killed", "refused"}
WaitPCs == {"idle", "register", "recheck", "sleep", "done"}

Terminal(j) == status[j] \in {"exited", "killed"}

\* Somebody has written the job's final status and not yet woken its waiters.
Draining(j) ==
  jpc[j] = "drain" \/ \E k \in Killers : kpc[k] = "drain" /\ kjob[k] = j

Init ==
  /\ listed = {} /\ kind = [j \in JobIds |-> "bash"]
  /\ status = [j \in JobIds |-> "new"] /\ jpc = [j \in JobIds |-> "new"]
  /\ gen = [j \in JobIds |-> 0] /\ alive = [j \in JobIds |-> FALSE]
  /\ pid = [j \in JobIds |-> 0]
  /\ flag = [j \in JobIds |-> FALSE] /\ flagListed = [j \in JobIds |-> FALSE]
  /\ genAtStop = [j \in JobIds |-> 0]
  /\ slot = [j \in JobIds |-> FALSE] /\ token = [j \in JobIds |-> FALSE]
  /\ kpc = [k \in Killers |-> "idle"] /\ kjob = [k \in Killers |-> 0]
  /\ kpid = [k \in Killers |-> 0]
  /\ wpc = [w \in Waiters |-> "idle"] /\ wjob = [w \in Waiters |-> 0]
  /\ wres = [w \in Waiters |-> "none"]
  /\ waiting = [j \in JobIds |-> {}] /\ notified = {}

-----------------------------------------------------------------------------
(* The registry. *)

\* Variant: the oldest jobs are evicted, finished or not.
EvictedOldest(ids) ==
  {j \in ids : Cardinality({i \in ids : i < j}) <=
                 Cardinality(ids) - Capacity}

\* At capacity the oldest finished jobs make room for the next one.
Evicted(ids) ==
  LET finished == {j \in ids : Terminal(j)} IN
  {j \in finished : Cardinality(ids) >= Capacity
     /\ Cardinality({i \in finished : i < j}) <= Cardinality(ids) - Capacity}

\* register: ids are handed out in order.
Register(j, k) ==
  /\ status[j] = "new" /\ \A i \in JobIds : i < j => status[i] # "new"
  /\ listed' = (listed \ Evicted(listed)) \cup {j}
  /\ kind' = [kind EXCEPT ![j] = k]
  /\ status' = [status EXCEPT ![j] = "running"]
  /\ jpc' = [jpc EXCEPT ![j] = IF k = "agent" THEN "boot" ELSE "open"]
  /\ UNCHANGED <<procVars, stopVars, killVars, waitVars, wakeVars>>

\* set_status, first half: an evicted job keeps what it had.
SetStatus(j, s) ==
  /\ status' = IF j \in listed THEN [status EXCEPT ![j] = s] ELSE status
  /\ UNCHANGED <<listed, kind>>

\* set_status, second half: drop the stop flag, fire the waiters' senders.
Drain(j) ==
  /\ flagListed' = [flagListed EXCEPT ![j] = FALSE]
  /\ notified' = notified \cup waiting[j]
  /\ waiting' = [waiting EXCEPT ![j] = {}]
  /\ UNCHANGED <<registryVars, flag, genAtStop, slot, token>>

Go(j, to) == jpc' = [jpc EXCEPT ![j] = to]

-----------------------------------------------------------------------------
(* spawn_bash_job and the watcher thread. *)

\* The log file is created and the shell spawned; either may fail, and the
\* error goes to the model with the job already registered.
Spawn(j) ==
  /\ jpc[j] = "open"
  /\ \/ Go(j, "stranded") /\ UNCHANGED procVars
     \/ /\ gen' = [gen EXCEPT ![j] = 1] /\ alive' = [alive EXCEPT ![j] = TRUE]
        /\ Go(j, "spawned") /\ UNCHANGED pid
  /\ UNCHANGED <<registryVars, stopVars, killVars, waitVars, wakeVars>>

RecordPid(j) ==
  /\ jpc[j] = "spawned" /\ Go(j, "recorded")
  /\ pid' = [pid EXCEPT ![j] = gen[j]]
  /\ UNCHANGED <<registryVars, gen, alive, stopVars, killVars, waitVars,
                 wakeVars>>

RegisterStopFlag(j) ==
  /\ jpc[j] = "recorded" /\ Go(j, "wait")
  /\ flagListed' = [flagListed EXCEPT ![j] = TRUE]
  /\ UNCHANGED <<registryVars, procVars, flag, genAtStop, slot, token,
                 killVars, waitVars, wakeVars>>

\* The process ends on its own.
ProcessExits(j) ==
  /\ alive[j] /\ alive' = [alive EXCEPT ![j] = FALSE]
  /\ UNCHANGED <<registryVars, jpc, gen, pid, stopVars, killVars, waitVars,
                 wakeVars>>

Reap(j) ==
  /\ jpc[j] = "wait" /\ ~alive[j] /\ Go(j, "reaped")
  /\ UNCHANGED <<registryVars, procVars, stopVars, killVars, waitVars,
                 wakeVars>>

\* Variant: the watcher looks its flag up in stop_flags.
StoppedListed(j) == flag[j] /\ flagListed[j]

\* The watcher reads its own reference to the flag.
Stopped(j) == flag[j]

\* After an exit: stopped, done, or off to the backoff.
AfterExit(j) ==
  /\ jpc[j] = "reaped"
  /\ \/ Stopped(j) /\ SetStatus(j, "killed") /\ Go(j, "drain")
     \/ /\ ~Stopped(j) /\ kind[j] = "bash"
        /\ SetStatus(j, "exited") /\ Go(j, "drain")
     \/ /\ ~Stopped(j) /\ kind[j] = "restart" /\ Go(j, "backoff")
        /\ UNCHANGED registryVars
  /\ UNCHANGED <<procVars, stopVars, killVars, waitVars, wakeVars>>

\* The flag is looked at during the backoff, for the last time before its end.
Backoff(j) ==
  /\ jpc[j] = "backoff"
  /\ IF Stopped(j) THEN SetStatus(j, "killed") /\ Go(j, "drain")
     ELSE Go(j, "respawn") /\ UNCHANGED registryVars
  /\ UNCHANGED <<procVars, stopVars, killVars, waitVars, wakeVars>>

\* The log is reopened and the shell spawned again.  A log that cannot be
\* opened ends the thread, a shell that cannot be spawned the job.
Respawn(j) ==
  /\ jpc[j] = "respawn"
  /\ \/ Go(j, "stranded") /\ UNCHANGED <<registryVars, gen, alive>>
     \/ /\ SetStatus(j, "exited") /\ Go(j, "drain")
        /\ UNCHANGED <<gen, alive>>
     \/ /\ gen[j] < MaxGen[j]
        /\ gen' = [gen EXCEPT ![j] = @ + 1]
        /\ alive' = [alive EXCEPT ![j] = TRUE]
        /\ Go(j, "respawned") /\ UNCHANGED registryVars
  /\ UNCHANGED <<pid, stopVars, killVars, waitVars, wakeVars>>

RepublishPid(j) ==
  /\ jpc[j] = "respawned" /\ Go(j, "wait")
  /\ pid' = IF j \in listed THEN [pid EXCEPT ![j] = gen[j]] ELSE pid
  /\ UNCHANGED <<registryVars, gen, alive, stopVars, killVars, waitVars,
                 wakeVars>>

JobDrain(j) ==
  /\ jpc[j] = "drain" /\ Drain(j) /\ Go(j, "over")
  /\ UNCHANGED <<procVars, killVars, waitVars>>

-----------------------------------------------------------------------------
(* A background sub-agent: its thread builds a runtime, publishes the cancel *)
(* slot and prompts; the prompt mints the run's token into the slot.         *)

AgentBoots(j) ==
  /\ jpc[j] = "boot"
  /\ \/ Go(j, "slot") /\ UNCHANGED registryVars
     \/ SetStatus(j, "exited") /\ Go(j, "drain")
  /\ UNCHANGED <<procVars, stopVars, killVars, waitVars, wakeVars>>

AgentSlot(j) ==
  /\ jpc[j] = "slot" /\ Go(j, "prompt")
  /\ slot' = [slot EXCEPT ![j] = j \in listed]
  /\ UNCHANGED <<registryVars, procVars, flag, flagListed, genAtStop, token,
                 killVars, waitVars, wakeVars>>

AgentPrompts(j) ==
  /\ jpc[j] = "prompt" /\ Go(j, "agent")
  /\ token' = [token EXCEPT ![j] = FALSE]
  /\ alive' = [alive EXCEPT ![j] = TRUE]
  /\ UNCHANGED <<registryVars, gen, pid, flag, flagListed, genAtStop, slot,
                 killVars, waitVars, wakeVars>>

\* The run returns: at its end, on a budget, on an error or cancelled.
AgentEnds(j) ==
  /\ jpc[j] = "agent"
  /\ alive' = [alive EXCEPT ![j] = FALSE]
  /\ SetStatus(j, "exited") /\ Go(j, "drain")
  /\ UNCHANGED <<gen, pid, stopVars, killVars, waitVars, wakeVars>>

-----------------------------------------------------------------------------
(* job_kill. *)

\* Look the job up and read pid, kind and status; a finished job is left alone.
KillRead(k, j) ==
  /\ kpc[k] = "idle" /\ status[j] # "new"
  /\ kjob' = [kjob EXCEPT ![k] = j] /\ kpid' = [kpid EXCEPT ![k] = pid[j]]
  /\ kpc' = [kpc EXCEPT ![k] = IF j \in listed /\ status[j] = "running"
                               THEN "stop" ELSE "refused"]
  /\ UNCHANGED <<registryVars, jpc, procVars, stopVars, waitVars, wakeVars>>

\* request_stop raises the flag if it is registered by now.
KillStop(k) ==
  /\ kpc[k] = "stop" /\ kpc' = [kpc EXCEPT ![k] = "signal"]
  /\ LET j == kjob[k] IN
     IF flagListed[j]
     THEN /\ flag' = [flag EXCEPT ![j] = TRUE]
          /\ genAtStop' = IF flag[j] THEN genAtStop
                          ELSE [genAtStop EXCEPT ![j] = gen[j]]
     ELSE UNCHANGED <<flag, genAtStop>>
  /\ UNCHANGED <<registryVars, jpc, procVars, flagListed, slot, token, kjob,
                 kpid, waitVars, wakeVars>>

\* A bash job: SIGKILL to the process group of the pid that was read.  An
\* agent: cancel the token in the slot, if there is one.
KillSignal(k) ==
  /\ kpc[k] = "signal" /\ kpc' = [kpc EXCEPT ![k] = "set"]
  /\ LET j == kjob[k] IN
     /\ alive' = [alive EXCEPT ![j] =
                    @ /\ (kind[j] = "agent" \/ kpid[k] # gen[j])]
     /\ token' = [token EXCEPT ![j] = @ \/ slot[j]]
  /\ UNCHANGED <<registryVars, jpc, gen, pid, flag, flagListed, genAtStop,
                 slot, kjob, kpid, waitVars, wakeVars>>

KillSet(k) ==
  /\ kpc[k] = "set" /\ kpc' = [kpc EXCEPT ![k] = "drain"]
  /\ SetStatus(kjob[k], "killed")
  /\ UNCHANGED <<jpc, procVars, stopVars, kjob, kpid, waitVars, wakeVars>>

KillDrain(k) ==
  /\ kpc[k] = "drain" /\ kpc' = [kpc EXCEPT ![k] = "killed"]
  /\ Drain(kjob[k])
  /\ UNCHANGED <<jpc, procVars, kjob, kpid, waitVars>>

-----------------------------------------------------------------------------
(* job_wait: JobRegistry::wait. *)

\* A look at the job: return what is final or gone, else go on.
Look(w, j, next) ==
  LET return(r) == /\ wpc' = [wpc EXCEPT ![w] = "done"]
                   /\ wres' = [wres EXCEPT ![w] = r]
  IN IF j \notin listed THEN return("gone")
     ELSE IF Terminal(j) THEN return(status[j])
     ELSE wpc' = [wpc EXCEPT ![w] = next] /\ UNCHANGED wres

WaitCheck(w, j) ==
  /\ wpc[w] = "idle" /\ status[j] # "new"
  /\ wjob' = [wjob EXCEPT ![w] = j]
  /\ Look(w, j, "register")
  /\ UNCHANGED <<registryVars, jpc, procVars, stopVars, killVars, wakeVars>>

WaitRegister(w) ==
  /\ wpc[w] = "register" /\ wpc' = [wpc EXCEPT ![w] = "recheck"]
  /\ waiting' = [waiting EXCEPT ![wjob[w]] = @ \cup {w}]
  /\ UNCHANGED <<registryVars, jpc, procVars, stopVars, killVars, wjob, wres,
                 notified>>

\* Variant: straight to sleep after the registration.
WaitRecheckNot(w) ==
  /\ wpc[w] = "recheck" /\ wpc' = [wpc EXCEPT ![w] = "sleep"]
  /\ UNCHANGED <<registryVars, jpc, procVars, stopVars, killVars, wjob, wres,
                 wakeVars>>

WaitRecheck(w) ==
  /\ wpc[w] = "recheck" /\ Look(w, wjob[w], "sleep")
  /\ UNCHANGED <<registryVars, jpc, procVars, stopVars, killVars, wjob,
                 wakeVars>>

\* The sender fired: look again, and go round if the job is not final.
WaitWake(w) ==
  /\ wpc[w] = "sleep" /\ w \in notified
  /\ Look(w, wjob[w], "register")
  /\ notified' = notified \ {w}
  /\ UNCHANGED <<registryVars, jpc, procVars, stopVars, killVars, wjob,
                 waiting>>

\* Variant: after the timeout the status is returned, whatever it is.
WaitTimeoutStatus(w) ==
  /\ wpc[w] \in {"recheck", "sleep"}
  /\ wpc' = [wpc EXCEPT ![w] = "done"]
  /\ wres' = [wres EXCEPT ![w] = status[wjob[w]]]
  /\ UNCHANGED <<registryVars, jpc, procVars, stopVars, killVars, wjob,
                 wakeVars>>

\* The timeout passes.
WaitTimeout(w) ==
  /\ wpc[w] \in {"recheck", "sleep"}
  /\ wpc' = [wpc EXCEPT ![w] = "done"]
  /\ wres' = [wres EXCEPT ![w] = "timeout"]
  /\ UNCHANGED <<registryVars, jpc, procVars, stopVars, killVars, wjob,
                 wakeVars>>

-----------------------------------------------------------------------------
JobStep(j) ==
  \/ Spawn(j) \/ RecordPid(j) \/ RegisterStopFlag(j) \/ Reap(j)
  \/ AfterExit(j) \/ Backoff(j) \/ Respawn(j) \/ RepublishPid(j)
  \/ AgentBoots(j) \/ AgentSlot(j) \/ AgentPrompts(j) \/ AgentEnds(j)
  \/ JobDrain(j)

KillStep(k) == KillStop(k) \/ KillSignal(k) \/ KillSet(k) \/ KillDrain(k)

WaitStep(w) == WaitRegister(w) \/ WaitRecheck(w) \/ WaitWake(w)

Next ==
  \/ \E j \in JobIds : \/ JobStep(j) \/ ProcessExits(j)
                       \/ \E k \in KindsOf[j] : Register(j, k)
  \/ \E k \in Killers : KillStep(k) \/ \E j \in JobIds : KillRead(k, j)
  \/ \E w \in Waiters : \/ WaitStep(w) \/ WaitTimeout(w)
                        \/ \E j \in JobIds : WaitCheck(w, j)

Spec == Init /\ [][Next]_vars

Progress ==
  \/ \E j \in JobIds : JobStep(j)
  \/ \E k \in Killers : KillStep(k)
  \/ \E w \in Waiters : WaitStep(w)

\* Threads and tasks are scheduled and a sub-agent's run ends (its budgets are
\* finite): while some thread can go on, one does.  (Each takes a bounded number
\* of steps.)  A process need not end, nor a timeout come.
FairSpec == Spec /\ WF_vars(Progress)

-----------------------------------------------------------------------------
(* What the registry and its users promise. *)

\* Every variable holds a value of its kind.
TypeOK ==
  /\ listed \subseteq JobIds
  /\ kind \in [JobIds -> Kinds]
  /\ status \in [JobIds -> {"new", "running", "exited", "killed"}]
  /\ jpc \in [JobIds -> JobPCs]
  /\ gen \in [JobIds -> Nat] /\ alive \in [JobIds -> BOOLEAN]
  /\ pid \in [JobIds -> Nat]
  /\ flag \in [JobIds -> BOOLEAN] /\ flagListed \in [JobIds -> BOOLEAN]
  /\ genAtStop \in [JobIds -> Nat]
  /\ slot \in [JobIds -> BOOLEAN] /\ token \in [JobIds -> BOOLEAN]
  /\ kpc \in [Killers -> KillPCs] /\ kjob \in [Killers -> JobIds \cup {0}]
  /\ kpid \in [Killers -> Nat]
  /\ wpc \in [Waiters -> WaitPCs] /\ wjob \in [Waiters -> JobIds \cup {0}]
  /\ wres \in [Waiters -> {"none", "exited", "killed", "gone", "timeout"}]
  /\ waiting \in [JobIds -> SUBSET Waiters] /\ notified \subseteq Waiters
  /\ \A k \in Killers : kpc[k] # "idle" => kjob[k] \in JobIds
  /\ \A w \in Waiters : wpc[w] # "idle" => wjob[w] \in JobIds

\* A job that runs is listed, however full the registry: the tools reach it.
RunningListed ==
  \A j \in JobIds : status[j] = "running" => j \in listed

\* No wait sleeps through the end of its job: its sender fired, or whoever
\* wrote the final status is about to fire it (jobs.rs:163-164).
NoLostWakeup ==
  \A w \in Waiters :
    wpc[w] = "sleep" /\ Terminal(wjob[w]) =>
      w \in notified \/ Draining(wjob[w])

\* An exit that is reported is final: nothing of the job runs any more.
ExitedIsOver ==
  \A j \in JobIds :
    status[j] = "exited" => ~alive[j] /\ jpc[j] \in {"drain", "over"}

\* A kill that has answered ended the process whose pid it read, even while
\* the watcher publishes a new one.
KillHitsWhatItRead ==
  \A k \in Killers :
    LET j == kjob[k] IN
    kpc[k] = "killed" /\ kpid[k] # 0 /\ kpid[k] = gen[j] => ~alive[j]

\* After the stop flag is raised a job that restarts starts at most the one
\* process its watcher was about to start.
AtMostOneRespawn ==
  \A j \in JobIds : flag[j] => gen[j] <= genAtStop[j] + 1

\* The status the tools show is the truth about the job.
StatusIsTrue == RunningListed /\ ExitedIsOver

\* A kill costs the job the process it aimed at and, at most, lets through the
\* one that the watcher was about to start.
KillsWork == KillHitsWhatItRead /\ AtMostOneRespawn

\* A wait on a finished job returns, without help from its timeout.
WaitsOver ==
  \A w \in Waiters : wpc[w] # "idle" /\ Terminal(wjob[w]) => wpc[w] = "done"

\* Neither a bash job that does not restart and whose process has ended, nor a
\* sub-agent, is stranded as running (delegate.rs:178).
EndedSettled ==
  \A j \in JobIds :
    \/ kind[j] = "bash" /\ jpc[j] \in {"wait", "reaped", "over"} /\ ~alive[j]
    \/ kind[j] = "agent" /\ jpc[j] # "new"
    => Terminal(j)

\* Nobody waits for ever for a job that has ended, and each job that ends is
\* settled: neither debt is carried for ever.
JobsAndWaitsEnd == []<>(WaitsOver /\ EndedSettled)
=============================================================================
