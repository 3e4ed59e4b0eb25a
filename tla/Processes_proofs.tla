--------------------------- MODULE Processes_proofs ---------------------------
(***************************************************************************)
(* The processes that outlive a turn: background jobs (Jobs), the daemon   *)
(* that runs instances (Orchestrator), and the clients bridged to one      *)
(* (Bridge).  They share no state, so each has an invariant of its own.    *)
(***************************************************************************)
EXTENDS Jobs, Orchestrator, Bridge, FiniteSetTheorems, TLAPS

-----------------------------------------------------------------------------
(***************************************************************************)
(* Proofs about background jobs, for any number of jobs, kills and waits   *)
(* and any capacity of the registry: types, no running job evicted, no     *)
(* wake-up lost, reported exits final, kills that hit what they read, and  *)
(* at most one process started after a stop.                               *)
(*                                                                         *)
(* Inv strengthens them by what each thread knows where it is: which       *)
(* places of a job have no process (Quiet), where a sleeping wait has its  *)
(* sender (Wakeup), how the pids compare with the processes started        *)
(* (Pids), and that a flag raised before the respawn was seen (Flags).     *)
(***************************************************************************)

AgentPCs == {"boot", "slot", "prompt", "agent"}
ShellPCs == {"open", "spawned", "recorded", "wait", "reaped", "backoff",
             "respawn", "respawned"}

\* A job is new until it is registered, and is then at a place of its kind.
Places ==
  \A j \in JobIds :
    /\ status[j] = "new" <=> jpc[j] = "new"
    /\ jpc[j] \in AgentPCs => kind[j] = "agent"
    /\ jpc[j] \in ShellPCs => kind[j] # "agent"

\* No process or run where the thread has none started or has seen it end.
Quiet ==
  \A j \in JobIds :
    /\ alive[j] => jpc[j] \in {"spawned", "recorded", "wait", "respawned", "agent"}
    /\ status[j] = "exited" => jpc[j] \in {"drain", "over"}

\* A wait about to sleep has its sender in waiters, or the sender has fired.
Wakeup ==
  /\ \A w \in Waiters :
       wpc[w] \in {"recheck", "sleep"} =>
         w \in waiting[wjob[w]] \/ w \in notified
  /\ NoLostWakeup

\* What a kill knows of its job: a pid not from the future, none of an agent,
\* and past its signal one whose process has ended.
KillKnows(k) ==
  LET j == kjob[k] IN
  /\ status[j] # "new"
  /\ kpid[k] <= gen[j]
  /\ kind[j] = "agent" => kpid[k] = 0
  /\ kpc[k] \in {"set", "drain", "killed"} /\ kpid[k] # 0 /\ kpid[k] = gen[j]
       => ~alive[j]

\* Pids are those of processes started, and only shells have one.
Pids ==
  /\ \A j \in JobIds :
       /\ pid[j] <= gen[j]
       /\ jpc[j] \in {"new", "open"} => gen[j] = 0
       /\ kind[j] = "agent" \/ jpc[j] = "new" => pid[j] = 0
  /\ \A k \in Killers : kpc[k] # "idle" => KillKnows(k)

\* A watcher on its way to a respawn has not seen the flag only if it was
\* raised after the last look.
Flags ==
  \A j \in JobIds : flag[j] =>
    gen[j] <= genAtStop[j] + (IF jpc[j] = "respawn" THEN 0 ELSE 1)

Inv ==
  /\ TypeOK /\ Places /\ RunningListed /\ Quiet /\ Wakeup /\ Pids /\ Flags

-----------------------------------------------------------------------------
\* The initial states satisfy the invariant.
LEMMA InitInv == Init => Inv
<1> SUFFICES ASSUME Init PROVE Inv
  OBVIOUS
<1> USE JobsAssumption DEF Init
<1>1. TypeOK
  BY DEF TypeOK, Kinds, JobPCs, KillPCs, WaitPCs
<1>2. Places /\ RunningListed /\ Quiet
  BY DEF Places, RunningListed, Quiet, AgentPCs, ShellPCs
<1>3. Wakeup /\ Pids /\ Flags
  BY DEF Wakeup, NoLostWakeup, Pids, Flags
<1>4. QED
  BY <1>1, <1>2, <1>3 DEF Inv

\* The thread of a job goes on, and may write a final status on its way to the
\* waiters.
Moves(j) ==
  \E to \in JobPCs \ {"new", "open"} :
    /\ jpc[j] \notin {"new", "drain"} /\ jpc' = [jpc EXCEPT ![j] = to]
    /\ \/ status' = status
       \/ /\ to = "drain"
          /\ \E s \in {"exited", "killed"} : status' = [status EXCEPT ![j] = s]

\* Such a step keeps types ...
LEMMA MoveTyped ==
  ASSUME TypeOK, NEW j \in JobIds, Moves(j)
  PROVE  /\ jpc' \in [JobIds -> JobPCs]
         /\ status' \in [JobIds -> {"new", "running", "exited", "killed"}]
<1> HIDE DEF JobPCs
<1>1. jpc' \in [JobIds -> JobPCs]
  BY DEF Moves, TypeOK
<1>2. status' \in [JobIds -> {"new", "running", "exited", "killed"}]
  BY DEF Moves, TypeOK
<1>3. QED
  BY <1>1, <1>2

\* ... loses no wake-up, as a final status leads to the draining of the waiters ...
LEMMA MoveWakes ==
  ASSUME TypeOK, Wakeup, NEW j \in JobIds, Moves(j),
         UNCHANGED <<killVars, waitVars, wakeVars>>
  PROVE  Wakeup'
<1> USE DEF killVars, waitVars, wakeVars
<1>1. \A w \in Waiters : wpc'[w] \in {"recheck", "sleep"} =>
        w \in waiting'[wjob'[w]] \/ w \in notified'
  BY DEF Wakeup
<1>2. ASSUME NEW i \in JobIds, Terminal(i)'
      PROVE  Terminal(i) \/ Draining(i)'
  BY <1>2 DEF Moves, TypeOK, Terminal, Draining
<1>3. ASSUME NEW i \in JobIds, Draining(i) PROVE Draining(i)'
  BY <1>3 DEF Moves, TypeOK, Draining
<1>4. NoLostWakeup'
  BY <1>2, <1>3 DEF Wakeup, NoLostWakeup, TypeOK
<1>5. QED
  BY <1>1, <1>4 DEF Wakeup

\* ... and changes nothing about pids.
LEMMA MovePids ==
  ASSUME TypeOK, Places, Pids, NEW j \in JobIds, Moves(j),
         UNCHANGED <<kind, procVars, killVars>>
  PROVE  Pids'
<1> USE DEF killVars, procVars
<1>1. \A i \in JobIds : /\ jpc'[i] \in {"new", "open"} => jpc'[i] = jpc[i]
                        /\ status'[i] = "new" <=> status[i] = "new"
  BY DEF Moves, Places, TypeOK
<1>2. QED
  BY <1>1 DEF Pids, KillKnows, TypeOK

\* Every step preserves the invariant.
LEMMA NextInv == Inv /\ [Next]_vars => Inv'
<1> SUFFICES ASSUME Inv, [Next]_vars PROVE Inv'
  OBVIOUS
<1> USE JobsAssumption DEF Inv, registryVars, procVars, stopVars, killVars, waitVars, wakeVars
<1>1. ASSUME NEW j \in JobIds, NEW k \in KindsOf[j], Register(j, k) PROVE Inv'
  <2>1. TypeOK'
    BY <1>1 DEF Register, Evicted, Terminal, TypeOK, Kinds, JobPCs, KillPCs, WaitPCs
  <2>2. Places'
    BY <1>1 DEF Register, Evicted, Terminal, TypeOK, Places, AgentPCs, ShellPCs
  <2>3. RunningListed'
    BY <1>1 DEF Register, Evicted, Terminal, TypeOK, RunningListed
  <2>4. Quiet'
    BY <1>1 DEF Register, Evicted, Terminal, TypeOK, Places, Quiet, AgentPCs, ShellPCs
  <2>5. Wakeup'
    BY <1>1 DEF Register, Evicted, Terminal, TypeOK, Places, Wakeup, NoLostWakeup, Draining
  <2>6. Pids'
    BY <1>1 DEF Register, Evicted, Terminal, TypeOK, Places, Quiet, Pids, KillKnows, AgentPCs, ShellPCs
  <2>7. Flags'
    BY <1>1 DEF Register, Evicted, Terminal, TypeOK, Flags
  <2>8. QED
    BY <2>1, <2>2, <2>3, <2>4, <2>5, <2>6, <2>7
<1>2. ASSUME NEW j \in JobIds, Spawn(j) PROVE Inv'
  <2>0. Moves(j) /\ UNCHANGED <<registryVars, pid, stopVars, killVars, waitVars, wakeVars>>
    BY <1>2 DEF Spawn, Go, Moves, JobPCs
  <2>1. TypeOK'
    <3>1. gen' \in [JobIds -> Nat]
      BY <1>2 DEF Spawn, TypeOK
    <3>2. alive' \in [JobIds -> BOOLEAN]
      BY <1>2 DEF Spawn, TypeOK
    <3>3. QED
      BY <2>0, <3>1, <3>2, MoveTyped DEF TypeOK
  <2>2. Places'
    BY <1>2 DEF Spawn, Go, TypeOK, Places, AgentPCs, ShellPCs
  <2>3. Quiet'
    BY <1>2 DEF Spawn, Go, TypeOK, Places, Quiet, AgentPCs, ShellPCs
  <2>4. Wakeup'
    BY <2>0, MoveWakes
  <2>5. Pids'
    <3>1. CASE UNCHANGED procVars
      BY <2>0, <3>1, MovePids
    <3>2. CASE ~UNCHANGED procVars
      <4>1. /\ gen' = [gen EXCEPT ![j] = 1] /\ status' = status
            /\ alive' = [alive EXCEPT ![j] = TRUE]
            /\ \E to \in ShellPCs \ {"open"} : jpc' = [jpc EXCEPT ![j] = to]
        BY <1>2, <3>2 DEF Spawn, Go, ShellPCs
      <4>2. kind[j] # "agent" /\ status[j] # "new" /\ gen[j] = 0
        BY <1>2 DEF Spawn, Places, Pids, ShellPCs
      <4>3. \A i \in JobIds : /\ pid'[i] <= gen'[i]
                              /\ jpc'[i] \in {"new", "open"} => gen'[i] = 0
                              /\ kind'[i] = "agent" \/ jpc'[i] = "new" => pid'[i] = 0
        BY <2>0, <4>1, <4>2 DEF TypeOK, Pids, ShellPCs
      <4>4. \A i \in Killers : kpc[i] # "idle" /\ kjob[i] = j => kpid[i] < gen'[j] \/ kpid[i] = 0
        BY <4>1, <4>2 DEF TypeOK, Pids, KillKnows
      <4>5. ASSUME NEW i \in Killers, kpc'[i] # "idle"
            PROVE  KillKnows(i)'
        <5>1. /\ UNCHANGED <<kpc, kjob, kpid, kind, status>>
              /\ kjob[i] \in JobIds /\ kpid[i] \in Nat
          BY <2>0, <4>1, <4>5 DEF TypeOK
        <5>2. CASE kjob[i] = j
          <6>1. gen'[j] \in Nat
            BY <4>1 DEF TypeOK
          <6>2. QED
            BY <4>2, <4>4, <4>5, <5>1, <5>2, <6>1 DEF Pids, KillKnows
        <5>3. CASE kjob[i] # j
          <6>1. gen'[kjob[i]] = gen[kjob[i]] /\ alive'[kjob[i]] = alive[kjob[i]]
            BY <4>1, <5>1, <5>3 DEF TypeOK
          <6>2. QED
            BY <4>5, <5>1, <6>1 DEF Pids, KillKnows
        <5>4. QED
          BY <5>2, <5>3
      <4>6. \A i \in Killers : kpc'[i] # "idle" => KillKnows(i)'
        BY <4>5
      <4>7. QED
        BY <4>3, <4>6 DEF Pids
    <3>3. QED
      BY <3>1, <3>2
  <2>6. Flags'
    BY <1>2 DEF Spawn, Go, TypeOK, Flags
  <2>7. RunningListed'
    BY <1>2 DEF Spawn, Go, RunningListed
  <2>8. QED
    BY <2>1, <2>2, <2>3, <2>4, <2>5, <2>6, <2>7
<1>3. ASSUME NEW j \in JobIds, RecordPid(j) PROVE Inv'
  <2>1. TypeOK'
    BY <1>3 DEF RecordPid, Go, TypeOK, Kinds, JobPCs, KillPCs, WaitPCs
  <2>2. Places'
    BY <1>3 DEF RecordPid, Go, TypeOK, Places, AgentPCs, ShellPCs
  <2>3. Quiet'
    BY <1>3 DEF RecordPid, Go, TypeOK, Places, Quiet, AgentPCs, ShellPCs
  <2>4. Wakeup'
    BY <1>3 DEF RecordPid, Go, TypeOK, Places, Wakeup, NoLostWakeup, Draining, Terminal
  <2>5. Pids'
    BY <1>3 DEF RecordPid, Go, TypeOK, Places, Quiet, Pids, KillKnows, AgentPCs, ShellPCs
  <2>6. Flags'
    BY <1>3 DEF RecordPid, Go, TypeOK, Flags
  <2>7. RunningListed'
    BY <1>3 DEF RecordPid, Go, RunningListed
  <2>8. QED
    BY <2>1, <2>2, <2>3, <2>4, <2>5, <2>6, <2>7
<1>4. ASSUME NEW j \in JobIds, RegisterStopFlag(j) PROVE Inv'
  <2>1. TypeOK'
    BY <1>4 DEF RegisterStopFlag, Go, TypeOK, Kinds, JobPCs, KillPCs, WaitPCs
  <2>2. Places'
    BY <1>4 DEF RegisterStopFlag, Go, TypeOK, Places, AgentPCs, ShellPCs
  <2>3. Quiet'
    BY <1>4 DEF RegisterStopFlag, Go, TypeOK, Places, Quiet, AgentPCs, ShellPCs
  <2>4. Wakeup'
    BY <1>4 DEF RegisterStopFlag, Go, TypeOK, Places, Wakeup, NoLostWakeup, Draining, Terminal
  <2>5. Pids'
    BY <1>4 DEF RegisterStopFlag, Go, TypeOK, Places, Quiet, Pids, KillKnows, AgentPCs, ShellPCs
  <2>6. Flags'
    BY <1>4 DEF RegisterStopFlag, Go, TypeOK, Flags
  <2>7. RunningListed'
    BY <1>4 DEF RegisterStopFlag, Go, RunningListed
  <2>8. QED
    BY <2>1, <2>2, <2>3, <2>4, <2>5, <2>6, <2>7
<1>5. ASSUME NEW j \in JobIds, ProcessExits(j) PROVE Inv'
  <2>1. TypeOK'
    BY <1>5 DEF ProcessExits, TypeOK, Kinds, JobPCs, KillPCs, WaitPCs
  <2>2. Quiet'
    BY <1>5 DEF ProcessExits, TypeOK, Places, Quiet, AgentPCs, ShellPCs
  <2>3. Pids'
    BY <1>5 DEF ProcessExits, TypeOK, Places, Quiet, Pids, KillKnows, AgentPCs, ShellPCs
  <2>4. Places' /\ RunningListed' /\ Wakeup' /\ Flags'
    BY <1>5 DEF ProcessExits, Places, RunningListed, Wakeup, Flags, NoLostWakeup, Draining, Terminal
  <2>5. QED
    BY <2>1, <2>2, <2>3, <2>4
<1>6. ASSUME NEW j \in JobIds, Reap(j) PROVE Inv'
  <2>1. TypeOK'
    BY <1>6 DEF Reap, Go, TypeOK, Kinds, JobPCs, KillPCs, WaitPCs
  <2>2. Places'
    BY <1>6 DEF Reap, Go, TypeOK, Places, AgentPCs, ShellPCs
  <2>3. Quiet'
    BY <1>6 DEF Reap, Go, TypeOK, Places, Quiet, AgentPCs, ShellPCs
  <2>4. Wakeup'
    BY <1>6 DEF Reap, Go, TypeOK, Places, Wakeup, NoLostWakeup, Draining, Terminal
  <2>5. Pids'
    BY <1>6 DEF Reap, Go, TypeOK, Places, Quiet, Pids, KillKnows, AgentPCs, ShellPCs
  <2>6. Flags'
    BY <1>6 DEF Reap, Go, TypeOK, Flags
  <2>7. RunningListed'
    BY <1>6 DEF Reap, Go, RunningListed
  <2>8. QED
    BY <2>1, <2>2, <2>3, <2>4, <2>5, <2>6, <2>7
<1>7. ASSUME NEW j \in JobIds, AfterExit(j) PROVE Inv'
  <2>0. Moves(j) /\ UNCHANGED <<listed, kind, procVars, stopVars, killVars, waitVars, wakeVars>>
    BY <1>7 DEF AfterExit, SetStatus, Go, Stopped, Moves, JobPCs, TypeOK
  <2>1. TypeOK'
    BY <2>0, MoveTyped DEF TypeOK
  <2>2. Places'
    BY <1>7 DEF AfterExit, SetStatus, Go, Stopped, TypeOK, Places, AgentPCs, ShellPCs
  <2>3. RunningListed'
    BY <1>7 DEF AfterExit, SetStatus, Go, Stopped, TypeOK, RunningListed
  <2>4. Quiet'
    BY <1>7 DEF AfterExit, SetStatus, Go, Stopped, TypeOK, Places, Quiet, AgentPCs, ShellPCs
  <2>5. Wakeup'
    BY <2>0, MoveWakes
  <2>6. Pids'
    BY <2>0, MovePids
  <2>7. Flags'
    BY <1>7 DEF AfterExit, SetStatus, Go, Stopped, TypeOK, Flags
  <2>8. QED
    BY <2>1, <2>2, <2>3, <2>4, <2>5, <2>6, <2>7
<1>8. ASSUME NEW j \in JobIds, Backoff(j) PROVE Inv'
  <2>0. Moves(j) /\ UNCHANGED <<listed, kind, procVars, stopVars, killVars, waitVars, wakeVars>>
    BY <1>8 DEF Backoff, SetStatus, Go, Stopped, Moves, JobPCs, TypeOK
  <2>1. TypeOK'
    BY <2>0, MoveTyped DEF TypeOK
  <2>2. Places'
    BY <1>8 DEF Backoff, SetStatus, Go, Stopped, TypeOK, Places, AgentPCs, ShellPCs
  <2>3. RunningListed'
    BY <1>8 DEF Backoff, SetStatus, Go, Stopped, TypeOK, RunningListed
  <2>4. Quiet'
    BY <1>8 DEF Backoff, SetStatus, Go, Stopped, TypeOK, Places, Quiet, AgentPCs, ShellPCs
  <2>5. Wakeup'
    BY <2>0, MoveWakes
  <2>6. Pids'
    BY <2>0, MovePids
  <2>7. Flags'
    BY <1>8 DEF Backoff, SetStatus, Go, Stopped, TypeOK, Flags
  <2>8. QED
    BY <2>1, <2>2, <2>3, <2>4, <2>5, <2>6, <2>7
<1>9. ASSUME NEW j \in JobIds, Respawn(j) PROVE Inv'
  <2>0. Moves(j) /\ UNCHANGED <<listed, kind, pid, stopVars, killVars, waitVars, wakeVars>>
    BY <1>9 DEF Respawn, SetStatus, Go, Moves, JobPCs, TypeOK
  <2>1. TypeOK'
    <3>1. gen' \in [JobIds -> Nat]
      BY <1>9 DEF Respawn, TypeOK
    <3>2. alive' \in [JobIds -> BOOLEAN]
      BY <1>9 DEF Respawn, TypeOK
    <3>3. QED
      BY <2>0, <3>1, <3>2, MoveTyped DEF TypeOK
  <2>2. Places'
    BY <1>9 DEF Respawn, SetStatus, Go, TypeOK, Places, AgentPCs, ShellPCs
  <2>3. RunningListed'
    BY <1>9 DEF Respawn, SetStatus, Go, TypeOK, RunningListed
  <2>4. Quiet'
    BY <1>9 DEF Respawn, SetStatus, Go, TypeOK, Places, Quiet, AgentPCs, ShellPCs
  <2>5. Wakeup'
    BY <2>0, MoveWakes
  <2>6. Pids'
    <3>1. CASE UNCHANGED procVars
      BY <2>0, <3>1, MovePids
    <3>2. CASE ~UNCHANGED procVars
      <4>1. /\ gen' = [gen EXCEPT ![j] = @ + 1] /\ status' = status
            /\ alive' = [alive EXCEPT ![j] = TRUE]
            /\ \E to \in ShellPCs \ {"open"} : jpc' = [jpc EXCEPT ![j] = to]
        BY <1>9, <3>2 DEF Respawn, Go, ShellPCs
      <4>2. kind[j] # "agent" /\ status[j] # "new"
        BY <1>9 DEF Respawn, Places, Pids, ShellPCs
      <4>3. \A i \in JobIds : /\ pid'[i] <= gen'[i]
                              /\ jpc'[i] \in {"new", "open"} => gen'[i] = 0
                              /\ kind'[i] = "agent" \/ jpc'[i] = "new" => pid'[i] = 0
        BY <2>0, <4>1, <4>2 DEF TypeOK, Pids, ShellPCs
      <4>4. \A i \in Killers : kpc[i] # "idle" /\ kjob[i] = j => kpid[i] < gen'[j] \/ kpid[i] = 0
        BY <4>1, <4>2 DEF TypeOK, Pids, KillKnows
      <4>5. ASSUME NEW i \in Killers, kpc'[i] # "idle"
            PROVE  KillKnows(i)'
        <5>1. /\ UNCHANGED <<kpc, kjob, kpid, kind, status>>
              /\ kjob[i] \in JobIds /\ kpid[i] \in Nat
          BY <2>0, <4>1, <4>5 DEF TypeOK
        <5>2. CASE kjob[i] = j
          <6>1. gen'[j] \in Nat
            BY <4>1 DEF TypeOK
          <6>2. QED
            BY <4>2, <4>4, <4>5, <5>1, <5>2, <6>1 DEF Pids, KillKnows
        <5>3. CASE kjob[i] # j
          <6>1. gen'[kjob[i]] = gen[kjob[i]] /\ alive'[kjob[i]] = alive[kjob[i]]
            BY <4>1, <5>1, <5>3 DEF TypeOK
          <6>2. QED
            BY <4>5, <5>1, <6>1 DEF Pids, KillKnows
        <5>4. QED
          BY <5>2, <5>3
      <4>6. \A i \in Killers : kpc'[i] # "idle" => KillKnows(i)'
        BY <4>5
      <4>7. QED
        BY <4>3, <4>6 DEF Pids
    <3>3. QED
      BY <3>1, <3>2
  <2>7. Flags'
    BY <1>9 DEF Respawn, SetStatus, Go, TypeOK, Flags
  <2>8. QED
    BY <2>1, <2>2, <2>3, <2>4, <2>5, <2>6, <2>7
<1>10. ASSUME NEW j \in JobIds, RepublishPid(j) PROVE Inv'
  <2>1. TypeOK'
    BY <1>10 DEF RepublishPid, Go, TypeOK, Kinds, JobPCs, KillPCs, WaitPCs
  <2>2. Places'
    BY <1>10 DEF RepublishPid, Go, TypeOK, Places, AgentPCs, ShellPCs
  <2>3. Quiet'
    BY <1>10 DEF RepublishPid, Go, TypeOK, Places, Quiet, AgentPCs, ShellPCs
  <2>4. Wakeup'
    BY <1>10 DEF RepublishPid, Go, TypeOK, Places, Wakeup, NoLostWakeup, Draining, Terminal
  <2>5. Pids'
    BY <1>10 DEF RepublishPid, Go, TypeOK, Places, Quiet, Pids, KillKnows, AgentPCs, ShellPCs
  <2>6. Flags'
    BY <1>10 DEF RepublishPid, Go, TypeOK, Flags
  <2>7. RunningListed'
    BY <1>10 DEF RepublishPid, Go, RunningListed
  <2>8. QED
    BY <2>1, <2>2, <2>3, <2>4, <2>5, <2>6, <2>7
<1>11. ASSUME NEW j \in JobIds, JobDrain(j) PROVE Inv'
  <2>1. TypeOK'
    BY <1>11 DEF JobDrain, Drain, Go, TypeOK, Kinds, JobPCs, KillPCs, WaitPCs
  <2>2. Places'
    BY <1>11 DEF JobDrain, Drain, Go, TypeOK, Places, AgentPCs, ShellPCs
  <2>3. Quiet'
    BY <1>11 DEF JobDrain, Drain, Go, TypeOK, Places, Quiet, AgentPCs, ShellPCs
  <2>4. Wakeup'
    BY <1>11 DEF JobDrain, Drain, Go, TypeOK, Places, Wakeup, NoLostWakeup, Draining, Terminal
  <2>5. Pids'
    BY <1>11 DEF JobDrain, Drain, Go, TypeOK, Places, Quiet, Pids, KillKnows, AgentPCs, ShellPCs
  <2>6. Flags'
    BY <1>11 DEF JobDrain, Drain, Go, TypeOK, Flags
  <2>7. RunningListed'
    BY <1>11 DEF JobDrain, Drain, Go, RunningListed
  <2>8. QED
    BY <2>1, <2>2, <2>3, <2>4, <2>5, <2>6, <2>7
<1>12. ASSUME NEW j \in JobIds, AgentBoots(j) PROVE Inv'
  <2>0. Moves(j) /\ UNCHANGED <<listed, kind, procVars, stopVars, killVars, waitVars, wakeVars>>
    BY <1>12 DEF AgentBoots, SetStatus, Go, Moves, JobPCs, TypeOK
  <2>1. TypeOK'
    BY <2>0, MoveTyped DEF TypeOK
  <2>2. Places'
    BY <1>12 DEF AgentBoots, SetStatus, Go, TypeOK, Places, AgentPCs, ShellPCs
  <2>3. RunningListed'
    BY <1>12 DEF AgentBoots, SetStatus, Go, TypeOK, RunningListed
  <2>4. Quiet'
    BY <1>12 DEF AgentBoots, SetStatus, Go, TypeOK, Places, Quiet, AgentPCs, ShellPCs
  <2>5. Wakeup'
    BY <2>0, MoveWakes
  <2>6. Pids'
    BY <2>0, MovePids
  <2>7. Flags'
    BY <1>12 DEF AgentBoots, SetStatus, Go, TypeOK, Flags
  <2>8. QED
    BY <2>1, <2>2, <2>3, <2>4, <2>5, <2>6, <2>7
<1>13. ASSUME NEW j \in JobIds, AgentSlot(j) PROVE Inv'
  <2>1. TypeOK'
    BY <1>13 DEF AgentSlot, Go, TypeOK, Kinds, JobPCs, KillPCs, WaitPCs
  <2>2. Places'
    BY <1>13 DEF AgentSlot, Go, TypeOK, Places, AgentPCs, ShellPCs
  <2>3. Quiet'
    BY <1>13 DEF AgentSlot, Go, TypeOK, Places, Quiet, AgentPCs, ShellPCs
  <2>4. Wakeup'
    BY <1>13 DEF AgentSlot, Go, TypeOK, Places, Wakeup, NoLostWakeup, Draining, Terminal
  <2>5. Pids'
    BY <1>13 DEF AgentSlot, Go, TypeOK, Places, Quiet, Pids, KillKnows, AgentPCs, ShellPCs
  <2>6. Flags'
    BY <1>13 DEF AgentSlot, Go, TypeOK, Flags
  <2>7. RunningListed'
    BY <1>13 DEF AgentSlot, Go, RunningListed
  <2>8. QED
    BY <2>1, <2>2, <2>3, <2>4, <2>5, <2>6, <2>7
<1>14. ASSUME NEW j \in JobIds, AgentPrompts(j) PROVE Inv'
  <2>1. TypeOK'
    BY <1>14 DEF AgentPrompts, Go, TypeOK, Kinds, JobPCs, KillPCs, WaitPCs
  <2>2. Places'
    BY <1>14 DEF AgentPrompts, Go, TypeOK, Places, AgentPCs, ShellPCs
  <2>3. Quiet'
    BY <1>14 DEF AgentPrompts, Go, TypeOK, Places, Quiet, AgentPCs, ShellPCs
  <2>4. Wakeup'
    BY <1>14 DEF AgentPrompts, Go, TypeOK, Places, Wakeup, NoLostWakeup, Draining, Terminal
  <2>5. Pids'
    BY <1>14 DEF AgentPrompts, Go, TypeOK, Places, Quiet, Pids, KillKnows, AgentPCs, ShellPCs
  <2>6. Flags'
    BY <1>14 DEF AgentPrompts, Go, TypeOK, Flags
  <2>7. RunningListed'
    BY <1>14 DEF AgentPrompts, Go, RunningListed
  <2>8. QED
    BY <2>1, <2>2, <2>3, <2>4, <2>5, <2>6, <2>7
<1>15. ASSUME NEW j \in JobIds, AgentEnds(j) PROVE Inv'
  <2>1. TypeOK'
    BY <1>15 DEF AgentEnds, SetStatus, Go, TypeOK, Kinds, JobPCs, KillPCs, WaitPCs
  <2>2. Places'
    BY <1>15 DEF AgentEnds, SetStatus, Go, TypeOK, Places, AgentPCs, ShellPCs
  <2>3. RunningListed'
    BY <1>15 DEF AgentEnds, SetStatus, Go, TypeOK, RunningListed
  <2>4. Quiet'
    BY <1>15 DEF AgentEnds, SetStatus, Go, TypeOK, Places, Quiet, AgentPCs, ShellPCs
  <2>5. Wakeup'
    BY <1>15 DEF AgentEnds, SetStatus, Go, TypeOK, Places, Wakeup, NoLostWakeup, Draining, Terminal
  <2>6. Pids'
    BY <1>15 DEF AgentEnds, SetStatus, Go, TypeOK, Places, Quiet, Pids, KillKnows, AgentPCs, ShellPCs
  <2>7. Flags'
    BY <1>15 DEF AgentEnds, SetStatus, Go, TypeOK, Flags
  <2>8. QED
    BY <2>1, <2>2, <2>3, <2>4, <2>5, <2>6, <2>7
<1>16. ASSUME NEW k \in Killers, NEW j \in JobIds, KillRead(k, j) PROVE Inv'
  <2>1. TypeOK'
    BY <1>16 DEF KillRead, TypeOK, Kinds, JobPCs, KillPCs, WaitPCs
  <2>2. Wakeup'
    BY <1>16 DEF KillRead, TypeOK, Places, Wakeup, NoLostWakeup, Draining, Terminal
  <2>3. Pids'
    BY <1>16 DEF KillRead, TypeOK, Places, Quiet, Pids, KillKnows, AgentPCs, ShellPCs
  <2>4. Places' /\ RunningListed' /\ Quiet' /\ Flags'
    BY <1>16 DEF KillRead, Places, RunningListed, Quiet, Flags
  <2>5. QED
    BY <2>1, <2>2, <2>3, <2>4
<1>17. ASSUME NEW k \in Killers, KillStop(k) PROVE Inv'
  <2>1. TypeOK'
    <3>1. flag' \in [JobIds -> BOOLEAN] /\ genAtStop' \in [JobIds -> Nat]
      <4>1. /\ \/ flag' = flag
               \/ flag' = [flag EXCEPT ![kjob[k]] = TRUE]
            /\ \/ genAtStop' = genAtStop
               \/ genAtStop' = [genAtStop EXCEPT ![kjob[k]] = gen[kjob[k]]]
        BY <1>17 DEF KillStop
      <4>2. kjob[k] \in JobIds
        BY <1>17 DEF KillStop, TypeOK
      <4>3. flag' \in [JobIds -> BOOLEAN]
        BY <4>1 DEF TypeOK
      <4>4. genAtStop' \in [JobIds -> Nat]
        BY <4>1, <4>2 DEF TypeOK
      <4>5. QED
        BY <4>3, <4>4
    <3>2. kpc' \in [Killers -> KillPCs]
      BY <1>17 DEF KillStop, TypeOK, KillPCs
    <3>3. QED
      BY <1>17, <3>1, <3>2 DEF KillStop, TypeOK
  <2>2. Wakeup'
    BY <1>17 DEF KillStop, TypeOK, Places, Wakeup, NoLostWakeup, Draining, Terminal
  <2>3. Pids'
    BY <1>17 DEF KillStop, TypeOK, Places, Quiet, Pids, KillKnows, AgentPCs, ShellPCs
  <2>4. Flags'
    BY <1>17 DEF KillStop, TypeOK, Flags
  <2>5. Places' /\ RunningListed' /\ Quiet'
    BY <1>17 DEF KillStop, Places, RunningListed, Quiet
  <2>6. QED
    BY <2>1, <2>2, <2>3, <2>4, <2>5
<1>18. ASSUME NEW k \in Killers, KillSignal(k) PROVE Inv'
  <2>1. TypeOK'
    BY <1>18 DEF KillSignal, TypeOK, Kinds, JobPCs, KillPCs, WaitPCs
  <2>2. Quiet'
    BY <1>18 DEF KillSignal, TypeOK, Places, Quiet, AgentPCs, ShellPCs
  <2>3. Wakeup'
    BY <1>18 DEF KillSignal, TypeOK, Places, Wakeup, NoLostWakeup, Draining, Terminal
  <2>4. Pids'
    <3>1. kpc[k] = "signal" /\ kpc' = [kpc EXCEPT ![k] = "set"] /\ kjob[k] \in JobIds
      BY <1>18 DEF KillSignal, TypeOK
    <3>2. \A i \in JobIds : alive'[i] => alive[i]
      BY <1>18 DEF KillSignal, TypeOK
    <3>3. kpid[k] # 0 /\ kpid[k] = gen[kjob[k]] => ~alive'[kjob[k]]
      BY <1>18, <3>1 DEF KillSignal, TypeOK, Pids, KillKnows
    <3>4. UNCHANGED <<registryVars, jpc, gen, pid, kjob, kpid>>
      BY <1>18 DEF KillSignal
    <3>5. QED
      BY <3>1, <3>2, <3>3, <3>4 DEF Pids, KillKnows, TypeOK
  <2>5. Places' /\ RunningListed' /\ Flags'
    BY <1>18 DEF KillSignal, Places, RunningListed, Flags
  <2>6. QED
    BY <2>1, <2>2, <2>3, <2>4, <2>5
<1>19. ASSUME NEW k \in Killers, KillSet(k) PROVE Inv'
  <2>1. TypeOK'
    BY <1>19 DEF KillSet, SetStatus, TypeOK, Kinds, JobPCs, KillPCs, WaitPCs
  <2>2. Places'
    <3>1. \A i \in JobIds : status'[i] = "new" <=> status[i] = "new"
      BY <1>19 DEF KillSet, SetStatus, TypeOK, Pids, KillKnows
    <3>2. QED
      BY <1>19, <3>1 DEF KillSet, SetStatus, Places
  <2>3. RunningListed'
    BY <1>19 DEF KillSet, SetStatus, TypeOK, RunningListed
  <2>4. Quiet'
    BY <1>19 DEF KillSet, SetStatus, TypeOK, Places, Quiet, AgentPCs, ShellPCs
  <2>5. Wakeup'
    BY <1>19 DEF KillSet, SetStatus, TypeOK, Places, Wakeup, NoLostWakeup, Draining, Terminal
  <2>6. Pids'
    BY <1>19 DEF KillSet, SetStatus, TypeOK, Places, Quiet, Pids, KillKnows, AgentPCs, ShellPCs
  <2>7. Flags'
    BY <1>19 DEF KillSet, SetStatus, Flags
  <2>8. QED
    BY <2>1, <2>2, <2>3, <2>4, <2>5, <2>6, <2>7
<1>20. ASSUME NEW k \in Killers, KillDrain(k) PROVE Inv'
  <2>1. TypeOK'
    BY <1>20 DEF KillDrain, Drain, TypeOK, Kinds, JobPCs, KillPCs, WaitPCs
  <2>2. Wakeup'
    BY <1>20 DEF KillDrain, Drain, TypeOK, Places, Wakeup, NoLostWakeup, Draining, Terminal
  <2>3. Pids'
    BY <1>20 DEF KillDrain, Drain, TypeOK, Places, Quiet, Pids, KillKnows, AgentPCs, ShellPCs
  <2>4. Places' /\ RunningListed' /\ Quiet' /\ Flags'
    BY <1>20 DEF KillDrain, Drain, Places, RunningListed, Quiet, Flags
  <2>5. QED
    BY <2>1, <2>2, <2>3, <2>4
<1>21. ASSUME NEW w \in Waiters, NEW j \in JobIds, WaitCheck(w, j) PROVE Inv'
  <2>1. TypeOK'
    BY <1>21 DEF WaitCheck, Look, Terminal, TypeOK, Kinds, JobPCs, KillPCs, WaitPCs
  <2>2. Wakeup'
    BY <1>21 DEF WaitCheck, Look, Terminal, TypeOK, Places, Wakeup, NoLostWakeup, Draining
  <2>3. Places' /\ RunningListed' /\ Quiet' /\ Pids' /\ Flags'
    BY <1>21 DEF WaitCheck, Look, Terminal, Places, RunningListed, Quiet, Pids, Flags, KillKnows
  <2>4. QED
    BY <2>1, <2>2, <2>3
<1>22. ASSUME NEW w \in Waiters, WaitRegister(w) PROVE Inv'
  <2>1. TypeOK'
    BY <1>22 DEF WaitRegister, TypeOK, Kinds, JobPCs, KillPCs, WaitPCs
  <2>2. Wakeup'
    BY <1>22 DEF WaitRegister, TypeOK, Places, Wakeup, NoLostWakeup, Draining, Terminal
  <2>3. Places' /\ RunningListed' /\ Quiet' /\ Pids' /\ Flags'
    BY <1>22 DEF WaitRegister, Places, RunningListed, Quiet, Pids, Flags, KillKnows
  <2>4. QED
    BY <2>1, <2>2, <2>3
<1>23. ASSUME NEW w \in Waiters, WaitRecheck(w) PROVE Inv'
  <2>1. TypeOK'
    BY <1>23 DEF WaitRecheck, Look, Terminal, TypeOK, Kinds, JobPCs, KillPCs, WaitPCs
  <2>2. Wakeup'
    BY <1>23 DEF WaitRecheck, Look, Terminal, TypeOK, Places, Wakeup, NoLostWakeup, Draining
  <2>3. Places' /\ RunningListed' /\ Quiet' /\ Pids' /\ Flags'
    BY <1>23 DEF WaitRecheck, Look, Terminal, Places, RunningListed, Quiet, Pids, Flags, KillKnows
  <2>4. QED
    BY <2>1, <2>2, <2>3
<1>24. ASSUME NEW w \in Waiters, WaitWake(w) PROVE Inv'
  <2>1. TypeOK'
    BY <1>24 DEF WaitWake, Look, Terminal, TypeOK, Kinds, JobPCs, KillPCs, WaitPCs
  <2>2. Wakeup'
    BY <1>24 DEF WaitWake, Look, Terminal, TypeOK, Places, Wakeup, NoLostWakeup, Draining
  <2>3. Places' /\ RunningListed' /\ Quiet' /\ Pids' /\ Flags'
    BY <1>24 DEF WaitWake, Look, Terminal, Places, RunningListed, Quiet, Pids, Flags, KillKnows
  <2>4. QED
    BY <2>1, <2>2, <2>3
<1>25. ASSUME NEW w \in Waiters, WaitTimeout(w) PROVE Inv'
  <2>1. TypeOK'
    BY <1>25 DEF WaitTimeout, TypeOK, Kinds, JobPCs, KillPCs, WaitPCs
  <2>2. Wakeup'
    BY <1>25 DEF WaitTimeout, TypeOK, Places, Wakeup, NoLostWakeup, Draining, Terminal
  <2>3. Places' /\ RunningListed' /\ Quiet' /\ Pids' /\ Flags'
    BY <1>25 DEF WaitTimeout, Places, RunningListed, Quiet, Pids, Flags, KillKnows
  <2>4. QED
    BY <2>1, <2>2, <2>3
<1>26. CASE UNCHANGED vars
  <2>1. TypeOK' /\ Places' /\ RunningListed' /\ Quiet' /\ Wakeup' /\ Pids' /\ Flags'
    BY <1>26 DEF vars, TypeOK, Places, RunningListed, Quiet, Wakeup, Pids, Flags, KillKnows, NoLostWakeup, Draining, Terminal
  <2>2. QED
    BY <2>1
<1>27. QED
  BY <1>1, <1>2, <1>3, <1>4, <1>5, <1>6, <1>7, <1>8, <1>9, <1>10, <1>11, <1>12, <1>13,
     <1>14, <1>15, <1>16, <1>17, <1>18, <1>19, <1>20, <1>21, <1>22, <1>23, <1>24, <1>25, <1>26
  DEF Next, JobStep, KillStep, WaitStep

-----------------------------------------------------------------------------
\* Every reachable state of the jobs satisfies the inductive invariant.
THEOREM Invariance == Spec => []Inv
  BY InitInv, NextInv, PTL DEF Spec

\* Every variable holds a value of its kind.
THEOREM TypeCorrect == Spec => []TypeOK
<1>1. Inv => TypeOK
  BY DEF Inv
<1>2. QED
  BY <1>1, Invariance, PTL

\* The registry never evicts a job that runs, whatever its capacity.
THEOREM RunningJobsAreListed == Spec => []RunningListed
<1>1. Inv => RunningListed
  BY DEF Inv
<1>2. QED
  BY <1>1, Invariance, PTL

\* No wait sleeps through the end of its job, whichever of the watcher and the
\* kills writes the final status, and though the job may be evicted meanwhile.
THEOREM NoWakeupIsLost == Spec => []NoLostWakeup
<1>1. Inv => NoLostWakeup
  BY DEF Inv, Wakeup
<1>2. QED
  BY <1>1, Invariance, PTL

\* A job reported as exited has no process and starts none.
THEOREM ExitsAreFinal == Spec => []ExitedIsOver
<1>1. Inv => ExitedIsOver
  BY DEF Inv, Quiet, ExitedIsOver
<1>2. QED
  BY <1>1, Invariance, PTL

\* A kill that has answered ended the process whose pid it read.
THEOREM KillsHit == Spec => []KillHitsWhatItRead
<1>1. Inv => KillHitsWhatItRead
  BY DEF Inv, Pids, KillKnows, KillHitsWhatItRead
<1>2. QED
  BY <1>1, Invariance, PTL

\* A stopped job starts at most one more process.
THEOREM OneRespawnAtMost == Spec => []AtMostOneRespawn
<1>1. Inv => AtMostOneRespawn
  BY DEF Inv, TypeOK, Flags, AtMostOneRespawn
<1>2. QED
  BY <1>1, Invariance, PTL

\* The status the tools show is the truth about the job.
THEOREM StatusesAreTrue == Spec => []StatusIsTrue
<1>1. RunningListed /\ ExitedIsOver => StatusIsTrue
  BY DEF StatusIsTrue
<1>2. QED
  BY <1>1, RunningJobsAreListed, ExitsAreFinal, PTL

\* A kill ends the process it aimed at and lets through one more at most.
THEOREM KillsAreFelt == Spec => []KillsWork
<1>1. KillHitsWhatItRead /\ AtMostOneRespawn => KillsWork
  BY DEF KillsWork
<1>2. QED
  BY <1>1, KillsHit, OneRespawnAtMost, PTL

-----------------------------------------------------------------------------
(***************************************************************************)
(* Proofs about the orchestrator daemon, for any number of instances, stop *)
(* calls, rpc calls and crashes: types, a stop that is final, and no       *)
(* record that says online of an instance a crash took away.               *)
(*                                                                         *)
(* DaemonInv strengthens them by what the file copies of the tasks may     *)
(* say (CopiesOwn) and by what a stop knows of its instance at each of its *)
(* places (StopKnows): its spawn is past the point where it starts a       *)
(* child, so that once the child has ended there is none, and once the     *)
(* instance is dropped nothing puts it back.                               *)
(***************************************************************************)

\* The spawn of an instance has put it into the live map, or was lost.
Inserted(i) == spc[i] \in {"mark", "online", "done", "gone"}

\* No loaded file holds a record that NoGhostOnline forbids, either.
CopiesOwn ==
  \A t \in Tasks, i \in Instances :
    copy[t][i] \in {"starting", "online"} => spc[i] \notin {"new", "gone"}

\* What a stop has seen, and what stays so while it goes on.
StopKnows ==
  \A c \in StopCalls :
    /\ stpc[c] \notin {"idle", "refused"} => Inserted(target[c])
    /\ stpc[c] \in {"drop", "load", "remove", "done"} => ~Alive(target[c])
    /\ stpc[c] \in {"load", "remove", "done"} => live[target[c]] = "absent"

DaemonInv == DaemonTypeOK /\ NoGhostOnline /\ CopiesOwn /\ StopKnows

-----------------------------------------------------------------------------
\* The initial states satisfy the invariant.
LEMMA InitDaemonInv == DaemonInit => DaemonInv
<1> SUFFICES ASSUME DaemonInit PROVE DaemonInv
  OBVIOUS
<1> USE OrchestratorAssumption DEF DaemonInit, Nothing
<1>1. DaemonTypeOK
  BY DEF DaemonTypeOK, Records, Statuses, SpawnPCs, ReqPCs, RpcPCs, StopPCs, ChildStates
<1>2. NoGhostOnline /\ CopiesOwn /\ StopKnows
  BY DEF NoGhostOnline, CopiesOwn, StopKnows
<1>3. QED
  BY <1>1, <1>2 DEF DaemonInv

\* Every step keeps the types, and only a spawn that is done waiting puts an
\* instance into the live map.
LEMMA TypeNext == DaemonInv /\ [DaemonNext]_orchVars => DaemonTypeOK'
<1> SUFFICES ASSUME DaemonInv, [DaemonNext]_orchVars PROVE DaemonTypeOK'
  OBVIOUS
<1> USE OrchestratorAssumption
    DEF DaemonInv, DaemonTypeOK, Tasks, Requesters, Records,
        Statuses, ReqPCs, SpawnPCs, RpcPCs, StopPCs, ChildStates,
        orchVars, fileVars, mapVars, childVars, reqVars, callVars, daemonVars
<1>1. ASSUME NEW i \in Instances, SpawnBegins(i) PROVE DaemonTypeOK'
  BY <1>1 DEF SpawnBegins, Step, Load
<1>2. ASSUME NEW i \in Instances, SpawnStarting(i) PROVE DaemonTypeOK'
  BY <1>2 DEF SpawnStarting, Step, Save, Nothing
<1>3. ASSUME NEW i \in Instances, SpawnProcess(i) PROVE DaemonTypeOK'
  <2>1. CASE Step(i, "exec", "error") /\ UNCHANGED childVars
    BY <1>3, <2>1 DEF SpawnProcess, Step
  <2>2. CASE Step(i, "exec", "watch") /\ child' = [child EXCEPT ![i] = "runs"] /\ UNCHANGED termed
    BY <1>3, <2>2 DEF SpawnProcess, Step
  <2>3. QED
    BY <1>3, <2>1, <2>2 DEF SpawnProcess
<1>4. ASSUME NEW i \in Instances, SpawnWatch(i) PROVE DaemonTypeOK'
  BY <1>4 DEF SpawnWatch, Step, Ask
<1>5. ASSUME NEW i \in Instances, SpawnState(i) PROVE DaemonTypeOK'
  <2>1. CASE Step(i, "state", "insert")
    BY <1>5, <2>1 DEF SpawnState, Step
  <2>2. CASE Step(i, "state", "error")
    BY <1>5, <2>2 DEF SpawnState, Step
  <2>3. QED
    BY <1>5, <2>1, <2>2 DEF SpawnState
<1>6. ASSUME NEW i \in Instances, SpawnInsert(i) PROVE DaemonTypeOK'
  BY <1>6 DEF SpawnInsert, Step
<1>7. ASSUME NEW i \in Instances, SpawnMark(i) PROVE DaemonTypeOK'
  BY <1>7 DEF SpawnMark, Step, Load
<1>8. ASSUME NEW i \in Instances, SpawnOnline(i) PROVE DaemonTypeOK'
  BY <1>8 DEF SpawnOnline, Step, Save, Nothing
<1>9. ASSUME NEW i \in Instances, SpawnFails(i) PROVE DaemonTypeOK'
  <2>1. CASE Step(i, "error", "errorSave") /\ Load(i)
    BY <1>9, <2>1 DEF SpawnFails, Step, Load
  <2>2. CASE Step(i, "errorSave", "stopped") /\ Save(i, i, "error")
    BY <1>9, <2>2 DEF SpawnFails, Step, Save, Nothing
  <2>3. CASE Step(i, "stopped", "stoppedSave") /\ Load(i)
    BY <1>9, <2>3 DEF SpawnFails, Step, Load
  <2>4. CASE Step(i, "stoppedSave", "remove") /\ Save(i, i, "stopped")
    BY <1>9, <2>4 DEF SpawnFails, Step, Save, Nothing
  <2>5. QED
    BY <1>9, <2>1, <2>2, <2>3, <2>4 DEF SpawnFails
<1>10. ASSUME NEW i \in Instances, SpawnRemoved(i) PROVE DaemonTypeOK'
  BY <1>10 DEF SpawnRemoved, Step
<1>11. ASSUME NEW i \in Instances, ChildExits(i) PROVE DaemonTypeOK'
  BY <1>11 DEF ChildExits
<1>12. ASSUME NEW i \in Instances, ReapChild(i) PROVE DaemonTypeOK'
  BY <1>12 DEF ReapChild
<1>13. ASSUME NEW i \in Instances, ExitSeen(i) PROVE DaemonTypeOK'
  <2>1. CASE live[i] \notin {"absent", "stopping", "stopped"}
    <3>1. /\ live' = [live EXCEPT ![i] = "error"] /\ lock' = "exit" /\ Load("exit")
          /\ xpc' = [xpc EXCEPT ![i] = "save"]
          /\ UNCHANGED <<daemonVars, spc, childVars, reqVars, callVars>>
          /\ early' \subseteq Instances
      BY <1>13, <2>1 DEF ExitSeen
    <3>2. QED
      BY <2>1, <3>1 DEF Load
  <2>2. CASE live[i] \in {"absent", "stopping", "stopped"}
    <3>1. /\ xpc' = [xpc EXCEPT ![i] = "over"] /\ UNCHANGED <<fileVars, live, lock>>
          /\ UNCHANGED <<daemonVars, spc, childVars, reqVars, callVars>>
          /\ early' \subseteq Instances
      BY <1>13, <2>2 DEF ExitSeen
    <3>2. QED
      BY <3>1
  <2>3. QED
    BY <2>1, <2>2
<1>14. ASSUME NEW i \in Instances, ExitSaved(i) PROVE DaemonTypeOK'
  BY <1>14 DEF ExitSaved, Save, Nothing
<1>15. ASSUME NEW t \in Requesters, ReqInsert(t) PROVE DaemonTypeOK'
  BY <1>15 DEF ReqInsert, Inst
<1>16. ASSUME NEW t \in Requesters, ReqWrite(t) PROVE DaemonTypeOK'
  BY <1>16 DEF ReqWrite, Inst
<1>17. ASSUME NEW t \in Requesters, ChildAnswers(t) PROVE DaemonTypeOK'
  BY <1>17 DEF ChildAnswers, Inst
<1>18. ASSUME NEW t \in Requesters, ReqTimeout(t) PROVE DaemonTypeOK'
  BY <1>18 DEF ReqTimeout
<1>19. ASSUME NEW c \in StopCalls, StopBegins(c) PROVE DaemonTypeOK'
  <2>1. CASE live[target[c]] = "absent"
    <3>1. /\ UNCHANGED <<fileVars, mapVars, daemonVars, spc, xpc, childVars, reqVars, target, rpc>>
          /\ stpc' = [stpc EXCEPT ![c] = "refused"]
      BY <1>19, <2>1 DEF StopBegins, StopGoes
    <3>2. QED
      BY <3>1
  <2>2. CASE live[target[c]] # "absent"
    <3>1. /\ UNCHANGED <<daemonVars, spc, xpc, childVars, reqVars, target, rpc, early>>
          /\ live' = [live EXCEPT ![target[c]] = "stopping"] /\ lock' = c /\ Load(c)
          /\ stpc' = [stpc EXCEPT ![c] = "save"]
      BY <1>19, <2>2 DEF StopBegins, StopGoes
    <3>2. QED
      BY <2>2, <3>1 DEF Load
  <2>3. QED
    BY <2>1, <2>2
<1>20. ASSUME NEW c \in StopCalls, StopSaved(c) PROVE DaemonTypeOK'
  BY <1>20 DEF StopSaved, StopGoes, Save, Nothing
<1>21. ASSUME NEW c \in StopCalls, StopTerm(c) PROVE DaemonTypeOK'
  BY <1>21 DEF StopTerm, StopGoes
<1>22. ASSUME NEW c \in StopCalls, StopWait(c) PROVE DaemonTypeOK'
  BY <1>22 DEF StopWait, StopGoes
<1>23. ASSUME NEW c \in StopCalls, StopDrop(c) PROVE DaemonTypeOK'
  BY <1>23 DEF StopDrop, StopGoes
<1>24. ASSUME NEW c \in StopCalls, StopRemove(c) PROVE DaemonTypeOK'
  <2>1. CASE StopGoes(c, "load", "remove") /\ Load(c)
    BY <1>24, <2>1 DEF StopRemove, StopGoes, Load
  <2>2. CASE StopGoes(c, "remove", "done") /\ Save(c, target[c], "absent")
    BY <1>24, <2>2 DEF StopRemove, StopGoes, Save, Nothing
  <2>3. QED
    BY <1>24, <2>1, <2>2 DEF StopRemove
<1>25. ASSUME NEW r \in RpcCalls, RpcBegins(r) PROVE DaemonTypeOK'
  <2>1. CASE RpcGoes(r, "idle", "done") /\ UNCHANGED req
    BY <1>25, <2>1 DEF RpcBegins, RpcGoes
  <2>2. CASE RpcGoes(r, "idle", "call") /\ Ask(r)
    BY <1>25, <2>2 DEF RpcBegins, RpcGoes, Ask
  <2>3. QED
    BY <1>25, <2>1, <2>2 DEF RpcBegins
<1>26. ASSUME NEW r \in RpcCalls, RpcAnswered(r) PROVE DaemonTypeOK'
  <2>1. CASE RpcGoes(r, "call", "done") /\ req' = [req EXCEPT ![r] = "none"]
    BY <1>26, <2>1 DEF RpcAnswered, RpcGoes
  <2>2. CASE RpcGoes(r, "call", "refresh") /\ Ask(r)
    BY <1>26, <2>2 DEF RpcAnswered, RpcGoes, Ask
  <2>3. QED
    BY <1>26, <2>1, <2>2 DEF RpcAnswered
<1>27. ASSUME NEW r \in RpcCalls, RpcRefreshed(r) PROVE DaemonTypeOK'
  BY <1>27 DEF RpcRefreshed, RpcGoes
<1>28. ASSUME NEW r \in RpcCalls, RpcUpsert(r) PROVE DaemonTypeOK'
  <2>1. CASE live[target[r]] = "absent"
    <3>1. /\ UNCHANGED <<lock, early, fileVars, daemonVars, live, spc, xpc, childVars, reqVars, target, stpc>>
          /\ rpc' = [rpc EXCEPT ![r] = "done"]
      BY <1>28, <2>1 DEF RpcUpsert, RpcGoes
    <3>2. QED
      BY <3>1
  <2>2. CASE live[target[r]] # "absent"
    <3>1. /\ UNCHANGED <<early, daemonVars, live, spc, xpc, childVars, reqVars, target, stpc>>
          /\ rpc' = [rpc EXCEPT ![r] = "save"] /\ lock' = r /\ Load(r)
      BY <1>28, <2>2 DEF RpcUpsert, RpcGoes
    <3>2. QED
      BY <3>1 DEF Load
  <2>3. QED
    BY <2>1, <2>2
<1>29. ASSUME NEW r \in RpcCalls, RpcSaved(r) PROVE DaemonTypeOK'
  BY <1>29 DEF RpcSaved, RpcGoes, Save, Nothing
<1>30. ASSUME Crash PROVE DaemonTypeOK'
  <2>1. /\ up' \in BOOLEAN /\ crashes' \in 0..MaxCrashes /\ early' \subseteq Instances
        /\ lock' = "free"
    <3>1. /\ up' = FALSE /\ early' = {} /\ lock' = "free"
          /\ crashes' = crashes + 1 /\ crashes < MaxCrashes
      BY <1>30 DEF Crash
    <3>2. crashes \in 0..MaxCrashes
      OBVIOUS
    <3>3. crashes' \in 0..MaxCrashes
      BY <3>1, <3>2
    <3>4. QED
      BY <3>1, <3>3
  <2>2. spc' \in [Instances -> SpawnPCs]
    BY <1>30 DEF Crash
  <2>3. child' \in [Instances -> ChildStates]
    BY <1>30 DEF Crash
  <2>4. rpc' \in [RpcCalls -> RpcPCs]
    BY <1>30 DEF Crash
  <2>5. stpc' \in [StopCalls -> StopPCs]
    BY <1>30 DEF Crash
  <2>6. /\ xpc' \in [Instances -> {"none", "wait", "deaf", "save", "over"}]
        /\ termed' \in [Instances -> BOOLEAN]
        /\ pending' \in [Instances -> SUBSET Requesters]
        /\ req' \in [Requesters -> ReqPCs]
        /\ target' \in [StopCalls \cup RpcCalls -> Instances]
    BY <1>30 DEF Crash
  <2>7. /\ store' \in [Instances -> Records] /\ live' \in [Instances -> Records]
        /\ copy' \in [Tasks -> [Instances -> Records]]
        /\ \A i \in Instances : live'[i] = "absent"
    <3>1. Nothing \in [Instances -> Records] /\ \A i \in Instances : Nothing[i] = "absent"
      BY DEF Nothing
    <3> HIDE DEF Tasks, Records
    <3>2. store' = store /\ live' = Nothing /\ copy' = [t \in Tasks |-> Nothing]
      BY <1>30 DEF Crash
    <3>3. QED
      BY <3>1, <3>2
  <2>8. QED
    BY <2>1, <2>2, <2>3, <2>4, <2>5, <2>6, <2>7
<1>31. ASSUME Recover PROVE DaemonTypeOK'
  BY <1>31 DEF Recover
<1>32. CASE UNCHANGED orchVars
  BY <1>32
<1>33. QED
  BY <1>1, <1>2, <1>3, <1>4, <1>5, <1>6, <1>7, <1>8, <1>9, <1>10, <1>11,
     <1>12, <1>13, <1>14, <1>15, <1>16, <1>17, <1>18, <1>19, <1>20, <1>21, <1>22,
     <1>23, <1>24, <1>25, <1>26, <1>27, <1>28, <1>29, <1>30, <1>31, <1>32
  DEF DaemonNext, SpawnStep, ReqStep, StopStep, RpcStep

\* Every step keeps the file, and what is loaded of it, free of ghosts: a task
\* writes what it has loaded, and a record of its own instance.
LEMMA FileNext == DaemonInv /\ [DaemonNext]_orchVars => (NoGhostOnline /\ CopiesOwn)'
<1> SUFFICES ASSUME DaemonInv, [DaemonNext]_orchVars PROVE (NoGhostOnline /\ CopiesOwn)'
  OBVIOUS
<1> USE OrchestratorAssumption
    DEF DaemonInv, DaemonTypeOK, NoGhostOnline, CopiesOwn, Tasks,
        orchVars, fileVars, mapVars, childVars, reqVars, callVars, daemonVars
<1>1. ASSUME NEW i \in Instances, SpawnBegins(i) PROVE (NoGhostOnline /\ CopiesOwn)'
  BY <1>1 DEF SpawnBegins, Step, Load
<1>2. ASSUME NEW i \in Instances, SpawnStarting(i) PROVE (NoGhostOnline /\ CopiesOwn)'
  BY <1>2 DEF SpawnStarting, Step, Save, Nothing
<1>3. ASSUME NEW i \in Instances, SpawnProcess(i) PROVE (NoGhostOnline /\ CopiesOwn)'
  BY <1>3 DEF SpawnProcess, Step
<1>4. ASSUME NEW i \in Instances, SpawnWatch(i) PROVE (NoGhostOnline /\ CopiesOwn)'
  BY <1>4 DEF SpawnWatch, Step
<1>5. ASSUME NEW i \in Instances, SpawnState(i) PROVE (NoGhostOnline /\ CopiesOwn)'
  BY <1>5 DEF SpawnState, Step
<1>6. ASSUME NEW i \in Instances, SpawnInsert(i) PROVE (NoGhostOnline /\ CopiesOwn)'
  BY <1>6 DEF SpawnInsert, Step
<1>7. ASSUME NEW i \in Instances, SpawnMark(i) PROVE (NoGhostOnline /\ CopiesOwn)'
  BY <1>7 DEF SpawnMark, Step, Load
<1>8. ASSUME NEW i \in Instances, SpawnOnline(i) PROVE (NoGhostOnline /\ CopiesOwn)'
  BY <1>8 DEF SpawnOnline, Step, Save, Nothing
<1>9. ASSUME NEW i \in Instances, SpawnFails(i) PROVE (NoGhostOnline /\ CopiesOwn)'
  <2>1. CASE Step(i, "error", "errorSave") /\ Load(i)
    BY <1>9, <2>1 DEF SpawnFails, Step, Load
  <2>2. CASE Step(i, "errorSave", "stopped") /\ Save(i, i, "error")
    BY <1>9, <2>2 DEF SpawnFails, Step, Save, Nothing
  <2>3. CASE Step(i, "stopped", "stoppedSave") /\ Load(i)
    BY <1>9, <2>3 DEF SpawnFails, Step, Load
  <2>4. CASE Step(i, "stoppedSave", "remove") /\ Save(i, i, "stopped")
    BY <1>9, <2>4 DEF SpawnFails, Step, Save, Nothing
  <2>5. QED
    BY <1>9, <2>1, <2>2, <2>3, <2>4 DEF SpawnFails
<1>10. ASSUME NEW i \in Instances, SpawnRemoved(i) PROVE (NoGhostOnline /\ CopiesOwn)'
  BY <1>10 DEF SpawnRemoved, Step
<1>11. ASSUME NEW i \in Instances, ChildExits(i) PROVE (NoGhostOnline /\ CopiesOwn)'
  BY <1>11 DEF ChildExits
<1>12. ASSUME NEW i \in Instances, ReapChild(i) PROVE (NoGhostOnline /\ CopiesOwn)'
  BY <1>12 DEF ReapChild
<1>13. ASSUME NEW i \in Instances, ExitSeen(i) PROVE (NoGhostOnline /\ CopiesOwn)'
  BY <1>13 DEF ExitSeen, Load
<1>14. ASSUME NEW i \in Instances, ExitSaved(i) PROVE (NoGhostOnline /\ CopiesOwn)'
  BY <1>14 DEF ExitSaved, Save, Nothing
<1>15. ASSUME NEW t \in Requesters, ReqInsert(t) PROVE (NoGhostOnline /\ CopiesOwn)'
  BY <1>15 DEF ReqInsert
<1>16. ASSUME NEW t \in Requesters, ReqWrite(t) PROVE (NoGhostOnline /\ CopiesOwn)'
  BY <1>16 DEF ReqWrite
<1>17. ASSUME NEW t \in Requesters, ChildAnswers(t) PROVE (NoGhostOnline /\ CopiesOwn)'
  BY <1>17 DEF ChildAnswers
<1>18. ASSUME NEW t \in Requesters, ReqTimeout(t) PROVE (NoGhostOnline /\ CopiesOwn)'
  BY <1>18 DEF ReqTimeout
<1>19. ASSUME NEW c \in StopCalls, StopBegins(c) PROVE (NoGhostOnline /\ CopiesOwn)'
  BY <1>19 DEF StopBegins, StopGoes, Load
<1>20. ASSUME NEW c \in StopCalls, StopSaved(c) PROVE (NoGhostOnline /\ CopiesOwn)'
  BY <1>20 DEF StopSaved, StopGoes, Save, Nothing
<1>21. ASSUME NEW c \in StopCalls, StopTerm(c) PROVE (NoGhostOnline /\ CopiesOwn)'
  BY <1>21 DEF StopTerm, StopGoes
<1>22. ASSUME NEW c \in StopCalls, StopWait(c) PROVE (NoGhostOnline /\ CopiesOwn)'
  BY <1>22 DEF StopWait, StopGoes
<1>23. ASSUME NEW c \in StopCalls, StopDrop(c) PROVE (NoGhostOnline /\ CopiesOwn)'
  BY <1>23 DEF StopDrop, StopGoes
<1>24. ASSUME NEW c \in StopCalls, StopRemove(c) PROVE (NoGhostOnline /\ CopiesOwn)'
  BY SMTT(30), <1>24 DEF StopRemove, StopGoes, Load, Save, Nothing
<1>25. ASSUME NEW r \in RpcCalls, RpcBegins(r) PROVE (NoGhostOnline /\ CopiesOwn)'
  BY <1>25 DEF RpcBegins, RpcGoes
<1>26. ASSUME NEW r \in RpcCalls, RpcAnswered(r) PROVE (NoGhostOnline /\ CopiesOwn)'
  BY <1>26 DEF RpcAnswered, RpcGoes
<1>27. ASSUME NEW r \in RpcCalls, RpcRefreshed(r) PROVE (NoGhostOnline /\ CopiesOwn)'
  BY <1>27 DEF RpcRefreshed, RpcGoes
<1>28. ASSUME NEW r \in RpcCalls, RpcUpsert(r) PROVE (NoGhostOnline /\ CopiesOwn)'
  BY <1>28 DEF RpcUpsert, RpcGoes, Load
<1>29. ASSUME NEW r \in RpcCalls, RpcSaved(r) PROVE (NoGhostOnline /\ CopiesOwn)'
  BY <1>29 DEF RpcSaved, RpcGoes, Save, Nothing
<1>30. ASSUME Crash PROVE (NoGhostOnline /\ CopiesOwn)'
  BY <1>30 DEF Crash, Nothing
<1>31. ASSUME Recover PROVE (NoGhostOnline /\ CopiesOwn)'
  BY <1>31 DEF Recover
<1>32. CASE UNCHANGED orchVars
  BY <1>32
<1>33. QED
  BY <1>1, <1>2, <1>3, <1>4, <1>5, <1>6, <1>7, <1>8, <1>9, <1>10, <1>11,
     <1>12, <1>13, <1>14, <1>15, <1>16, <1>17, <1>18, <1>19, <1>20, <1>21, <1>22,
     <1>23, <1>24, <1>25, <1>26, <1>27, <1>28, <1>29, <1>30, <1>31, <1>32
  DEF DaemonNext, SpawnStep, ReqStep, StopStep, RpcStep

\* Every step keeps what a stop has seen: no child is started and nothing goes
\* into the map once the spawn of an instance is past that.
LEMMA StopNext == DaemonInv /\ [DaemonNext]_orchVars => StopKnows'
<1> SUFFICES ASSUME DaemonInv, [DaemonNext]_orchVars PROVE StopKnows'
  OBVIOUS
<1> USE OrchestratorAssumption
    DEF DaemonInv, DaemonTypeOK, StopKnows, Inserted, Alive,
        orchVars, fileVars, mapVars, childVars, reqVars, callVars, daemonVars
<1>1. ASSUME NEW i \in Instances, SpawnBegins(i) PROVE StopKnows'
  BY <1>1 DEF SpawnBegins, Step, Load
<1>2. ASSUME NEW i \in Instances, SpawnStarting(i) PROVE StopKnows'
  BY <1>2 DEF SpawnStarting, Step, Save, Nothing
<1>3. ASSUME NEW i \in Instances, SpawnProcess(i) PROVE StopKnows'
  BY <1>3 DEF SpawnProcess, Step
<1>4. ASSUME NEW i \in Instances, SpawnWatch(i) PROVE StopKnows'
  BY <1>4 DEF SpawnWatch, Step
<1>5. ASSUME NEW i \in Instances, SpawnState(i) PROVE StopKnows'
  BY <1>5 DEF SpawnState, Step
<1>6. ASSUME NEW i \in Instances, SpawnInsert(i) PROVE StopKnows'
  BY <1>6 DEF SpawnInsert, Step
<1>7. ASSUME NEW i \in Instances, SpawnMark(i) PROVE StopKnows'
  BY <1>7 DEF SpawnMark, Step, Load
<1>8. ASSUME NEW i \in Instances, SpawnOnline(i) PROVE StopKnows'
  BY <1>8 DEF SpawnOnline, Step, Save, Nothing
<1>9. ASSUME NEW i \in Instances, SpawnFails(i) PROVE StopKnows'
  BY <1>9 DEF SpawnFails, Step, Load, Save, Nothing
<1>10. ASSUME NEW i \in Instances, SpawnRemoved(i) PROVE StopKnows'
  BY <1>10 DEF SpawnRemoved, Step
<1>11. ASSUME NEW i \in Instances, ChildExits(i) PROVE StopKnows'
  BY <1>11 DEF ChildExits
<1>12. ASSUME NEW i \in Instances, ReapChild(i) PROVE StopKnows'
  BY <1>12 DEF ReapChild
<1>13. ASSUME NEW i \in Instances, ExitSeen(i) PROVE StopKnows'
  BY <1>13 DEF ExitSeen, Load
<1>14. ASSUME NEW i \in Instances, ExitSaved(i) PROVE StopKnows'
  BY <1>14 DEF ExitSaved, Save, Nothing
<1>15. ASSUME NEW t \in Requesters, ReqInsert(t) PROVE StopKnows'
  BY <1>15 DEF ReqInsert
<1>16. ASSUME NEW t \in Requesters, ReqWrite(t) PROVE StopKnows'
  BY <1>16 DEF ReqWrite
<1>17. ASSUME NEW t \in Requesters, ChildAnswers(t) PROVE StopKnows'
  BY <1>17 DEF ChildAnswers
<1>18. ASSUME NEW t \in Requesters, ReqTimeout(t) PROVE StopKnows'
  BY <1>18 DEF ReqTimeout
<1>19. ASSUME NEW c \in StopCalls, StopBegins(c) PROVE StopKnows'
  BY <1>19 DEF StopBegins, StopGoes, Load
<1>20. ASSUME NEW c \in StopCalls, StopSaved(c) PROVE StopKnows'
  BY <1>20 DEF StopSaved, StopGoes, Save, Nothing
<1>21. ASSUME NEW c \in StopCalls, StopTerm(c) PROVE StopKnows'
  BY <1>21 DEF StopTerm, StopGoes
<1>22. ASSUME NEW c \in StopCalls, StopWait(c) PROVE StopKnows'
  BY <1>22 DEF StopWait, StopGoes
<1>23. ASSUME NEW c \in StopCalls, StopDrop(c) PROVE StopKnows'
  BY <1>23 DEF StopDrop, StopGoes
<1>24. ASSUME NEW c \in StopCalls, StopRemove(c) PROVE StopKnows'
  BY <1>24 DEF StopRemove, StopGoes, Load, Save, Nothing
<1>25. ASSUME NEW r \in RpcCalls, RpcBegins(r) PROVE StopKnows'
  BY <1>25 DEF RpcBegins, RpcGoes
<1>26. ASSUME NEW r \in RpcCalls, RpcAnswered(r) PROVE StopKnows'
  BY <1>26 DEF RpcAnswered, RpcGoes
<1>27. ASSUME NEW r \in RpcCalls, RpcRefreshed(r) PROVE StopKnows'
  BY <1>27 DEF RpcRefreshed, RpcGoes
<1>28. ASSUME NEW r \in RpcCalls, RpcUpsert(r) PROVE StopKnows'
  BY <1>28 DEF RpcUpsert, RpcGoes, Load
<1>29. ASSUME NEW r \in RpcCalls, RpcSaved(r) PROVE StopKnows'
  BY <1>29 DEF RpcSaved, RpcGoes, Save, Nothing
<1>30. ASSUME Crash PROVE StopKnows'
  BY <1>30 DEF Crash, Nothing
<1>31. ASSUME Recover PROVE StopKnows'
  BY <1>31 DEF Recover
<1>32. CASE UNCHANGED orchVars
  BY <1>32
<1>33. QED
  BY <1>1, <1>2, <1>3, <1>4, <1>5, <1>6, <1>7, <1>8, <1>9, <1>10, <1>11,
     <1>12, <1>13, <1>14, <1>15, <1>16, <1>17, <1>18, <1>19, <1>20, <1>21, <1>22,
     <1>23, <1>24, <1>25, <1>26, <1>27, <1>28, <1>29, <1>30, <1>31, <1>32
  DEF DaemonNext, SpawnStep, ReqStep, StopStep, RpcStep

\* The invariant implies what a client may rely on.
LEMMA DaemonInvImplies == DaemonInv => RecordsAreTrue
<1> SUFFICES ASSUME DaemonInv PROVE RecordsAreTrue
  OBVIOUS
<1>1. StopIsFinal
  BY DEF DaemonInv, StopKnows, StopIsFinal
<1>2. QED
  BY <1>1 DEF DaemonInv, RecordsAreTrue

\* The strengthened invariant holds in every behaviour of the daemon.
THEOREM DaemonInvariant == DaemonSpec => []DaemonInv
<1>1. DaemonInv /\ [DaemonNext]_orchVars => DaemonInv'
  BY TypeNext, FileNext, StopNext DEF DaemonInv
<1>2. QED
  BY <1>1, InitDaemonInv, PTL DEF DaemonSpec

\* What a client can see of an instance is true of its child, for any number of
\* instances and requests: a stop that succeeded is final, and no record says
\* online of an instance that went with a crash (supervisor.rs, storage.rs).
THEOREM RecordsTrue == DaemonSpec => []RecordsAreTrue
  BY DaemonInvariant, DaemonInvImplies, PTL

-----------------------------------------------------------------------------
(***************************************************************************)
(* Clients bridged to instances, for any number of clients and instances   *)
(* and any lines typed.                                                    *)
(*                                                                         *)
(* BridgeInv strengthens BridgeIsSound by where each line of a client is   *)
(* (LinesInOrder, TaskIsAtLine), by which requests are on the wire of      *)
(* which instance and which of them have an answer (WiresAreKnown,         *)
(* AnswerIsOwn), and by what was owed to a client since it attached.       *)
(***************************************************************************)

TypedLine ==
  {l \in [kind : {"command", "raw", "badId"}, id : Ids \cup {NoId}, whole : BOOLEAN] :
     l.kind = "command" \/ l.id = NoId}
Requests == Streams \X Nat
Messages ==
  {Anonymous, Refusal} \cup {Response(r) : r \in Requests} \cup {Event(n) : n \in Nat}

BridgeTyped ==
  /\ client \in [Streams -> {"new", "wait", "on", "gone"}]
  /\ typed \in [Streams -> Seq(TypedLine)]
  /\ lines \in [Streams -> Seq(Nat)]
  /\ bridge \in [Streams -> {"none", "subscribed", "open", "closed"}]
  /\ task \in [Streams -> {"idle", "write", "wait", "ended"}]
  /\ cmd \in [Streams -> Nat]
  /\ oneshot \in [Streams -> {<<>>} \cup {<<m>> : m \in Messages}]
  /\ replies \in [Streams -> Seq(Messages)]
  /\ events = [c \in Streams |-> events[c]] /\ owed = events
  /\ awaited \subseteq Requests
  /\ inbox \in Seq(Requests \cup {<<>>}) /\ out \in Seq(Messages)
  /\ emitted \in Nat

\* A line that has been typed.
Known(r) == r \in Requests /\ r[2] \in 1..Len(typed[r[1]])

WiresAreKnown ==
  /\ \A r \in awaited : Known(r) /\ Asks(r[1], r[2])
  /\ \A i \in 1..Len(inbox) : inbox[i] = <<>> \/ \E r \in Requests : Known(r) /\ inbox[i] = r
  /\ \A i \in 1..Len(out) :
       \/ out[i] = Anonymous \/ out[i].kind = "event"
       \/ \E r \in Requests : Known(r) /\ out[i] = Response(r)

\* The lines that a bridge has not taken yet are in their order.
Begun(c) == bridge[c] \in {"open", "closed"}
LinesInOrder(c) ==
  /\ cmd[c] <= Len(typed[c])
  /\ client[c] = "on" => Begun(c)
  /\ client[c] = "new" => bridge[c] = "none"
  /\ ~Begun(c) => cmd[c] = 0 /\ typed[c] = <<>>
  /\ bridge[c] # "closed" => Len(typed[c]) = cmd[c] + Len(lines[c])
  /\ \A i \in 1..Len(lines[c]) : lines[c][i] = cmd[c] + i

Busy(c) == task[c] \in {"write", "wait"}
TaskIsAtLine(c) ==
  Busy(c) => /\ cmd[c] \in 1..Len(typed[c])
             /\ typed[c][cmd[c]].whole /\ typed[c][cmd[c]].kind # "badId"
             /\ task[c] = "wait" => typed[c][cmd[c]].kind # "raw"

\* A task has one reply for each line that it is through with and that asks for one.
Settled(c) == IF Busy(c) THEN cmd[c] - 1 ELSE cmd[c]
RepliesCount(c) ==
  task[c] # "ended" =>
    /\ Len(replies[c]) = Cardinality(Asked(c, Settled(c)))
    /\ \A i \in 1..Len(replies[c]) : replies[c][i] # Refusal

StreamIsTrue(c) == LinesInOrder(c) /\ TaskIsAtLine(c) /\ RepliesCount(c)

\* A request that is not over has its own answer or an error, or will be found.
AnswerIsOwn(c) ==
  Busy(c) /\ Asks(c, cmd[c]) =>
    /\ oneshot[c] \in {<<>>, <<Refusal>>, <<Response(<<c, cmd[c]>>)>>}
    /\ <<c, cmd[c]>> \in awaited \/ oneshot[c] # <<>>

BridgeInv ==
  /\ BridgeTyped /\ WiresAreKnown
  /\ (\A c \in Streams : StreamIsTrue(c))
  /\ DistinctIds => \A c \in Streams : AnswerIsOwn(c)
  /\ RepliesAreOwn

-----------------------------------------------------------------------------
(* Lines that ask for a reply, and ids. *)

LEMMA AskedCount ==
  ASSUME NEW c, NEW n \in Nat
  PROVE  /\ Cardinality(Asked(c, n)) \in Nat
         /\ n = 0 => Cardinality(Asked(c, n)) = 0
         /\ n # 0 => Cardinality(Asked(c, n)) =
              Cardinality(Asked(c, n - 1)) + (IF Asks(c, n) THEN 1 ELSE 0)
<1>1. ASSUME NEW k \in Nat
      PROVE  IsFiniteSet(Asked(c, k)) /\ Cardinality(Asked(c, k)) \in Nat
  <2>1. IsFiniteSet(1..k) /\ Asked(c, k) \subseteq 1..k
    BY FS_Interval DEF Asked
  <2> QED BY <2>1, FS_Subset, FS_CardinalityType
<1>2. n = 0 => Asked(c, n) = {}
  BY DEF Asked
<1>3. ASSUME n # 0 PROVE n - 1 \in Nat /\ n \notin Asked(c, n - 1)
  BY <1>3 DEF Asked
<1>4. ASSUME n # 0, Asks(c, n) PROVE Asked(c, n) = Asked(c, n - 1) \cup {n}
  BY <1>4 DEF Asked
<1>5. ASSUME n # 0, ~Asks(c, n) PROVE Asked(c, n) = Asked(c, n - 1)
  BY <1>5 DEF Asked
<1>6. ASSUME n # 0, Asks(c, n)
      PROVE  Cardinality(Asked(c, n)) = Cardinality(Asked(c, n - 1)) + 1
  <2>1. IsFiniteSet(Asked(c, n - 1))
    BY <1>1, <1>3, <1>6
  <2>2. Cardinality(Asked(c, n - 1) \cup {n}) = Cardinality(Asked(c, n - 1)) + 1
    BY <1>3, <1>6, <2>1, FS_AddElement
  <2> QED BY <1>4, <1>6, <2>2
<1>7. ASSUME n # 0 PROVE Cardinality(Asked(c, n - 1)) \in Nat
  BY <1>1, <1>3, <1>7
<1> QED BY <1>1, <1>2, <1>5, <1>6, <1>7, FS_EmptySet

\* Lines are only added.
TypedGrows ==
  \A c \in Streams :
    /\ Len(typed[c]) \in Nat /\ Len(typed'[c]) \in Nat
    /\ Len(typed[c]) <= Len(typed'[c])
    /\ \A i \in 1..Len(typed[c]) : i \in 1..Len(typed'[c]) /\ typed'[c][i] = typed[c][i]

LEMMA LinesTyped ==
  ASSUME NEW t \in [Streams -> Seq(TypedLine)], NEW c \in Streams
  PROVE  /\ Len(t[c]) \in Nat /\ DOMAIN t[c] = 1..Len(t[c])
         /\ \A i \in 1..Len(t[c]) : t[c][i] \in TypedLine /\ t[c][i].id \in Ids \cup {NoId}
<1>1. t[c] \in Seq(TypedLine)
  OBVIOUS
<1>2. \A i \in 1..Len(t[c]) : t[c][i] \in TypedLine
  BY <1>1
<1>3. \A l \in TypedLine : l.id \in Ids \cup {NoId}
  BY DEF TypedLine
<1> QED BY <1>1, <1>2, <1>3

LEMMA SameTyped == ASSUME BridgeTyped, typed' = typed PROVE TypedGrows
BY DEF BridgeTyped, TypedGrows

LEMMA KnownGrows ==
  ASSUME TypedGrows, NEW r, Known(r)
  PROVE  /\ Known(r)' /\ IdOf(r)' = IdOf(r)
         /\ Asks(r[1], r[2])' <=> Asks(r[1], r[2])
BY DEF Known, Requests, TypedGrows, IdOf, Asks, GeneratedId

LEMMA AskedGrows ==
  ASSUME TypedGrows, NEW c \in Streams, NEW n \in 0..Len(typed[c])
  PROVE  Asked(c, n)' = Asked(c, n)
<1>1. \A m \in 1..n : Asks(c, m)' <=> Asks(c, m)
  BY DEF TypedGrows, Asks
<1> QED BY <1>1 DEF Asked

LEMMA DistinctBefore == ASSUME BridgeTyped, BridgeTyped', TypedGrows, DistinctIds' PROVE DistinctIds
<1> SUFFICES ASSUME NEW c \in Streams, NEW d \in Streams, NEW n \in DOMAIN typed[c],
                    NEW m \in DOMAIN typed[d], typed[c][n].id = typed[d][m].id,
                    typed[c][n].id # NoId
             PROVE  <<c, n>> = <<d, m>>
  BY DEF DistinctIds
<1>1. n \in 1..Len(typed[c]) /\ m \in 1..Len(typed[d])
  BY LinesTyped DEF BridgeTyped
<1>2. typed' \in [Streams -> Seq(TypedLine)]
  BY DEF BridgeTyped
<1>3. n \in DOMAIN typed'[c] /\ m \in DOMAIN typed'[d]
  BY <1>1, <1>2, LinesTyped DEF TypedGrows
<1>4. typed'[c][n] = typed[c][n] /\ typed'[d][m] = typed[d][m]
  BY <1>1 DEF TypedGrows
<1> QED BY <1>3, <1>4 DEF DistinctIds

\* No two lines have the same id.
LEMMA SameId ==
  ASSUME BridgeTyped, DistinctIds, NEW r, NEW s, Known(r), Known(s), IdOf(r) = IdOf(s)
  PROVE  r = s
<1>1. PICK c \in Streams, n \in Nat : n \in 1..Len(typed[c]) /\ r = <<c, n>>
  BY DEF Known, Requests
<1>2. PICK d \in Streams, m \in Nat : m \in 1..Len(typed[d]) /\ s = <<d, m>>
  BY DEF Known, Requests
<1>3. /\ n \in DOMAIN typed[c] /\ m \in DOMAIN typed[d]
      /\ typed[c][n].id \in Ids \cup {NoId} /\ typed[d][m].id \in Ids \cup {NoId}
      /\ <<c, n>> \in Streams \X Nat /\ <<d, m>> \in Streams \X Nat
  BY <1>1, <1>2, LinesTyped DEF BridgeTyped
<1>4. /\ IdOf(r) = IF typed[c][n].id = NoId THEN <<c, n>> ELSE typed[c][n].id
      /\ IdOf(s) = IF typed[d][m].id = NoId THEN <<d, m>> ELSE typed[d][m].id
  BY <1>1, <1>2 DEF IdOf, GeneratedId
<1>5. \A id \in Ids : id \notin Streams \X Nat
  BY BridgeAssumption
<1>6. CASE typed[c][n].id = NoId
  BY <1>1, <1>2, <1>3, <1>4, <1>5, <1>6
<1>7. CASE typed[c][n].id # NoId
  <2>1. typed[d][m].id # NoId
    BY <1>3, <1>4, <1>5, <1>7
  <2> QED BY <1>1, <1>2, <1>3, <1>4, <1>7, <2>1 DEF DistinctIds
<1> QED BY <1>6, <1>7

-----------------------------------------------------------------------------
(* What a step leaves alone. *)

Still(c) ==
  /\ client'[c] = client[c] /\ typed'[c] = typed[c] /\ lines'[c] = lines[c]
  /\ bridge'[c] = bridge[c] /\ task'[c] = task[c] /\ cmd'[c] = cmd[c]
  /\ replies'[c] = replies[c]

LEMMA StillTrue == ASSUME NEW c \in Streams, StreamIsTrue(c), Still(c) PROVE StreamIsTrue(c)'
<1>1. Busy(c)' <=> Busy(c)
  BY DEF Still, Busy
<1>2. Settled(c)' = Settled(c)
  BY <1>1 DEF Still, Settled
<1>3. Asked(c, Settled(c))' = Asked(c, Settled(c))
  BY <1>2 DEF Still, Asked, Asks
<1> QED BY <1>1, <1>2, <1>3
        DEF Still, StreamIsTrue, LinesInOrder, Begun, TaskIsAtLine, RepliesCount, Refusal

LEMMA StillOwn ==
  ASSUME NEW c \in Streams, AnswerIsOwn(c), Still(c), oneshot'[c] = oneshot[c],
         <<c, cmd[c]>> \in awaited => <<c, cmd[c]>> \in awaited'
  PROVE  AnswerIsOwn(c)'
BY DEF AnswerIsOwn, Still, Busy, Asks, Response, Refusal

\* Every reply that was made is still one to its own line.
LEMMA RepliesKept ==
  ASSUME BridgeTyped, BridgeTyped', TypedGrows, RepliesAreOwn, DistinctIds',
         NEW c \in Streams, replies'[c] = replies[c],
         NEW i \in DOMAIN replies'[c]
  PROVE  \E n \in DOMAIN typed'[c] :
           /\ Asks(c, n)' /\ Cardinality(Asked(c, n)') = i
           /\ \/ replies'[c][i] = Response(<<c, n>>)
              \/ replies'[c][i] = Refusal /\ i = Len(replies'[c])
<1>1. PICK n \in DOMAIN typed[c] :
        /\ Asks(c, n) /\ Cardinality(Asked(c, n)) = i
        /\ \/ replies[c][i] = Response(<<c, n>>)
           \/ replies[c][i] = Refusal /\ i = Len(replies[c])
  BY DistinctBefore DEF RepliesAreOwn
<1>2. n \in 1..Len(typed[c]) /\ DOMAIN typed'[c] = 1..Len(typed'[c])
  BY DEF BridgeTyped
<1>3. n \in DOMAIN typed'[c] /\ (Asks(c, n)' <=> Asks(c, n))
  BY <1>2 DEF TypedGrows, Asks
<1>4. Asked(c, n)' = Asked(c, n)
  BY <1>2, AskedGrows DEF TypedGrows
<1> QED BY <1>1, <1>3, <1>4

LEMMA WiresKept ==
  ASSUME BridgeTyped, WiresAreKnown, TypedGrows,
         \A r \in awaited' : r \in awaited \/ (Known(r)' /\ Asks(r[1], r[2])'),
         \A i \in 1..Len(inbox') :
           \/ \E k \in 1..Len(inbox) : inbox'[i] = inbox[k]
           \/ inbox'[i] = <<>>
           \/ \E r \in Requests : Known(r)' /\ inbox'[i] = r,
         \A i \in 1..Len(out') :
           \/ \E k \in 1..Len(out) : out'[i] = out[k]
           \/ out'[i] = Anonymous \/ out'[i].kind = "event"
           \/ \E r \in Requests : Known(r)' /\ out'[i] = Response(r)
  PROVE  WiresAreKnown'
<1>1. \A r \in awaited' : Known(r)' /\ Asks(r[1], r[2])'
  BY KnownGrows DEF WiresAreKnown
<1>2. \A i \in 1..Len(inbox') :
        inbox'[i] = <<>> \/ \E r \in Requests : Known(r)' /\ inbox'[i] = r
  BY KnownGrows DEF WiresAreKnown
<1>3. \A i \in 1..Len(out') :
        \/ out'[i] = Anonymous \/ out'[i].kind = "event"
        \/ \E r \in Requests : Known(r)' /\ out'[i] = Response(r)
  BY KnownGrows DEF WiresAreKnown
<1> QED BY <1>1, <1>2, <1>3 DEF WiresAreKnown, Anonymous, Response, Requests

LEMMA StillThere ==
  ASSUME BridgeTyped, inbox' = inbox, out' = out
  PROVE  /\ \A i \in 1..Len(inbox') : \E k \in 1..Len(inbox) : inbox'[i] = inbox[k]
         /\ \A i \in 1..Len(out') : \E k \in 1..Len(out) : out'[i] = out[k]
OBVIOUS

\* A step of the bridge or the client c, and one of none, that types no line.
LEMMA StreamStep ==
  ASSUME BridgeInv, NEW c \in Streams, BridgeTyped', TypedGrows, WiresAreKnown',
         \A d \in Streams \ {c} :
           /\ Still(d)
           /\ DistinctIds => oneshot'[d] = oneshot[d]
                             /\ (<<d, cmd[d]>> \in awaited => <<d, cmd[d]>> \in awaited'),
         StreamIsTrue(c)', DistinctIds => AnswerIsOwn(c)',
         replies'[c] = replies[c]
  PROVE  BridgeInv'
<1>1. \A d \in Streams : StreamIsTrue(d)'
  BY StillTrue DEF BridgeInv
<1>2. DistinctIds' => \A d \in Streams : AnswerIsOwn(d)'
  BY DistinctBefore, StillOwn DEF BridgeInv
<1>3. RepliesAreOwn'
  <2>1. \A d \in Streams : replies'[d] = replies[d]
    BY DEF Still
  <2> QED BY <2>1, RepliesKept DEF BridgeInv, RepliesAreOwn
<1> QED BY <1>1, <1>2, <1>3 DEF BridgeInv

LEMMA NoStreamStep ==
  ASSUME BridgeInv, BridgeTyped', TypedGrows, WiresAreKnown',
         \A d \in Streams : Still(d) /\ (DistinctIds => AnswerIsOwn(d)')
  PROVE  BridgeInv'
<1>1. \A d \in Streams : StreamIsTrue(d)'
  BY StillTrue DEF BridgeInv
<1>2. DistinctIds' => \A d \in Streams : AnswerIsOwn(d)'
  BY DistinctBefore DEF BridgeInv
<1>3. RepliesAreOwn'
  <2>1. \A d \in Streams : replies'[d] = replies[d]
    BY DEF Still
  <2> QED BY <2>1, RepliesKept DEF BridgeInv, RepliesAreOwn
<1> QED BY <1>1, <1>2, <1>3 DEF BridgeInv

LEMMA BridgeInitial == BridgeInit => BridgeInv
<1> SUFFICES ASSUME BridgeInit PROVE BridgeInv
  OBVIOUS
<1>1. BridgeTyped
  BY DEF BridgeInit, BridgeTyped
<1>2. WiresAreKnown
  BY DEF BridgeInit, WiresAreKnown
<1>3. ASSUME NEW c \in Streams PROVE StreamIsTrue(c) /\ AnswerIsOwn(c)
  <2>1. Cardinality(Asked(c, 0)) = 0
    BY AskedCount
  <2> QED BY <2>1 DEF BridgeInit, StreamIsTrue, LinesInOrder, Begun, TaskIsAtLine, Busy,
                      RepliesCount, Settled, AnswerIsOwn
<1>4. RepliesAreOwn
  BY DEF BridgeInit, RepliesAreOwn
<1> QED BY <1>1, <1>2, <1>3, <1>4 DEF BridgeInv

-----------------------------------------------------------------------------
(* The steps. *)

LEMMA AskedSame ==
  ASSUME typed' = typed, NEW c, NEW n
  PROVE  Asked(c, n)' = Asked(c, n) /\ (Asks(c, n)' <=> Asks(c, n))
BY DEF Asked, Asks

LEMMA QuietWires ==
  ASSUME BridgeInv, TypedGrows, awaited' \subseteq awaited, inbox' = inbox, out' = out
  PROVE  WiresAreKnown'
BY WiresKept, StillThere DEF BridgeInv

\* A step that types no line, registers no request and puts nothing in the pipes.
LEMMA PlainStep ==
  ASSUME BridgeInv, NEW c \in Streams, BridgeTyped', typed' = typed,
         awaited' = awaited, inbox' = inbox, out' = out,
         \A d \in Streams \ {c} : Still(d) /\ oneshot'[d] = oneshot[d],
         StreamIsTrue(c)', DistinctIds => AnswerIsOwn(c)',
         replies'[c] = replies[c]
  PROVE  BridgeInv'
<1>1. TypedGrows
  BY SameTyped DEF BridgeInv
<1> QED BY <1>1, QuietWires, StreamStep

LEMMA OpenStreamKeeps ==
  ASSUME BridgeInv, NEW c \in Streams, OpenStream(c) PROVE BridgeInv'
<1>1. /\ client' = [client EXCEPT ![c] = "wait"] /\ client[c] = "new"
      /\ bridge' = [bridge EXCEPT ![c] = "subscribed"]
      /\ UNCHANGED <<typed, lines, task, cmd, oneshot, replies, events, owed, awaited,
                     inbox, out, emitted>>
  BY DEF OpenStream, taskVars, fanVars, pipeVars, instanceVars
<1>2. BridgeTyped
  BY DEF BridgeInv
<1>3. BridgeTyped'
  BY <1>1, <1>2 DEF BridgeTyped
<1>4. \A d \in Streams \ {c} : Still(d) /\ oneshot'[d] = oneshot[d]
  BY <1>1, <1>2 DEF Still, BridgeTyped
<1>5. StreamIsTrue(c) /\ (DistinctIds => AnswerIsOwn(c))
  BY DEF BridgeInv
<1>6. StreamIsTrue(c)'
  <2>1. LinesInOrder(c)'
    BY <1>1, <1>2, <1>5 DEF StreamIsTrue, LinesInOrder, Begun, BridgeTyped
  <2>2. TaskIsAtLine(c)' /\ RepliesCount(c)'
    BY <1>1, <1>5, AskedSame DEF StreamIsTrue, TaskIsAtLine, Busy, RepliesCount, Settled, Refusal
  <2> QED BY <2>1, <2>2 DEF StreamIsTrue
<1>7. DistinctIds => AnswerIsOwn(c)'
  BY <1>1, <1>5, AskedSame DEF AnswerIsOwn, Busy, Response, Refusal
<1> QED BY <1>1, <1>3, <1>4, <1>6, <1>7, PlainStep

LEMMA RpcReadyKeeps ==
  ASSUME BridgeInv, NEW c \in Streams, RpcReady(c) PROVE BridgeInv'
<1>1. /\ bridge[c] = "subscribed"
      /\ \/ /\ bridge' = [bridge EXCEPT ![c] = "closed"] /\ client' = client
            /\ events' = [events EXCEPT ![c] = 0] /\ owed' = [owed EXCEPT ![c] = 0]
         \/ /\ bridge' = [bridge EXCEPT ![c] = "open"]
            /\ client' = [client EXCEPT ![c] = "on"]
            /\ UNCHANGED <<events, owed>>
      /\ UNCHANGED <<typed, lines, task, cmd, oneshot, replies, awaited, inbox, out, emitted>>
  BY DEF RpcReady, taskVars, fanVars, pipeVars, instanceVars
<1>2. BridgeTyped
  BY DEF BridgeInv
<1>3. BridgeTyped'
  BY <1>1, <1>2 DEF BridgeTyped
<1>4. \A d \in Streams \ {c} : Still(d) /\ oneshot'[d] = oneshot[d]
  BY <1>1, <1>2 DEF Still, BridgeTyped
<1>5. StreamIsTrue(c) /\ (DistinctIds => AnswerIsOwn(c))
  BY DEF BridgeInv
<1>6. StreamIsTrue(c)'
  <2>1. LinesInOrder(c)'
    BY <1>1, <1>2, <1>5 DEF StreamIsTrue, LinesInOrder, Begun, BridgeTyped
  <2>2. TaskIsAtLine(c)' /\ RepliesCount(c)'
    BY <1>1, <1>5, AskedSame DEF StreamIsTrue, TaskIsAtLine, Busy, RepliesCount, Settled, Refusal
  <2> QED BY <2>1, <2>2 DEF StreamIsTrue
<1>7. DistinctIds => AnswerIsOwn(c)'
  BY <1>1, <1>5, AskedSame DEF AnswerIsOwn, Busy, Response, Refusal
<1> QED BY <1>1, <1>3, <1>4, <1>6, <1>7, PlainStep

LEMMA ClientEndsKeeps ==
  ASSUME BridgeInv, NEW c \in Streams, ClientEnds(c) PROVE BridgeInv'
<1>1. /\ client' = [client EXCEPT ![c] = "gone"]
      /\ UNCHANGED <<typed, lines, bridge, task, cmd, oneshot, replies, events, owed, awaited,
                     inbox, out, emitted>>
  BY DEF ClientEnds, taskVars, fanVars, pipeVars, instanceVars
<1>2. BridgeTyped
  BY DEF BridgeInv
<1>3. BridgeTyped'
  BY <1>1, <1>2 DEF BridgeTyped
<1>4. \A d \in Streams \ {c} : Still(d) /\ oneshot'[d] = oneshot[d]
  BY <1>1, <1>2 DEF Still, BridgeTyped
<1>5. StreamIsTrue(c) /\ (DistinctIds => AnswerIsOwn(c))
  BY DEF BridgeInv
<1>6. StreamIsTrue(c)'
  <2>1. LinesInOrder(c)'
    BY <1>1, <1>2, <1>5 DEF StreamIsTrue, LinesInOrder, Begun, BridgeTyped
  <2>2. TaskIsAtLine(c)' /\ RepliesCount(c)'
    BY <1>1, <1>5, AskedSame DEF StreamIsTrue, TaskIsAtLine, Busy, RepliesCount, Settled, Refusal
  <2> QED BY <2>1, <2>2 DEF StreamIsTrue
<1>7. DistinctIds => AnswerIsOwn(c)'
  BY <1>1, <1>5, AskedSame DEF AnswerIsOwn, Busy, Response, Refusal
<1> QED BY <1>1, <1>3, <1>4, <1>6, <1>7, PlainStep

LEMMA TypePartKeeps ==
  ASSUME BridgeInv, NEW c \in Streams, TypePart(c) PROVE BridgeInv'
<1>1. UNCHANGED <<client, typed, lines, bridge, task, cmd, oneshot, replies, events, owed,
                  awaited, inbox, out, emitted>>
  BY DEF TypePart, taskVars, fanVars, pipeVars, instanceVars
<1>2. BridgeTyped'
  BY <1>1 DEF BridgeInv, BridgeTyped
<1>3. \A d \in Streams : Still(d)
  BY <1>1 DEF Still
<1>4. StreamIsTrue(c)' /\ (DistinctIds => AnswerIsOwn(c)')
  BY <1>1, <1>3, StillTrue, StillOwn DEF BridgeInv
<1> QED BY <1>1, <1>2, <1>3, <1>4, PlainStep

LEMMA TypeLineKeeps ==
  ASSUME BridgeInv, NEW c \in Streams, TypeLine(c) PROVE BridgeInv'
<1>1. /\ client[c] = "on"
      /\ UNCHANGED <<bridge, task, cmd, oneshot, replies, events, owed, awaited, inbox, out,
                     emitted>>
      /\ \/ /\ client' = [client EXCEPT ![c] = "gone"] /\ UNCHANGED <<typed, lines>>
         \/ \E k \in LineKinds[c], id \in Ids \cup {NoId} :
              /\ bridge[c] = "open" /\ client' = client
              /\ k = "command" \/ id = NoId
              /\ typed' = [typed EXCEPT ![c] =
                   Append(@, [kind |-> k, id |-> id, whole |-> input[c] # "torn"])]
              /\ lines' = [lines EXCEPT ![c] = Append(@, Len(typed[c]) + 1)]
  BY DEF TypeLine, MayType, taskVars, fanVars, pipeVars, instanceVars
<1>2. BridgeTyped
  BY DEF BridgeInv
<1>5. StreamIsTrue(c) /\ (DistinctIds => AnswerIsOwn(c))
  BY DEF BridgeInv
<1>6. CASE client' = [client EXCEPT ![c] = "gone"] /\ UNCHANGED <<typed, lines>>
  <2>1. BridgeTyped'
    BY <1>1, <1>2, <1>6 DEF BridgeTyped
  <2>2. \A d \in Streams \ {c} : Still(d) /\ oneshot'[d] = oneshot[d]
    BY <1>1, <1>2, <1>6 DEF Still, BridgeTyped
  <2>3. LinesInOrder(c)'
    BY <1>1, <1>2, <1>5, <1>6 DEF StreamIsTrue, LinesInOrder, Begun, BridgeTyped
  <2>4. TaskIsAtLine(c)' /\ RepliesCount(c)'
    BY <1>1, <1>5, <1>6, AskedSame
    DEF StreamIsTrue, TaskIsAtLine, Busy, RepliesCount, Settled, Refusal
  <2>5. DistinctIds => AnswerIsOwn(c)'
    BY <1>1, <1>5, <1>6, AskedSame DEF AnswerIsOwn, Busy, Response, Refusal
  <2> QED BY <1>1, <1>6, <2>1, <2>2, <2>3, <2>4, <2>5, PlainStep DEF StreamIsTrue
<1>7. CASE ~(client' = [client EXCEPT ![c] = "gone"] /\ UNCHANGED <<typed, lines>>)
  <2>1. PICK l \in TypedLine :
          /\ bridge[c] = "open" /\ client' = client
          /\ typed' = [typed EXCEPT ![c] = Append(typed[c], l)]
          /\ lines' = [lines EXCEPT ![c] = Append(lines[c], Len(typed[c]) + 1)]
    <3>1. PICK k \in LineKinds[c], id \in Ids \cup {NoId} :
              /\ bridge[c] = "open" /\ client' = client
              /\ k = "command" \/ id = NoId
              /\ typed' = [typed EXCEPT ![c] =
                   Append(@, [kind |-> k, id |-> id, whole |-> input[c] # "torn"])]
              /\ lines' = [lines EXCEPT ![c] = Append(@, Len(typed[c]) + 1)]
      BY <1>1, <1>7
    <3>2. LineKinds[c] \in SUBSET {"command", "raw", "badId"}
      BY BridgeAssumption
    <3>3. [kind |-> k, id |-> id, whole |-> input[c] # "torn"] \in TypedLine
      BY <3>1, <3>2 DEF TypedLine
    <3> QED BY <3>1, <3>3
  <2>2. typed[c] \in Seq(TypedLine) /\ lines[c] \in Seq(Nat)
    BY <1>2 DEF BridgeTyped
  <2>3. /\ Append(typed[c], l) \in Seq(TypedLine) /\ Append(lines[c], Len(typed[c]) + 1) \in Seq(Nat)
        /\ Len(typed[c]) \in Nat /\ Len(lines[c]) \in Nat
        /\ Len(Append(typed[c], l)) = Len(typed[c]) + 1
        /\ Len(Append(lines[c], Len(typed[c]) + 1)) = Len(lines[c]) + 1
        /\ \A i \in 1..Len(typed[c]) : Append(typed[c], l)[i] = typed[c][i]
        /\ \A i \in 1..Len(lines[c]) : Append(lines[c], Len(typed[c]) + 1)[i] = lines[c][i]
        /\ Append(lines[c], Len(typed[c]) + 1)[Len(lines[c]) + 1] = Len(typed[c]) + 1
    BY <2>2
  <2>4. /\ typed'[c] = Append(typed[c], l) /\ lines'[c] = Append(lines[c], Len(typed[c]) + 1)
        /\ \A d \in Streams \ {c} : typed'[d] = typed[d] /\ lines'[d] = lines[d]
        /\ typed' \in [Streams -> Seq(TypedLine)] /\ lines' \in [Streams -> Seq(Nat)]
    BY <1>2, <2>1, <2>3 DEF BridgeTyped
  <2>5. BridgeTyped'
    BY <1>1, <1>2, <2>1, <2>4 DEF BridgeTyped
  <2>6. TypedGrows
    <3>1. \A d \in Streams : Len(typed[d]) \in Nat
      BY <1>2, LinesTyped DEF BridgeTyped
    <3>2. ASSUME NEW d \in Streams \ {c}
          PROVE  /\ Len(typed[d]) <= Len(typed'[d]) /\ Len(typed'[d]) \in Nat
                 /\ \A i \in 1..Len(typed[d]) :
                      i \in 1..Len(typed'[d]) /\ typed'[d][i] = typed[d][i]
      BY <2>4, <3>1
    <3>3. /\ Len(typed[c]) <= Len(typed'[c]) /\ Len(typed'[c]) \in Nat
          /\ \A i \in 1..Len(typed[c]) :
               i \in 1..Len(typed'[c]) /\ typed'[c][i] = typed[c][i]
      BY <2>3, <2>4
    <3> QED BY <3>1, <3>2, <3>3 DEF TypedGrows
  <2>7. \A d \in Streams \ {c} : Still(d) /\ oneshot'[d] = oneshot[d]
    BY <1>1, <2>1, <2>4 DEF Still
  <2>8. WiresAreKnown'
    BY <1>1, <2>6, QuietWires
  <2>9. LinesInOrder(c)'
    <3>1. /\ cmd[c] \in Nat /\ cmd[c] <= Len(typed[c])
          /\ Len(typed[c]) = cmd[c] + Len(lines[c])
          /\ \A i \in 1..Len(lines[c]) : lines[c][i] = cmd[c] + i
      BY <1>2, <1>5, <2>1 DEF StreamIsTrue, LinesInOrder, BridgeTyped
    <3>2. \A i \in 1..(Len(lines[c]) + 1) :
            Append(lines[c], Len(typed[c]) + 1)[i] = cmd[c] + i
      <4> SUFFICES ASSUME NEW i \in 1..(Len(lines[c]) + 1)
                   PROVE  Append(lines[c], Len(typed[c]) + 1)[i] = cmd[c] + i
        OBVIOUS
      <4>1. CASE i \in 1..Len(lines[c])
        BY <2>3, <3>1, <4>1
      <4>2. CASE i = Len(lines[c]) + 1
        BY <2>3, <3>1, <4>2
      <4> QED BY <2>3, <4>1, <4>2
    <3>3. Len(typed'[c]) = cmd[c] + Len(lines'[c]) /\ cmd[c] <= Len(typed'[c])
      BY <2>3, <2>4, <3>1
    <3>4. \A i \in 1..Len(lines'[c]) : lines'[c][i] = cmd[c] + i
      BY <2>3, <2>4, <3>2
    <3> QED BY <1>1, <2>1, <3>3, <3>4 DEF LinesInOrder, Begun
  <2>10. Settled(c) \in 0..Len(typed[c]) /\ Settled(c)' = Settled(c)
         /\ (Busy(c)' <=> Busy(c)) /\ (Busy(c) => cmd[c] \in 1..Len(typed[c]))
    BY <1>1, <1>2, <1>5, <2>3
    DEF StreamIsTrue, LinesInOrder, TaskIsAtLine, Settled, Busy, BridgeTyped
  <2>11. TaskIsAtLine(c)'
    BY <1>1, <1>5, <2>6, <2>10 DEF StreamIsTrue, TaskIsAtLine, TypedGrows
  <2>12. RepliesCount(c)'
    BY <1>1, <1>5, <2>6, <2>10, AskedGrows DEF StreamIsTrue, RepliesCount, Refusal
  <2>13. DistinctIds => AnswerIsOwn(c)'
    <3>1. Busy(c) => (Asks(c, cmd[c])' <=> Asks(c, cmd[c]))
      BY <1>1, <2>6, <2>10 DEF Asks, TypedGrows
    <3> QED BY <1>1, <1>5, <2>10, <3>1 DEF AnswerIsOwn, Response, Refusal
  <2> QED BY <1>1, <2>5, <2>6, <2>7, <2>8, <2>9, <2>11, <2>12, <2>13, StreamStep DEF StreamIsTrue
<1> QED BY <1>6, <1>7

\* A step that makes a reply to line n of c.
LEMMA ReplyMade ==
  ASSUME BridgeInv, NEW c \in Streams, BridgeTyped', typed' = typed, WiresAreKnown',
         \A d \in Streams \ {c} :
           /\ Still(d)
           /\ DistinctIds => oneshot'[d] = oneshot[d]
                             /\ (<<d, cmd[d]>> \in awaited => <<d, cmd[d]>> \in awaited'),
         StreamIsTrue(c)', DistinctIds => AnswerIsOwn(c)', task[c] # "ended",
         NEW n \in 1..Len(typed[c]), Asks(c, n),
         Cardinality(Asked(c, n)) = Len(replies[c]) + 1,
         NEW m \in Messages, replies'[c] = Append(replies[c], m),
         m = Refusal \/ (DistinctIds => m = Response(<<c, n>>))
  PROVE  BridgeInv'
<1>1. BridgeTyped /\ TypedGrows /\ DOMAIN typed[c] = 1..Len(typed[c])
  BY SameTyped, LinesTyped DEF BridgeInv, BridgeTyped
<1>2. \A d \in Streams : StreamIsTrue(d)'
  BY StillTrue DEF BridgeInv
<1>3. DistinctIds' => \A d \in Streams : AnswerIsOwn(d)'
  BY <1>1, DistinctBefore, StillOwn DEF BridgeInv
<1>4. /\ replies[c] \in Seq(Messages) /\ Len(replies[c]) \in Nat
      /\ DOMAIN replies'[c] = 1..(Len(replies[c]) + 1)
      /\ Len(replies'[c]) = Len(replies[c]) + 1
      /\ replies'[c][Len(replies[c]) + 1] = m
      /\ \A i \in 1..Len(replies[c]) : i \in DOMAIN replies[c] /\ replies'[c][i] = replies[c][i]
  BY SMTT(30), <1>1 DEF BridgeTyped
<1>5. \A i \in 1..Len(replies[c]) : replies[c][i] # Refusal
  BY DEF BridgeInv, StreamIsTrue, RepliesCount
<1>6. ASSUME DistinctIds', NEW i \in DOMAIN replies'[c]
      PROVE  \E k \in DOMAIN typed'[c] :
               /\ Asks(c, k)' /\ Cardinality(Asked(c, k)') = i
               /\ \/ replies'[c][i] = Response(<<c, k>>)
                  \/ replies'[c][i] = Refusal /\ i = Len(replies'[c])
  <2>1. DistinctIds
    BY <1>1, <1>6, DistinctBefore
  <2>2. CASE i \in 1..Len(replies[c])
    <3>1. PICK k \in DOMAIN typed[c] :
            /\ Asks(c, k) /\ Cardinality(Asked(c, k)) = i
            /\ \/ replies[c][i] = Response(<<c, k>>)
               \/ replies[c][i] = Refusal /\ i = Len(replies[c])
      BY <1>4, <2>1, <2>2 DEF BridgeInv, RepliesAreOwn
    <3>2. Asks(c, k)' /\ Asked(c, k)' = Asked(c, k) /\ k \in DOMAIN typed'[c]
      BY <3>1, AskedSame
    <3>3. replies'[c][i] = Response(<<c, k>>)
      BY <1>4, <1>5, <2>2, <3>1
    <3> QED BY <3>1, <3>2, <3>3
  <2>3. CASE i = Len(replies[c]) + 1
    <3>1. Asks(c, n)' /\ Asked(c, n)' = Asked(c, n) /\ n \in DOMAIN typed'[c]
      BY <1>1, AskedSame
    <3> QED BY <1>4, <2>1, <2>3, <3>1
  <2>4. i \in 1..Len(replies[c]) \/ i = Len(replies[c]) + 1
    <3>1. i \in 1..(Len(replies[c]) + 1)
      BY <1>4, <1>6
    <3> QED BY <1>4, <3>1
  <2> QED BY <2>2, <2>3, <2>4
<1>7. RepliesAreOwn'
  <2>1. \A d \in Streams \ {c} : replies'[d] = replies[d]
    BY DEF Still
  <2>2. ASSUME DistinctIds', NEW d \in Streams, NEW i \in DOMAIN replies'[d]
        PROVE  \E k \in DOMAIN typed'[d] :
                 /\ Asks(d, k)' /\ Cardinality(Asked(d, k)') = i
                 /\ \/ replies'[d][i] = Response(<<d, k>>)
                    \/ replies'[d][i] = Refusal /\ i = Len(replies'[d])
    <3>1. CASE d = c
      BY <1>6, <2>2, <3>1
    <3>2. CASE d # c
      BY <1>1, <2>1, <2>2, <3>2, RepliesKept DEF BridgeInv
    <3> QED BY <3>1, <3>2
  <2> QED BY <2>2 DEF RepliesAreOwn, Response, Refusal
<1> QED BY <1>2, <1>3, <1>7 DEF BridgeInv

\* A busy task whose line asks for a reply has one reply less than it asks for.
LEMMA NextReply ==
  ASSUME BridgeInv, NEW c \in Streams, Busy(c), Asks(c, cmd[c])
  PROVE  /\ cmd[c] \in 1..Len(typed[c]) /\ task[c] # "ended"
         /\ Cardinality(Asked(c, cmd[c])) = Len(replies[c]) + 1
<1>1. StreamIsTrue(c) /\ cmd[c] \in Nat
  BY DEF BridgeInv, BridgeTyped
<1>2. cmd[c] \in 1..Len(typed[c]) /\ task[c] # "ended" /\ Settled(c) = cmd[c] - 1
  BY <1>1 DEF StreamIsTrue, TaskIsAtLine, Busy, Settled
<1>3. Len(replies[c]) = Cardinality(Asked(c, cmd[c] - 1))
  BY <1>1, <1>2 DEF StreamIsTrue, RepliesCount
<1>4. cmd[c] # 0
  BY <1>2, LinesTyped DEF BridgeInv, BridgeTyped
<1> QED BY <1>1, <1>2, <1>3, <1>4, AskedCount

\* The error after which a task ends.
LEMMA RefusalKeeps ==
  ASSUME BridgeInv, NEW c \in Streams, Busy(c), Asks(c, cmd[c]), Refuse(c),
         UNCHANGED <<client, typed, lines, bridge, cmd, oneshot, events, owed, awaited,
                     inbox, out, emitted>>
  PROVE  BridgeInv'
<1>1. BridgeTyped /\ TypedGrows /\ Refusal \in Messages
  BY SameTyped DEF BridgeInv, Messages
<1>2. /\ replies' = [replies EXCEPT ![c] = Append(replies[c], Refusal)]
      /\ task' = [task EXCEPT ![c] = "ended"]
  BY DEF Refuse
<1>3. replies[c] \in Seq(Messages) /\ Append(replies[c], Refusal) \in Seq(Messages)
  BY <1>1 DEF BridgeTyped
<1>4. replies' \in [Streams -> Seq(Messages)] /\ replies'[c] = Append(replies[c], Refusal)
  BY <1>1, <1>2, <1>3 DEF BridgeTyped
<1>5. BridgeTyped'
  BY <1>1, <1>2, <1>4 DEF BridgeTyped
<1>6. WiresAreKnown'
  BY <1>1, QuietWires
<1>7. \A d \in Streams \ {c} : Still(d) /\ oneshot'[d] = oneshot[d]
  BY <1>1, <1>2 DEF Still, BridgeTyped
<1>8. task'[c] = "ended"
  BY <1>1, <1>2 DEF BridgeTyped
<1>9. StreamIsTrue(c)' /\ AnswerIsOwn(c)'
  <2>1. StreamIsTrue(c)
    BY DEF BridgeInv
  <2> QED BY <1>8, <2>1 DEF StreamIsTrue, LinesInOrder, Begun, TaskIsAtLine, Busy, RepliesCount,
                            AnswerIsOwn
<1> QED BY <1>1, <1>4, <1>5, <1>6, <1>7, <1>9, NextReply, ReplyMade

LEMMA FailsKeeps ==
  ASSUME BridgeInv, NEW c \in Streams, Fails(c) PROVE BridgeInv'
<1>1. task[c] = "wait" /\ Refuse(c)
      /\ UNCHANGED <<client, typed, lines, bridge, cmd, oneshot, events, owed, awaited,
                     inbox, out, emitted>>
  BY DEF Fails, clientVars, fanVars, pipeVars, instanceVars
<1>2. Busy(c) /\ Asks(c, cmd[c])
  BY <1>1 DEF Busy, BridgeInv, StreamIsTrue, TaskIsAtLine, Asks
<1> QED BY <1>1, <1>2, RefusalKeeps

LEMMA LinesEndKeeps ==
  ASSUME BridgeInv, NEW c \in Streams, LinesEnd(c) PROVE BridgeInv'
<1>1. /\ task' = [task EXCEPT ![c] = "ended"]
      /\ UNCHANGED <<client, typed, lines, bridge, cmd, oneshot, replies, events, owed, awaited,
                     inbox, out, emitted>>
  BY DEF LinesEnd, clientVars, fanVars, pipeVars, instanceVars
<1>2. BridgeTyped
  BY DEF BridgeInv
<1>3. BridgeTyped' /\ task'[c] = "ended"
  BY <1>1, <1>2 DEF BridgeTyped
<1>4. \A d \in Streams \ {c} : Still(d) /\ oneshot'[d] = oneshot[d]
  BY <1>1, <1>2 DEF Still, BridgeTyped
<1>5. StreamIsTrue(c)
  BY DEF BridgeInv
<1>6. StreamIsTrue(c)' /\ AnswerIsOwn(c)'
  BY <1>1, <1>3, <1>5 DEF StreamIsTrue, LinesInOrder, Begun, TaskIsAtLine, Busy, RepliesCount,
                          AnswerIsOwn
<1> QED BY <1>1, <1>3, <1>4, <1>6, PlainStep

LEMMA WriteKeeps ==
  ASSUME BridgeInv, NEW c \in Streams, Write(c) PROVE BridgeInv'
<1>1. /\ task[c] = "write"
      /\ UNCHANGED <<client, typed, lines, bridge, cmd, oneshot, events, owed, awaited,
                     out, emitted>>
  BY DEF Write, clientVars, fanVars, instanceVars
<1>2. BridgeTyped /\ StreamIsTrue(c) /\ (DistinctIds => AnswerIsOwn(c)) /\ TypedGrows
  BY <1>1, SameTyped DEF BridgeInv
<1>3. /\ cmd[c] \in 1..Len(typed[c]) /\ cmd[c] \in Nat /\ cmd[c] # 0
      /\ typed[c][cmd[c]].whole
      /\ Len(replies[c]) = Cardinality(Asked(c, cmd[c] - 1))
      /\ \A i \in 1..Len(replies[c]) : replies[c][i] # Refusal
  BY <1>1, <1>2, LinesTyped
  DEF StreamIsTrue, TaskIsAtLine, Busy, RepliesCount, Settled, BridgeTyped
<1>4. CASE inbox' = inbox /\ Refuse(c) /\ typed[c][cmd[c]].kind # "raw"
  <2>1. Busy(c) /\ Asks(c, cmd[c])
    BY <1>1, <1>3, <1>4 DEF Busy, Asks
  <2> QED BY <1>1, <1>4, <2>1, RefusalKeeps
<1>5. ASSUME NEW line \in Requests \cup {<<>>}, line = <<>> \/ Known(line),
             inbox' = inbox \/ inbox' = Append(inbox, line), replies' = replies,
             NEW s \in {"idle", "wait"}, task' = [task EXCEPT ![c] = s],
             s = "idle" <=> typed[c][cmd[c]].kind = "raw"
      PROVE  BridgeInv'
  <2>1. inbox \in Seq(Requests \cup {<<>>})
    BY <1>2 DEF BridgeTyped
  <2>2. /\ inbox' \in Seq(Requests \cup {<<>>})
        /\ \A i \in 1..Len(inbox') : (\E k \in 1..Len(inbox) : inbox'[i] = inbox[k]) \/ inbox'[i] = line
    <3>1. CASE inbox' = inbox
      BY <2>1, <3>1
    <3>2. CASE inbox' = Append(inbox, line)
      <4>1. /\ Append(inbox, line) \in Seq(Requests \cup {<<>>})
            /\ Len(Append(inbox, line)) = Len(inbox) + 1 /\ Len(inbox) \in Nat
            /\ \A i \in 1..Len(inbox) : Append(inbox, line)[i] = inbox[i]
            /\ Append(inbox, line)[Len(inbox) + 1] = line
        BY <2>1
      <4> QED BY <3>2, <4>1
    <3> QED BY <1>5, <3>1, <3>2
  <2>3. BridgeTyped'
    BY <1>1, <1>2, <1>5, <2>2 DEF BridgeTyped
  <2>4. WiresAreKnown'
    <3>1. \A i \in 1..Len(out') : \E k \in 1..Len(out) : out'[i] = out[k]
      BY <1>1
    <3>2. line = <<>> \/ (line \in Requests /\ Known(line)')
      BY <1>2, <1>5, KnownGrows DEF Known
    <3> QED BY <1>1, <1>2, <2>2, <3>1, <3>2, WiresKept DEF BridgeInv
  <2>5. \A d \in Streams \ {c} : Still(d) /\ oneshot'[d] = oneshot[d]
    BY <1>1, <1>2, <1>5 DEF Still, BridgeTyped
  <2>6. task'[c] = s
    BY <1>2, <1>5 DEF BridgeTyped
  <2>7. LinesInOrder(c)' /\ TaskIsAtLine(c)'
    BY <1>1, <1>2, <1>5, <2>6
    DEF StreamIsTrue, LinesInOrder, Begun, TaskIsAtLine, Busy
  <2>8. RepliesCount(c)'
    <3>1. Cardinality(Asked(c, Settled(c)')) = Len(replies[c])
      <4>1. CASE s = "wait"
        BY <1>1, <1>3, <2>6, <4>1 DEF Settled, Busy
      <4>2. CASE s = "idle"
        <5>1. ~Asks(c, cmd[c]) /\ Settled(c)' = cmd[c]
          BY <1>1, <1>5, <2>6, <4>2 DEF Asks, Settled, Busy
        <5>2. /\ Cardinality(Asked(c, cmd[c] - 1)) \in Nat
              /\ Cardinality(Asked(c, cmd[c])) =
                   Cardinality(Asked(c, cmd[c] - 1)) + (IF Asks(c, cmd[c]) THEN 1 ELSE 0)
          BY <1>3, AskedCount
        <5> QED BY <1>3, <5>1, <5>2
      <4> QED BY <4>1, <4>2
    <3>2. PICK n : n = Settled(c)'
      OBVIOUS
    <3>3. Asked(c, n)' = Asked(c, n)
      BY <1>1, AskedSame
    <3> QED BY <1>3, <1>5, <3>1, <3>2, <3>3 DEF RepliesCount, Refusal
  <2>9. DistinctIds => AnswerIsOwn(c)'
    BY <1>1, <1>2, <2>6, AskedSame DEF AnswerIsOwn, Busy, Response, Refusal
  <2> QED BY <1>1, <1>2, <1>5, <2>3, <2>4, <2>5, <2>7, <2>8, <2>9, StreamStep DEF StreamIsTrue
<1>6. CASE instance = "runs"
  <2> DEFINE line == IF stub THEN <<>> ELSE <<c, cmd[c]>>
             s == IF typed[c][cmd[c]].kind = "raw" THEN "idle" ELSE "wait"
  <2>1. /\ inbox' = Append(inbox, line) /\ replies' = replies
        /\ task' = [task EXCEPT ![c] = s]
    BY <1>6 DEF Write
  <2>2. line \in Requests \cup {<<>>} /\ (line = <<>> \/ Known(line))
    BY <1>3 DEF Requests, Known
  <2>3. s \in {"idle", "wait"} /\ (s = "idle" <=> typed[c][cmd[c]].kind = "raw")
    OBVIOUS
  <2> HIDE DEF line, s
  <2> QED BY <1>5, <2>1, <2>2, <2>3
<1>7. CASE inbox' = inbox /\ replies' = replies /\ task' = [task EXCEPT ![c] = "idle"]
           /\ typed[c][cmd[c]].kind = "raw"
  <2>1. PICK line, s : line = <<>> /\ s = "idle"
    OBVIOUS
  <2> QED BY <1>5, <1>7, <2>1
<1> QED BY <1>1, <1>4, <1>6, <1>7 DEF Write

LEMMA TakeKeeps ==
  ASSUME BridgeInv, NEW c \in Streams, Take(c) PROVE BridgeInv'
<1>1. PICK n : n = Head(lines[c])
  OBVIOUS
<1>2. /\ bridge[c] = "open" /\ task[c] = "idle" /\ lines[c] # <<>>
      /\ lines' = [lines EXCEPT ![c] = Tail(lines[c])]
      /\ cmd' = [cmd EXCEPT ![c] = n]
      /\ oneshot' = [oneshot EXCEPT ![c] = <<>>]
      /\ \/ ~typed[c][n].whole /\ UNCHANGED <<task, replies, awaited>>
         \/ typed[c][n].whole /\ typed[c][n].kind = "badId" /\ Refuse(c) /\ UNCHANGED awaited
         \/ /\ typed[c][n].whole /\ typed[c][n].kind # "badId"
            /\ task' = [task EXCEPT ![c] = "write"]
            /\ awaited' =
                 IF typed[c][n].kind = "raw" THEN awaited
                 ELSE {r \in awaited : IdOf(r) # IdOf(<<c, n>>)} \cup {<<c, n>>}
            /\ UNCHANGED replies
      /\ UNCHANGED <<client, typed, bridge, events, owed, inbox, out, emitted>>
  BY <1>1 DEF Take, clientVars, fanVars, pipeVars, instanceVars, BridgeInv, BridgeTyped
<1>3. BridgeTyped /\ StreamIsTrue(c) /\ TypedGrows
  BY <1>2, SameTyped DEF BridgeInv
<1>4. /\ lines[c] \in Seq(Nat) /\ Tail(lines[c]) \in Seq(Nat)
      /\ Len(lines[c]) \in Nat \ {0} /\ Len(Tail(lines[c])) = Len(lines[c]) - 1
      /\ \A i \in 1..Len(Tail(lines[c])) :
           i + 1 \in 1..Len(lines[c]) /\ Tail(lines[c])[i] = lines[c][i + 1]
      /\ Head(lines[c]) = lines[c][1] /\ 1 \in 1..Len(lines[c])
  BY SMTT(30), <1>2, <1>3 DEF BridgeTyped
<1>5. /\ cmd[c] \in Nat /\ n = cmd[c] + 1 /\ Len(typed[c]) = cmd[c] + Len(lines[c])
      /\ \A i \in 1..Len(lines[c]) : lines[c][i] = cmd[c] + i
  BY <1>1, <1>2, <1>3, <1>4 DEF StreamIsTrue, LinesInOrder, BridgeTyped
<1>6. n \in 1..Len(typed[c]) /\ n \in Nat /\ n # 0 /\ n - 1 = cmd[c] /\ Known(<<c, n>>)
  BY <1>4, <1>5 DEF Known, Requests
<1>7. /\ Len(replies[c]) = Cardinality(Asked(c, cmd[c]))
      /\ \A i \in 1..Len(replies[c]) : replies[c][i] # Refusal
  BY <1>2, <1>3 DEF StreamIsTrue, RepliesCount, Settled, Busy
<1>8. /\ lines'[c] = Tail(lines[c]) /\ cmd'[c] = n /\ oneshot'[c] = <<>>
      /\ \A d \in Streams \ {c} : lines'[d] = lines[d] /\ cmd'[d] = cmd[d]
                                  /\ oneshot'[d] = oneshot[d]
      /\ lines' \in [Streams -> Seq(Nat)] /\ cmd' \in [Streams -> Nat]
      /\ oneshot' \in [Streams -> {<<>>} \cup {<<m>> : m \in Messages}]
  BY <1>2, <1>3, <1>4, <1>6 DEF BridgeTyped
<1>9. LinesInOrder(c)'
  <2>1. ASSUME NEW i \in 1..Len(lines'[c]) PROVE lines'[c][i] = n + i
    <3>0. lines'[c] = Tail(lines[c]) /\ i \in 1..Len(Tail(lines[c])) /\ i \in Nat
      BY <1>8
    <3>1. i + 1 \in 1..Len(lines[c]) /\ lines'[c][i] = lines[c][i + 1]
      BY <1>4, <3>0
    <3>2. lines[c][i + 1] = cmd[c] + (i + 1)
      BY <1>5, <3>1
    <3>3. cmd[c] \in Nat /\ n = cmd[c] + 1
      BY <1>5
    <3>4. cmd[c] + (i + 1) = n + i
      BY <3>0, <3>3
    <3> QED BY <3>1, <3>2, <3>4
  <2>2. Len(typed[c]) = n + Len(lines'[c]) /\ n <= Len(typed[c])
    <3>1. Len(lines'[c]) = Len(lines[c]) - 1 /\ Len(lines[c]) \in Nat \ {0}
      BY <1>4, <1>8
    <3>2. Len(typed[c]) = cmd[c] + Len(lines[c]) /\ n = cmd[c] + 1 /\ cmd[c] \in Nat
      BY <1>5
    <3> QED BY <3>1, <3>2
  <2> QED BY <1>2, <1>3, <1>8, <2>1, <2>2 DEF StreamIsTrue, LinesInOrder, Begun
<1>10. /\ Cardinality(Asked(c, n)) = Len(replies[c]) + (IF Asks(c, n) THEN 1 ELSE 0)
       /\ Cardinality(Asked(c, n - 1)) = Len(replies[c]) /\ Len(replies[c]) \in Nat
  BY <1>6, <1>7, AskedCount
<1>11. Asked(c, n)' = Asked(c, n) /\ Asked(c, n - 1)' = Asked(c, n - 1)
  BY <1>2, <1>6, AskedSame
<1>12. CASE ~typed[c][n].whole /\ UNCHANGED <<task, replies, awaited>>
  <2>1. BridgeTyped'
    BY <1>2, <1>3, <1>8, <1>12 DEF BridgeTyped
  <2>2. WiresAreKnown'
    BY <1>2, <1>3, <1>12, QuietWires
  <2>3. \A d \in Streams \ {c} : Still(d) /\ oneshot'[d] = oneshot[d]
    BY <1>2, <1>8, <1>12 DEF Still
  <2>4. TaskIsAtLine(c)' /\ AnswerIsOwn(c)'
    BY <1>2, <1>12 DEF TaskIsAtLine, AnswerIsOwn, Busy
  <2>5. RepliesCount(c)'
    <3>1. Settled(c)' = n /\ ~Asks(c, n)
      BY <1>2, <1>8, <1>12 DEF Settled, Busy, Asks
    <3> QED BY <1>7, <1>10, <1>11, <1>12, <3>1 DEF RepliesCount, Refusal
  <2> QED BY <1>3, <1>9, <1>12, <2>1, <2>2, <2>3, <2>4, <2>5, StreamStep DEF StreamIsTrue
<1>13. CASE typed[c][n].whole /\ typed[c][n].kind = "badId" /\ Refuse(c) /\ UNCHANGED awaited
  <2>1. /\ replies' = [replies EXCEPT ![c] = Append(replies[c], Refusal)]
        /\ task' = [task EXCEPT ![c] = "ended"]
    BY <1>13 DEF Refuse
  <2>m. Refusal \in Messages
    BY DEF Messages
  <2>2. replies[c] \in Seq(Messages) /\ Append(replies[c], Refusal) \in Seq(Messages)
    BY <1>3, <2>m DEF BridgeTyped
  <2>3. /\ replies' \in [Streams -> Seq(Messages)] /\ replies'[c] = Append(replies[c], Refusal)
        /\ task'[c] = "ended"
        /\ \A d \in Streams \ {c} : replies'[d] = replies[d] /\ task'[d] = task[d]
    BY <1>3, <2>1, <2>2 DEF BridgeTyped
  <2>4. BridgeTyped'
    BY <1>2, <1>3, <1>8, <1>13, <2>1, <2>3 DEF BridgeTyped
  <2>5. WiresAreKnown'
    BY <1>2, <1>3, <1>13, QuietWires
  <2>6. \A d \in Streams \ {c} : Still(d) /\ oneshot'[d] = oneshot[d]
    BY <1>2, <1>8, <2>3 DEF Still
  <2>7. StreamIsTrue(c)' /\ AnswerIsOwn(c)'
    BY <1>9, <2>3 DEF StreamIsTrue, TaskIsAtLine, RepliesCount, AnswerIsOwn, Busy
  <2>8. Asks(c, n) /\ Cardinality(Asked(c, n)) = Len(replies[c]) + 1 /\ task[c] # "ended"
    BY <1>2, <1>10, <1>13 DEF Asks
  <2> QED BY <1>2, <1>6, <1>13, <2>m, <2>3, <2>4, <2>5, <2>6, <2>7, <2>8, ReplyMade
<1>14. CASE /\ typed[c][n].whole /\ typed[c][n].kind # "badId"
            /\ task' = [task EXCEPT ![c] = "write"]
            /\ awaited' =
                 IF typed[c][n].kind = "raw" THEN awaited
                 ELSE {r \in awaited : IdOf(r) # IdOf(<<c, n>>)} \cup {<<c, n>>}
            /\ UNCHANGED replies
  <2>1. /\ task'[c] = "write" /\ (\A d \in Streams \ {c} : task'[d] = task[d])
        /\ awaited' \subseteq awaited \cup {<<c, n>>}
        /\ Asks(c, n) => <<c, n>> \in awaited'
    BY <1>3, <1>14 DEF Asks, BridgeTyped
  <2>2. BridgeTyped'
    <3>1. awaited' \subseteq Requests
      BY <1>3, <1>6, <2>1 DEF BridgeTyped, Known
    <3> QED BY <1>2, <1>3, <1>8, <1>14, <3>1 DEF BridgeTyped
  <2>3. WiresAreKnown'
    <3>1. \A r \in awaited' : r \in awaited \/ (Known(r)' /\ Asks(r[1], r[2])')
      <4> SUFFICES ASSUME NEW r \in awaited', r \notin awaited
                   PROVE  Known(r)' /\ Asks(r[1], r[2])'
        OBVIOUS
      <4>1. r = <<c, n>> /\ typed[c][n].kind # "raw"
        BY <1>14, <2>1
      <4>2. Known(r) /\ Asks(r[1], r[2])
        BY <1>6, <1>14, <4>1 DEF Asks
      <4> QED BY <1>3, <4>2, KnownGrows
    <3> QED BY <1>2, <1>3, <3>1, WiresKept, StillThere DEF BridgeInv
  <2>4. ASSUME DistinctIds, NEW d \in Streams \ {c}, <<d, cmd[d]>> \in awaited
        PROVE  <<d, cmd[d]>> \in awaited'
    <3>1. Known(<<d, cmd[d]>>) /\ <<d, cmd[d]>> # <<c, n>>
      BY <2>4 DEF BridgeInv, WiresAreKnown
    <3>2. IdOf(<<d, cmd[d]>>) # IdOf(<<c, n>>)
      BY <1>3, <1>6, <2>4, <3>1, SameId
    <3> QED BY <1>14, <2>4, <3>2
  <2>5. \A d \in Streams \ {c} : Still(d) /\ oneshot'[d] = oneshot[d]
    BY <1>2, <1>8, <1>14, <2>1 DEF Still
  <2>6. TaskIsAtLine(c)'
    BY <1>2, <1>6, <1>8, <1>14, <2>1 DEF TaskIsAtLine
  <2>7. AnswerIsOwn(c)'
    <3>1. Asks(c, n)' <=> Asks(c, n)
      BY <1>2 DEF Asks
    <3> QED BY <1>8, <2>1, <3>1 DEF AnswerIsOwn, Asks
  <2>8. RepliesCount(c)'
    <3>1. Settled(c)' = n - 1
      BY <1>8, <2>1 DEF Settled, Busy
    <3> QED BY <1>7, <1>10, <1>11, <1>14, <3>1 DEF RepliesCount, Refusal
  <2> QED BY <1>3, <1>9, <1>14, <2>2, <2>3, <2>4, <2>5, <2>6, <2>7, <2>8, StreamStep
          DEF StreamIsTrue
<1> QED BY <1>2, <1>12, <1>13, <1>14

\* The end of a bridge, whatever its task has just replied.
LEMMA ClosedIs ==
  ASSUME BridgeTyped, NEW c \in Streams, Close(c)
  PROVE  /\ bridge' \in [Streams -> {"none", "subscribed", "open", "closed"}]
         /\ lines' \in [Streams -> Seq(Nat)]
         /\ task' \in [Streams -> {"idle", "write", "wait", "ended"}]
         /\ events' = [d \in Streams |-> events'[d]] /\ owed' = events'
         /\ bridge'[c] = "closed" /\ task'[c] = "ended" /\ lines'[c] = <<>>
         /\ \A d \in Streams \ {c} :
              bridge'[d] = bridge[d] /\ lines'[d] = lines[d] /\ task'[d] = task[d]
<1>1. /\ bridge' = [bridge EXCEPT ![c] = "closed"] /\ lines' = [lines EXCEPT ![c] = <<>>]
      /\ task' = [task EXCEPT ![c] = "ended"]
      /\ events' = [events EXCEPT ![c] = 0] /\ owed' = [owed EXCEPT ![c] = 0]
  BY DEF Close
<1>2. /\ bridge' \in [Streams -> {"none", "subscribed", "open", "closed"}]
      /\ bridge'[c] = "closed" /\ \A d \in Streams \ {c} : bridge'[d] = bridge[d]
  BY <1>1 DEF BridgeTyped
<1>3. /\ task' \in [Streams -> {"idle", "write", "wait", "ended"}]
      /\ task'[c] = "ended" /\ \A d \in Streams \ {c} : task'[d] = task[d]
  BY <1>1 DEF BridgeTyped
<1>4. /\ lines' \in [Streams -> Seq(Nat)]
      /\ lines'[c] = <<>> /\ \A d \in Streams \ {c} : lines'[d] = lines[d]
  BY <1>1 DEF BridgeTyped
<1>5. events' = [d \in Streams |-> events'[d]] /\ owed' = events'
  BY <1>1 DEF BridgeTyped
<1> QED BY <1>2, <1>3, <1>4, <1>5

LEMMA ClosedTrue ==
  ASSUME BridgeInv, NEW c \in Streams, bridge[c] = "open", Close(c), typed' = typed, cmd' = cmd,
         client' = client
  PROVE  StreamIsTrue(c)' /\ AnswerIsOwn(c)'
<1>1. bridge'[c] = "closed" /\ task'[c] = "ended" /\ lines'[c] = <<>>
  BY ClosedIs DEF BridgeInv
<1>2. LinesInOrder(c)
  BY DEF BridgeInv, StreamIsTrue
<1>3. LinesInOrder(c)'
  BY <1>1, <1>2 DEF LinesInOrder, Begun
<1> QED BY <1>1, <1>3 DEF StreamIsTrue, TaskIsAtLine, RepliesCount, AnswerIsOwn, Busy

LEMMA ClosingKeeps ==
  ASSUME BridgeInv, NEW c \in Streams, bridge[c] = "open", Close(c),
         UNCHANGED <<client, typed, cmd, oneshot, replies, awaited, inbox, out, emitted>>
  PROVE  BridgeInv'
<1>1. BridgeTyped' /\ (\A d \in Streams \ {c} : Still(d) /\ oneshot'[d] = oneshot[d])
  BY ClosedIs DEF BridgeInv, BridgeTyped, Still
<1> QED BY <1>1, ClosedTrue, PlainStep

LEMMA ForwardEventKeeps ==
  ASSUME BridgeInv, NEW c \in Streams, ForwardEvent(c) PROVE BridgeInv'
<1>1. /\ bridge[c] = "open"
      /\ UNCHANGED <<client, typed, cmd, oneshot, replies, awaited, inbox, out, emitted>>
      /\ \/ Close(c)
         \/ /\ events' = [events EXCEPT ![c] = @ - 1] /\ owed' = [owed EXCEPT ![c] = @ - 1]
            /\ UNCHANGED <<bridge, lines, task>>
  BY DEF ForwardEvent, instanceVars
<1>2. CASE Close(c)
  BY <1>1, <1>2, ClosingKeeps
<1>3. CASE /\ events' = [events EXCEPT ![c] = @ - 1] /\ owed' = [owed EXCEPT ![c] = @ - 1]
           /\ UNCHANGED <<bridge, lines, task>>
  <2>1. BridgeTyped' /\ (\A d \in Streams : Still(d) /\ oneshot'[d] = oneshot[d])
    BY <1>1, <1>3 DEF BridgeInv, BridgeTyped, Still
  <2>2. StreamIsTrue(c)' /\ (DistinctIds => AnswerIsOwn(c)')
    BY <1>1, <2>1, StillTrue, StillOwn DEF BridgeInv
  <2> QED BY <1>1, <2>1, <2>2, PlainStep
<1> QED BY <1>1, <1>2, <1>3

LEMMA RepliesEndKeeps ==
  ASSUME BridgeInv, NEW c \in Streams, RepliesEnd(c) PROVE BridgeInv'
BY ClosingKeeps DEF RepliesEnd, instanceVars

LEMMA AnsweredKeeps ==
  ASSUME BridgeInv, NEW c \in Streams, Answered(c) PROVE BridgeInv'
<1>1. /\ bridge[c] = "open" /\ task[c] = "wait" /\ oneshot[c] \notin {<<>>, <<Refusal>>}
      /\ replies' = [replies EXCEPT ![c] = Append(replies[c], oneshot[c][1])]
      /\ \/ Close(c)
         \/ /\ task' = [task EXCEPT ![c] = "idle"]
            /\ UNCHANGED <<bridge, events, owed, lines>>
      /\ UNCHANGED <<client, typed, cmd, oneshot, awaited, inbox, out, emitted>>
  BY DEF Answered, instanceVars, fanVars, BridgeInv, BridgeTyped
<1>2. BridgeTyped /\ StreamIsTrue(c) /\ (DistinctIds => AnswerIsOwn(c)) /\ TypedGrows
  BY <1>1, SameTyped DEF BridgeInv
<1>3. PICK m \in Messages : oneshot[c] = <<m>> /\ m = oneshot[c][1] /\ m # Refusal
  BY <1>1, <1>2 DEF BridgeTyped
<1>4. Busy(c) /\ Asks(c, cmd[c])
  BY <1>1, <1>2 DEF Busy, StreamIsTrue, TaskIsAtLine, Asks
<1>5. DistinctIds => m = Response(<<c, cmd[c]>>)
  <2>1. DistinctIds => oneshot[c] = <<Response(<<c, cmd[c]>>)>>
    BY <1>1, <1>2, <1>4 DEF AnswerIsOwn
  <2> QED BY <1>3, <2>1
<1>6. replies[c] \in Seq(Messages) /\ Append(replies[c], m) \in Seq(Messages)
  BY <1>2 DEF BridgeTyped
<1>7. /\ replies' \in [Streams -> Seq(Messages)] /\ replies'[c] = Append(replies[c], m)
      /\ \A d \in Streams \ {c} : replies'[d] = replies[d]
  BY <1>1, <1>2, <1>3, <1>6 DEF BridgeTyped
<1>8. BridgeTyped' /\ (\A d \in Streams \ {c} : Still(d) /\ oneshot'[d] = oneshot[d])
  <2>1. CASE Close(c)
    BY <1>1, <1>2, <1>7, <2>1, ClosedIs DEF BridgeTyped, Still
  <2>2. CASE task' = [task EXCEPT ![c] = "idle"] /\ UNCHANGED <<bridge, events, owed, lines>>
    BY <1>1, <1>2, <1>7, <2>2 DEF BridgeTyped, Still
  <2> QED BY <1>1, <2>1, <2>2
<1>9. WiresAreKnown'
  BY <1>1, <1>2, QuietWires
<1>10. StreamIsTrue(c)' /\ AnswerIsOwn(c)'
  <2>1. CASE Close(c)
    BY <1>1, <2>1, ClosedTrue
  <2>2. CASE task' = [task EXCEPT ![c] = "idle"] /\ UNCHANGED <<bridge, events, owed, lines>>
    <3>1. task'[c] = "idle"
      BY <1>2, <2>2 DEF BridgeTyped
    <3>2. LinesInOrder(c)' /\ TaskIsAtLine(c)' /\ AnswerIsOwn(c)'
      BY <1>1, <1>2, <2>2, <3>1
      DEF StreamIsTrue, LinesInOrder, Begun, TaskIsAtLine, Busy, AnswerIsOwn
    <3>3. Settled(c)' = cmd[c]
      BY <1>1, <3>1 DEF Settled, Busy
    <3>4. PICK n : n = cmd[c]
      OBVIOUS
    <3>5. Asked(c, n)' = Asked(c, n) /\ Cardinality(Asked(c, n)) = Len(replies[c]) + 1
      BY <1>1, <1>4, <3>4, AskedSame, NextReply
    <3>6. Len(replies'[c]) = Len(replies[c]) + 1
          /\ \A i \in 1..Len(replies'[c]) : replies'[c][i] # Refusal
      <4>1. \A i \in 1..Len(replies[c]) : replies[c][i] # Refusal
        BY <1>1, <1>2 DEF StreamIsTrue, RepliesCount
      <4> QED BY <1>3, <1>6, <1>7, <4>1
    <3> QED BY <3>2, <3>3, <3>4, <3>5, <3>6 DEF StreamIsTrue, RepliesCount, Refusal
  <2> QED BY <1>1, <2>1, <2>2
<1> QED BY <1>1, <1>4, <1>5, <1>7, <1>8, <1>9, <1>10, NextReply, ReplyMade

\* A step of the child and of what watches it: no client takes one.
LEMMA ChildStep ==
  ASSUME BridgeInv, BridgeTyped', WiresAreKnown',
         UNCHANGED <<client, typed, lines, bridge, task, cmd, replies>>,
         \A d \in Streams : DistinctIds /\ Busy(d) /\ Asks(d, cmd[d]) =>
           /\ oneshot'[d] \in {oneshot[d], <<Refusal>>, <<Response(<<d, cmd[d]>>)>>}
           /\ <<d, cmd[d]>> \in awaited =>
                <<d, cmd[d]>> \in awaited' \/ oneshot'[d] # <<>>
           /\ oneshot[d] # <<>> => oneshot'[d] # <<>>
  PROVE  BridgeInv'
<1>1. TypedGrows
  BY SameTyped DEF BridgeInv
<1>2. ASSUME DistinctIds, NEW d \in Streams PROVE AnswerIsOwn(d)'
  <2>1. AnswerIsOwn(d)
    BY <1>2 DEF BridgeInv
  <2>2. (Busy(d)' <=> Busy(d)) /\ (Asks(d, cmd[d])' <=> Asks(d, cmd[d])) /\ cmd'[d] = cmd[d]
    BY DEF Busy, Asks
  <2> QED BY <1>2, <2>1, <2>2 DEF AnswerIsOwn, Response, Refusal
<1>3. \A d \in Streams : Still(d)
  BY DEF Still
<1> QED BY <1>1, <1>2, <1>3, NoStreamStep

LEMMA TailParts ==
  ASSUME NEW S, NEW q \in Seq(S), q # <<>>
  PROVE  /\ Head(q) \in S /\ Tail(q) \in Seq(S) /\ 1 \in 1..Len(q) /\ Head(q) = q[1]
         /\ \A i \in 1..Len(Tail(q)) : \E k \in 1..Len(q) : Tail(q)[i] = q[k]
<1>1. /\ Head(q) \in S /\ Tail(q) \in Seq(S) /\ Len(q) \in Nat \ {0}
      /\ Len(Tail(q)) = Len(q) - 1 /\ Head(q) = q[1]
  OBVIOUS
<1>2. ASSUME NEW i \in 1..Len(Tail(q))
      PROVE  i + 1 \in 1..Len(q) /\ Tail(q)[i] = q[i + 1]
  BY <1>1
<1> QED BY <1>1, <1>2

LEMMA AppendParts ==
  ASSUME NEW S, NEW q \in Seq(S), NEW e \in S
  PROVE  /\ Append(q, e) \in Seq(S)
         /\ \A i \in 1..Len(Append(q, e)) :
              Append(q, e)[i] = e \/ \E k \in 1..Len(q) : Append(q, e)[i] = q[k]
<1>1. /\ Append(q, e) \in Seq(S) /\ Len(Append(q, e)) = Len(q) + 1 /\ Len(q) \in Nat
      /\ Append(q, e)[Len(q) + 1] = e
      /\ \A i \in 1..Len(q) : Append(q, e)[i] = q[i]
  OBVIOUS
<1>2. ASSUME NEW i \in 1..Len(Append(q, e)) PROVE i \in 1..Len(q) \/ i = Len(q) + 1
  BY <1>1
<1> QED BY <1>1, <1>2

LEMMA ChildSaysKeeps == ASSUME BridgeInv, ChildSays PROVE BridgeInv'
<1>1. /\ inbox # <<>> /\ inbox' = Tail(inbox)
      /\ UNCHANGED <<client, typed, lines, bridge, task, cmd, oneshot, replies, events, owed,
                     awaited>>
  BY DEF ChildSays, clientVars, taskVars, fanVars
<1>2. BridgeTyped /\ WiresAreKnown /\ TypedGrows
  BY <1>1, SameTyped DEF BridgeInv
<1>3. /\ inbox \in Seq(Requests \cup {<<>>}) /\ out \in Seq(Messages) /\ emitted \in Nat
  BY <1>2 DEF BridgeTyped
<1>4. /\ Head(inbox) \in Requests \cup {<<>>} /\ inbox' \in Seq(Requests \cup {<<>>})
      /\ Head(inbox) = inbox[1] /\ 1 \in 1..Len(inbox)
      /\ \A i \in 1..Len(inbox') : \E k \in 1..Len(inbox) : inbox'[i] = inbox[k]
  BY <1>1, <1>3, TailParts
<1>5. PICK m \in Messages :
        /\ m = Anonymous \/ \E r \in Requests : Known(r) /\ m = Response(r)
        /\ \/ out' = Append(out, m) /\ emitted' = emitted
           \/ out' = out \o <<m, m>> /\ emitted' = emitted + 1
  <2>1. CASE Head(inbox) = <<>>
    <3>1. out' = Append(out, Anonymous) /\ emitted' = emitted
      BY <2>1 DEF ChildSays
    <3> QED BY <3>1 DEF Messages
  <2>2. CASE Head(inbox) # <<>>
    <3>1. PICK r \in Requests : r = Head(inbox) /\ Known(r)
      BY <1>2, <1>4, <2>2 DEF WiresAreKnown
    <3>2. Response(r) \in Messages
      BY <3>1 DEF Messages
    <3>3. \/ out' = Append(out, Response(r)) /\ emitted' = emitted
          \/ out' = out \o <<Response(r), Response(r)>> /\ emitted' = emitted + 1
      BY <2>2, <3>1 DEF ChildSays
    <3> QED BY <3>1, <3>2, <3>3
  <2> QED BY <2>1, <2>2
<1>6. /\ out' \in Seq(Messages)
      /\ \A i \in 1..Len(out') : out'[i] = m \/ \E k \in 1..Len(out) : out'[i] = out[k]
  <2>1. CASE out' = Append(out, m)
    BY <1>3, <2>1, AppendParts
  <2>2. CASE out' = out \o <<m, m>>
    <3>1. out \o <<m, m>> = Append(Append(out, m), m)
      BY <1>3
    <3>2. /\ Append(out, m) \in Seq(Messages)
          /\ \A i \in 1..Len(Append(out, m)) :
               Append(out, m)[i] = m \/ \E k \in 1..Len(out) : Append(out, m)[i] = out[k]
      BY <1>3, AppendParts
    <3>3. /\ Append(Append(out, m), m) \in Seq(Messages)
          /\ \A i \in 1..Len(Append(Append(out, m), m)) :
               Append(Append(out, m), m)[i] = m
               \/ \E k \in 1..Len(Append(out, m)) :
                    Append(Append(out, m), m)[i] = Append(out, m)[k]
      BY <3>2, AppendParts
    <3> QED BY <2>2, <3>1, <3>2, <3>3
  <2> QED BY <1>5, <2>1, <2>2
<1>7. BridgeTyped'
  BY <1>1, <1>2, <1>4, <1>5, <1>6 DEF BridgeTyped
<1>8. WiresAreKnown'
  <2>1. m = Anonymous \/ \E r \in Requests : Known(r)' /\ m = Response(r)
    BY <1>2, <1>5, KnownGrows
  <2>2. \A r \in awaited' : r \in awaited
    BY <1>1
  <2> QED BY <1>2, <1>4, <1>6, <2>1, <2>2, WiresKept
<1> QED BY <1>1, <1>7, <1>8, ChildStep

LEMMA ChildEmitsKeeps == ASSUME BridgeInv, ChildEmits PROVE BridgeInv'
<1>1. /\ emitted' = emitted + 1 /\ out' = Append(out, Event(emitted'))
      /\ UNCHANGED <<client, typed, lines, bridge, task, cmd, oneshot, replies, events, owed,
                     awaited, inbox>>
  BY DEF ChildEmits, clientVars, taskVars, fanVars, pipeVars
<1>2. BridgeTyped /\ WiresAreKnown /\ TypedGrows
  BY <1>1, SameTyped DEF BridgeInv
<1>3. PICK m \in Messages : out' = Append(out, m) /\ m.kind = "event"
  <2>1. emitted' \in Nat
    BY <1>1, <1>2 DEF BridgeTyped
  <2>2. PICK n \in Nat : out' = Append(out, Event(n))
    BY <1>1, <2>1
  <2>3. Event(n) \in Messages
    BY DEF Messages
  <2>4. Event(n).kind = "event"
    BY DEF Event
  <2> QED BY <2>2, <2>3, <2>4
<1>4. /\ out' \in Seq(Messages)
      /\ \A i \in 1..Len(out') : out'[i] = m \/ \E k \in 1..Len(out) : out'[i] = out[k]
  <2>1. out \in Seq(Messages) /\ out' = Append(out, m)
    BY <1>2, <1>3 DEF BridgeTyped
  <2> QED BY <2>1, AppendParts
<1>5. BridgeTyped'
  BY <1>1, <1>2, <1>4 DEF BridgeTyped
<1>6. WiresAreKnown'
  <2>1. \A i \in 1..Len(inbox') : \E k \in 1..Len(inbox) : inbox'[i] = inbox[k]
    BY <1>1
  <2>2. \A r \in awaited' : r \in awaited
    BY <1>1
  <2> QED BY <1>2, <1>3, <1>4, <2>1, <2>2, WiresKept
<1> QED BY <1>1, <1>5, <1>6, ChildStep

LEMMA ChildDiesKeeps == ASSUME BridgeInv, ChildDies PROVE BridgeInv'
<1>1. UNCHANGED <<client, typed, lines, bridge, task, cmd, oneshot, replies, events, owed,
                  awaited, inbox, out, emitted>>
  BY DEF ChildDies, clientVars, taskVars, fanVars, pipeVars
<1>2. BridgeTyped' /\ TypedGrows
  BY <1>1, SameTyped DEF BridgeInv, BridgeTyped
<1> QED BY <1>1, <1>2, QuietWires, ChildStep

\* The sender of a request that is not over is taken only with what it is sent.
LEMMA TakenFrom ==
  ASSUME BridgeTyped, NEW d \in Streams, Busy(d), NEW R, R \subseteq awaited,
         <<d, cmd[d]>> \in R
  PROVE  \E r \in R : r[1] = d /\ Awaits(r)
BY DEF Awaits, Busy

LEMMA ReapInstanceKeeps == ASSUME BridgeInv, ReapInstance PROVE BridgeInv'
<1>1. /\ oneshot' = [c \in Streams |->
            IF \E r \in awaited : r[1] = c /\ Awaits(r) THEN <<Refusal>> ELSE oneshot[c]]
      /\ awaited' = {}
      /\ UNCHANGED <<client, typed, lines, bridge, task, cmd, replies, events, owed,
                     inbox, out, emitted>>
  BY DEF ReapInstance, clientVars, fanVars, pipeVars
<1>2. BridgeTyped /\ TypedGrows /\ Refusal \in Messages
  BY <1>1, SameTyped DEF BridgeInv, Messages
<1>3. BridgeTyped'
  <2>1. oneshot' \in [Streams -> {<<>>} \cup {<<m>> : m \in Messages}]
    BY <1>1, <1>2 DEF BridgeTyped
  <2> QED BY <1>1, <1>2, <2>1 DEF BridgeTyped
<1>4. WiresAreKnown'
  BY <1>1, <1>2, QuietWires
<1>5. ASSUME NEW d \in Streams, Busy(d)
      PROVE  /\ oneshot'[d] \in {oneshot[d], <<Refusal>>}
             /\ <<d, cmd[d]>> \in awaited => oneshot'[d] # <<>>
             /\ oneshot[d] # <<>> => oneshot'[d] # <<>>
  BY <1>1, <1>2, <1>5, TakenFrom
<1> QED BY <1>1, <1>3, <1>4, <1>5, ChildStep

LEMMA ReadOutKeeps == ASSUME BridgeInv, ReadOut PROVE BridgeInv'
<1>1. PICK m : m = Head(out)
  OBVIOUS
<1>2. PICK match : match = IF m.kind = "event" \/ m = Anonymous THEN {}
                           ELSE {r \in awaited : IdOf(r) = IdOf(m.of)}
  OBVIOUS
<1>3. /\ out # <<>> /\ out' = Tail(out)
      /\ UNCHANGED <<client, typed, lines, bridge, task, cmd, replies, inbox, emitted>>
  BY DEF ReadOut, pipeVars
<1>4. \/ /\ match # {} /\ awaited' = awaited \ match
         /\ oneshot' = [c \in Streams |->
              IF \E r \in match : r[1] = c /\ Awaits(r) THEN <<m>> ELSE oneshot[c]]
         /\ UNCHANGED <<events, owed>>
      \/ /\ events' = [c \in Streams |->
              IF c \in Subscribed \ Passing THEN events[c] + 1 ELSE events[c]]
         /\ owed' = [c \in Streams |->
              IF bridge[c] \in {"subscribed", "open"} /\ c \notin Passing
              THEN owed[c] + 1 ELSE owed[c]]
         /\ UNCHANGED <<awaited, oneshot>>
  BY <1>1, <1>2 DEF ReadOut, fanVars
<1>5. BridgeTyped /\ WiresAreKnown /\ TypedGrows
  BY <1>3, SameTyped DEF BridgeInv
<1>6. /\ m \in Messages /\ out' \in Seq(Messages) /\ m = out[1] /\ 1 \in 1..Len(out)
      /\ \A i \in 1..Len(out') : \E k \in 1..Len(out) : out'[i] = out[k]
  <2>1. out \in Seq(Messages)
    BY <1>5 DEF BridgeTyped
  <2> QED BY <1>1, <1>3, <2>1, TailParts
<1>7. CASE /\ match # {} /\ awaited' = awaited \ match
           /\ oneshot' = [c \in Streams |->
                IF \E r \in match : r[1] = c /\ Awaits(r) THEN <<m>> ELSE oneshot[c]]
           /\ UNCHANGED <<events, owed>>
  <2>1. oneshot' \in [Streams -> {<<>>} \cup {<<x>> : x \in Messages}]
    BY <1>5, <1>6, <1>7 DEF BridgeTyped
  <2>2. BridgeTyped'
    BY <1>3, <1>5, <1>6, <1>7, <2>1 DEF BridgeTyped
  <2>3. WiresAreKnown'
    <3>1. \A i \in 1..Len(inbox') : \E k \in 1..Len(inbox) : inbox'[i] = inbox[k]
      BY <1>3
    <3>2. \A r \in awaited' : r \in awaited
      BY <1>7
    <3> QED BY <1>5, <1>6, <3>1, <3>2, WiresKept
  <2>4. PICK s \in Requests : Known(s) /\ m = Response(s) /\ m.of = s
    BY <1>2, <1>5, <1>6, <1>7 DEF WiresAreKnown, Response
  <2>5. ASSUME DistinctIds, NEW d \in Streams, Busy(d)
        PROVE  /\ oneshot'[d] \in {oneshot[d], <<Response(<<d, cmd[d]>>)>>}
               /\ <<d, cmd[d]>> \in awaited =>
                    <<d, cmd[d]>> \in awaited' \/ oneshot'[d] # <<>>
               /\ oneshot[d] # <<>> => oneshot'[d] # <<>>
    <3>1. ASSUME NEW r \in match, r[1] = d, Awaits(r) PROVE m = Response(<<d, cmd[d]>>)
      <4>1. r \in awaited /\ IdOf(r) = IdOf(s)
        BY <1>2, <2>4, <3>1
      <4>2. Known(r)
        BY <1>5, <4>1 DEF WiresAreKnown
      <4>3. r = s
        BY <1>5, <2>4, <2>5, <4>1, <4>2, SameId
      <4>4. r = <<d, cmd[d]>>
        BY <3>1, <4>2 DEF Known, Requests, Awaits
      <4> QED BY <2>4, <4>3, <4>4
    <3>2. match \subseteq awaited
      BY <1>2
    <3>3. <<d, cmd[d]>> \in match => \E r \in match : r[1] = d /\ Awaits(r)
      BY <1>5, <2>5, <3>2, TakenFrom
    <3> QED BY <1>7, <2>5, <3>1, <3>3
  <2> QED BY <1>3, <2>2, <2>3, <2>5, ChildStep
<1>8. CASE /\ events' = [c \in Streams |->
                IF c \in Subscribed \ Passing THEN events[c] + 1 ELSE events[c]]
           /\ owed' = [c \in Streams |->
                IF bridge[c] \in {"subscribed", "open"} /\ c \notin Passing
                THEN owed[c] + 1 ELSE owed[c]]
           /\ UNCHANGED <<awaited, oneshot>>
  <2>1. owed' = events' /\ events' = [c \in Streams |-> events'[c]]
    BY <1>5, <1>8 DEF BridgeTyped, Subscribed
  <2>2. BridgeTyped'
    BY <1>3, <1>5, <1>6, <1>8, <2>1 DEF BridgeTyped
  <2>3. WiresAreKnown'
    <3>1. \A i \in 1..Len(inbox') : \E k \in 1..Len(inbox) : inbox'[i] = inbox[k]
      BY <1>3
    <3>2. \A r \in awaited' : r \in awaited
      BY <1>8
    <3> QED BY <1>5, <1>6, <3>1, <3>2, WiresKept
  <2> QED BY <1>3, <1>8, <2>2, <2>3, ChildStep
<1> QED BY <1>4, <1>7, <1>8

LEMMA BridgeInvKept == ASSUME BridgeInv, [BridgeNext]_bridgeVars PROVE BridgeInv'
<1>1. CASE UNCHANGED bridgeVars
  <2>1. UNCHANGED <<client, typed, lines, bridge, task, cmd, oneshot, replies, events, owed,
                    awaited, inbox, out, emitted>>
    BY <1>1 DEF bridgeVars, clientVars, taskVars, fanVars, pipeVars, instanceVars
  <2>2. BridgeTyped' /\ TypedGrows
    BY <2>1, SameTyped DEF BridgeInv, BridgeTyped
  <2> QED BY <2>1, <2>2, QuietWires, ChildStep
<1>2. CASE BridgeNext
  BY <1>2, OpenStreamKeeps, TypePartKeeps, TypeLineKeeps, ClientEndsKeeps, RpcReadyKeeps,
     TakeKeeps, WriteKeeps, AnsweredKeeps, FailsKeeps, LinesEndKeeps, ForwardEventKeeps,
     RepliesEndKeeps, ChildSaysKeeps, ChildEmitsKeeps, ChildDiesKeeps, ReadOutKeeps,
     ReapInstanceKeeps DEF BridgeNext, BridgeStep
<1> QED BY <1>1, <1>2

\* However many clients are bridged to one instance, and whatever else goes on there,
\* each gets the answers to its own commands, in their order, and misses nothing that
\* was said since it attached, and the answer to a request that waits will find it
\* (rpc_process.rs, pending; server.rs, bridge_stream).
THEOREM BridgeIsSoundHolds == BridgeSpec => []BridgeIsSound
<1>1. BridgeInv => BridgeIsSound
  <2> SUFFICES ASSUME BridgeInv PROVE BridgeIsSound
    OBVIOUS
  <2>1. NothingMissed
    BY DEF BridgeInv, BridgeTyped, NothingMissed
  <2>2. WaitersAreKnown
    BY DEF BridgeInv, WaitersAreKnown, AnswerIsOwn, StreamIsTrue, TaskIsAtLine, Busy, Asks
  <2> QED BY <2>1, <2>2 DEF BridgeInv, BridgeIsSound
<1> QED BY BridgeInitial, BridgeInvKept, <1>1, PTL DEF BridgeSpec
=============================================================================
