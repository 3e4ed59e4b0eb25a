---------------------------- MODULE MCProcesses ----------------------------
(***************************************************************************)
(* TLC instances of the three parts that start processes and watch them:   *)
(* background jobs (a bash job that may be restarted, and a sub-agent that *)
(* makes the registry evict it), the orchestrator daemon, and two clients  *)
(* bridged to one of its instances.  They share no state: a behaviour is   *)
(* one of a single part; the others have not begun.                        *)
(***************************************************************************)
EXTENDS Jobs, Orchestrator, Bridge

CONSTANTS k1, w1, a, s1, s2, r1, c1, c2, i1

VARIABLE part

BashThenAgent ==
  [j \in JobIds |-> IF j = 1 THEN {"bash", "restart"} ELSE {"agent"}]
Restarts == [j \in JobIds |-> IF j = 1 THEN 3 ELSE 1]

LinesOf == [c \in Streams |-> 1]
KindsOfLine ==
  [c \in Streams |->
     {"command"} \cup IF c = c1 THEN {} ELSE {"raw", "badId"}]

ProcessesInit ==
  part \in {"jobs", "daemon", "bridge"} /\ Init /\ DaemonInit /\ BridgeInit

ProcessesNext ==
  /\ \/ part = "jobs" /\ Next /\ UNCHANGED <<orchVars, bridgeVars>>
     \/ part = "daemon" /\ DaemonNext /\ UNCHANGED <<vars, bridgeVars>>
     \/ part = "bridge" /\ BridgeNext /\ UNCHANGED <<vars, orchVars>>
  /\ UNCHANGED part

\* The fairness of each part.  (A part that has not begun has no step to take:
\* to name the part only spares TLC the look.)
ProcessesSpec ==
  /\ ProcessesInit /\ [][ProcessesNext]_<<vars, orchVars, bridgeVars, part>>
  /\ WF_vars(part = "jobs" /\ Progress)
  /\ WF_orchVars(part = "daemon" /\ DaemonProgress)
  /\ WF_bridgeVars(part = "bridge" /\ BridgeProgress)

\* Nobody is kept waiting for ever: a job that ended settles and its waits come
\* back, and whatever is asked of the daemon ends, of itself or over a bridge.
NobodyHangs == JobsAndWaitsEnd /\ CallsEnd /\ StreamsEnd
=============================================================================
