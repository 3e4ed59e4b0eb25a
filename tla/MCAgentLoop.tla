---------------------------- MODULE MCAgentLoop ----------------------------
(* TLC instances of AgentLoop. *)
EXTENDS AgentLoop

CONSTANTS u1, u2
OneBlank == {u2}
OneResumed ==
  {<<User("prompt", {}), Reply("tools", 1), Result(1, "plain")>>}

\* A long run that is steered and cancelled, one reply at a time.
Steered ==
  [maxTurns |-> 2, maxToolCalls |-> 0, maxAdvice |-> 1, drainAll |-> FALSE,
   cascade |-> FALSE, compacts |-> FALSE, stops |-> FALSE,
   resumes |-> FALSE, typing |-> Inputs, calls |-> 1]

\* Batches of two calls with everything configured, nobody typing.
Loaded ==
  [maxTurns |-> 2, maxToolCalls |-> 3, maxAdvice |-> 0, drainAll |-> TRUE,
   cascade |-> TRUE, compacts |-> TRUE, stops |-> TRUE,
   resumes |-> TRUE, typing |-> {}, calls |-> 2]

SteeredOrLoaded == {Steered, Loaded}
OnlySteered == {[Steered EXCEPT !.maxTurns = 4, !.maxAdvice = 0]}
=============================================================================
