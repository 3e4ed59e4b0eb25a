--------------------------- MODULE BatchContract ---------------------------
(***************************************************************************)
(* What the agent loop relies on when it executes a batch of tool calls    *)
(* (pirs-agent/src/agent_loop/mod.rs:229-241): while the batch is open each *)
(* call gets a result once, no result changes afterwards, and the batch is *)
(* handed back only when every call has one.                               *)
(***************************************************************************)
EXTENDS Naturals

CONSTANTS N, Kinds, None

VARIABLES res, done

vars == <<res, done>>
Calls == 1..N

Init == res = [i \in Calls |-> None] /\ done = FALSE

\* A call is answered.
Answer(i, k) ==
  /\ ~done /\ res[i] = None
  /\ res' = [res EXCEPT ![i] = k]
  /\ UNCHANGED done

\* The batch is handed back, the calls still open answered on the way.
HandBack ==
  /\ ~done /\ done' = TRUE
  /\ res' \in [Calls -> Kinds]
  /\ \A i \in Calls : res[i] # None => res'[i] = res[i]

Next == HandBack \/ \E i \in Calls, k \in Kinds : Answer(i, k)

Spec == Init /\ [][Next]_vars
=============================================================================
