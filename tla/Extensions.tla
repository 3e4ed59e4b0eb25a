----------------------------- MODULE Extensions -----------------------------
(***************************************************************************)
(* The host of the Rhai extensions (pirs-rhai: lib.rs): each extension is  *)
(* one engine behind one mutex, entered by the hooks of the agent loop, by *)
(* its own tools and by slash commands. A script may start sub-agents      *)
(* (pirs/subagent.rs) and wait for them inside a hook: their tool calls    *)
(* come back to the same extensions, whence the locks are only tried.      *)
(*                                                                         *)
(* A thread is the loop of an agent, or a call of a Rhai tool, which has a *)
(* thread of its own. It is in one script at a time.                       *)
(***************************************************************************)
EXTENDS Naturals, Sequences, FiniteSets

CONSTANTS
  Extensions, \* numbered in the order they were loaded
  Policies,   \* those with on_tool_call,
  Patches,    \* ... on_tool_result,
  Observers,  \* ... and another hook: on_context, on_event, on_steering, ...
  MainAgent,
  SubAgents,  \* bound: the sub-agents that scripts may start
  BatchOf,    \* the calls of an agent's turn, in order
  ToolOf      \* the extension whose tool a call names, 0 for a tool in Rust

Agents == {MainAgent} \cup SubAgents
ToolCalls == UNION {{BatchOf[a][i] : i \in DOMAIN BatchOf[a]} : a \in Agents}
Threads == Agents \cup ToolCalls
Nobody == "nobody"

ASSUME ExtensionsAssumption ==
  /\ Extensions \subseteq Nat \ {0}
  /\ Policies \cup Patches \cup Observers \subseteq Extensions
  /\ ToolOf \in [ToolCalls -> Extensions \cup {0}]
  \* a sub-agent has the tools of the binary only
  /\ \A a \in SubAgents, c \in ToolCalls :
       (\E i \in DOMAIN BatchOf[a] : BatchOf[a][i] = c) => ToolOf[c] = 0
  /\ Nobody \notin Threads
  \* a call is one agent's
  /\ \A a \in Agents : BatchOf[a] \in Seq(ToolCalls)
  /\ \A a, b \in Agents : a # b =>
       \A i \in DOMAIN BatchOf[a], j \in DOMAIN BatchOf[b] : BatchOf[a][i] # BatchOf[b][j]

VARIABLES
  holder,   \* the thread in an extension's script
  script,   \* the script a thread is in: its extension and hook
  awaited,  \* the sub-agents a thread joins
  agent,    \* "none", "runs" or "over"
  call,     \* a tool call's state
  turnOf,   \* the next extension in a call's loop over the hooks
  observed, \* bound: the observers that have been notified
  \* history
  passed    \* the extensions whose policy has let a call pass

extVars == <<holder, script, awaited, agent, call, turnOf, observed, passed>>

Out == [ext |-> 0, hook |-> "none"]
In(e, h) == [ext |-> e, hook |-> h]
CallStates == {"new", "ready", "running", "ran", "patched", "refused"}
Settled == {"patched", "refused"}

IndexOf(a, c) == CHOOSE i \in DOMAIN BatchOf[a] : BatchOf[a][i] = c
CallsOf(a) == {BatchOf[a][i] : i \in DOMAIN BatchOf[a]}

ExtInit ==
  /\ holder = [e \in Extensions |-> Nobody]
  /\ script = [t \in Threads |-> Out]
  /\ awaited = [t \in Threads |-> {}]
  /\ agent = [a \in Agents |-> IF a = MainAgent THEN "runs" ELSE "none"]
  /\ call = [c \in ToolCalls |-> "new"]
  /\ turnOf = [c \in ToolCalls |-> 1]
  /\ observed = {}
  /\ passed = [c \in ToolCalls |-> {}]

-----------------------------------------------------------------------------
(* The locks. *)

\* Between two scripts, a loop's thread is free to go on.
Free(t) == script[t] = Out
Busy(e) == holder[e] # Nobody

Enter(t, e, h) ==
  /\ ~Busy(e)
  /\ holder' = [holder EXCEPT ![e] = t]
  /\ script' = [script EXCEPT ![t] = In(e, h)]

\* The script of a hook ends, in an error of its own too, and the guard of its
\* lock with it; not before the sub-agents it joins.
Return(t, h) ==
  /\ script[t].hook = h
  /\ \A a \in awaited[t] : agent[a] = "over"
  /\ holder' = [holder EXCEPT ![script[t].ext] = Nobody]
  /\ script' = [script EXCEPT ![t] = Out]
  /\ awaited' = [awaited EXCEPT ![t] = {}]

Go2(c, s) == call' = [call EXCEPT ![c] = s]
NextTurn(c, e) == turnOf' = [turnOf EXCEPT ![c] = e + 1]
FirstTurn(c) == turnOf' = [turnOf EXCEPT ![c] = 1]
LoopIsOver(c, hooks) == \A e \in hooks : e < turnOf[c]
IsTurnOf(e, c, hooks) ==
  e \in hooks /\ e >= turnOf[c] /\ \A d \in hooks : d >= e \/ d < turnOf[c]

\* The call an agent prepares: the first of its batch that is new.
IsNext(a, c) ==
  /\ c \in CallsOf(a) /\ call[c] = "new"
  /\ \A d \in CallsOf(a) : call[d] = "new" => IndexOf(a, c) <= IndexOf(a, d)
Prepares(a, c) == agent[a] = "runs" /\ Free(a) /\ IsNext(a, c)

-----------------------------------------------------------------------------
(* run_on_tool_call: a policy that cannot be evaluated denies. *)

EvaluatePolicyBusyIsPass(a, c) ==
  /\ Prepares(a, c)
  /\ \E e \in Policies :
       /\ IsTurnOf(e, c, Policies)
       /\ IF Busy(e)
          THEN NextTurn(c, e) /\ UNCHANGED <<holder, script, call>>
          ELSE Enter(a, e, "on_tool_call") /\ UNCHANGED <<call, turnOf>>
  /\ UNCHANGED <<awaited, agent, observed, passed>>

EvaluatePolicyWaits(a, c) ==
  /\ Prepares(a, c)
  /\ \E e \in Policies :
       /\ IsTurnOf(e, c, Policies)
       /\ IF Busy(e) THEN UNCHANGED <<holder, script>>
          ELSE Enter(a, e, "on_tool_call")
  /\ UNCHANGED <<awaited, agent, call, turnOf, observed, passed>>

EvaluatePolicy(a, c) ==
  /\ Prepares(a, c)
  /\ \E e \in Policies :
       /\ IsTurnOf(e, c, Policies)
       /\ IF Busy(e)
          THEN Go2(c, "refused") /\ UNCHANGED <<holder, script>>
          ELSE Enter(a, e, "on_tool_call") /\ UNCHANGED call
  /\ UNCHANGED <<awaited, agent, turnOf, observed, passed>>

\* The verdict: pass, or block, or an error, which is a denial.
PolicyReturns(a, c) ==
  /\ IsNext(a, c)
  /\ Return(a, "on_tool_call")
  /\ \/ /\ NextTurn(c, script[a].ext)
        /\ passed' = [passed EXCEPT ![c] = @ \cup {script[a].ext}]
        /\ UNCHANGED call
     \/ Go2(c, "refused") /\ UNCHANGED <<turnOf, passed>>
  /\ UNCHANGED <<agent, observed>>

Prepared(a, c) ==
  /\ Prepares(a, c)
  /\ LoopIsOver(c, Policies)
  /\ Go2(c, "ready") /\ FirstTurn(c)
  /\ UNCHANGED <<holder, script, awaited, agent, observed, passed>>

-----------------------------------------------------------------------------
(* The calls that were not refused run side by side. *)

AllPrepared(a) == \A c \in CallsOf(a) : call[c] # "new"

RunTool(a, c) ==
  /\ agent[a] = "runs" /\ Free(a) /\ AllPrepared(a)
  /\ c \in CallsOf(a) /\ call[c] = "ready"
  /\ Go2(c, "running")
  /\ UNCHANGED <<holder, script, awaited, agent, turnOf, observed, passed>>

\* RhaiTool::execute, on a thread of its own: a busy extension is an error.
RunScript(c) ==
  /\ call[c] = "running" /\ ToolOf[c] # 0 /\ Free(c)
  /\ IF Busy(ToolOf[c])
     THEN Go2(c, "ran") /\ UNCHANGED <<holder, script>>
     ELSE Enter(c, ToolOf[c], "tool") /\ UNCHANGED call
  /\ UNCHANGED <<awaited, agent, turnOf, observed, passed>>

ToolReturns(c) ==
  /\ IF ToolOf[c] = 0
     THEN call[c] = "running" /\ UNCHANGED <<holder, script, awaited>>
     ELSE Return(c, "tool")
  /\ Go2(c, "ran")
  /\ UNCHANGED <<agent, turnOf, observed, passed>>

\* run_on_tool_result: a busy extension is skipped.
PatchResult(a, c) ==
  /\ agent[a] = "runs" /\ Free(a)
  /\ c \in CallsOf(a) /\ call[c] = "ran"
  /\ \A d \in CallsOf(a) : call[d] = "ran" => turnOf[d] <= turnOf[c]
  /\ \/ \E e \in Patches :
          /\ IsTurnOf(e, c, Patches)
          /\ NextTurn(c, e)
          /\ IF Busy(e) THEN UNCHANGED <<holder, script>>
             ELSE Enter(a, e, "on_tool_result")
          /\ UNCHANGED call
     \/ /\ LoopIsOver(c, Patches)
        /\ Go2(c, "patched")
        /\ UNCHANGED <<holder, script, turnOf>>
  /\ UNCHANGED <<awaited, agent, observed, passed>>

\* The first patch is the last word.
PatchReturns(a, c) ==
  /\ c \in CallsOf(a) /\ call[c] = "ran" /\ turnOf[c] = script[a].ext + 1
  /\ Return(a, "on_tool_result")
  /\ \/ Go2(c, "patched")
     \/ UNCHANGED call
  /\ UNCHANGED <<agent, turnOf, observed, passed>>

-----------------------------------------------------------------------------
(* The other hooks, which the main agent alone has, and slash commands:    *)
(* a busy extension is skipped, or the command ends in an error.           *)

Notify(e) ==
  /\ agent[MainAgent] = "runs" /\ Free(MainAgent)
  /\ e \in Observers \ observed
  /\ observed' = observed \cup {e}
  /\ IF Busy(e) THEN UNCHANGED <<holder, script>>
     ELSE Enter(MainAgent, e, "other")
  /\ UNCHANGED <<awaited, agent, call, turnOf, passed>>

Notified ==
  /\ Return(MainAgent, "other")
  /\ UNCHANGED <<agent, call, turnOf, observed, passed>>

-----------------------------------------------------------------------------
(* Sub-agents. *)

\* run_subagent and parallel_map join those they start, spawn_subagent does not.
StartSubAgents(t) ==
  /\ ~Free(t) /\ awaited[t] = {}
  /\ \E new \in (SUBSET {a \in SubAgents : agent[a] = "none"}) \ {{}} :
       /\ agent' = [a \in Agents |-> IF a \in new THEN "runs" ELSE agent[a]]
       /\ awaited' \in {awaited, [awaited EXCEPT ![t] = new]}
  /\ UNCHANGED <<holder, script, call, turnOf, observed, passed>>

AgentEnds(a) ==
  /\ agent[a] = "runs" /\ Free(a)
  /\ \A c \in CallsOf(a) : call[c] \in Settled
  /\ agent' = [agent EXCEPT ![a] = "over"]
  /\ UNCHANGED <<holder, script, awaited, call, turnOf, observed, passed>>

-----------------------------------------------------------------------------
Loop(a) ==
  \/ \E c \in ToolCalls :
       \/ EvaluatePolicy(a, c) \/ PolicyReturns(a, c) \/ Prepared(a, c)
       \/ RunTool(a, c) \/ PatchResult(a, c) \/ PatchReturns(a, c)
  \/ AgentEnds(a)

ExtNext ==
  \/ \E a \in Agents : Loop(a)
  \/ \E c \in ToolCalls : RunScript(c) \/ ToolReturns(c)
  \/ \E e \in Extensions : Notify(e)
  \/ Notified
  \/ \E t \in Threads : StartSubAgents(t)

\* While a loop or a tool can go on, one does; a script ends (its operations are
\* capped), and so does a tool and a notification.
ExtProgress ==
  \/ \E a \in Agents : Loop(a)
  \/ \E c \in ToolCalls : RunScript(c) \/ ToolReturns(c)
ExtSpec ==
  ExtInit /\ [][ExtNext]_extVars /\ WF_extVars(ExtProgress) /\ WF_extVars(Notified)

ExtOver == \A a \in Agents : agent[a] # "runs"

-----------------------------------------------------------------------------
(* Properties. *)

\* A tool call runs only when every policy has seen this very call and let it
\* pass, whichever agent makes it and whoever is in the extension: what cannot
\* be evaluated is denied. And a script that runs holds the lock of its engine.
FailsClosed ==
  /\ \A c \in ToolCalls :
       call[c] \in {"ready", "running", "ran", "patched"}
         => Policies \subseteq passed[c]
  /\ \A t \in Threads : ~Free(t) => holder[script[t].ext] = t

\* No hook waits for itself: however scripts start sub-agents from hooks and
\* tools, every agent comes to its end.
HooksReturn == <>ExtOver
=============================================================================
