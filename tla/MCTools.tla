------------------------------ MODULE MCTools ------------------------------
(***************************************************************************)
(* TLC instances of a batch of tool calls and of what serves its tools:    *)
(* the MCP pool, the extension host, the language server, the files, the   *)
(* code index, a shell.  They share no state here: a behaviour is one of a *)
(* single part; the others rest.                                           *)
(***************************************************************************)
EXTENDS ToolBatch, McpPool, Extensions, Lsp, MCWorkspace, MCIndex, Shell

CONSTANTS p1, a, b, c, t1, t2, t3, main, s1, s2, c1, c2, c3, q1, q2, doc, k1, k2

VARIABLE part
Parts == {"batch", "pool", "extensions", "lsp", "workspace", "index", "shell"}

\* Two calls edit one file, a third names none.
TwoOnOnePath == [i \in 1..3 |-> IF i = 3 THEN NoPath ELSE p1]

\* A server of each transport. Up to three calls about a process, one that
\* competes with it for the slot, two calls about each of the other servers.
Servings == [s \in Servers |->
               CASE s = a -> "stdio" [] s = b -> "sse" [] OTHER -> "http"]
Do(o, s) == [op |-> o, srv |-> s]
Rest == Do(NoOne, a)
SideBySide(x, y, z) ==
  [t \in Tasks |-> CASE t = t1 -> x [] t = t2 -> y [] OTHER -> z]
Mixes ==
  {SideBySide(Do("call", a), Do("call", a), Rest),
   SideBySide(Do("call", a), Rest, Do("enable", b)),
   SideBySide(Do("call", a), Do("enable", a), Do("disable", a))}
  \cup {SideBySide(Do(o, s), Do(p, s), Rest) :
          o \in {"call", "describe"}, p \in Ops, s \in {b, c}}
  \cup {SideBySide(Rest, Rest, Rest)}

\* The main agent calls a tool of each extension, a sub-agent one in Rust.
Batches == [x \in {main, s1, s2} |->
              CASE x = main -> <<c1, c2>> [] x = s1 -> <<c3>> [] OTHER -> <<>>]
Tools == [x \in {c1, c2, c3} |-> CASE x = c1 -> 1 [] x = c2 -> 2 [] OTHER -> 0]

\* Two calls about one document, each kind of call beside each other kind.
OneDocument == [t \in LspCalls |-> doc]
Asks(x, y) == [t \in LspCalls |-> IF t = q1 THEN x ELSE y]
MixedMethods ==
  {Asks("plain", "indexed"), Asks("plain", "on_document"),
   Asks("indexed", "on_document"), Asks("none", "none")}

Workings == AllPrograms \cup {TwoAgents(<<>>, <<>>)}

ExtRests ==
  /\ holder = [e \in Extensions |-> Nobody]
  /\ script = [t \in Threads |-> Out] /\ awaited = [t \in Threads |-> {}]
  /\ agent = [x \in Agents |-> "over"]
  /\ call = [x \in ToolCalls |-> "new"] /\ turnOf = [x \in ToolCalls |-> 1]
  /\ observed = {} /\ passed = [x \in ToolCalls |-> {}]

ToolsInit ==
  /\ part \in Parts
  /\ Init /\ (part # "batch" => mode = "sequential")
  /\ PoolInit /\ (part = "pool" <=> op[t1] # NoOne)
  /\ IF part = "extensions" THEN ExtInit ELSE ExtRests
  /\ LspInit /\ \A t \in LspCalls : part = "lsp" <=> method[t] # "none"
  /\ WorkInit /\ (part = "workspace" <=> ~WorkOver)
  /\ IF part = "index" THEN IndexInit ELSE IndexBegins({})
  /\ IF part = "shell" THEN ShellInit ELSE ShellStarts("none")

Others(own) ==
  /\ own # "batch" => UNCHANGED vars
  /\ own # "pool" => UNCHANGED mcpVars
  /\ own # "extensions" => UNCHANGED extVars
  /\ own # "lsp" => UNCHANGED lspVars
  /\ own # "workspace" => UNCHANGED workVars
  /\ own # "index" => UNCHANGED indexVars
  /\ own # "shell" => UNCHANGED shellVars

BatchStep == part = "batch" /\ Next /\ Others("batch")
PoolStep == part = "pool" /\ PoolNext /\ Others("pool")
ExtStep == part = "extensions" /\ ExtNext /\ Others("extensions")
LspStep == part = "lsp" /\ LspNext /\ Others("lsp")
WorkStep == part = "workspace" /\ WorkNext /\ Others("workspace")
IndexStep == part = "index" /\ IndexNext /\ Others("index")
ShellStep == part = "shell" /\ ShellNext /\ Others("shell")

\* What is over may rest.
AllOver ==
  /\ CASE part = "batch" -> pc = "done"
       [] part = "extensions" -> ExtOver
       [] part = "lsp" -> LspOver
       [] part = "workspace" -> WorkOver
       [] part = "index" -> IndexOver
       [] part = "shell" -> ShellOver
       [] OTHER -> FALSE
  /\ Others("none")

ToolsNext ==
  /\ BatchStep \/ PoolStep \/ ExtStep \/ LspStep \/ WorkStep \/ IndexStep
     \/ ShellStep \/ AllOver
  /\ UNCHANGED part

\* The fairness of each part.  (A part that rests has no step to take: to name
\* the part only spares TLC the look.)
ToolsSpec ==
  /\ ToolsInit
  /\ [][ToolsNext]_<<vars, mcpVars, extVars, lspVars, workVars, indexVars,
                    shellVars, part>>
  /\ WF_vars(part = "batch" /\ LoopStep) /\ WF_vars(part = "batch" /\ ToolStep)
  /\ WF_mcpVars(part = "pool" /\ PoolProgress)
  /\ WF_extVars(part = "extensions" /\ ExtProgress)
  /\ WF_extVars(part = "extensions" /\ Notified)
  /\ WF_lspVars(part = "lsp" /\ LspProgress)
  /\ WF_shellVars(part = "shell" /\ ShellProgress)

\* A batch is handed back, and each call of an MCP tool, of a hook, of the
\* language server, of a shell that is told to, ends: what CallsEnd,
\* HooksReturn, LspCallsEnd, AskedCallsEnd and BatchCompletes say, in a form
\* that TLC checks at once.
EveryCallEnds ==
  []<>(/\ part = "batch" => pc = "done"
       /\ \A t \in Tasks : where[t] = "done"
       /\ ExtOver /\ LspOver
       /\ ending = "none" \/ ShellOver)
=============================================================================
