---------------------------- MODULE MCWorkspace ----------------------------
(* TLC instances of Workspace: two agents, two files. *)
EXTENDS Workspace

CONSTANTS a1, a2, f1, f2

Does(what, f, g) == [op |-> what, file |-> f, dest |-> g]
Edits(f) == Does("edit", f, f)
TwoAgents(x, y) == [a \in Workers |-> IF a = a1 THEN x ELSE y]

\* Every pair of calls of one agent beside an edit and a restore of the other,
\* or beside an edit of each file.
AllPrograms ==
  {TwoAgents(<<Does(o, f1, f2), Does(p, f2, f1)>>, y) :
     o \in WorkOps, p \in WorkOps,
     y \in {<<Edits(f1), Does("restore", f1, f1)>>, <<Edits(f2), Edits(f1)>>}}

EditAfterCheckpoint ==
  {TwoAgents(<<Does("create", f1, f1), Edits(f1), Does("restore", f1, f1)>>, <<>>)}
=============================================================================
