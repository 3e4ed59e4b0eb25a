----------------------------- MODULE Workspace -----------------------------
(***************************************************************************)
(* The files of the working directory under the tools that change them:    *)
(* edit, edit_block and write (pirs-tools), ast_edit (pirs-graph), the     *)
(* rename of the language server (pirs-lsp) and the checkpoints.           *)
(*                                                                         *)
(* Sub-agents run in threads of one process (parallel_map), each one call  *)
(* at a time; the lock of a file (filelock.rs) is shared by the process.   *)
(* A path is the file it resolves to, for the tools and for the lock.      *)
(* Reading or writing a file is one stage, a git command too.               *)
(***************************************************************************)
EXTENDS Naturals, Sequences, FiniteSets

CONSTANTS
  Workers,          \* agents of the process
  Files,           \* files that exist, committed
  Programs,        \* bound: the calls each agent makes, in order
  Git,             \* the directory is a git repository
  IndexIsTracked   \* .pirs is not ignored: index.json is one of the files

Unlocked == "free"
\* "patch" is edit_block, or an ast_edit within one file.
Editing == {"edit", "patch", "rename"}    \* replace a text that must be there
Locking == {"edit", "patch", "write", "move"}
WholeOrNothing == {"edit", "write"}       \* paths::atomic_write
WorkOps == Editing \cup Locking \cup {"create", "restore"}
WorkCall == [op : WorkOps, file : Files, dest : Files]

ASSUME WorkspaceAssumption ==
  /\ Programs \subseteq [Workers -> Seq(WorkCall)]
  /\ Unlocked \notin Workers
  /\ Git \in BOOLEAN /\ IndexIsTracked \in BOOLEAN

\* The content of a file is the set of texts in it: at first what the edits
\* look for and a function of its own, then what each call has put there.
Text(op, by, left) == [op |-> op, by |-> by, left |-> left]
Base == Text("base", Unlocked, 0)
Function(f) == Text("function", f, 0)
Committed == [f \in Files |-> {Base, Function(f)}]

VARIABLES
  program,  \* the calls an agent has before it
  stage,     \* where it is in the first of them
  read,     \* the files as the call has read them
  held,     \* the lock of each file: an agent or Unlocked
  listed,   \* the checkpoints as the git commit of a call holds them
  tree,     \* the files
  index,    \* the checkpoints, in the order of index.json
  \* history
  trail,    \* the calls that wrote a file, in order
  owed      \* the files as a restore has just promised them, or <<>>

workVars == <<program, stage, read, held, listed, tree, index, trail, owed>>

WorkInit ==
  /\ program \in Programs
  /\ stage = [a \in Workers |-> "start"]
  /\ read = [a \in Workers |-> Committed]
  /\ held = [f \in Files |-> Unlocked]
  /\ listed = [a \in Workers |-> <<>>]
  /\ tree = Committed
  /\ index = <<>>
  /\ trail = [f \in Files |-> <<>>]
  /\ owed = <<>>

-----------------------------------------------------------------------------
Call(a) == Head(program[a])
Mark(a) == Text(Call(a).op, a, Len(program[a]))
Wanted(a) == IF Call(a).op = "move" THEN Function(Call(a).file) ELSE Base
At(a, ops, s) == program[a] # <<>> /\ Call(a).op \in ops /\ stage[a] = s

Goto(a, s) == stage' = [stage EXCEPT ![a] = s] /\ UNCHANGED <<program, held>>

\* The call is over, with or without an error; its guard is dropped.
EndCall(a) ==
  /\ program' = [program EXCEPT ![a] = Tail(@)]
  /\ stage' = [stage EXCEPT ![a] = "start"]
  /\ held' = [f \in Files |-> IF held[f] = a THEN Unlocked ELSE held[f]]

Fills(f, content, entries) ==
  /\ tree' = [tree EXCEPT ![f] = content]
  /\ trail' = [trail EXCEPT ![f] = entries]
  /\ owed' = <<>>
  /\ UNCHANGED <<read, listed, index>>

Put(a, f, content) == Fills(f, content, Append(trail[f], Mark(a)))

\* What a call does to a file beside what it was asked for.
Botches(a, f, content, what) ==
  Fills(f, content, Append(trail[f], Text(what, a, Len(program[a]))))

\* fs::write in place empties the file first: a write that fails may leave it so.
CutOff(a, f, what) == Botches(a, f, {}, what)

\* Variant: two calls may hold the lock of one file.
LockShared(a) ==
  /\ At(a, Locking, "start")
  /\ held' = [held EXCEPT ![Call(a).file] = a]
  /\ stage' = [stage EXCEPT ![a] = "locked"]
  /\ UNCHANGED <<program, read, listed, tree, index, trail, owed>>

\* filelock::lock
Lock(a) ==
  /\ At(a, Locking, "start") /\ held[Call(a).file] = Unlocked
  /\ held' = [held EXCEPT ![Call(a).file] = a]
  /\ stage' = [stage EXCEPT ![a] = "locked"]
  /\ UNCHANGED <<program, read, listed, tree, index, trail, owed>>

\* A move into the file itself is refused: it would delete the function.
IntoItself(a) == Call(a).op = "move" /\ Call(a).dest = Call(a).file

\* An edit looks for its text, a move for the function; a rename, which takes
\* no lock, applies the edits that the server has sent.
Look(a) ==
  /\ At(a, {"edit", "patch", "move"}, "locked") \/ At(a, {"rename"}, "start")
  /\ read' = [read EXCEPT ![a] = tree]
  /\ IF ~IntoItself(a) /\ Wanted(a) \in tree[Call(a).file]
     THEN Goto(a, "write") ELSE EndCall(a)
  /\ UNCHANGED <<listed, tree, index, trail, owed>>

\* The syntax tree of an ast_edit may show that the file no longer parses.
Replace(a) ==
  /\ At(a, Editing, "write")
  /\ Put(a, Call(a).file, read[a][Call(a).file] \cup {Mark(a)})
  /\ EndCall(a) \/ (Call(a).op = "patch" /\ Goto(a, "mend"))

\* write_with_rollback: the file as it was read, and an error for the call.
RollBack(a) ==
  /\ At(a, {"patch"}, "mend")
  /\ LET f == Call(a).file
     IN Botches(a, f, read[a][f], "undone") \/ CutOff(a, f, "failed")
  /\ EndCall(a)

Overwrite(a) ==
  /\ At(a, {"write"}, "locked")
  /\ Put(a, Call(a).file, {Mark(a)})
  /\ EndCall(a)

\* A write fails, and its call with it.
WriteFails(a) ==
  /\ \/ At(a, Editing \cup {"move"}, "write")
     \/ At(a, {"write"}, "locked") \/ At(a, {"move"}, "strip")
  /\ \/ UNCHANGED <<read, listed, tree, index, trail, owed>>
     \/ /\ Call(a).op \notin WholeOrNothing
        /\ CutOff(a, IF At(a, {"move"}, "write") THEN Call(a).dest
                                                ELSE Call(a).file, "failed")
  /\ EndCall(a)

(* move_function: the destination first, which nobody has locked.  A file  *)
(* that no longer parses is put back as it was read.                       *)

MoveTo(a) ==
  /\ At(a, {"move"}, "write")
  /\ Put(a, Call(a).dest, read[a][Call(a).dest] \cup {Function(Call(a).file)})
  /\ Goto(a, "strip") \/ Goto(a, "undo")

MoveFrom(a) ==
  /\ At(a, {"move"}, "strip")
  /\ Put(a, Call(a).file, read[a][Call(a).file] \ {Function(Call(a).file)})
  /\ EndCall(a) \/ Goto(a, "mend")

\* The errors of the two writes that put things back are dropped.
Mend(a) ==
  /\ At(a, {"move"}, "mend")
  /\ Put(a, Call(a).file, read[a][Call(a).file])
     \/ CutOff(a, Call(a).file, "unmended")
  /\ Goto(a, "undo")

UndoMove(a) ==
  /\ At(a, {"move"}, "undo")
  /\ Put(a, Call(a).dest, read[a][Call(a).dest])
     \/ CutOff(a, Call(a).dest, "failed")
  /\ EndCall(a)

-----------------------------------------------------------------------------
(* Checkpoints. *)

Dirty == {f \in Files : tree[f] # Committed[f]}
IndexIsDirty == IndexIsTracked /\ index # <<>>

\* `git stash create` makes no commit of a clean tree; without git there is
\* none either.
Stash(a) ==
  /\ At(a, {"create"}, "start")
  /\ read' = [read EXCEPT ![a] = tree]
  /\ listed' = [listed EXCEPT ![a] = IF IndexIsTracked THEN index ELSE <<>>]
  /\ Goto(a, IF Git /\ (Dirty # {} \/ IndexIsDirty) THEN "stashed" ELSE "copy")
  /\ UNCHANGED <<tree, index, trail, owed>>

\* The dirty files are copied, all of them without git, and the checkpoint is
\* listed.
Record(a) ==
  /\ At(a, {"create"}, "stashed") \/ At(a, {"create"}, "copy")
  /\ index' = Append(index,
       [ref    |-> stage[a] = "stashed",
        was    |-> read[a],
        listed |-> listed[a],
        copies |-> IF Git THEN [f \in Dirty |-> tree[f]] ELSE tree])
  /\ EndCall(a)
  /\ UNCHANGED <<read, listed, tree, trail, owed>>

\* restore_checkpoint: the tree of the commit, which holds the index of its
\* time, else the copies.
BringBack(a, c) ==
  /\ tree' = [f \in Files |-> CASE c.ref -> c.was[f]
                              [] ~c.ref /\ f \in DOMAIN c.copies -> c.copies[f]
                              [] OTHER -> tree[f]]
  /\ index' = IF c.ref /\ c.listed # <<>> THEN c.listed ELSE index
  /\ trail' = [f \in Files |-> Append(trail[f], Mark(a))]
  /\ owed' = c.was

RestoreCheckpoint(a) ==
  /\ At(a, {"restore"}, "start")
  /\ \/ \E i \in DOMAIN index : BringBack(a, index[i])
     \/ index = <<>> /\ UNCHANGED <<tree, index, trail, owed>>
  /\ EndCall(a)
  /\ UNCHANGED <<read, listed>>

WorkNext ==
  \E a \in Workers :
    \/ Lock(a) \/ Look(a) \/ Replace(a) \/ RollBack(a) \/ Overwrite(a)
    \/ WriteFails(a)
    \/ MoveTo(a) \/ MoveFrom(a) \/ Mend(a) \/ UndoMove(a)
    \/ Stash(a) \/ Record(a) \/ RestoreCheckpoint(a)

WorkOver == \A a \in Workers : program[a] = <<>>

WorkSpec == WorkInit /\ [][WorkNext]_workVars

-----------------------------------------------------------------------------
(* Properties. *)

\* What excuses the loss of the text of call t: its own rollback, or a call that
\* writes the whole file, takes no lock (a rename, a checkpoint), writes a file
\* other than the one it has locked (a move) or fails in the middle of its write.
Excuses(s, t) ==
  IF s.op = "undone" THEN <<s.by, s.left>> = <<t.by, t.left>>
                     ELSE s.op \notin {"edit", "patch"}

\* The text of an edit that was reported is in its file, unless something that
\* excuses its loss came over it: edits never lose each other (filelock.rs:24).
EditsSurvive ==
  \A f \in Files :
    \A i \in DOMAIN trail[f] :
      trail[f][i].op \in {"edit", "patch"} /\ trail[f][i] \notin tree[f] =>
        \E j \in DOMAIN trail[f] : i < j /\ Excuses(trail[f][j], trail[f][i])

\* A move that nothing comes between keeps its function in one of the files,
\* whichever of its steps fails, as long as its source can be put back
\* (ast_edit.rs:550); only what a failed write has cut off is lost.
MovesKeepText ==
  (\A f, g \in Files : \A i \in DOMAIN trail[f], j \in DOMAIN trail[g] :
     /\ trail[f][i].op \in {"move", "failed"}
     /\ <<trail[f][i].by, trail[f][i].left>> = <<trail[g][j].by, trail[g][j].left>>)
    => \A f \in Files :
         \/ \E g \in Files : Function(f) \in tree[g]
         \/ \E i \in DOMAIN trail[f] : trail[f][i].op = "failed"

\* No call loses the work of another that it must keep.
WorkIsKept == EditsSurvive /\ MovesKeepText

\* "restored checkpoint": the files are as they were when it was made
\* (checkpoint.rs:167).
RestoreBringsBack == owed # <<>> => tree = owed
=============================================================================
