---------------------------- MODULE Files_proofs ----------------------------
(***************************************************************************)
(* What is kept about files: the tools that edit one working tree under    *)
(* path locks (Workspace), and the index that follows one file beside      *)
(* them (CodeIndex).  They share no state, so each has an invariant of     *)
(* its own.                                                                *)
(***************************************************************************)
EXTENDS Workspace, CodeIndex, SequenceTheorems, TLAPS

-----------------------------------------------------------------------------
(***************************************************************************)
(* The working tree, for any number of workers, files and calls.           *)
(*                                                                         *)
(* WorkInv strengthens WorkIsKept by what each call knows of the files it  *)
(* is at: that it holds their locks, what it has read of them, and which   *)
(* marks of the log stand behind what the tree holds, so that a mark is    *)
(* missing from a file only where something written later excuses it.      *)
(***************************************************************************)

WorkStages == {"start", "locked", "write", "strip", "mend", "undo", "stashed", "copy"}
Entry == [op : WorkOps \cup {"failed", "undone", "unmended"}, by : Workers, left : Nat]

\* What the checkpoints hold is not typed: only what is in the files matters.
WorkTyped ==
  /\ program \in [Workers -> Seq(WorkCall)]
  /\ stage \in [Workers -> WorkStages]
  /\ \A a \in Workers : stage[a] # "start" => program[a] # <<>>
  /\ read = [a \in Workers |-> read[a]]
  /\ held \in [Files -> Workers \cup {Unlocked}]
  /\ tree = [f \in Files |-> tree[f]]
  /\ trail \in [Files -> Seq(Entry)]

UntouchedIsCommitted ==
  \A f \in Files : trail[f] = <<>> => tree[f] = Committed[f]

\* Entry t is of the call that a is at.
Own(a, t) == t.by = a /\ t.left = Len(program[a])
At2(a, ops, stages) == stage[a] \in stages /\ Call(a).op \in ops

HoldsItsLock(a) ==
  stage[a] # "start" /\ Call(a).op \in Locking => held[Call(a).file] = a

\* What a has written belongs to calls before the one it is at, but for one that
\* writes more than once.
MarksAreOld(a) ==
  \A f \in Files : \A i \in 1..Len(trail[f]) :
    trail[f][i].by = a =>
      /\ trail[f][i].left >= Len(program[a])
      /\ trail[f][i].left = Len(program[a]) => stage[a] \in {"strip", "mend", "undo"}

Excused(f, i) ==
  \E j \in 1..Len(trail[f]) : i < j /\ Excuses(trail[f][j], trail[f][i])
IsEdit(t) == t.op \in {"edit", "patch"}

\* The text of every edit that may not be lost is in the file as a has read it.
HasRead(a) ==
  At2(a, {"edit", "patch"}, {"write", "mend"}) =>
    LET f == Call(a).file IN
    \A i \in 1..Len(trail[f]) :
      IsEdit(trail[f][i]) /\ trail[f][i] # Mark(a) =>
        trail[f][i] \in read[a][f] \/ Excused(f, i)

HasMarked(a) ==
  At2(a, {"patch"}, {"mend"}) =>
    \E i \in 1..Len(trail[Call(a).file]) : trail[Call(a).file][i].op = "patch"

\* All that was written was written by one call that moves or fails.
Quiet ==
  \A f, g \in Files : \A i \in DOMAIN trail[f], j \in DOMAIN trail[g] :
    /\ trail[f][i].op \in {"move", "failed"}
    /\ <<trail[f][i].by, trail[f][i].left>> = <<trail[g][j].by, trail[g][j].left>>

Foreign(a, g) == \E i \in 1..Len(trail[g]) : ~Own(a, trail[g][i])

\* Where a move that nobody has come between has its two functions.
MovesTrue(a) ==
  At2(a, {"move"}, {"write", "strip", "mend", "undo"}) =>
    LET F == Call(a).file
        D == Call(a).dest IN
    /\ F # D
    /\ \A g \in Files : read[a][g] = Committed[g] \/ Foreign(a, g)
    /\ stage[a] # "write" =>
         /\ \E i \in 1..Len(trail[D]) : Own(a, trail[D][i])
         /\ Quiet =>
              /\ \A g \in Files \ {F} : Function(g) \in tree[g]
              /\ stage[a] \in {"strip", "undo"} => Function(F) \in tree[F]
              /\ stage[a] \in {"strip", "mend"} => Function(F) \in tree[D]

AgentIsTrue(a) ==
  HoldsItsLock(a) /\ MarksAreOld(a) /\ HasRead(a) /\ HasMarked(a) /\ MovesTrue(a)

WorkInv ==
  /\ WorkTyped /\ UntouchedIsCommitted /\ (\A a \in Workers : AgentIsTrue(a))
  /\ EditsSurvive /\ MovesKeepText

-----------------------------------------------------------------------------
LEMMA WorkInitial == WorkInit => WorkInv
<1> SUFFICES ASSUME WorkInit PROVE WorkInv
  OBVIOUS
<1>1. \A f \in Files : trail[f] = <<>> /\ Len(trail[f]) = 0 /\ DOMAIN trail[f] = {}
  BY DEF WorkInit
<1>2. WorkTyped
  BY WorkspaceAssumption DEF WorkInit, WorkTyped, WorkStages, Committed
<1>3. UntouchedIsCommitted
  BY DEF WorkInit, UntouchedIsCommitted
<1>4. \A a \in Workers : AgentIsTrue(a)
  BY <1>1 DEF WorkInit, AgentIsTrue, HoldsItsLock, MarksAreOld, HasRead, HasMarked,
              MovesTrue, At2
<1>5. EditsSurvive
  BY <1>1 DEF EditsSurvive
<1>6. MovesKeepText
  <2>1. \A f \in Files : Function(f) \in tree[f]
    BY DEF WorkInit, Committed
  <2> QED BY <2>1 DEF MovesKeepText
<1> QED BY <1>2, <1>3, <1>4, <1>5, <1>6 DEF WorkInv

-----------------------------------------------------------------------------
(* What a step is made of: where its agent goes, and what it adds to a trail.  *)

LEMMA CallTyped ==
  ASSUME WorkTyped, NEW a \in Workers, program[a] # <<>>
  PROVE  /\ Call(a) \in WorkCall
         /\ Call(a).op \in WorkOps /\ Call(a).file \in Files /\ Call(a).dest \in Files
         /\ Len(program[a]) \in Nat \ {0}
         /\ Tail(program[a]) \in Seq(WorkCall)
         /\ Len(Tail(program[a])) = Len(program[a]) - 1
<1>1. program[a] \in Seq(WorkCall)
  BY DEF WorkTyped
<1>2. Call(a) \in WorkCall
  BY <1>1 DEF Call
<1> QED BY <1>1, <1>2 DEF WorkCall

LEMMA EntryTyped ==
  ASSUME WorkTyped, NEW a \in Workers, program[a] # <<>>,
         NEW what \in WorkOps \cup {"failed", "undone", "unmended"}
  PROVE  LET e == Text(what, a, Len(program[a])) IN
         e \in Entry /\ e.op = what /\ e.by = a /\ e.left = Len(program[a])
BY CallTyped DEF Text, Entry

LEMMA Appended ==
  ASSUME WorkTyped, NEW f \in Files, NEW e \in Entry, trail'[f] = Append(trail[f], e)
  PROVE  /\ Len(trail[f]) \in Nat /\ DOMAIN trail[f] = 1..Len(trail[f])
         /\ Len(trail'[f]) = Len(trail[f]) + 1
         /\ DOMAIN trail'[f] = 1..(Len(trail[f]) + 1)
         /\ trail'[f] # <<>> /\ trail'[f][Len(trail[f]) + 1] = e
         /\ \A i \in 1..Len(trail[f]) : trail'[f][i] = trail[f][i]
<1>1. trail[f] \in Seq(Entry)
  BY DEF WorkTyped
<1> QED BY <1>1

LEMMA TrailTyped ==
  ASSUME WorkTyped, NEW f \in Files
  PROVE  /\ Len(trail[f]) \in Nat /\ DOMAIN trail[f] = 1..Len(trail[f])
         /\ trail[f] # <<>> => 1 \in 1..Len(trail[f])
         /\ \A i \in 1..Len(trail[f]) : trail[f][i] \in Entry
<1>1. trail[f] \in Seq(Entry)
  BY DEF WorkTyped
<1> QED BY <1>1

\* A step of a leaves the others where they are and what they hold.
OnlyOf(a) ==
  \A b \in Workers \ {a} :
    /\ program'[b] = program[b] /\ stage'[b] = stage[b] /\ read'[b] = read[b]
    /\ \A f \in Files : held[f] = b => held'[f] = b

\* What it adds to a trail is of the call that a is at, and an edit or the
\* rollback of one only under the lock.
Adds(a, f) ==
  \E e \in Entry :
    /\ trail'[f] = Append(trail[f], e) /\ Own(a, e)
    /\ e.op \in {"edit", "patch", "undone"} => held[f] = a
Grows(a) ==
  \A f \in Files : (trail'[f] = trail[f] /\ tree'[f] = tree[f]) \/ Adds(a, f)

LEMMA GrowsKeeps ==
  ASSUME WorkTyped, NEW a \in Workers, Grows(a), NEW f \in Files
  PROVE  /\ Len(trail'[f]) \in Nat /\ Len(trail[f]) <= Len(trail'[f])
         /\ \A i \in 1..Len(trail[f]) :
              i \in 1..Len(trail'[f]) /\ trail'[f][i] = trail[f][i]
         /\ \A i \in 1..Len(trail[f]) : Excused(f, i) => Excused(f, i)'
         /\ \A i \in 1..Len(trail'[f]) :
              i \in 1..Len(trail[f])
              \/ (i = Len(trail[f]) + 1 /\ Own(a, trail'[f][i]))
<1>1. CASE trail'[f] = trail[f]
  BY <1>1, TrailTyped DEF Excused
<1>2. CASE Adds(a, f)
  <2>1. PICK e \in Entry : trail'[f] = Append(trail[f], e) /\ Own(a, e)
    BY <1>2 DEF Adds
  <2>2. /\ Len(trail[f]) \in Nat /\ Len(trail'[f]) = Len(trail[f]) + 1
        /\ trail'[f][Len(trail[f]) + 1] = e
        /\ \A i \in 1..Len(trail[f]) : trail'[f][i] = trail[f][i]
    BY <2>1, Appended
  <2>3. \A i \in 1..Len(trail[f]) : Excused(f, i) => Excused(f, i)'
    BY <2>2 DEF Excused
  <2> QED BY <2>1, <2>2, <2>3
<1> QED BY <1>1, <1>2 DEF Grows

\* Once somebody else has written, a call is not alone.
LEMMA NotQuiet ==
  ASSUME WorkTyped, NEW f \in Files, NEW g \in Files,
         NEW i \in 1..Len(trail[f]), NEW j \in 1..Len(trail[g]),
         NEW a, Own(a, trail[f][i]), ~Own(a, trail[g][j])
  PROVE  ~Quiet
<1>1. i \in DOMAIN trail[f] /\ j \in DOMAIN trail[g]
  BY TrailTyped
<1>2. <<trail[f][i].by, trail[f][i].left>> # <<trail[g][j].by, trail[g][j].left>>
  BY DEF Own
<1> QED BY <1>1, <1>2 DEF Quiet

LEMMA UntouchedKept ==
  ASSUME WorkTyped, UntouchedIsCommitted, NEW a \in Workers, Grows(a)
  PROVE  UntouchedIsCommitted'
<1> SUFFICES ASSUME NEW f \in Files, trail'[f] = <<>> PROVE tree'[f] = Committed[f]
  BY DEF UntouchedIsCommitted, Committed
<1>1. ~Adds(a, f)
  BY Appended DEF Adds
<1> QED BY <1>1 DEF Grows, UntouchedIsCommitted

(* An agent that takes no step.                                                *)
LEMMA OthersKept ==
  ASSUME WorkInv, WorkTyped', NEW a \in Workers, OnlyOf(a), Grows(a),
         NEW b \in Workers, b # a
  PROVE  AgentIsTrue(b)'
<1> USE DEF WorkInv
<1>f. /\ program'[b] = program[b] /\ stage'[b] = stage[b] /\ read'[b] = read[b]
      /\ Call(b)' = Call(b) /\ Mark(b)' = Mark(b)
      /\ \A f \in Files : held[f] = b => held'[f] = b
  BY DEF OnlyOf, Call, Mark
<1>t. stage[b] # "start" => Call(b).file \in Files /\ Call(b).dest \in Files
  BY CallTyped DEF WorkTyped
<1>o. AgentIsTrue(b)
  OBVIOUS
<1>1. HoldsItsLock(b)'
  BY <1>f, <1>t, <1>o DEF AgentIsTrue, HoldsItsLock
<1>2. MarksAreOld(b)'
  <2> SUFFICES ASSUME NEW f \in Files, NEW i \in 1..Len(trail'[f]), trail'[f][i].by = b
               PROVE  /\ trail'[f][i].left >= Len(program[b])
                      /\ trail'[f][i].left = Len(program[b]) =>
                           stage[b] \in {"strip", "mend", "undo"}
    BY <1>f DEF MarksAreOld
  <2>1. i \in 1..Len(trail[f]) /\ trail'[f][i] = trail[f][i]
    BY GrowsKeeps DEF Own
  <2> QED BY <2>1, <1>o DEF AgentIsTrue, MarksAreOld
<1>3. HasRead(b)'
  <2> SUFFICES ASSUME stage[b] \in {"write", "mend"}, Call(b).op \in {"edit", "patch"}
               PROVE  HasRead(b)'
    BY <1>f DEF HasRead, At2
  <2>1. PICK f \in Files : f = Call(b).file /\ held[f] = b
    BY <1>t, <1>o DEF AgentIsTrue, HoldsItsLock, Locking
  <2> SUFFICES ASSUME NEW i \in 1..Len(trail'[f]),
                      IsEdit(trail'[f][i]), trail'[f][i] # Mark(b)
               PROVE  trail'[f][i] \in read[b][f] \/ Excused(f, i)'
    BY <1>f, <2>1 DEF HasRead, At2, IsEdit
  <2>2. CASE trail'[f] = trail[f]
    <3>1. i \in 1..Len(trail[f])
      BY <2>2
    <3>2. trail[f][i] \in read[b][f] \/ Excused(f, i)
      BY <1>o, <2>1, <2>2, <3>1 DEF AgentIsTrue, HasRead, At2, IsEdit
    <3> QED BY <2>2, <3>1, <3>2, GrowsKeeps
  <2>3. CASE Adds(a, f)
    <3>1. PICK e \in Entry : /\ trail'[f] = Append(trail[f], e)
                             /\ e.op \notin {"edit", "patch", "undone"}
      BY <2>1, <2>3 DEF Adds
    <3>2. /\ Len(trail[f]) \in Nat /\ Len(trail'[f]) = Len(trail[f]) + 1
          /\ trail'[f][Len(trail[f]) + 1] = e
          /\ \A k \in 1..Len(trail[f]) : trail'[f][k] = trail[f][k]
      BY <3>1, Appended
    <3>3. i # Len(trail[f]) + 1
      BY <3>1, <3>2 DEF IsEdit
    <3>4. i < Len(trail[f]) + 1
      BY <3>2, <3>3
    <3>5. Excuses(trail'[f][Len(trail[f]) + 1], trail'[f][i])
      BY <3>1, <3>2 DEF Excuses
    <3>6. Excused(f, i)'
      BY <3>2, <3>4, <3>5 DEF Excused
    <3> QED BY <3>6
  <2> QED BY <2>2, <2>3 DEF Grows
<1>4. HasMarked(b)'
  <2> SUFFICES ASSUME stage[b] = "mend", Call(b).op = "patch"
               PROVE  \E i \in 1..Len(trail'[Call(b).file]) :
                         trail'[Call(b).file][i].op = "patch"
    BY <1>f DEF HasMarked, At2
  <2>1. PICK i \in 1..Len(trail[Call(b).file]) : trail[Call(b).file][i].op = "patch"
    BY <1>o DEF AgentIsTrue, HasMarked, At2
  <2> QED BY <1>t, <2>1, GrowsKeeps
<1>5. MovesTrue(b)'
  <2> SUFFICES ASSUME stage[b] \in {"write", "strip", "mend", "undo"}, Call(b).op = "move"
               PROVE  MovesTrue(b)'
    BY <1>f DEF MovesTrue, At2
  <2> DEFINE F == Call(b).file
             D == Call(b).dest
  <2>1. F \in Files /\ D \in Files
    BY <1>t
  <2>2. /\ F # D
        /\ \A g \in Files : read[b][g] = Committed[g] \/ Foreign(b, g)
        /\ stage[b] # "write" =>
             /\ \E i \in 1..Len(trail[D]) : Own(b, trail[D][i])
             /\ Quiet =>
                  /\ \A g \in Files \ {F} : Function(g) \in tree[g]
                  /\ stage[b] \in {"strip", "undo"} => Function(F) \in tree[F]
                  /\ stage[b] \in {"strip", "mend"} => Function(F) \in tree[D]
    BY <1>o DEF AgentIsTrue, MovesTrue, At2
  <2>3. \A t : Own(b, t)' <=> t.by = b /\ t.left = Len(program[b])
    BY <1>f DEF Own
  <2>4. ASSUME NEW g \in Files PROVE read'[b][g] = Committed[g] \/ Foreign(b, g)'
    <3>1. CASE read[b][g] = Committed[g]
      BY <1>f, <3>1
    <3>2. CASE Foreign(b, g)
      <4>1. PICK i \in 1..Len(trail[g]) : ~Own(b, trail[g][i])
        BY <3>2 DEF Foreign
      <4>2. i \in 1..Len(trail'[g]) /\ trail'[g][i] = trail[g][i]
        BY <4>1, GrowsKeeps
      <4> QED BY <1>f, <4>1, <4>2 DEF Foreign, Own
    <3> QED BY <2>2, <3>1, <3>2
  <2>5. ASSUME stage[b] # "write"
        PROVE  \E i \in 1..Len(trail'[D]) : trail'[D][i].by = b
                                            /\ trail'[D][i].left = Len(program[b])
    <3>1. PICK i \in 1..Len(trail[D]) : Own(b, trail[D][i])
      BY <2>2, <2>5
    <3>2. i \in 1..Len(trail'[D]) /\ trail'[D][i] = trail[D][i]
      BY <2>1, <3>1, GrowsKeeps
    <3> QED BY <3>1, <3>2 DEF Own
  <2>6. ASSUME stage[b] # "write", Quiet'
        PROVE  /\ Quiet
               /\ \A g \in Files : tree'[g] = tree[g]
    <3>1. \A g \in Files : trail'[g] = trail[g] /\ tree'[g] = tree[g]
      <4> SUFFICES ASSUME NEW g \in Files, Adds(a, g) PROVE FALSE
        BY DEF Grows
      <4>1. PICK e \in Entry : trail'[g] = Append(trail[g], e) /\ Own(a, e)
        BY DEF Adds
      <4>2. /\ Len(trail[g]) + 1 \in DOMAIN trail'[g]
            /\ trail'[g][Len(trail[g]) + 1].by = a
        BY <4>1, Appended DEF Own
      <4>3. PICK i \in 1..Len(trail'[D]) : trail'[D][i].by = b
        BY <2>5, <2>6
      <4>4. i \in DOMAIN trail'[D]
        <5>1. trail'[D] \in Seq(Entry)
          BY <2>1 DEF WorkTyped
        <5> QED BY <5>1
      <4>5. <<trail'[D][i].by, trail'[D][i].left>>
              = <<trail'[g][Len(trail[g]) + 1].by, trail'[g][Len(trail[g]) + 1].left>>
        BY <2>1, <2>6, <4>2, <4>4 DEF Quiet
      <4> QED BY <4>2, <4>3, <4>5
    <3>2. Quiet
      BY <2>6, <3>1 DEF Quiet
    <3> QED BY <3>1, <3>2
  <2> QED BY <1>f, <2>1, <2>2, <2>3, <2>4, <2>5, <2>6 DEF MovesTrue, At2
<1> QED BY <1>1, <1>2, <1>3, <1>4, <1>5 DEF AgentIsTrue

-----------------------------------------------------------------------------
(* Where the agent of a step goes. *)

LEMMA GotoIs ==
  ASSUME WorkTyped, NEW a \in Workers, program[a] # <<>>, NEW s \in WorkStages,
         Goto(a, s)
  PROVE  /\ program' = program /\ held' = held /\ stage'[a] = s
         /\ Call(a)' = Call(a) /\ Mark(a)' = Mark(a)
         /\ stage' \in [Workers -> WorkStages]
         /\ \A b \in Workers : stage'[b] # "start" => program'[b] # <<>>
         /\ \A b \in Workers \ {a} : stage'[b] = stage[b]
BY DEF Goto, WorkTyped, Call, Mark

LEMMA EndIs ==
  ASSUME WorkTyped, NEW a \in Workers, program[a] # <<>>, EndCall(a)
  PROVE  /\ stage'[a] = "start" /\ Len(program'[a]) = Len(program[a]) - 1
         /\ program' \in [Workers -> Seq(WorkCall)]
         /\ stage' \in [Workers -> WorkStages]
         /\ held' \in [Files -> Workers \cup {Unlocked}]
         /\ \A b \in Workers : stage'[b] # "start" => program'[b] # <<>>
         /\ \A b \in Workers \ {a} :
              /\ program'[b] = program[b] /\ stage'[b] = stage[b]
              /\ \A f \in Files : held[f] = b => held'[f] = b
<1>1. /\ program' = [program EXCEPT ![a] = Tail(program[a])]
      /\ stage' = [stage EXCEPT ![a] = "start"]
      /\ held' = [f \in Files |-> IF held[f] = a THEN Unlocked ELSE held[f]]
  BY DEF EndCall, WorkTyped
<1>2. Tail(program[a]) \in Seq(WorkCall) /\ Len(Tail(program[a])) = Len(program[a]) - 1
  BY CallTyped
<1>3. program' \in [Workers -> Seq(WorkCall)] /\ stage' \in [Workers -> WorkStages]
  BY <1>1, <1>2 DEF WorkTyped, WorkStages
<1> QED BY <1>1, <1>2, <1>3 DEF WorkTyped

LEMMA EndAgent ==
  ASSUME WorkInv, NEW a \in Workers, program[a] # <<>>, EndCall(a), Grows(a)
  PROVE  AgentIsTrue(a)'
<1>1. stage'[a] = "start" /\ Len(program'[a]) = Len(program[a]) - 1
      /\ Len(program[a]) \in Nat
  BY EndIs, CallTyped DEF WorkInv
<1>2. MarksAreOld(a)'
  <2> SUFFICES ASSUME NEW f \in Files, NEW i \in 1..Len(trail'[f]), trail'[f][i].by = a
               PROVE  /\ trail'[f][i].left >= Len(program'[a])
                      /\ trail'[f][i].left # Len(program'[a])
    BY DEF MarksAreOld
  <2>1. CASE i \in 1..Len(trail[f])
    <3>1. trail'[f][i] = trail[f][i] /\ trail[f][i].left \in Nat
      BY <2>1, GrowsKeeps, TrailTyped DEF WorkInv, Entry
    <3>2. trail[f][i].left >= Len(program[a])
      BY <2>1, <3>1 DEF WorkInv, AgentIsTrue, MarksAreOld
    <3> QED BY <1>1, <3>1, <3>2
  <2>2. CASE Own(a, trail'[f][i])
    BY <1>1, <2>2 DEF Own
  <2> QED BY <2>1, <2>2, GrowsKeeps DEF WorkInv
<1> QED BY <1>1, <1>2 DEF AgentIsTrue, HoldsItsLock, HasRead, HasMarked, MovesTrue, At2

\* An agent that goes on in its call, from a stage to a later one.
LEMMA GotoMarks ==
  ASSUME WorkInv, NEW a \in Workers, program[a] # <<>>, Grows(a),
         program' = program,
         stage[a] \in {"strip", "mend", "undo"}
           \/ (\A f \in Files : trail'[f] = trail[f])
           \/ stage'[a] \in {"strip", "mend", "undo"},
         stage[a] \in {"strip", "mend", "undo"} => stage'[a] \in {"strip", "mend", "undo"}
  PROVE  MarksAreOld(a)'
<1> SUFFICES ASSUME NEW f \in Files, NEW i \in 1..Len(trail'[f]), trail'[f][i].by = a
             PROVE  /\ trail'[f][i].left >= Len(program[a])
                    /\ trail'[f][i].left = Len(program[a]) =>
                         stage'[a] \in {"strip", "mend", "undo"}
  BY DEF MarksAreOld
<1>1. CASE i \in 1..Len(trail[f])
  <2>1. trail'[f][i] = trail[f][i]
    BY <1>1, GrowsKeeps DEF WorkInv
  <2> QED BY <1>1, <2>1 DEF WorkInv, AgentIsTrue, MarksAreOld
<1>2. CASE i \notin 1..Len(trail[f])
  <2>1. Own(a, trail'[f][i]) /\ trail'[f] # trail[f]
    BY <1>2, GrowsKeeps DEF WorkInv
  <2>2. Len(program[a]) \in Nat
    BY CallTyped DEF WorkInv
  <2> QED BY <2>1, <2>2 DEF Own
<1> QED BY <1>1, <1>2

-----------------------------------------------------------------------------
(* What a write does to the properties. *)

Filled(f, e, content) ==
  /\ trail'[f] = Append(trail[f], e) /\ tree'[f] = content
  /\ \A g \in Files \ {f} : trail'[g] = trail[g] /\ tree'[g] = tree[g]

LEMMA FillsIs ==
  ASSUME WorkTyped, NEW f \in Files, NEW e \in Entry, NEW content,
         Fills(f, content, Append(trail[f], e))
  PROVE  /\ Filled(f, e, content) /\ read' = read
         /\ trail' \in [Files -> Seq(Entry)] /\ tree' = [g \in Files |-> tree'[g]]
<1>1. trail[f] \in Seq(Entry) /\ Append(trail[f], e) \in Seq(Entry)
  BY DEF WorkTyped
<1>2. /\ trail' = [trail EXCEPT ![f] = Append(trail[f], e)]
      /\ tree' = [tree EXCEPT ![f] = content] /\ read' = read
  BY DEF Fills
<1>3. tree' = [g \in Files |-> IF g = f THEN content ELSE tree[g]]
  BY <1>2 DEF WorkTyped
<1>4. trail' \in [Files -> Seq(Entry)]
  BY <1>1, <1>2 DEF WorkTyped
<1>5. Filled(f, e, content)
  BY <1>2, <1>3 DEF Filled, WorkTyped
<1>6. tree' = [g \in Files |-> tree'[g]]
  BY <1>3
<1> QED BY <1>2, <1>4, <1>5, <1>6

LEMMA FilledGrows ==
  ASSUME NEW a \in Workers, NEW f \in Files, NEW e \in Entry, NEW content,
         Filled(f, e, content), Own(a, e),
         e.op \in {"edit", "patch", "undone"} => held[f] = a
  PROVE  Grows(a)
BY DEF Filled, Grows, Adds

LEMMA FilledSurvives ==
  ASSUME WorkTyped, EditsSurvive, NEW f \in Files, NEW e \in Entry, NEW content,
         Filled(f, e, content),
         \A i \in 1..Len(trail[f]) : IsEdit(trail[f][i]) =>
           trail[f][i] \in content \/ Excused(f, i) \/ Excuses(e, trail[f][i]),
         IsEdit(e) => e \in content
  PROVE  EditsSurvive'
<1> SUFFICES ASSUME NEW g \in Files, NEW i \in DOMAIN trail'[g],
                    IsEdit(trail'[g][i]), trail'[g][i] \notin tree'[g]
             PROVE  \E j \in DOMAIN trail'[g] :
                      i < j /\ Excuses(trail'[g][j], trail'[g][i])
  BY DEF EditsSurvive, IsEdit, Excuses
<1>1. CASE g # f
  BY <1>1 DEF Filled, EditsSurvive, IsEdit
<1>2. CASE g = f
  <2>1. /\ Len(trail[f]) \in Nat /\ DOMAIN trail'[f] = 1..(Len(trail[f]) + 1)
        /\ trail'[f][Len(trail[f]) + 1] = e
        /\ \A k \in 1..Len(trail[f]) : trail'[f][k] = trail[f][k]
    BY Appended DEF Filled
  <2>2. i \in 1..Len(trail[f])
    BY <1>2, <2>1 DEF Filled
  <2>3. Excused(f, i) \/ Excuses(e, trail[f][i])
    BY <1>2, <2>1, <2>2 DEF Filled
  <2>4. CASE Excuses(e, trail[f][i])
    <3>1. Len(trail[f]) + 1 \in DOMAIN trail'[f] /\ i < Len(trail[f]) + 1
      BY <2>1, <2>2
    <3>2. Excuses(trail'[f][Len(trail[f]) + 1], trail'[f][i])
      BY <2>1, <2>2, <2>4
    <3> QED BY <1>2, <3>1, <3>2
  <2>5. CASE Excused(f, i)
    <3>1. PICK j \in 1..Len(trail[f]) : i < j /\ Excuses(trail[f][j], trail[f][i])
      BY <2>5 DEF Excused
    <3>2. j \in DOMAIN trail'[f] /\ Excuses(trail'[f][j], trail'[f][i])
      BY <2>1, <2>2, <3>1
    <3> QED BY <1>2, <3>1, <3>2
  <2> QED BY <2>3, <2>4, <2>5
<1> QED BY <1>1, <1>2

\* A call that is neither an edit nor the rollback of one excuses all before it.
LEMMA OthersExcuse ==
  ASSUME WorkTyped, EditsSurvive, NEW f \in Files, NEW e \in Entry, NEW content,
         Filled(f, e, content), e.op \notin {"edit", "patch", "undone"}
  PROVE  EditsSurvive'
BY FilledSurvives DEF Excuses, IsEdit

\* If all that is written is still of one call that moves or fails, the call that
\* has just written is the one, and it was so before.
LEMMA StillQuiet ==
  ASSUME WorkTyped, NEW a \in Workers, NEW f \in Files, NEW e \in Entry, NEW content,
         Filled(f, e, content), Own(a, e), Quiet'
  PROVE  /\ Quiet /\ e.op \in {"move", "failed"}
         /\ \A g \in Files : ~Foreign(a, g)
         /\ \A g \in Files : \A i \in 1..Len(trail[g]) : trail[g][i].op \in {"move", "failed"}
<1>1. /\ Len(trail[f]) \in Nat /\ DOMAIN trail'[f] = 1..(Len(trail[f]) + 1)
      /\ trail'[f][Len(trail[f]) + 1] = e
      /\ \A k \in 1..Len(trail[f]) : trail'[f][k] = trail[f][k]
  BY Appended DEF Filled
<1>2. ASSUME NEW g \in Files, NEW i \in 1..Len(trail[g])
      PROVE  i \in DOMAIN trail[g] /\ i \in DOMAIN trail'[g] /\ trail'[g][i] = trail[g][i]
  BY <1>1, TrailTyped DEF Filled
<1>3. e.op \in {"move", "failed"}
  BY <1>1 DEF Quiet
<1>4. ASSUME NEW g \in Files, NEW i \in 1..Len(trail[g])
      PROVE  Own(a, trail[g][i]) /\ trail[g][i].op \in {"move", "failed"}
  <2>1. Len(trail[f]) + 1 \in DOMAIN trail'[f]
    BY <1>1
  <2>2. /\ trail'[g][i].op \in {"move", "failed"}
        /\ <<trail'[g][i].by, trail'[g][i].left>>
             = <<trail'[f][Len(trail[f]) + 1].by, trail'[f][Len(trail[f]) + 1].left>>
    BY <1>2, <1>4, <2>1 DEF Quiet
  <2> QED BY <1>1, <1>2, <1>4, <2>2 DEF Own
<1>5. Quiet
  <2>d. \A g \in Files : DOMAIN trail[g] = 1..Len(trail[g])
    BY TrailTyped
  <2> SUFFICES ASSUME NEW g \in Files, NEW h \in Files,
                      NEW i \in 1..Len(trail[g]), NEW j \in 1..Len(trail[h])
               PROVE  /\ trail[g][i].op \in {"move", "failed"}
                      /\ <<trail[g][i].by, trail[g][i].left>>
                           = <<trail[h][j].by, trail[h][j].left>>
    BY <2>d DEF Quiet
  <2>1. Own(a, trail[g][i]) /\ trail[g][i].op \in {"move", "failed"}
    BY <1>4
  <2>2. Own(a, trail[h][j])
    BY <1>4
  <2> QED BY <2>1, <2>2 DEF Own
<1> QED BY <1>3, <1>4, <1>5 DEF Foreign

\* A call that has not written yet is then the first to write.
LEMMA FirstToWrite ==
  ASSUME WorkInv, NEW a \in Workers, stage[a] \notin {"strip", "mend", "undo"},
         \A g \in Files : ~Foreign(a, g)
  PROVE  \A g \in Files : tree[g] = Committed[g]
<1> SUFFICES ASSUME NEW g \in Files, trail[g] # <<>> PROVE FALSE
  BY DEF WorkInv, UntouchedIsCommitted
<1>1. 1 \in 1..Len(trail[g])
  BY TrailTyped DEF WorkInv
<1>2. Own(a, trail[g][1])
  BY <1>1 DEF Foreign
<1> QED BY <1>1, <1>2 DEF WorkInv, AgentIsTrue, MarksAreOld, Own

\* Function(g) is somewhere, or a failed write has cut its file off.
Kept(g) ==
  \/ \E h \in Files : Function(g) \in tree[h]
  \/ \E i \in DOMAIN trail[g] : trail[g][i].op = "failed"

LEMMA KeptIs == MovesKeepText <=> (Quiet => \A g \in Files : Kept(g))
BY DEF MovesKeepText, Quiet, Kept

\* A first write that is cut off loses what was in its own file only.
LEMMA FirstCutOff ==
  ASSUME WorkInv, NEW a \in Workers, stage[a] \notin {"strip", "mend", "undo"},
         NEW f \in Files, NEW e \in Entry, NEW content, Filled(f, e, content),
         Own(a, e), e.op = "failed"
  PROVE  MovesKeepText'
<1> SUFFICES ASSUME Quiet', NEW g \in Files PROVE Kept(g)'
  BY KeptIs DEF MovesKeepText, Quiet, Kept
<1>1. tree[g] = Committed[g]
  BY StillQuiet, FirstToWrite DEF WorkInv
<1>2. CASE g = f
  <2>1. Len(trail[f]) + 1 \in DOMAIN trail'[f] /\ trail'[f][Len(trail[f]) + 1] = e
    BY Appended DEF Filled, WorkInv
  <2> QED BY <1>2, <2>1 DEF Kept
<1>3. CASE g # f
  <2>1. Function(g) \in tree'[g]
    BY <1>1, <1>3 DEF Filled, Committed
  <2> QED BY <2>1 DEF Kept, Function, Text
<1> QED BY <1>2, <1>3

LEMMA StepKeeps ==
  ASSUME WorkInv, NEW a \in Workers, WorkTyped', OnlyOf(a), Grows(a),
         AgentIsTrue(a)', EditsSurvive', MovesKeepText'
  PROVE  WorkInv'
BY OthersKept, UntouchedKept DEF WorkInv

LEMMA NothingWritten ==
  ASSUME WorkInv, NEW a \in Workers, UNCHANGED <<tree, trail>>
  PROVE  Grows(a) /\ EditsSurvive' /\ MovesKeepText' /\ Quiet' = Quiet
BY DEF WorkInv, Grows, EditsSurvive, MovesKeepText, Quiet, Excuses

-----------------------------------------------------------------------------
(* The steps. *)

LEMMA LockKeeps == ASSUME WorkInv, NEW a \in Workers, Lock(a) PROVE WorkInv'
<1>1. /\ program[a] # <<>> /\ stage[a] = "start" /\ held[Call(a).file] = Unlocked
      /\ held' = [held EXCEPT ![Call(a).file] = a]
      /\ stage' = [stage EXCEPT ![a] = "locked"]
      /\ UNCHANGED <<program, read, tree, trail>>
  BY DEF Lock, At
<1>t. WorkTyped /\ Call(a).file \in Files
  BY <1>1, CallTyped DEF WorkInv
<1>2. WorkTyped'
  BY <1>1, <1>t DEF WorkTyped, WorkStages
<1>3. OnlyOf(a)
  BY <1>1, <1>t, WorkspaceAssumption DEF OnlyOf, WorkTyped
<1>4. Grows(a) /\ EditsSurvive' /\ MovesKeepText'
  BY <1>1, NothingWritten
<1>5. stage'[a] = "locked" /\ Call(a)' = Call(a) /\ held'[Call(a).file] = a
  BY <1>1, <1>t DEF WorkTyped, Call
<1>6. MarksAreOld(a)'
  BY <1>1, <1>4, GotoMarks
<1>7. AgentIsTrue(a)'
  BY <1>5, <1>6 DEF AgentIsTrue, HoldsItsLock, HasRead, HasMarked, MovesTrue, At2
<1> QED BY <1>2, <1>3, <1>4, <1>7, StepKeeps

LEMMA LookKeeps == ASSUME WorkInv, NEW a \in Workers, Look(a) PROVE WorkInv'
<1> DEFINE F == Call(a).file
<1>1. /\ program[a] # <<>> /\ stage[a] \in {"start", "locked"}
      /\ read' = [read EXCEPT ![a] = tree] /\ UNCHANGED <<tree, trail>>
      /\ stage[a] = "start" => Call(a).op = "rename"
  BY DEF Look, At
<1>t. WorkTyped /\ F \in Files
  BY <1>1, CallTyped DEF WorkInv
<1>2. read'[a] = tree /\ read' = [b \in Workers |-> read'[b]]
      /\ \A b \in Workers \ {a} : read'[b] = read[b]
  BY <1>1, <1>t DEF WorkTyped
<1>3. Grows(a) /\ EditsSurvive' /\ MovesKeepText' /\ Quiet' = Quiet
  BY <1>1, NothingWritten
<1>4. CASE EndCall(a)
  <2>1. WorkTyped' /\ OnlyOf(a)
    BY <1>1, <1>2, <1>4, <1>t, EndIs DEF WorkTyped, OnlyOf
  <2>2. AgentIsTrue(a)'
    BY <1>1, <1>3, <1>4, EndAgent
  <2> QED BY <1>3, <2>1, <2>2, StepKeeps
<1>5. CASE ~IntoItself(a) /\ Goto(a, "write")
  <2>1. /\ program' = program /\ held' = held /\ stage'[a] = "write"
        /\ Call(a)' = Call(a) /\ Mark(a)' = Mark(a)
        /\ stage' \in [Workers -> WorkStages]
        /\ \A b \in Workers : stage'[b] # "start" => program'[b] # <<>>
        /\ \A b \in Workers \ {a} : stage'[b] = stage[b]
    BY <1>1, <1>5, <1>t, GotoIs DEF WorkStages
  <2>2. WorkTyped' /\ OnlyOf(a)
    BY <1>1, <1>2, <1>t, <2>1 DEF WorkTyped, OnlyOf
  <2>3. HoldsItsLock(a)'
    BY <1>1, <2>1 DEF HoldsItsLock, WorkInv, AgentIsTrue, Locking
  <2>4. MarksAreOld(a)'
    BY <1>1, <1>3, <2>1, GotoMarks
  <2>5. HasRead(a)'
    <3> SUFFICES ASSUME NEW i \in 1..Len(trail[F]), IsEdit(trail[F][i])
                 PROVE  trail[F][i] \in tree[F] \/ Excused(F, i)
      BY <1>1, <1>2, <2>1 DEF HasRead, At2, IsEdit, Excused, Excuses
    <3>1. DOMAIN trail[F] = 1..Len(trail[F])
      BY <1>t, TrailTyped
    <3> QED BY <1>t, <3>1 DEF WorkInv, EditsSurvive, IsEdit, Excused
  <2>6. HasMarked(a)' /\ stage'[a] \notin {"strip", "mend", "undo"}
    BY <2>1 DEF HasMarked, At2
  <2>7. MovesTrue(a)'
    <3>1. ASSUME NEW g \in Files PROVE tree[g] = Committed[g] \/ Foreign(a, g)
      <4> SUFFICES ASSUME ~Foreign(a, g), trail[g] # <<>> PROVE FALSE
        BY DEF WorkInv, UntouchedIsCommitted
      <4>1. 1 \in 1..Len(trail[g])
        BY <1>t, TrailTyped
      <4>2. Own(a, trail[g][1])
        BY <4>1 DEF Foreign
      <4> QED BY <1>1, <4>1, <4>2 DEF WorkInv, AgentIsTrue, MarksAreOld, Own
    <3>2. \A g \in Files : Foreign(a, g)' <=> Foreign(a, g)
      BY <1>1, <2>1 DEF Foreign, Own
    <3>3. \A g \in Files : Committed'[g] = Committed[g]
      BY DEF Committed
    <3> QED BY <1>2, <1>5, <2>1, <3>1, <3>2, <3>3 DEF MovesTrue, At2, IntoItself
  <2>8. AgentIsTrue(a)'
    BY <2>3, <2>4, <2>5, <2>6, <2>7 DEF AgentIsTrue
  <2> QED BY <1>3, <2>2, <2>8, StepKeeps
<1> QED BY <1>4, <1>5 DEF Look

\* A call that writes one file and is then over.
LEMMA WriteAndEnd ==
  ASSUME WorkInv, NEW a \in Workers, program[a] # <<>>, EndCall(a),
         NEW f \in Files, NEW e \in Entry, Own(a, e), NEW content,
         Fills(f, content, Append(trail[f], e)),
         e.op \in {"edit", "patch", "undone"} => held[f] = a,
         EditsSurvive', MovesKeepText'
  PROVE  WorkInv'
<1>1. WorkTyped
  BY DEF WorkInv
<1>2. /\ Filled(f, e, content) /\ read' = read
      /\ trail' \in [Files -> Seq(Entry)] /\ tree' = [g \in Files |-> tree'[g]]
  BY <1>1, FillsIs
<1>3. Grows(a)
  BY <1>2, FilledGrows
<1>4. WorkTyped' /\ OnlyOf(a)
  BY <1>1, <1>2, EndIs DEF WorkTyped, OnlyOf
<1>5. AgentIsTrue(a)'
  BY <1>3, EndAgent
<1> QED BY <1>3, <1>4, <1>5, StepKeeps

\* An edit, or the rollback of one, in the file that it has read under its lock.
LEMMA EditSurvives ==
  ASSUME WorkInv, NEW a \in Workers, program[a] # <<>>,
         At2(a, {"edit", "patch"}, {"write", "mend"}),
         NEW e \in Entry, NEW content, Filled(Call(a).file, e, content), Own(a, e),
         read[a][Call(a).file] \subseteq content,
         \/ e = Mark(a) /\ e \in content
         \/ e.op = "undone"
  PROVE  EditsSurvive'
<1> DEFINE f == Call(a).file
<1>1. WorkTyped /\ EditsSurvive /\ f \in Files
  BY CallTyped DEF WorkInv
<1>2. ASSUME NEW i \in 1..Len(trail[f]), IsEdit(trail[f][i])
      PROVE  trail[f][i] \in content \/ Excused(f, i) \/ Excuses(e, trail[f][i])
  <2>1. CASE trail[f][i] # Mark(a)
    BY <1>2, <2>1 DEF WorkInv, AgentIsTrue, HasRead
  <2>2. CASE trail[f][i] = Mark(a) /\ e = Mark(a) /\ e \in content
    BY <2>2
  <2>3. CASE trail[f][i] = Mark(a) /\ e.op = "undone"
    BY <2>3 DEF Excuses, Own, Mark, Text
  <2> QED BY <2>1, <2>2, <2>3
<1>3. IsEdit(e) => e \in content
  BY DEF IsEdit
<1> HIDE DEF f
<1>4. Filled(f, e, content)
  BY DEF f
<1> QED BY <1>1, <1>2, <1>3, <1>4, FilledSurvives

LEMMA ReplaceKeeps == ASSUME WorkInv, NEW a \in Workers, Replace(a) PROVE WorkInv'
<1>f. PICK f \in Files : f = Call(a).file
  BY CallTyped DEF Replace, At, WorkInv
<1> DEFINE e == Mark(a)
           content == read[a][f] \cup {e}
<1>1. /\ program[a] # <<>> /\ stage[a] = "write" /\ Call(a).op \in Editing
      /\ Fills(f, content, Append(trail[f], e))
      /\ EndCall(a) \/ (Call(a).op = "patch" /\ Goto(a, "mend"))
  BY <1>f DEF Replace, At, Put
<1>2. WorkTyped /\ f \in Files /\ e \in Entry /\ Own(a, e) /\ e.op = Call(a).op
  BY <1>1, CallTyped, EntryTyped DEF WorkInv, Mark, Own
<1>3. e.op \in {"edit", "patch", "undone"} => held[f] = a
  <2>1. e.op \in {"edit", "patch", "undone"} => Call(a).op \in Locking
    BY <1>1, <1>2 DEF Locking, Editing
  <2> QED BY <1>f, <1>1, <2>1 DEF WorkInv, AgentIsTrue, HoldsItsLock
<1> HIDE DEF content
<1>4. /\ Filled(f, e, content) /\ read' = read
      /\ trail' \in [Files -> Seq(Entry)] /\ tree' = [g \in Files |-> tree'[g]]
  BY <1>1, <1>2, FillsIs
<1>5. EditsSurvive'
  <2>1. CASE Call(a).op = "rename"
    <3>1. e.op \notin {"edit", "patch", "undone"}
      BY <1>2, <2>1
    <3> QED BY <1>2, <1>4, <3>1, OthersExcuse DEF WorkInv
  <2>2. CASE Call(a).op \in {"edit", "patch"}
    BY <1>f, <1>1, <1>2, <1>4, <2>2, EditSurvives DEF At2, content
  <2> QED BY <1>1, <2>1, <2>2 DEF Editing
<1>6. e.op \notin {"move", "failed"}
  BY <1>1, <1>2 DEF Editing
<1>7. ~Quiet'
  BY <1>2, <1>4, <1>6, StillQuiet
<1>8. MovesKeepText'
  BY <1>7 DEF MovesKeepText, Quiet
<1>9. Grows(a)
  BY <1>2, <1>3, <1>4, FilledGrows
<1>10. CASE EndCall(a)
  BY <1>1, <1>2, <1>3, <1>5, <1>8, <1>10, WriteAndEnd
<1>11. CASE Call(a).op = "patch" /\ Goto(a, "mend")
  <2>1. /\ program' = program /\ held' = held /\ stage'[a] = "mend"
        /\ Call(a)' = Call(a) /\ Mark(a)' = Mark(a)
        /\ stage' \in [Workers -> WorkStages]
        /\ \A b \in Workers : stage'[b] # "start" => program'[b] # <<>>
        /\ \A b \in Workers \ {a} : stage'[b] = stage[b]
    BY <1>1, <1>2, <1>11, GotoIs DEF WorkStages
  <2>2. WorkTyped' /\ OnlyOf(a)
    BY <1>2, <1>4, <2>1 DEF WorkTyped, OnlyOf
  <2>3. HoldsItsLock(a)' /\ MovesTrue(a)'
    BY <1>f, <1>1, <1>11, <2>1 DEF HoldsItsLock, WorkInv, AgentIsTrue, MovesTrue, At2
  <2>4. MarksAreOld(a)'
    BY <1>1, <1>9, <2>1, GotoMarks
  <2>5. /\ Len(trail[f]) \in Nat /\ Len(trail'[f]) = Len(trail[f]) + 1
        /\ trail'[f][Len(trail[f]) + 1] = e
        /\ \A k \in 1..Len(trail[f]) : trail'[f][k] = trail[f][k]
    BY <1>2, <1>4, Appended DEF Filled
  <2>6. HasRead(a)'
    <3> SUFFICES ASSUME NEW i \in 1..Len(trail'[f]), IsEdit(trail'[f][i]),
                        trail'[f][i] # e
                 PROVE  trail'[f][i] \in read[a][f] \/ Excused(f, i)'
      BY <1>f, <1>4, <2>1 DEF HasRead, At2, IsEdit
    <3>1. i \in 1..Len(trail[f]) /\ trail'[f][i] = trail[f][i]
      BY <2>5
    <3>2. trail[f][i] \in read[a][f] \/ Excused(f, i)
      BY <1>f, <1>1, <1>11, <3>1 DEF WorkInv, AgentIsTrue, HasRead, At2, IsEdit
    <3>3. Excused(f, i) => Excused(f, i)'
      BY <1>2, <1>9, <3>1, GrowsKeeps
    <3> QED BY <3>1, <3>2, <3>3
  <2>7. HasMarked(a)'
    <3>1. e.op = "patch" /\ Len(trail[f]) + 1 \in 1..Len(trail'[f])
      BY <1>2, <1>11, <2>5
    <3> QED BY <1>f, <2>1, <2>5, <3>1 DEF HasMarked, At2
  <2>8. AgentIsTrue(a)'
    BY <2>3, <2>4, <2>6, <2>7 DEF AgentIsTrue
  <2> QED BY <1>5, <1>8, <1>9, <2>2, <2>8, StepKeeps
<1> QED BY <1>1, <1>10, <1>11

\* A call that is over without having written.
LEMMA IdleEnd ==
  ASSUME WorkInv, NEW a \in Workers, program[a] # <<>>, EndCall(a),
         UNCHANGED <<read, tree, trail>>
  PROVE  WorkInv'
<1>1. Grows(a) /\ EditsSurvive' /\ MovesKeepText'
  BY NothingWritten
<1>2. WorkTyped' /\ OnlyOf(a)
  BY EndIs DEF WorkInv, WorkTyped, OnlyOf
<1>3. AgentIsTrue(a)'
  BY <1>1, EndAgent
<1> QED BY <1>1, <1>2, <1>3, StepKeeps

\* After any other entry than those of moves and failures nothing is promised of
\* the functions.
LEMMA Loud ==
  ASSUME WorkTyped, NEW a \in Workers, NEW f \in Files, NEW e \in Entry, NEW content,
         Filled(f, e, content), Own(a, e), e.op \notin {"move", "failed"}
  PROVE  MovesKeepText'
<1>1. ~Quiet'
  BY StillQuiet
<1> QED BY <1>1 DEF MovesKeepText, Quiet

LEMMA RollBackKeeps == ASSUME WorkInv, NEW a \in Workers, RollBack(a) PROVE WorkInv'
<1>f. PICK f \in Files : f = Call(a).file
  BY CallTyped DEF RollBack, At, WorkInv
<1>1. /\ program[a] # <<>> /\ stage[a] = "mend" /\ Call(a).op = "patch" /\ EndCall(a)
      /\ Botches(a, f, read[a][f], "undone") \/ CutOff(a, f, "failed")
  BY <1>f DEF RollBack, At
<1>2. WorkTyped /\ held[f] = a
  BY <1>f, <1>1 DEF WorkInv, AgentIsTrue, HoldsItsLock, Locking
<1>3. CASE Botches(a, f, read[a][f], "undone")
  <2> DEFINE e == Text("undone", a, Len(program[a]))
  <2>1. e \in Entry /\ Own(a, e) /\ e.op = "undone"
    BY <1>1, <1>2, EntryTyped DEF Own
  <2> HIDE DEF e
  <2>2. Fills(f, read[a][f], Append(trail[f], e))
    BY <1>3 DEF Botches, e
  <2>3. Filled(f, e, read[a][f])
    BY <1>2, <2>1, <2>2, FillsIs
  <2>4. EditsSurvive'
    BY <1>f, <1>1, <2>1, <2>3, EditSurvives DEF At2
  <2>5. MovesKeepText'
    BY <1>2, <2>1, <2>3, Loud
  <2> QED BY <1>1, <1>2, <2>1, <2>2, <2>4, <2>5, WriteAndEnd
<1>4. CASE CutOff(a, f, "failed")
  <2> DEFINE e == Text("failed", a, Len(program[a]))
  <2>1. e \in Entry /\ Own(a, e) /\ e.op = "failed"
    BY <1>1, <1>2, EntryTyped DEF Own
  <2> HIDE DEF e
  <2>2. Fills(f, {}, Append(trail[f], e))
    BY <1>4 DEF CutOff, Botches, e
  <2>3. Filled(f, e, {})
    BY <1>2, <2>1, <2>2, FillsIs
  <2>4. EditsSurvive'
    BY <2>1, <2>3, OthersExcuse DEF WorkInv
  <2>5. ~Quiet'
    <3>1. PICK i \in 1..Len(trail[f]) : trail[f][i].op = "patch"
      BY <1>f, <1>1 DEF WorkInv, AgentIsTrue, HasMarked, At2
    <3>2. trail[f][i].op \notin {"move", "failed"}
      BY <3>1
    <3> QED BY <1>2, <2>1, <2>3, <3>2, StillQuiet
  <2>6. MovesKeepText'
    BY <2>5 DEF MovesKeepText, Quiet
  <2> QED BY <1>1, <1>2, <2>1, <2>2, <2>4, <2>6, WriteAndEnd
<1> QED BY <1>1, <1>3, <1>4

LEMMA OverwriteKeeps == ASSUME WorkInv, NEW a \in Workers, Overwrite(a) PROVE WorkInv'
<1>f. PICK f \in Files : f = Call(a).file
  BY CallTyped DEF Overwrite, At, WorkInv
<1> DEFINE e == Mark(a)
<1>1. /\ program[a] # <<>> /\ Call(a).op = "write" /\ EndCall(a)
      /\ Fills(f, {e}, Append(trail[f], e))
  BY <1>f DEF Overwrite, At, Put
<1>2. e \in Entry /\ Own(a, e) /\ e.op = "write"
  BY <1>1, CallTyped, EntryTyped DEF WorkInv, Mark, Own
<1> HIDE DEF e
<1>3. Filled(f, e, {e})
  BY <1>1, <1>2, FillsIs DEF WorkInv
<1>4. EditsSurvive' /\ MovesKeepText'
  BY <1>2, <1>3, OthersExcuse, Loud DEF WorkInv
<1> QED BY <1>1, <1>2, <1>4, WriteAndEnd

\* The files that a move is about, and where its functions are.
LEMMA MoveIs ==
  ASSUME WorkInv, NEW a \in Workers, program[a] # <<>>,
         At2(a, {"move"}, {"write", "strip", "mend", "undo"})
  PROVE  \E F, D \in Files :
           /\ F = Call(a).file /\ D = Call(a).dest /\ F # D
           /\ \A g \in Files : read[a][g] = Committed[g] \/ Foreign(a, g)
           /\ stage[a] # "write" =>
                /\ \E i \in 1..Len(trail[D]) : Own(a, trail[D][i])
                /\ Quiet =>
                     /\ \A g \in Files \ {F} : Function(g) \in tree[g]
                     /\ stage[a] \in {"strip", "undo"} => Function(F) \in tree[F]
                     /\ stage[a] \in {"strip", "mend"} => Function(F) \in tree[D]
<1>1. Call(a).file \in Files /\ Call(a).dest \in Files
  BY CallTyped DEF WorkInv
<1>2. MovesTrue(a)
  BY DEF WorkInv, AgentIsTrue
<1> QED BY <1>1, <1>2 DEF MovesTrue

LEMMA WriteFailsKeeps ==
  ASSUME WorkInv, NEW a \in Workers, WriteFails(a) PROVE WorkInv'
<1>1. /\ program[a] # <<>> /\ EndCall(a)
      /\ stage[a] \notin {"mend", "undo"} /\ (stage[a] = "strip" => Call(a).op = "move")
  BY DEF WriteFails, At
<1>2. CASE UNCHANGED <<read, listed, tree, index, trail, owed>>
  BY <1>1, <1>2, IdleEnd
<1>3. CASE CutOff(a, IF At(a, {"move"}, "write") THEN Call(a).dest
                                                 ELSE Call(a).file, "failed")
  <2>1. PICK f \in Files : /\ CutOff(a, f, "failed")
                           /\ stage[a] = "strip" => f = Call(a).file
    BY <1>1, <1>3, CallTyped DEF WorkInv, At
  <2> DEFINE e == Text("failed", a, Len(program[a]))
  <2>2. e \in Entry /\ Own(a, e) /\ e.op = "failed"
    BY <1>1, EntryTyped DEF WorkInv, Own
  <2> HIDE DEF e
  <2>3. Fills(f, {}, Append(trail[f], e))
    BY <2>1 DEF CutOff, Botches, e
  <2>4. Filled(f, e, {})
    BY <2>2, <2>3, FillsIs DEF WorkInv
  <2>5. EditsSurvive'
    BY <2>2, <2>4, OthersExcuse DEF WorkInv
  <2>6. CASE stage[a] # "strip"
    <3>1. MovesKeepText'
      BY <1>1, <2>2, <2>4, <2>6, FirstCutOff
    <3> QED BY <1>1, <2>2, <2>3, <2>5, <3>1, WriteAndEnd
  <2>7. CASE stage[a] = "strip"
    <3>1. PICK F \in Files, D \in Files :
            /\ F = Call(a).file /\ F # D
            /\ Quiet => /\ \A g \in Files \ {F} : Function(g) \in tree[g]
                        /\ Function(F) \in tree[D]
      BY <1>1, <2>7, MoveIs DEF At2
    <3>2. ASSUME Quiet', NEW g \in Files PROVE \E h \in Files : Function(g) \in tree'[h]
      <4>1. Quiet
        BY <2>2, <2>4, <3>2, StillQuiet DEF WorkInv
      <4>2. \A h \in Files \ {F} : tree'[h] = tree[h]
        BY <2>1, <2>4, <2>7, <3>1 DEF Filled
      <4> QED BY <3>1, <4>1, <4>2
    <3>3. MovesKeepText'
      BY <3>2 DEF MovesKeepText, Quiet, Function, Text
    <3> QED BY <1>1, <2>2, <2>3, <2>5, <3>3, WriteAndEnd
  <2> QED BY <2>6, <2>7
<1> QED BY <1>2, <1>3 DEF WriteFails

\* A move that has written and goes on.
LEMMA MoveOn ==
  ASSUME WorkInv, NEW a \in Workers, program[a] # <<>>,
         At2(a, {"move"}, {"write", "strip", "mend", "undo"}),
         NEW F \in Files, F = Call(a).file, NEW D \in Files, D = Call(a).dest,
         NEW s \in {"strip", "mend", "undo"}, Goto(a, s),
         NEW f \in Files, f = D \/ stage[a] # "write",
         NEW e \in Entry, Own(a, e), e.op \notin {"edit", "patch", "undone"},
         NEW content, Fills(f, content, Append(trail[f], e)),
         Quiet' => /\ \A g \in Files \ {F} : Function(g) \in tree'[g]
                   /\ s \in {"strip", "undo"} => Function(F) \in tree'[F]
                   /\ s \in {"strip", "mend"} => Function(F) \in tree'[D]
  PROVE  WorkInv'
<1>1. WorkTyped /\ s \in WorkStages
  BY DEF WorkInv, WorkStages
<1>2. /\ program' = program /\ held' = held /\ stage'[a] = s
      /\ Call(a)' = Call(a) /\ Mark(a)' = Mark(a)
      /\ stage' \in [Workers -> WorkStages]
      /\ \A b \in Workers : stage'[b] # "start" => program'[b] # <<>>
      /\ \A b \in Workers \ {a} : stage'[b] = stage[b]
  BY <1>1, GotoIs
<1>3. /\ Filled(f, e, content) /\ read' = read
      /\ trail' \in [Files -> Seq(Entry)] /\ tree' = [g \in Files |-> tree'[g]]
  BY <1>1, FillsIs
<1>4. Grows(a) /\ EditsSurvive'
  BY <1>1, <1>3, FilledGrows, OthersExcuse DEF WorkInv
<1>5. WorkTyped' /\ OnlyOf(a)
  BY <1>1, <1>2, <1>3 DEF WorkTyped, OnlyOf
<1>6. MovesKeepText'
  <2>1. ASSUME Quiet', NEW g \in Files PROVE \E h \in Files : Function(g) \in tree'[h]
    BY <2>1
  <2> QED BY <2>1 DEF MovesKeepText, Quiet, Function, Text
<1>7. /\ F # D
      /\ \A g \in Files : read[a][g] = Committed[g] \/ Foreign(a, g)
      /\ stage[a] # "write" => \E i \in 1..Len(trail[D]) : Own(a, trail[D][i])
  BY MoveIs
<1>8. HoldsItsLock(a)' /\ HasRead(a)' /\ HasMarked(a)'
  BY <1>2 DEF HoldsItsLock, WorkInv, AgentIsTrue, HasRead, HasMarked, At2
<1>9. MarksAreOld(a)'
  BY <1>2, <1>4, GotoMarks
<1>10. \A t : Own(a, t)' <=> Own(a, t)
  BY <1>2 DEF Own
<1>11. ASSUME NEW g \in Files PROVE read'[a][g] = Committed[g] \/ Foreign(a, g)'
  <2>1. Foreign(a, g) => Foreign(a, g)'
    BY <1>1, <1>2, <1>4, GrowsKeeps DEF Foreign, Own
  <2> QED BY <1>3, <1>7, <2>1
<1>12. \E i \in 1..Len(trail'[D]) : Own(a, trail'[D][i])
  <2>1. CASE stage[a] # "write"
    BY <1>1, <1>4, <1>7, <2>1, GrowsKeeps DEF Own
  <2>2. CASE f = D
    <3>1. /\ Len(trail[D]) \in Nat /\ Len(trail'[D]) = Len(trail[D]) + 1
          /\ trail'[D][Len(trail[D]) + 1] = e
      BY <1>1, <1>3, <2>2, Appended DEF Filled
    <3>2. Len(trail[D]) + 1 \in 1..Len(trail'[D])
      BY <3>1
    <3> QED BY <3>1, <3>2
  <2> QED BY <2>1, <2>2
<1>13. MovesTrue(a)'
  BY <1>2, <1>7, <1>10, <1>11, <1>12 DEF MovesTrue, At2, Committed, Function, Text, Own
<1>14. AgentIsTrue(a)'
  BY <1>8, <1>9, <1>13 DEF AgentIsTrue
<1> QED BY <1>4, <1>5, <1>6, <1>14, StepKeeps

LEMMA MoveToKeeps == ASSUME WorkInv, NEW a \in Workers, MoveTo(a) PROVE WorkInv'
<1>1. PICK F \in Files, D \in Files :
        /\ F = Call(a).file /\ D = Call(a).dest /\ F # D
        /\ \A g \in Files : read[a][g] = Committed[g] \/ Foreign(a, g)
  BY MoveIs DEF MoveTo, At, At2
<1> DEFINE e == Mark(a)
           content == read[a][D] \cup {Function(F)}
<1>2. /\ program[a] # <<>> /\ stage[a] = "write" /\ Call(a).op = "move"
      /\ Fills(D, content, Append(trail[D], e))
      /\ Goto(a, "strip") \/ Goto(a, "undo")
  BY <1>1 DEF MoveTo, At, Put
<1>3. WorkTyped /\ e \in Entry /\ Own(a, e) /\ e.op = "move"
  BY <1>2, CallTyped, EntryTyped DEF WorkInv, Mark, Own
<1> HIDE DEF e
<1>4. Filled(D, e, content)
  BY <1>2, <1>3, FillsIs
<1>5. ASSUME Quiet', NEW g \in Files
      PROVE  Function(g) \in tree'[g] /\ Function(F) \in tree'[D]
  <2>1. \A h \in Files : ~Foreign(a, h)
    BY <1>3, <1>4, <1>5, StillQuiet
  <2>2. \A h \in Files : tree[h] = Committed[h]
    BY <1>2, <2>1, FirstToWrite
  <2>3. read[a][D] = Committed[D]
    BY <1>1, <2>1
  <2> QED BY <1>4, <2>2, <2>3 DEF Filled, Committed
<1> HIDE DEF content
<1>6. At2(a, {"move"}, {"write", "strip", "mend", "undo"})
  BY <1>2 DEF At2
<1>7. e.op \notin {"edit", "patch", "undone"}
  BY <1>3
<1>8. PICK s \in {"strip", "mend", "undo"} : Goto(a, s)
  BY <1>2
<1> QED BY <1>1, <1>2, <1>3, <1>5, <1>6, <1>7, <1>8, MoveOn

LEMMA MoveFromKeeps == ASSUME WorkInv, NEW a \in Workers, MoveFrom(a) PROVE WorkInv'
<1>1. PICK F \in Files, D \in Files :
        /\ F = Call(a).file /\ D = Call(a).dest /\ F # D
        /\ Quiet => /\ \A g \in Files \ {F} : Function(g) \in tree[g]
                    /\ Function(F) \in tree[D]
  BY MoveIs DEF MoveFrom, At, At2
<1> DEFINE e == Mark(a)
           content == read[a][F] \ {Function(F)}
<1>2. /\ program[a] # <<>> /\ stage[a] = "strip" /\ Call(a).op = "move"
      /\ Fills(F, content, Append(trail[F], e))
      /\ EndCall(a) \/ Goto(a, "mend")
  BY <1>1 DEF MoveFrom, At, Put
<1>3. WorkTyped /\ e \in Entry /\ Own(a, e) /\ e.op = "move"
  BY <1>2, CallTyped, EntryTyped DEF WorkInv, Mark, Own
<1> HIDE DEF e, content
<1>4. Filled(F, e, content)
  BY <1>2, <1>3, FillsIs
<1>5. e.op \notin {"edit", "patch", "undone"}
  BY <1>3
<1>6. ASSUME Quiet'
      PROVE  (\A g \in Files \ {F} : Function(g) \in tree'[g]) /\ Function(F) \in tree'[D]
  <2>1. Quiet
    BY <1>3, <1>4, <1>6, StillQuiet
  <2> QED BY <1>1, <1>4, <2>1 DEF Filled
<1>7. CASE EndCall(a)
  <2>1. EditsSurvive'
    BY <1>3, <1>4, <1>5, OthersExcuse DEF WorkInv
  <2>2. ASSUME Quiet', NEW g \in Files PROVE \E h \in Files : Function(g) \in tree'[h]
    BY <1>6, <2>2
  <2>3. MovesKeepText'
    BY <2>2 DEF MovesKeepText, Quiet, Function, Text
  <2> QED BY <1>2, <1>3, <1>5, <1>7, <2>1, <2>3, WriteAndEnd
<1>8. CASE Goto(a, "mend")
  <2>1. At2(a, {"move"}, {"write", "strip", "mend", "undo"}) /\ stage[a] # "write"
    BY <1>2 DEF At2
  <2>2. PICK s \in {"strip", "mend", "undo"} : s = "mend" /\ Goto(a, s)
    BY <1>8
  <2>3. Quiet' => /\ \A g \in Files \ {F} : Function(g) \in tree'[g]
                  /\ s \in {"strip", "undo"} => Function(F) \in tree'[F]
                  /\ s \in {"strip", "mend"} => Function(F) \in tree'[D]
    BY <1>6, <2>2
  <2> QED BY <1>1, <1>2, <1>3, <1>5, <2>1, <2>2, <2>3, MoveOn
<1> QED BY <1>2, <1>7, <1>8

LEMMA MendKeeps == ASSUME WorkInv, NEW a \in Workers, Mend(a) PROVE WorkInv'
<1>1. PICK F \in Files, D \in Files :
        /\ F = Call(a).file /\ D = Call(a).dest /\ F # D
        /\ \A g \in Files : read[a][g] = Committed[g] \/ Foreign(a, g)
        /\ Quiet => \A g \in Files \ {F} : Function(g) \in tree[g]
  BY MoveIs DEF Mend, At, At2
<1>2. /\ program[a] # <<>> /\ stage[a] = "mend" /\ Call(a).op = "move" /\ Goto(a, "undo")
  BY DEF Mend, At
<1>3. PICK e \in Entry, content \in {read[a][F], {}} :
        /\ Own(a, e) /\ Fills(F, content, Append(trail[F], e))
        /\ (e.op = "move" /\ content = read[a][F]) \/ e.op = "unmended"
  <2>1. CASE Put(a, F, read[a][F])
    <3>1. Mark(a) \in Entry /\ Own(a, Mark(a)) /\ Mark(a).op = "move"
      BY <1>2, CallTyped, EntryTyped DEF WorkInv, Mark, Own
    <3> QED BY <2>1, <3>1 DEF Put
  <2>2. CASE CutOff(a, F, "unmended")
    <3> DEFINE e == Text("unmended", a, Len(program[a]))
    <3>1. e \in Entry /\ Own(a, e) /\ e.op = "unmended"
      BY <1>2, EntryTyped DEF WorkInv, Own
    <3>2. Fills(F, {}, Append(trail[F], e))
      BY <2>2 DEF CutOff, Botches
    <3> HIDE DEF e
    <3> QED BY <3>1, <3>2
  <2> QED BY <1>1, <2>1, <2>2 DEF Mend
<1>4. Filled(F, e, content) /\ WorkTyped
  BY <1>3, FillsIs DEF WorkInv
<1>5. ASSUME Quiet' PROVE \A g \in Files : Function(g) \in tree'[g]
  <2>1. Quiet /\ (\A h \in Files : ~Foreign(a, h)) /\ e.op # "unmended"
    BY <1>3, <1>4, <1>5, StillQuiet
  <2>2. content = Committed[F]
    BY <1>1, <1>3, <2>1
  <2> QED BY <1>1, <1>4, <2>1, <2>2 DEF Filled, Committed
<1>6. At2(a, {"move"}, {"write", "strip", "mend", "undo"}) /\ stage[a] # "write"
  BY <1>2 DEF At2
<1>7. PICK s \in {"strip", "mend", "undo"} : s = "undo" /\ Goto(a, s)
  BY <1>2
<1>8. Quiet' => /\ \A g \in Files \ {F} : Function(g) \in tree'[g]
                /\ s \in {"strip", "undo"} => Function(F) \in tree'[F]
                /\ s \in {"strip", "mend"} => Function(F) \in tree'[D]
  BY <1>5, <1>7
<1>9. e.op \notin {"edit", "patch", "undone"}
  BY <1>3
<1> QED BY <1>1, <1>2, <1>3, <1>6, <1>7, <1>8, <1>9, MoveOn

LEMMA UndoMoveKeeps == ASSUME WorkInv, NEW a \in Workers, UndoMove(a) PROVE WorkInv'
<1>1. PICK F \in Files, D \in Files :
        /\ F = Call(a).file /\ D = Call(a).dest /\ F # D
        /\ \A g \in Files : read[a][g] = Committed[g] \/ Foreign(a, g)
        /\ Quiet => \A g \in Files : Function(g) \in tree[g]
  BY MoveIs DEF UndoMove, At, At2
<1>2. program[a] # <<>> /\ stage[a] = "undo" /\ Call(a).op = "move" /\ EndCall(a)
  BY DEF UndoMove, At
<1>3. PICK e \in Entry, content \in {read[a][D], {}} :
        /\ Own(a, e) /\ Fills(D, content, Append(trail[D], e))
        /\ (e.op = "move" /\ content = read[a][D]) \/ e.op = "failed"
  <2>1. CASE Put(a, D, read[a][D])
    <3>1. Mark(a) \in Entry /\ Own(a, Mark(a)) /\ Mark(a).op = "move"
      BY <1>2, CallTyped, EntryTyped DEF WorkInv, Mark, Own
    <3> QED BY <2>1, <3>1 DEF Put
  <2>2. CASE CutOff(a, D, "failed")
    <3> DEFINE e == Text("failed", a, Len(program[a]))
    <3>1. e \in Entry /\ Own(a, e) /\ e.op = "failed"
      BY <1>2, EntryTyped DEF WorkInv, Own
    <3>2. Fills(D, {}, Append(trail[D], e))
      BY <2>2 DEF CutOff, Botches
    <3> HIDE DEF e
    <3> QED BY <3>1, <3>2
  <2> QED BY <1>1, <2>1, <2>2 DEF UndoMove
<1>4. Filled(D, e, content) /\ WorkTyped
  BY <1>3, FillsIs DEF WorkInv
<1>5. e.op \notin {"edit", "patch", "undone"}
  BY <1>3
<1>6. EditsSurvive'
  BY <1>4, <1>5, OthersExcuse DEF WorkInv
<1>7. ASSUME Quiet', NEW g \in Files PROVE Kept(g)'
  <2>1. Quiet /\ (\A h \in Files : ~Foreign(a, h))
    BY <1>3, <1>4, <1>7, StillQuiet
  <2>2. CASE g # D \/ e.op = "move"
    <3>1. Function(g) \in tree'[g]
      BY <1>1, <1>3, <1>4, <2>1, <2>2 DEF Filled, Committed
    <3> QED BY <3>1 DEF Kept, Function, Text
  <2>3. CASE g = D /\ e.op = "failed"
    <3>1. Len(trail[D]) + 1 \in DOMAIN trail'[D] /\ trail'[D][Len(trail[D]) + 1] = e
      BY <1>4, Appended DEF Filled
    <3> QED BY <2>3, <3>1 DEF Kept
  <2> QED BY <1>3, <2>2, <2>3
<1>8. MovesKeepText'
  BY <1>7 DEF MovesKeepText, Quiet, Kept
<1> QED BY <1>2, <1>3, <1>5, <1>6, <1>8, WriteAndEnd

LEMMA StashKeeps == ASSUME WorkInv, NEW a \in Workers, Stash(a) PROVE WorkInv'
<1>1. /\ program[a] # <<>> /\ stage[a] = "start" /\ Call(a).op = "create"
      /\ read' = [read EXCEPT ![a] = tree] /\ UNCHANGED <<tree, trail>>
  BY DEF Stash, At
<1>2. PICK s \in {"stashed", "copy"} : Goto(a, s)
  BY DEF Stash
<1>3. /\ program' = program /\ held' = held /\ stage'[a] = s
      /\ Call(a)' = Call(a) /\ Mark(a)' = Mark(a)
      /\ stage' \in [Workers -> WorkStages]
      /\ \A b \in Workers : stage'[b] # "start" => program'[b] # <<>>
      /\ \A b \in Workers \ {a} : stage'[b] = stage[b]
  BY <1>1, <1>2, GotoIs DEF WorkInv, WorkStages
<1>4. Grows(a) /\ EditsSurvive' /\ MovesKeepText'
  BY <1>1, NothingWritten
<1>5. WorkTyped' /\ OnlyOf(a)
  BY <1>1, <1>3 DEF WorkInv, WorkTyped, OnlyOf
<1>6. MarksAreOld(a)'
  BY <1>1, <1>3, <1>4, GotoMarks
<1>7. AgentIsTrue(a)'
  BY <1>1, <1>3, <1>6 DEF AgentIsTrue, HoldsItsLock, Locking, HasRead, HasMarked,
                          MovesTrue, At2
<1> QED BY <1>4, <1>5, <1>7, StepKeeps

LEMMA RecordKeeps == ASSUME WorkInv, NEW a \in Workers, Record(a) PROVE WorkInv'
BY IdleEnd DEF Record, At

LEMMA RestoreCheckpointKeeps ==
  ASSUME WorkInv, NEW a \in Workers, RestoreCheckpoint(a) PROVE WorkInv'
<1>1. program[a] # <<>> /\ Call(a).op = "restore" /\ EndCall(a) /\ read' = read
  BY DEF RestoreCheckpoint, At
<1>2. CASE UNCHANGED <<tree, index, trail, owed>>
  BY <1>1, <1>2, IdleEnd
<1>3. ASSUME NEW i \in DOMAIN index, BringBack(a, index[i]) PROVE WorkInv'
  <2>1. WorkTyped
    BY DEF WorkInv
  <2>2. PICK e \in Entry : e = Mark(a) /\ Own(a, e) /\ e.op = "restore"
    BY <1>1, <2>1, CallTyped, EntryTyped DEF Mark, Own
  <2>3. /\ trail' = [f \in Files |-> Append(trail[f], e)]
        /\ tree' = [f \in Files |-> tree'[f]]
    BY <1>3, <2>2 DEF BringBack
  <2>4. ASSUME NEW f \in Files
        PROVE  /\ Len(trail[f]) \in Nat
               /\ DOMAIN trail'[f] = 1..(Len(trail[f]) + 1)
               /\ trail'[f][Len(trail[f]) + 1] = e
               /\ \A k \in 1..Len(trail[f]) : trail'[f][k] = trail[f][k]
               /\ trail'[f] \in Seq(Entry)
    <3>1. trail'[f] = Append(trail[f], e) /\ trail[f] \in Seq(Entry)
      BY <2>1, <2>3 DEF WorkTyped
    <3> QED BY <3>1
  <2>5. Grows(a)
    BY <2>2, <2>3 DEF Grows, Adds
  <2>6. trail' \in [Files -> Seq(Entry)]
    BY <2>3, <2>4
  <2>7. WorkTyped' /\ OnlyOf(a)
    BY <1>1, <2>1, <2>3, <2>6, EndIs DEF WorkTyped, OnlyOf
  <2>8. EditsSurvive'
    <3> SUFFICES ASSUME NEW f \in Files, NEW k \in DOMAIN trail'[f], IsEdit(trail'[f][k])
                 PROVE  \E j \in DOMAIN trail'[f] :
                          k < j /\ Excuses(trail'[f][j], trail'[f][k])
      BY DEF EditsSurvive, IsEdit, Excuses
    <3>1. k # Len(trail[f]) + 1
      BY <2>2, <2>4 DEF IsEdit
    <3>2. k < Len(trail[f]) + 1 /\ Len(trail[f]) + 1 \in DOMAIN trail'[f]
      BY <2>4, <3>1
    <3>3. Excuses(trail'[f][Len(trail[f]) + 1], trail'[f][k])
      BY <2>2, <2>4 DEF Excuses
    <3> QED BY <3>2, <3>3
  <2>9. ~Quiet'
    <3>1. PICK f \in Files : f = Call(a).file
      BY <1>1, <2>1, CallTyped
    <3>2. Len(trail[f]) + 1 \in DOMAIN trail'[f]
          /\ trail'[f][Len(trail[f]) + 1].op = "restore"
      BY <2>2, <2>4
    <3> QED BY <3>2 DEF Quiet
  <2>10. MovesKeepText'
    BY <2>9 DEF MovesKeepText, Quiet
  <2>11. AgentIsTrue(a)'
    BY <1>1, <2>5, EndAgent
  <2> QED BY <2>5, <2>7, <2>8, <2>10, <2>11, StepKeeps
<1> QED BY <1>2, <1>3 DEF RestoreCheckpoint

LEMMA WorkInvKept == ASSUME WorkInv, [WorkNext]_workVars PROVE WorkInv'
<1>1. CASE UNCHANGED workVars
  <2>1. UNCHANGED <<program, stage, read, held, tree, trail>>
    BY <1>1 DEF workVars
  <2>2. WorkTyped' /\ UntouchedIsCommitted'
    BY <2>1 DEF WorkInv, WorkTyped, UntouchedIsCommitted, Committed, Function, Text
  <2>3. EditsSurvive' /\ MovesKeepText'
    BY <2>1 DEF WorkInv, EditsSurvive, MovesKeepText, Excuses, Function, Text
  <2>4. ASSUME NEW a \in Workers PROVE AgentIsTrue(a)'
    <3>1. AgentIsTrue(a)
      BY DEF WorkInv
    <3>2. HoldsItsLock(a)' /\ MarksAreOld(a)' /\ HasMarked(a)'
      BY <2>1, <3>1 DEF AgentIsTrue, HoldsItsLock, MarksAreOld, HasMarked, At2, Call
    <3>3. HasRead(a)'
      BY <2>1, <3>1 DEF AgentIsTrue, HasRead, Excused, Excuses, IsEdit, At2, Call, Mark, Text
    <3>4. MovesTrue(a)'
      BY <2>1, <3>1 DEF AgentIsTrue, MovesTrue, Foreign, Own, Quiet, At2, Call, Committed,
                        Function, Text
    <3> QED BY <3>2, <3>3, <3>4 DEF AgentIsTrue
  <2> QED BY <2>2, <2>3, <2>4 DEF WorkInv
<1>2. CASE WorkNext
  BY <1>2, LockKeeps, LookKeeps, ReplaceKeeps, RollBackKeeps, OverwriteKeeps,
     WriteFailsKeeps, MoveToKeeps, MoveFromKeeps, MendKeeps, UndoMoveKeeps, StashKeeps,
     RecordKeeps, RestoreCheckpointKeeps DEF WorkNext
<1> QED BY <1>1, <1>2

\* Whatever the agents of a process do to the files, and wherever a write fails, no
\* edit loses another (the lock of filelock.rs and the look under it), and a move that
\* nothing comes between keeps its function (the order of move_function's writes and
\* of what puts them back).
THEOREM WorkIsKeptHolds == WorkSpec => []WorkIsKept
<1>1. WorkInv => WorkIsKept
  BY DEF WorkInv, WorkIsKept
<1> QED BY WorkInitial, WorkInvKept, <1>1, PTL DEF WorkSpec

-----------------------------------------------------------------------------
(***************************************************************************)
(* The index of a file, for any number of actors and versions.             *)
(*                                                                         *)
(* IndexInv strengthens IndexIsSound by what each actor has read of the    *)
(* file and of the rows at each of its places, and what it may still make  *)
(* of it.                                                                  *)
(***************************************************************************)

Texts == Versions \cup {Gone}
IndexStages == {"off", "idle", "refresh", "walk", "parse", "commit", "load", "put",
                "model", "rows", "source", "embed", "caught up", "hook", "invalidate"}
Stamped == [stamp : Nat, text : Texts]

IndexTyped ==
  /\ disk \in [text : Texts, stamp : Nat \ {0}, blurred : BOOLEAN]
  /\ row \in Stamped
  /\ doing \in [Actors -> IndexStages]
  /\ found \in [Actors -> [stored : Nat, stamp : Nat, text : Texts]]
  /\ work \in [Actors -> [row : Stamped, at : SUBSET Offsets, text : Texts]]
  /\ graph = NoGraph \/ \E t \in Texts : graph = {t}
  /\ editing \subseteq Readers /\ overtaken \in BOOLEAN
  /\ lapses \subseteq {"race", "unheeded"}

\* A text that was read under a stamp of the file is the file's, as long as the
\* file still has the stamp and has not changed under it.
Under(s, t) ==
  /\ s <= disk.stamp
  /\ s = disk.stamp /\ ~disk.blurred => t = disk.text

Rows(r) == Under(r.stamp, r.text) /\ (r.stamp = 0 => r.text = Gone)

ReadIsTrue(x) ==
  /\ doing[x] \notin {"parse", "commit"} =>
       found[x].stamp = 0 /\ found[x].text = Gone
  /\ doing[x] = "parse" => found[x].stamp \in 1..disk.stamp
  /\ doing[x] = "commit" => Rows(found[x])

BatchIsTrue(x) ==
  /\ doing[x] \in {"source", "embed"} =>
       Rows(work[x].row) /\ work[x].at \subseteq Symbols(work[x].row.text)
  /\ doing[x] = "embed" => Under(work[x].row.stamp, work[x].text)

ActorIsTrue(x) == ReadIsTrue(x) /\ (x \in Indexers => BatchIsTrue(x))
ActorsAreTrue == \A x \in Actors : ActorIsTrue(x)

VectorsFit == Current /\ ~overtaken => \A o \in Offsets : Fits(o)

\* The graph may be older than the file, and it is known why.
RowExcused == lapses # {} \/ editing # {} \/ disk.blurred

BuildIsTrue ==
  ~RowExcused =>
    /\ graph \in {NoGraph, {disk.text}}
    /\ \A x \in Readers :
         /\ doing[x] = "walk" =>
              found[x].stored = row.stamp \/ row.text = disk.text
         /\ doing[x] = "load" => row.text = disk.text
         /\ doing[x] = "put" => work[x].text = disk.text

IndexInv ==
  IndexTyped /\ Rows(row) /\ ActorsAreTrue /\ VectorsFit /\ BuildIsTrue

-----------------------------------------------------------------------------
LEMMA IndexInitial == IndexInit => IndexInv
<1> SUFFICES ASSUME NEW crew \in Crews, IndexBegins(crew) PROVE IndexInv
  BY DEF IndexInit
<1>t. (CHOOSE t \in Versions : TRUE) \in Texts
  BY IndexAssumption DEF Texts
<1>g. NoRow \in Stamped /\ Unread \in [stored : Nat, stamp : Nat, text : Texts]
      /\ Idle \in [row : Stamped, at : SUBSET Offsets, text : Texts]
  BY DEF NoRow, Unread, Idle, Stamped, Texts
<1>1. IndexTyped
  <2>1. disk \in [text : Texts, stamp : Nat \ {0}, blurred : BOOLEAN]
    BY <1>t DEF IndexBegins
  <2>2. doing \in [Actors -> IndexStages]
    BY DEF IndexBegins, IndexStages
  <2> QED BY <1>g, <2>1, <2>2 DEF IndexTyped, IndexBegins
<1>2. disk.stamp = 1 /\ row.stamp = 0 /\ row.text = Gone
  BY DEF IndexBegins, NoRow
<1>3. Rows(row)
  BY <1>2 DEF Rows, Under
<1>4. ActorsAreTrue
  BY DEF ActorsAreTrue, ActorIsTrue, ReadIsTrue, BatchIsTrue, IndexBegins, Unread
<1>6. VectorsFit
  BY DEF VectorsFit, Current, IndexBegins, NoRow
<1>7. BuildIsTrue
  BY DEF BuildIsTrue, IndexBegins, Actors
<1> QED BY <1>1, <1>3, <1>4, <1>6, <1>7 DEF IndexInv

-----------------------------------------------------------------------------
(* What a step may do to the file: nothing, or what moves its stamp on or      *)
(* marks it as changed under it.                                               *)
Moves == disk'.stamp > disk.stamp \/ (disk'.stamp = disk.stamp /\ disk'.blurred)

LEMMA WriteMoves ==
  ASSUME IndexTyped, NEW same \in BOOLEAN, Write(same)
  PROVE  Moves /\ disk' \in [text : Texts, stamp : Nat \ {0}, blurred : BOOLEAN]
<1> PICK t \in Texts : disk' = [text |-> t,
                  stamp |-> IF same THEN disk.stamp ELSE disk.stamp + 1,
                  blurred |-> same]
  BY DEF Write, Texts
<1> disk.stamp \in Nat \ {0} /\ disk.stamp + 1 \in Nat \ {0}
  BY DEF IndexTyped
<1> QED BY DEF Moves

LEMMA UnderKept ==
  ASSUME IndexTyped, disk' = disk \/ Moves, disk'.stamp \in Nat \ {0},
         NEW s \in Nat, NEW t, Under(s, t)
  PROVE  Under(s, t)'
BY DEF Under, Moves, IndexTyped

LEMMA RowsKept ==
  ASSUME IndexTyped, disk' = disk \/ Moves, disk'.stamp \in Nat \ {0},
         NEW r, r.stamp \in Nat, Rows(r)
  PROVE  Rows(r)'
BY UnderKept DEF Rows

(* The file stays or is written, and what an actor that takes no step has read *)
(* stays as true as it was.                                                    *)
LEMMA OthersUnmoved ==
  ASSUME IndexTyped, disk' = disk \/ Moves, disk'.stamp \in Nat \ {0},
         NEW x \in Actors, ActorIsTrue(x),
         doing'[x] = doing[x], found'[x] = found[x], work'[x] = work[x]
  PROVE  ActorIsTrue(x)'
<1>1. found[x].stamp \in Nat /\ work[x].row.stamp \in Nat
  BY DEF IndexTyped, Stamped
<1>2. disk.stamp <= disk'.stamp
  BY DEF IndexTyped, Moves
<1>3. ASSUME doing[x] = "commit" PROVE Rows(found[x])'
  <2>1. Rows(found[x])
    BY <1>3 DEF ActorIsTrue, ReadIsTrue
  <2> QED BY <1>1, <2>1, RowsKept DEF Rows, Under
<1>4. ReadIsTrue(x)'
  BY <1>1, <1>2, <1>3 DEF ActorIsTrue, ReadIsTrue, IndexTyped
<1>5. ASSUME x \in Indexers PROVE BatchIsTrue(x)'
  <2>1. ASSUME doing[x] \in {"source", "embed"} PROVE Rows(work[x].row)'
    <3>1. Rows(work[x].row)
      BY <1>5, <2>1 DEF ActorIsTrue, BatchIsTrue
    <3> QED BY <1>1, <3>1, RowsKept DEF Rows, Under
  <2>2. ASSUME doing[x] = "embed" PROVE Under(work[x].row.stamp, work[x].text)'
    <3>1. Under(work[x].row.stamp, work[x].text)
      BY <1>5, <2>2 DEF ActorIsTrue, BatchIsTrue
    <3> QED BY <1>1, <3>1, UnderKept DEF Under
  <2> QED BY <1>5, <2>1, <2>2 DEF ActorIsTrue, BatchIsTrue
<1> QED BY <1>4, <1>5 DEF ActorIsTrue

(* A step of x leaves the others alone.                                        *)
DoingOf(x) ==
  \A y \in Actors \ {x} :
    doing'[y] = doing[y] /\ found'[y] = found[y] /\ work'[y] = work[y]

LEMMA ActorsKept ==
  ASSUME IndexTyped, ActorsAreTrue, disk' = disk, NEW x \in Actors, DoingOf(x),
         ActorIsTrue(x)'
  PROVE  ActorsAreTrue'
<1> SUFFICES ASSUME NEW y \in Actors \ {x} PROVE ActorIsTrue(y)'
  BY DEF ActorsAreTrue
<1>1. disk'.stamp \in Nat \ {0}
  BY DEF IndexTyped
<1>2. doing'[y] = doing[y] /\ found'[y] = found[y] /\ work'[y] = work[y]
  BY DEF DoingOf
<1> QED BY <1>1, <1>2, OthersUnmoved DEF ActorsAreTrue

LEMMA StoreKept ==
  ASSUME Rows(row), VectorsFit, disk' = disk, UNCHANGED storeVars
  PROVE  Rows(row)' /\ VectorsFit'
BY DEF Rows, Under, VectorsFit, Current, Fits, storeVars

BuilderIsTrue(x) ==
  /\ doing[x] = "walk" => found[x].stored = row.stamp \/ row.text = disk.text
  /\ doing[x] = "load" => row.text = disk.text
  /\ doing[x] = "put" => work[x].text = disk.text

\* Where nobody builds, nobody can be wrong.
LEMMA NobodyBuilds ==
  ASSUME ~BeingBuilt, NEW x \in Readers, doing'[x] \notin {"walk", "load", "put"}
                                         \/ doing'[x] = doing[x]
  PROVE  BuilderIsTrue(x)'
BY DEF BeingBuilt, Building, BuilderIsTrue

LEMMA RacedIs ==
  ASSUME NEW missed \in BOOLEAN
  PROVE  /\ Raced(missed) \subseteq {"race"}
         /\ Raced(missed) = {} => ~missed \/ ~BeingBuilt
BY DEF Raced

LEMMA BuildKept ==
  ASSUME BuildIsTrue, disk' = disk, UNCHANGED <<row, graph, editing, lapses>>,
         NEW x \in Actors, DoingOf(x),
         ~RowExcused /\ x \in Readers => BuilderIsTrue(x)'
  PROVE  BuildIsTrue'
<1>1. RowExcused' <=> RowExcused
  BY DEF RowExcused
<1>2. ASSUME ~RowExcused, NEW y \in Readers PROVE BuilderIsTrue(y)'
  <2>1. CASE y = x
    BY <1>2, <2>1
  <2>2. CASE y # x
    <3>1. y \in Actors \ {x}
      BY <2>2 DEF Actors
    <3>2. doing'[y] = doing[y] /\ found'[y] = found[y] /\ work'[y] = work[y]
      BY <3>1 DEF DoingOf
    <3> QED BY <1>2, <3>2 DEF BuildIsTrue, BuilderIsTrue
  <2> QED BY <2>1, <2>2
<1>3. ~RowExcused => graph' \in {NoGraph, {disk'.text}}
  BY DEF BuildIsTrue
<1> QED BY <1>1, <1>2, <1>3 DEF BuildIsTrue, BuilderIsTrue

-----------------------------------------------------------------------------
(* The refresh. *)

LEMMA ReadStoredKeeps ==
  ASSUME IndexInv, NEW x \in Actors, ReadStored(x)
  PROVE  IndexInv'
<1> USE DEF IndexInv
<1>1. DoingOf(x)
  BY DEF DoingOf, ReadStored, Passes, IndexTyped
<1>2. /\ doing[x] = "refresh" /\ doing'[x] = "walk" /\ work' = work
      /\ found'[x] = [found[x] EXCEPT !.stored = row.stamp]
      /\ disk' = disk /\ UNCHANGED <<storeVars, graph, editing, lapses>>
  BY DEF ReadStored, Passes, IndexTyped
<1>t. /\ found[x] \in [stored : Nat, stamp : Nat, text : Texts] /\ row.stamp \in Nat
  BY DEF IndexTyped, Stamped
<1>3. IndexTyped'
  <2>1. doing' \in [Actors -> IndexStages]
    BY DEF ReadStored, Passes, IndexTyped, IndexStages
  <2>2. found' \in [Actors -> [stored : Nat, stamp : Nat, text : Texts]]
    BY <1>t DEF ReadStored, IndexTyped
  <2> QED BY <1>2, <2>1, <2>2 DEF IndexTyped, storeVars
<1>4. ActorIsTrue(x)'
  BY <1>2, <1>t DEF ActorsAreTrue, ActorIsTrue, ReadIsTrue, BatchIsTrue
<1>5. BuilderIsTrue(x)'
  BY <1>2, <1>t DEF BuilderIsTrue, storeVars
<1> QED BY <1>1, <1>2, <1>3, <1>4, <1>5, ActorsKept, StoreKept, BuildKept DEF storeVars

LEMMA WalkKeeps ==
  ASSUME IndexInv, NEW x \in Actors, Walk(x)
  PROVE  IndexInv'
<1> USE DEF IndexInv
<1>1. DoingOf(x)
  BY DEF DoingOf, Walk, Passes, Forget, IndexTyped
<1>2. /\ doing[x] = "walk" /\ work' = work
      /\ disk' = disk /\ UNCHANGED <<storeVars, graph, editing, lapses>>
  BY DEF Walk, Passes
<1>t. /\ found[x] \in [stored : Nat, stamp : Nat, text : Texts] /\ row \in Stamped
      /\ Unread \in [stored : Nat, stamp : Nat, text : Texts]
      /\ disk \in [text : Texts, stamp : Nat \ {0}, blurred : BOOLEAN]
      /\ found[x].stamp = 0 /\ found[x].text = Gone
  BY <1>2 DEF IndexTyped, Unread, Texts, ActorsAreTrue, ActorIsTrue, ReadIsTrue
<1>3. \/ /\ disk.text = Gone /\ doing'[x] = "commit" /\ found' = found
      \/ /\ IF disk.text = Gone THEN found[x].stored = 0
                                ELSE found[x].stored = disk.stamp
         /\ doing'[x] = Refreshed(x) /\ found'[x] = Unread
      \/ /\ doing'[x] = "parse" /\ found'[x] = [found[x] EXCEPT !.stamp = disk.stamp]
  BY DEF Walk, Passes, Forget, IndexTyped
<1>4. IndexTyped'
  <2>1. doing' \in [Actors -> IndexStages]
    BY DEF Walk, Passes, IndexTyped, IndexStages, Refreshed
  <2>2. found' \in [Actors -> [stored : Nat, stamp : Nat, text : Texts]]
    BY <1>t DEF Walk, Forget, IndexTyped
  <2> QED BY <1>2, <2>1, <2>2 DEF IndexTyped, storeVars
<1>5. ActorIsTrue(x)'
  BY <1>2, <1>3, <1>t
  DEF ActorIsTrue, ReadIsTrue, BatchIsTrue, Rows, Under, Refreshed, Unread
<1>6. ~RowExcused /\ x \in Readers => BuilderIsTrue(x)'
  <2> SUFFICES ASSUME ~RowExcused, x \in Readers, doing'[x] = "load"
               PROVE  row.text = disk.text
    BY <1>2, <1>3 DEF BuilderIsTrue, storeVars, Refreshed
  <2>1. found[x].stored = row.stamp \/ row.text = disk.text
    BY <1>2 DEF BuildIsTrue
  <2>2. IF disk.text = Gone THEN found[x].stored = 0 ELSE found[x].stored = disk.stamp
    BY <1>3
  <2> QED BY <2>1, <2>2 DEF RowExcused, Rows, Under
<1> QED BY <1>1, <1>2, <1>4, <1>5, <1>6, ActorsKept, StoreKept, BuildKept DEF storeVars

LEMMA ParseFileKeeps ==
  ASSUME IndexInv, NEW x \in Actors, ParseFile(x)
  PROVE  IndexInv'
<1> USE DEF IndexInv
<1>1. DoingOf(x)
  BY DEF DoingOf, ParseFile, Passes, IndexTyped
<1>2. /\ doing[x] = "parse" /\ doing'[x] = "commit" /\ work' = work
      /\ found'[x] = [found[x] EXCEPT !.text = disk.text]
      /\ disk' = disk /\ UNCHANGED <<storeVars, graph, editing, lapses>>
  BY DEF ParseFile, Passes, IndexTyped
<1>t. /\ found[x] \in [stored : Nat, stamp : Nat, text : Texts]
      /\ disk.text \in Texts /\ disk.stamp \in Nat /\ found[x].stamp \in 1..disk.stamp
  BY <1>2 DEF IndexTyped, ActorsAreTrue, ActorIsTrue, ReadIsTrue
<1>3. IndexTyped'
  <2>1. doing' \in [Actors -> IndexStages]
    BY DEF ParseFile, Passes, IndexTyped, IndexStages
  <2>2. found' \in [Actors -> [stored : Nat, stamp : Nat, text : Texts]]
    BY <1>t DEF ParseFile, IndexTyped
  <2> QED BY <1>2, <2>1, <2>2 DEF IndexTyped, storeVars
<1>4. ActorIsTrue(x)'
  BY <1>2, <1>t DEF ActorIsTrue, ReadIsTrue, BatchIsTrue, Rows, Under
<1>5. BuilderIsTrue(x)'
  BY <1>2, <1>t DEF BuilderIsTrue
<1> QED BY <1>1, <1>2, <1>3, <1>4, <1>5, ActorsKept, StoreKept, BuildKept DEF storeVars

LEMMA CommitKeeps ==
  ASSUME IndexInv, NEW x \in Actors, Commit(x)
  PROVE  IndexInv'
<1> USE DEF IndexInv
<1>1. DoingOf(x)
  BY DEF DoingOf, Commit, Passes, Forget, IndexTyped
<1>2. /\ doing[x] = "commit" /\ doing'[x] = Refreshed(x) /\ work' = work
      /\ found'[x] = Unread
      /\ disk' = disk /\ UNCHANGED <<space, graph, editing>>
      /\ row' = [stamp |-> found[x].stamp, text |-> found[x].text]
      /\ vectors' = NoVectors /\ overtaken' = FALSE
      /\ lapses' = lapses \cup Raced(row'.text # disk.text)
  BY DEF Commit, Passes, Forget, IndexTyped
<1>t. /\ found[x] \in [stored : Nat, stamp : Nat, text : Texts]
      /\ Unread \in [stored : Nat, stamp : Nat, text : Texts]
      /\ Rows(found[x])
  BY <1>2 DEF IndexTyped, Unread, Texts, ActorsAreTrue, ActorIsTrue, ReadIsTrue
<1>3. IndexTyped'
  <2>1. doing' \in [Actors -> IndexStages]
    BY DEF Commit, Passes, IndexTyped, IndexStages, Refreshed
  <2>2. found' \in [Actors -> [stored : Nat, stamp : Nat, text : Texts]]
    BY <1>t DEF Commit, Forget, IndexTyped
  <2>3. row' \in Stamped
    BY <1>2, <1>t DEF Stamped
  <2>4. Raced(row'.text # disk.text) \subseteq {"race"}
    BY RacedIs
  <2> QED BY <1>2, <2>1, <2>2, <2>3, <2>4 DEF IndexTyped
<1>4. Rows(row)'
  BY <1>2, <1>t DEF Rows, Under
<1>5. ActorIsTrue(x)'
  BY <1>2, <1>t DEF ActorIsTrue, ReadIsTrue, BatchIsTrue, Refreshed, Unread
<1>6. VectorsFit'
  BY <1>2 DEF VectorsFit, Fits, NoVectors
<1>7. BuildIsTrue'
  <2> SUFFICES ASSUME ~RowExcused' PROVE BuildIsTrue'
    BY DEF BuildIsTrue
  <2>0. Raced(row'.text # disk.text) = {} =>
          row'.text = disk.text \/ ~BeingBuilt
    BY RacedIs
  <2>1. ~RowExcused /\ (row'.text = disk.text \/ ~BeingBuilt)
    BY <1>2, <2>0 DEF RowExcused
  <2>2. ASSUME NEW y \in Readers PROVE BuilderIsTrue(y)'
    <3>1. CASE y = x
      <4>1. BeingBuilt
        BY <1>2, <3>1 DEF BeingBuilt, Building
      <4> QED BY <1>2, <2>1, <3>1, <4>1 DEF BuilderIsTrue, Refreshed
    <3>2. CASE y # x
      <4>1. y \in Actors \ {x}
        BY <3>2 DEF Actors
      <4>2. doing'[y] = doing[y] /\ work'[y] = work[y]
        BY <1>1, <4>1 DEF DoingOf
      <4>3. CASE row'.text = disk.text
        BY <1>2, <2>1, <4>2, <4>3 DEF BuildIsTrue, BuilderIsTrue
      <4>4. CASE ~BeingBuilt
        BY <4>2, <4>4, NobodyBuilds
      <4> QED BY <2>1, <4>3, <4>4
    <3> QED BY <3>1, <3>2
  <2> QED BY <1>2, <2>1, <2>2 DEF BuildIsTrue, BuilderIsTrue
<1> QED BY <1>1, <1>2, <1>3, <1>4, <1>5, <1>6, <1>7, ActorsKept

-----------------------------------------------------------------------------
(* The indexer. *)

LEMMA EnsureModelKeeps ==
  ASSUME IndexInv, NEW x \in Indexers, EnsureModel(x)
  PROVE  IndexInv'
<1> USE DEF IndexInv
<1>0. x \in Actors
  BY DEF Actors
<1>1. DoingOf(x)
  BY <1>0 DEF DoingOf, EnsureModel, Passes, IndexTyped
<1>2. /\ doing[x] = "model" /\ doing'[x] = "rows" /\ work' = work /\ found' = found
      /\ disk' = disk /\ UNCHANGED <<row, graph, editing, lapses>>
      /\ \/ UNCHANGED <<vectors, space, overtaken>>
         \/ vectors' = NoVectors /\ overtaken' = FALSE
  BY <1>0 DEF EnsureModel, Passes, IndexTyped
<1>3. IndexTyped'
  <2>1. doing' \in [Actors -> IndexStages]
    BY DEF EnsureModel, Passes, IndexTyped, IndexStages
  <2> QED BY <1>2, <2>1 DEF IndexTyped
<1>4. ActorIsTrue(x)'
  BY <1>0, <1>2 DEF ActorsAreTrue, ActorIsTrue, ReadIsTrue, BatchIsTrue
<1>5. Rows(row)'
  BY <1>2 DEF Rows, Under
<1>6. VectorsFit'
  <2>1. CASE UNCHANGED <<vectors, space, overtaken>>
    BY <1>2, <2>1 DEF VectorsFit, Current, Fits
  <2>2. CASE vectors' = NoVectors
    BY <2>2 DEF VectorsFit, Fits, NoVectors
  <2> QED BY <1>2, <2>1, <2>2
<1>7. BuilderIsTrue(x)'
  BY <1>2 DEF BuilderIsTrue
<1> QED BY <1>0, <1>1, <1>2, <1>3, <1>4, <1>5, <1>6, <1>7, ActorsKept, BuildKept

LEMMA PendingKeeps ==
  ASSUME IndexInv, NEW x \in Indexers, Pending(x)
  PROVE  IndexInv'
<1> USE DEF IndexInv
<1>0. x \in Actors
  BY DEF Actors
<1>1. DoingOf(x)
  BY <1>0 DEF DoingOf, Pending, Passes, IndexTyped
<1>2. /\ doing[x] = "rows" /\ found' = found
      /\ disk' = disk /\ UNCHANGED <<storeVars, graph, editing, lapses>>
  BY DEF Pending, Passes
<1>3. \/ doing'[x] = "caught up" /\ work' = work
      \/ /\ doing'[x] = "source"
         /\ \E first \in SUBSET Symbols(row.text) :
              /\ work' = [work EXCEPT ![x] = [row |-> row, at |-> first, text |-> Gone]]
              /\ work'[x] = [row |-> row, at |-> first, text |-> Gone]
  <2> DEFINE bare == {o \in Symbols(row.text) : vectors[o] = NoVector}
  <2>1. ASSUME Passes(x, "rows", "source"), NEW first \in SUBSET bare,
               work' = [work EXCEPT ![x] = [row |-> row, at |-> first, text |-> Gone]]
        PROVE  /\ doing'[x] = "source" /\ first \in SUBSET Symbols(row.text)
               /\ work'[x] = [row |-> row, at |-> first, text |-> Gone]
    BY <1>0, <2>1 DEF Passes, IndexTyped
  <2>2. Passes(x, "rows", "caught up") => doing'[x] = "caught up"
    BY <1>0 DEF Passes, IndexTyped
  <2> QED BY <2>1, <2>2 DEF Pending
<1>s. Symbols(row.text) \subseteq Offsets
  BY IndexAssumption DEF Symbols, Offsets, IndexTyped, Stamped, Texts
<1>4. IndexTyped'
  <2>1. doing' \in [Actors -> IndexStages]
    BY DEF Pending, Passes, IndexTyped, IndexStages
  <2>2. work' \in [Actors -> [row : Stamped, at : SUBSET Offsets, text : Texts]]
    <3>1. ASSUME NEW first \in SUBSET Symbols(row.text)
          PROVE  [row |-> row, at |-> first, text |-> Gone]
                   \in [row : Stamped, at : SUBSET Offsets, text : Texts]
      BY <1>s DEF IndexTyped, Texts
    <3>2. CASE work' = work
      BY <3>2 DEF IndexTyped
    <3>3. ASSUME NEW first \in SUBSET Symbols(row.text),
                 work' = [work EXCEPT ![x] = [row |-> row, at |-> first, text |-> Gone]]
          PROVE  work' \in [Actors -> [row : Stamped, at : SUBSET Offsets, text : Texts]]
      BY <1>0, <3>1, <3>3 DEF IndexTyped
    <3> QED BY <1>3, <3>2, <3>3
  <2> QED BY <1>2, <2>1, <2>2 DEF IndexTyped, storeVars
<1>5. ActorIsTrue(x)'
  <2>1. ReadIsTrue(x)'
    BY <1>0, <1>2, <1>3 DEF ActorsAreTrue, ActorIsTrue, ReadIsTrue
  <2>2. BatchIsTrue(x)'
    <3> SUFFICES ASSUME doing'[x] = "source"
                 PROVE  Rows(work[x].row)' /\ work'[x].at \subseteq Symbols(work'[x].row.text)
      BY <1>3 DEF BatchIsTrue
    <3>p. PICK first \in SUBSET Symbols(row.text) :
            work'[x] = [row |-> row, at |-> first, text |-> Gone]
      BY <1>3, Zenon
    <3>1. work'[x].row = row /\ work'[x].at \subseteq Symbols(row.text)
      BY <3>p
    <3> QED BY <1>2, <3>1 DEF Rows, Under
  <2> QED BY <2>1, <2>2 DEF ActorIsTrue
<1>6. BuilderIsTrue(x)'
  BY <1>3 DEF BuilderIsTrue
<1> QED BY <1>0, <1>1, <1>2, <1>4, <1>5, <1>6, ActorsKept, StoreKept, BuildKept DEF storeVars

LEMMA ReadSourceKeeps ==
  ASSUME IndexInv, NEW x \in Indexers, ReadSource(x)
  PROVE  IndexInv'
<1> USE DEF IndexInv
<1>0. x \in Actors
  BY DEF Actors
<1>1. DoingOf(x)
  BY <1>0 DEF DoingOf, ReadSource, Passes, IndexTyped
<1>2. /\ doing[x] = "source" /\ doing'[x] = "embed" /\ found' = found
      /\ work'[x] = [work[x] EXCEPT !.text = disk.text]
      /\ disk' = disk /\ UNCHANGED <<storeVars, graph, editing, lapses>>
  BY <1>0 DEF ReadSource, Passes, IndexTyped
<1>t. /\ work[x] \in [row : Stamped, at : SUBSET Offsets, text : Texts]
      /\ disk.text \in Texts /\ disk.stamp \in Nat
  BY <1>0 DEF IndexTyped
<1>3. IndexTyped'
  <2>1. doing' \in [Actors -> IndexStages]
    BY DEF ReadSource, Passes, IndexTyped, IndexStages
  <2>2. work' \in [Actors -> [row : Stamped, at : SUBSET Offsets, text : Texts]]
    BY <1>t DEF ReadSource, IndexTyped
  <2> QED BY <1>2, <2>1, <2>2 DEF IndexTyped, storeVars
<1>4. ActorIsTrue(x)'
  <2>1. ReadIsTrue(x)'
    BY <1>0, <1>2 DEF ActorsAreTrue, ActorIsTrue, ReadIsTrue
  <2>2. Rows(work[x].row) /\ work[x].at \subseteq Symbols(work[x].row.text)
    BY <1>0, <1>2 DEF ActorsAreTrue, ActorIsTrue, BatchIsTrue
  <2>3. work'[x].row = work[x].row /\ work'[x].at = work[x].at
        /\ work'[x].text = disk.text
    BY <1>2, <1>t
  <2>4. BatchIsTrue(x)'
    BY <1>2, <1>t, <2>2, <2>3 DEF BatchIsTrue, Rows, Under
  <2> QED BY <2>1, <2>4 DEF ActorIsTrue
<1>5. BuilderIsTrue(x)'
  BY <1>2 DEF BuilderIsTrue
<1> QED BY <1>0, <1>1, <1>2, <1>3, <1>4, <1>5, ActorsKept, StoreKept, BuildKept DEF storeVars

(* A batch of the row and the model of the store is of the text of the row: the *)
(* file has had its stamp since the row was read.                              *)
LEMMA StoreVectorsKeeps ==
  ASSUME IndexInv, NEW x \in Indexers, StoreVectors(x)
  PROVE  IndexInv'
<1> USE DEF IndexInv
<1>0. x \in Actors
  BY DEF Actors
<1>1. DoingOf(x)
  BY <1>0 DEF DoingOf, StoreVectors, Passes, IndexTyped
<1>2. /\ doing[x] = "embed" /\ doing'[x] = "refresh" /\ found' = found
      /\ work'[x] = Idle
      /\ disk' = disk /\ UNCHANGED <<row, space, graph, editing, lapses>>
  BY <1>0 DEF StoreVectors, Passes, IndexTyped
<1>t. Idle \in [row : Stamped, at : SUBSET Offsets, text : Texts]
  BY DEF Idle, NoRow, Stamped, Texts
<1>p. PICK kept \in SUBSET work[x].at :
        /\ vectors' = [o \in Offsets |->
             IF o \notin kept THEN vectors[o]
             ELSE [laid |-> work[x].row.text, text |-> work[x].text,
                   model |-> ModelOf[x]]]
        /\ overtaken' =
             (overtaken \/ (kept # {} /\ <<work[x].row, ModelOf[x]>> # <<row, space>>))
  BY DEF StoreVectors
<1>3. IndexTyped'
  <2>1. doing' \in [Actors -> IndexStages]
    BY DEF StoreVectors, Passes, IndexTyped, IndexStages
  <2>2. work' \in [Actors -> [row : Stamped, at : SUBSET Offsets, text : Texts]]
    BY <1>t DEF StoreVectors, IndexTyped
  <2>3. overtaken' \in BOOLEAN
    BY <1>p DEF IndexTyped
  <2> QED BY <1>2, <2>1, <2>2, <2>3 DEF IndexTyped
<1>4. ActorIsTrue(x)'
  BY <1>0, <1>2 DEF ActorsAreTrue, ActorIsTrue, ReadIsTrue, BatchIsTrue
<1>5. Rows(row)'
  BY <1>2 DEF Rows, Under
<1>6. VectorsFit'
  <2> SUFFICES ASSUME Current, ~overtaken', NEW o \in Offsets PROVE Fits(o)'
    BY <1>2 DEF VectorsFit, Current
  <2>1. Fits(o)
    BY <1>p DEF VectorsFit
  <2>2. CASE o \notin kept
    BY <1>2, <1>p, <2>1, <2>2 DEF Fits
  <2>3. CASE o \in kept
    <3>1. work[x].row = row /\ ModelOf[x] = space
      BY <1>p, <2>3
    <3>2. o \in Symbols(row.text) /\ Under(row.stamp, work[x].text)
      BY <1>0, <1>2, <2>3, <3>1 DEF ActorsAreTrue, ActorIsTrue, BatchIsTrue
    <3>3. work[x].text = disk.text /\ row.text = disk.text
      BY <3>2 DEF Under, Rows, Current
    <3>4. vectors'[o] = [laid |-> row.text, text |-> row.text, model |-> space]
      BY <1>p, <2>3, <3>1, <3>3
    <3> QED BY <1>2, <3>2, <3>4 DEF Fits
  <2> QED BY <2>2, <2>3
<1>7. BuilderIsTrue(x)'
  BY <1>2 DEF BuilderIsTrue
<1> QED BY <1>0, <1>1, <1>2, <1>3, <1>4, <1>5, <1>6, <1>7, ActorsKept, BuildKept

LEMMA StartsOverKeeps ==
  ASSUME IndexInv, NEW x \in Indexers, StartsOver(x)
  PROVE  IndexInv'
<1> USE DEF IndexInv
<1>0. x \in Actors
  BY DEF Actors
<1>1. DoingOf(x)
  BY <1>0 DEF DoingOf, StartsOver, Forget, IndexTyped
<1>2. /\ doing'[x] = "refresh" /\ found'[x] = Unread
      /\ disk' = disk /\ UNCHANGED <<storeVars, graph, editing, lapses>>
  BY <1>0 DEF StartsOver, Forget, IndexTyped
<1>t. /\ Idle \in [row : Stamped, at : SUBSET Offsets, text : Texts]
      /\ Unread \in [stored : Nat, stamp : Nat, text : Texts]
  BY DEF Idle, Unread, NoRow, Stamped, Texts
<1>3. IndexTyped'
  <2>1. doing' \in [Actors -> IndexStages]
    BY DEF StartsOver, IndexTyped, IndexStages
  <2>2. work' \in [Actors -> [row : Stamped, at : SUBSET Offsets, text : Texts]]
    BY <1>t DEF StartsOver, IndexTyped
  <2>3. found' \in [Actors -> [stored : Nat, stamp : Nat, text : Texts]]
    BY <1>t DEF StartsOver, Forget, IndexTyped
  <2> QED BY <1>2, <2>1, <2>2, <2>3 DEF IndexTyped, storeVars
<1>4. ActorIsTrue(x)'
  BY <1>2 DEF ActorIsTrue, ReadIsTrue, BatchIsTrue, Unread
<1>5. BuilderIsTrue(x)'
  BY <1>2 DEF BuilderIsTrue
<1> QED BY <1>0, <1>1, <1>2, <1>3, <1>4, <1>5, ActorsKept, StoreKept, BuildKept DEF storeVars

-----------------------------------------------------------------------------
(* The calls on the graph. *)

(* GetBegins and HookGets only go from a stage without a claim to another.      *)
LEMMA StageKeeps ==
  ASSUME IndexInv, NEW x \in Readers, GetBegins(x) \/ HookGets(x)
  PROVE  IndexInv'
<1> USE DEF IndexInv
<1>0. x \in Actors
  BY DEF Actors
<1>1. DoingOf(x)
  BY <1>0 DEF DoingOf, GetBegins, HookGets, Passes, IndexTyped
<1>2. /\ doing[x] \in {"idle", "hook"} /\ doing'[x] \in {"refresh", "invalidate"}
      /\ found' = found /\ work' = work
      /\ disk' = disk /\ UNCHANGED <<storeVars, graph, editing, lapses>>
  BY <1>0 DEF GetBegins, HookGets, Passes, IndexTyped
<1>3. IndexTyped'
  <2>1. doing' \in [Actors -> IndexStages]
    BY DEF GetBegins, HookGets, Passes, IndexTyped, IndexStages
  <2> QED BY <1>2, <2>1 DEF IndexTyped, storeVars
<1>4. ActorIsTrue(x)'
  BY <1>0, <1>2 DEF ActorsAreTrue, ActorIsTrue, ReadIsTrue, BatchIsTrue
<1>5. BuilderIsTrue(x)'
  BY <1>2 DEF BuilderIsTrue
<1> QED BY <1>0, <1>1, <1>2, <1>3, <1>4, <1>5, ActorsKept, StoreKept, BuildKept DEF storeVars

LEMMA LoadSymbolsKeeps ==
  ASSUME IndexInv, NEW x \in Readers, LoadSymbols(x)
  PROVE  IndexInv'
<1> USE DEF IndexInv
<1>0. x \in Actors /\ x \notin Indexers
  BY IndexAssumption DEF Actors
<1>1. DoingOf(x)
  BY <1>0 DEF DoingOf, LoadSymbols, Passes, IndexTyped
<1>2. /\ doing[x] = "load" /\ doing'[x] = "put" /\ found' = found
      /\ work'[x] = [work[x] EXCEPT !.text = row.text]
      /\ disk' = disk /\ UNCHANGED <<storeVars, graph, editing, lapses>>
  BY <1>0 DEF LoadSymbols, Passes, IndexTyped
<1>t. /\ work[x] \in [row : Stamped, at : SUBSET Offsets, text : Texts]
      /\ row.text \in Texts
  BY <1>0 DEF IndexTyped, Stamped
<1>3. IndexTyped'
  <2>1. doing' \in [Actors -> IndexStages]
    BY DEF LoadSymbols, Passes, IndexTyped, IndexStages
  <2>2. work' \in [Actors -> [row : Stamped, at : SUBSET Offsets, text : Texts]]
    BY <1>t DEF LoadSymbols, IndexTyped
  <2> QED BY <1>2, <2>1, <2>2 DEF IndexTyped, storeVars
<1>4. ActorIsTrue(x)'
  BY <1>0, <1>2 DEF ActorsAreTrue, ActorIsTrue, ReadIsTrue
<1>5. ~RowExcused => BuilderIsTrue(x)'
  <2> SUFFICES ASSUME ~RowExcused PROVE row.text = disk.text
    BY <1>2, <1>t DEF BuilderIsTrue
  <2> QED BY <1>2 DEF BuildIsTrue
<1> QED BY <1>0, <1>1, <1>2, <1>3, <1>4, <1>5, ActorsKept, StoreKept, BuildKept DEF storeVars

LEMMA FullParseKeeps ==
  ASSUME IndexInv, NEW x \in Readers, FullParse(x)
  PROVE  IndexInv'
<1> USE DEF IndexInv
<1>0. x \in Actors /\ x \notin Indexers
  BY IndexAssumption DEF Actors
<1>1. DoingOf(x)
  BY <1>0 DEF DoingOf, FullParse, Passes, Forget, IndexTyped
<1>2. /\ doing'[x] = "put" /\ found'[x] = Unread
      /\ work'[x] = [work[x] EXCEPT !.text = disk.text]
      /\ disk' = disk /\ UNCHANGED <<storeVars, graph, editing, lapses>>
  BY <1>0 DEF FullParse, Passes, Forget, IndexTyped
<1>t. /\ work[x] \in [row : Stamped, at : SUBSET Offsets, text : Texts]
      /\ disk.text \in Texts
      /\ Unread \in [stored : Nat, stamp : Nat, text : Texts]
  BY <1>0 DEF IndexTyped, Unread, Texts
<1>3. IndexTyped'
  <2>1. doing' \in [Actors -> IndexStages]
    BY DEF FullParse, Passes, IndexTyped, IndexStages
  <2>2. work' \in [Actors -> [row : Stamped, at : SUBSET Offsets, text : Texts]]
    BY <1>t DEF FullParse, IndexTyped
  <2>3. found' \in [Actors -> [stored : Nat, stamp : Nat, text : Texts]]
    BY <1>t DEF FullParse, Forget, IndexTyped
  <2> QED BY <1>2, <2>1, <2>2, <2>3 DEF IndexTyped, storeVars
<1>4. ActorIsTrue(x)'
  BY <1>0, <1>2 DEF ActorIsTrue, ReadIsTrue, Unread
<1>5. BuilderIsTrue(x)'
  BY <1>2, <1>t DEF BuilderIsTrue
<1> QED BY <1>0, <1>1, <1>2, <1>3, <1>4, <1>5, ActorsKept, StoreKept, BuildKept DEF storeVars

LEMMA GetEndsKeeps ==
  ASSUME IndexInv, NEW x \in Readers, GetEnds(x)
  PROVE  IndexInv'
<1> USE DEF IndexInv
<1>0. x \in Actors /\ x \notin Indexers
  BY IndexAssumption DEF Actors
<1>1. DoingOf(x)
  BY <1>0 DEF DoingOf, GetEnds, Passes, IndexTyped
<1>2. /\ doing[x] = "put" /\ doing'[x] \in {"invalidate", "idle"} /\ found' = found
      /\ graph' = {work[x].text}
      /\ disk' = disk /\ UNCHANGED <<storeVars, editing, lapses>>
  BY <1>0 DEF GetEnds, Passes, IndexTyped
<1>t. /\ work[x].text \in Texts
      /\ Idle \in [row : Stamped, at : SUBSET Offsets, text : Texts]
  BY <1>0 DEF IndexTyped, Idle, NoRow, Stamped, Texts
<1>3. IndexTyped'
  <2>1. doing' \in [Actors -> IndexStages]
    BY DEF GetEnds, Passes, IndexTyped, IndexStages
  <2>2. work' \in [Actors -> [row : Stamped, at : SUBSET Offsets, text : Texts]]
    BY <1>t DEF GetEnds, IndexTyped
  <2> QED BY <1>2, <1>t, <2>1, <2>2 DEF IndexTyped, storeVars
<1>4. ActorIsTrue(x)'
  BY <1>0, <1>2 DEF ActorsAreTrue, ActorIsTrue, ReadIsTrue
<1>5. BuildIsTrue'
  <2> SUFFICES ASSUME ~RowExcused PROVE BuildIsTrue'
    BY <1>2 DEF BuildIsTrue, RowExcused
  <2>1. work[x].text = disk.text
    BY <1>2 DEF BuildIsTrue
  <2>2. ASSUME NEW y \in Readers PROVE BuilderIsTrue(y)'
    <3>1. CASE y = x
      BY <1>2, <3>1 DEF BuilderIsTrue
    <3>2. CASE y # x
      <4>1. y \in Actors \ {x}
        BY <3>2 DEF Actors
      <4>2. doing'[y] = doing[y] /\ work'[y] = work[y] /\ found'[y] = found[y]
        BY <1>1, <4>1 DEF DoingOf
      <4> QED BY <1>2, <4>2 DEF BuildIsTrue, BuilderIsTrue, storeVars
    <3> QED BY <3>1, <3>2
  <2> QED BY <1>2, <2>1, <2>2 DEF BuildIsTrue, BuilderIsTrue
<1> QED BY <1>0, <1>1, <1>2, <1>3, <1>4, <1>5, ActorsKept, StoreKept DEF storeVars

(* While a call builds a graph, what excuses its graph is not taken back: the   *)
(* edit of another call that is invalidated leaves a race.                     *)
LEMMA InvalidateKeeps ==
  ASSUME IndexInv, NEW x \in Readers, Invalidate(x)
  PROVE  IndexInv'
<1> USE DEF IndexInv
<1>0. x \in Actors /\ x \notin Indexers
  BY IndexAssumption DEF Actors
<1>1. DoingOf(x)
  BY <1>0 DEF DoingOf, Invalidate, Passes, IndexTyped
<1>2. /\ doing[x] = "invalidate" /\ doing'[x] = "idle" /\ found' = found
      /\ work' = work /\ graph' = NoGraph /\ editing' \subseteq editing
      /\ disk' = disk /\ UNCHANGED storeVars
      /\ lapses' = Raced(TRUE)
  BY <1>0 DEF Invalidate, Passes, IndexTyped
<1>3. IndexTyped'
  <2>1. doing' \in [Actors -> IndexStages]
    BY DEF Invalidate, Passes, IndexTyped, IndexStages
  <2>2. Raced(TRUE) \subseteq {"race"}
    BY RacedIs
  <2> QED BY <1>2, <2>1, <2>2 DEF IndexTyped, storeVars
<1>4. ActorIsTrue(x)'
  BY <1>0, <1>2 DEF ActorsAreTrue, ActorIsTrue, ReadIsTrue
<1>5. BuildIsTrue'
  <2> SUFFICES ASSUME lapses' = {}, NEW y \in Readers PROVE BuilderIsTrue(y)'
    BY <1>2 DEF BuildIsTrue, BuilderIsTrue, RowExcused
  <2>1. CASE y = x
    BY <1>2, <2>1 DEF BuilderIsTrue
  <2>2. CASE y # x
    <3>1. y \in Actors \ {x}
      BY <2>2 DEF Actors
    <3>2. doing'[y] = doing[y]
      BY <1>1, <3>1 DEF DoingOf
    <3>3. ~BeingBuilt
      BY <1>2, RacedIs
    <3> QED BY <3>2, <3>3, NobodyBuilds
  <2> QED BY <2>1, <2>2
<1> QED BY <1>0, <1>1, <1>2, <1>3, <1>4, <1>5, ActorsKept, StoreKept

\* An edit that the graph is not told of is a lapse, unless there is neither a
\* graph nor anybody who builds one.
LEMMA PassesOverIs ==
  ASSUME IndexTyped, PassesOver
  PROVE  /\ lapses' \subseteq {"race", "unheeded"}
         /\ lapses' = {} => graph = NoGraph /\ ~BeingBuilt
BY RacedIs DEF PassesOver, IndexTyped

(* An edit leaves nothing current: the stamp has moved on, or the text has     *)
(* changed under it.                                                           *)
LEMMA EditKeeps ==
  ASSUME IndexInv, NEW same \in BOOLEAN, Write(same), UNCHANGED <<storeVars, graph>>,
         work' = work, found' = found, IndexTyped',
         editing' # {} \/ PassesOver,
         \A y \in Actors : doing'[y] = doing[y]
                           \/ (doing[y] = "idle" /\ doing'[y] = "hook")
  PROVE  IndexInv'
<1> USE DEF IndexInv
<1>1. Moves /\ disk' \in [text : Texts, stamp : Nat \ {0}, blurred : BOOLEAN]
  BY WriteMoves
<1>2. disk'.stamp \in Nat \ {0}
  BY <1>1
<1>3. Rows(row)'
  <2>1. row.stamp \in Nat /\ row' = row
    BY DEF IndexTyped, Stamped, storeVars
  <2> QED BY <1>1, <1>2, <2>1, RowsKept DEF Rows, Under
<1>4. ActorsAreTrue'
  <2> SUFFICES ASSUME NEW y \in Actors PROVE ActorIsTrue(y)'
    BY DEF ActorsAreTrue
  <2>1. CASE doing'[y] = doing[y]
    BY <1>1, <1>2, <2>1, OthersUnmoved DEF ActorsAreTrue
  <2>2. CASE doing[y] = "idle" /\ doing'[y] = "hook"
    BY <2>2 DEF ActorsAreTrue, ActorIsTrue, ReadIsTrue, BatchIsTrue
  <2> QED BY <2>1, <2>2
<1>5. VectorsFit'
  BY <1>1 DEF VectorsFit, Current, Moves, Rows, Under, storeVars, IndexTyped, Stamped
<1>6. BuildIsTrue'
  <2> SUFFICES ASSUME ~RowExcused' PROVE BuildIsTrue'
    BY DEF BuildIsTrue
  <2>1. editing' = {} /\ lapses' = {}
    BY DEF RowExcused
  <2>2. graph = NoGraph /\ ~BeingBuilt
    BY <2>1, PassesOverIs
  <2>3. ASSUME NEW y \in Readers PROVE BuilderIsTrue(y)'
    <3>1. doing'[y] \notin {"walk", "load", "put"} \/ doing'[y] = doing[y]
      BY DEF Actors
    <3> QED BY <2>2, <3>1, NobodyBuilds
  <2> QED BY <2>2, <2>3 DEF BuildIsTrue, BuilderIsTrue
<1> QED BY <1>3, <1>4, <1>5, <1>6

LEMMA EditFileKeeps ==
  ASSUME IndexInv, NEW x \in Readers, EditFile(x)
  PROVE  IndexInv'
<1> PICK same \in BOOLEAN : Write(same)
  BY DEF EditFile
<1>1. IndexTyped
  BY DEF IndexInv
<1>2. disk' \in [text : Texts, stamp : Nat \ {0}, blurred : BOOLEAN]
  BY <1>1, WriteMoves
<1>3. UNCHANGED <<storeVars, found, work, graph>>
  BY DEF EditFile
<1>4. CASE /\ Passes(x, "idle", "hook") /\ editing' = editing \cup {x}
           /\ UNCHANGED lapses
  <2>1. doing' \in [Actors -> IndexStages]
    BY <1>1, <1>4 DEF Passes, IndexTyped, IndexStages
  <2>2. IndexTyped'
    BY <1>1, <1>2, <1>3, <1>4, <2>1 DEF IndexTyped, storeVars
  <2>3. \A y \in Actors : \/ doing'[y] = doing[y]
                          \/ doing[y] = "idle" /\ doing'[y] = "hook"
    BY <1>1, <1>4 DEF Passes, IndexTyped
  <2>4. editing' # {}
    BY <1>4
  <2> QED BY <1>3, <2>2, <2>3, <2>4, EditKeeps
<1>5. CASE PassesOver /\ UNCHANGED <<doing, editing>>
  <2>1. lapses' \subseteq {"race", "unheeded"}
    BY <1>1, <1>5, PassesOverIs
  <2>2. IndexTyped'
    BY <1>1, <1>2, <1>3, <1>5, <2>1 DEF IndexTyped, storeVars
  <2> QED BY <1>3, <1>5, <2>2, EditKeeps
<1> QED BY <1>4, <1>5 DEF EditFile

LEMMA EditOutsideKeeps ==
  ASSUME IndexInv, EditOutside
  PROVE  IndexInv'
<1> PICK same \in BOOLEAN : Write(same)
  BY DEF EditOutside
<1>1. IndexTyped
  BY DEF IndexInv
<1>2. disk' \in [text : Texts, stamp : Nat \ {0}, blurred : BOOLEAN]
  BY <1>1, WriteMoves
<1>3. lapses' \subseteq {"race", "unheeded"}
  BY <1>1, PassesOverIs DEF EditOutside
<1>4. IndexTyped'
  BY <1>1, <1>2, <1>3 DEF EditOutside, IndexTyped, storeVars
<1> QED BY <1>4, EditKeeps DEF EditOutside

-----------------------------------------------------------------------------
(* The invariant is inductive: no step of an indexer, of a call or of another *)
(* program breaks it.                                                          *)
LEMMA IndexInvKept == IndexInv /\ [IndexNext]_indexVars => IndexInv'
<1> SUFFICES ASSUME IndexInv, [IndexNext]_indexVars PROVE IndexInv'
  OBVIOUS
<1>1. ASSUME NEW x \in Indexers, IndexerStep(x) PROVE IndexInv'
  <2>1. x \in Actors
    BY DEF Actors
  <2> QED
    BY <1>1, <2>1, ReadStoredKeeps, WalkKeeps, ParseFileKeeps, CommitKeeps,
       EnsureModelKeeps, PendingKeeps, ReadSourceKeeps, StoreVectorsKeeps,
       StartsOverKeeps
    DEF IndexerStep, RefreshStep
<1>2. ASSUME NEW x \in Readers, ReaderStep(x) PROVE IndexInv'
  <2>1. x \in Actors
    BY DEF Actors
  <2> QED
    BY <1>2, <2>1, ReadStoredKeeps, WalkKeeps, ParseFileKeeps, CommitKeeps,
       StageKeeps, LoadSymbolsKeeps, FullParseKeeps, GetEndsKeeps,
       EditFileKeeps, InvalidateKeeps
    DEF ReaderStep, RefreshStep
<1>3. CASE EditOutside
  BY <1>3, EditOutsideKeeps
<1>4. CASE UNCHANGED indexVars
  BY <1>4
  DEF indexVars, storeVars, IndexInv, IndexTyped, Rows, Under, ActorsAreTrue,
      ActorIsTrue, ReadIsTrue, BatchIsTrue, VectorsFit, Current, Fits, BuildIsTrue,
      RowExcused
<1> QED BY <1>1, <1>2, <1>3, <1>4 DEF IndexNext

\* Whatever the number of indexers and calls, the texts and their symbols: the
\* index promises what the run checks for two (store.rs, lib.rs, bg_index.rs).
THEOREM IndexIsSoundHolds == IndexSpec => []IndexIsSound
<1>1. IndexInv => IndexIsSound
  <2> SUFFICES ASSUME IndexInv PROVE IndexIsSound
    OBVIOUS
  <2> USE DEF IndexInv
  <2>1. Current => row.text = disk.text
    BY DEF Rows, Under, Current
  <2>2. Current /\ ~overtaken => \A o \in Offsets : Fits(o)
    BY DEF VectorsFit
  <2>3. graph \notin {NoGraph, {disk.text}} => lapses # {} \/ editing # {} \/ disk.blurred
    BY DEF BuildIsTrue, RowExcused
  <2> QED BY <2>1, <2>2, <2>3 DEF IndexIsSound
<1> QED BY <1>1, IndexInitial, IndexInvKept, PTL DEF IndexSpec
=============================================================================
