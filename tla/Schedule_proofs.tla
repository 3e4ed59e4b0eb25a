-------------------------- MODULE Schedule_proofs --------------------------
(***************************************************************************)
(* Proofs about the schedule of pirs-claw, for any number of jobs,         *)
(* gateways and commands, and for all periods, backoffs and budgets:       *)
(* types, no slot fired twice, a pause that holds, and the fail budget of  *)
(* a one-shot.                                                             *)
(*                                                                         *)
(* SchedInv strengthens the properties by what the file says of each job   *)
(* until some write has undone another (FileSound): what a process has     *)
(* read is the file (CopiesCurrent), so that each write is one step from   *)
(* it; a job that may fire is past the slot last claimed (SlotsAdvance),   *)
(* which a mark does not undo because what a tick claimed is marked as     *)
(* running (BatchRuns); and every claim of a one-shot but the last has     *)
(* been paid for by a failure (TriesCounted).                              *)
(***************************************************************************)
EXTENDS Schedule, TLAPS

\* A process has read the file, and has yet to write it.
Reading(p) == pc[p] \in {"recover", "claim", "mark", "edit"}

\* What a process has read is the file, unless it is known to be stale.
CopiesCurrent ==
  \A p \in Procs : Reading(p) /\ p \notin stale => copy[p] = store

\* No tick has claimed j, nobody fires it, and it is not in the file.
Unused(j) ==
  /\ ~store[j].listed /\ claimed[j] = None /\ tries[j] = 0
  /\ \A p \in Procs : j \notin batch[p]

\* A job that was never added is unused, and nobody edits it; the add under way
\* of a job is the first write of it.
FreshUnused ==
  /\ \A j \in fresh : Unused(j)
  /\ \A p \in Procs : pc[p] = "edit" =>
       /\ cur[p].job \notin fresh
       /\ cur[p].op = "add" /\ p \notin stale => Unused(cur[p].job)

\* A job that may fire is past the slot that was claimed last.
SlotsAdvance ==
  \A j \in Jobs \ byHand :
    store[j].listed /\ store[j].enabled => store[j].next > claimed[j]

\* What a tick has claimed and not yet fired is marked as running, and was due
\* when the tick began.
BatchRuns ==
  \A p \in Procs : lock = p => \A j \in batch[p] :
    /\ claimed[j] <= at[p]
    /\ store[j].listed /\ j \notin byHand => store[j].running

\* What the user has switched off is off in the file.
OffStaysOff == \A j \in off : ~(store[j].listed /\ store[j].enabled)

\* Each claim of a one-shot was followed by a failure that was counted, but
\* for the last one; it may fire again only below the budget.
TriesCounted ==
  \A j \in Jobs : Once(j) =>
    /\ tries[j] <= GiveUpAfter /\ tries[j] <= store[j].fails + 1
    /\ store[j].enabled => tries[j] <= store[j].fails /\ tries[j] < GiveUpAfter

\* Only a process that fires has jobs in its batch.
BatchPlaced == \A p \in Procs : pc[p] \notin {"fire", "mark"} => batch[p] = {}

FileSound ==
  /\ CopiesCurrent /\ FreshUnused /\ SlotsAdvance /\ BatchRuns /\ OffStaysOff
  /\ TriesCounted

SchedInv == TypeOK /\ BatchPlaced /\ (~lost => FileSound)

-----------------------------------------------------------------------------
(* What the operations do to an entry. *)

\* The next fire of a recurring job after t is later than t.
LEMMA NextFireLater ==
  ASSUME NEW j \in Jobs, NEW t \in Nat
  PROVE  NextFire(j, t) \in Nat /\ NextFire(j, t) > t
<1>1. Period[j] \in Nat \ {0}
  BY ScheduleAssumption
<1>2. ((t \div Period[j]) + 1) * Period[j] \in Nat /\ ((t \div Period[j]) + 1) * Period[j] > t
  BY <1>1
<1>3. QED
  BY <1>1, <1>2 DEF NextFire

\* A backoff is some time.
LEMMA BackoffPositive ==
  ASSUME NEW j \in Jobs, NEW n \in Nat, n >= BackoffAfter
  PROVE  Backoff(j, n) \in Nat \ {0}
<1>1. /\ Period[j] \in Nat /\ CronBackoff \in Nat /\ OnceBackoff \in Nat
      /\ BackoffCap \in Nat /\ BackoffAfter \in Nat
  BY ScheduleAssumption
<1> DEFINE base == CASE KindOf[j] = "every" -> Period[j]
                     [] KindOf[j] = "cron" -> CronBackoff
                     [] OTHER -> OnceBackoff
           doubled == base * 2 ^ Lesser(n - BackoffAfter + 1, 8)
<1>2. base \in Nat
  BY <1>1
<1>3. Lesser(n - BackoffAfter + 1, 8) \in Nat
  BY <1>1 DEF Lesser
<1>4. 2 ^ Lesser(n - BackoffAfter + 1, 8) \in Int
  BY <1>3
<1>5. doubled \in Int
  <2> HIDE DEF base
  <2>1. QED
    BY <1>2, <1>4
<1>6. Backoff(j, n) = Greater(Lesser(doubled, BackoffCap), 1)
  BY DEF Backoff
<1> HIDE DEF doubled
<1>7. QED
  BY <1>1, <1>5, <1>6 DEF Greater, Lesser

LEMMA SkippedEntry ==
  ASSUME NEW j \in Jobs, NEW e \in Entries, NEW t \in Nat
  PROVE  /\ Skipped(j, e, t) \in Entries
         /\ Skipped(j, e, t).listed = e.listed /\ Skipped(j, e, t).enabled = e.enabled
         /\ Skipped(j, e, t).running = e.running /\ Skipped(j, e, t).fails = e.fails
         /\ Skipped(j, e, t).next = NextFire(j, t)
BY NextFireLater DEF Skipped, Entries

LEMMA ClaimedEntry ==
  ASSUME NEW j \in Jobs, NEW e \in Entries, NEW t \in Nat
  PROVE  /\ Claimed(j, e, t) \in Entries
         /\ Claimed(j, e, t).listed = e.listed /\ Claimed(j, e, t).running
         /\ Claimed(j, e, t).fails = e.fails
         /\ Once(j) => ~Claimed(j, e, t).enabled
         /\ ~Once(j) => /\ Claimed(j, e, t).enabled = e.enabled
                        /\ Claimed(j, e, t).next = NextFire(j, t)
BY NextFireLater DEF Claimed, Entries

LEMMA FiredEntry ==
  ASSUME NEW j \in Jobs, NEW e \in Entries, NEW t \in Nat
  PROVE  /\ Fired(j, e, t) \in Entries
         /\ Fired(j, e, t).listed = e.listed /\ ~Fired(j, e, t).running
         /\ Fired(j, e, t).fails = 0
         /\ Fired(j, e, t).enabled => e.enabled
         /\ e.running => Fired(j, e, t).next = e.next
<1>1. 0 \in 0..FailCap
  BY ScheduleAssumption
<1>2. QED
  BY <1>1, NextFireLater DEF Fired, Entries

LEMMA FailedEntry ==
  ASSUME NEW j \in Jobs, NEW e \in Entries, NEW t \in Nat
  PROVE  /\ Failed(j, e, t) \in Entries
         /\ Failed(j, e, t).listed = e.listed /\ ~Failed(j, e, t).running
         /\ Failed(j, e, t).fails = Lesser(e.fails + 1, FailCap)
         /\ ~Once(j) => /\ Failed(j, e, t).enabled = e.enabled
                        /\ \/ Failed(j, e, t).next = e.next
                           \/ Failed(j, e, t).next > t
         /\ Once(j) => Failed(j, e, t).enabled = (Failed(j, e, t).fails < GiveUpAfter)
<1>1. /\ FailCap \in Nat /\ GiveUpAfter \in Nat /\ BackoffAfter \in Nat /\ e.fails \in 0..FailCap
      /\ e.next \in Nat
  BY ScheduleAssumption DEF Entries
<1> DEFINE n == Lesser(e.fails + 1, FailCap)
<1>2. n \in 0..FailCap
  BY <1>1 DEF Lesser
<1> DEFINE next == IF n >= BackoffAfter THEN t + Backoff(j, n)
                   ELSE IF Once(j) THEN t ELSE e.next
<1>3. next \in Nat /\ (~Once(j) => next = e.next \/ next > t)
  BY <1>1, <1>2, BackoffPositive
<1>4. Failed(j, e, t) = [e EXCEPT !.running = FALSE, !.fails = n, !.next = next,
                                  !.enabled = IF Once(j) THEN n < GiveUpAfter ELSE @]
  BY DEF Failed, Entries
<1> HIDE DEF n, next
<1>5. (n < GiveUpAfter) \in BOOLEAN
  BY <1>1, <1>2
<1>6. QED
  BY <1>2, <1>3, <1>4, <1>5 DEF n, Entries

LEMMA ResumedEntry ==
  ASSUME NEW j \in Jobs, NEW e \in Entries, NEW t \in Nat
  PROVE  /\ Resumed(j, e, t) \in Entries
         /\ Resumed(j, e, t).listed = e.listed /\ Resumed(j, e, t).running = e.running
         /\ Resumed(j, e, t).fails = e.fails
<1> DEFINE next == IF e.next >= t THEN e.next
                   ELSE IF Once(j) THEN t + 1 ELSE NextFire(j, t)
<1>1. next \in Nat
  BY NextFireLater DEF Entries
<1>2. Resumed(j, e, t) = [e EXCEPT !.enabled = TRUE, !.next = next]
  BY DEF Resumed, Entries
<1> HIDE DEF next
<1>3. QED
  BY <1>1, <1>2 DEF Entries

LEMMA UnlistedEntry == Unlisted \in Entries /\ NoFile \in Files
<1>1. 0 \in 0..FailCap
  BY ScheduleAssumption
<1>2. QED
  BY <1>1 DEF Unlisted, Entries, NoFile, Files

LEMMA AddedEntry ==
  ASSUME NEW j \in Jobs, NEW delay \in Nat, NEW t \in Nat
  PROVE  Added(j, delay, t) \in Entries /\ Added(j, delay, t).fails = 0
<1> DEFINE next == IF KindOf[j] = "cron" THEN NextFire(j, t + delay) ELSE t + delay
<1>1. next \in Nat
  BY NextFireLater
<1>2. Unlisted \in Entries /\ Unlisted.fails = 0
  BY UnlistedEntry DEF Unlisted
<1>3. Added(j, delay, t) = [Unlisted EXCEPT !.listed = TRUE, !.enabled = TRUE, !.next = next]
  BY DEF Added
<1> HIDE DEF next
<1>4. QED
  BY <1>1, <1>2, <1>3 DEF Entries

LEMMA MarkedEntry ==
  ASSUME TypeOK, NEW p \in Procs, pc[p] = "mark"
  PROVE  /\ cur[p].job \in batch[p] /\ cur[p].job \in Jobs /\ cur[p].op \in Marks
         /\ Marked(p, cur[p].job) \in Entries
<1>1. cur[p] \in [job : batch[p], op : Marks] /\ batch[p] \subseteq Jobs
  BY DEF TypeOK
<1>2. cur[p].job \in batch[p] /\ cur[p].job \in Jobs /\ cur[p].op \in Marks
  BY <1>1
<1>3. copy[p][cur[p].job] \in Entries /\ at[p] \in Nat
  BY <1>2, ScheduleAssumption DEF TypeOK, Files
<1>4. QED
  BY <1>2, <1>3, FiredEntry, FailedEntry DEF Marked

LEMMA EditedEntry ==
  ASSUME TypeOK, NEW p \in Procs, pc[p] = "edit", NEW delay \in Delays
  PROVE  cur[p].job \in Jobs /\ cur[p].op \in Edits /\ Edited(p, delay) \in Entries
<1>1. cur[p] \in [job : Jobs, op : Edits]
  BY DEF TypeOK
<1>2. cur[p].job \in Jobs /\ cur[p].op \in Edits
  BY <1>1
<1>3. copy[p][cur[p].job] \in Entries /\ now \in Nat /\ delay \in Nat
  BY <1>2, ScheduleAssumption DEF TypeOK, Files
<1>4. [copy[p][cur[p].job] EXCEPT !.enabled = FALSE] \in Entries
  BY <1>3 DEF Entries
<1>5. QED
  BY <1>2, <1>3, <1>4, AddedEntry, ResumedEntry, UnlistedEntry DEF Edited, Edits

-----------------------------------------------------------------------------
(* Types *)

\* The initial states satisfy the invariant.
LEMMA InitSched == Init => SchedInv
<1> SUFFICES ASSUME Init PROVE SchedInv
  OBVIOUS
<1> USE ScheduleAssumption DEF Init
<1>1. store \in Files
  BY AddedEntry, UnlistedEntry DEF Files
<1>2. copy \in [Procs -> Files]
  BY UnlistedEntry
<1>3. TypeOK
  <2>1. claimed \in [Jobs -> Nat \cup {None}] /\ tries \in [Jobs -> Nat]
    OBVIOUS
  <2>2. now \in 1..MaxTime /\ at \in [Procs -> 0..MaxTime]
    OBVIOUS
  <2>3. /\ lock \in Procs \cup {"free"} /\ batch \in [Procs -> SUBSET Jobs]
        /\ fresh \subseteq Jobs /\ off \subseteq Jobs /\ byHand \subseteq Jobs
        /\ stale \subseteq Procs /\ lost \in BOOLEAN
    OBVIOUS
  <2>4. cur \in [Procs -> {NoWork} \cup [job : Jobs, op : Marks \cup Edits]]
    OBVIOUS
  <2>5. QED
    BY <1>1, <1>2, <2>1, <2>2, <2>3, <2>4 DEF TypeOK
<1>4. BatchPlaced
  BY DEF BatchPlaced
<1>5. FileSound
  <2>1. \A j \in Jobs : store[j].fails = 0 /\ store[j].next \in Nat
    BY <1>1, AddedEntry DEF Files, Entries, Unlisted
  <2>2. CopiesCurrent /\ FreshUnused /\ BatchRuns /\ OffStaysOff
    BY DEF CopiesCurrent, FreshUnused, Unused, BatchRuns, OffStaysOff, Reading, Unlisted
  <2>3. SlotsAdvance
    BY <2>1 DEF SlotsAdvance, None
  <2>4. TriesCounted
    BY <2>1 DEF TriesCounted
  <2>5. QED
    BY <2>2, <2>3, <2>4 DEF FileSound
<1>6. QED
  BY <1>3, <1>4, <1>5 DEF SchedInv

\* Reads and writes of the file keep its type and that of what was read.
LEMMA FileTyped ==
  ASSUME TypeOK, NEW p \in Procs,
         \/ Read(p) \/ NoWrite(p) \/ \E f \in Files : Write(p, f)
  PROVE  /\ store' \in Files /\ copy' \in [Procs -> Files]
         /\ stale' \subseteq Procs /\ lost' \in BOOLEAN
<1>1. CASE Read(p)
  BY <1>1 DEF TypeOK, Read
<1>2. CASE NoWrite(p)
  BY <1>2, UnlistedEntry DEF TypeOK, NoWrite, Drop
<1>3. ASSUME NEW f \in Files, Write(p, f)
      PROVE  /\ store' \in Files /\ copy' \in [Procs -> Files]
             /\ stale' \subseteq Procs /\ lost' \in BOOLEAN
  <2>1. store' = f /\ lost' \in BOOLEAN /\ stale' \subseteq Procs
    BY <1>3 DEF TypeOK, Write
  <2>2. copy' = [copy EXCEPT ![p] = NoFile]
    BY <1>3 DEF Write, Drop
  <2>3. QED
    BY <1>3, <2>1, <2>2, UnlistedEntry DEF TypeOK
<1>4. QED
  BY <1>1, <1>2, <1>3

\* Every step keeps the types.
LEMMA NextTyped == SchedInv /\ [Next]_vars => TypeOK' /\ BatchPlaced'
<1> SUFFICES ASSUME TypeOK, BatchPlaced, [Next]_vars PROVE TypeOK' /\ BatchPlaced'
  BY DEF SchedInv
<1> USE ScheduleAssumption DEF storeVars, procVars, ghostVars, Goto, BatchPlaced
<1>1. ASSUME Tick PROVE TypeOK' /\ BatchPlaced'
  BY <1>1 DEF Tick, TypeOK
<1>2. ASSUME NEW p \in Procs, GatewayTick(p) PROVE TypeOK' /\ BatchPlaced'
  BY <1>2, FileTyped DEF GatewayTick, TypeOK
<1>3. ASSUME NEW p \in Procs, RecoverMissed(p) PROVE TypeOK' /\ BatchPlaced'
  <2> DEFINE late == {j \in Jobs : Overdue(j, copy[p][j], at[p])}
             f == [j \in Jobs |-> IF j \in late THEN Skipped(j, copy[p][j], at[p])
                                  ELSE copy[p][j]]
  <2>1. f \in Files
    BY SkippedEntry DEF TypeOK, Files
  <2>2. NoWrite(p) \/ Write(p, f)
    BY <1>3 DEF RecoverMissed
  <2> HIDE DEF f
  <2>3. QED
    BY <1>3, <2>1, <2>2, FileTyped DEF RecoverMissed, TypeOK
<1>4. ASSUME NEW p \in Procs, Look(p) PROVE TypeOK' /\ BatchPlaced'
  BY <1>4, FileTyped DEF Look, TypeOK
<1>5. ASSUME NEW p \in Procs, CliTick(p) PROVE TypeOK' /\ BatchPlaced'
  BY <1>5, FileTyped DEF CliTick, TypeOK
<1>6. ASSUME NEW p \in Procs, ClaimDue(p) PROVE TypeOK' /\ BatchPlaced'
  <2> DEFINE f == [j \in Jobs |-> IF j \in DueIn(p) THEN Claimed(j, copy[p][j], at[p])
                                  ELSE copy[p][j]]
  <2>1. f \in Files
    BY ClaimedEntry DEF TypeOK, Files
  <2>2. NoWrite(p) \/ Write(p, f)
    BY <1>6 DEF ClaimDue
  <2>3. claimed' \in [Jobs -> Nat \cup {None}] /\ tries' \in [Jobs -> Nat]
    BY <1>6 DEF ClaimDue, TypeOK, Files, Entries
  <2>4. DueIn(p) \subseteq Jobs
    BY DEF DueIn
  <2> HIDE DEF f
  <2>5. QED
    BY <1>6, <2>1, <2>2, <2>3, <2>4, FileTyped DEF ClaimDue, TypeOK
<1>7. ASSUME NEW p \in Procs, NEW j \in Jobs, RunByHand(p, j) PROVE TypeOK' /\ BatchPlaced'
  BY <1>7 DEF RunByHand, TypeOK
<1>8. ASSUME NEW p \in Procs, NEW j \in Jobs, NEW how \in Marks, EndFire(p, j, how)
      PROVE  TypeOK' /\ BatchPlaced'
  <2>1. /\ pc[p] = "fire" /\ j \in batch[p] /\ Read(p)
        /\ pc' = [pc EXCEPT ![p] = "mark"]
        /\ cur' = [cur EXCEPT ![p] = [job |-> j, op |-> how]]
        /\ UNCHANGED <<now, lock, at, batch, ghostVars>>
    BY <1>8 DEF EndFire
  <2>2. cur'[p] \in [job : batch'[p], op : Marks]
    BY <2>1 DEF TypeOK
  <2>3. QED
    BY <2>1, <2>2, FileTyped DEF TypeOK
<1>9. ASSUME NEW p \in Procs, Mark(p) PROVE TypeOK' /\ BatchPlaced'
  <2> DEFINE j == cur[p].job
             e == Marked(p, j)
             f == [copy[p] EXCEPT ![j] = e]
  <2>1. pc[p] = "mark" /\ Write(p, f)
    BY <1>9 DEF Mark
  <2>2. j \in Jobs /\ e \in Entries
    BY <2>1, MarkedEntry
  <2>3. f \in Files
    BY <2>2 DEF TypeOK, Files
  <2>4. /\ batch' \in [Procs -> SUBSET Jobs]
        /\ claimed' \in [Jobs -> Nat \cup {None}] /\ tries' \in [Jobs -> Nat]
        /\ off' \subseteq Jobs /\ byHand' \subseteq Jobs
    BY <1>9, <2>2 DEF Mark, TypeOK
  <2>5. \A q \in Procs : q # p => batch'[q] = batch[q]
    BY <1>9 DEF Mark, TypeOK
  <2>6. /\ pc' = [pc EXCEPT ![p] = "fire"] /\ cur' = [cur EXCEPT ![p] = NoWork]
        /\ UNCHANGED <<now, lock, at, fresh>>
    BY <1>9 DEF Mark
  <2> HIDE DEF f, e, j
  <2>7. \A q \in Procs : pc'[q] = (IF q = p THEN "fire" ELSE pc[q])
                         /\ cur'[q] = (IF q = p THEN NoWork ELSE cur[q])
    BY <2>6 DEF TypeOK
  <2>8. /\ store' \in Files /\ copy' \in [Procs -> Files]
        /\ stale' \subseteq Procs /\ lost' \in BOOLEAN
    BY <2>1, <2>3, FileTyped
  <2>9. TypeOK'
    BY <2>1, <2>4, <2>5, <2>6, <2>7, <2>8 DEF TypeOK
  <2>10. BatchPlaced'
    BY <2>1, <2>5, <2>7
  <2>11. QED
    BY <2>9, <2>10
<1>10. ASSUME NEW p \in Procs, EndTick(p) PROVE TypeOK' /\ BatchPlaced'
  BY <1>10 DEF EndTick, Leave, Unlock, TypeOK
<1>11. ASSUME NEW p \in Procs, NEW j \in Jobs, NEW op \in Edits, StartEdit(p, j, op)
       PROVE  TypeOK' /\ BatchPlaced'
  <2>1. /\ p \in Clis /\ pc[p] = "idle" /\ Read(p)
        /\ pc' = [pc EXCEPT ![p] = "edit"]
        /\ cur' = [cur EXCEPT ![p] = [job |-> j, op |-> op]]
        /\ fresh' \subseteq Jobs
        /\ UNCHANGED <<now, lock, at, batch, claimed, tries, off, byHand>>
    BY <1>11 DEF StartEdit, TypeOK
  <2>2. cur'[p] \in [job : Jobs, op : Edits]
    BY <2>1 DEF TypeOK
  <2>3. QED
    BY <2>1, <2>2, FileTyped DEF TypeOK
<1>12. ASSUME NEW p \in Procs, NEW delay \in Delays, EndEdit(p, delay)
       PROVE  TypeOK' /\ BatchPlaced'
  <2> DEFINE j == cur[p].job
             f == [copy[p] EXCEPT ![j] = Edited(p, delay)]
  <2>1. pc[p] = "edit" /\ Write(p, f)
    BY <1>12 DEF EndEdit
  <2>2. j \in Jobs /\ Edited(p, delay) \in Entries
    BY <2>1, EditedEntry
  <2>3. f \in Files
    BY <2>2 DEF TypeOK, Files
  <2>4. /\ claimed' \in [Jobs -> Nat \cup {None}] /\ tries' \in [Jobs -> Nat]
        /\ off' \subseteq Jobs /\ byHand' \subseteq Jobs
    BY <1>12, <2>2 DEF EndEdit, TypeOK
  <2>5. /\ pc' = [pc EXCEPT ![p] = IF p \in Gateways THEN "idle" ELSE "done"]
        /\ cur' = [cur EXCEPT ![p] = NoWork]
        /\ UNCHANGED <<now, lock, at, batch, fresh>>
    BY <1>12 DEF EndEdit, Leave
  <2> HIDE DEF f, j
  <2>6. \A q \in Procs : /\ q # p => pc'[q] = pc[q] /\ cur'[q] = cur[q]
                         /\ pc'[p] \in {"idle", "done"} /\ cur'[p] = NoWork
    BY <2>5 DEF TypeOK
  <2>7. /\ store' \in Files /\ copy' \in [Procs -> Files]
        /\ stale' \subseteq Procs /\ lost' \in BOOLEAN
    BY <2>1, <2>3, FileTyped
  <2>8. TypeOK'
    BY <2>1, <2>4, <2>5, <2>6, <2>7 DEF TypeOK
  <2>9. BatchPlaced'
    BY <2>1, <2>5, <2>6
  <2>10. QED
    BY <2>8, <2>9
<1>13. ASSUME NEW p \in Procs, Crash(p) PROVE TypeOK' /\ BatchPlaced'
  <2>1. /\ pc' = [pc EXCEPT ![p] = IF p \in Gateways THEN "idle" ELSE "done"]
        /\ cur' = [cur EXCEPT ![p] = NoWork] /\ NoWrite(p)
        /\ at' = [at EXCEPT ![p] = 0] /\ batch' = [batch EXCEPT ![p] = {}]
        /\ UNCHANGED <<now, ghostVars>>
        /\ lock' = IF lock = p THEN "free" ELSE lock
    BY <1>13 DEF Crash, Leave, Unlock
  <2>2. \A q \in Procs :
          /\ q # p => pc'[q] = pc[q] /\ cur'[q] = cur[q] /\ batch'[q] = batch[q]
          /\ pc'[p] \in {"idle", "done"} /\ cur'[p] = NoWork /\ batch'[p] = {}
    BY <2>1 DEF TypeOK
  <2>3. at' \in [Procs -> 0..MaxTime] /\ batch' \in [Procs -> SUBSET Jobs]
    BY <2>1 DEF TypeOK
  <2>4. /\ store' \in Files /\ copy' \in [Procs -> Files]
        /\ stale' \subseteq Procs /\ lost' \in BOOLEAN
    BY <2>1, FileTyped
  <2>5. TypeOK'
    BY <2>1, <2>2, <2>3, <2>4 DEF TypeOK
  <2>6. BatchPlaced'
    BY <2>2
  <2>7. QED
    BY <2>5, <2>6
<1>14. CASE UNCHANGED vars
  BY <1>14 DEF vars, TypeOK
<1>15. QED
  BY <1>1, <1>2, <1>3, <1>4, <1>5, <1>6, <1>7, <1>8, <1>9, <1>10, <1>11, <1>12,
     <1>13, <1>14 DEF Next

-----------------------------------------------------------------------------
(* The file *)

\* Where a process has read and not yet written the file.
ReadingPCs == {"recover", "claim", "mark", "edit"}

\* A write that undoes no other is one step from the file, and makes stale what
\* others have read of it.
LEMMA WriteSound ==
  ASSUME SchedInv, ~lost', NEW p \in Procs, pc[p] \in ReadingPCs, NEW f, Write(p, f),
         NEW to, to \notin ReadingPCs, pc' = [pc EXCEPT ![p] = to]
  PROVE  /\ ~lost /\ p \notin stale /\ FileSound /\ copy[p] = store /\ store' = f
         /\ \A q \in Procs : q # p /\ pc[q] \in ReadingPCs => q \in stale'
         /\ CopiesCurrent'
<1>1. ~lost /\ p \notin stale /\ store' = f
  BY DEF Write
<1>2. FileSound
  BY <1>1 DEF SchedInv
<1>3. copy[p] = store
  BY <1>1, <1>2 DEF FileSound, CopiesCurrent, Reading, ReadingPCs
<1>4. \A q \in Procs : q # p /\ pc[q] \in ReadingPCs => q \in stale'
  BY DEF Write, ReadingPCs
<1>5. CopiesCurrent'
  BY <1>4 DEF CopiesCurrent, Reading, ReadingPCs, SchedInv, TypeOK
<1>6. QED
  BY <1>1, <1>2, <1>3, <1>4, <1>5

\* A process that has just read the file has what is in it ...
LEMMA ReadSound ==
  ASSUME SchedInv, ~lost', NEW p \in Procs, Read(p),
         NEW to, pc' = [pc EXCEPT ![p] = to]
  PROVE  ~lost /\ FileSound /\ store' = store /\ CopiesCurrent'
<1>1. ~lost /\ store' = store
  BY DEF Read
<1>2. FileSound
  BY <1>1 DEF SchedInv
<1>3. \A q \in Procs : q # p => /\ copy'[q] = copy[q] /\ pc'[q] = pc[q]
                               /\ (q \in stale' <=> q \in stale)
  BY DEF Read, SchedInv, TypeOK
<1>4. copy'[p] = store
  BY DEF Read, SchedInv, TypeOK
<1>5. ASSUME NEW q \in Procs, Reading(q)', q \notin stale' PROVE copy'[q] = store'
  <2>1. CASE q = p
    BY <1>1, <1>4, <2>1
  <2>2. CASE q # p
    <3>1. copy'[q] = copy[q] /\ q \notin stale
      BY <1>3, <1>5, <2>2
    <3>2. Reading(q)
      BY <1>3, <1>5, <2>2 DEF Reading
    <3>3. QED
      BY <1>1, <1>2, <1>5, <3>1, <3>2 DEF FileSound, CopiesCurrent
  <2>3. QED
    BY <2>1, <2>2
<1>6. QED
  BY <1>1, <1>2, <1>5 DEF CopiesCurrent

\* ... and one that writes nothing leaves it alone.
LEMMA NoWriteSound ==
  ASSUME SchedInv, ~lost', NEW p \in Procs, NoWrite(p),
         NEW to, to \notin ReadingPCs, pc' = [pc EXCEPT ![p] = to]
  PROVE  ~lost /\ FileSound /\ store' = store /\ CopiesCurrent'
<1>1. ~lost /\ store' = store
  BY DEF NoWrite
<1>2. FileSound
  BY <1>1 DEF SchedInv
<1>3. \A q \in Procs : q # p => /\ copy'[q] = copy[q] /\ pc'[q] = pc[q]
                               /\ (q \in stale' <=> q \in stale)
  BY DEF NoWrite, Drop, SchedInv, TypeOK
<1>4. pc'[p] = to
  BY DEF SchedInv, TypeOK
<1>5. ASSUME NEW q \in Procs, Reading(q)', q \notin stale' PROVE copy'[q] = store'
  <2>1. q # p
    BY <1>4, <1>5 DEF Reading, ReadingPCs
  <2>2. QED
    <3>1. copy'[q] = copy[q] /\ q \notin stale
      BY <1>3, <1>5, <2>1
    <3>2. Reading(q)
      BY <1>3, <1>5, <2>1 DEF Reading
    <3>3. QED
      BY <1>1, <1>2, <1>5, <3>1, <3>2 DEF FileSound, CopiesCurrent
<1>6. QED
  BY <1>1, <1>2, <1>5 DEF CopiesCurrent

\* recover_missed moves jobs on, and changes nothing else about them.
LEMMA RecoverSound ==
  ASSUME SchedInv, ~lost', NEW p \in Procs, RecoverMissed(p)
  PROVE  FileSound'
<1> DEFINE late == {j \in Jobs : Overdue(j, copy[p][j], at[p])}
           f == [j \in Jobs |-> IF j \in late THEN Skipped(j, copy[p][j], at[p])
                                ELSE copy[p][j]]
<1>1. /\ pc[p] = "recover" /\ pc' = [pc EXCEPT ![p] = "look"]
      /\ NoWrite(p) \/ Write(p, f)
      /\ UNCHANGED <<now, lock, at, batch, cur, ghostVars>>
  BY DEF RecoverMissed, Goto
<1>2. FileSound /\ CopiesCurrent' /\ (store' = store \/ (store' = f /\ copy[p] = store))
  BY <1>1, WriteSound, NoWriteSound DEF ReadingPCs
<1>3. ASSUME NEW j \in Jobs
      PROVE  /\ store'[j].listed = store[j].listed /\ store'[j].enabled = store[j].enabled
             /\ store'[j].running = store[j].running /\ store'[j].fails = store[j].fails
             /\ store'[j].next >= store[j].next
  <2>1. at[p] \in Nat /\ store[j] \in Entries /\ store[j].next \in Nat
    BY ScheduleAssumption DEF SchedInv, TypeOK, Files, Entries
  <2>2. Overdue(j, store[j], at[p]) => store[j].next <= at[p]
    <3>1. Period[j] \in Nat /\ CronGrace \in Nat /\ MinGrace \in Nat
      BY ScheduleAssumption
    <3>2. QED
      BY <2>1, <3>1 DEF Overdue, Greater
  <2>3. CASE store'[j] = store[j]
    BY <2>1, <2>3
  <2>4. CASE store'[j] = Skipped(j, store[j], at[p]) /\ Overdue(j, store[j], at[p])
    <3> DEFINE e == Skipped(j, store[j], at[p])
    <3>1. /\ e.listed = store[j].listed /\ e.enabled = store[j].enabled
          /\ e.running = store[j].running /\ e.fails = store[j].fails
          /\ e.next = NextFire(j, at[p])
      BY <1>3, <2>1, SkippedEntry
    <3>2. NextFire(j, at[p]) \in Nat /\ NextFire(j, at[p]) > at[p]
      BY <1>3, <2>1, NextFireLater
    <3>3. store'[j] = e /\ store[j].next <= at[p]
      BY <2>2, <2>4
    <3> HIDE DEF e
    <3>4. QED
      BY <2>1, <3>1, <3>2, <3>3
  <2>5. QED
    BY <1>2, <2>3, <2>4
<1>4. FreshUnused' /\ OffStaysOff' /\ BatchRuns' /\ TriesCounted'
  <2>1. \A q \in Procs : pc'[q] = "edit" => pc[q] = "edit" /\ (q \notin stale' => q \notin stale)
    BY <1>1 DEF SchedInv, TypeOK, Write, NoWrite
  <2>2. FreshUnused'
    BY <1>1, <1>2, <1>3, <2>1 DEF FileSound, FreshUnused, Unused, SchedInv, TypeOK, ghostVars
  <2>3. OffStaysOff' /\ BatchRuns' /\ TriesCounted'
    BY <1>1, <1>2, <1>3 DEF FileSound, OffStaysOff, BatchRuns, TriesCounted, SchedInv, TypeOK,
      ghostVars
  <2>4. QED
    BY <2>2, <2>3
<1>5. SlotsAdvance'
  <2>1. \A j \in Jobs : store[j].next \in Nat /\ store'[j].next \in Nat /\ claimed[j] \in Int
    BY <1>2, <1>3, NextTyped DEF SchedInv, TypeOK, Files, Entries, None, Next
  <2>2. QED
    BY <1>1, <1>2, <1>3, <2>1 DEF FileSound, SlotsAdvance, ghostVars
<1>6. QED
  BY <1>2, <1>4, <1>5 DEF FileSound

\* claim_due parks what it claims, or moves it past the slot it claims.
LEMMA ClaimSound ==
  ASSUME SchedInv, ~lost', NEW p \in Procs, ClaimDue(p)
  PROVE  FileSound'
<1> DEFINE f == [j \in Jobs |-> IF j \in DueIn(p) THEN Claimed(j, copy[p][j], at[p])
                                ELSE copy[p][j]]
<1>1. /\ pc[p] = "claim" /\ pc' = [pc EXCEPT ![p] = "fire"]
      /\ IF DueIn(p) = {} THEN NoWrite(p) ELSE Write(p, f)
      /\ batch' = [batch EXCEPT ![p] = DueIn(p)]
      /\ claimed' = [j \in Jobs |-> IF j \in DueIn(p) THEN copy[p][j].next ELSE claimed[j]]
      /\ tries' = [j \in Jobs |-> IF j \in DueIn(p) /\ Once(j) THEN tries[j] + 1
                                 ELSE tries[j]]
      /\ UNCHANGED <<now, lock, at, cur, fresh, off, byHand>>
  BY DEF ClaimDue, Goto
<1>2. /\ FileSound /\ CopiesCurrent'
      /\ \/ DueIn(p) = {} /\ store' = store
         \/ store' = f /\ copy[p] = store
  BY <1>1, WriteSound, NoWriteSound DEF ReadingPCs
<1>3. ASSUME NEW j \in Jobs, j \notin DueIn(p)
      PROVE  store'[j] = store[j] /\ claimed'[j] = claimed[j] /\ tries'[j] = tries[j]
  BY <1>1, <1>2, <1>3
<1>4. ASSUME NEW j \in Jobs, j \in DueIn(p)
      PROVE  /\ store[j] \in Entries /\ store'[j] = Claimed(j, store[j], at[p])
             /\ store[j].listed /\ store[j].enabled /\ store[j].next <= at[p]
             /\ claimed'[j] = store[j].next
             /\ tries'[j] = IF Once(j) THEN tries[j] + 1 ELSE tries[j]
  BY <1>1, <1>2, <1>4 DEF DueIn, Due, SchedInv, TypeOK, Files
<1>5. /\ at[p] \in Nat /\ \A j \in Jobs : store[j].next \in Nat /\ store[j].fails \in Nat
                                        /\ tries[j] \in Nat
      /\ GiveUpAfter \in Nat
  BY ScheduleAssumption DEF SchedInv, TypeOK, Files, Entries
<1>6. FreshUnused'
  <2>1. fresh \cap DueIn(p) = {}
    BY <1>2, <1>4 DEF FileSound, FreshUnused, Unused, SchedInv, TypeOK
  <2>2. \A q \in Procs : pc'[q] = "edit" => pc[q] = "edit" /\ (q \notin stale' => q \notin stale)
    BY <1>1 DEF SchedInv, TypeOK, Write, NoWrite
  <2>3. \A q \in Procs : pc'[q] = "edit" /\ q \notin stale' => store' = store /\ DueIn(p) = {}
    <3>1. ASSUME NEW q \in Procs, pc'[q] = "edit", Write(p, f) PROVE q \in stale'
      <4>1. q # p /\ pc[q] = "edit"
        BY <1>1, <3>1 DEF SchedInv, TypeOK
      <4>2. QED
        BY <1>1, <3>1, <4>1, WriteSound DEF ReadingPCs
    <3>2. QED
      BY <1>1, <3>1 DEF NoWrite
  <2>4. \A q \in Procs : pc[q] = "edit" => cur[q].job \in Jobs
    BY DEF SchedInv, TypeOK
  <2>5. QED
    BY <1>1, <1>2, <1>3, <2>1, <2>2, <2>3, <2>4 DEF FileSound, FreshUnused, Unused, SchedInv, TypeOK
<1>7. SlotsAdvance'
  <2>1. ASSUME NEW j \in Jobs \ byHand, store'[j].listed, store'[j].enabled
        PROVE  store'[j].next > claimed'[j]
    <3>1. CASE j \in DueIn(p)
      <4>1. /\ store'[j] = Claimed(j, store[j], at[p]) /\ store[j] \in Entries
            /\ claimed'[j] = store[j].next /\ store[j].next <= at[p]
        BY <1>4, <2>1, <3>1
      <4>2. ~Once(j) /\ store'[j].next = NextFire(j, at[p])
        BY <1>5, <2>1, <4>1, ClaimedEntry
      <4>3. NextFire(j, at[p]) \in Nat /\ NextFire(j, at[p]) > at[p]
        BY <1>5, <2>1, NextFireLater
      <4>4. QED
        BY <1>5, <2>1, <4>1, <4>2, <4>3
    <3>2. CASE j \notin DueIn(p)
      BY <1>2, <1>3, <2>1, <3>2 DEF FileSound, SlotsAdvance
    <3>3. QED
      BY <3>1, <3>2
  <2>2. QED
    BY <1>1, <2>1 DEF SlotsAdvance
<1>8. BatchRuns'
  <2>1. lock = p /\ batch'[p] = DueIn(p) /\ DueIn(p) \subseteq Jobs
    BY <1>1 DEF SchedInv, TypeOK, DueIn
  <2>2. \A j \in DueIn(p) : claimed'[j] <= at[p] /\ store'[j].running
    BY <1>4, <2>1, <1>5, ClaimedEntry
  <2>3. QED
    BY <1>1, <2>1, <2>2 DEF BatchRuns
<1>9. OffStaysOff'
  BY <1>1, <1>2, <1>3, <1>4 DEF FileSound, OffStaysOff, SchedInv, TypeOK
<1>10. TriesCounted'
  <2>1. ASSUME NEW j \in Jobs, Once(j)
        PROVE  /\ tries'[j] <= GiveUpAfter /\ tries'[j] <= store'[j].fails + 1
               /\ store'[j].enabled => tries'[j] <= store'[j].fails /\ tries'[j] < GiveUpAfter
    <3>1. CASE j \in DueIn(p)
      <4>1. tries[j] <= store[j].fails /\ tries[j] < GiveUpAfter
        BY <1>2, <1>4, <2>1, <3>1 DEF FileSound, TriesCounted
      <4>2. QED
        <5>1. ~store'[j].enabled /\ store'[j].fails = store[j].fails
          BY <1>4, <1>5, <2>1, <3>1, ClaimedEntry
        <5>2. tries'[j] = tries[j] + 1
          BY <1>4, <2>1, <3>1
        <5>3. QED
          BY <1>5, <2>1, <4>1, <5>1, <5>2
    <3>2. CASE j \notin DueIn(p)
      BY <1>2, <1>3, <2>1, <3>2 DEF FileSound, TriesCounted
    <3>3. QED
      BY <3>1, <3>2
  <2>2. QED
    BY <2>1 DEF TriesCounted
<1>11. QED
  BY <1>2, <1>6, <1>7, <1>8, <1>9, <1>10 DEF FileSound

\* The mark of a fired job arms it again only past the slot claimed, or, after a
\* failure that was counted, below the budget.
LEMMA MarkSound ==
  ASSUME SchedInv, ~lost', NEW p \in Procs, Mark(p)
  PROVE  FileSound'
<1> DEFINE j == cur[p].job
           e == Marked(p, j)
           again == Once(j) /\ cur[p].op = "failed" /\ e.enabled
           f == [copy[p] EXCEPT ![j] = e]
<1>1. /\ pc[p] = "mark" /\ Write(p, f)
      /\ batch' = [batch EXCEPT ![p] = @ \ {j}]
      /\ claimed' = [claimed EXCEPT ![j] = IF again THEN None ELSE @]
      /\ tries' = [tries EXCEPT ![j] = IF cur[p].op = "fired" THEN 0 ELSE @]
      /\ off' = (IF again THEN off \ {j} ELSE off)
      /\ byHand' = (IF lock = p \/ ~e.listed THEN byHand ELSE byHand \cup {j})
      /\ cur' = [cur EXCEPT ![p] = NoWork] /\ pc' = [pc EXCEPT ![p] = "fire"]
      /\ UNCHANGED <<now, lock, at, fresh>>
  BY DEF Mark, Goto
<1>2. j \in batch[p] /\ j \in Jobs /\ cur[p].op \in Marks /\ e \in Entries
  BY <1>1, MarkedEntry DEF SchedInv
<1>3. /\ FileSound /\ CopiesCurrent' /\ store' = f /\ copy[p] = store /\ p \notin stale
      /\ \A q \in Procs : q # p /\ pc[q] \in ReadingPCs => q \in stale'
  BY <1>1, WriteSound DEF ReadingPCs
<1>4. /\ at \in [Procs -> Nat] /\ store[j] \in Entries /\ claimed[j] \in Int
      /\ tries[j] \in Nat /\ GiveUpAfter \in Nat /\ FailCap \in Nat /\ GiveUpAfter <= FailCap
      /\ GiveUpAfter > 0
  BY <1>2, ScheduleAssumption DEF SchedInv, TypeOK, Files, None
<1>5. ASSUME NEW k \in Jobs, k # j
      PROVE  /\ store'[k] = store[k] /\ claimed'[k] = claimed[k] /\ tries'[k] = tries[k]
             /\ (k \in off' <=> k \in off) /\ (k \in byHand' <=> k \in byHand)
  BY <1>1, <1>2, <1>3, <1>5 DEF SchedInv, TypeOK, Files
<1>6. /\ store'[j] = e /\ claimed'[j] = (IF again THEN None ELSE claimed[j])
      /\ tries'[j] = (IF cur[p].op = "fired" THEN 0 ELSE tries[j])
  BY <1>1, <1>2, <1>3 DEF SchedInv, TypeOK, Files
<1>7. /\ ~store[j].listed => e = store[j]
      /\ store[j].listed /\ cur[p].op = "fired" => e = Fired(j, store[j], at[p])
      /\ store[j].listed /\ cur[p].op = "failed" => e = Failed(j, store[j], at[p])
  BY <1>3 DEF Marked
<1> DEFINE t == at[p]
<1>8. /\ e.listed = store[j].listed
      /\ store[j].listed /\ cur[p].op = "fired" =>
           /\ e.fails = 0 /\ (e.enabled => store[j].enabled)
           /\ store[j].running => e.next = store[j].next
      /\ store[j].listed /\ cur[p].op = "failed" =>
           /\ e.fails = Lesser(store[j].fails + 1, FailCap)
           /\ ~Once(j) => e.enabled = store[j].enabled /\ (e.next = store[j].next \/ e.next > t)
           /\ Once(j) => e.enabled = (e.fails < GiveUpAfter)
  <2>1. j \in Jobs /\ store[j] \in Entries /\ t \in Nat
    BY <1>2, <1>4
  <2> HIDE DEF e, j, t
  <2>2. CASE ~store[j].listed
    BY <1>7, <2>2
  <2>3. CASE store[j].listed /\ cur[p].op = "fired"
    <3> DEFINE d == Fired(j, store[j], t)
    <3>1. /\ d.listed = store[j].listed /\ d.fails = 0 /\ (d.enabled => store[j].enabled)
          /\ store[j].running => d.next = store[j].next
      BY <2>1, FiredEntry
    <3>2. e = d
      BY <1>7, <2>3 DEF t
    <3> HIDE DEF d
    <3>3. QED
      BY <2>3, <3>1, <3>2
  <2>4. CASE store[j].listed /\ cur[p].op = "failed"
    <3> DEFINE d == Failed(j, store[j], t)
    <3>1. /\ d.listed = store[j].listed /\ d.fails = Lesser(store[j].fails + 1, FailCap)
          /\ ~Once(j) => d.enabled = store[j].enabled /\ (d.next = store[j].next \/ d.next > t)
          /\ Once(j) => d.enabled = (d.fails < GiveUpAfter)
      BY <2>1, FailedEntry
    <3>2. e = d
      BY <1>7, <2>4 DEF t
    <3> HIDE DEF d
    <3>3. QED
      BY <2>4, <3>1, <3>2
  <2>5. QED
    BY <1>2, <2>2, <2>3, <2>4 DEF Marks
<1>9. e.next \in Nat /\ store[j].next \in Nat /\ store[j].fails \in 0..FailCap /\ t \in Nat
  BY <1>2, <1>4 DEF Entries
<1> HIDE DEF e, j, t, f
<1>10. FreshUnused'
  <2>1. ASSUME NEW k \in fresh PROVE Unused(k)'
    <3>1. k \in Jobs /\ Unused(k)
      BY <1>3, <2>1 DEF SchedInv, TypeOK, FileSound, FreshUnused
    <3>2. k # j
      BY <1>2, <3>1 DEF Unused
    <3>3. \A q \in Procs : batch'[q] \subseteq batch[q]
      BY <1>1 DEF SchedInv, TypeOK
    <3>4. QED
      BY <1>5, <3>1, <3>2, <3>3 DEF Unused
  <2>2. ASSUME NEW q \in Procs, pc'[q] = "edit"
        PROVE  cur'[q] = cur[q] /\ pc[q] = "edit" /\ q \in stale'
    BY <1>1, <1>3, <2>2 DEF SchedInv, TypeOK, ReadingPCs
  <2>3. QED
    BY <1>1, <1>3, <2>1, <2>2 DEF FileSound, FreshUnused
<1>11. SlotsAdvance'
  <2>1. ASSUME NEW k \in Jobs, k \notin byHand', store'[k].listed, store'[k].enabled
        PROVE  store'[k].next > claimed'[k]
    <3>1. CASE k # j
      BY <1>3, <1>5, <2>1, <3>1 DEF FileSound, SlotsAdvance
    <3>2. CASE k = j
      <4>1. lock = p /\ j \notin byHand /\ store[j].listed /\ e.enabled
        BY <1>1, <1>6, <1>8, <2>1, <3>2
      <4>2. claimed[j] <= t /\ store[j].running
        BY <1>2, <1>3, <4>1 DEF FileSound, BatchRuns, t
      <4>3. store[j].enabled => store[j].next > claimed[j]
        BY <1>2, <1>3, <4>1 DEF FileSound, SlotsAdvance
      <4>4. CASE again
        BY <1>6, <1>9, <3>2, <4>4 DEF None
      <4>5. CASE ~again
        <5>1. store[j].enabled /\ (e.next = store[j].next \/ e.next > t)
          BY <1>2, <1>8, <4>1, <4>2, <4>5 DEF Marks
        <5>2. QED
          BY <1>4, <1>6, <1>9, <3>2, <4>2, <4>3, <4>5, <5>1
      <4>6. QED
        BY <4>4, <4>5
    <3>3. QED
      BY <3>1, <3>2
  <2>2. QED
    BY <2>1 DEF SlotsAdvance
<1>12. BatchRuns'
  <2>1. ASSUME NEW q \in Procs, lock = q, NEW k \in batch'[q]
        PROVE  /\ claimed'[k] <= at[q]
               /\ store'[k].listed /\ k \notin byHand' => store'[k].running
    <3>1. k \in batch[q] /\ k \in Jobs /\ (k = j => q # p) /\ at[q] \in Nat
      BY <1>1, <1>4, <2>1 DEF SchedInv, TypeOK
    <3>2. /\ claimed[k] <= at[q]
          /\ store[k].listed /\ k \notin byHand => store[k].running
      BY <1>3, <2>1, <3>1 DEF FileSound, BatchRuns
    <3>3. CASE k # j
      BY <1>5, <3>1, <3>2, <3>3
    <3>4. CASE k = j
      BY <1>1, <1>6, <2>1, <3>1, <3>2, <3>4 DEF None
    <3>5. QED
      BY <3>3, <3>4
  <2>2. QED
    BY <1>1, <2>1 DEF BatchRuns
<1>13. OffStaysOff'
  <2>1. ASSUME NEW k \in off', store'[k].listed, store'[k].enabled PROVE FALSE
    <3>1. k \in off /\ k \in Jobs
      BY <1>1, <2>1 DEF SchedInv, TypeOK
    <3>2. ~(store[k].listed /\ store[k].enabled)
      BY <1>3, <3>1 DEF FileSound, OffStaysOff
    <3>3. CASE k # j
      BY <1>5, <2>1, <3>1, <3>2, <3>3
    <3>4. CASE k = j
      <4>1. ~again
        BY <1>1, <2>1, <3>4
      <4>2. QED
        BY <1>2, <1>6, <1>8, <2>1, <3>2, <3>4, <4>1 DEF Marks
    <3>5. QED
      BY <3>3, <3>4
  <2>2. QED
    BY <2>1 DEF OffStaysOff
<1>14. TriesCounted'
  <2>1. ASSUME NEW k \in Jobs, Once(k)
        PROVE  /\ tries'[k] <= GiveUpAfter /\ tries'[k] <= store'[k].fails + 1
               /\ store'[k].enabled => tries'[k] <= store'[k].fails /\ tries'[k] < GiveUpAfter
    <3>1. /\ tries[k] <= GiveUpAfter /\ tries[k] <= store[k].fails + 1
          /\ store[k].enabled => tries[k] <= store[k].fails /\ tries[k] < GiveUpAfter
      BY <1>3, <2>1 DEF FileSound, TriesCounted
    <3>2. CASE k # j
      BY <1>5, <3>1, <3>2
    <3>3. CASE k = j /\ cur[p].op = "fired"
      <4>1. tries'[j] = 0 /\ e.fails \in Nat
        BY <1>2, <1>6, <3>3 DEF Entries
      <4>2. QED
        BY <1>4, <1>6, <3>3, <4>1
    <3>4. CASE k = j /\ cur[p].op = "failed" /\ store[j].listed
      <4>1. tries'[j] = tries[j] /\ e.fails = Lesser(store[j].fails + 1, FailCap)
            /\ e.enabled = (e.fails < GiveUpAfter)
        BY <1>6, <1>8, <2>1, <3>4
      <4>2. tries[j] <= Lesser(store[j].fails + 1, FailCap)
        BY <1>4, <1>9, <3>1, <3>4 DEF Lesser
      <4>3. store'[k] = e /\ tries'[k] = tries[j]
        BY <1>6, <3>4, <4>1
      <4>4. e.fails \in Nat
        BY <1>2 DEF Entries
      <4>5. e.enabled => e.fails < GiveUpAfter
        BY <4>1
      <4>6. tries[j] <= e.fails
        BY <4>1, <4>2
      <4>7. QED
        BY <1>4, <3>1, <3>4, <4>3, <4>4, <4>5, <4>6
    <3>5. CASE k = j /\ cur[p].op = "failed" /\ ~store[j].listed
      BY <1>6, <1>7, <3>1, <3>5
    <3>6. QED
      BY <1>2, <3>2, <3>3, <3>4, <3>5 DEF Marks
  <2>2. QED
    BY <2>1 DEF TriesCounted
<1>15. QED
  BY <1>3, <1>10, <1>11, <1>12, <1>13, <1>14 DEF FileSound

\* An edit arms a job anew, or switches it off; an added job is a new one.
LEMMA EditSound ==
  ASSUME SchedInv, ~lost', NEW p \in Procs, NEW delay \in Delays, EndEdit(p, delay)
  PROVE  FileSound'
<1> DEFINE j == cur[p].job
           op == cur[p].op
           e == Edited(p, delay)
           anew == op \in {"resume", "remove"}
           f == [copy[p] EXCEPT ![j] = e]
           to == IF p \in Gateways THEN "idle" ELSE "done"
<1>1. /\ pc[p] = "edit" /\ Write(p, f)
      /\ claimed' = [claimed EXCEPT ![j] = IF anew THEN None ELSE @]
      /\ tries' = [tries EXCEPT ![j] = IF anew THEN 0 ELSE @]
      /\ off' = (IF op \in {"pause", "remove"} THEN off \cup {j} ELSE off \ {j})
      /\ byHand' = (IF op = "remove" THEN byHand \ {j} ELSE byHand)
      /\ cur' = [cur EXCEPT ![p] = NoWork] /\ pc' = [pc EXCEPT ![p] = to]
      /\ UNCHANGED <<now, lock, at, batch, fresh>>
  BY DEF EndEdit, Leave, Goto
<1>2. j \in Jobs /\ op \in Edits /\ e \in Entries
  BY <1>1, EditedEntry DEF SchedInv
<1>3. /\ FileSound /\ CopiesCurrent' /\ store' = f /\ copy[p] = store /\ p \notin stale
      /\ \A q \in Procs : q # p /\ pc[q] \in ReadingPCs => q \in stale'
  <2>1. to \notin ReadingPCs
    BY DEF ReadingPCs
  <2> HIDE DEF to, f
  <2>2. QED
    BY <1>1, <2>1, WriteSound DEF ReadingPCs
<1>4. /\ at \in [Procs -> Nat] /\ store[j] \in Entries /\ claimed[j] \in Int
      /\ tries[j] \in Nat /\ GiveUpAfter \in Nat /\ GiveUpAfter > 0 /\ now \in Nat
      /\ delay \in Nat
  BY <1>2, ScheduleAssumption DEF SchedInv, TypeOK, Files, None
<1>5. ASSUME NEW k \in Jobs, k # j
      PROVE  /\ store'[k] = store[k] /\ claimed'[k] = claimed[k] /\ tries'[k] = tries[k]
             /\ (k \in off' <=> k \in off) /\ (k \in byHand' <=> k \in byHand)
  BY <1>1, <1>2, <1>3, <1>5 DEF SchedInv, TypeOK, Files
<1>6. /\ store'[j] = e /\ claimed'[j] = (IF anew THEN None ELSE claimed[j])
      /\ tries'[j] = (IF anew THEN 0 ELSE tries[j])
      /\ (j \in off' <=> op \in {"pause", "remove"})
  BY <1>1, <1>2, <1>3 DEF SchedInv, TypeOK, Files
<1>7. op = "add" => Unused(j)
  BY <1>1, <1>3 DEF FileSound, FreshUnused
<1>8. /\ op = "add" => e.fails = 0
      /\ op = "pause" => /\ ~e.enabled /\ e.listed = store[j].listed
                         /\ e.running = store[j].running /\ e.fails = store[j].fails
      /\ op = "resume" => e.listed = store[j].listed /\ e.running = store[j].running
      /\ op = "remove" => ~e.listed /\ ~e.enabled
  <2>1. CASE op = "add"
    BY <1>2, <1>4, <2>1, AddedEntry DEF Edited
  <2>2. CASE op = "pause"
    BY <1>3, <1>4, <2>2 DEF Edited, Entries
  <2>3. CASE op = "resume"
    <3> DEFINE d == Resumed(j, store[j], now)
    <3>1. d.listed = store[j].listed /\ d.running = store[j].running
      BY <1>2, <1>4, ResumedEntry
    <3>2. e = d
      BY <1>3, <2>3 DEF Edited
    <3> HIDE DEF d, e
    <3>3. QED
      BY <2>3, <3>1, <3>2
  <2>4. CASE op = "remove"
    BY <2>4 DEF Edited, Unlisted
  <2> HIDE DEF e, op
  <2>5. QED
    BY <1>2, <2>1, <2>2, <2>3, <2>4 DEF Edits
<1>9. e.next \in Nat /\ e.fails \in Nat /\ store[j].fails \in Nat
  BY <1>2, <1>4 DEF Entries
<1>10. j \notin fresh
  BY <1>1, <1>3 DEF FileSound, FreshUnused
<1> HIDE DEF e, j, op, f, to
<1>11. FreshUnused'
  <2>1. ASSUME NEW k \in fresh PROVE Unused(k)'
    <3>1. k \in Jobs /\ Unused(k) /\ k # j
      BY <1>3, <1>10, <2>1 DEF SchedInv, TypeOK, FileSound, FreshUnused
    <3>2. QED
      BY <1>1, <1>5, <3>1 DEF Unused
  <2>2. ASSUME NEW q \in Procs, pc'[q] = "edit"
        PROVE  cur'[q] = cur[q] /\ pc[q] = "edit" /\ q \in stale'
    BY <1>1, <1>3, <2>2 DEF SchedInv, TypeOK, ReadingPCs, to
  <2>3. QED
    BY <1>1, <1>3, <2>1, <2>2 DEF FileSound, FreshUnused
<1>12. SlotsAdvance'
  <2>1. ASSUME NEW k \in Jobs, k \notin byHand', store'[k].listed, store'[k].enabled
        PROVE  store'[k].next > claimed'[k]
    <3>1. CASE k # j
      BY <1>3, <1>5, <2>1, <3>1 DEF FileSound, SlotsAdvance
    <3>2. CASE k = j
      <4>1. claimed'[j] = None
        BY <1>2, <1>6, <1>7, <1>8, <2>1, <3>2 DEF Unused, Edits
      <4>2. QED
        BY <1>6, <1>9, <3>2, <4>1 DEF None
    <3>3. QED
      BY <3>1, <3>2
  <2>2. QED
    BY <2>1 DEF SlotsAdvance
<1>13. BatchRuns'
  <2>1. ASSUME NEW q \in Procs, lock = q, NEW k \in batch[q]
        PROVE  /\ claimed'[k] <= at[q]
               /\ store'[k].listed /\ k \notin byHand' => store'[k].running
    <3>1. k \in Jobs /\ at[q] \in Nat
      BY <1>4, <2>1 DEF SchedInv, TypeOK
    <3>2. /\ claimed[k] <= at[q]
          /\ store[k].listed /\ k \notin byHand => store[k].running
      BY <1>3, <2>1, <3>1 DEF FileSound, BatchRuns
    <3>3. CASE k # j
      BY <1>5, <3>1, <3>2, <3>3
    <3>4. CASE k = j
      <4>1. op # "add"
        BY <1>7, <2>1, <3>4 DEF Unused
      <4>2. op # "remove" => byHand' = byHand
        BY <1>1
      <4>3. claimed'[k] <= at[q]
        BY <1>6, <3>1, <3>2, <3>4 DEF None
      <4>4. QED
        BY <1>2, <1>6, <1>8, <3>2, <3>4, <4>1, <4>2, <4>3 DEF Edits
    <3>5. QED
      BY <3>3, <3>4
  <2>2. QED
    BY <1>1, <2>1 DEF BatchRuns
<1>14. OffStaysOff'
  <2>1. ASSUME NEW k \in off', store'[k].listed, store'[k].enabled PROVE FALSE
    <3>1. CASE k # j
      <4>1. k \in off /\ k \in Jobs
        BY <1>1, <2>1, <3>1 DEF SchedInv, TypeOK
      <4>2. QED
        BY <1>3, <1>5, <2>1, <3>1, <4>1 DEF FileSound, OffStaysOff
    <3>2. CASE k = j
      BY <1>6, <1>8, <2>1, <3>2
    <3>3. QED
      BY <3>1, <3>2
  <2>2. QED
    BY <2>1 DEF OffStaysOff
<1>15. TriesCounted'
  <2>1. ASSUME NEW k \in Jobs, Once(k)
        PROVE  /\ tries'[k] <= GiveUpAfter /\ tries'[k] <= store'[k].fails + 1
               /\ store'[k].enabled => tries'[k] <= store'[k].fails /\ tries'[k] < GiveUpAfter
    <3>1. /\ tries[k] <= GiveUpAfter /\ tries[k] <= store[k].fails + 1
          /\ store[k].enabled => tries[k] <= store[k].fails /\ tries[k] < GiveUpAfter
      BY <1>3, <2>1 DEF FileSound, TriesCounted
    <3>2. CASE k # j
      BY <1>5, <3>1, <3>2
    <3>3. CASE k = j /\ op # "pause"
      <4>1. tries'[j] = 0
        BY <1>2, <1>6, <1>7, <3>3 DEF Unused, Edits
      <4>2. QED
        BY <1>4, <1>6, <1>9, <3>3, <4>1
    <3>4. CASE k = j /\ op = "pause"
      BY <1>6, <1>8, <3>1, <3>4
    <3>5. QED
      BY <3>2, <3>3, <3>4
  <2>2. QED
    BY <2>1 DEF TriesCounted
<1>16. QED
  BY <1>3, <1>11, <1>12, <1>13, <1>14, <1>15 DEF FileSound

\* A step that leaves the file alone, and takes no job in hand that it does not
\* list, keeps what the file says sound.
LEMMA QuietSound ==
  ASSUME SchedInv, FileSound, store' = store, CopiesCurrent',
         UNCHANGED <<claimed, tries, off, byHand>>, fresh' \subseteq fresh,
         \A q \in Procs : \A k \in batch'[q] : k \in batch[q] \/ store[k].listed,
         \A q \in Procs : lock' = q =>
           \/ batch'[q] = {}
           \/ lock = q /\ batch'[q] \subseteq batch[q] /\ at'[q] = at[q],
         \A q \in Procs : pc'[q] = "edit" =>
           \/ pc[q] = "edit" /\ cur'[q] = cur[q] /\ (q \notin stale' => q \notin stale)
           \/ cur'[q].job \notin fresh' /\ (cur'[q].op = "add" => cur'[q].job \in fresh)
  PROVE  FileSound'
<1>1. SlotsAdvance' /\ OffStaysOff' /\ TriesCounted'
  BY DEF FileSound, SlotsAdvance, OffStaysOff, TriesCounted
<1>2. BatchRuns'
  BY DEF FileSound, BatchRuns
<1>3. \A k : Unused(k) => Unused(k)'
  BY DEF Unused
<1>4. \A k \in fresh' : Unused(k)'
  BY <1>3 DEF FileSound, FreshUnused
<1>5. ASSUME NEW q \in Procs, pc'[q] = "edit"
      PROVE  /\ cur'[q].job \notin fresh'
             /\ cur'[q].op = "add" /\ q \notin stale' => Unused(cur[q].job)'
  <2>1. CASE pc[q] = "edit" /\ cur'[q] = cur[q] /\ (q \notin stale' => q \notin stale)
    <3>1. /\ cur[q].job \notin fresh
          /\ cur[q].op = "add" /\ q \notin stale => Unused(cur[q].job)
      BY <1>5, <2>1 DEF FileSound, FreshUnused
    <3>2. QED
      BY <2>1, <3>1 DEF Unused
  <2>2. CASE cur'[q].job \notin fresh' /\ (cur'[q].op = "add" => cur'[q].job \in fresh)
    <3>1. cur'[q].op = "add" => Unused(cur'[q].job)
      BY <2>2 DEF FileSound, FreshUnused
    <3>2. QED
      BY <2>2, <3>1 DEF Unused
  <2>3. QED
    BY <1>5, <2>1, <2>2
<1>6. FreshUnused'
  BY <1>4, <1>5 DEF FreshUnused
<1>7. QED
  BY <1>1, <1>2, <1>6 DEF FileSound

\* Every step keeps the file sound until a write has undone another.
LEMMA NextSound == SchedInv /\ [Next]_vars /\ ~lost' => FileSound'
<1> SUFFICES ASSUME SchedInv, [Next]_vars, ~lost' PROVE FileSound'
  OBVIOUS
<1> USE DEF storeVars, procVars, ghostVars
<1>1. TypeOK /\ BatchPlaced
  BY DEF SchedInv
<1>2. ASSUME UNCHANGED <<store, stale, lost, pc, copy, cur, claimed, tries, off, byHand, fresh>>,
             \A q \in Procs : \A k \in batch'[q] : k \in batch[q] \/ store[k].listed,
             \A q \in Procs : lock' = q =>
               \/ batch'[q] = {}
               \/ lock = q /\ batch'[q] \subseteq batch[q] /\ at'[q] = at[q]
      PROVE  FileSound'
  <2>1. FileSound
    BY <1>2 DEF SchedInv
  <2>2. CopiesCurrent'
    BY <1>2, <2>1 DEF FileSound, CopiesCurrent, Reading
  <2>3. QED
    BY <1>2, <2>1, <2>2, QuietSound
<1>3. CASE Tick
  BY <1>2, <1>3 DEF Tick
<1>4. CASE UNCHANGED vars
  BY <1>2, <1>4 DEF vars
<1>5. ASSUME NEW p \in Procs, GatewayTick(p) \/ Look(p) \/ CliTick(p) PROVE FileSound'
  <2> DEFINE to == IF GatewayTick(p) THEN "recover" ELSE "claim"
  <2>1. /\ Read(p) /\ pc' = [pc EXCEPT ![p] = to] /\ pc[p] \in {"idle", "look"}
        /\ UNCHANGED <<now, batch, cur, ghostVars>>
        /\ \/ lock' = p
           \/ lock' = lock /\ at' = at
        /\ to # "edit"
    BY <1>1, <1>5 DEF GatewayTick, Look, CliTick, Goto
  <2> HIDE DEF to
  <2>2. FileSound /\ store' = store /\ CopiesCurrent'
    BY <2>1, ReadSound
  <2>3. batch[p] = {}
    BY <1>1, <2>1 DEF BatchPlaced
  <2>4. \A q \in Procs : pc'[q] = "edit" =>
          pc[q] = "edit" /\ cur'[q] = cur[q] /\ (q \notin stale' => q \notin stale)
    BY <1>1, <2>1 DEF TypeOK, Read
  <2>5. QED
    BY <2>1, <2>2, <2>3, <2>4, QuietSound
<1>6. ASSUME NEW p \in Procs, NEW j \in Jobs, NEW how \in Marks, EndFire(p, j, how)
      PROVE  FileSound'
  <2>1. /\ Read(p) /\ pc' = [pc EXCEPT ![p] = "mark"]
        /\ cur' = [cur EXCEPT ![p] = [job |-> j, op |-> how]]
        /\ UNCHANGED <<now, lock, at, batch, ghostVars>>
    BY <1>6 DEF EndFire, Goto
  <2>2. FileSound /\ store' = store /\ CopiesCurrent'
    BY <2>1, ReadSound
  <2>3. \A q \in Procs : pc'[q] = "edit" =>
          pc[q] = "edit" /\ cur'[q] = cur[q] /\ (q \notin stale' => q \notin stale)
    BY <1>1, <2>1 DEF TypeOK, Read
  <2>4. QED
    BY <2>1, <2>2, <2>3, QuietSound
<1>7. ASSUME NEW p \in Procs, NEW j \in Jobs, NEW op \in Edits, StartEdit(p, j, op)
      PROVE  FileSound'
  <2>1. /\ Read(p) /\ pc' = [pc EXCEPT ![p] = "edit"]
        /\ IF op = "add" THEN j \in fresh ELSE store[j].listed
        /\ cur' = [cur EXCEPT ![p] = [job |-> j, op |-> op]]
        /\ fresh' = (IF op = "add" THEN fresh \ {j} ELSE fresh)
        /\ UNCHANGED <<now, lock, at, batch, claimed, tries, off, byHand>>
    BY <1>7 DEF StartEdit, Goto
  <2>2. FileSound /\ store' = store /\ CopiesCurrent'
    BY <2>1, ReadSound
  <2>3. j \notin fresh'
    BY <2>1, <2>2 DEF FileSound, FreshUnused, Unused
  <2>4. ASSUME NEW q \in Procs, pc'[q] = "edit"
        PROVE  \/ pc[q] = "edit" /\ cur'[q] = cur[q] /\ (q \notin stale' => q \notin stale)
               \/ cur'[q].job \notin fresh' /\ (cur'[q].op = "add" => cur'[q].job \in fresh)
    <3>1. CASE q = p
      <4>1. cur'[q] = [job |-> j, op |-> op]
        BY <1>1, <2>1, <3>1 DEF TypeOK
      <4>2. QED
        BY <2>1, <2>3, <4>1
    <3>2. CASE q # p
      BY <1>1, <2>1, <2>4, <3>2 DEF TypeOK, Read
    <3>3. QED
      BY <3>1, <3>2
  <2>5. fresh' \subseteq fresh
    BY <2>1
  <2>6. QED
    BY <2>1, <2>2, <2>4, <2>5, QuietSound
<1>8. ASSUME NEW p \in Procs, NEW j \in Jobs, RunByHand(p, j) PROVE FileSound'
  <2>1. /\ pc[p] = "idle" /\ store[j].listed
        /\ at' = [at EXCEPT ![p] = now] /\ batch' = [batch EXCEPT ![p] = {j}]
        /\ pc' = [pc EXCEPT ![p] = "fire"]
        /\ UNCHANGED <<now, lock, copy, cur, storeVars, ghostVars>>
    BY <1>8 DEF RunByHand, Goto
  <2>2. lock # p
    BY <1>1, <2>1 DEF TypeOK
  <2>3. \A q \in Procs : /\ q # p => batch'[q] = batch[q] /\ at'[q] = at[q] /\ pc'[q] = pc[q]
                         /\ batch'[p] = {j} /\ pc'[p] = "fire"
    BY <1>1, <2>1 DEF TypeOK
  <2>4. FileSound
    BY <2>1 DEF SchedInv
  <2>5. CopiesCurrent'
    BY <2>1, <2>3, <2>4 DEF FileSound, CopiesCurrent, Reading
  <2>6. QED
    BY <2>1, <2>2, <2>3, <2>4, <2>5, QuietSound
<1>9. ASSUME NEW p \in Procs, EndTick(p) PROVE FileSound'
  <2> DEFINE to == IF p \in Gateways THEN "idle" ELSE "done"
  <2>1. /\ pc[p] = "fire" /\ pc' = [pc EXCEPT ![p] = to]
        /\ lock' = (IF lock = p THEN "free" ELSE lock) /\ at' = [at EXCEPT ![p] = 0]
        /\ UNCHANGED <<now, copy, batch, cur, storeVars, ghostVars>>
        /\ to \in {"idle", "done"}
    BY <1>9 DEF EndTick, Unlock, Leave, Goto
  <2> HIDE DEF to
  <2>2. \A q \in Procs : /\ q # p => at'[q] = at[q] /\ pc'[q] = pc[q]
                         /\ pc'[p] \in {"idle", "done"} /\ lock' # p
    BY <1>1, <2>1, ScheduleAssumption DEF TypeOK
  <2>3. FileSound
    BY <2>1 DEF SchedInv
  <2>4. CopiesCurrent'
    BY <2>1, <2>2, <2>3 DEF FileSound, CopiesCurrent, Reading
  <2>5. \A q \in Procs : lock' = q => lock = q /\ batch'[q] \subseteq batch[q] /\ at'[q] = at[q]
    BY <2>1, <2>2, ScheduleAssumption
  <2>6. QED
    BY <2>1, <2>2, <2>3, <2>4, <2>5, QuietSound
<1>10. ASSUME NEW p \in Procs, Crash(p) PROVE FileSound'
  <2> DEFINE to == IF p \in Gateways THEN "idle" ELSE "done"
  <2>1. /\ pc' = [pc EXCEPT ![p] = to] /\ NoWrite(p)
        /\ lock' = (IF lock = p THEN "free" ELSE lock) /\ at' = [at EXCEPT ![p] = 0]
        /\ batch' = [batch EXCEPT ![p] = {}] /\ cur' = [cur EXCEPT ![p] = NoWork]
        /\ UNCHANGED <<now, ghostVars>>
        /\ to \in {"idle", "done"}
    BY <1>10 DEF Crash, Unlock, Leave, Goto
  <2> HIDE DEF to
  <2>2. FileSound /\ store' = store /\ CopiesCurrent'
    BY <2>1, NoWriteSound DEF ReadingPCs
  <2>3. \A q \in Procs : /\ q # p => /\ at'[q] = at[q] /\ pc'[q] = pc[q]
                                     /\ batch'[q] = batch[q] /\ cur'[q] = cur[q]
                                     /\ (q \notin stale' => q \notin stale)
                         /\ pc'[p] \in {"idle", "done"} /\ batch'[p] = {} /\ lock' # p
    BY <1>1, <2>1, ScheduleAssumption DEF TypeOK, NoWrite
  <2>4. \A q \in Procs : lock' = q =>
           \/ batch'[q] = {}
           \/ lock = q /\ batch'[q] \subseteq batch[q] /\ at'[q] = at[q]
    BY <2>1, <2>3, ScheduleAssumption
  <2>5. QED
    BY <2>1, <2>2, <2>3, <2>4, QuietSound
<1>11. ASSUME NEW p \in Procs,
              \/ RecoverMissed(p) \/ ClaimDue(p) \/ Mark(p)
              \/ \E delay \in Delays : EndEdit(p, delay)
       PROVE  FileSound'
  BY <1>11, RecoverSound, ClaimSound, MarkSound, EditSound
<1>12. QED
  BY <1>3, <1>4, <1>5, <1>6, <1>7, <1>8, <1>9, <1>10, <1>11 DEF Next

-----------------------------------------------------------------------------
(* What is promised *)

\* The file of the schedule stays sound until some write undoes another,
\* whatever processes, jobs, periods and budgets there are.
THEOREM ScheduleInvariant == Spec => []SchedInv
<1>1. SchedInv /\ [Next]_vars => SchedInv'
  BY NextTyped, NextSound DEF SchedInv
<1>2. QED
  BY InitSched, <1>1, PTL DEF Spec

\* The variables of the schedule keep their types; work in hand and the lock
\* are where the code of claw/cron.rs puts them.
THEOREM ScheduleTyped == Spec => []TypeOK
<1>1. SchedInv => TypeOK
  BY DEF SchedInv
<1>2. QED
  BY ScheduleInvariant, <1>1, PTL

\* mark_failed's budget: a one-shot is claimed GiveUpAfter times at most
\* between two successes or resumes, whatever dies in between.
THEOREM BudgetHolds == Spec => []OneshotBudget
<1>1. SchedInv => OneshotBudget
  BY DEF SchedInv, FileSound, TriesCounted, OneshotBudget
<1>2. QED
  BY ScheduleInvariant, <1>1, PTL

\* A tick claims only what is due in the file.
LEMMA ClaimsDue ==
  ASSUME SchedInv, [Next]_vars, NEW p \in Procs, NEW j \in Jobs, Claims(p, j)
  PROVE  /\ FileSound /\ copy[p][j] = store[j]
         /\ store[j].listed /\ store[j].enabled
<1> USE DEF storeVars, procVars, ghostVars, Goto
<1>1. pc[p] = "claim" /\ pc'[p] = "fire" /\ j \in batch'[p] /\ ~lost'
  BY DEF Claims
<1>2. TypeOK
  BY DEF SchedInv
<1>3. ~(UNCHANGED pc)
  BY <1>1
<1>4. ClaimDue(p)
  <2>1. ASSUME NEW q \in Procs,
               \/ GatewayTick(q) \/ RecoverMissed(q) \/ Look(q) \/ CliTick(q)
               \/ \E k \in Jobs : RunByHand(q, k) \/ \E how \in Marks : EndFire(q, k, how)
               \/ Mark(q) \/ EndTick(q)
               \/ \E k \in Jobs, op \in Edits : StartEdit(q, k, op)
               \/ \E delay \in Delays : EndEdit(q, delay)
               \/ Crash(q)
        PROVE  FALSE
    <3>1. \E to : pc' = [pc EXCEPT ![q] = to] /\ (pc[q] = "claim" => to # "fire")
      BY <2>1 DEF GatewayTick, RecoverMissed, Look, CliTick, RunByHand, EndFire, Mark,
                  EndTick, StartEdit, EndEdit, Crash, Leave
    <3>2. QED
      BY <1>1, <1>2, <3>1 DEF TypeOK
  <2>2. ASSUME NEW q \in Procs, ClaimDue(q) PROVE q = p
    BY <1>1, <1>2, <2>2 DEF ClaimDue, TypeOK
  <2>3. ~Tick /\ ~(UNCHANGED vars)
    BY <1>3 DEF Tick, vars
  <2>4. QED
    BY <2>1, <2>2, <2>3 DEF Next
<1>5. j \in DueIn(p) /\ \E f : Write(p, f)
  BY <1>1, <1>2, <1>4 DEF ClaimDue, TypeOK
<1>6. ~lost /\ p \notin stale
  BY <1>1, <1>5 DEF Write
<1>7. FileSound /\ copy[p] = store
  BY <1>1, <1>6 DEF SchedInv, FileSound, CopiesCurrent, Reading
<1>8. QED
  BY <1>5, <1>7 DEF DueIn, Due

\* claim_due fires a slot once: no tick claims a slot that was claimed, though
\* processes die in a fire and fires fail.
THEOREM SlotOnce == Spec => SlotFiresOnce
<1>1. ASSUME SchedInv, [Next]_vars
      PROVE  [\A p \in Procs, j \in Jobs :
                Claims(p, j) /\ j \notin byHand => copy[p][j].next > claimed[j]]_vars
  BY <1>1, ClaimsDue DEF FileSound, SlotsAdvance
<1>2. QED
  BY ScheduleInvariant, <1>1, PTL DEF Spec, SlotFiresOnce

\* A job that is paused or removed is not claimed by a later tick.
THEOREM PausesHold == Spec => PauseHolds
<1>1. ASSUME SchedInv, [Next]_vars
      PROVE  [\A p \in Procs, j \in Jobs : Claims(p, j) => j \notin off]_vars
  BY <1>1, ClaimsDue DEF FileSound, OffStaysOff
<1>2. QED
  BY ScheduleInvariant, <1>1, PTL DEF Spec, PauseHolds
=============================================================================
