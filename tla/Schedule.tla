------------------------------ MODULE Schedule ------------------------------
(***************************************************************************)
(* The schedule of pirs-claw: schedule.json (ScheduleStore, lib.rs), the   *)
(* ticker of the gateway (gateway/cron.rs) and the `pirs-claw schedule`    *)
(* commands (main.rs), each a process of its own.                          *)
(*                                                                         *)
(* Every operation of the store reads the whole file and writes it back.   *)
(* Ticks exclude each other by a flock; the other commands take no lock.   *)
(***************************************************************************)
EXTENDS Integers, FiniteSets

CONSTANTS
  Jobs,          \* ids of schedule entries
  Gateways,      \* processes that serve
  Clis,          \* processes that run one schedule command each
  KindOf,        \* [Jobs -> Kinds]
  Period,        \* [Jobs -> Nat \ {0}]: every_secs, or the grid of a cron expression
  Delays,        \* bound: first_fire_in_secs of an added job
  CronGrace, MinGrace,        \* recover_missed: 2 h for cron, 1 h at least
  CronBackoff, OnceBackoff,   \* mark_failed: 5 min for cron, 10 min for a one-shot
  BackoffCap,                 \* ... 24 h at most
  BackoffAfter, GiveUpAfter,  \* ... from the third failure, until the fifth
  FailCap,       \* bound: failures counted
  MaxTime        \* bound: the clock

Kinds == {"once", "every", "cron"}
Procs == Gateways \cup Clis

ASSUME ScheduleAssumption ==
  /\ KindOf \in [Jobs -> Kinds] /\ Period \in [Jobs -> Nat \ {0}]
  /\ Delays \subseteq Nat
  /\ CronGrace \in Nat /\ MinGrace \in Nat
  /\ CronBackoff \in Nat \ {0} /\ OnceBackoff \in Nat \ {0}
  /\ BackoffCap \in Nat \ {0}
  /\ BackoffAfter \in Nat \ {0} /\ GiveUpAfter \in Nat \ {0}
  /\ FailCap \in Nat /\ FailCap >= BackoffAfter /\ FailCap >= GiveUpAfter
  /\ MaxTime \in Nat \ {0}
  /\ Gateways \cap Clis = {} /\ "free" \notin Procs

VARIABLES
  now,       \* the clock
  store,     \* schedule.json: an entry per job
  lock,      \* the process that holds the cron lock
  pc,        \* where a process is
  copy,      \* the file as a process has read it
  at,        \* the time its tick or run started
  batch,     \* claimed jobs it has still to fire
  cur,       \* the job it marks, or edits, and how
  \* history
  fresh,     \* jobs never added
  claimed,   \* the last slot of a job a tick has claimed, or None
  tries,     \* ticks that claimed a one-shot since it was last armed
  off,       \* jobs the user has paused or removed
  byHand,    \* jobs marked by a `schedule run`
  stale,     \* processes whose copy is older than the file
  lost       \* some write has undone another

storeVars == <<store, stale, lost>>
procVars == <<pc, copy, at, batch, cur>>
ghostVars == <<fresh, claimed, tries, off, byHand>>
vars == <<now, lock, storeVars, procVars, ghostVars>>

Entries == [listed : BOOLEAN, enabled : BOOLEAN, running : BOOLEAN,
            next : Nat, fails : 0..FailCap]
Unlisted == [listed |-> FALSE, enabled |-> FALSE, running |-> FALSE,
             next |-> 0, fails |-> 0]
Files == [Jobs -> Entries]
NoFile == [j \in Jobs |-> Unlisted]

Marks == {"fired", "failed"}
Edits == {"add", "pause", "resume", "remove"}
None == -1
NoWork == [job |-> "none", op |-> "none"]

-----------------------------------------------------------------------------
(* What the operations do to an entry. *)

Once(j) == KindOf[j] = "once"
Lesser(m, n) == IF m <= n THEN m ELSE n
Greater(m, n) == IF m <= n THEN n ELSE m

\* next_fire_for_job: the fire of a recurring job after t.
NextFire(j, t) ==
  IF KindOf[j] = "cron" THEN ((t \div Period[j]) + 1) * Period[j]
  ELSE t + Period[j]

Due(e, t) == e.listed /\ e.enabled /\ e.next <= t

\* recover_missed leaves one-shots alone.
Overdue(j, e, t) ==
  /\ e.listed /\ e.enabled /\ ~Once(j)
  /\ t - e.next > (IF KindOf[j] = "cron" THEN CronGrace
                   ELSE Greater(2 * Period[j], MinGrace))
Skipped(j, e, t) == [e EXCEPT !.next = NextFire(j, t)]

\* Variant: a job is only marked as running, to be advanced when it has fired.
ClaimedInPlace(j, e, t) == [e EXCEPT !.running = TRUE]

\* Variant: a claim clears the failures.
ClaimedAfresh(j, e, t) ==
  IF Once(j) THEN [e EXCEPT !.running = TRUE, !.enabled = FALSE, !.fails = 0]
  ELSE [e EXCEPT !.running = TRUE, !.next = NextFire(j, t), !.fails = 0]

\* claim_due advances a recurring job and parks a one-shot.
Claimed(j, e, t) ==
  IF Once(j) THEN [e EXCEPT !.running = TRUE, !.enabled = FALSE]
  ELSE [e EXCEPT !.running = TRUE, !.next = NextFire(j, t)]

\* mark_fired advances a job that no tick has claimed.
Fired(j, e, t) ==
  LET done == [e EXCEPT !.running = FALSE, !.fails = 0] IN
  IF e.running THEN done
  ELSE IF Once(j) THEN [done EXCEPT !.enabled = FALSE]
  ELSE [done EXCEPT !.next = NextFire(j, t)]

\* mark_failed backs off after repeated failures ...
Backoff(j, n) ==
  LET base == CASE KindOf[j] = "every" -> Period[j]
                [] KindOf[j] = "cron" -> CronBackoff
                [] OTHER -> OnceBackoff
  IN Greater(Lesser(base * 2 ^ Lesser(n - BackoffAfter + 1, 8), BackoffCap), 1)

\* Variant: any job is armed again.
FailedRearms(j, e, t) ==
  LET n == Lesser(e.fails + 1, FailCap) IN
  [e EXCEPT !.running = FALSE, !.fails = n,
            !.next = IF n >= BackoffAfter THEN t + Backoff(j, n) ELSE t,
            !.enabled = n < GiveUpAfter]

\* ... and arms a one-shot again, until it gives up.
Failed(j, e, t) ==
  LET n == Lesser(e.fails + 1, FailCap) IN
  [e EXCEPT !.running = FALSE, !.fails = n,
            !.next = IF n >= BackoffAfter THEN t + Backoff(j, n)
                     ELSE IF Once(j) THEN t ELSE @,
            !.enabled = IF Once(j) THEN n < GiveUpAfter ELSE @]

\* set_enabled(true): a past fire is moved on, that of a one-shot by a minute.
Resumed(j, e, t) ==
  [e EXCEPT !.enabled = TRUE,
            !.next = IF @ >= t THEN @ ELSE IF Once(j) THEN t + 1 ELSE NextFire(j, t)]

\* add_full_cron: the first fire is `delay` away.
Added(j, delay, t) ==
  [Unlisted EXCEPT
     !.listed = TRUE, !.enabled = TRUE,
     !.next = IF KindOf[j] = "cron" THEN NextFire(j, t + delay) ELSE t + delay]

\* Some jobs were added earlier.
Init ==
  /\ now = 1
  /\ fresh \in SUBSET Jobs
  /\ store = [j \in Jobs |-> IF j \in fresh THEN Unlisted ELSE Added(j, 0, 0)]
  /\ lock = "free"
  /\ pc = [p \in Procs |-> "idle"] /\ copy = [p \in Procs |-> NoFile]
  /\ at = [p \in Procs |-> 0] /\ batch = [p \in Procs |-> {}]
  /\ cur = [p \in Procs |-> NoWork]
  /\ claimed = [j \in Jobs |-> None]
  /\ tries = [j \in Jobs |-> 0] /\ off = {} /\ byHand = {}
  /\ stale = {} /\ lost = FALSE

-----------------------------------------------------------------------------
(* The file. *)

Goto(p, l) == pc' = [pc EXCEPT ![p] = l]

\* The gateway waits for its next tick (or is started again), a command is over.
Leave(p) == Goto(p, IF p \in Gateways THEN "idle" ELSE "done")

\* ScheduleStore::read
Read(p) ==
  /\ copy' = [copy EXCEPT ![p] = store]
  /\ stale' = stale \ {p}
  /\ UNCHANGED <<store, lost>>

\* The copy is done with.
Drop(p) == copy' = [copy EXCEPT ![p] = NoFile]

\* ScheduleStore::write by p of the file f: what others have written since p
\* read the file is undone, and what they have read is out of date.
Write(p, f) ==
  /\ store' = f
  /\ lost' = (lost \/ p \in stale)
  /\ stale' = {q \in Procs \ {p} : pc[q] \in {"recover", "claim", "mark", "edit"}}
  /\ Drop(p)

NoWrite(p) == Drop(p) /\ stale' = stale \ {p} /\ UNCHANGED <<store, lost>>

-----------------------------------------------------------------------------
(* Ticks. *)

\* cron_ticker_loop: the lock is tried, the clock read, then recover_missed.
GatewayTick(p) ==
  /\ p \in Gateways /\ pc[p] = "idle" /\ lock = "free"
  /\ lock' = p /\ at' = [at EXCEPT ![p] = now]
  /\ Read(p) /\ Goto(p, "recover")
  /\ UNCHANGED <<now, batch, cur, ghostVars>>

RecoverMissed(p) ==
  /\ pc[p] = "recover"
  /\ LET late == {j \in Jobs : Overdue(j, copy[p][j], at[p])} IN
     IF late = {} THEN NoWrite(p)
     ELSE Write(p, [j \in Jobs |-> IF j \in late THEN Skipped(j, copy[p][j], at[p])
                                   ELSE copy[p][j]])
  /\ Goto(p, "look")
  /\ UNCHANGED <<now, lock, at, batch, cur, ghostVars>>

Look(p) ==
  /\ pc[p] = "look"
  /\ Read(p) /\ Goto(p, "claim")
  /\ UNCHANGED <<now, lock, at, batch, cur, ghostVars>>

\* `schedule tick --run`
CliTick(p) ==
  /\ p \in Clis /\ pc[p] = "idle" /\ lock = "free"
  /\ lock' = p /\ at' = [at EXCEPT ![p] = now]
  /\ Read(p) /\ Goto(p, "claim")
  /\ UNCHANGED <<now, batch, cur, ghostVars>>

DueIn(p) == {j \in Jobs : Due(copy[p][j], at[p])}

\* claim_due: the file is advanced before any job is fired.
ClaimDue(p) ==
  /\ pc[p] = "claim"
  /\ IF DueIn(p) = {} THEN NoWrite(p)
     ELSE Write(p, [j \in Jobs |-> IF j \in DueIn(p)
                                   THEN Claimed(j, copy[p][j], at[p])
                                   ELSE copy[p][j]])
  /\ batch' = [batch EXCEPT ![p] = DueIn(p)]
  /\ claimed' = [j \in Jobs |-> IF j \in DueIn(p) THEN copy[p][j].next ELSE claimed[j]]
  /\ tries' = [j \in Jobs |-> IF j \in DueIn(p) /\ Once(j) THEN tries[j] + 1
                              ELSE tries[j]]
  /\ Goto(p, "fire")
  /\ UNCHANGED <<now, lock, at, cur, fresh, off, byHand>>

-----------------------------------------------------------------------------
(* Fires. *)

\* `schedule run`: a job is fired by hand, with neither lock nor claim.
RunByHand(p, j) ==
  /\ p \in Clis /\ pc[p] = "idle" /\ store[j].listed
  /\ at' = [at EXCEPT ![p] = now]
  /\ batch' = [batch EXCEPT ![p] = {j}]
  /\ Goto(p, "fire")
  /\ UNCHANGED <<now, lock, copy, cur, storeVars, ghostVars>>

\* The chat of a claimed job and the delivery of its reply end, one way or the
\* other; then the file is read to mark it.
EndFire(p, j, how) ==
  /\ pc[p] = "fire" /\ j \in batch[p]
  /\ cur' = [cur EXCEPT ![p] = [job |-> j, op |-> how]]
  /\ Read(p) /\ Goto(p, "mark")
  /\ UNCHANGED <<now, lock, at, batch, ghostVars>>

Marked(p, j) ==
  LET e == copy[p][j] IN
  IF ~e.listed THEN e
  ELSE IF cur[p].op = "fired" THEN Fired(j, e, at[p]) ELSE Failed(j, e, at[p])

\* mark_fired and mark_failed write the file even when the job is gone.  A
\* failure arms a one-shot again, though the user may have paused it.
Mark(p) ==
  /\ pc[p] = "mark"
  /\ LET j == cur[p].job
         e == Marked(p, j)
         again == Once(j) /\ cur[p].op = "failed" /\ e.enabled
     IN
     /\ Write(p, [copy[p] EXCEPT ![j] = e])
     /\ batch' = [batch EXCEPT ![p] = @ \ {j}]
     /\ claimed' = [claimed EXCEPT ![j] = IF again THEN None ELSE @]
     /\ tries' = [tries EXCEPT ![j] = IF cur[p].op = "fired" THEN 0 ELSE @]
     /\ off' = IF again THEN off \ {j} ELSE off
     /\ byHand' = IF lock = p \/ ~e.listed THEN byHand ELSE byHand \cup {j}
  /\ cur' = [cur EXCEPT ![p] = NoWork]
  /\ Goto(p, "fire")
  /\ UNCHANGED <<now, lock, at, fresh>>

\* Variant: the lock file outlives the process.
UnlockNever(p) == UNCHANGED lock

\* The flock goes when its file is closed.
Unlock(p) == lock' = IF lock = p THEN "free" ELSE lock

EndTick(p) ==
  /\ pc[p] = "fire" /\ batch[p] = {}
  /\ Unlock(p) /\ at' = [at EXCEPT ![p] = 0] /\ Leave(p)
  /\ UNCHANGED <<now, copy, batch, cur, storeVars, ghostVars>>

-----------------------------------------------------------------------------
(* The other schedule commands. *)

\* The command reads the file; an added job has an id no other ever had.
StartEdit(p, j, op) ==
  /\ p \in Clis /\ pc[p] = "idle"
  /\ IF op = "add" THEN j \in fresh ELSE store[j].listed
  /\ cur' = [cur EXCEPT ![p] = [job |-> j, op |-> op]]
  /\ fresh' = IF op = "add" THEN fresh \ {j} ELSE fresh
  /\ Read(p) /\ Goto(p, "edit")
  /\ UNCHANGED <<now, lock, at, batch, claimed, tries, off, byHand>>

Edited(p, delay) ==
  LET e == copy[p][cur[p].job] IN
  CASE cur[p].op = "add" -> Added(cur[p].job, delay, now)
    [] cur[p].op = "pause" -> [e EXCEPT !.enabled = FALSE]
    [] cur[p].op = "resume" -> Resumed(cur[p].job, e, now)
    [] OTHER -> Unlisted

\* ... and writes it back changed: add_full_cron, set_enabled, remove.
EndEdit(p, delay) ==
  /\ pc[p] = "edit"
  /\ LET j == cur[p].job
         anew == cur[p].op \in {"resume", "remove"}
     IN
     /\ Write(p, [copy[p] EXCEPT ![j] = Edited(p, delay)])
     /\ claimed' = [claimed EXCEPT ![j] = IF anew THEN None ELSE @]
     /\ tries' = [tries EXCEPT ![j] = IF anew THEN 0 ELSE @]
     /\ off' = IF cur[p].op \in {"pause", "remove"} THEN off \cup {j}
               ELSE off \ {j}
     /\ byHand' = IF cur[p].op = "remove" THEN byHand \ {j} ELSE byHand
  /\ cur' = [cur EXCEPT ![p] = NoWork]
  /\ Leave(p)
  /\ UNCHANGED <<now, lock, at, batch, fresh>>

-----------------------------------------------------------------------------
\* A process dies: the flock goes with it.
Crash(p) ==
  /\ pc[p] \notin {"idle", "done"}
  /\ Unlock(p) /\ NoWrite(p)
  /\ at' = [at EXCEPT ![p] = 0] /\ batch' = [batch EXCEPT ![p] = {}]
  /\ cur' = [cur EXCEPT ![p] = NoWork]
  /\ Leave(p)
  /\ UNCHANGED <<now, ghostVars>>

Tick ==
  /\ now < MaxTime /\ now' = now + 1
  /\ UNCHANGED <<lock, storeVars, procVars, ghostVars>>

Next ==
  \/ Tick
  \/ \E p \in Procs :
       \/ GatewayTick(p) \/ RecoverMissed(p) \/ Look(p)
       \/ CliTick(p) \/ ClaimDue(p)
       \/ \E j \in Jobs : RunByHand(p, j) \/ \E how \in Marks : EndFire(p, j, how)
       \/ Mark(p) \/ EndTick(p)
       \/ \E j \in Jobs, op \in Edits : StartEdit(p, j, op)
       \/ \E delay \in Delays : EndEdit(p, delay)
       \/ Crash(p)

Spec == Init /\ [][Next]_vars

-----------------------------------------------------------------------------
(* Properties. *)

\* Every variable holds a value of its kind; a process has work in hand exactly
\* between the read and the write of a mark or an edit; the lock is held by a
\* process in a tick.
TypeOK ==
  /\ now \in 1..MaxTime /\ store \in Files
  /\ lock \in Procs \cup {"free"}
  /\ pc \in [Procs -> {"idle", "recover", "look", "claim", "fire", "mark", "edit",
                    "done"}]
  /\ copy \in [Procs -> Files] /\ at \in [Procs -> 0..MaxTime]
  /\ batch \in [Procs -> SUBSET Jobs]
  /\ cur \in [Procs -> {NoWork} \cup [job : Jobs, op : Marks \cup Edits]]
  /\ \A p \in Procs :
       /\ pc[p] = "mark" => cur[p] \in [job : batch[p], op : Marks]
       /\ pc[p] = "edit" => cur[p] \in [job : Jobs, op : Edits]
       /\ pc[p] \notin {"mark", "edit"} => cur[p] = NoWork
       /\ pc[p] \in {"recover", "look", "claim"} => lock = p
       /\ lock = p => pc[p] \notin {"idle", "edit", "done"}
  /\ fresh \subseteq Jobs /\ off \subseteq Jobs /\ byHand \subseteq Jobs
  /\ stale \subseteq Procs
  /\ claimed \in [Jobs -> Nat \cup {None}] /\ tries \in [Jobs -> Nat]
  /\ lost \in BOOLEAN

\* A tick claims j in this step, from a file nobody has clobbered.
Claims(p, j) ==
  /\ pc[p] = "claim" /\ pc'[p] = "fire"
  /\ j \in batch'[p] /\ ~lost'

\* claim_due "at-most-once" (lib.rs:381): though processes die in a fire and
\* fires fail, a slot that was claimed is not claimed again, until a failure
\* arms the one-shot again, the user resumes the job, or a run by hand marks it.
SlotFiresOnce ==
  [][\A p \in Procs, j \in Jobs :
       Claims(p, j) /\ j \notin byHand => copy[p][j].next > claimed[j]]_vars

\* A job the user has paused or removed is not claimed again, until it is
\* resumed; the pause of a one-shot ends when the fire under way fails.
PauseHolds ==
  [][\A p \in Procs, j \in Jobs : Claims(p, j) => j \notin off]_vars

\* The fail budget of mark_failed: a one-shot is claimed GiveUpAfter times
\* at most between two successes or resumes, whatever dies or is run by hand between.
OneshotBudget == \A j \in Jobs : Once(j) /\ ~lost => tries[j] <= GiveUpAfter
=============================================================================
