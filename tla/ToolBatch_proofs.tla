-------------------------- MODULE ToolBatch_proofs --------------------------
(***************************************************************************)
(* Proofs about one batch of tool calls, for any number of calls, any      *)
(* assignment of paths and any set of idempotent tools: the safety         *)
(* properties of ToolBatch, and that it keeps the contract the agent loop  *)
(* relies on.                                                              *)
(*                                                                         *)
(* None of the properties is inductive alone.  Inv adds, for each place of *)
(* the loop, how far each call has come (Place), and for each call what it *)
(* has to show for it (Record).                                            *)
(***************************************************************************)
EXTENDS ToolBatch, FiniteSetTheorems, TLAPS

\* How far the calls before and after the one the loop is at have come.
Place ==
  /\ pc \in {"take", "run"} => mode = "sequential"
  /\ pc \in {"prepare", "launch", "collect"} => mode = "parallel"
  /\ pc = "take" => \A i \in Calls :
       /\ i >= next => st[i] = "todo"
       /\ i < next => \/ st[i] = "over"
                      \/ st[i] = "todo" /\ cancelled /\ next > N
  /\ pc = "run" =>
       /\ next <= N /\ st[next] = "running"
       /\ \A i \in Calls : /\ i > next => st[i] = "todo"
                           /\ i < next => st[i] = "over"
  /\ pc = "prepare" =>
       /\ N > 0 => next <= N
       /\ \A i \in Calls : /\ i >= next => st[i] = "todo"
                           /\ i < next => st[i] \in {"ready", "over"}
  /\ pc = "launch" =>
       /\ next <= N
       /\ \A i \in Calls : /\ i >= next => st[i] \in {"ready", "over"}
                           /\ i < next => st[i] \in {"launched", "over"}
  /\ pc = "collect" => \A i \in Calls : st[i] \in {"launched", "running", "over"}
  /\ pc = "done" => \A i \in Calls :
       st[i] = "over" \/ (st[i] = "todo" /\ res[i] = "cancelled")

\* What is known of a call from how far it has come.
Record ==
  \A i \in Calls :
    /\ st[i] \in {"todo", "ready", "launched"} => execs[i] = 0
    /\ i \notin Idempotent => execs[i] <= 1
    /\ st[i] = "over" => res[i] # None
    /\ st[i] # "over" /\ pc # "done" => res[i] = None
    /\ res[i] \notin Ran \cup {None} => execs[i] = 0
    /\ res[i] # "incomplete"
    /\ starts[i] = IF st[i] = "todo" THEN 0 ELSE 1
    /\ ends[i] = IF st[i] = "over" THEN 1 ELSE 0

\* Behind a loop that was refused nothing has run or will run.
LoopRefused ==
  \A i \in Calls : res[i] = "loop_detect" =>
    /\ mode = "sequential" /\ pc # "done" => skipRest /\ pc = "take"
    /\ mode = "parallel" => blocked
    /\ \A j \in Calls : i < j => execs[j] = 0 /\ st[j] \in {"todo", "over"}

\* The one call that was being started when the user spoke is the last.
SteerSeen ==
  /\ late # {} => steered
  /\ mode = "sequential" =>
    \/ late = {}
    \/ pc = "run" /\ late = {next}
    \/ (skipRest \/ next > N) /\ pc # "run" /\ \E i \in Calls : late = {i}

Inv ==
  /\ TypeOK /\ Place /\ Record /\ LoopRefused /\ SteerSeen /\ SamePathSerial

-----------------------------------------------------------------------------
\* The initial states satisfy the invariant.
LEMMA InitInv == Init => Inv
<1> SUFFICES ASSUME Init PROVE Inv
  OBVIOUS
<1> USE BatchAssumption DEF Calls, None, Kinds, Skips, Ran, States
<1>1. TypeOK
  <2>1. pc \in {"take", "run", "prepare", "launch", "collect", "done"}
    BY DEF Init
  <2>2. next \in 1..(N + 1)
    BY DEF Init
  <2>3. /\ res \in [Calls -> Kinds \cup {None}]
        /\ st \in [Calls -> States]
        /\ execs \in [Calls -> 0..2]
    BY DEF Init
  <2>4. QED
    BY <2>1, <2>2, <2>3 DEF Init, TypeOK
<1>2. Place
  BY DEF Init, Place
<1>3. Record
  BY DEF Init, Record
<1>4. LoopRefused /\ SteerSeen /\ SamePathSerial
  BY DEF Init, LoopRefused, SteerSeen, SamePathSerial
<1>5. QED
  BY <1>1, <1>2, <1>3, <1>4 DEF Inv

\* Every step preserves the invariant.
LEMMA NextInv == Inv /\ [Next]_vars => Inv'
<1> SUFFICES ASSUME Inv, [Next]_vars PROVE Inv'
  OBVIOUS
<1> USE BatchAssumption DEF Inv, Calls, None, Kinds, Skips, Ran, States,
                            loopVars, userVars
<1>1. ASSUME SeqSkip PROVE Inv'
  <2>1. TypeOK'
    BY <1>1 DEF SeqSkip, Answer, Bump, TypeOK, Record, Place
  <2>2. Place'
    BY <1>1 DEF SeqSkip, Answer, Bump, TypeOK, Place, Record
  <2>3. Record'
    BY <1>1 DEF SeqSkip, Answer, Bump, TypeOK, Place, Record
  <2>4. LoopRefused'
    BY <1>1 DEF SeqSkip, Answer, Bump, TypeOK, Place, Record, LoopRefused
  <2>5. SteerSeen'
    BY <1>1 DEF SeqSkip, Answer, Bump, TypeOK, Place, SteerSeen
  <2>6. SamePathSerial'
    BY <1>1 DEF SeqSkip, Answer, Bump, TypeOK, Place, SamePathSerial
  <2>7. QED
    BY <2>1, <2>2, <2>3, <2>4, <2>5, <2>6
<1>2. ASSUME SeqLoopDetected PROVE Inv'
  <2>1. TypeOK'
    BY <1>2 DEF SeqLoopDetected, Answer, Bump, TypeOK, Record, Place
  <2>2. Place'
    BY <1>2 DEF SeqLoopDetected, Answer, Bump, TypeOK, Place, Record
  <2>3. Record'
    BY <1>2 DEF SeqLoopDetected, Answer, Bump, TypeOK, Place, Record
  <2>4. LoopRefused'
    BY <1>2 DEF SeqLoopDetected, Answer, Bump, TypeOK, Place, Record, LoopRefused
  <2>5. SteerSeen'
    BY <1>2 DEF SeqLoopDetected, Answer, Bump, TypeOK, Place, SteerSeen
  <2>6. SamePathSerial'
    BY <1>2 DEF SeqLoopDetected, Answer, Bump, TypeOK, Place, SamePathSerial
  <2>7. QED
    BY <2>1, <2>2, <2>3, <2>4, <2>5, <2>6
<1>3. ASSUME SeqRefused PROVE Inv'
  <2>1. TypeOK'
    BY SMTT(30), <1>3 DEF SeqRefused, AfterResult, Answer, Bump, TypeOK, Record, Place
  <2>2. Place'
    BY <1>3 DEF SeqRefused, AfterResult, Answer, Bump, TypeOK, Place, Record
  <2>3. Record'
    BY <1>3 DEF SeqRefused, AfterResult, Answer, Bump, TypeOK, Place, Record
  <2>4. LoopRefused'
    BY <1>3 DEF SeqRefused, AfterResult, Answer, Bump, TypeOK, Place, Record, LoopRefused
  <2>5. SteerSeen'
    BY <1>3 DEF SeqRefused, AfterResult, Answer, Bump, TypeOK, Place, SteerSeen
  <2>6. SamePathSerial'
    BY <1>3 DEF SeqRefused, AfterResult, Answer, Bump, TypeOK, Place, SamePathSerial
  <2>7. QED
    BY <2>1, <2>2, <2>3, <2>4, <2>5, <2>6
<1>4. ASSUME SeqStart PROVE Inv'
  <2>1. TypeOK'
    BY <1>4 DEF SeqStart, Execute, Bump, TypeOK, Record, Place
  <2>2. Place'
    <3>1. /\ pc' = "run" /\ mode' = "sequential" /\ next' = next /\ next \in Calls
          /\ st' = [st EXCEPT ![next] = "running"] /\ st \in [Calls -> States]
      BY <1>4 DEF SeqStart, Execute, TypeOK, Place
    <3>2. st'[next'] = "running" /\ next' <= N
      BY <3>1
    <3>3. \A i \in Calls : /\ i > next => st[i] = "todo"
                           /\ i < next => st[i] = "over"
      BY <1>4 DEF SeqStart, TypeOK, Place
    <3>4. QED
      BY <3>1, <3>2, <3>3 DEF Place
  <2>3. Record'
    BY <1>4 DEF SeqStart, Execute, Bump, TypeOK, Place, Record
  <2>4. LoopRefused'
    BY <1>4 DEF SeqStart, Execute, Bump, TypeOK, Place, Record, LoopRefused
  <2>5. SteerSeen'
    <3>1. pc = "take" /\ ~skipRest /\ next <= N /\ pc' = "run" /\ next' = next
          /\ late' = IF steered THEN late \cup {next} ELSE late
      BY <1>4 DEF SeqStart, Execute
    <3>2. mode = "sequential" => late = {}
      BY <3>1 DEF SteerSeen, TypeOK
    <3>3. mode' = mode /\ steered' = steered
      BY <1>4 DEF SeqStart, userVars
    <3>4. QED
      BY <3>1, <3>2, <3>3 DEF SteerSeen
  <2>6. SamePathSerial'
    BY <1>4 DEF SeqStart, Execute, Bump, TypeOK, Place, SamePathSerial
  <2>7. QED
    BY <2>1, <2>2, <2>3, <2>4, <2>5, <2>6
<1>5. ASSUME NEW kind \in Ran, SeqFinish(kind) PROVE Inv'
  <2>1. TypeOK'
    BY <1>5 DEF SeqFinish, AfterResult, Answer, Bump, TypeOK, Record, Place
  <2>2. Place'
    BY <1>5 DEF SeqFinish, AfterResult, Answer, Bump, TypeOK, Place, Record
  <2>3. Record'
    BY <1>5 DEF SeqFinish, AfterResult, Answer, Bump, TypeOK, Place, Record
  <2>4. LoopRefused'
    BY <1>5 DEF SeqFinish, AfterResult, Answer, Bump, TypeOK, Place, Record, LoopRefused
  <2>5. SteerSeen'
    <3>1. /\ pc = "run" /\ pc' = "take" /\ late' = late /\ mode' = mode
          /\ next \in Calls /\ mode = "sequential" /\ steered' = steered
          /\ next' = N + 1 \/ (steered => skipRest')
      BY <1>5 DEF SeqFinish, AfterResult, TypeOK, Place
    <3>2. CASE late = {}
      BY <3>1, <3>2 DEF SteerSeen
    <3>3. CASE late # {}
      <4>1. late = {next} /\ steered
        BY <3>1, <3>3 DEF SteerSeen
      <4>2. next' > N \/ skipRest'
        BY <3>1, <4>1
      <4>3. QED
        BY <3>1, <4>1, <4>2 DEF SteerSeen
    <3>4. QED
      BY <3>2, <3>3
  <2>6. SamePathSerial'
    BY <1>5 DEF SeqFinish, AfterResult, Answer, Bump, TypeOK, Place, SamePathSerial
  <2>7. QED
    BY <2>1, <2>2, <2>3, <2>4, <2>5, <2>6
<1>6. ASSUME Prepare PROVE Inv'
  <2>a. /\ pc = "prepare" /\ next \in Calls /\ N > 0 /\ mode' = mode
        /\ \/ next = N /\ next' = 1 /\ pc' = "launch"
           \/ next < N /\ next' = next + 1 /\ pc' = "prepare"
    BY <1>6 DEF Prepare, Advance, TypeOK, Place
  <2>b. PICK s \in {"ready", "over"} : st' = [st EXCEPT ![next] = s]
    BY <1>6 DEF Prepare, Answer
  <2>c. \A i \in Calls : /\ i > next => st[i] = "todo"
                         /\ i < next => st[i] \in {"ready", "over"}
    BY <2>a DEF Place, TypeOK
  <2>d. \/ UNCHANGED <<res, ends>>
        \/ \E kind \in Kinds : Answer(next, kind)
    BY <1>6 DEF Prepare
  <2>1. TypeOK'
    <3>1. res' \in [Calls -> Kinds \cup {None}] /\ ends' \in [Calls -> Nat]
      <4>1. CASE UNCHANGED <<res, ends>>
        BY <4>1 DEF TypeOK
      <4>2. ASSUME NEW kind \in Kinds, Answer(next, kind)
            PROVE  res' \in [Calls -> Kinds \cup {None}] /\ ends' \in [Calls -> Nat]
        <5> HIDE DEF Kinds
        <5>1. QED
          BY <2>a, <4>2 DEF Answer, Bump, TypeOK
      <4>3. QED
        BY <2>d, <4>1, <4>2
    <3>2. starts' \in [Calls -> Nat] /\ execs' \in [Calls -> 0..2] /\ late' \subseteq Calls
      BY <1>6, <2>a DEF Prepare, Bump, TypeOK
    <3>3. skipRest' \in BOOLEAN /\ blocked' \in BOOLEAN
      BY <1>6 DEF Prepare, TypeOK
    <3>4. steered' \in BOOLEAN /\ cancelled' \in BOOLEAN
      BY <1>6 DEF Prepare, TypeOK
    <3>5. st' \in [Calls -> States]
      BY <2>a, <2>b DEF TypeOK
    <3>6. next' \in 1..(N + 1)
      BY <2>a DEF TypeOK
    <3>7. QED
      BY <2>a, <3>1, <3>2, <3>3, <3>4, <3>5, <3>6 DEF TypeOK
  <2>2. Place'
    <3>1. CASE next = N
      BY <2>a, <2>b, <2>c, <3>1 DEF Place, TypeOK
    <3>2. CASE next < N
      BY <2>a, <2>b, <2>c, <3>2 DEF Place, TypeOK
    <3>3. QED
      BY <2>a, <3>1, <3>2
  <2>3. Record'
    BY SMTT(30), <1>6 DEF Prepare, Advance, Answer, Bump, TypeOK, Place, Record
  <2>4. LoopRefused'
    <3>1. mode = "parallel" /\ execs' = execs /\ st[next] = "todo"
      BY <1>6, <2>a DEF Prepare, Place
    <3>2. ASSUME NEW i \in Calls, res'[i] = "loop_detect", res[i] = "loop_detect"
          PROVE  /\ blocked'
                 /\ \A j \in Calls : i < j => execs'[j] = 0 /\ st'[j] \in {"todo", "over"}
      <4>1. blocked /\ Answer(next, "skipped_thrash") /\ blocked' = blocked
        BY <1>6, <3>1, <3>2 DEF Prepare, LoopRefused
      <4>2. QED
        BY <2>a, <3>1, <3>2, <4>1 DEF Answer, LoopRefused, TypeOK
    <3>3. ASSUME NEW i \in Calls, res'[i] = "loop_detect", res[i] # "loop_detect"
          PROVE  /\ blocked'
                 /\ \A j \in Calls : i < j => execs'[j] = 0 /\ st'[j] \in {"todo", "over"}
      <4>1. i = next /\ blocked'
        BY <1>6, <2>a, <3>3 DEF Prepare, Answer, TypeOK
      <4>2. \A j \in Calls : i < j => st[j] = "todo" /\ st'[j] = st[j]
        BY <2>a, <2>b, <2>c, <4>1 DEF TypeOK
      <4>3. QED
        BY <3>1, <4>1, <4>2 DEF Record
    <3>4. QED
      BY <2>a, <3>1, <3>2, <3>3 DEF LoopRefused
  <2>5. SteerSeen'
    BY <1>6 DEF Prepare, Advance, Answer, Bump, TypeOK, Place, SteerSeen
  <2>6. SamePathSerial'
    BY <1>6, SMTT(30) DEF Prepare, Advance, Answer, Bump, TypeOK, Place, SamePathSerial
  <2>7. QED
    BY <2>1, <2>2, <2>3, <2>4, <2>5, <2>6
<1>7. ASSUME Launch PROVE Inv'
  <2>a. /\ pc = "launch" /\ next \in Calls /\ mode' = mode
        /\ \/ next = N /\ next' = 1 /\ pc' = "collect"
           \/ next < N /\ next' = next + 1 /\ pc' = "launch"
    BY <1>7 DEF Launch, Advance, TypeOK, Place
  <2>b. PICK s \in {"launched", "over"} : st' = [st EXCEPT ![next] = s]
    BY <1>7, <2>a DEF Launch, Answer, Place, TypeOK
  <2>c. \A i \in Calls : /\ i > next => st[i] \in {"ready", "over"}
                         /\ i < next => st[i] \in {"launched", "over"}
    BY <2>a DEF Place, TypeOK
  <2>d. mode = "parallel"
    BY <2>a DEF Place
  <2>1. TypeOK'
    <3>1. res' \in [Calls -> Kinds \cup {None}] /\ ends' \in [Calls -> Nat]
      <4>1. \/ UNCHANGED <<res, ends>>
            \/ Answer(next, "skipped_steer")
        BY <1>7 DEF Launch
      <4>2. QED
        BY <2>a, <4>1, SMTT(30) DEF Answer, Bump, TypeOK
    <3>2. starts' \in [Calls -> Nat] /\ execs' \in [Calls -> 0..2] /\ late' \subseteq Calls
      BY <1>7 DEF Launch, TypeOK
    <3>3. skipRest' \in BOOLEAN /\ blocked' \in BOOLEAN
      BY <1>7 DEF Launch, TypeOK
    <3>4. steered' \in BOOLEAN /\ cancelled' \in BOOLEAN
      BY <1>7 DEF Launch, TypeOK
    <3>5. st' \in [Calls -> States]
      BY <2>a, <2>b DEF TypeOK
    <3>6. next' \in 1..(N + 1)
      BY <2>a DEF TypeOK
    <3>7. QED
      BY <2>a, <3>1, <3>2, <3>3, <3>4, <3>5, <3>6 DEF TypeOK
  <2>2. Place'
    <3>1. CASE next = N
      BY <2>a, <2>b, <2>c, <3>1 DEF Place, TypeOK
    <3>2. CASE next < N
      BY <2>a, <2>b, <2>c, <3>2 DEF Place, TypeOK
    <3>3. QED
      BY <2>a, <3>1, <3>2
  <2>3. Record'
    BY SMTT(30), <1>7 DEF Launch, Advance, Answer, Bump, TypeOK, Place, Record
  <2>4. LoopRefused'
    <3>1. \A i \in Calls : res'[i] = "loop_detect" => res[i] = "loop_detect"
      BY <1>7, <2>a DEF Launch, Answer, TypeOK
    <3>2. \A j \in Calls : /\ execs'[j] = execs[j]
                           /\ st[j] \in {"todo", "over"} => st'[j] \in {"todo", "over"}
      BY <1>7, <2>a DEF Launch, Answer, TypeOK
    <3>3. blocked' = blocked
      BY <1>7 DEF Launch
    <3>4. QED
      BY <2>a, <2>d, <3>1, <3>2, <3>3 DEF LoopRefused
  <2>5. SteerSeen'
    BY <1>7 DEF Launch, Advance, Answer, Bump, TypeOK, Place, SteerSeen
  <2>6. SamePathSerial'
    BY SMTT(30), <1>7 DEF Launch, Advance, Answer, Bump, TypeOK, Place, SamePathSerial
  <2>7. QED
    BY <2>1, <2>2, <2>3, <2>4, <2>5, <2>6
<1>8. ASSUME NEW i \in Calls, ParStart(i) PROVE Inv'
  <2>1. TypeOK'
    BY <1>8 DEF ParStart, LockFree, Execute, Bump, TypeOK, Record, Place
  <2>2. Place'
    BY <1>8 DEF ParStart, LockFree, Execute, Bump, TypeOK, Place, Record
  <2>3. Record'
    BY <1>8 DEF ParStart, LockFree, Execute, Bump, TypeOK, Place, Record
  <2>4. LoopRefused'
    BY <1>8 DEF ParStart, LockFree, Execute, Bump, TypeOK, Place, Record, LoopRefused
  <2>5. SteerSeen'
    BY <1>8 DEF ParStart, LockFree, Execute, Bump, TypeOK, Place, SteerSeen
  <2>6. SamePathSerial'
    BY <1>8 DEF ParStart, LockFree, Execute, Bump, TypeOK, Place, SamePathSerial
  <2>7. QED
    BY <2>1, <2>2, <2>3, <2>4, <2>5, <2>6
<1>9. ASSUME NEW i \in Calls, NEW kind \in Ran, ParFinish(i, kind) PROVE Inv'
  <2>1. TypeOK'
    BY <1>9 DEF ParFinish, Answer, Bump, TypeOK, Record, Place
  <2>2. Place'
    BY <1>9 DEF ParFinish, Answer, Bump, TypeOK, Place, Record
  <2>3. Record'
    BY <1>9 DEF ParFinish, Answer, Bump, TypeOK, Place, Record
  <2>4. LoopRefused'
    BY <1>9 DEF ParFinish, Answer, Bump, TypeOK, Place, Record, LoopRefused
  <2>5. SteerSeen'
    BY <1>9 DEF ParFinish, Answer, Bump, TypeOK, Place, SteerSeen
  <2>6. SamePathSerial'
    BY <1>9 DEF ParFinish, Answer, Bump, TypeOK, Place, SamePathSerial
  <2>7. QED
    BY <2>1, <2>2, <2>3, <2>4, <2>5, <2>6
<1>10. ASSUME NEW i \in Calls, Retry(i) PROVE Inv'
  <2>1. TypeOK'
    BY SMTT(30), <1>10 DEF Retry, Bump, TypeOK, Record, Place
  <2>2. Place'
    BY <1>10 DEF Retry, Bump, TypeOK, Place, Record
  <2>3. Record'
    BY <1>10 DEF Retry, Bump, TypeOK, Place, Record
  <2>4. LoopRefused'
    BY <1>10 DEF Retry, Bump, TypeOK, Place, Record, LoopRefused
  <2>5. SteerSeen'
    BY <1>10 DEF Retry, Bump, TypeOK, Place, SteerSeen
  <2>6. SamePathSerial'
    BY <1>10 DEF Retry, Bump, TypeOK, Place, SamePathSerial
  <2>7. QED
    BY <2>1, <2>2, <2>3, <2>4, <2>5, <2>6
<1>11. ASSUME HandBack PROVE Inv'
  <2>1. TypeOK'
    BY <1>11 DEF HandBack, Over, TypeOK, Record, Place
  <2>2. Place'
    BY <1>11 DEF HandBack, Over, TypeOK, Place, Record
  <2>3. Record'
    BY <1>11 DEF HandBack, Over, TypeOK, Place, Record
  <2>4. LoopRefused'
    BY <1>11 DEF HandBack, Over, TypeOK, Place, Record, LoopRefused
  <2>5. SteerSeen'
    BY <1>11 DEF HandBack, Over, TypeOK, Place, SteerSeen
  <2>6. SamePathSerial'
    BY <1>11 DEF HandBack, Over, TypeOK, Place, SamePathSerial
  <2>7. QED
    BY <2>1, <2>2, <2>3, <2>4, <2>5, <2>6
<1>12. ASSUME Steer PROVE Inv'
  <2>1. TypeOK'
    BY <1>12 DEF Steer, TypeOK, Record, Place
  <2>2. Place'
    BY <1>12 DEF Steer, TypeOK, Place, Record
  <2>3. Record'
    BY <1>12 DEF Steer, TypeOK, Place, Record
  <2>4. LoopRefused'
    BY <1>12 DEF Steer, TypeOK, Place, Record, LoopRefused
  <2>5. SteerSeen'
    BY <1>12 DEF Steer, TypeOK, Place, SteerSeen
  <2>6. SamePathSerial'
    BY <1>12 DEF Steer, TypeOK, Place, SamePathSerial
  <2>7. QED
    BY <2>1, <2>2, <2>3, <2>4, <2>5, <2>6
<1>13. ASSUME Cancel PROVE Inv'
  <2>1. TypeOK'
    BY <1>13 DEF Cancel, TypeOK, Record, Place
  <2>2. Place'
    BY <1>13 DEF Cancel, TypeOK, Place, Record
  <2>3. Record'
    BY <1>13 DEF Cancel, TypeOK, Place, Record
  <2>4. LoopRefused'
    BY <1>13 DEF Cancel, TypeOK, Place, Record, LoopRefused
  <2>5. SteerSeen'
    BY <1>13 DEF Cancel, TypeOK, Place, SteerSeen
  <2>6. SamePathSerial'
    BY <1>13 DEF Cancel, TypeOK, Place, SamePathSerial
  <2>7. QED
    BY <2>1, <2>2, <2>3, <2>4, <2>5, <2>6
<1>14. ASSUME UNCHANGED vars PROVE Inv'
  <2>1. TypeOK'
    BY <1>14 DEF vars, TypeOK, Record, Place
  <2>2. Place'
    BY <1>14 DEF vars, TypeOK, Place, Record
  <2>3. Record'
    BY <1>14 DEF vars, TypeOK, Place, Record
  <2>4. LoopRefused'
    BY <1>14 DEF vars, TypeOK, Place, Record, LoopRefused
  <2>5. SteerSeen'
    BY <1>14 DEF vars, TypeOK, Place, SteerSeen
  <2>6. SamePathSerial'
    BY <1>14 DEF vars, TypeOK, Place, SamePathSerial
  <2>7. QED
    BY <2>1, <2>2, <2>3, <2>4, <2>5, <2>6
<1>15. QED
  BY <1>1, <1>2, <1>3, <1>4, <1>5, <1>6, <1>7, <1>8, <1>9, <1>10, <1>11, <1>12, <1>13, <1>14
  DEF Next, LoopStep, ToolStep

-----------------------------------------------------------------------------
\* Every reachable state of a batch satisfies the inductive invariant.
THEOREM Invariance == Spec => []Inv
  BY InitInv, NextInv, PTL DEF Spec

\* Every variable of a batch holds a value of its kind.
THEOREM TypeCorrect == Spec => []TypeOK
<1>1. Inv => TypeOK
  BY DEF Inv
<1>2. QED
  BY <1>1, Invariance, PTL

\* A batch handed back answers every call, and none as incomplete, however
\* steering, cancellation and the tools interleave.
THEOREM AllAnswered == Spec => []EveryCallAnswered
<1>1. Inv => EveryCallAnswered
  BY DEF Inv, TypeOK, Place, Record, EveryCallAnswered, None, Kinds
<1>2. QED
  BY <1>1, Invariance, PTL

\* A call reported as skipped, refused or cancelled was never executed.
THEOREM SkippedCallsNeverRan == Spec => []SkippedNeverRan
<1>1. Inv => SkippedNeverRan
  BY DEF Inv, Record, SkippedNeverRan
<1>2. QED
  BY <1>1, Invariance, PTL

\* Only calls of idempotent tools are executed twice.
THEOREM NonIdempotentOnce == Spec => []OnceUnlessIdempotent
<1>1. Inv => OnceUnlessIdempotent
  BY DEF Inv, Record, OnceUnlessIdempotent
<1>2. QED
  BY <1>1, Invariance, PTL

\* A steer stops a sequential batch after at most one more call.
THEOREM SteeredBatchStops == Spec => []SteerStopsBatch
<1>1. Inv => SteerStopsBatch
  <2> SUFFICES ASSUME Inv, mode = "sequential" PROVE Cardinality(late) <= 1
    BY DEF SteerStopsBatch
  <2>1. CASE late = {}
    BY <2>1, FS_EmptySet
  <2>2. CASE late # {}
    <3>1. PICK x : late = {x}
      BY <2>2 DEF Inv, SteerSeen
    <3>2. QED
      BY <3>1, FS_Singleton
  <2>3. QED
    BY <2>1, <2>2
<1>2. QED
  BY <1>1, Invariance, PTL

\* Start and end events come in pairs, except for calls a cancelled batch never
\* came to.
THEOREM EventsArePaired == Spec => []EventsPaired
<1>1. Inv => EventsPaired
  BY DEF Inv, TypeOK, Place, Record, EventsPaired
<1>2. QED
  BY <1>1, Invariance, PTL

\* Nothing runs behind a call refused as a loop.
THEOREM RefusedLoopBlocks == Spec => []LoopBlocksRest
<1>1. Inv => LoopBlocksRest
  BY DEF Inv, LoopRefused, LoopBlocksRest
<1>2. QED
  BY <1>1, Invariance, PTL

\* Two calls on one path never run at the same time.
THEOREM PathsAreExclusive == Spec => []SamePathSerial
<1>1. Inv => SamePathSerial
  BY DEF Inv
<1>2. QED
  BY <1>1, Invariance, PTL

\* What runs, and when, is what the transcript says and the guards allow.
THEOREM ExecutionIsRight == Spec => []ExecutionRules
<1>1. SkippedNeverRan /\ OnceUnlessIdempotent /\ LoopBlocksRest
      /\ SteerStopsBatch /\ SamePathSerial => ExecutionRules
  BY DEF ExecutionRules
<1>2. QED
  BY <1>1, SkippedCallsNeverRan, NonIdempotentOnce, RefusedLoopBlocks,
     SteeredBatchStops, PathsAreExclusive, PTL

\* What is told of a batch handed back is complete.
THEOREM ReportingIsComplete == Spec => []ReportsAreComplete
<1>1. EveryCallAnswered /\ EventsPaired => ReportsAreComplete
  BY DEF ReportsAreComplete
<1>2. QED
  BY <1>1, AllAnswered, EventsArePaired, PTL

-----------------------------------------------------------------------------
\* An answer to one call is a step of the contract.
LEMMA AnswerMaps ==
  ASSUME Inv, pc # "done", pc' # "done", NEW i \in Calls, st[i] # "over",
         NEW kind \in Kinds, Answer(i, kind)
  PROVE  Contract!Next
<1>1. res[i] = None /\ res' = [res EXCEPT ![i] = kind]
  BY DEF Inv, Record, Answer
<1>2. Contract!Answer(i, kind)
  BY <1>1 DEF Contract!Answer
<1>3. QED
  BY <1>2 DEF Contract!Next, Contract!Calls, Calls

\* Each step answers one call, hands the batch back, or leaves the results alone.
LEMMA StepMaps == Inv /\ [Next]_vars => [Contract!Next]_(Contract!vars)
<1> SUFFICES ASSUME Inv, [Next]_vars, ~UNCHANGED Contract!vars
             PROVE  Contract!Next
  OBVIOUS
<1> USE BatchAssumption DEF Inv
<1>1. CASE SeqSkip
  <2>1. /\ next \in Calls /\ st[next] = "todo" /\ pc = "take" /\ pc' = "take"
        /\ Answer(next, "skipped_steer")
    BY <1>1 DEF SeqSkip, TypeOK, Place, Calls
  <2>2. QED
    BY <2>1, AnswerMaps DEF Kinds, Skips
<1>2. CASE SeqLoopDetected
  <2>1. /\ next \in Calls /\ st[next] = "todo" /\ pc = "take" /\ pc' = "take"
        /\ Answer(next, "loop_detect")
    BY <1>2 DEF SeqLoopDetected, TypeOK, Place, Calls
  <2>2. QED
    BY <2>1, AnswerMaps DEF Kinds
<1>3. CASE SeqRefused
  <2>1. /\ next \in Calls /\ st[next] = "todo" /\ pc = "take" /\ pc' = "take"
        /\ Answer(next, "failed")
    BY <1>3 DEF SeqRefused, AfterResult, TypeOK, Place, Calls
  <2>2. QED
    BY <2>1, AnswerMaps DEF Kinds
<1>4. CASE SeqStart
  <2>1. pc = "take" /\ pc' = "run" /\ res' = res
    BY <1>4 DEF SeqStart
  <2>2. QED
    BY <2>1 DEF Contract!vars
<1>5. ASSUME NEW kind \in Ran, SeqFinish(kind) PROVE Contract!Next
  <2>1. /\ next \in Calls /\ st[next] = "running" /\ pc = "run" /\ pc' = "take"
        /\ Answer(next, kind)
    BY <1>5 DEF SeqFinish, AfterResult, TypeOK, Place, Calls
  <2>2. QED
    BY <2>1, AnswerMaps DEF Kinds, Ran
<1>6. CASE Prepare
  <2>1. next \in Calls /\ st[next] = "todo" /\ pc = "prepare" /\ pc' # "done"
    BY <1>6 DEF Prepare, Advance, TypeOK, Place, Calls
  <2>2. ~UNCHANGED res
    BY <1>6, <2>1 DEF Prepare, Contract!vars
  <2>3. \E kind \in Kinds : Answer(next, kind)
    BY <1>6, <2>2 DEF Prepare, Kinds, Skips
  <2>4. QED
    BY <2>1, <2>3, AnswerMaps
<1>7. CASE Launch
  <2>1. next \in Calls /\ pc = "launch" /\ pc' # "done"
    BY <1>7 DEF Launch, Advance, TypeOK, Place, Calls
  <2>2. ~UNCHANGED res
    BY <1>7, <2>1 DEF Launch, Contract!vars
  <2>3. Answer(next, "skipped_steer") /\ st[next] = "ready"
    BY <1>7, <2>2 DEF Launch
  <2>4. QED
    BY <2>1, <2>3, AnswerMaps DEF Kinds, Skips
<1>8. ASSUME NEW i \in Calls, ParStart(i) PROVE Contract!Next
  BY <1>8 DEF ParStart, loopVars, Contract!vars
<1>9. ASSUME NEW i \in Calls, NEW kind \in Ran, ParFinish(i, kind)
      PROVE Contract!Next
  BY <1>9, AnswerMaps DEF ParFinish, loopVars, Kinds, Ran
<1>10. ASSUME NEW i \in Calls, Retry(i) PROVE Contract!Next
  BY <1>10 DEF Retry, loopVars, Contract!vars
<1>11. CASE HandBack
  <2>1. /\ pc # "done" /\ pc' = "done" /\ res' \in [Calls -> Kinds]
        /\ \A i \in Calls : res[i] # None => res'[i] = res[i]
    BY <1>11 DEF HandBack, Over, TypeOK, Kinds, None
  <2>2. QED
    BY <2>1 DEF Contract!Next, Contract!HandBack, Contract!Calls, Calls
<1>12. CASE Steer \/ Cancel
  BY <1>12 DEF Steer, Cancel, loopVars, Contract!vars
<1>13. CASE UNCHANGED vars
  BY <1>13 DEF vars, loopVars, Contract!vars
<1>14. QED
  BY <1>1, <1>2, <1>3, <1>4, <1>5, <1>6, <1>7, <1>8, <1>9, <1>10, <1>11, <1>12,
     <1>13 DEF Next, LoopStep, ToolStep

\* The batch implements the contract the agent loop relies on: each call is
\* answered once, and the batch is handed back with every call answered.
THEOREM Refinement == Spec => ContractHolds
<1>1. Init => Contract!Init
  BY DEF Init, Contract!Init, Contract!Calls, Calls
<1>2. QED
  BY <1>1, StepMaps, Invariance, PTL DEF Spec, ContractHolds, Contract!Spec
=============================================================================
