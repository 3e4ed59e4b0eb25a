-------------------------- MODULE FrontEnds_proofs --------------------------
(***************************************************************************)
(* The front ends of one process each: the Telegram gateway with the       *)
(* pairing of its peers (Inbox), the conversations of the REPL, rpc and    *)
(* acp modes (Sessions), and the terminal screen (Screen).  They share no  *)
(* state, so each has an invariant of its own; the parts stand together    *)
(* for the lemmas about sequences and numbers.                             *)
(***************************************************************************)
EXTENDS Inbox, Sessions, Screen, FiniteSetTheorems, SequenceTheorems,
        WellFoundedInduction, TLAPS

-----------------------------------------------------------------------------
(***************************************************************************)
(* The gateway. The process that holds the flock is the one at work        *)
(* (TypeOK), and what is before its offset it has handled (HandledBefore). *)
(* A line of a session is there once per crash, and once more when the     *)
(* process at work has come past it (CountsFit).  A code that was redeemed *)
(* or is being redeemed is out of the file, and whoever minted it is done  *)
(* (SpentIsGone), until a file was written over a change.                  *)
(***************************************************************************)

LogLine == [role : {"user", "assistant"}, upd : Updates]
Working == Pcs \ (Idle \cup {"poll"})
Redeeming == {"spend", "open", "list", "welcome"}

\* What a CLI run has been told to do.
Ordered(c) ==
  \/ order[c].op = "code" /\ order[c].arg \in Codes
  \/ order[c].op \in {"add", "remove"} /\ order[c].arg \in Peers

\* Where each process is, and with which update;
PlacesTyped ==
  /\ [chat |-> chat, order |-> order] \in Cases
  /\ acked \in Nat /\ acked <= arrived /\ arrived \in 0..Len(chat)
  /\ pc \in [Gateways -> Pcs]
  /\ offset \in [Gateways -> 1..(Len(chat) + 1)]
  /\ last \in [Gateways -> 0..Len(chat)]
  /\ finished \subseteq Updates /\ crashes \in Nat
  /\ \A g \in Gateways : lock = g <=> pc[g] \notin Idle
  /\ \A g \in Gateways :
       /\ offset[g] <= arrived + 1 /\ last[g] <= arrived
       /\ pc[g] \in Working => offset[g] <= last[g]
\* ... what it has in hand and what the files hold;
DataTyped ==
  /\ allow \subseteq Peers /\ expired \subseteq Codes /\ codes \subseteq Codes
  /\ log \in [Peers -> Seq(LogLine)]
  /\ list \in [Gateways -> SUBSET Peers]
  /\ used \in [Codes -> SUBSET Peers] /\ snubbed \subseteq Peers
  /\ copy \in [Gateways -> SUBSET (Codes \cup Peers)]
  /\ prior \in [Gateways -> Seq(LogLine)]
  /\ \A g \in Gateways :
       /\ pc[g] \in Redeeming => Code(g) \in Codes
       /\ pc[g] = "spend" => copy[g] \subseteq Codes
       /\ pc[g] = "list" => copy[g] \subseteq Peers
\* ... and the runs of `pirs-claw pair`.
CliTyped ==
  /\ cliPc \in [Clis -> {"start", "write", "done"}]
  /\ cliCopy \in [Clis -> SUBSET (Codes \cup Peers)]
  /\ \A c \in Clis :
       /\ cliPc[c] # "done" => Ordered(c)
       /\ cliPc[c] = "write" =>
            cliCopy[c] \subseteq (IF order[c].op = "code" THEN Codes ELSE Peers)

\* Whoever works has handled what is before its offset.
HandledBefore ==
  /\ AckedWasHandled
  /\ \A g \in Gateways : pc[g] \notin Idle => 1..(offset[g] - 1) \subseteq finished

\* The process at work has come past the place where it writes such a line.
Past(role, u) ==
  \E g \in Gateways :
    /\ pc[g] \notin Idle
    /\ \/ u < offset[g]
       \/ u = offset[g] /\ pc[g] \in IF role = "user" THEN {"ask", "reply"} ELSE {"reply"}

\* How often a line is in a session.
CountsFit ==
  \A p \in Peers, role \in {"user", "assistant"}, u \in Updates :
    Times(log[p], Line(role, u)) <= crashes + (IF Past(role, u) THEN 1 ELSE 0)

\* An answer is behind its question, and goes there.
AnswersFollow ==
  /\ \A p \in Peers : \A i \in DOMAIN log[p] :
       log[p][i].role = "assistant"
         => i > 1 /\ log[p][i - 1] = Line("user", log[p][i].upd)
  /\ \A g \in Gateways : pc[g] = "ask" =>
       /\ Len(log[From(offset[g])]) > 0
       /\ log[From(offset[g])][Len(log[From(offset[g])])] = Line("user", offset[g])
       /\ Times(prior[g], Line("user", offset[g])) <= crashes

\* A process is between the spending of k and the pairing of its peer.
InFlight(k) ==
  \E g \in Gateways : pc[g] \in {"open", "list"} /\ Code(g) = k

\* A run that mints k is over.
Minted(k) ==
  \E c \in Clis : order[c].op = "code" /\ order[c].arg = k /\ cliPc[c] = "done"

SpentIsGone ==
  ~raced =>
    \A k \in Codes :
      /\ k \in codes \/ used[k] # {} \/ InFlight(k) => Minted(k)
      /\ used[k] # {} \/ InFlight(k) => k \notin codes
      /\ InFlight(k) => used[k] = {}
      /\ used[k] = {} \/ \E p \in Peers : used[k] = {p}

WelcomedListed == ~raced => welcomed \subseteq allow

InboxInv ==
  /\ PlacesTyped /\ DataTyped /\ CliTyped /\ HandledBefore /\ CountsFit /\ AnswersFollow
  /\ SpentIsGone /\ WelcomedListed

\* What every proof below knows of the behaviour it is in.
LEMMA TheCase ==
  ASSUME [chat |-> chat, order |-> order] \in Cases
  PROVE  /\ chat \in Seq([from : Peers, says : Says]) /\ Len(chat) \in Nat
         /\ \A c \in Clis : order[c].op = None \/ Ordered(c)
         /\ \A c, d \in Clis :
              order[c].op = "code" /\ order[d].op = "code"
              /\ order[d].arg = order[c].arg => c = d
<1>1. PICK w \in Cases : w.chat = chat /\ w.order = order
  OBVIOUS
<1>2. /\ w.chat \in Seq([from : Peers, says : Says])
      /\ \A c \in Clis :
           \/ w.order[c].op = None
           \/ w.order[c].op = "code" /\ w.order[c].arg \in Codes
           \/ w.order[c].op \in {"add", "remove"} /\ w.order[c].arg \in Peers
      /\ \A c, d \in Clis :
           w.order[c].op = "code" /\ w.order[d].op = "code"
           /\ w.order[d].arg = w.order[c].arg => c = d
  BY <1>1, InboxAssumption, Zenon
<1> QED
  BY <1>1, <1>2 DEF Ordered

\* One more line.
LEMMA TimesAppend ==
  ASSUME NEW S, NEW s \in Seq(S), NEW x \in S, NEW y
  PROVE  /\ Times(s, y) \in Nat
         /\ Times(Append(s, x), y) = Times(s, y) + (IF x = y THEN 1 ELSE 0)
<1> DEFINE n == Len(s)
           A == {i \in DOMAIN s : s[i] = y}
           t == Append(s, x)
           B == {i \in DOMAIN t : t[i] = y}
<1>1. /\ n \in Nat /\ DOMAIN s = 1..n /\ DOMAIN t = 1..(n + 1)
      /\ \A i \in 1..n : t[i] = s[i]
      /\ t[n + 1] = x
  OBVIOUS
<1>2. IsFiniteSet(A)
  <2>1. A \in SUBSET (1..n) /\ IsFiniteSet(1..n)
    BY <1>1, FS_Interval
  <2> QED
    BY <2>1, FS_Subset, Zenon
<1>3. n + 1 \notin A
  BY <1>1
<1>4. B = IF x = y THEN A \cup {n + 1} ELSE A
  BY <1>1
<1>5. Cardinality(A) \in Nat
  BY <1>2, FS_CardinalityType
<1>6. Cardinality(A \cup {n + 1}) = Cardinality(A) + 1
  BY <1>2, <1>3, FS_AddElement
<1>7. Times(s, y) = Cardinality(A) /\ Times(t, y) = Cardinality(B)
  BY DEF Times
<1> QED
  <2> HIDE DEF A, B
  <2> QED
    BY <1>4, <1>5, <1>6, <1>7

\* No line in no lines.
LEMMA TimesEmpty == ASSUME NEW y PROVE Times(<<>>, y) = 0
<1>1. {i \in DOMAIN <<>> : <<>>[i] = y} = {}
  OBVIOUS
<1> QED
  BY <1>1, FS_EmptySet DEF Times

\* At first nobody works and nothing is handled, said or paired.
LEMMA InboxStartsRight == Init => InboxInv
<1> SUFFICES ASSUME Init PROVE InboxInv
  OBVIOUS
<1>1. PICK w \in Cases : chat = w.chat /\ order = w.order
  BY DEF Init
<1>2. [chat |-> chat, order |-> order] \in Cases
  <2>1. w = [chat |-> w.chat, order |-> w.order]
    BY InboxAssumption, Zenon
  <2> QED
    BY <1>1, <2>1, Zenon
<1>3. chat \in Seq([from : Peers, says : Says]) /\ Len(chat) \in Nat
  <2>1. w.chat \in Seq([from : Peers, says : Says])
    BY InboxAssumption, Zenon
  <2> QED
    BY <1>1, <2>1
<1>4. \A c \in Clis : order[c].op = None \/ Ordered(c)
  BY <1>2, TheCase
<1>5. PlacesTyped
  BY <1>2, <1>3, InboxAssumption DEF Init, PlacesTyped, Pcs, Idle, Working
<1>6. DataTyped /\ CliTyped
  BY <1>3, <1>4, InboxAssumption DEF Init, DataTyped, CliTyped, Redeeming
<1>7. HandledBefore
  BY DEF Init, HandledBefore, AckedWasHandled, Idle
<1>8. CountsFit /\ AnswersFollow
  BY TimesEmpty DEF Init, CountsFit, AnswersFollow
<1>9. SpentIsGone
  <2>1. \A k \in Codes : ~InFlight(k)
    BY DEF Init, InFlight
  <2> QED
    BY <2>1 DEF Init, SpentIsGone
<1>10. WelcomedListed
  BY DEF Init, WelcomedListed
<1> QED
  BY <1>5, <1>6, <1>7, <1>8, <1>9, <1>10 DEF InboxInv

\* What is the same in every step of handling an update: it is over, or goes on
\* with the same update.
LEMMA HandleIs ==
  ASSUME InboxInv, NEW g \in Gateways, Handle(g)
  PROVE  /\ pc[g] \in Working
         /\ UNCHANGED <<choice, queue, expired, lock, list, last, cli, crashes>>
         /\ \/ Finish(g)
            \/ \E l \in Working : Go(g, l) /\ UNCHANGED <<offset, finished>>
<1> USE DEF Working, Idle, Pcs
<1>1. CASE Skip(g)
  BY <1>1 DEF Skip, Taken, files
<1>2. CASE TurnAway(g)
  BY <1>2 DEF TurnAway, Taken, files, Refuse
<1>3. CASE Redeem(g)
  BY <1>3 DEF Redeem, Taken, files
<1>4. CASE Spend(g)
  BY <1>4 DEF Spend, Refuse
<1>5. CASE Open(g)
  BY <1>5 DEF Open, files
<1>6. CASE Enlist(g)
  BY <1>6 DEF Enlist, Refuse
<1>7. CASE Welcome(g)
  BY <1>7 DEF Welcome, files
<1>8. CASE Hear(g)
  BY <1>8 DEF Hear, Taken, files
<1>9. CASE Ask(g)
  BY <1>9 DEF Ask, files
<1>10. CASE Reply(g)
  BY <1>10 DEF Reply, files
<1> QED
  BY <1>1, <1>2, <1>3, <1>4, <1>5, <1>6, <1>7, <1>8, <1>9, <1>10 DEF Handle

\* Only one process is at work, and its update is one of the behaviour.
LEMMA OneWorks ==
  ASSUME InboxInv, NEW g \in Gateways, pc[g] \notin Idle
  PROVE  /\ lock = g /\ \A h \in Gateways : h # g => pc[h] \in Idle
         /\ offset[g] \in Nat \ {0} /\ last[g] \in Nat
         /\ pc[g] \in Working =>
              /\ offset[g] \in Updates /\ chat[offset[g]] \in [from : Peers, says : Says]
              /\ From(offset[g]) \in Peers
<1>1. lock = g /\ \A h \in Gateways : h # g => pc[h] \in Idle
  BY DEF InboxInv, PlacesTyped
<1>2. /\ chat \in Seq([from : Peers, says : Says]) /\ Len(chat) \in Nat
      /\ arrived \in 0..Len(chat) /\ offset[g] \in 1..(Len(chat) + 1)
      /\ last[g] \in 0..Len(chat)
  BY TheCase DEF InboxInv, PlacesTyped
<1>3. ASSUME pc[g] \in Working
      PROVE  offset[g] \in Updates
  BY <1>2, <1>3 DEF InboxInv, PlacesTyped, Updates
<1>4. ASSUME NEW u \in Updates
      PROVE  chat[u] \in [from : Peers, says : Says] /\ From(u) \in Peers
  <2>1. chat[u] \in [from : Peers, says : Says]
    <3> DEFINE S == [from : Peers, says : Says]
    <3>1. chat \in Seq(S) /\ u \in 1..Len(chat)
      BY <1>2, <1>4 DEF Updates
    <3> HIDE DEF S
    <3>2. chat[u] \in S
      BY <3>1
    <3> QED
      BY <3>2 DEF S
  <2> QED
    BY <2>1 DEF From
<1> QED
  BY <1>1, <1>2, <1>3, <1>4

\* Updates that were handled stay so, and more are when the next is begun.
LEMMA StillHandledBefore ==
  ASSUME InboxInv, [Next]_vars
  PROVE  HandledBefore'
<1> USE DEF InboxInv, HandledBefore, AckedWasHandled
<1>t. /\ acked \in Nat /\ arrived \in Nat /\ Len(chat) \in Nat /\ acked <= arrived
      /\ \A g \in Gateways : offset[g] \in Nat /\ pc[g] \in Pcs
  BY TheCase DEF PlacesTyped
<1>0. CASE UNCHANGED <<acked, pc, offset, finished>>
  BY <1>0
<1>1. ASSUME NEW g \in Gateways, Serve(g)
      PROVE  HandledBefore'
  BY <1>1 DEF Serve, Go, Idle, queue, PlacesTyped
<1>2. ASSUME NEW g \in Gateways, Lock(g)
      PROVE  HandledBefore'
  BY <1>2, <1>t DEF Lock, LockUnchecked, Go, Idle, queue, PlacesTyped
<1>3. ASSUME NEW g \in Gateways, Poll(g)
      PROVE  HandledBefore'
  <2>1. pc[g] \notin Idle
    BY <1>3 DEF Poll, Idle
  <2>2. 1..AckedBy(g) \subseteq finished /\ AckedBy(g) \in Int
    BY <1>t, <2>1 DEF AckedBy
  <2> QED
    BY <1>t, <1>3, <2>1, <2>2 DEF Poll, Go, PlacesTyped
<1>4. ASSUME NEW g \in Gateways, PollAgain(g)
      PROVE  HandledBefore'
  <2>1. pc[g] \notin Idle
    BY <1>4 DEF PollAgain, Idle
  <2>2. 1..AckedBy(g) \subseteq finished
    BY <1>t, <2>1 DEF AckedBy
  <2> QED
    BY <1>4, <2>2 DEF PollAgain, gateway
<1>5. ASSUME NEW g \in Gateways, Crash(g)
      PROVE  HandledBefore'
  BY <1>5 DEF Crash, Go, Idle, queue, PlacesTyped
<1>6. ASSUME NEW g \in Gateways, Handle(g)
      PROVE  HandledBefore'
  <2>1. /\ pc[g] \notin Idle /\ acked' = acked
        /\ \/ Finish(g)
           \/ \E l \in Working : Go(g, l) /\ UNCHANGED <<offset, finished>>
    BY <1>6, HandleIs DEF Working, queue
  <2>2. CASE Finish(g)
    BY <1>t, <2>1, <2>2 DEF Finish, Go, PlacesTyped
  <2>3. CASE \E l \in Working : Go(g, l) /\ UNCHANGED <<offset, finished>>
    BY <2>1, <2>3 DEF Go, PlacesTyped
  <2> QED
    BY <2>1, <2>2, <2>3
<1> QED
  BY <1>0, <1>1, <1>2, <1>3, <1>4, <1>5, <1>6
     DEF Next, vars, queue, gateway, Arrive, Expire, CliRead, CliWrite

\* Places.
LEMMA PlacesStayTyped ==
  ASSUME InboxInv, [Next]_vars
  PROVE  PlacesTyped'
<1> USE DEF InboxInv
<1>t. /\ chat \in Seq([from : Peers, says : Says]) /\ Len(chat) \in Nat
      /\ None \notin Gateways
  BY TheCase, InboxAssumption DEF PlacesTyped
<1> USE DEF PlacesTyped, Updates
<1>0. CASE UNCHANGED <<choice, queue, pc, offset, last, finished, lock, crashes>>
  BY <1>0 DEF choice, queue
<1>1. CASE Arrive
  BY <1>t, <1>1 DEF Arrive, choice, gateway
<1>2. ASSUME NEW g \in Gateways, Serve(g)
      PROVE  PlacesTyped'
  BY <1>t, <1>2 DEF Serve, Go, Idle, Working, Pcs, choice, queue
<1>3. ASSUME NEW g \in Gateways, Lock(g)
      PROVE  PlacesTyped'
  BY <1>t, <1>3 DEF Lock, LockUnchecked, Go, Idle, Working, Pcs, choice, queue
<1>4. ASSUME NEW g \in Gateways, Poll(g)
      PROVE  PlacesTyped'
  <2>1. AckedBy(g) \in Nat /\ AckedBy(g) <= arrived
    BY <1>t DEF AckedBy
  <2> QED
    BY <1>t, <1>4, <2>1 DEF Poll, Go, Idle, Working, Pcs, choice
<1>5. ASSUME NEW g \in Gateways, PollAgain(g)
      PROVE  PlacesTyped'
  <2>1. AckedBy(g) \in Nat /\ AckedBy(g) <= arrived
    BY <1>t DEF AckedBy
  <2> QED
    BY <1>5, <2>1 DEF PollAgain, gateway, choice
<1>6. ASSUME NEW g \in Gateways, Crash(g)
      PROVE  PlacesTyped'
  BY <1>t, <1>6 DEF Crash, Go, Idle, Working, Pcs, choice, queue
<1>7. ASSUME NEW g \in Gateways, Handle(g)
      PROVE  PlacesTyped'
  <2>1. /\ pc[g] \in Working
        /\ UNCHANGED <<chat, order, acked, arrived, lock, last, crashes>>
        /\ \/ Finish(g)
           \/ \E l \in Working : Go(g, l) /\ UNCHANGED <<offset, finished>>
    BY <1>7, HandleIs DEF choice, queue
  <2>2. CASE Finish(g)
    <3>1. /\ offset[g] \in Nat /\ 1 <= offset[g] /\ offset[g] <= last[g]
          /\ last[g] <= arrived /\ arrived <= Len(chat) /\ last[g] \in Nat
          /\ pc[g] \notin Idle
      BY <1>t, <2>1 DEF Working
    <3>2. /\ offset' = [offset EXCEPT ![g] = offset[g] + 1]
          /\ finished' = finished \cup {offset[g]}
          /\ \E l \in {"take", "poll"} :
               pc' = [pc EXCEPT ![g] = l] /\ (l = "take" => offset[g] < last[g])
      BY <2>2 DEF Finish, Go
    <3>3. /\ offset' \in [Gateways -> 1..(Len(chat') + 1)] /\ finished' \subseteq 1..Len(chat')
          /\ pc' \in [Gateways -> Pcs]
      <4>1. offset[g] + 1 \in 1..(Len(chat) + 1) /\ offset[g] \in 1..Len(chat)
        BY <1>t, <3>1
      <4>2. finished' \subseteq 1..Len(chat) /\ Len(chat') = Len(chat)
        BY <2>1, <3>2, <4>1
      <4> QED
        BY <3>2, <4>1, <4>2 DEF Pcs
    <3>4. \A h \in Gateways : lock' = h <=> pc'[h] \notin Idle
      BY <2>1, <3>1, <3>2 DEF Idle
    <3>5. \A h \in Gateways :
            /\ offset'[h] <= arrived' + 1
            /\ pc'[h] \in Working => offset'[h] <= last'[h]
      BY <1>t, <2>1, <3>1, <3>2 DEF Working
    <3>6. /\ [chat |-> chat', order |-> order'] \in Cases /\ Len(chat') = Len(chat)
          /\ acked' \in Nat /\ acked' <= arrived' /\ arrived' \in 0..Len(chat')
          /\ last' \in [Gateways -> 0..Len(chat')] /\ crashes' \in Nat
          /\ \A h \in Gateways : last'[h] <= arrived'
      BY <2>1
    <3> QED
      BY <3>3, <3>4, <3>5, <3>6, Zenon
  <2>3. CASE \E l \in Working : Go(g, l) /\ UNCHANGED <<offset, finished>>
    BY <1>t, <2>1, <2>3 DEF Go, Idle, Working, Pcs
  <2> QED
    BY <2>1, <2>2, <2>3
<1> QED
  BY <1>0, <1>1, <1>2, <1>3, <1>4, <1>5, <1>6, <1>7
     DEF Next, vars, choice, queue, gateway, Expire, CliRead, CliWrite

\* The runs of `pirs-claw pair`.
LEMMA CliStaysTyped ==
  ASSUME InboxInv, [Next]_vars
  PROVE  CliTyped'
<1> USE DEF InboxInv, CliTyped
<1>0. CASE UNCHANGED <<order, cliPc, cliCopy>>
  BY <1>0 DEF Ordered
<1>1. ASSUME NEW c \in Clis, CliRead(c)
      PROVE  CliTyped'
  BY <1>1 DEF CliRead, DataTyped, choice, Ordered
<1>2. ASSUME NEW c \in Clis, CliWrite(c)
      PROVE  CliTyped'
  BY <1>2 DEF CliWrite, choice, Ordered
<1>3. ASSUME NEW g \in Gateways, Handle(g)
      PROVE  UNCHANGED <<order, cliPc, cliCopy>>
  BY <1>3, HandleIs DEF choice, cli
<1> QED
  BY <1>0, <1>1, <1>2, <1>3
     DEF Next, vars, choice, cli, Arrive, Expire, Serve, Lock, LockUnchecked,
         Poll, PollAgain, Crash

\* The next update, or the next poll: nothing is being redeemed.
LEMMA FinishIs ==
  ASSUME InboxInv, NEW g \in Gateways, Finish(g)
  PROVE  /\ pc'[g] \in {"take", "poll"} /\ pc' = [pc EXCEPT ![g] = pc'[g]]
         /\ \A h \in Gateways : h # g => offset'[h] = offset[h] /\ pc'[h] = pc[h]
  BY DEF Finish, Go, InboxInv, PlacesTyped

\* Who was refused.
LEMMA RefuseIs ==
  ASSUME InboxInv, NEW g \in Gateways, pc[g] \in Working, Refuse(g)
  PROVE  snubbed' \subseteq Peers
<1>1. From(offset[g]) \in Peers
  BY OneWorks DEF Working
<1> QED
  BY <1>1 DEF Refuse, InboxInv, DataTyped

\* Data.
LEMMA DataStaysTyped ==
  ASSUME InboxInv, [Next]_vars
  PROVE  DataTyped'
<1> USE DEF InboxInv, DataTyped, Redeeming
<1>t. pc \in [Gateways -> Pcs]
  BY DEF PlacesTyped
<1>u. ASSUME NEW g \in Gateways, chat' = chat, pc'[g] \notin Redeeming,
             \A h \in Gateways : h # g =>
               pc'[h] = pc[h] /\ offset'[h] = offset[h] /\ copy'[h] = copy[h]
      PROVE  \A h \in Gateways :
               /\ pc'[h] \in Redeeming => Code(h)' \in Codes
               /\ pc'[h] = "spend" => copy'[h] \subseteq Codes
               /\ pc'[h] = "list" => copy'[h] \subseteq Peers
  BY <1>u DEF Code
<1>0. CASE UNCHANGED <<chat, files, log, list, used, snubbed, copy, prior, pc, offset>>
  BY <1>0 DEF files, Code, LogLine, Updates
<1>1. CASE Arrive
  BY <1>0, <1>1 DEF Arrive, choice, gateway, pairings
<1>2. ASSUME NEW k \in Codes, Expire(k)
      PROVE  DataTyped'
  BY <1>2 DEF Expire, choice, gateway, pairings, Code, LogLine, Updates
<1>3. ASSUME NEW c \in Clis, CliRead(c)
      PROVE  DataTyped'
  BY <1>0, <1>3 DEF CliRead, choice, gateway, pairings
<1>4. ASSUME NEW c \in Clis, CliWrite(c)
      PROVE  DataTyped'
  <2>1. UNCHANGED <<chat, expired, log, list, used, snubbed, copy, prior, pc, offset>>
    BY <1>4 DEF CliWrite, CliCode, CliAdd, CliRemove, choice, gateway
  <2>2. /\ Ordered(c)
        /\ cliCopy[c] \subseteq (IF order[c].op = "code" THEN Codes ELSE Peers)
    BY <1>4 DEF CliWrite, CliTyped
  <2>3. allow' \subseteq Peers /\ codes' \subseteq Codes
    BY <1>4, <2>2 DEF CliWrite, CliCode, CliAdd, CliRemove, Ordered
  <2> QED
    BY <2>1, <2>3 DEF Code, LogLine, Updates
<1>5. ASSUME NEW g \in Gateways, Serve(g)
      PROVE  DataTyped'
  BY <1>t, <1>5 DEF Serve, Go, choice, files, pairings, Code, LogLine, Updates
<1>6. ASSUME NEW g \in Gateways, Lock(g)
      PROVE  DataTyped'
  <2>1. /\ chat' = chat /\ pc'[g] \notin Redeeming
        /\ UNCHANGED <<allow, codes, expired, log, list, used, snubbed, copy, prior>>
        /\ \A h \in Gateways : h # g => pc'[h] = pc[h] /\ offset'[h] = offset[h]
    BY <1>t, <1>6 DEF Lock, LockUnchecked, Go, choice, files, pairings, PlacesTyped
  <2> QED
    BY <1>u, <2>1 DEF LogLine, Updates
<1>7. ASSUME NEW g \in Gateways, Poll(g)
      PROVE  DataTyped'
  <2>1. /\ chat' = chat /\ pc'[g] \notin Redeeming
        /\ UNCHANGED <<allow, codes, expired, log, list, used, snubbed, copy, prior>>
        /\ \A h \in Gateways : h # g => pc'[h] = pc[h] /\ offset'[h] = offset[h]
    BY <1>t, <1>7 DEF Poll, Go, choice, files, pairings, PlacesTyped
  <2> QED
    BY <1>u, <2>1 DEF LogLine, Updates
<1>8. ASSUME NEW g \in Gateways, PollAgain(g)
      PROVE  DataTyped'
  BY <1>0, <1>8 DEF PollAgain, choice, gateway, pairings
<1>9. ASSUME NEW g \in Gateways, Crash(g)
      PROVE  DataTyped'
  <2>1. {} \in SUBSET Peers /\ {} \in SUBSET (Codes \cup Peers) /\ <<>> \in Seq(LogLine)
    OBVIOUS
  <2> QED
    <3>1. /\ chat' = chat /\ pc'[g] \notin Redeeming
          /\ UNCHANGED <<allow, codes, expired, log, used, snubbed>>
          /\ \A h \in Gateways : h # g =>
               pc'[h] = pc[h] /\ offset'[h] = offset[h] /\ copy'[h] = copy[h]
      BY <1>t, <1>9 DEF Crash, Go, choice, files, pairings, PlacesTyped
    <3>2. /\ list' \in [Gateways -> SUBSET Peers]
          /\ copy' \in [Gateways -> SUBSET (Codes \cup Peers)]
          /\ prior' \in [Gateways -> Seq(LogLine)]
      BY <1>9, <2>1 DEF Crash
    <3> QED
      BY <1>u, <3>1, <3>2 DEF LogLine, Updates
<1>10. ASSUME NEW g \in Gateways, Handle(g)
       PROVE  DataTyped'
  <2>1. /\ pc[g] \in Working /\ chat' = chat /\ expired' = expired /\ list' = list
        /\ LogLine' = LogLine
    BY <1>10, HandleIs DEF choice, LogLine, Updates
  <2>2. From(offset[g]) \in Peers /\ offset[g] \in Updates
    BY <2>1, OneWorks DEF Working
  <2>u. ASSUME NEW h \in Gateways, h # g, pc'[h] = pc[h], offset'[h] = offset[h],
               copy'[h] = copy[h]
        PROVE  /\ pc'[h] \in Redeeming => Code(h)' \in Codes
               /\ pc'[h] = "spend" => copy'[h] \subseteq Codes
               /\ pc'[h] = "list" => copy'[h] \subseteq Peers
    BY <2>1, <2>u DEF Code
  <2>3. CASE Skip(g)
    BY <2>1, <2>u, <2>3, FinishIs DEF Skip, files, pairings
  <2>4. CASE TurnAway(g)
    BY <2>1, <2>u, <2>4, FinishIs, RefuseIs DEF TurnAway, files, pairings, Refuse
  <2>5. CASE Redeem(g)
    BY <1>t, <2>1, <2>u, <2>5 DEF Redeem, Taken, Go, files, pairings, Code
  <2>6. CASE Spend(g)
    <3>1. codes' \subseteq Codes /\ UNCHANGED <<allow, log, copy, prior, used>>
      BY <2>6 DEF Spend
    <3>2. CASE Refuse(g)
      BY <2>1, <2>u, <3>1, <3>2, FinishIs, RefuseIs DEF Refuse
    <3>3. CASE Go(g, "open") /\ UNCHANGED <<offset, snubbed>>
      BY <1>t, <2>1, <2>u, <2>6, <3>1, <3>3 DEF Go, Spend, Code
    <3> QED
      BY <2>6, <3>2, <3>3 DEF Spend
  <2>7. CASE Open(g)
    BY <1>t, <2>1, <2>u, <2>7 DEF Open, Go, files, pairings, Code
  <2>8. CASE Enlist(g)
    <3>1. CASE Refuse(g) /\ UNCHANGED <<allow, raced, used>>
      BY <2>1, <2>u, <2>8, <3>1, FinishIs, RefuseIs DEF Refuse, Enlist
    <3>2. CASE /\ allow' = copy[g] \cup {From(offset[g])}
               /\ used' = [used EXCEPT ![Code(g)] = used[Code(g)] \cup {From(offset[g])}]
               /\ Go(g, "welcome")
               /\ UNCHANGED <<offset, snubbed>>
      <4>1. allow' \subseteq Peers /\ used' \in [Codes -> SUBSET Peers]
        BY <2>2, <2>8, <3>2 DEF Enlist
      <4> QED
        BY <1>t, <2>1, <2>u, <2>8, <3>2, <4>1 DEF Enlist, Go, Code
    <3> QED
      BY <2>8, <3>1, <3>2 DEF Enlist
  <2>9. CASE Welcome(g)
    BY <2>1, <2>u, <2>9, FinishIs DEF Welcome, files
  <2>10. CASE Hear(g)
    <3>1. /\ log' \in [Peers -> Seq(LogLine)] /\ prior' \in [Gateways -> Seq(LogLine)]
      <4>1. Line("user", offset[g]) \in LogLine
        BY <2>2 DEF Line, LogLine
      <4> QED
        BY <2>2, <2>10, <4>1 DEF Hear
    <3> QED
      BY <1>t, <2>1, <2>u, <2>10, <3>1 DEF Hear, Go, files, pairings
  <2>11. CASE Ask(g)
    <3>1. log' \in [Peers -> Seq(LogLine)]
      <4>1. Line("assistant", offset[g]) \in LogLine
        BY <2>2 DEF Line, LogLine
      <4>2. ASSUME NEW p \in Peers
            PROVE  Append(log[p], Line("assistant", offset[g])) \in Seq(LogLine)
        BY <4>1
      <4> QED
        BY <2>2, <2>11, <4>1, <4>2 DEF Ask
    <3> QED
      BY <1>t, <2>1, <2>u, <2>11, <3>1 DEF Ask, Go, files, pairings
  <2>12. CASE Reply(g)
    BY <2>1, <2>u, <2>12, FinishIs DEF Reply, files, pairings
  <2> QED
    BY <1>10, <2>3, <2>4, <2>5, <2>6, <2>7, <2>8, <2>9, <2>10, <2>11, <2>12
       DEF Handle
<1> QED
  BY <1>0, <1>1, <1>2, <1>3, <1>4, <1>5, <1>6, <1>7, <1>8, <1>9, <1>10
     DEF Next, vars, choice, gateway, pairings

\* Where a process at work writes a line it has not come past it.
LEMMA NotYetPast ==
  ASSUME InboxInv, NEW g \in Gateways, pc[g] \in Working
  PROVE  /\ pc[g] = "take" => ~Past("user", offset[g])
         /\ pc[g] = "ask" => ~Past("assistant", offset[g])
  BY OneWorks DEF Past, Working

\* Each line once per crash, and once more where it has just been written.
LEMMA CountsStayFit ==
  ASSUME InboxInv, [Next]_vars
  PROVE  CountsFit'
<1> DEFINE Speakers == {"user", "assistant"}
           Kept == \A role \in Speakers, u \in Updates :
                     \/ crashes' >= crashes + 1
                     \/ crashes' = crashes /\ (Past(role, u) => Past(role, u)')
<1>t. crashes \in Nat /\ log \in [Peers -> Seq(LogLine)] /\ pc \in [Gateways -> Pcs]
      /\ offset \in [Gateways -> 1..(Len(chat) + 1)] /\ Len(chat) \in Nat
  BY TheCase DEF InboxInv, PlacesTyped, DataTyped
<1>l. \A role \in Speakers, u \in Updates : Line(role, u) \in LogLine
  BY DEF Line, LogLine
<1>n. \A p \in Peers, role \in Speakers, u \in Updates :
        Times(log[p], Line(role, u)) \in Nat
  BY <1>t, <1>l, TimesAppend
<1>m. ASSUME log' = log, chat' = chat, crashes' \in Nat, Kept
      PROVE  CountsFit'
  <2> SUFFICES ASSUME NEW p \in Peers, NEW role \in Speakers, NEW u \in Updates
               PROVE  Times(log[p], Line(role, u))
                        <= crashes' + (IF Past(role, u)' THEN 1 ELSE 0)
    BY <1>m DEF CountsFit, Updates
  <2>1. /\ Times(log[p], Line(role, u)) \in Nat
        /\ Times(log[p], Line(role, u)) <= crashes + (IF Past(role, u) THEN 1 ELSE 0)
    BY <1>n DEF InboxInv, CountsFit
  <2>2. \/ crashes' >= crashes + 1
        \/ crashes' = crashes /\ (Past(role, u) => Past(role, u)')
    BY <1>m
  <2> QED
    BY <1>t, <1>m, <2>1, <2>2
<1>0. CASE UNCHANGED <<log, chat, pc, offset, crashes>>
  <2>1. Kept
    BY <1>0 DEF Past
  <2> QED
    BY <1>0, <1>t, <1>m, <2>1
<1>1. ASSUME NEW g \in Gateways, Serve(g)
      PROVE  CountsFit'
  <2>1. Kept
    BY <1>1, <1>t DEF Serve, Go, Past, Idle
  <2> QED
    BY <1>1, <1>t, <1>m, <2>1 DEF Serve, choice
<1>2. ASSUME NEW g \in Gateways, Lock(g)
      PROVE  CountsFit'
  <2>1. Kept
    BY <1>2, <1>t DEF Lock, LockUnchecked, Go, Past, Idle
  <2> QED
    BY <1>2, <1>t, <1>m, <2>1 DEF Lock, LockUnchecked, choice
<1>3. ASSUME NEW g \in Gateways, Poll(g)
      PROVE  CountsFit'
  <2>1. offset'[g] >= offset[g] /\ offset'[g] \in Nat
    BY <1>3, <1>t DEF Poll, AckedBy, InboxInv, PlacesTyped
  <2>2. Kept
    <3> SUFFICES ASSUME NEW role \in Speakers, NEW u \in Updates, Past(role, u)
                 PROVE  Past(role, u)'
      BY <1>3 DEF Poll
    <3>1. PICK h \in Gateways :
            /\ pc[h] \notin Idle
            /\ \/ u < offset[h]
               \/ u = offset[h]
                  /\ pc[h] \in IF role = "user" THEN {"ask", "reply"} ELSE {"reply"}
      BY DEF Past
    <3>2. CASE h = g
      <4>1. u < offset'[g] /\ pc'[g] = "take"
        BY <1>3, <1>t, <2>1, <3>1, <3>2 DEF Poll, Go, Updates
      <4> QED
        BY <4>1 DEF Past, Idle
    <3>3. CASE h # g
      <4>1. pc'[h] = pc[h] /\ offset'[h] = offset[h]
        BY <1>3, <1>t, <3>3 DEF Poll, Go
      <4> QED
        BY <3>1, <4>1 DEF Past
    <3> QED
      BY <3>2, <3>3
  <2> QED
    BY <1>3, <1>t, <1>m, <2>2 DEF Poll, choice
<1>4. ASSUME NEW g \in Gateways, Crash(g)
      PROVE  CountsFit'
  BY <1>4, <1>t, <1>m DEF Crash, choice
<1>5. ASSUME NEW g \in Gateways, Handle(g)
      PROVE  CountsFit'
  <2>1. /\ pc[g] \in Working /\ chat' = chat /\ crashes' = crashes
        /\ \/ Finish(g)
           \/ \E l \in Working : Go(g, l) /\ UNCHANGED <<offset, finished>>
    BY <1>5, HandleIs DEF choice
  <2>2. /\ \A h \in Gateways : h # g => pc[h] \in Idle
        /\ offset[g] \in Updates /\ From(offset[g]) \in Peers
    BY <2>1, OneWorks DEF Working
  <2>w. /\ g \in Gateways /\ pc[g] \in Pcs /\ offset[g] \in Nat
        /\ \A u \in Updates : u \in Nat
    BY <1>t DEF Updates
  <2>p. ASSUME NEW role \in Speakers, NEW u \in Updates, Past(role, u)
        PROVE  \/ u < offset[g]
               \/ u = offset[g]
                  /\ pc[g] \in IF role = "user" THEN {"ask", "reply"} ELSE {"reply"}
    BY <2>2, <2>p DEF Past
  <2>3. ASSUME Finish(g)
        PROVE  Kept
    <3>1. offset'[g] = offset[g] + 1 /\ pc'[g] \in {"take", "poll"}
      BY <1>t, <2>3, FinishIs DEF Finish
    <3> SUFFICES ASSUME NEW role \in Speakers, NEW u \in Updates, Past(role, u)
                 PROVE  Past(role, u)'
      BY <2>1
    <3>2. u < offset'[g]
      BY <2>p, <2>w, <3>1
    <3> QED
      BY <3>1, <3>2 DEF Past, Idle
  <2>4. ASSUME NEW l \in Working, Go(g, l), offset' = offset,
               pc[g] = "ask" => l = "reply", pc[g] # "reply"
        PROVE  Kept
    <3>1. pc'[g] = l /\ l \notin Idle
      BY <1>t, <2>4 DEF Go, Working
    <3> SUFFICES ASSUME NEW role \in Speakers, NEW u \in Updates, Past(role, u)
                 PROVE  Past(role, u)'
      BY <2>1
    <3>2. \/ u < offset'[g]
          \/ u = offset'[g]
             /\ pc'[g] \in IF role = "user" THEN {"ask", "reply"} ELSE {"reply"}
      BY <2>p, <2>4, <3>1
    <3> QED
      BY <3>1, <3>2 DEF Past
  <2>5. CASE log' = log /\ Finish(g)
    BY <1>t, <1>m, <2>1, <2>3, <2>5
  <2>6. CASE Redeem(g) \/ Open(g)
    <3>1. Kept
      BY <2>4, <2>6 DEF Redeem, Open, Taken, Working, Pcs, Idle
    <3>2. log' = log
      BY <2>6 DEF Redeem, Open
    <3> QED
      BY <1>t, <1>m, <2>1, <3>1, <3>2
  <2>7. CASE (Spend(g) \/ Enlist(g)) /\ ~Finish(g)
    <3>1. PICK l \in {"open", "welcome"} : Go(g, l) /\ offset' = offset
      BY <2>7 DEF Spend, Enlist, Refuse
    <3>2. Kept
      BY <2>4, <2>7, <3>1 DEF Spend, Enlist, Working, Pcs, Idle
    <3>3. log' = log
      BY <2>7 DEF Spend, Enlist
    <3> QED
      BY <1>t, <1>m, <2>1, <3>2, <3>3
  <2>8. ASSUME NEW r \in Speakers, NEW l \in {"ask", "reply"}, Go(g, l), offset' = offset,
               pc[g] = IF r = "user" THEN "take" ELSE "ask",
               l = IF r = "user" THEN "ask" ELSE "reply",
               log' = [log EXCEPT ![From(offset[g])] =
                         Append(log[From(offset[g])], Line(r, offset[g]))]
        PROVE  CountsFit'
    <3> SUFFICES ASSUME NEW p \in Peers, NEW role \in Speakers, NEW u \in Updates
                 PROVE  Times(log'[p], Line(role, u))
                          <= crashes + (IF Past(role, u)' THEN 1 ELSE 0)
      BY <2>1 DEF CountsFit, Updates
    <3> DEFINE old == Times(log[p], Line(role, u))
               new == Times(log'[p], Line(role, u))
    <3>1. old \in Nat /\ old <= crashes + (IF Past(role, u) THEN 1 ELSE 0)
      BY <1>n DEF InboxInv, CountsFit
    <3>2. Kept
      BY <2>4, <2>8 DEF Working, Pcs, Idle
    <3>3. Past(role, u) => Past(role, u)'
      BY <1>t, <2>1, <3>2
    <3>4. CASE role = r /\ u = offset[g]
      <4>1. ~Past(role, u)
        BY <2>1, <2>8, <3>4, NotYetPast
      <4>2. Past(role, u)'
        BY <1>t, <2>8, <3>4 DEF Go, Past, Idle
      <4>3. new <= old + 1
        <5>1. CASE p = From(offset[g])
          <6>1. log'[p] = Append(log[p], Line(role, u))
            BY <1>t, <2>2, <2>8, <3>4, <5>1
          <6> QED
            BY <1>t, <1>l, <3>1, <6>1, TimesAppend
        <5>2. CASE p # From(offset[g])
          BY <1>t, <2>8, <3>1, <5>2
        <5> QED
          BY <5>1, <5>2
      <4>4. new \in Nat
        <5>1. CASE p = From(offset[g])
          <6>1. log'[p] = Append(log[p], Line(role, u))
            BY <1>t, <2>2, <2>8, <3>4, <5>1
          <6> QED
            BY <1>t, <1>l, <3>1, <6>1, TimesAppend
        <5>2. CASE p # From(offset[g])
          BY <1>t, <2>8, <3>1, <5>2
        <5> QED
          BY <5>1, <5>2
      <4> QED
        BY <1>t, <3>1, <4>1, <4>2, <4>3, <4>4
    <3>5. CASE ~(role = r /\ u = offset[g])
      <4>1. new = old
        <5>1. CASE p = From(offset[g])
          <6>1. log'[p] = Append(log[p], Line(r, offset[g]))
            BY <1>t, <2>2, <2>8, <5>1
          <6>2. Line(r, offset[g]) # Line(role, u) /\ Line(r, offset[g]) \in LogLine
            BY <1>l, <2>2, <3>5 DEF Line
          <6> QED
            BY <1>t, <3>1, <6>1, <6>2, TimesAppend
        <5>2. CASE p # From(offset[g])
          BY <1>t, <2>8, <5>2
        <5> QED
          BY <5>1, <5>2
      <4> QED
        BY <1>t, <3>1, <3>3, <4>1
    <3> QED
      BY <3>4, <3>5
  <2>9. CASE Hear(g)
    BY <2>8, <2>9 DEF Hear, Taken
  <2>10. CASE Ask(g)
    <3>1. CASE log' = log
      <4>1. Kept
        BY <2>4, <2>10 DEF Ask, Working, Pcs, Idle
      <4> QED
        BY <1>t, <1>m, <2>1, <3>1, <4>1
    <3>2. CASE log' # log
      BY <2>8, <2>10, <3>2 DEF Ask
    <3> QED
      BY <3>1, <3>2
  <2> QED
    BY <1>5, <2>5, <2>6, <2>7, <2>9, <2>10
       DEF Handle, Skip, TurnAway, Refuse, Spend, Enlist, Welcome, Reply
<1> QED
  BY <1>0, <1>1, <1>2, <1>3, <1>4, <1>5
     DEF Next, vars, choice, gateway, Arrive, Expire, CliRead, CliWrite,
         PollAgain

\* Answers go behind their questions, and a question is answered by a process
\* that was given a history without it, but for crashes.
LEMMA AnswersStay ==
  ASSUME InboxInv, [Next]_vars
  PROVE  AnswersFollow'
<1>t. /\ crashes \in Nat /\ log \in [Peers -> Seq(LogLine)] /\ pc \in [Gateways -> Pcs]
      /\ offset \in [Gateways -> 1..(Len(chat) + 1)] /\ Len(chat) \in Nat
      /\ prior \in [Gateways -> Seq(LogLine)]
  BY TheCase DEF InboxInv, PlacesTyped, DataTyped
<1>l. ASSUME NEW g \in Gateways, pc[g] \in Working
      PROVE  /\ Line("user", offset[g]) \in LogLine
             /\ Line("assistant", offset[g]) \in LogLine
             /\ Line("user", offset[g]).role = "user"
             /\ Line("assistant", offset[g]).upd = offset[g]
  BY <1>l, OneWorks DEF Line, LogLine, Working
<1>a. AnswersFollow
  BY DEF InboxInv
<1>m. ASSUME log' = log, chat' = chat, crashes' \in Nat, crashes' >= crashes,
             \A h \in Gateways : pc'[h] = "ask" =>
               pc[h] = "ask" /\ offset'[h] = offset[h] /\ prior'[h] = prior[h]
      PROVE  AnswersFollow'
  <2>1. ASSUME NEW h \in Gateways, pc'[h] = "ask"
        PROVE  /\ Len(log'[From(offset[h])]) > 0
               /\ log'[From(offset[h])][Len(log'[From(offset[h])])] = Line("user", offset[h])
               /\ Times(prior'[h], Line("user", offset[h])) <= crashes'
    <3>1. pc[h] = "ask" /\ offset'[h] = offset[h] /\ prior'[h] = prior[h]
      BY <1>m, <2>1
    <3>2. Line("user", offset[h]) \in LogLine
      BY <3>1, <1>l DEF Working, Pcs, Idle
    <3>3. Times(prior[h], Line("user", offset[h])) \in Nat
      BY <1>t, <3>2, TimesAppend
    <3>4. /\ Len(log[From(offset[h])]) > 0
          /\ log[From(offset[h])][Len(log[From(offset[h])])] = Line("user", offset[h])
          /\ Times(prior[h], Line("user", offset[h])) <= crashes
      BY <1>a, <3>1 DEF AnswersFollow
    <3>5. Times(prior[h], Line("user", offset[h])) <= crashes'
      BY <1>t, <1>m, <3>3, <3>4
    <3> QED
      BY <1>m, <3>1, <3>4, <3>5
  <2>2. \A h \in Gateways : pc'[h] = "ask" => offset'[h] = offset[h]
    BY <1>m
  <2>3. \A h \in Gateways : pc'[h] = "ask" =>
          From(offset[h])' = From(offset[h])
    BY <1>m, <2>2 DEF From
  <2> QED
    BY <1>m, <1>a, <2>1, <2>2, <2>3 DEF AnswersFollow, Line, From
<1>0. CASE UNCHANGED <<log, chat, pc, offset, prior, crashes>>
  BY <1>0, <1>t, <1>m
<1>1. ASSUME NEW g \in Gateways, Serve(g)
      PROVE  AnswersFollow'
  BY <1>1, <1>t, <1>m DEF Serve, Go, choice
<1>2. ASSUME NEW g \in Gateways, Lock(g)
      PROVE  AnswersFollow'
  BY <1>2, <1>t, <1>m DEF Lock, LockUnchecked, Go, choice
<1>3. ASSUME NEW g \in Gateways, Poll(g)
      PROVE  AnswersFollow'
  BY <1>3, <1>t, <1>m DEF Poll, Go, choice
<1>4. ASSUME NEW g \in Gateways, Crash(g)
      PROVE  AnswersFollow'
  BY <1>4, <1>t, <1>m DEF Crash, Go, choice
<1>5. ASSUME NEW g \in Gateways, Handle(g)
      PROVE  AnswersFollow'
  <2>1. pc[g] \in Working /\ chat' = chat /\ crashes' = crashes
    BY <1>5, HandleIs DEF choice
  <2>2. /\ \A h \in Gateways : h # g => pc[h] \in Idle
        /\ offset[g] \in Updates /\ From(offset[g]) \in Peers
    BY <2>1, OneWorks DEF Working
  <2> DEFINE p == From(offset[g])
             n == Len(log[p])
  <2>n. n \in Nat /\ log[p] \in Seq(LogLine) /\ DOMAIN log[p] = 1..n
    BY <1>t, <2>2
  <2>f. Finish(g) => \A h \in Gateways : pc'[h] = "ask" => h # g /\ pc[h] = "ask" /\ offset'[h] = offset[h]
    BY <1>t DEF Finish, Go
  <2>3. CASE log' = log /\ Finish(g) /\ prior' = prior
    BY <1>t, <1>m, <2>1, <2>f, <2>3
  <2>4. CASE Redeem(g) \/ Open(g)
    <3>1. /\ UNCHANGED <<log, offset, prior>>
          /\ \E l \in {"spend", "list"} : pc' = [pc EXCEPT ![g] = l]
      BY <2>4 DEF Redeem, Open, Go
    <3>2. \A h \in Gateways : pc'[h] = "ask" => pc[h] = "ask"
      BY <1>t, <3>1
    <3> QED
      BY <1>t, <1>m, <2>1, <3>1, <3>2
  <2>5. CASE (Spend(g) \/ Enlist(g)) /\ ~Finish(g)
    BY <1>t, <1>m, <2>1, <2>5 DEF Spend, Enlist, Go, Refuse
  <2>6. CASE Ask(g) /\ log' = log
    BY <1>t, <1>m, <2>1, <2>6 DEF Ask, Go
  <2>7. ASSUME NEW x \in LogLine, log' = [log EXCEPT ![p] = Append(log[p], x)],
               x.role = "assistant" => n > 0 /\ log[p][n] = Line("user", x.upd)
        PROVE  \A q \in Peers : \A i \in DOMAIN log'[q] :
                 log'[q][i].role = "assistant"
                   => i > 1 /\ log'[q][i - 1] = Line("user", log'[q][i].upd)
    <3> SUFFICES ASSUME NEW q \in Peers, NEW i \in DOMAIN log'[q],
                        log'[q][i].role = "assistant"
                 PROVE  i > 1 /\ log'[q][i - 1] = Line("user", log'[q][i].upd)
      OBVIOUS
    <3>1. CASE q # p
      <4>1. log'[q] = log[q]
        BY <1>t, <2>7, <3>1
      <4> QED
        BY <1>a, <4>1 DEF AnswersFollow
    <3>2. CASE q = p
      <4>1. log'[q] = Append(log[p], x)
        BY <1>t, <2>7, <3>2
      <4>2. /\ i \in 1..(n + 1) /\ log'[q][n + 1] = x
            /\ \A j \in 1..n : log'[q][j] = log[p][j]
        BY <2>n, <4>1
      <4>3. CASE i = n + 1
        BY <2>n, <2>7, <4>2, <4>3
      <4>4. CASE i # n + 1
        <5>1. i \in 1..n /\ log'[q][i] = log[p][i]
          BY <2>n, <4>2, <4>4
        <5>2. i > 1 /\ log[p][i - 1] = Line("user", log[p][i].upd)
          BY <1>a, <2>2, <2>n, <5>1 DEF AnswersFollow
        <5>3. log'[q][i - 1] = log[p][i - 1]
          BY <2>n, <4>2, <5>1, <5>2
        <5> QED
          BY <5>1, <5>2, <5>3
      <4> QED
        BY <4>3, <4>4
    <3> QED
      BY <3>1, <3>2
  <2>8. CASE Hear(g)
    <3>1. /\ pc[g] = "take" /\ offset' = offset
          /\ log' = [log EXCEPT ![p] = Append(log[p], Line("user", offset[g]))]
          /\ prior' = [prior EXCEPT ![g] = log[p]] /\ Go(g, "ask")
      BY <2>8 DEF Hear, Taken
    <3>2. \A h \in Gateways : pc'[h] = "ask" => h = g
      BY <1>t, <2>2, <3>1 DEF Go, Idle
    <3>3. log'[p] = Append(log[p], Line("user", offset[g])) /\ prior'[g] = log[p]
      BY <1>t, <2>2, <3>1
    <3>4. Len(log'[p]) > 0 /\ log'[p][Len(log'[p])] = Line("user", offset[g])
      BY <2>n, <3>3
    <3>5. Times(log[p], Line("user", offset[g])) <= crashes
      <4>1. ~Past("user", offset[g])
        BY <2>1, <3>1, NotYetPast
      <4> HIDE DEF p
      <4>2. Times(log[p], Line("user", offset[g]))
              <= crashes + (IF Past("user", offset[g]) THEN 1 ELSE 0)
        BY <2>2 DEF InboxInv, CountsFit, p
      <4> QED
        BY <1>t, <4>1, <4>2
    <3>6. \A q \in Peers : \A i \in DOMAIN log'[q] :
            log'[q][i].role = "assistant"
              => i > 1 /\ log'[q][i - 1] = Line("user", log'[q][i].upd)
      BY <1>l, <2>1, <2>7, <3>1
    <3>7. From(offset[g])' = p
      BY <2>1, <3>1 DEF From
    <3> HIDE DEF p
    <3> QED
      BY <2>1, <3>1, <3>2, <3>3, <3>4, <3>5, <3>6, <3>7 DEF AnswersFollow, Line
  <2>9. CASE Ask(g) /\ log' # log
    <3>1. /\ pc[g] = "ask" /\ Go(g, "reply")
          /\ log' = [log EXCEPT ![p] = Append(log[p], Line("assistant", offset[g]))]
      BY <2>9 DEF Ask
    <3>2. \A h \in Gateways : pc'[h] # "ask"
      BY <1>t, <2>2, <3>1 DEF Go, Idle
    <3>3. n > 0 /\ log[p][n] = Line("user", offset[g])
      BY <1>a, <3>1 DEF AnswersFollow
    <3>4. \A q \in Peers : \A i \in DOMAIN log'[q] :
            log'[q][i].role = "assistant"
              => i > 1 /\ log'[q][i - 1] = Line("user", log'[q][i].upd)
      BY <1>l, <2>1, <2>7, <3>1, <3>3
    <3> QED
      BY <3>2, <3>4 DEF AnswersFollow, Line
  <2> QED
    BY <1>5, <2>3, <2>4, <2>5, <2>6, <2>8, <2>9
       DEF Handle, Skip, TurnAway, Refuse, Spend, Enlist, Welcome, Reply
<1> QED
  BY <1>0, <1>1, <1>2, <1>3, <1>4, <1>5
     DEF Next, vars, choice, gateway, Arrive, Expire, CliRead, CliWrite,
         PollAgain

\* Codes once spent.
LEMMA SpentStaysGone ==
  ASSUME InboxInv, [Next]_vars
  PROVE  SpentIsGone'
<1>t. /\ pc \in [Gateways -> Pcs] /\ cliPc \in [Clis -> {"start", "write", "done"}]
      /\ used \in [Codes -> SUBSET Peers]
      /\ \A g \in Gateways : pc[g] \in Redeeming => Code(g) \in Codes
  BY DEF InboxInv, PlacesTyped, DataTyped, CliTyped
<1>s. SpentIsGone
  BY DEF InboxInv
<1>m. ASSUME raced => raced', used' = used, codes' \subseteq codes,
             \A k \in Codes : (Minted(k) => Minted(k)') /\ (InFlight(k)' => InFlight(k))
      PROVE  SpentIsGone'
  BY <1>m, <1>s DEF SpentIsGone
<1>n. ASSUME order' = order,
             \A c \in Clis : cliPc[c] = "done" => cliPc'[c] = "done"
      PROVE  \A k \in Codes : Minted(k) => Minted(k)'
  BY <1>n DEF Minted
<1>i. ASSUME chat' = chat,
             \A g \in Gateways : pc'[g] \in {"open", "list"} =>
               pc[g] \in {"open", "list"} /\ offset'[g] = offset[g]
      PROVE  \A k \in Codes : InFlight(k)' => InFlight(k)
  BY <1>i DEF InFlight, Code
<1>0. CASE UNCHANGED <<chat, order, codes, pc, offset, cliPc, used, raced>>
  BY <1>0, <1>m, <1>n, <1>i
<1>1. ASSUME NEW c \in Clis, CliRead(c)
      PROVE  SpentIsGone'
  <2>1. UNCHANGED <<chat, order, codes, pc, offset, used, raced>>
    BY <1>1 DEF CliRead, choice, files, gateway, pairings
  <2>2. \A d \in Clis : cliPc[d] = "done" => cliPc'[d] = "done"
    BY <1>1, <1>t DEF CliRead
  <2> QED
    BY <2>1, <2>2, <1>m, <1>n, <1>i
<1>2. ASSUME NEW c \in Clis, CliWrite(c)
      PROVE  SpentIsGone'
  <2>1. UNCHANGED <<chat, order, pc, offset, used>> /\ cliPc'[c] = "done"
    BY <1>2, <1>t DEF CliWrite, CliCode, CliAdd, CliRemove, choice, gateway
  <2>2. \A k \in Codes : Minted(k) => Minted(k)'
    BY <1>2, <1>t, <1>n, <2>1 DEF CliWrite
  <2>3. \A k \in Codes : InFlight(k)' => InFlight(k)
    BY <1>i, <2>1
  <2>4. CASE CliAdd(c) \/ CliRemove(c)
    BY <1>m, <2>1, <2>2, <2>3, <2>4 DEF CliAdd, CliRemove
  <2>5. CASE CliCode(c)
    <3> SUFFICES ASSUME ~raced', NEW k \in Codes
                 PROVE  /\ k \in codes' \/ used'[k] # {} \/ InFlight(k)' => Minted(k)'
                        /\ used'[k] # {} \/ InFlight(k)' => k \notin codes'
                        /\ InFlight(k)' => used'[k] = {}
                        /\ used'[k] = {} \/ \E p \in Peers : used'[k] = {p}
      BY DEF SpentIsGone
    <3>1. /\ order[c].op = "code" /\ ~raced /\ cliPc[c] = "write"
          /\ codes' \subseteq codes \cup {order[c].arg}
      BY <1>2, <2>5 DEF CliWrite, CliCode
    <3>2. /\ k \in codes \/ used[k] # {} \/ InFlight(k) => Minted(k)
          /\ used[k] # {} \/ InFlight(k) => k \notin codes
          /\ InFlight(k) => used[k] = {}
          /\ used[k] = {} \/ \E p \in Peers : used[k] = {p}
      BY <1>s, <3>1 DEF SpentIsGone
    <3>3. CASE k = order[c].arg
      <4>1. Minted(k)'
        BY <2>1, <3>1, <3>3 DEF Minted
      <4>2. ~Minted(k)
        BY <3>1, <3>3, TheCase DEF Minted, InboxInv, PlacesTyped
      <4> QED
        BY <2>1, <2>3, <3>2, <4>1, <4>2
    <3>4. CASE k # order[c].arg
      BY <2>1, <2>2, <2>3, <3>1, <3>2, <3>4
    <3> QED
      BY <3>3, <3>4
  <2> QED
    BY <1>2, <2>4, <2>5 DEF CliWrite
<1>3. ASSUME NEW g \in Gateways, Serve(g) \/ Lock(g) \/ Poll(g) \/ Crash(g)
      PROVE  SpentIsGone'
  <2>1. UNCHANGED <<chat, order, codes, cliPc, used, raced>>
    BY <1>3 DEF Serve, Lock, LockUnchecked, Poll, Crash, choice, files, cli, pairings
  <2>2. /\ \E l \in Pcs \ {"open", "list"} : pc' = [pc EXCEPT ![g] = l]
        /\ \A h \in Gateways : h # g => offset'[h] = offset[h]
    BY <1>3, <1>t DEF Serve, Lock, LockUnchecked, Poll, Crash, Go, Pcs, InboxInv, PlacesTyped
  <2>3. \A h \in Gateways : pc'[h] \in {"open", "list"} =>
          pc[h] \in {"open", "list"} /\ offset'[h] = offset[h]
    BY <1>t, <2>2
  <2> QED
    BY <2>1, <2>3, <1>m, <1>n, <1>i
<1>4. ASSUME NEW g \in Gateways, Handle(g)
      PROVE  SpentIsGone'
  <2>1. pc[g] \in Working /\ UNCHANGED <<chat, order, expired, cliPc>>
    BY <1>4, HandleIs DEF choice, cli
  <2>2. \A h \in Gateways : h # g => pc[h] \in Idle
    BY <2>1, OneWorks DEF Working
  <2>3. \A k \in Codes : Minted(k) => Minted(k)'
    BY <1>n, <2>1
  <2>o. ASSUME NEW l \in Pcs \ {"open", "list"}, Go(g, l)
        PROVE  \A k \in Codes : ~InFlight(k)'
    BY <1>t, <2>2, <2>o DEF Go, Idle, InFlight
  <2>f. Finish(g) => \A k \in Codes : ~InFlight(k)'
    BY <2>o DEF Finish, Pcs
  <2>4. CASE Finish(g) /\ UNCHANGED <<codes, used, raced>>
    BY <1>m, <2>3, <2>4, <2>f
  <2>5. CASE Redeem(g)
    BY <1>m, <2>3, <2>5, <2>o DEF Redeem, files, pairings, Pcs
  <2>6. CASE Spend(g)
    <3>1. PICK saved \in BOOLEAN :
            /\ codes' = IF saved THEN copy[g] \ (expired \cup {Code(g)}) ELSE codes
            /\ raced' = (raced \/ (saved /\ codes # copy[g]))
            /\ IF saved /\ Code(g) \in copy[g] \ expired
               THEN Go(g, "open") /\ UNCHANGED <<offset, finished, snubbed>>
               ELSE Refuse(g)
      BY <2>6 DEF Spend
    <3>2. used' = used
      BY <2>6 DEF Spend
    <3>3. CASE raced'
      BY <3>3 DEF SpentIsGone
    <3>4. CASE ~raced' /\ Refuse(g)
      BY <1>m, <2>3, <2>f, <3>1, <3>2, <3>4 DEF Refuse
    <3>5. CASE ~raced' /\ ~Refuse(g)
      <4>1. /\ saved /\ codes = copy[g] /\ ~raced /\ Code(g) \in codes
            /\ codes' \subseteq codes \ {Code(g)} /\ Go(g, "open") /\ offset' = offset
        BY <3>1, <3>5
      <4>2. \A k \in Codes : InFlight(k)' => k = Code(g)
        BY <1>t, <2>1, <2>2, <4>1 DEF InFlight, Go, Idle, Code
      <4> QED
        BY <1>s, <2>3, <3>2, <4>1, <4>2 DEF SpentIsGone
    <3> QED
      BY <3>3, <3>4, <3>5
  <2>7. CASE Open(g)
    <3>1. /\ pc[g] = "open" /\ Go(g, "list") /\ offset' = offset
          /\ UNCHANGED <<codes, used, raced>>
      BY <2>7 DEF Open, files, pairings
    <3> QED
      BY <1>t, <1>m, <1>i, <2>1, <2>3, <3>1 DEF Go
  <2>8. CASE Enlist(g)
    <3>1. CASE Refuse(g) /\ UNCHANGED <<used, raced>>
      BY <2>4, <2>8, <3>1 DEF Enlist, Refuse
    <3>2. CASE /\ raced' = (raced \/ allow # copy[g])
               /\ used' = [used EXCEPT ![Code(g)] = used[Code(g)] \cup {From(offset[g])}]
               /\ Go(g, "welcome")
      <4>1. Code(g) \in Codes /\ InFlight(Code(g)) /\ codes' = codes
        BY <1>t, <2>8 DEF Enlist, Redeeming, InFlight
      <4>2. From(offset[g]) \in Peers
        BY <2>1, OneWorks DEF Working
      <4>3. \A k \in Codes : ~InFlight(k)'
        BY <2>o, <3>2 DEF Pcs
      <4> SUFFICES ASSUME ~raced', NEW k \in Codes
                   PROVE  /\ k \in codes \/ used'[k] # {} => Minted(k)'
                          /\ used'[k] # {} => k \notin codes
                          /\ used'[k] = {} \/ \E p \in Peers : used'[k] = {p}
        BY <4>1, <4>3 DEF SpentIsGone
      <4>4. /\ k \in codes \/ used[k] # {} \/ InFlight(k) => Minted(k)
            /\ used[k] # {} \/ InFlight(k) => k \notin codes
            /\ InFlight(k) => used[k] = {}
            /\ used[k] = {} \/ \E p \in Peers : used[k] = {p}
        BY <1>s, <3>2 DEF SpentIsGone
      <4>5. CASE k = Code(g)
        <5>1. used'[k] = {From(offset[g])}
          BY <1>t, <3>2, <4>1, <4>4, <4>5
        <5> QED
          BY <2>3, <4>1, <4>2, <4>4, <4>5, <5>1
      <4>6. CASE k # Code(g)
        BY <1>t, <2>3, <3>2, <4>4, <4>6
      <4> QED
        BY <4>5, <4>6
    <3> QED
      BY <2>8, <3>1, <3>2 DEF Enlist
  <2>9. CASE Hear(g) \/ Ask(g)
    BY <1>m, <2>3, <2>9, <2>o DEF Hear, Ask, files, pairings, Pcs
  <2> QED
    BY <1>4, <2>4, <2>5, <2>6, <2>7, <2>8, <2>9
       DEF Handle, Skip, TurnAway, Refuse, Welcome, Reply, files, pairings
<1> QED
  BY <1>0, <1>1, <1>2, <1>3, <1>4
     DEF Next, vars, choice, files, gateway, cli, pairings, Arrive, Expire,
         PollAgain

\* Peers once welcomed.
LEMMA WelcomedStayListed ==
  ASSUME InboxInv, [Next]_vars
  PROVE  WelcomedListed'
<1> USE DEF WelcomedListed, InboxInv
<1>0. CASE UNCHANGED <<allow, welcomed, raced>>
  BY <1>0
<1>1. ASSUME NEW c \in Clis, CliWrite(c)
      PROVE  WelcomedListed'
  BY <1>1 DEF CliWrite, CliCode, CliAdd, CliRemove
<1>2. ASSUME NEW g \in Gateways, Handle(g)
      PROVE  WelcomedListed'
  <2>1. CASE Spend(g)
    BY <2>1 DEF Spend
  <2>2. CASE Enlist(g)
    BY <2>2 DEF Enlist
  <2>3. CASE Welcome(g)
    BY <2>3 DEF Welcome, files
  <2> QED
    BY <1>0, <1>2, <2>1, <2>2, <2>3
       DEF Handle, Skip, TurnAway, Redeem, Open, Hear, Ask, Reply, files, pairings
<1> QED
  BY <1>0, <1>1, <1>2
     DEF Next, vars, files, pairings, Arrive, Expire, CliRead, Serve, Lock,
         LockUnchecked, Poll, PollAgain, Crash

\* The invariant holds in every behaviour of the gateway, for any updates and
\* runs of the CLI, any number of processes and any number of crashes.
THEOREM InboxInvariance == Spec => []InboxInv
<1>1. InboxInv /\ [Next]_vars => InboxInv'
  BY PlacesStayTyped, DataStaysTyped, CliStaysTyped, StillHandledBefore,
     CountsStayFit, AnswersStay, SpentStaysGone, WelcomedStayListed DEF InboxInv
<1> QED
  BY InboxStartsRight, <1>1, PTL DEF Spec

\* What the gateway says it has heard it has, once, and whom it says it has
\* paired it has, once.
THEOREM InboxHonest == Spec => []InboxIsHonest
<1>1. InboxInv => InboxIsHonest
  <2> SUFFICES ASSUME InboxInv PROVE InboxIsHonest
    OBVIOUS
  <2>1. TypeOK
    BY DEF TypeOK, InboxInv, PlacesTyped, DataTyped, LogLine
  <2>2. AckedWasHandled
    BY DEF InboxInv, HandledBefore
  <2>3. ASSUME NEW p \in Peers, NEW i \in DOMAIN log[p]
        PROVE  Times(log[p], log[p][i]) <= 1 + crashes
    <3>1. /\ log[p] \in Seq(LogLine) /\ crashes \in Nat
          /\ \A role \in {"user", "assistant"}, u \in Updates :
               Times(log[p], Line(role, u)) <= crashes + (IF Past(role, u) THEN 1 ELSE 0)
      BY DEF InboxInv, PlacesTyped, DataTyped, CountsFit
    <3>2. log[p][i] \in LogLine
      BY <2>3, <3>1
    <3>3. PICK role \in {"user", "assistant"}, u \in Updates : log[p][i] = Line(role, u)
      BY <3>2 DEF LogLine, Line
    <3>4. Times(log[p], Line(role, u)) \in Nat
      BY <3>1, <3>2, <3>3, TimesAppend
    <3> QED
      BY <3>1, <3>3, <3>4
  <2>4. OncePerCrash
    BY <2>3 DEF OncePerCrash, InboxInv, AnswersFollow
  <2>5. CodePairsOnce
    <3> SUFFICES ASSUME ~raced, NEW k \in Codes
                 PROVE  Cardinality(used[k]) <= 1
      BY DEF CodePairsOnce, InboxInv, WelcomedListed
    <3>1. used[k] = {} \/ \E p \in Peers : used[k] = {p}
      BY DEF InboxInv, SpentIsGone
    <3>2. CASE used[k] = {}
      <4>1. Cardinality(used[k]) = 0
        BY <3>2, FS_EmptySet
      <4> QED
        BY <4>1
    <3>3. ASSUME NEW p \in Peers, used[k] = {p}
          PROVE  Cardinality(used[k]) <= 1
      <4>1. Cardinality({p}) = 1
        BY FS_Singleton
      <4> QED
        BY <3>3, <4>1
    <3> QED
      BY <3>1, <3>2, <3>3
  <2> QED
    BY <2>1, <2>2, <2>4, <2>5 DEF InboxIsHonest, DeliveryIsHonest
<1> QED
  BY InboxInvariance, <1>1, PTL

-----------------------------------------------------------------------------
(***************************************************************************)
(* The sessions. In the REPL a run takes a copy of the history, and the    *)
(* file has what the run has reported (FileFollows); in rpc and acp the    *)
(* run belongs to the current session unless that was switched (SaidIn).   *)
(***************************************************************************)

Lines == Messages \cup Junk
Clean(lines) == \A i \in DOMAIN lines : lines[i] \notin Junk

SessionTypes ==
  /\ mode \in Modes /\ up \in BOOLEAN
  /\ msgs \in Seq(Messages) /\ ctx \in Seq(Messages)
  /\ phase \in Phases
  /\ cur \in 0..made /\ made \in 0..MaxSessions
  /\ jsonl \in [SessionIds -> Seq(Lines)]
  /\ hist \in [SessionIds -> Seq(Messages)]
  /\ home \in Seq(SessionIds) /\ Said <= MaxSaid
  /\ snaps \in Seq(Seq(Messages))

\* Only the REPL goes down, and only ACP has no session at first.
SessionPlaces ==
  /\ ~up => mode = "repl" /\ NoRun /\ msgs = <<>> /\ snaps = <<>>
  /\ NoRun <=> ctx = <<>>
  /\ asked => mode = "acp" /\ ~NoRun
  /\ (mode = "acp" /\ NoRun) \/ cur # 0

\* A line that is cut off is the last of a file that no process appends to.
FilesClean ==
  ~failed =>
    /\ \A f \in SessionIds : Loadable(jsonl[f])
    /\ mode = "repl" /\ up => Clean(jsonl[cur])
    /\ mode # "repl" => \A f \in SessionIds : Clean(jsonl[f])

\* The REPL's file has the history, and of a run what it has reported; the
\* phases of a strategy add to the history nothing.
FileFollows ==
  mode = "repl" /\ up /\ inSync =>
    jsonl[cur] = IF NoRun \/ phase = "phased" THEN msgs
                 ELSE IF phase = "begun" THEN Front(ctx) ELSE ctx

Known(seq) == \A i \in DOMAIN seq : seq[i].n <= Said

\* The history, the run's copy of it and the histories put away hold what was
\* said in their sessions.
SaidIn ==
  mode \in {"rpc", "acp"} =>
    /\ Known(msgs) /\ Known(ctx) /\ \A s \in SessionIds : Known(hist[s])
    /\ ~switched =>
         /\ NoRun /\ cur # 0 => Own(cur, msgs)
         /\ ~NoRun => Own(cur, ctx)
         /\ \A s \in SessionIds : Own(s, hist[s])

SessionsInv ==
  SessionTypes /\ SessionPlaces /\ FilesClean /\ FileFollows /\ SaidIn

\* A set of numbers has a least one.
LEMMA Least ==
  ASSUME NEW T, T \subseteq Nat, T # {}
  PROVE  \E x \in T : \A y \in T : x <= y
<1> DEFINE Below == {pair \in Nat \X Nat : pair[1] < pair[2]}
<1>1. IsWellFoundedOn(Below, Nat)
  <2>1. Below = OpToRel(<, Nat)
    BY DEF OpToRel
  <2> QED
    BY <2>1, NatLessThanWellFounded
<1>2. PICK x \in T : \A y \in T : ~(<<y, x>> \in Below)
  <2> HIDE DEF Below
  <2> QED
    BY <1>1, WFMin
<1>3. ASSUME NEW y \in T PROVE x <= y
  <2>1. y < x => <<y, x>> \in Below
    OBVIOUS
  <2> QED
    BY <1>2, <2>1
<1> QED
  BY <1>3

\* ... and a greatest one if none is above n.
LEMMA Greatest ==
  ASSUME NEW n \in Nat, NEW T, T \subseteq 0..n, T # {}
  PROVE  \E x \in T : \A y \in T : y <= x
<1> DEFINE D == {n - t : t \in T}
<1>1. PICK d \in D : \A e \in D : d <= e
  <2>1. \A t \in T : n - t \in Nat
    OBVIOUS
  <2>2. D \subseteq Nat /\ D # {}
    BY <2>1, Zenon
  <2> HIDE DEF D
  <2> QED
    BY <2>2, Least
<1>2. PICK x \in T : d = n - x
  OBVIOUS
<1>3. ASSUME NEW y \in T PROVE y <= x
  <2>1. n - y \in D
    OBVIOUS
  <2>2. n - x <= n - y
    BY <1>1, <1>2, <2>1
  <2> QED
    BY <2>2
<1> QED
  BY <1>3

\* What is before the last member of a sequence.
LEMMA FrontIs ==
  ASSUME NEW S, NEW seq \in Seq(S), seq # <<>>
  PROVE  /\ Front(seq) \in Seq(S) /\ Len(Front(seq)) = Len(seq) - 1
         /\ \A i \in 1..(Len(seq) - 1) : Front(seq)[i] = seq[i]
         /\ Last(seq) \in S
         /\ Append(Front(seq), Last(seq)) = seq
<1> DEFINE n == Len(seq) - 1
<1>1. n \in Nat /\ \A i \in 1..n : seq[i] \in S
  OBVIOUS
<1>2. /\ Front(seq) \in Seq(S) /\ Len(Front(seq)) = n
      /\ \A i \in 1..n : Front(seq)[i] = seq[i]
  <2>1. /\ SubSeq(seq, 1, n) \in Seq(S)
        /\ Len(SubSeq(seq, 1, n)) = IF 1 <= n THEN n - 1 + 1 ELSE 0
        /\ \A i \in 1..(n - 1 + 1) : SubSeq(seq, 1, n)[i] = seq[1 + i - 1]
    <3> HIDE DEF n
    <3> QED
      BY <1>1, SubSeqProperties
  <2>2. Front(seq) = SubSeq(seq, 1, n)
    BY DEF Front
  <2> HIDE DEF n
  <2>3. /\ n - 1 + 1 = n /\ \A i \in 1..n : 1 + i - 1 = i
        /\ (IF 1 <= n THEN n - 1 + 1 ELSE 0) = n
    BY <1>1
  <2> QED
    BY <2>1, <2>2, <2>3
<1>3. Last(seq) = seq[n + 1] /\ Last(seq) \in S
  BY DEF Last
<1>4. Append(Front(seq), Last(seq)) = seq
  <2> HIDE DEF n
  <2>1. seq \in Seq(S) /\ Len(seq) = n + 1
    BY DEF n
  <2> QED
    BY <1>1, <1>2, <1>3, <2>1
<1> QED
  BY <1>2, <1>3, <1>4

LEMMA AppendIs ==
  ASSUME NEW S, NEW seq \in Seq(S), NEW x \in S
  PROVE  Append(seq, x) \in Seq(S) /\ Append(seq, x) # <<>>
<1>1. Len(Append(seq, x)) = Len(seq) + 1 /\ Len(seq) \in Nat /\ Len(<<>>) = 0
  OBVIOUS
<1>2. Append(seq, x) # <<>>
  BY <1>1
<1> QED
  BY <1>2

LEMMA FrontOfAppend ==
  ASSUME NEW S, NEW seq \in Seq(S), NEW x \in S
  PROVE  Front(Append(seq, x)) = seq /\ Last(Append(seq, x)) = x
<1> DEFINE t == Append(seq, x)
<1>1. /\ t \in Seq(S) /\ t # <<>> /\ Len(t) = Len(seq) + 1 /\ Len(seq) \in Nat
      /\ \A i \in 1..Len(seq) : t[i] = seq[i]
      /\ t[Len(seq) + 1] = x
  OBVIOUS
<1>2. /\ Front(t) \in Seq(S) /\ Len(Front(t)) = Len(t) - 1
      /\ \A i \in 1..(Len(t) - 1) : Front(t)[i] = t[i]
  <2> HIDE DEF t
  <2> QED
    BY <1>1, FrontIs
<1>3. Last(t) = x
  BY <1>1 DEF Last
<1>4. Front(t) = seq
  <2> HIDE DEF t
  <2> QED
    BY <1>1, <1>2
<1> QED
  BY <1>3, <1>4

\* No message is junk.
LEMMA NoJunk ==
  /\ Messages \cap Junk = {}
  /\ \A n \in 0..MaxSaid, role \in Roles : Msg(n, role) \in Messages
  /\ Torn \in Junk /\ Bad \in Junk /\ Torn # Bad
BY SessionsAssumption DEF Messages, Junk, Torn, Bad, Msg, Roles

\* A line is put behind the others, unless the last of them is cut off.
LEMMA PutIs ==
  ASSUME NEW lines \in Seq(Lines), NEW m \in Lines
  PROVE  /\ Put(lines, m) \in Seq(Lines)
         /\ Clean(lines) => Put(lines, m) = Append(lines, m)
<1>1. Bad \in Lines /\ Torn \in Lines
  BY NoJunk DEF Lines
<1>2. CASE lines # <<>> /\ Last(lines) = Torn
  <2>1. Front(lines) \in Seq(Lines)
    BY <1>2, FrontIs
  <2>2. ~Clean(lines)
    <3>1. Len(lines) \in DOMAIN lines
      BY <1>2
    <3> QED
      BY <1>2, <3>1, NoJunk DEF Clean, Last
  <2> QED
    BY <1>1, <1>2, <2>1, <2>2 DEF Put
<1>3. CASE ~(lines # <<>> /\ Last(lines) = Torn)
  BY <1>3 DEF Put
<1> QED
  BY <1>2, <1>3

\* Messages are clean lines, and stay so with one more.
LEMMA CleanIs ==
  /\ \A seq \in Seq(Messages) : seq \in Seq(Lines) /\ Clean(seq)
  /\ \A lines \in Seq(Lines), m \in Messages :
       Clean(lines) => Clean(Append(lines, m))
  /\ \A lines \in Seq(Lines), m \in Lines :
       Clean(lines) => Loadable(lines) /\ Loadable(Append(lines, m))
<1>1. ASSUME NEW seq \in Seq(Messages)
      PROVE  seq \in Seq(Lines) /\ Clean(seq)
  <2>1. Messages \subseteq Lines /\ \A i \in DOMAIN seq : seq[i] \in Messages
    BY DEF Lines
  <2> QED
    BY <2>1, NoJunk DEF Clean
<1>2. ASSUME NEW lines \in Seq(Lines), NEW m \in Messages, Clean(lines)
      PROVE  Clean(Append(lines, m))
  BY <1>2, NoJunk DEF Clean
<1>3. ASSUME NEW lines \in Seq(Lines), NEW m \in Lines, Clean(lines)
      PROVE  Loadable(lines) /\ Loadable(Append(lines, m))
  BY <1>3 DEF Clean, Loadable
<1> QED
  BY <1>1, <1>2, <1>3

\* What is loaded, and folded.
LEMMA LoadIs ==
  ASSUME NEW lines \in Seq(Lines), Loadable(lines)
  PROVE  Load(lines) \in Seq(Messages)
<1>1. CASE lines # <<>> /\ Last(lines) \in Junk
  <2>1. /\ Front(lines) \in Seq(Lines) /\ Len(Front(lines)) = Len(lines) - 1
        /\ \A i \in 1..(Len(lines) - 1) : Front(lines)[i] = lines[i]
    BY <1>1, FrontIs
  <2>2. \A i \in 1..(Len(lines) - 1) : lines[i] \in Messages
    BY DEF Loadable, Lines
  <2> QED
    BY <1>1, <2>1, <2>2 DEF Load
<1>2. CASE ~(lines # <<>> /\ Last(lines) \in Junk)
  <2>1. \A i \in 1..Len(lines) : lines[i] \in Messages
    BY <1>2 DEF Loadable, Lines, Last
  <2> QED
    BY <1>2, <2>1 DEF Load
<1> QED
  BY <1>1, <1>2

LEMMA FoldedIs ==
  ASSUME NEW seq \in Seq(Messages)
  PROVE  Folded(seq) \in Seq(Messages)
<1> DEFINE marks == {i \in DOMAIN seq : seq[i].role = "summary"}
           first == CHOOSE i \in marks : \A j \in marks : i <= j
<1>1. CASE marks # {}
  <2>1. first \in marks
    <3>1. marks \subseteq Nat
      OBVIOUS
    <3> HIDE DEF marks
    <3>2. \E i \in marks : \A j \in marks : i <= j
      BY <1>1, <3>1, Least
    <3> QED
      BY <3>2
  <2>2. first \in 1..Len(seq) /\ Len(seq) \in Nat
    BY <2>1
  <2>3. SubSeq(seq, first, Len(seq)) \in Seq(Messages)
    <3> HIDE DEF first
    <3>1. \A i \in first..Len(seq) : seq[i] \in Messages
      BY <2>2
    <3> QED
      BY <2>2, <3>1, SubSeqProperties
  <2> QED
    BY <1>1, <2>3 DEF Folded
<1>2. CASE marks = {}
  BY <1>2 DEF Folded
<1> QED
  BY <1>1, <1>2

\* The newest file is one.
LEMMA LatestIs ==
  ASSUME SessionTypes, Written # {}
  PROVE  Latest \in SessionIds
<1>1. Written \subseteq 0..MaxSessions /\ Written \subseteq SessionIds /\ MaxSessions \in Nat
  BY SMTT(30), SessionsAssumption DEF SessionTypes, Written, SessionIds
<1>2. \E f \in Written : \A g \in Written : g <= f
  BY <1>1, Greatest
<1> QED
  BY <1>1, <1>2 DEF Latest

\* At first nothing is said.
LEMMA SessionsStartRight == SessionInit => SessionsInv
<1> SUFFICES ASSUME SessionInit PROVE SessionsInv
  OBVIOUS
<1> USE SessionsAssumption DEF SessionInit, AllModes, NoRun, Said, SessionIds, Phases
<1>1. SessionTypes
  BY DEF SessionTypes
<1>2. SessionPlaces /\ FilesClean /\ FileFollows
  BY DEF SessionPlaces, FilesClean, Loadable, Clean, FileFollows
<1>3. SaidIn
  BY DEF SaidIn, Known, Own
<1> QED
  BY <1>1, <1>2, <1>3 DEF SessionsInv

\* A summary in front of some of the messages.
LEMMA SummarizedIs ==
  ASSUME NEW seq \in Seq(Messages), NEW cut \in 2..(Len(seq) - 1)
  PROVE  Summarized(seq, cut) \in Seq(Messages) /\ Summarized(seq, cut) # <<>>
<1>1. Msg(0, "summary") \in Messages
  BY NoJunk, SessionsAssumption DEF Roles
<1>2. /\ cut + 1 \in Int /\ Len(seq) \in Int
      /\ \A i \in (cut + 1)..Len(seq) : seq[i] \in Messages
  OBVIOUS
<1>3. SubSeq(seq, cut + 1, Len(seq)) \in Seq(Messages)
  BY <1>2, SubSeqProperties
<1> HIDE DEF Msg
<1> QED
  BY <1>1, <1>3 DEF Summarized

\* ... and of nothing else.
LEMMA SummarizedFrom ==
  ASSUME NEW seq \in Seq(Messages), NEW cut \in 2..(Len(seq) - 1)
  PROVE  \A i \in DOMAIN Summarized(seq, cut) :
           \/ Summarized(seq, cut)[i].n = 0
           \/ \E j \in DOMAIN seq : Summarized(seq, cut)[i].n = seq[j].n
<1> DEFINE rest == SubSeq(seq, cut + 1, Len(seq))
           head == Msg(0, "summary")
<1>1. /\ cut + 1 \in Int /\ Len(seq) \in Int /\ cut + 1 <= Len(seq)
      /\ \A i \in (cut + 1)..Len(seq) : seq[i] \in Messages
  OBVIOUS
<1>2. /\ rest \in Seq(Messages) /\ Len(rest) = Len(seq) - (cut + 1) + 1
      /\ \A i \in 1..(Len(seq) - (cut + 1) + 1) : rest[i] = seq[cut + 1 + i - 1]
  BY <1>1, SubSeqProperties
<1>3. head \in Messages /\ head.n = 0
  <2>1. Msg(0, "summary") \in Messages
    BY NoJunk, SessionsAssumption DEF Roles
  <2>2. Msg(0, "summary").n = 0
    BY DEF Msg
  <2> QED
    BY <2>1, <2>2
<1>4. Summarized(seq, cut) = <<head>> \o rest
  BY DEF Summarized
<1> HIDE DEF rest, head
<1>5. /\ DOMAIN (<<head>> \o rest) = 1..(1 + Len(rest)) /\ Len(rest) \in Nat
      /\ (<<head>> \o rest)[1] = head
      /\ \A i \in 1..Len(rest) : (<<head>> \o rest)[1 + i] = rest[i]
  <2>1. rest \in Seq(Messages) /\ Len(rest) \in Nat /\ head \in Messages
    BY <1>2, <1>3
  <2>2. <<head>> \in Seq(Messages) /\ Len(<<head>>) = 1 /\ <<head>>[1] = head
    BY <2>1
  <2>3. /\ <<head>> \o rest \in Seq(Messages) /\ Len(<<head>> \o rest) = 1 + Len(rest)
        /\ \A i \in 1..(1 + Len(rest)) :
             (<<head>> \o rest)[i] = IF i <= 1 THEN <<head>>[i] ELSE rest[i - 1]
    BY <2>1, <2>2, ConcatProperties
  <2>4. \A i \in 1..Len(rest) : 1 + i \in 1..(1 + Len(rest)) /\ ~(1 + i <= 1) /\ (1 + i) - 1 = i
    BY <2>1
  <2>5. 1 \in 1..(1 + Len(rest)) /\ 1 <= 1
    BY <2>1
  <2> QED
    BY <2>1, <2>2, <2>3, <2>4, <2>5
<1>6. ASSUME NEW i \in 2..(1 + Len(rest))
      PROVE  \E j \in DOMAIN seq : (<<head>> \o rest)[i] = seq[j]
  <2>1. i - 1 \in 1..Len(rest) /\ 1 + (i - 1) = i
    BY <1>5
  <2>2. (<<head>> \o rest)[i] = rest[i - 1]
    BY <1>5, <2>1
  <2>3. rest[i - 1] = seq[cut + 1 + (i - 1) - 1] /\ cut + 1 + (i - 1) - 1 \in 1..Len(seq)
    BY <1>1, <1>2, <2>1
  <2> QED
    BY <2>2, <2>3
<1>7. \A i \in 1..(1 + Len(rest)) : i = 1 \/ i \in 2..(1 + Len(rest))
  BY <1>5
<1> QED
  BY <1>3, <1>4, <1>5, <1>6, <1>7

\* A line is written whole, or the write has failed.
LEMMA WriteIs ==
  ASSUME SessionsInv, NEW f \in SessionIds, NEW m \in Messages,
         NEW same \in BOOLEAN, Write(f, m, same)
  PROVE  /\ jsonl' \in [SessionIds -> Seq(Lines)]
         /\ \/ /\ jsonl' = [jsonl EXCEPT ![f] = Put(jsonl[f], m)]
               /\ failed' = failed /\ inSync' = (inSync /\ same)
            \/ failed' /\ ~inSync'
<1>1. m \in Lines /\ Torn \in Lines
  BY NoJunk DEF Lines
<1>2. jsonl \in [SessionIds -> Seq(Lines)]
  BY DEF SessionsInv, SessionTypes
<1>3. Put(jsonl[f], m) \in Seq(Lines) /\ Put(jsonl[f], Torn) \in Seq(Lines)
  BY <1>1, <1>2, PutIs
<1> QED
  BY <1>2, <1>3 DEF Write

\* The run reports its prompt, a reply or a draft.
LEMMA ReportIs ==
  ASSUME SessionsInv, Report
  PROVE  /\ File \in SessionIds /\ (mode # "acp" => File = cur)
         /\ ctx # <<>> /\ Last(ctx) \in Messages /\ up
         /\ UNCHANGED <<frontEnd, msgs, cur, asked, hist, snaps, before, home, switched>>
         /\ phase \in {"begun", "heard", "drafted"}
         /\ phase' \in {"heard", "drafted", "replied", "errored"}
         /\ \E m \in Messages, same \in BOOLEAN :
              /\ Write(File, m, same)
              /\ m.n = Last(ctx).n
              /\ \/ ctx' = ctx /\ (same => phase = "begun" /\ m = Last(ctx))
                 \/ ctx' = Append(ctx, m) /\ phase # "begun"
                 \/ /\ ~same
                    /\ \E q \in Messages :
                         q.n = Last(ctx).n /\ ctx' = Append(Append(ctx, m), q)
<1>1. /\ up /\ phase \in {"begun", "heard", "drafted"}
      /\ phase' \in {"heard", "drafted", "replied", "errored"}
      /\ UNCHANGED <<frontEnd, msgs, cur, asked, hist, snaps, before, home, switched>>
  BY DEF Report, ReportPrompt, ReportReply, ReportErrored, ReportDraft, Awaited, Tell
<1>2. ctx # <<>> /\ ctx \in Seq(Messages) /\ cur # 0
  BY <1>1 DEF SessionsInv, SessionTypes, SessionPlaces, NoRun
<1>3. Last(ctx) \in Messages
  BY <1>2, FrontIs
<1>4. File \in SessionIds /\ (mode # "acp" => File = cur)
  BY <1>2, SessionsAssumption DEF SessionsInv, SessionTypes, File, SessionIds
<1>5. ASSUME NEW role \in Roles
      PROVE  /\ Msg(Last(ctx).n, role) \in Messages
             /\ Msg(Last(ctx).n, role).n = Last(ctx).n
  <2>1. Last(ctx).n \in 0..MaxSaid
    BY <1>3 DEF Messages
  <2>2. Msg(Last(ctx).n, role) \in Messages
    BY <2>1, NoJunk
  <2>3. Msg(Last(ctx).n, role).n = Last(ctx).n
    BY DEF Msg
  <2> QED
    BY <2>2, <2>3
<1>6. NextReply \in Messages /\ NextReply.n = Last(ctx).n
  <2>1. "reply" \in Roles
    BY DEF Roles
  <2> QED
    BY <1>5, <2>1 DEF NextReply
<1> DEFINE Told(m, same) ==
             /\ Write(File, m, same)
             /\ m.n = Last(ctx).n
             /\ \/ ctx' = ctx /\ (same => phase = "begun" /\ m = Last(ctx))
                \/ ctx' = Append(ctx, m) /\ phase # "begun"
                \/ /\ ~same
                   /\ \E q \in Messages :
                        q.n = Last(ctx).n /\ ctx' = Append(Append(ctx, m), q)
<1>7. ReportPrompt => Told(Last(ctx), TRUE)
  BY DEF ReportPrompt, Tell
<1>8. ReportReply => Told(NextReply, TRUE)
  <2> SUFFICES ASSUME ReportReply PROVE Told(NextReply, TRUE)
    OBVIOUS
  <2>1. /\ Write(File, NextReply, TRUE) /\ ctx' = Append(ctx, NextReply)
        /\ phase # "begun"
    BY DEF ReportReply, Tell, Awaited
  <2> HIDE DEF NextReply
  <2> QED
    BY <1>6, <2>1
<1>9. ReportErrored => Told(NextReply, FALSE)
  <2> SUFFICES ASSUME ReportErrored PROVE Told(NextReply, FALSE)
    OBVIOUS
  <2> DEFINE q == Msg(Last(ctx).n, "result")
  <2>1. q \in Messages /\ q.n = Last(ctx).n
    <3>1. "result" \in Roles
      BY DEF Roles
    <3> QED
      BY <1>5, <3>1
  <2>2. /\ Write(File, NextReply, FALSE)
        /\ ctx' = Append(Append(ctx, NextReply), q)
    BY DEF ReportErrored, Tell
  <2> HIDE DEF q
  <2> QED
    BY <1>6, <2>1, <2>2
<1>10. ReportDraft => Told(NextReply, FALSE)
  BY <1>6 DEF ReportDraft, Tell
<1>11. \E m \in Messages, same \in BOOLEAN : Told(m, same)
  <2> HIDE DEF Told
  <2> QED
    BY <1>3, <1>6, <1>7, <1>8, <1>9, <1>10 DEF Report
<1> QED
  BY <1>1, <1>2, <1>3, <1>4, <1>11

\* A result that is changed in place.
LEMMA AmendIs ==
  ASSUME SessionsInv, AmendResult
  PROVE  /\ ctx' \in Seq(Messages) /\ ctx' # <<>> /\ Len(ctx') = Len(ctx)
         /\ \A i \in DOMAIN ctx : ctx'[i].n = ctx[i].n
<1>1. ctx # <<>> /\ ctx \in Seq(Messages)
  BY DEF AmendResult, SessionsInv, SessionTypes, SessionPlaces, NoRun
<1>2. Len(ctx) \in DOMAIN ctx /\ ctx[Len(ctx)] \in Messages
  BY <1>1
<1> DEFINE m == [ctx[Len(ctx)] EXCEPT !.role = "result"]
<1>3. m \in Messages /\ m.n = ctx[Len(ctx)].n
  BY <1>2 DEF Messages, Roles
<1>4. ctx' = [ctx EXCEPT ![Len(ctx)] = m]
  BY DEF AmendResult
<1> HIDE DEF m
<1> QED
  BY <1>1, <1>2, <1>3, <1>4

\* The history that a run leaves is its own, or none if its task has gone.
LEMMA RunEndIs ==
  ASSUME SessionsInv, FinishRun
  PROVE  \E full \in Seq(Messages) :
           /\ Complete(full) /\ ~NoRun
           /\ full = ctx \/ (mode = "acp" /\ full = <<>>)
           /\ mode = "repl" => phase \in {"replied", "errored"}
<1>1. ctx \in Seq(Messages) /\ <<>> \in Seq(Messages)
  BY DEF SessionsInv, SessionTypes
<1> QED
  BY <1>1 DEF FinishRun, NoRun

\* What a run begins with.
LEMMA BeginIs ==
  ASSUME SessionsInv, NEW s \in SessionIds, NEW history \in Seq(Messages), Begin(s, history)
  PROVE  /\ home' \in Seq(SessionIds) /\ Said' = Said + 1 /\ Said' <= MaxSaid
         /\ \A n \in 1..Said : home'[n] = home[n]
         /\ home'[Said + 1] = s
         /\ ctx' \in Seq(Messages) /\ ctx' # <<>> /\ Front(ctx') = history
         /\ Len(ctx') = Len(history) + 1
         /\ \A i \in 1..Len(history) : ctx'[i] = history[i]
         /\ ctx'[Len(history) + 1].n = Said + 1
         /\ NoRun /\ phase' = "begun"
<1>1. home \in Seq(SessionIds) /\ Said = Len(home) /\ Said < MaxSaid /\ MaxSaid \in Nat
  BY SessionsAssumption DEF SessionsInv, SessionTypes, Begin, Said
<1>2. Msg(Said + 1, "user") \in Messages /\ Msg(Said + 1, "user").n = Said + 1
  <2>1. Said + 1 \in 0..MaxSaid /\ "user" \in Roles
    BY <1>1 DEF Roles
  <2>2. Msg(Said + 1, "user") \in Messages
    BY <2>1, NoJunk
  <2> QED
    BY <2>2 DEF Msg
<1>3. /\ home' = Append(home, s) /\ ctx' = Append(history, Msg(Said + 1, "user"))
      /\ NoRun /\ phase' = "begun"
  BY DEF Begin
<1>4. /\ home' \in Seq(SessionIds) /\ Said' = Said + 1 /\ Said' <= MaxSaid
      /\ \A n \in 1..Said : home'[n] = home[n]
      /\ home'[Said + 1] = s
  BY <1>1, <1>3 DEF Said
<1>5. Front(ctx') = history
  BY <1>2, <1>3, FrontOfAppend
<1>6. /\ ctx' \in Seq(Messages) /\ ctx' # <<>> /\ Len(ctx') = Len(history) + 1
      /\ \A i \in 1..Len(history) : ctx'[i] = history[i]
      /\ ctx'[Len(history) + 1].n = Said + 1
  <2> DEFINE m == Msg(Said + 1, "user")
  <2>1. m \in Messages /\ m.n = Said + 1 /\ ctx' = Append(history, m)
    BY <1>2, <1>3
  <2> HIDE DEF m
  <2> QED
    BY <2>1
<1> QED
  BY <1>3, <1>4, <1>5, <1>6

\* What a new process takes over.
LEMMA StartIs ==
  ASSUME SessionsInv, NEW f, NEW resume, StartIn(f, resume)
  PROVE  msgs' \in Seq(Messages)
<1>1. CASE resume /\ Written # {} /\ Loadable(jsonl[Latest])
  <2>1. Latest \in SessionIds
    BY <1>1, LatestIs DEF SessionsInv
  <2>2. jsonl[Latest] \in Seq(Lines)
    BY <2>1 DEF SessionsInv, SessionTypes
  <2>3. Folded(Load(jsonl[Latest])) \in Seq(Messages)
    BY <1>1, <2>2, LoadIs, FoldedIs
  <2> QED
    BY <1>1, <2>3 DEF StartIn
<1>2. CASE ~(resume /\ Written # {} /\ Loadable(jsonl[Latest]))
  BY <1>2 DEF StartIn
<1> QED
  BY <1>1, <1>2

\* What a fork copies.
LEMMA ForkIs ==
  ASSUME SessionsInv, Fork
  PROVE  msgs' \in Seq(Messages) /\ made' \in SessionIds
<1>1. cur \in SessionIds /\ made' \in SessionIds
  BY SessionsAssumption DEF Fork, SessionsInv, SessionTypes, SessionPlaces, SessionIds
<1>2. jsonl[cur] \in Seq(Messages)
  <2>1. jsonl[cur] \in Seq(Lines) /\ \A i \in DOMAIN jsonl[cur] : jsonl[cur][i] \notin Junk
    BY <1>1 DEF Fork, SessionsInv, SessionTypes
  <2>2. \A i \in DOMAIN jsonl[cur] : jsonl[cur][i] \in Messages
    BY <2>1 DEF Lines
  <2> QED
    BY <2>1, <2>2
<1>3. ASSUME NEW i \in DOMAIN jsonl[cur]
      PROVE  SubSeq(jsonl[cur], 1, i) \in Seq(Messages)
  <2>1. i \in Int /\ \A j \in 1..i : jsonl[cur][j] \in Messages
    BY <1>2
  <2> QED
    BY <2>1, SubSeqProperties
<1> QED
  BY <1>1, <1>3 DEF Fork

\* What a switch brings and puts away.
LEMMA SwitchIs ==
  ASSUME SessionsInv, NEW s \in SessionIds, AcpSwitch(s)
  PROVE  /\ hist' \in [SessionIds -> Seq(Messages)] /\ msgs' = hist'[s]
         /\ \A t \in SessionIds : hist'[t] = IF t = cur THEN msgs ELSE hist[t]
<1>1. /\ cur \in 0..MaxSessions /\ msgs \in Seq(Messages)
      /\ hist \in [SessionIds -> Seq(Messages)]
  BY SessionsAssumption DEF SessionsInv, SessionTypes
<1>2. /\ Saved \in [SessionIds -> Seq(Messages)]
      /\ \A t \in SessionIds : Saved[t] = IF t = cur THEN msgs ELSE hist[t]
  BY <1>1 DEF Saved, SessionIds
<1> QED
  BY <1>2 DEF AcpSwitch

\* Types and places.
LEMMA SessionTypesStay ==
  ASSUME SessionsInv, [SessionNext]_sessionVars
  PROVE  SessionTypes' /\ SessionPlaces'
<1> USE DEF SessionsInv
<1>c. /\ MaxSessions \in Nat \ {0} /\ MaxSaid \in Nat \ {0} /\ SessionIds = 1..MaxSessions
      /\ <<>> \in Seq(Messages)
  BY SessionsAssumption DEF SessionIds
<1>h. home \in Seq(SessionIds) /\ Len(home) \in Nat /\ Len(home) <= MaxSaid
  BY DEF SessionTypes, Said
<1> USE DEF SessionTypes, SessionPlaces
<1>0. CASE UNCHANGED sessionVars
  BY <1>0 DEF sessionVars, NoRun, Said
<1>1. CASE Report
  <2>1. /\ File \in SessionIds /\ ctx # <<>> /\ ctx \in Seq(Messages)
        /\ UNCHANGED <<frontEnd, msgs, cur, asked, hist, snaps, before, home, switched>>
        /\ phase \in Phases \ {"none"} /\ phase' \in Phases \ {"none"}
    BY <1>1, ReportIs DEF Phases
  <2>2. PICK m \in Messages, same \in BOOLEAN :
          /\ Write(File, m, same)
          /\ \/ ctx' = ctx \/ ctx' = Append(ctx, m)
             \/ \E q \in Messages : ctx' = Append(Append(ctx, m), q)
    BY <1>1, ReportIs
  <2>3. jsonl' \in [SessionIds -> Seq(Lines)]
    BY <2>1, <2>2, WriteIs
  <2>4. ctx' \in Seq(Messages) /\ ctx' # <<>>
    <3>1. Append(ctx, m) \in Seq(Messages) /\ Append(ctx, m) # <<>>
      BY <2>1, AppendIs
    <3>2. \A q \in Messages : /\ Append(Append(ctx, m), q) \in Seq(Messages)
                              /\ Append(Append(ctx, m), q) # <<>>
      BY <3>1, AppendIs
    <3> QED
      BY <2>1, <2>2, <3>1, <3>2
  <2> QED
    BY <2>1, <2>3, <2>4 DEF frontEnd, NoRun, Said
<1>16. CASE AmendResult
  <2>1. ctx' \in Seq(Messages) /\ ctx' # <<>>
    BY <1>16, AmendIs
  <2> QED
    BY <1>16, <2>1 DEF AmendResult, frontEnd, NoRun, Said
<1>2. CASE FinishRun
  <2>0. PICK full \in Seq(Messages) :
          Complete(full) /\ ~NoRun /\ (full = ctx \/ (mode = "acp" /\ full = <<>>))
    BY <1>2, RunEndIs
  <2>1. hist' \in [SessionIds -> Seq(Messages)]
    BY <2>0, <1>c DEF Complete, NoRun
  <2>2. /\ phase' = "none" /\ phase' \in Phases /\ ctx' = <<>> /\ asked' = FALSE
        /\ up' \in BOOLEAN /\ (~up' => mode = "repl")
    BY <2>0 DEF Complete, Over, Phases
  <2>3. msgs' \in Seq(Messages) /\ snaps' \in Seq(Seq(Messages))
        /\ (~up' => msgs' = <<>> /\ snaps' = <<>>)
    BY <2>0, <1>c DEF Complete
  <2>4. UNCHANGED <<mode, made, cur, jsonl, home>>
    BY <2>0 DEF Complete
  <2> QED
    BY <2>0, <1>c, <2>1, <2>2, <2>3, <2>4 DEF NoRun, Said
<1>17. CASE StrategyPrompt
  <2>1. Msg(Said + 1, "user") \in Messages /\ cur \in SessionIds /\ Len(home) + 1 <= MaxSaid
    <3>1. Said + 1 \in 0..MaxSaid /\ "user" \in Roles
      BY <1>17, <1>c, <1>h DEF StrategyPrompt, Said, Roles
    <3> QED
      BY <1>17, <1>c, <1>h, <3>1, NoJunk DEF StrategyPrompt, Said
  <2> HIDE DEF Msg
  <2>2. ctx' \in Seq(Messages) /\ ctx' # <<>> /\ phase' = "phased" /\ phase' \in Phases
    BY <1>17, <2>1 DEF StrategyPrompt, Phases
  <2>3. home' \in Seq(SessionIds) /\ Len(home') <= MaxSaid
    BY <1>17, <1>h, <2>1 DEF StrategyPrompt
  <2>4. snaps' \in Seq(Seq(Messages))
    BY <1>17 DEF StrategyPrompt
  <2> QED
    BY <1>17, <2>1, <2>2, <2>3, <2>4 DEF StrategyPrompt, frontEnd, NoRun, Said
<1>18. CASE StrategyTurn
  <2>1. ctx # <<>> /\ cur \in SessionIds
    BY <1>18, <1>c DEF StrategyTurn, NoRun
  <2>2. Last(ctx) \in Messages
    BY <2>1, FrontIs
  <2>3. File \in SessionIds
    BY <2>1, <1>c DEF File
  <2>4. jsonl' \in [SessionIds -> Seq(Lines)]
    BY <1>18, <2>2, <2>3, WriteIs DEF StrategyTurn
  <2>5. phase' = "none" /\ phase' \in Phases /\ ctx' = <<>>
    BY <1>18 DEF StrategyTurn, Over, Phases
  <2>6. ~asked
    BY <1>18 DEF StrategyTurn
  <2> QED
    BY <1>18, <1>c, <2>1, <2>4, <2>5, <2>6 DEF StrategyTurn, frontEnd, NoRun, Said
<1>3. CASE ReplPrompt
  <2>1. cur \in SessionIds /\ Begin(cur, msgs)
    BY <1>3, <1>c DEF ReplPrompt
  <2>2. /\ home' \in Seq(SessionIds) /\ Said' <= MaxSaid
        /\ ctx' \in Seq(Messages) /\ ctx' # <<>> /\ phase' = "begun" /\ phase' \in Phases
    BY <2>1, BeginIs DEF Phases
  <2>3. snaps' \in Seq(Seq(Messages))
    BY <1>3 DEF ReplPrompt
  <2> QED
    BY <1>3, <2>1, <2>2, <2>3 DEF ReplPrompt, frontEnd, NoRun
<1>4. CASE Undo
  <2>1. msgs' \in Seq(Messages)
    <3>1. (IF Len(snaps) < 2 THEN 1 ELSE Len(snaps) - 1) \in 1..Len(snaps)
      BY <1>4 DEF Undo
    <3> QED
      BY <1>4, <3>1 DEF Undo
  <2> QED
    BY <1>4, <2>1 DEF Undo, frontEnd, run, NoRun, Said
<1>5. CASE Compact
  <2>1. msgs' \in Seq(Messages)
    BY <1>5, SummarizedIs DEF Compact
  <2> QED
    BY <1>5, <2>1 DEF Compact, frontEnd, run, NoRun, Said
<1>6. CASE CompactRun
  <2>1. ctx' \in Seq(Messages) /\ ctx' # <<>>
    BY <1>6, SummarizedIs DEF CompactRun
  <2> QED
    BY <1>6, <2>1 DEF CompactRun, frontEnd, NoRun, Said
<1>7. CASE Fork
  <2>1. msgs' \in Seq(Messages) /\ made' \in SessionIds
    BY <1>7, ForkIs
  <2>2. jsonl' \in [SessionIds -> Seq(Lines)]
    BY <1>7, <2>1, CleanIs DEF Fork
  <2>3. /\ mode' = "repl" /\ mode \in Modes /\ up' /\ up' \in BOOLEAN
        /\ cur' \in 0..made' /\ cur' # 0 /\ made' \in 0..MaxSessions
    BY <1>7, <1>c, <2>1 DEF Fork
  <2>4. UNCHANGED <<mode, ctx, phase, asked, hist, snaps, home>>
    BY <1>7 DEF Fork, run
  <2> QED
    BY <2>1, <2>2, <2>3, <2>4 DEF NoRun, Said
<1>8. CASE Exit
  <2>1. jsonl' \in [SessionIds -> Seq(Lines)]
    <3>1. cur \in SessionIds /\ jsonl[cur] \in Seq(Lines)
      BY <1>8, <1>c DEF Exit
    <3>2. Put(jsonl[cur], Torn) \in Seq(Lines)
      BY <3>1, PutIs, NoJunk DEF Lines
    <3> QED
      BY <1>8, <3>2 DEF Exit
  <2>2. /\ mode = "repl" /\ UNCHANGED <<mode, made, cur, asked, hist, home>>
        /\ up' = FALSE /\ msgs' = <<>> /\ snaps' = <<>> /\ ctx' = <<>> /\ phase' = "none"
    BY <1>8 DEF Exit, Over
  <2>5. phase' \in Phases
    BY <2>2 DEF Phases
  <2>3. snaps' \in Seq(Seq(Messages)) /\ msgs' \in Seq(Messages) /\ ctx' \in Seq(Messages)
    BY <1>c, <2>2
  <2>4. ~asked
    BY <2>2
  <2> QED
    BY <2>1, <2>2, <2>3, <2>4, <2>5 DEF NoRun, Said
<1>9. CASE Start
  <2>1. PICK resume \in BOOLEAN : StartIn(made', resume)
    BY <1>9 DEF Start
  <2>2. msgs' \in Seq(Messages)
    BY <2>1, StartIs
  <2>3. jsonl' \in [SessionIds -> Seq(Lines)] /\ made' \in 1..MaxSessions
    BY <1>9, <1>c, <2>2, CleanIs DEF Start
  <2>4. /\ mode = "repl" /\ up' = TRUE /\ cur' = made' /\ snaps' = <<>>
        /\ UNCHANGED <<mode, run, asked, hist, home>>
    BY <2>1 DEF StartIn
  <2> QED
    BY SMTT(30), <1>c, <2>2, <2>3, <2>4 DEF run, NoRun, Said
<1>10. CASE Note \/ AttachImage
  <2>0. Push /\ mode # "acp"
    BY <1>10 DEF Note, AttachImage
  <2>1. msgs' \in Seq(Messages) /\ home' \in Seq(SessionIds) /\ Len(home') <= MaxSaid
    <3>1. Msg(Said + 1, "note") \in Messages
      <4>1. Said + 1 \in 0..MaxSaid /\ "note" \in Roles
        <5>1. Len(home) < MaxSaid
          BY <2>0 DEF Push, Said
        <5>2. Said + 1 \in 0..MaxSaid
          BY <1>c, <1>h, <5>1 DEF Said
        <5> QED
          BY <5>2 DEF Roles
      <4> QED
        BY <4>1, NoJunk
    <3>2. cur \in SessionIds
      BY <2>0, <1>c DEF Push
    <3> QED
      BY <2>0, <1>c, <1>h, <3>1, <3>2 DEF Push, Said
  <2> QED
    BY <2>0, <2>1 DEF Push, frontEnd, run, NoRun, Said
<1>11. CASE RpcPrompt
  <2>1. cur \in SessionIds /\ Begin(cur, msgs)
    BY <1>11, <1>c DEF RpcPrompt
  <2>2. /\ home' \in Seq(SessionIds) /\ Said' <= MaxSaid
        /\ ctx' \in Seq(Messages) /\ ctx' # <<>> /\ phase' = "begun" /\ phase' \in Phases
    BY <2>1, BeginIs DEF Phases
  <2> QED
    BY <1>11, <2>1, <2>2 DEF RpcPrompt, frontEnd, NoRun
<1>12. CASE RpcNewSession
  <2>1. /\ mode = "rpc" /\ made < MaxSessions /\ made' = made + 1 /\ cur' = made'
        /\ msgs' = <<>> /\ UNCHANGED <<mode, up, ctx, phase, asked, hist, jsonl, snaps, home>>
    BY <1>12 DEF RpcNewSession, run
  <2>2. made' \in 0..MaxSessions /\ cur' \in 0..made' /\ cur' # 0
    BY <1>c, <2>1
  <2> QED
    BY <1>c, <2>1, <2>2 DEF NoRun, Said
<1>13. CASE AcpNew
  <2>1. hist' \in [SessionIds -> Seq(Messages)]
    BY <1>13, <1>c DEF AcpNew, Saved
  <2>2. /\ mode = "acp" /\ made < MaxSessions /\ made' = made + 1 /\ cur' = made'
        /\ msgs' = <<>> /\ UNCHANGED <<mode, up, ctx, phase, asked, jsonl, snaps, home>>
    BY <1>13 DEF AcpNew, run
  <2>3. made' \in 0..MaxSessions /\ cur' \in 0..made' /\ cur' # 0
    BY <1>c, <2>2
  <2> QED
    BY <1>c, <2>1, <2>2, <2>3 DEF NoRun, Said
<1>14. CASE AcpLoad
  <2>1. PICK s \in SessionIds : AcpSwitch(s)
    BY <1>14 DEF AcpLoad
  <2>2. /\ hist' \in [SessionIds -> Seq(Messages)] /\ msgs' \in Seq(Messages)
        /\ mode = "acp" /\ cur' = s /\ s \in 1..made
    BY <2>1, SwitchIs DEF AcpSwitch
  <2> QED
    BY <1>14, <1>c, <2>2 DEF AcpLoad, frontEnd, run, NoRun, Said
<1>15. CASE AcpPrompt
  <2>1. PICK s \in SessionIds :
          /\ AcpSwitch(s) /\ Begin(s, msgs') /\ asked' = TRUE
          /\ UNCHANGED <<frontEnd, jsonl, snaps, before, switched, inSync, failed>>
    BY <1>15 DEF AcpPrompt
  <2>2. /\ hist' \in [SessionIds -> Seq(Messages)] /\ msgs' \in Seq(Messages)
        /\ mode = "acp" /\ cur' = s /\ s \in 1..made
    BY <2>1, SwitchIs DEF AcpSwitch
  <2>3. /\ home' \in Seq(SessionIds) /\ Said' <= MaxSaid
        /\ ctx' \in Seq(Messages) /\ ctx' # <<>> /\ phase' = "begun" /\ phase' \in Phases
    BY <2>1, <2>2, BeginIs DEF Phases
  <2> QED
    BY SMTT(30), <1>c, <2>1, <2>2, <2>3 DEF frontEnd, NoRun
<1> QED
  BY <1>0, <1>1, <1>2, <1>3, <1>4, <1>5, <1>6, <1>7, <1>8, <1>9, <1>10, <1>11,
     <1>12, <1>13, <1>14, <1>15, <1>16, <1>17, <1>18 DEF SessionNext, Repl, Commands

\* The files.
LEMMA FilesStayClean ==
  ASSUME SessionsInv, [SessionNext]_sessionVars
  PROVE  FilesClean'
<1>t. /\ jsonl \in [SessionIds -> Seq(Lines)] /\ cur \in 0..made /\ made \in 0..MaxSessions
      /\ SessionIds = 1..MaxSessions /\ MaxSessions \in Nat
      /\ (mode = "repl" => cur \in SessionIds) /\ (~up => mode = "repl")
  BY SessionsAssumption DEF SessionsInv, SessionTypes, SessionPlaces, SessionIds
<1>c. FilesClean
  BY DEF SessionsInv
<1>n. Torn \in Lines /\ \A m \in Messages : m \in Lines
  BY NoJunk DEF Lines
<1>m. ASSUME failed => failed', jsonl' = jsonl, mode' = mode,
             up' => up /\ (mode = "repl" => cur' = cur)
      PROVE  FilesClean'
  BY <1>m, <1>c DEF FilesClean
<1>w. ASSUME NEW m \in Messages, NEW same \in BOOLEAN, Write(File, m, same),
             File \in SessionIds, mode # "acp" => File = cur,
             mode' = mode, up' = up, up, cur' = cur
      PROVE  FilesClean'
  <2>3. CASE failed'
    BY <2>3 DEF FilesClean
  <2>4. CASE ~failed'
    <3>1. ~failed /\ jsonl' = [jsonl EXCEPT ![File] = Put(jsonl[File], m)]
      BY <1>w, <2>4, WriteIs
    <3>2. Clean(jsonl[File])
      BY <1>c, <1>w, <3>1 DEF FilesClean
    <3>3. /\ jsonl[File] \in Seq(Lines) /\ Put(jsonl[File], m) = Append(jsonl[File], m)
          /\ Clean(Put(jsonl[File], m)) /\ Loadable(Put(jsonl[File], m))
      BY <1>t, <1>n, <1>w, <3>2, PutIs, CleanIs
    <3>4. \A f \in SessionIds :
            jsonl'[f] = IF f = File THEN Put(jsonl[File], m) ELSE jsonl[f]
      BY <1>t, <3>1
    <3> QED
      BY <1>c, <1>t, <1>w, <3>1, <3>3, <3>4 DEF FilesClean
  <2> QED
    BY <2>3, <2>4
<1>1. CASE Report
  <2>1. PICK m \in Messages, same \in BOOLEAN : Write(File, m, same)
    BY <1>1, ReportIs
  <2>2. /\ File \in SessionIds /\ (mode # "acp" => File = cur) /\ up
        /\ mode' = mode /\ up' = up /\ cur' = cur
    BY <1>1, ReportIs DEF frontEnd
  <2> QED
    BY <1>w, <2>1, <2>2
<1>8. CASE StrategyTurn
  <2>1. /\ mode = "repl" /\ up /\ ctx # <<>> /\ ctx \in Seq(Messages)
        /\ mode' = mode /\ up' = up /\ cur' = cur /\ Write(File, Last(ctx), FALSE)
    BY <1>8 DEF StrategyTurn, NoRun, frontEnd, SessionsInv, SessionTypes, SessionPlaces
  <2>2. Last(ctx) \in Messages /\ File = cur /\ File \in SessionIds
    BY <1>t, <2>1, FrontIs DEF File
  <2> QED
    BY <1>w, <2>1, <2>2
<1>2. CASE FinishRun
  <2>1. PICK full \in Seq(Messages) : Complete(full)
    BY <1>2, RunEndIs
  <2> QED
    BY <2>1, <1>m DEF Complete
<1>3. CASE Fork \/ Start
  <2>1. /\ made' \in SessionIds /\ msgs' \in Seq(Messages) /\ cur' = made'
        /\ jsonl' = [jsonl EXCEPT ![made'] = msgs']
        /\ mode' = "repl" /\ failed' = failed
    <3>1. CASE Fork
      BY <3>1, ForkIs DEF Fork
    <3>2. CASE Start
      <4>1. PICK resume \in BOOLEAN : StartIn(made', resume)
        BY <3>2 DEF Start
      <4>2. msgs' \in Seq(Messages)
        BY <4>1, StartIs
      <4>3. made' \in SessionIds /\ jsonl' = [jsonl EXCEPT ![made'] = msgs']
        BY <1>t, <3>2 DEF Start
      <4> QED
        BY <4>1, <4>2, <4>3 DEF StartIn
    <3> QED
      BY <1>3, <3>1, <3>2
  <2>2. msgs' \in Seq(Lines) /\ Clean(msgs') /\ Loadable(msgs')
    BY <2>1, CleanIs, <1>n
  <2>3. \A f \in SessionIds : jsonl'[f] = IF f = made' THEN msgs' ELSE jsonl[f]
    BY <1>t, <2>1
  <2> QED
    BY <1>c, <2>1, <2>2, <2>3 DEF FilesClean
<1>4. CASE Exit
  <2>1. /\ mode' = "repl" /\ up' = FALSE /\ failed' = failed
        /\ mode = "repl" /\ up
        /\ jsonl' = jsonl \/ jsonl' = [jsonl EXCEPT ![cur] = Put(jsonl[cur], Torn)]
    BY <1>4 DEF Exit
  <2>2. CASE ~failed
    <3>1. Clean(jsonl[cur]) /\ cur \in SessionIds /\ jsonl[cur] \in Seq(Lines)
      BY <1>c, <1>t, <2>1, <2>2 DEF FilesClean
    <3>2. Loadable(Put(jsonl[cur], Torn))
      BY <1>n, <3>1, PutIs, CleanIs
    <3>3. \A f \in SessionIds :
            jsonl'[f] = jsonl[f] \/ jsonl'[f] = Put(jsonl[cur], Torn)
      BY <1>t, <2>1
    <3> QED
      BY <1>c, <2>1, <2>2, <3>2, <3>3 DEF FilesClean
  <2> QED
    BY <2>1, <2>2 DEF FilesClean
<1>5. CASE ReplPrompt \/ StrategyPrompt \/ Undo \/ Compact \/ CompactRun \/ RpcPrompt
  BY <1>5, <1>m DEF ReplPrompt, StrategyPrompt, Undo, Compact, CompactRun, RpcPrompt, frontEnd
<1>9. CASE AmendResult \/ Note \/ AttachImage
  BY <1>9, <1>m DEF AmendResult, Note, AttachImage, Push, frontEnd
<1>6. CASE RpcNewSession \/ AcpNew \/ AcpLoad \/ AcpPrompt
  BY <1>6, <1>m DEF RpcNewSession, AcpNew, AcpLoad, AcpPrompt, AcpSwitch, frontEnd
<1>7. CASE UNCHANGED sessionVars
  BY <1>7, <1>m DEF sessionVars
<1> QED
  BY <1>1, <1>2, <1>3, <1>4, <1>5, <1>6, <1>7, <1>8, <1>9 DEF SessionNext, Repl, Commands

\* The file of the REPL.
LEMMA FileStillFollows ==
  ASSUME SessionsInv, [SessionNext]_sessionVars
  PROVE  FileFollows'
<1>t. /\ jsonl \in [SessionIds -> Seq(Lines)] /\ msgs \in Seq(Messages)
      /\ ctx \in Seq(Messages)
      /\ (mode = "repl" => cur \in SessionIds)
  BY SessionsAssumption DEF SessionsInv, SessionTypes, SessionPlaces, SessionIds
<1>c. FileFollows
  BY DEF SessionsInv
<1>1. CASE Report
  <2>1. PICK m \in Messages, same \in BOOLEAN :
          /\ Write(File, m, same)
          /\ \/ ctx' = ctx /\ (same => phase = "begun" /\ m = Last(ctx))
             \/ ctx' = Append(ctx, m) /\ phase # "begun"
             \/ ~same
    BY <1>1, ReportIs
  <2>2. /\ File \in SessionIds /\ (mode # "acp" => File = cur) /\ ctx # <<>>
        /\ mode' = mode /\ up' = up /\ cur' = cur
        /\ ~NoRun /\ ~NoRun' /\ phase # "phased"
        /\ phase' # "begun" /\ phase' # "phased"
    BY <1>1, ReportIs DEF frontEnd, NoRun
  <2> SUFFICES ASSUME mode = "repl", up, inSync'
               PROVE  jsonl'[cur] = ctx'
    BY <2>2 DEF FileFollows
  <2>3. /\ inSync /\ same
        /\ jsonl' = [jsonl EXCEPT ![cur] = Put(jsonl[cur], m)] /\ cur \in SessionIds
    BY <1>t, <2>1, <2>2, WriteIs
  <2>4. jsonl[cur] = IF phase = "begun" THEN Front(ctx) ELSE ctx
    BY <1>c, <2>2, <2>3 DEF FileFollows
  <2>5. jsonl[cur] \in Seq(Messages) /\ Append(jsonl[cur], m) = ctx'
    BY <1>t, <2>1, <2>2, <2>3, <2>4, FrontIs
  <2>6. Put(jsonl[cur], m) = Append(jsonl[cur], m)
    <3>1. Clean(jsonl[cur]) /\ jsonl[cur] \in Seq(Lines) /\ m \in Lines
      BY <2>1, <2>5, CleanIs DEF Lines
    <3> QED
      BY <3>1, PutIs
  <2> QED
    BY <1>t, <2>3, <2>5, <2>6
<1>2. CASE FinishRun
  <2>1. PICK full \in Seq(Messages) :
          /\ Complete(full) /\ ~NoRun /\ (full = ctx \/ mode = "acp")
          /\ mode = "repl" => phase \in {"replied", "errored"}
    BY <1>2, RunEndIs
  <2>2. /\ mode' = mode /\ cur' = cur /\ jsonl' = jsonl /\ inSync' = inSync /\ NoRun'
        /\ up /\ (up' => msgs' = full)
    BY <2>1 DEF Complete, Over, NoRun
  <2> QED
    BY <1>c, <2>1, <2>2 DEF FileFollows
<1>3. CASE ReplPrompt
  <2>1. cur \in SessionIds /\ Begin(cur, msgs)
    BY <1>3, <1>t DEF ReplPrompt
  <2>2. Front(ctx') = msgs /\ NoRun /\ phase' = "begun"
    BY <1>t, <2>1, BeginIs
  <2>3. UNCHANGED <<mode, up, cur, jsonl, inSync>>
    BY <1>3 DEF ReplPrompt, frontEnd
  <2> QED
    BY <1>c, <2>2, <2>3 DEF FileFollows, NoRun
<1>4. CASE AmendResult \/ Undo \/ Compact \/ CompactRun \/ Note \/ AttachImage
  BY <1>4 DEF AmendResult, Undo, Compact, CompactRun, Note, AttachImage, Push, FileFollows
<1>9. CASE StrategyPrompt
  <2>1. /\ NoRun /\ phase' = "phased"
        /\ UNCHANGED <<mode, up, cur, jsonl, inSync, msgs>>
    BY <1>9 DEF StrategyPrompt, frontEnd
  <2> QED
    BY <1>c, <2>1 DEF FileFollows, NoRun
<1>10. CASE StrategyTurn
  <2>1. ~inSync'
    BY <1>10 DEF StrategyTurn, Write
  <2> QED
    BY <2>1 DEF FileFollows
<1>5. CASE Fork \/ Start
  <2>1. made' \in SessionIds /\ cur' = made' /\ jsonl' = [jsonl EXCEPT ![made'] = msgs']
        /\ NoRun'
    <3>1. CASE Fork
      BY <3>1, ForkIs DEF Fork, NoRun, run
    <3>2. CASE Start
      <4>1. PICK resume \in BOOLEAN : StartIn(made', resume)
        BY <3>2 DEF Start
      <4>2. made' \in SessionIds
        BY <3>2, SessionsAssumption DEF Start, SessionIds, SessionsInv, SessionTypes
      <4> QED
        BY <3>2, <4>1, <4>2 DEF Start, StartIn, SessionsInv, SessionPlaces, NoRun, run
    <3> QED
      BY <1>5, <3>1, <3>2
  <2> QED
    BY <1>t, <2>1 DEF FileFollows
<1>6. CASE Exit
  BY <1>6 DEF Exit, FileFollows
<1>7. CASE RpcPrompt \/ RpcNewSession \/ AcpNew \/ AcpLoad \/ AcpPrompt
  BY <1>7 DEF RpcPrompt, RpcNewSession, AcpNew, AcpLoad, AcpPrompt, AcpSwitch,
              frontEnd, FileFollows
<1>8. CASE UNCHANGED sessionVars
  BY <1>8, <1>c DEF sessionVars, FileFollows, NoRun
<1> QED
  BY <1>1, <1>2, <1>3, <1>4, <1>5, <1>6, <1>7, <1>8, <1>9, <1>10
     DEF SessionNext, Repl, Commands

\* A history that is owned stays so when more is said.
LEMMA OwnStays ==
  ASSUME NEW seq \in Seq(Messages), Known(seq),
         home \in Seq(SessionIds), Said' >= Said, Said' \in Nat,
         \A n \in 1..Said : home'[n] = home[n]
  PROVE  /\ \A i \in DOMAIN seq : seq[i].n <= Said'
         /\ \A s : Own(s, seq) =>
              \A i \in DOMAIN seq : seq[i].n = 0 \/ home'[seq[i].n] = s
<1>1. \A i \in DOMAIN seq : seq[i].n \in 0..MaxSaid
  <2>1. \A i \in DOMAIN seq : seq[i] \in Messages
    OBVIOUS
  <2> QED
    BY <2>1 DEF Messages
<1>2. MaxSaid \in Nat /\ Said \in Nat
  BY SessionsAssumption DEF Said
<1>3. \A i \in DOMAIN seq : seq[i].n = 0 \/ seq[i].n \in 1..Said
  BY <1>1, <1>2 DEF Known
<1> QED
  BY <1>2, <1>3 DEF Known, Own

\* What was said where.
LEMMA StillSaidIn ==
  ASSUME SessionsInv, [SessionNext]_sessionVars
  PROVE  SaidIn'
<1>t. /\ SessionIds = 1..MaxSessions /\ MaxSessions \in Nat /\ MaxSaid \in Nat
      /\ msgs \in Seq(Messages) /\ ctx \in Seq(Messages) /\ home \in Seq(SessionIds)
      /\ hist \in [SessionIds -> Seq(Messages)]
      /\ cur \in 0..made /\ made \in 0..MaxSessions
      /\ (mode # "acp" \/ ~NoRun => cur \in SessionIds)
      /\ Said \in Nat /\ Said <= MaxSaid /\ mode \in AllModes
      /\ (NoRun <=> ctx = <<>>)
  BY SessionsAssumption DEF SessionsInv, SessionTypes, SessionPlaces, SessionIds, Said
<1>c. SaidIn
  BY DEF SessionsInv
<1>e. Known(<<>>) /\ \A s : Own(s, <<>>)
  BY DEF Known, Own
<1> SUFFICES ASSUME mode' \in {"rpc", "acp"}
             PROVE  SaidIn'
  BY DEF SaidIn
<1>k. mode' = mode => /\ Known(msgs) /\ Known(ctx) /\ \A s \in SessionIds : Known(hist[s])
  BY <1>c DEF SaidIn
<1>0. CASE UNCHANGED <<mode, msgs, ctx, phase, hist, home, switched, cur>>
  BY <1>c, <1>0 DEF SaidIn, Known, Own, Said, NoRun
<1>r. ASSUME UNCHANGED <<mode, msgs, hist, home, switched, cur>>, ~NoRun, ~NoRun',
             \A i \in DOMAIN ctx' : \/ ctx'[i].n = 0
                                   \/ \E j \in DOMAIN ctx : ctx'[i].n = ctx[j].n
      PROVE  SaidIn'
  <2>0. Said' = Said /\ home' = home /\ 0 <= Said
    BY <1>t, <1>r DEF Said
  <2>1. Known(ctx)' /\ \A s : Own(s, ctx) => Own(s, ctx)'
    <3>1. ASSUME NEW i \in DOMAIN ctx'
          PROVE  /\ ctx'[i].n <= Said
                 /\ \A s : Own(s, ctx) => ctx'[i].n = 0 \/ home[ctx'[i].n] = s
      BY <1>k, <1>r, <2>0, <3>1 DEF Known, Own
    <3> QED
      BY <2>0, <3>1 DEF Known, Own
  <2>2. Known(msgs)' /\ \A s \in SessionIds : Known(hist[s])'
    BY <1>k, <1>r DEF Known, Said
  <2>3. \A s, t \in SessionIds : Own(s, hist[t]) => Own(s, hist[t])'
    BY <1>r DEF Own
  <2> QED
    BY <1>c, <1>t, <1>r, <2>1, <2>2, <2>3 DEF SaidIn
<1>a. ASSUME NEW seq \in Seq(Messages), NEW m \in Messages, NEW j \in DOMAIN ctx,
             m.n = ctx[j].n,
             \A i \in DOMAIN seq : \E k \in DOMAIN ctx : seq[i].n = ctx[k].n
      PROVE  \A i \in DOMAIN Append(seq, m) :
               \E k \in DOMAIN ctx : Append(seq, m)[i].n = ctx[k].n
  <2>1. /\ DOMAIN Append(seq, m) = 1..(Len(seq) + 1) /\ DOMAIN seq = 1..Len(seq)
        /\ Len(seq) \in Nat
        /\ \A i \in 1..Len(seq) : Append(seq, m)[i] = seq[i]
        /\ Append(seq, m)[Len(seq) + 1] = m
    OBVIOUS
  <2> SUFFICES ASSUME NEW i \in DOMAIN Append(seq, m)
               PROVE  \E k \in DOMAIN ctx : Append(seq, m)[i].n = ctx[k].n
    OBVIOUS
  <2>2. i \in DOMAIN seq \/ i = Len(seq) + 1
    BY <2>1
  <2>3. CASE i \in DOMAIN seq
    BY <1>a, <2>1, <2>3
  <2>4. CASE i = Len(seq) + 1
    BY <1>a, <2>1, <2>4
  <2> QED
    BY <2>2, <2>3, <2>4
<1>1. CASE Report
  <2>1. PICK m \in Messages :
          /\ m.n = Last(ctx).n
          /\ \/ ctx' = ctx \/ ctx' = Append(ctx, m)
             \/ \E q \in Messages :
                  q.n = Last(ctx).n /\ ctx' = Append(Append(ctx, m), q)
    BY <1>1, ReportIs
  <2>2. /\ UNCHANGED <<mode, msgs, hist, home, switched, cur>>
        /\ ~NoRun /\ ~NoRun' /\ ctx # <<>>
    BY <1>1, ReportIs DEF frontEnd, NoRun
  <2>3. Len(ctx) \in DOMAIN ctx /\ Last(ctx) = ctx[Len(ctx)]
    BY <1>t, <2>2 DEF Last
  <2>4. Append(ctx, m) \in Seq(Messages)
    BY <1>t
  <2>5. \A i \in DOMAIN Append(ctx, m) :
          \E k \in DOMAIN ctx : Append(ctx, m)[i].n = ctx[k].n
    BY <1>a, <1>t, <2>1, <2>3
  <2>6. \A q \in Messages : q.n = Last(ctx).n =>
          \A i \in DOMAIN Append(Append(ctx, m), q) :
            \E k \in DOMAIN ctx : Append(Append(ctx, m), q)[i].n = ctx[k].n
    BY <1>a, <2>3, <2>4, <2>5
  <2>7. \A i \in DOMAIN ctx' : \E k \in DOMAIN ctx : ctx'[i].n = ctx[k].n
    BY <2>1, <2>5, <2>6
  <2> QED
    BY <1>r, <2>2, <2>7
<1>12. CASE AmendResult
  <2>1. /\ Len(ctx') = Len(ctx) /\ ctx' \in Seq(Messages)
        /\ \A i \in DOMAIN ctx : ctx'[i].n = ctx[i].n
    BY <1>12, AmendIs
  <2>2. DOMAIN ctx' = DOMAIN ctx
    BY <1>t, <2>1
  <2>3. UNCHANGED <<mode, msgs, hist, home, switched, cur>> /\ ~NoRun /\ ~NoRun'
    BY <1>12 DEF AmendResult, frontEnd, NoRun
  <2> QED
    BY <1>r, <2>1, <2>2, <2>3
<1>13. CASE CompactRun
  <2>1. PICK cut \in 2..(Len(ctx) - 1) : ctx' = Summarized(ctx, cut)
    BY <1>13 DEF CompactRun
  <2>2. UNCHANGED <<mode, msgs, hist, home, switched, cur>> /\ ~NoRun /\ ~NoRun'
    BY <1>13 DEF CompactRun, frontEnd, NoRun
  <2>3. \A i \in DOMAIN ctx' : \/ ctx'[i].n = 0
                              \/ \E j \in DOMAIN ctx : ctx'[i].n = ctx[j].n
    BY <1>t, <2>1, SummarizedFrom
  <2> QED
    BY <1>r, <2>2, <2>3
<1>2. CASE FinishRun
  <2>0. PICK full \in Seq(Messages) :
          Complete(full) /\ ~NoRun /\ (full = ctx \/ full = <<>>)
    BY <1>2, RunEndIs
  <2>1. /\ UNCHANGED <<mode, home, switched, cur>> /\ NoRun' /\ ctx' = <<>>
        /\ mode # "repl" /\ msgs' = full
        /\ hist' = IF mode = "acp" THEN [hist EXCEPT ![cur] = full] ELSE hist
    BY <2>0 DEF Complete, Over, NoRun
  <2>2. cur \in SessionIds
    BY <1>t, <2>0, <2>1
  <2>3. \A s \in SessionIds : hist'[s] = hist[s] \/ (s = cur /\ hist'[s] = full)
    BY <1>t, <2>1
  <2>4. Known(full) /\ (~switched => Own(cur, full))
    BY <1>c, <1>e, <1>k, <2>0, <2>1 DEF SaidIn
  <2> QED
    BY <1>c, <1>e, <1>k, <2>1, <2>2, <2>3, <2>4 DEF SaidIn, Known, Own, Said
<1>3. CASE Note \/ AttachImage
  <2>1. /\ mode = "rpc" /\ UNCHANGED <<mode, ctx, phase, cur, hist, switched>>
        /\ msgs' = Append(msgs, Msg(Said + 1, "note")) /\ home' = Append(home, cur)
        /\ cur \in SessionIds
    BY <1>t, <1>3 DEF Note, AttachImage, Push, frontEnd, run
  <2>2. /\ Said' = Said + 1 /\ \A n \in 1..Said : home'[n] = home[n]
        /\ home'[Said + 1] = cur
    BY <1>t, <2>1 DEF Said
  <2>o. Said' >= Said /\ Said' \in Nat
    BY <1>t, <2>2
  <2>3. /\ DOMAIN msgs' = 1..(Len(msgs) + 1) /\ DOMAIN msgs = 1..Len(msgs)
        /\ \A i \in 1..Len(msgs) : msgs'[i] = msgs[i]
        /\ msgs'[Len(msgs) + 1].n = Said + 1
    BY <1>t, <2>1 DEF Msg
  <2>4. /\ \A i \in DOMAIN msgs : msgs[i].n <= Said'
        /\ \A s : Own(s, msgs) =>
             \A i \in DOMAIN msgs : msgs[i].n = 0 \/ home'[msgs[i].n] = s
    BY <1>k, <1>t, <2>1, <2>2, <2>o, OwnStays
  <2>5. Known(ctx)' /\ \A s : Own(s, ctx) => Own(s, ctx)'
    <3>1. /\ \A i \in DOMAIN ctx : ctx[i].n <= Said'
          /\ \A s : Own(s, ctx) =>
               \A i \in DOMAIN ctx : ctx[i].n = 0 \/ home'[ctx[i].n] = s
      BY <1>k, <1>t, <2>1, <2>2, <2>o, OwnStays
    <3> QED
      BY <2>1, <3>1 DEF Known, Own
  <2>6. ASSUME NEW t \in SessionIds
        PROVE  Known(hist[t])' /\ \A s : Own(s, hist[t]) => Own(s, hist[t])'
    <3>1. /\ \A i \in DOMAIN hist[t] : hist[t][i].n <= Said'
          /\ \A s : Own(s, hist[t]) =>
               \A i \in DOMAIN hist[t] : hist[t][i].n = 0 \/ home'[hist[t][i].n] = s
      BY <1>k, <1>t, <2>1, <2>2, <2>o, OwnStays
    <3> QED
      BY <2>1, <3>1 DEF Known, Own
  <2>7. Known(msgs)' /\ (Own(cur, msgs) => Own(cur, msgs)')
    <3>1. ASSUME NEW i \in DOMAIN msgs'
          PROVE  /\ msgs'[i].n <= Said'
                 /\ Own(cur, msgs) => msgs'[i].n = 0 \/ home'[msgs'[i].n] = cur
      <4>1. Len(msgs) \in Nat
        BY <1>t
      <4>2. i \in 1..Len(msgs) \/ i = Len(msgs) + 1
        BY <2>3, <3>1, <4>1
      <4>3. CASE i \in 1..Len(msgs)
        BY <2>3, <2>4, <4>3
      <4>4. CASE i = Len(msgs) + 1
        <5>1. msgs'[i].n = Said + 1 /\ Said + 1 <= Said'
          BY <1>t, <2>2, <2>3, <4>4
        <5> QED
          BY <2>2, <5>1
      <4> QED
        BY <4>2, <4>3, <4>4
    <3> QED
      BY <2>1, <3>1 DEF Known, Own
  <2> QED
    BY <1>c, <1>t, <2>1, <2>5, <2>6, <2>7 DEF SaidIn, NoRun
<1>4. ASSUME NEW s \in SessionIds, NEW history \in Seq(Messages), Begin(s, history),
             Known(history), ~switched => Own(s, history),
             mode' = mode, cur' = s, switched' = switched,
             msgs' \in Seq(Messages), Known(msgs),
             msgs' = msgs \/ msgs' = history,
             hist' \in [SessionIds -> Seq(Messages)],
             \A t \in SessionIds : Known(hist'[t]) /\ (~switched => Own(t, hist'[t]))
      PROVE  SaidIn'
  <2>1. /\ Said' = Said + 1 /\ \A n \in 1..Said : home'[n] = home[n]
        /\ home'[Said + 1] = s
        /\ ctx' \in Seq(Messages) /\ Len(ctx') = Len(history) + 1
        /\ \A i \in 1..Len(history) : ctx'[i] = history[i]
        /\ ctx'[Len(history) + 1].n = Said + 1
        /\ phase' = "begun"
    BY <1>4, BeginIs
  <2>o. Said' >= Said /\ Said' \in Nat
    BY <1>t, <2>1
  <2>2. /\ \A i \in DOMAIN history : history[i].n <= Said'
        /\ Own(s, history) =>
             \A i \in DOMAIN history : history[i].n = 0 \/ home'[history[i].n] = s
    BY SMTT(30), <1>4, <1>t, <2>1, <2>o, OwnStays
  <2>3. Known(ctx)' /\ (~switched => Own(s, ctx)')
    <3>1. ASSUME NEW i \in DOMAIN ctx'
          PROVE  /\ ctx'[i].n <= Said'
                 /\ ~switched => ctx'[i].n = 0 \/ home'[ctx'[i].n] = s
      <4>1. Len(history) \in Nat /\ DOMAIN history = 1..Len(history)
            /\ DOMAIN ctx' = 1..(Len(history) + 1)
        BY <1>4, <2>1
      <4>2. i \in 1..Len(history) \/ i = Len(history) + 1
        BY <3>1, <4>1
      <4>3. CASE i \in 1..Len(history)
        BY <1>4, <2>1, <2>2, <4>1, <4>3
      <4>4. CASE i = Len(history) + 1
        <5>1. ctx'[i].n = Said + 1 /\ Said + 1 <= Said'
          BY <1>t, <2>1, <4>4
        <5> QED
          BY <2>1, <5>1
      <4> QED
        BY <4>2, <4>3, <4>4
    <3> QED
      BY <1>4, <3>1 DEF Known, Own
  <2>4. ASSUME NEW t \in SessionIds
        PROVE  Known(hist[t])' /\ (~switched => Own(t, hist[t])')
    <3>1. /\ \A i \in DOMAIN hist'[t] : hist'[t][i].n <= Said'
          /\ Own(t, hist'[t]) =>
               \A i \in DOMAIN hist'[t] : hist'[t][i].n = 0 \/ home'[hist'[t][i].n] = t
      BY <1>4, <1>t, <2>1, <2>o, OwnStays
    <3> QED
      BY <1>4, <3>1 DEF Known, Own
  <2>5. Known(msgs)'
    <3>1. \A i \in DOMAIN msgs : msgs[i].n <= Said'
      BY <1>4, <1>t, <2>1, <2>o, OwnStays
    <3> QED
      BY <1>4, <2>2, <3>1 DEF Known
  <2> QED
    BY <1>4, <2>1, <2>3, <2>4, <2>5 DEF SaidIn, NoRun
<1>5. CASE RpcPrompt
  <2>1. /\ mode = "rpc" /\ Begin(cur, msgs) /\ NoRun /\ cur \in SessionIds /\ cur # 0
        /\ UNCHANGED <<mode, cur, switched, msgs, hist>>
    BY <1>5, <1>t DEF RpcPrompt, Begin, frontEnd
  <2> QED
    BY <1>c, <1>t, <1>4, <2>1 DEF SaidIn
<1>6. CASE RpcNewSession
  <2>1. /\ UNCHANGED <<mode, ctx, phase, hist, home>> /\ msgs' = <<>>
        /\ switched' = (switched \/ ~NoRun)
    BY <1>6 DEF RpcNewSession, run
  <2> QED
    BY <1>c, <1>e, <1>k, <2>1 DEF SaidIn, Known, Own, Said, NoRun
<1>7. CASE AcpNew
  <2>1. /\ UNCHANGED <<mode, ctx, phase, home>> /\ msgs' = <<>>
        /\ switched' = (switched \/ ~NoRun) /\ hist' = Saved
    BY <1>7 DEF AcpNew, run
  <2>2. \A t \in SessionIds : hist'[t] = IF t = cur THEN msgs ELSE hist[t]
    BY <1>t, <2>1 DEF Saved
  <2>3. \A t \in SessionIds : Known(hist'[t]) /\ (~switched' => Own(t, hist'[t]))
    <3> SUFFICES ASSUME NEW t \in SessionIds
                 PROVE  Known(hist'[t]) /\ (~switched' => Own(t, hist'[t]))
      OBVIOUS
    <3>1. CASE t = cur
      <4>1. hist'[t] = msgs /\ cur # 0
        BY <1>t, <2>2, <3>1
      <4> QED
        BY <1>c, <1>k, <2>1, <3>1, <4>1 DEF SaidIn
    <3>2. CASE t # cur
      <4>1. hist'[t] = hist[t]
        BY <2>2, <3>2
      <4> QED
        BY <1>c, <1>k, <2>1, <4>1 DEF SaidIn
    <3> QED
      BY <3>1, <3>2
  <2> QED
    BY <1>c, <1>e, <1>k, <2>1, <2>3 DEF SaidIn, Known, Own, Said, NoRun
<1>8. ASSUME NEW s \in SessionIds, AcpSwitch(s), NoRun
      PROVE  /\ hist' \in [SessionIds -> Seq(Messages)] /\ msgs' = hist'[s]
             /\ mode = "acp" /\ cur' = s
             /\ mode' = mode =>
                  \A t \in SessionIds : Known(hist'[t]) /\ (~switched => Own(t, hist'[t]))
  <2>1. /\ hist' \in [SessionIds -> Seq(Messages)] /\ msgs' = hist'[s]
        /\ \A t \in SessionIds : hist'[t] = IF t = cur THEN msgs ELSE hist[t]
    BY <1>8, SwitchIs
  <2>2. mode = "acp" /\ cur' = s
    BY <1>8 DEF AcpSwitch
  <2>3. ASSUME mode' = mode, NEW t \in SessionIds
        PROVE  Known(hist'[t]) /\ (~switched => Own(t, hist'[t]))
    <3>1. CASE t = cur
      <4>1. hist'[t] = msgs /\ cur # 0
        BY <1>t, <2>1, <3>1
      <4> QED
        BY <1>8, <1>c, <1>k, <2>2, <2>3, <3>1, <4>1 DEF SaidIn
    <3>2. CASE t # cur
      <4>1. hist'[t] = hist[t]
        BY <2>1, <3>2
      <4> QED
        BY <1>c, <1>k, <2>2, <2>3, <4>1 DEF SaidIn
    <3> QED
      BY <3>1, <3>2
  <2> QED
    BY <2>1, <2>2, <2>3
<1>9. CASE AcpLoad
  <2>1. PICK s \in SessionIds : AcpSwitch(s) /\ NoRun
    BY <1>9 DEF AcpLoad
  <2>2. UNCHANGED <<mode, ctx, phase, home, switched>>
    BY <1>9 DEF AcpLoad, run, frontEnd
  <2>3. /\ msgs' = hist'[s] /\ mode = "acp" /\ cur' = s
        /\ \A t \in SessionIds : Known(hist'[t]) /\ (~switched => Own(t, hist'[t]))
    BY <1>8, <2>1, <2>2
  <2> QED
    BY <1>k, <2>1, <2>2, <2>3 DEF SaidIn, Known, Own, Said, NoRun
<1>10. CASE AcpPrompt
  <2>1. PICK s \in SessionIds : AcpSwitch(s) /\ Begin(s, msgs') /\ UNCHANGED <<mode, switched>>
    BY <1>10 DEF AcpPrompt, frontEnd
  <2>2. /\ hist' \in [SessionIds -> Seq(Messages)] /\ msgs' = hist'[s] /\ cur' = s
        /\ \A t \in SessionIds : Known(hist'[t]) /\ (~switched => Own(t, hist'[t]))
    BY <1>8, <2>1 DEF Begin
  <2>3. msgs' \in Seq(Messages) /\ Known(msgs') /\ (~switched => Own(s, msgs'))
    BY <2>2
  <2> QED
    BY <1>4, <1>k, <2>1, <2>2, <2>3
<1>11. CASE Undo \/ Compact \/ Fork \/ Exit \/ ReplPrompt \/ Start
            \/ StrategyPrompt \/ StrategyTurn
  BY <1>11 DEF Undo, Compact, Fork, Exit, ReplPrompt, Start, StartIn, StrategyPrompt,
               StrategyTurn, frontEnd
<1> QED
  BY <1>0, <1>1, <1>2, <1>3, <1>5, <1>6, <1>7, <1>9, <1>10, <1>11, <1>12, <1>13
     DEF SessionNext, Repl, Commands, sessionVars

\* The invariant holds whatever is prompted, switched, forked, resumed, cut off
\* or not written.
THEOREM SessionsInvariance == SessionSpec => []SessionsInv
<1>1. SessionsInv /\ [SessionNext]_sessionVars => SessionsInv'
  BY SessionTypesStay, FilesStayClean, FileStillFollows, StillSaidIn DEF SessionsInv
<1> QED
  BY SessionsStartRight, <1>1, PTL DEF SessionSpec

\* What was said is resumed, and where it was said.
THEOREM SessionsTrue == SessionSpec => []SessionsAreTrue
<1>1. SessionsInv => SessionsAreTrue
  <2> SUFFICES ASSUME SessionsInv PROVE SessionsAreTrue
    OBVIOUS
  <2>1. SessionTypeOK
    BY DEF SessionsInv, SessionTypes, SessionPlaces, SessionTypeOK, Lines
  <2>2. FileIsHistory
    <3> SUFFICES ASSUME mode = "repl", up, NoRun, inSync
                 PROVE  Loadable(jsonl[cur]) /\ Load(jsonl[cur]) = msgs
      BY DEF FileIsHistory
    <3>1. jsonl[cur] = msgs /\ msgs \in Seq(Messages)
      BY DEF SessionsInv, FileFollows, SessionTypes
    <3>2. Clean(msgs) /\ msgs \in Seq(Lines)
      BY <3>1, CleanIs
    <3> QED
      BY <3>1, <3>2 DEF Clean, Loadable, Load, Last
  <2>3. CrashKeepsFiles
    BY DEF CrashKeepsFiles, SessionsInv, FilesClean
  <2>4. OwnUnlessSwitched
    BY DEF OwnUnlessSwitched, HistoryIsOwn, SessionsInv, SaidIn
  <2> QED
    BY <2>1, <2>2, <2>3, <2>4 DEF SessionsAreTrue, FilesResume
<1> QED
  BY SessionsInvariance, <1>1, PTL

-----------------------------------------------------------------------------
(***************************************************************************)
(* The screen. Each line is in one place, once, and no place but `prompt`  *)
(* depends on where the threads are.                                       *)
(***************************************************************************)

\* No member of a sequence occurs twice.
Once(s) == \A i, j \in DOMAIN s : s[i] = s[j] => i = j

\* The channels and queues hold lines; the line of the agent's thread is one
\* from when it is taken until the run begins.
LineTypes ==
  /\ sent \in Seq(Nat) /\ steers \in Seq(Nat) /\ steering \in Seq(Nat)
  /\ heard \in Seq(Nat)
  /\ prompt \in Nat /\ reports \in Nat
  /\ (prompt # 0) <=> (agent = "locking")

Prompted == IF prompt = 0 THEN {} ELSE {prompt}

\* A line is in one place, ...
LinesApart ==
  /\ Elements(sent) \cap (Elements(steers) \cup Elements(steering) \cup Prompted
                          \cup noted \cup Elements(heard)) = {}
  /\ Elements(steers) \cap (Elements(steering) \cup Prompted \cup noted
                            \cup Elements(heard)) = {}
  /\ Elements(steering) \cap (Prompted \cup noted \cup Elements(heard)) = {}
  /\ Prompted \cap (noted \cup Elements(heard)) = {}
  /\ noted \cap Elements(heard) = {}
\* ... once, ...
LinesOnce == Once(sent) /\ Once(steers) /\ Once(steering) /\ Once(heard)
\* ... and no line is anywhere that was not typed.
LinesTyped ==
  1..typed = Elements(sent) \cup Elements(steers) \cup Elements(steering)
             \cup Prompted \cup noted \cup Elements(heard)

ScreenInv ==
  /\ ScreenTypeOK /\ LineTypes /\ ShowsWhatRuns
  /\ LinesApart /\ LinesOnce /\ LinesTyped

\* A line put behind others that it is not among.
LEMMA OnceAppend ==
  ASSUME NEW s \in Seq(Nat), NEW x \in Nat, Once(s), x \notin Elements(s)
  PROVE  /\ Append(s, x) \in Seq(Nat) /\ Len(Append(s, x)) = Len(s) + 1
         /\ Once(Append(s, x)) /\ Elements(Append(s, x)) = Elements(s) \cup {x}
<1> DEFINE t == Append(s, x)
<1>1. /\ t \in Seq(Nat) /\ Len(t) = Len(s) + 1 /\ Len(s) \in Nat
      /\ \A i \in 1..Len(s) : t[i] = s[i]
      /\ t[Len(s) + 1] = x /\ DOMAIN t = 1..(Len(s) + 1) /\ DOMAIN s = 1..Len(s)
  OBVIOUS
<1>2. Elements(t) = Elements(s) \cup {x}
  BY <1>1 DEF Elements
<1>3. \A i, j \in 1..(Len(s) + 1) : t[i] = t[j] => i = j
  BY SMTT(30), <1>1 DEF Once, Elements
<1> QED
  BY <1>1, <1>2, <1>3 DEF Once

\* A line taken from before others.
LEMMA OnceTail ==
  ASSUME NEW s \in Seq(Nat), s # <<>>, Once(s)
  PROVE  /\ Head(s) \in Elements(s) /\ Head(s) \in Nat
         /\ Tail(s) \in Seq(Nat) /\ Len(Tail(s)) = Len(s) - 1
         /\ Once(Tail(s)) /\ Elements(Tail(s)) = Elements(s) \ {Head(s)}
<1> DEFINE t == Tail(s)
<1>1. /\ t \in Seq(Nat) /\ Len(t) = Len(s) - 1 /\ Len(s) \in Nat /\ Len(s) > 0
      /\ \A i \in 1..(Len(s) - 1) : t[i] = s[i + 1]
      /\ DOMAIN t = 1..(Len(s) - 1) /\ DOMAIN s = 1..Len(s) /\ Head(s) = s[1]
  OBVIOUS
<1>2. Head(s) \in Elements(s) /\ Head(s) \in Nat
  BY <1>1 DEF Elements
<1>3. \A i \in 1..(Len(s) - 1), j \in 1..(Len(s) - 1) : t[i] = t[j] => i = j
  BY <1>1 DEF Once
<1>4. Elements(t) \subseteq Elements(s) \ {Head(s)}
  BY <1>1 DEF Once, Elements
<1>5. ASSUME NEW x \in Elements(s), x # Head(s)
      PROVE  x \in Elements(t)
  <2>1. PICK i \in 1..Len(s) : x = s[i]
    BY <1>1 DEF Elements
  <2>2. i - 1 \in 1..(Len(s) - 1) /\ i = (i - 1) + 1
    BY <1>1, <1>5, <2>1
  <2>3. t[i - 1] = x
    BY <1>1, <2>1, <2>2
  <2> QED
    BY <1>1, <2>2, <2>3 DEF Elements
<1>6. Elements(s) \ {Head(s)} \subseteq Elements(t)
  BY <1>5
<1> QED
  BY <1>1, <1>2, <1>3, <1>4, <1>6 DEF Once

\* A line that waits in the channel was typed.
LEMMA HeadIn ==
  ASSUME sent \in Seq(Nat), sent # <<>>, LinesTyped, typed \in Nat
  PROVE  Head(sent) # 0
<1>1. Head(sent) = sent[1] /\ 1 \in DOMAIN sent
  OBVIOUS
<1>2. Head(sent) \in 1..typed
  BY <1>1 DEF LinesTyped, Elements
<1> QED
  BY <1>2

\* At first no line is anywhere.
LEMMA ScreenStartsRight == ScreenInit => ScreenInv
<1> SUFFICES ASSUME ScreenInit PROVE ScreenInv
  OBVIOUS
<1>1. Elements(<<>>) = {} /\ Once(<<>>) /\ Prompted = {} /\ Len(<<>>) = 0
      /\ <<>> \in Seq(Nat) /\ 1..0 = {}
  BY DEF ScreenInit, ScreenIs, Once, Elements, Prompted
<1>2. ScreenTypeOK
  BY ScreenAssumption DEF ScreenInit, ScreenIs, ScreenTypeOK
<1>2a. LineTypes
  BY <1>1, Zenon DEF ScreenInit, ScreenIs, LineTypes
<1>3. ShowsWhatRuns
  BY <1>1 DEF ScreenInit, ScreenIs, ShowsWhatRuns, InRun
<1>4. LinesApart /\ LinesOnce /\ LinesTyped
  BY <1>1 DEF ScreenInit, ScreenIs, LinesApart, LinesOnce, LinesTyped
<1> QED
  BY <1>2, <1>2a, <1>3, <1>4 DEF ScreenInv

\* Types, and what the screen shows.
LEMMA ScreenTypesKept ==
  ASSUME ScreenInv, [ScreenNext]_screenVars
  PROVE  ScreenTypeOK' /\ LineTypes' /\ ShowsWhatRuns'
<1> USE ScreenAssumption DEF ScreenInv, ScreenTypeOK, LineTypes, ShowsWhatRuns,
        InRun, agentVars
<1>0. Len(sent) \in Nat
  OBVIOUS
<1>00. CASE UNCHANGED screenVars
  BY <1>00 DEF screenVars
<1>1. CASE TypeLine
  <2>0. ScreenTypeOK'
    BY <1>1 DEF TypeLine
  <2>1. typed' \in Nat
    BY <1>1 DEF TypeLine
  <2>2. Append(sent, typed') \in Seq(Nat) /\ Append(steers, typed') \in Seq(Nat)
        /\ Len(Append(sent, typed')) = Len(sent) + 1
    BY <2>1
  <2>3. LineTypes'
    BY <1>1, <2>1, <2>2 DEF TypeLine
  <2>4. CASE running
    <3>1. InRun' = InRun /\ running' = running /\ shell' = shell
      BY <1>1, <2>4 DEF TypeLine
    <3> QED
      BY <2>0, <2>3, <3>1
  <2>5. CASE ~running
    <3>1. /\ sent' = Append(sent, typed') /\ running' = TRUE
          /\ UNCHANGED <<shell, reports, agent>>
      BY <1>1, <2>5, Zenon DEF TypeLine, agentVars
    <3>2. InRun' = InRun + 1 /\ InRun \in Nat
      BY <1>0, <2>2, <3>1
    <3>3. InRun = 0 /\ shell = "none"
      BY <1>0, <2>5
    <3>4. ShowsWhatRuns'
      <4> HIDE DEF InRun
      <4> QED
        BY <3>1, <3>2, <3>3
    <3> QED
      BY <2>0, <2>3, <3>4
  <2> QED
    BY <2>4, <2>5
<1>2. CASE TypeShell
  BY <1>0, <1>2 DEF TypeShell
<1>3. CASE TypeCompact
  BY <1>0, <1>3 DEF TypeCompact
<1>4. CASE Quit
  BY <1>0, <1>4 DEF Quit
<1>5. CASE DrainDone
  <2>1. ScreenTypeOK' /\ LineTypes'
    BY <1>5 DEF DrainDone
  <2>2. /\ InRun \in Nat /\ InRun >= 1 /\ InRun' = InRun - 1 /\ running' = FALSE
        /\ shell' = shell
    BY <1>0, <1>5 DEF DrainDone
  <2>3. InRun = 1 /\ shell = "none"
    <3> HIDE DEF InRun
    <3> QED
      BY <2>2
  <2>4. ShowsWhatRuns'
    <3> HIDE DEF InRun
    <3> QED
      BY <2>2, <2>3
  <2> QED
    BY <2>1, <2>4
<1>6. CASE UsageRead
  BY <1>0, <1>6 DEF UsageRead
<1>7. CASE DrainShell
  <2>1. ScreenTypeOK' /\ LineTypes'
    BY <1>7 DEF DrainShell
  <2>2. /\ InRun \in Nat /\ InRun' = InRun /\ running' = FALSE
        /\ shell = "ended" /\ shell' = "none"
    BY <1>0, <1>7 DEF DrainShell
  <2>3. ShowsWhatRuns'
    <3> HIDE DEF InRun
    <3> QED
      BY <2>2
  <2> QED
    BY <2>1, <2>3
<1>8. CASE Leave
  BY <1>0, <1>8 DEF Leave
<1>9. CASE Forward
  <2>1. Append(steering, Head(steers)) \in Seq(Nat) /\ Tail(steers) \in Seq(Nat)
    BY <1>9 DEF Forward
  <2> QED
    BY <1>0, <1>9, <2>1 DEF Forward
<1>10. CASE ShellEnds
  BY <1>0, <1>10 DEF ShellEnds
<1>11. CASE TakePrompt
  <2>1. /\ Tail(sent) \in Seq(Nat) /\ Head(sent) \in Nat
        /\ Len(Tail(sent)) = Len(sent) - 1
    BY <1>11 DEF TakePrompt
  <2>2. Head(sent) # 0
    BY <1>11, HeadIn DEF TakePrompt, LinesTyped
  <2> QED
    BY <1>0, <1>11, <2>1, <2>2 DEF TakePrompt
<1>12. CASE BeginRun
  <2>1. Append(heard, prompt) \in Seq(Nat)
    OBVIOUS
  <2> QED
    BY <1>0, <1>12, <2>1 DEF BeginRun
<1>13. CASE HearSteer
  <2>1. Append(heard, Head(steering)) \in Seq(Nat) /\ Tail(steering) \in Seq(Nat)
    BY <1>13 DEF HearSteer
  <2> QED
    BY <1>0, <1>13, <2>1 DEF HearSteer
<1>14. CASE EndRun
  BY <1>0, <1>14 DEF EndRun
<1>15. CASE ReportDone
  BY <1>0, <1>15 DEF ReportDone
<1>16. CASE PackBegins
  BY <1>0, <1>16 DEF PackBegins
<1>17. CASE PackEnds
  BY <1>0, <1>17 DEF PackEnds
<1> QED
  BY <1>00, <1>1, <1>2, <1>3, <1>4, <1>5, <1>6, <1>7, <1>8, <1>9, <1>10, <1>11,
     <1>12, <1>13, <1>14, <1>15, <1>16, <1>17 DEF ScreenNext, ScreenProgress

\* A step takes at most one line from the front of one place to another.
LEMMA LinesKept ==
  ASSUME ScreenInv, [ScreenNext]_screenVars
  PROVE  LinesApart' /\ LinesOnce' /\ LinesTyped'
<1> USE DEF ScreenInv, LinesApart, LinesOnce, LinesTyped
<1>t. /\ typed \in Nat /\ sent \in Seq(Nat) /\ steers \in Seq(Nat)
      /\ steering \in Seq(Nat) /\ heard \in Seq(Nat)
      /\ prompt \in Nat /\ (prompt # 0 <=> agent = "locking")
  BY ScreenAssumption DEF ScreenTypeOK, LineTypes
<1>n. 1..(typed + 1) = (1..typed) \cup {typed + 1} /\ typed + 1 \notin 1..typed
  BY <1>t
<1>0. CASE UNCHANGED <<typed, sent, steers, steering, prompt, noted, heard>>
  BY <1>0 DEF Prompted
<1>1. CASE TypeLine
  <2>1. UNCHANGED <<Prompted, noted, Elements(heard), Elements(steering), heard, steering>>
        /\ typed' = typed + 1
    BY <1>1 DEF TypeLine, agentVars, Prompted
  <2>2. CASE running
    <3>1. sent' = sent /\ steers' = Append(steers, typed + 1)
      BY <1>1, <2>2 DEF TypeLine
    <3>2. Once(steers') /\ Elements(steers') = Elements(steers) \cup {typed + 1}
      BY <1>t, <1>n, <3>1, OnceAppend
    <3> QED
      BY <1>n, <2>1, <3>1, <3>2
  <2>3. CASE ~running
    <3>1. steers' = steers /\ sent' = Append(sent, typed + 1)
      BY <1>1, <2>3 DEF TypeLine
    <3>2. Once(sent') /\ Elements(sent') = Elements(sent) \cup {typed + 1}
      BY <1>t, <1>n, <3>1, OnceAppend
    <3> QED
      BY <1>n, <2>1, <3>1, <3>2
  <2> QED
    BY <2>2, <2>3
<1>2. CASE TypeShell
  BY <1>2, <1>n DEF TypeShell, agentVars, Prompted
<1>3. CASE Forward
  <2>1. UNCHANGED <<Prompted, noted, heard, sent, typed>>
    BY <1>3 DEF Forward, agentVars, Prompted
  <2> DEFINE x == Head(steers)
  <2>2. /\ x \in Elements(steers) /\ x \in Nat
        /\ Once(steers') /\ Elements(steers') = Elements(steers) \ {x}
    BY <1>t, <1>3, OnceTail DEF Forward
  <2>3. Once(steering') /\ Elements(steering') = Elements(steering) \cup {x}
    BY <1>t, <1>3, <2>2, OnceAppend DEF Forward
  <2> QED
    BY <2>1, <2>2, <2>3
<1>4. CASE TakePrompt
  <2>1. UNCHANGED <<noted, heard, steers, steering, typed>>
    BY <1>4 DEF TakePrompt
  <2> DEFINE x == Head(sent)
  <2>2. /\ x \in Elements(sent) /\ x \in Nat
        /\ Once(sent') /\ Elements(sent') = Elements(sent) \ {x}
    BY <1>t, <1>4, OnceTail DEF TakePrompt
  <2>3. Prompted = {} /\ Prompted' = {x}
    BY <1>t, <1>4, <2>2 DEF TakePrompt, Prompted
  <2> QED
    BY <2>1, <2>2, <2>3
<1>5. CASE BeginRun
  <2>1. UNCHANGED <<noted, sent, steers, steering, typed>>
    BY <1>5 DEF BeginRun
  <2>2. Prompted = {prompt} /\ Prompted' = {}
    BY <1>t, <1>5 DEF BeginRun, Prompted
  <2>3. Once(heard') /\ Elements(heard') = Elements(heard) \cup {prompt}
    BY <1>t, <1>5, <2>2, OnceAppend DEF BeginRun
  <2> QED
    BY <2>1, <2>2, <2>3
<1>6. CASE HearSteer
  <2>1. UNCHANGED <<Prompted, noted, sent, steers, typed>>
    BY <1>6 DEF HearSteer, agentVars, Prompted
  <2> DEFINE x == Head(steering)
  <2>2. /\ x \in Elements(steering) /\ x \in Nat
        /\ Once(steering') /\ Elements(steering') = Elements(steering) \ {x}
    BY <1>t, <1>6, OnceTail DEF HearSteer
  <2>3. Once(heard') /\ Elements(heard') = Elements(heard) \cup {x}
    BY <1>t, <1>6, <2>2, OnceAppend DEF HearSteer
  <2> QED
    BY <2>1, <2>2, <2>3
<1> QED
  BY <1>0, <1>1, <1>2, <1>3, <1>4, <1>5, <1>6
     DEF ScreenNext, ScreenProgress, screenVars, agentVars, TypeCompact, Quit,
         DrainDone, UsageRead, DrainShell, Leave, ShellEnds, EndRun, ReportDone,
         PackBegins, PackEnds

\* The screen keeps its invariant, however the threads interleave.
THEOREM ScreenInvariance == ScreenSpec => []ScreenInv
<1>1. ScreenInv /\ [ScreenNext]_screenVars => ScreenInv'
  BY ScreenTypesKept, LinesKept DEF ScreenInv
<1> QED
  BY <1>1, ScreenStartsRight, PTL DEF ScreenSpec

\* What the screen shows is what is going on, and no line is lost or heard
\* twice, however the threads interleave.
THEOREM ScreenTrue == ScreenSpec => []ScreensAreTrue
<1>1. ScreenInv => ScreensAreTrue
  BY DEF ScreenInv, ScreensAreTrue, LinesTyped, LinesOnce, NoLineIsLost, Once,
     Prompted
<1> QED
  BY <1>1, ScreenInvariance, PTL
=============================================================================
