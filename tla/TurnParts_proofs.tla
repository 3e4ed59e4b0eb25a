--------------------------- MODULE TurnParts_proofs ---------------------------
(***************************************************************************)
(* Two parts of a turn: the completion that a step of the loop asks for    *)
(* (Completion), and the gated strategy that runs one loop after another   *)
(* (Phases).  They share no state, so each has an invariant of its own.    *)
(***************************************************************************)
EXTENDS Completion, Phases, FiniteSetTheorems, FunctionTheorems, SequenceTheorems,
        WellFoundedInduction, TLAPS

-----------------------------------------------------------------------------
(***************************************************************************)
(* One completion, for any routes, any number of targets and retries and   *)
(* any length of what is said.                                             *)
(*                                                                         *)
(* CompletionInv strengthens CompletionIsSound by what each client task    *)
(* may be at for the attempts it has made (TasksFit), by how what is read, *)
(* what is still in the channel and what the task has assembled fit one    *)
(* another (StreamFits, of the target that is heard: HeardFits), and by    *)
(* what the reader has when it has ended (SeenFits).                       *)
(***************************************************************************)

Voices == Nat \X Nat
Msgs == [reason : {"none", "stop", "tools", "length", "error", "aborted"},
         text : Nat, args : Nat, err : BOOLEAN, voice : Voices, cut : BOOLEAN]
Events == [type : {"start", "text", "tool", "error", "done"}, voice : Voices,
           msg : Msgs]
Tasks == [pc : {"none", "post", "body", "backoff", "stream", "ended"}, posts : Nat,
          tries : [post : Nat, stream : Nat], text : Nat, args : Nat,
          finish : {"none", "stop", "tools", "length", "odd"}, shown : BOOLEAN,
          again : BOOLEAN]
Seens ==
  [voices : SUBSET Voices, text : Nat, error : BOOLEAN, dones : Nat, msg : Msgs]

CompletionTyped ==
  /\ Len(targets) \in Nat /\ Indices = 1..Len(targets)
  /\ routed \in BOOLEAN /\ cancelled \in BOOLEAN
  /\ task \in [Indices -> Tasks] /\ queue \in [Indices -> Seq(Events)]
  /\ heard \in 0..Len(targets)
  /\ stage \in {"pick", "probe", "read", "end", "done"}
  /\ stage \in {"probe", "read"} => heard \in Indices
  /\ seen \in Seens /\ reply \in Msgs

\* The retries of a task are counted, and nothing outlives an attempt.
Retries(t) == t.tries.post + t.tries.stream
TaskFits(t, kind) ==
  /\ t.pc = "none" => t = NoTask
  /\ t.pc = "backoff" => t.posts = Retries(t)
  /\ t.pc \notin {"none", "backoff"} => t.posts = 1 + Retries(t)
  /\ IF kind = "openai"
       THEN t.tries.post <= MaxRetries /\ t.tries.stream <= MaxRetries
       ELSE Retries(t) <= MaxRetries
  /\ t.pc # "stream" => t.text = 0 /\ t.args = 0 /\ t.finish = "none" /\ ~t.shown
  /\ ~t.shown => t.text = 0
  /\ t.finish = "stop" => t.args = 0
  /\ t.finish = "tools" => t.args = CallPieces
TasksFit ==
  \A i \in Indices :
    /\ TaskFits(task[i], Kind(i))
    /\ i > heard => task[i] = NoTask /\ queue[i] = <<>>

Says(e) == e.type \in {"text", "tool"}
TextsIn(q) == Cardinality({k \in 1..Len(q) : q[k].type = "text"})

\* What a good message may say when n pieces of text were shown.
MsgFits(m, kind, n) ==
  m.reason \in Good =>
    /\ m.text = n
    /\ m.cut => kind = "openai"
    /\ m.args \in {0, CallPieces} \/ m.cut \/ m.reason = "length"

\* The reader has seen s, and q is still to be read, of a target with task t in
\* the attempt v: all that was shown is of this attempt and in its message.
Speaks(q, s) == s.voices # {} \/ \E k \in 1..Len(q) : Says(q[k])
Shown(q, s) == s.text + TextsIn(q)
IsLast(m, q, s, v, kind) == m.voice = v /\ MsgFits(m, kind, Shown(q, s))
StreamFits(t, q, s, v, kind) ==
  /\ s.voices \subseteq {v} /\ \A k \in 1..Len(q) : Says(q[k]) => q[k].voice = v
  /\ Speaks(q, s) => t.pc = "ended" \/ t.shown
  /\ t.pc # "ended" =>
       /\ Shown(q, s) = t.text
       /\ s.dones = 0 /\ \A k \in 1..Len(q) : q[k].type # "done"
  /\ t.pc = "ended" =>
       \/ s.dones = 1 /\ q = <<>> /\ IsLast(s.msg, q, s, v, kind)
       \/ /\ s.dones = 0 /\ q # <<>> /\ q[Len(q)].type = "done"
          /\ IsLast(q[Len(q)].msg, q, s, v, kind)
          /\ \A k \in 1..(Len(q) - 1) : q[k].type # "done"

Fresh == [voices |-> {}, text |-> 0, error |-> FALSE, dones |-> 0, msg |-> Nothing]

HeardFits ==
  /\ stage \in {"probe", "read"} =>
       /\ StreamFits(task[heard], queue[heard], seen, Voice(heard), Kind(heard))
       /\ task[heard].pc # "none"
  /\ stage \in {"pick", "probe"} => seen = Fresh

\* What the reader ends with is one message, which says what was shown.
SeenFits ==
  /\ stage \in {"end", "done"} =>
       /\ seen.dones = 1 /\ seen.voices \subseteq {seen.msg.voice}
       /\ MsgFits(seen.msg, Kind(heard), seen.text)
  /\ stage = "done" =>
       /\ reply.voice = seen.msg.voice /\ reply.text = seen.msg.text
       /\ reply.args = seen.msg.args /\ reply.cut = seen.msg.cut
       /\ reply.reason = seen.msg.reason \/ reply.reason = "error"

CompletionInv == CompletionTyped /\ TasksFit /\ HeardFits /\ SeenFits

-----------------------------------------------------------------------------
(* Pieces of text in a queue. *)

LEMMA TextsCounted ==
  ASSUME NEW q \in Seq(Events)
  PROVE  TextsIn(q) \in Nat /\ IsFiniteSet({k \in 1..Len(q) : q[k].type = "text"})
<1>1. IsFiniteSet(1..Len(q))
  BY FS_Interval
<1>2. IsFiniteSet({k \in 1..Len(q) : q[k].type = "text"})
  BY <1>1, FS_Subset
<1> QED BY <1>2, FS_CardinalityType DEF TextsIn

LEMMA TextsNone ==
  ASSUME NEW q \in Seq(Events), \A k \in 1..Len(q) : q[k].type # "text"
  PROVE  TextsIn(q) = 0
<1>1. {k \in 1..Len(q) : q[k].type = "text"} = {}
  OBVIOUS
<1> QED BY <1>1, FS_EmptySet DEF TextsIn

LEMMA AppendIs ==
  ASSUME NEW q \in Seq(Events), NEW e \in Events
  PROVE  /\ Append(q, e) \in Seq(Events) /\ Append(q, e) # <<>>
         /\ Len(q) \in Nat /\ Len(Append(q, e)) = Len(q) + 1
         /\ \A k \in 1..Len(q) : Append(q, e)[k] = q[k]
         /\ Append(q, e)[Len(q) + 1] = e
         /\ q \o <<e>> = Append(q, e)
OBVIOUS

LEMMA TextsAppend ==
  ASSUME NEW q \in Seq(Events), NEW e \in Events
  PROVE  TextsIn(Append(q, e)) = TextsIn(q) + (IF e.type = "text" THEN 1 ELSE 0)
<1> DEFINE Old == {k \in 1..Len(q) : q[k].type = "text"}
           New == {k \in 1..Len(Append(q, e)) : Append(q, e)[k].type = "text"}
           n == Len(q) + 1
<1>1. IsFiniteSet(Old) /\ Cardinality(Old) \in Nat /\ n \notin Old
  BY TextsCounted, AppendIs DEF TextsIn
<1>2. New = IF e.type = "text" THEN Old \cup {n} ELSE Old
  BY AppendIs
<1> HIDE DEF Old, New, n
<1>3. Cardinality(New) = Cardinality(Old) + (IF e.type = "text" THEN 1 ELSE 0)
  <2>1. CASE e.type = "text"
    <3>1. Cardinality(Old \cup {n}) = Cardinality(Old) + 1
      BY <1>1, FS_AddElement
    <3> QED BY <1>2, <2>1, <3>1
  <2>2. CASE e.type # "text"
    BY <1>1, <1>2, <2>2
  <2> QED BY <2>1, <2>2
<1> QED BY <1>3 DEF TextsIn, Old, New

LEMMA TailIs ==
  ASSUME NEW q \in Seq(Events), q # <<>>
  PROVE  /\ Len(q) \in Nat \ {0} /\ Head(q) = q[1] /\ Head(q) \in Events
         /\ Tail(q) \in Seq(Events) /\ Len(Tail(q)) = Len(q) - 1
         /\ \A k \in 1..(Len(q) - 1) : Tail(q)[k] = q[k + 1]
         /\ Tail(q) = <<>> <=> Len(q) = 1
<1>1. /\ Len(q) \in Nat \ {0} /\ Head(q) = q[1] /\ Head(q) \in Events
      /\ Tail(q) \in Seq(Events) /\ Len(Tail(q)) = Len(q) - 1
  OBVIOUS
<1>2. \A k \in 1..(Len(q) - 1) : Tail(q)[k] = q[k + 1]
  BY <1>1, HeadTailProperties
<1>3. Tail(q) = <<>> <=> Len(q) = 1
  <2>1. Tail(q) = <<>> <=> Len(Tail(q)) = 0
    BY <1>1
  <2> QED BY <1>1, <2>1
<1> QED BY <1>1, <1>2, <1>3

LEMMA TextsTail ==
  ASSUME NEW q \in Seq(Events), q # <<>>
  PROVE  TextsIn(q) = TextsIn(Tail(q)) + (IF Head(q).type = "text" THEN 1 ELSE 0)
<1> DEFINE All == {k \in 1..Len(q) : q[k].type = "text"}
           Rest == {k \in 1..Len(Tail(q)) : Tail(q)[k].type = "text"}
           Moved == {k \in 2..Len(q) : q[k].type = "text"}
           f == [k \in Rest |-> k + 1]
<1>1. IsFiniteSet(Rest) /\ Cardinality(Rest) \in Nat /\ IsFiniteSet(All)
  BY TextsCounted, TailIs DEF TextsIn
<1>2. f \in Bijection(Rest, Moved)
  <2>1. \A k \in Rest : k \in Nat /\ k + 1 \in Moved
    BY TailIs
  <2>2. \A m \in Moved : m - 1 \in Rest /\ m = (m - 1) + 1
    BY TailIs
  <2> HIDE DEF Rest, Moved
  <2>3. f \in [Rest -> Moved]
    BY <2>1
  <2>4. \A a, b \in Rest : f[a] = f[b] => a = b
    BY <2>1
  <2>5. \A m \in Moved : \E a \in Rest : f[a] = m
    BY <2>2
  <2> QED BY <2>3, <2>4, <2>5, Fun_IsBij
<1>x. ExistsBijection(Rest, Moved)
  BY <1>2 DEF ExistsBijection
<1>3. Moved \in SUBSET All /\ 1 \notin Moved
  BY TailIs
<1>4. All = IF Head(q).type = "text" THEN Moved \cup {1} ELSE Moved
  BY TailIs
<1> HIDE DEF All, Rest, Moved, f
<1>5. IsFiniteSet(Moved) /\ Cardinality(Moved) = Cardinality(Rest)
  BY <1>1, <1>x, FS_Bijection
<1>6. Cardinality(All) = Cardinality(Rest) + (IF Head(q).type = "text" THEN 1 ELSE 0)
  <2>1. CASE Head(q).type = "text"
    <3>1. Cardinality(Moved \cup {1}) = Cardinality(Moved) + 1
      BY <1>3, <1>5, FS_AddElement
    <3> QED BY <1>4, <1>5, <2>1, <3>1
  <2>2. CASE Head(q).type # "text"
    BY <1>1, <1>4, <1>5, <2>2
  <2> QED BY <2>1, <2>2
<1> QED BY <1>6 DEF TextsIn, All, Rest
-----------------------------------------------------------------------------
(* How a stream goes on fitting its reader. *)

\* The task sends an event, and has not ended.
LEMMA FitsAppend ==
  ASSUME NEW t \in Tasks, NEW t2 \in Tasks, NEW q \in Seq(Events), NEW s \in Seens,
         NEW v, NEW kind, NEW e \in Events,
         StreamFits(t, q, s, v, kind), t.pc # "ended", t2.pc # "ended",
         e.type # "done", Says(e) => e.voice = v, t.shown \/ Says(e) => t2.shown,
         t2.text = t.text + (IF e.type = "text" THEN 1 ELSE 0)
  PROVE  StreamFits(t2, Append(q, e), s, v, kind)
<1> DEFINE r == Append(q, e)
<1>1. /\ r \in Seq(Events) /\ Len(q) \in Nat /\ Len(r) = Len(q) + 1
      /\ \A k \in 1..Len(q) : r[k] = q[k]
      /\ r[Len(q) + 1] = e
  BY AppendIs
<1>2. TextsIn(r) = TextsIn(q) + (IF e.type = "text" THEN 1 ELSE 0) /\ TextsIn(q) \in Nat
  BY TextsAppend, TextsCounted
<1> HIDE DEF r
<1>3. \A k \in 1..Len(r) : k \in 1..Len(q) \/ k = Len(q) + 1
  BY <1>1
<1>4. s.voices \subseteq {v} /\ \A k \in 1..Len(r) : Says(r[k]) => r[k].voice = v
  BY <1>1, <1>3 DEF StreamFits
<1>5. Speaks(r, s) => t2.shown
  BY <1>1, <1>3 DEF StreamFits, Speaks
<1>6. s.dones = 0 /\ \A k \in 1..Len(r) : r[k].type # "done"
  BY <1>1, <1>3 DEF StreamFits
<1>7. Shown(r, s) = t2.text
  <2>1. s.text \in Nat /\ s.text + TextsIn(q) = t.text
    BY DEF StreamFits, Shown, Seens
  <2> QED BY <1>2, <2>1 DEF Shown
<1> QED BY <1>4, <1>5, <1>6, <1>7 DEF StreamFits, r

\* The task goes on in silence; a later attempt has shown nothing.
LEMMA FitsMove ==
  ASSUME NEW t \in Tasks, NEW t2 \in Tasks, NEW q \in Seq(Events), NEW s \in Seens,
         NEW v, NEW v2, NEW kind,
         StreamFits(t, q, s, v, kind), t.pc # "ended", t2.pc # "ended",
         v2 = v \/ ~t.shown, t.shown => t2.shown, t2.text = t.text
  PROVE  StreamFits(t2, q, s, v2, kind)
<1>1. ~t.shown => ~Speaks(q, s)
  BY DEF StreamFits
<1>2. s.voices \subseteq {v2} /\ \A k \in 1..Len(q) : Says(q[k]) => q[k].voice = v2
  BY <1>1 DEF StreamFits, Speaks
<1> QED BY <1>1, <1>2 DEF StreamFits

\* The task ends with a message.
LEMMA FitsEnd ==
  ASSUME NEW t \in Tasks, NEW t2 \in Tasks, NEW q \in Seq(Events), NEW s \in Seens,
         NEW v, NEW kind, NEW e \in Events,
         StreamFits(t, q, s, v, kind), t.pc # "ended", t2.pc = "ended",
         e.type = "done", e.msg.voice = v, MsgFits(e.msg, kind, t.text)
  PROVE  StreamFits(t2, Append(q, e), s, v, kind)
<1> DEFINE r == Append(q, e)
<1>1. /\ r \in Seq(Events) /\ r # <<>> /\ Len(q) \in Nat /\ Len(r) = Len(q) + 1
      /\ \A k \in 1..Len(q) : r[k] = q[k]
      /\ r[Len(q) + 1] = e /\ r[Len(r)] = e
  BY AppendIs
<1>2. TextsIn(r) = TextsIn(q)
  <2>1. TextsIn(r) = TextsIn(q) + 0 /\ TextsIn(q) \in Nat
    BY TextsAppend, TextsCounted
  <2> QED BY <2>1
<1> HIDE DEF r
<1>3. \A k \in 1..Len(r) : k \in 1..Len(q) \/ k = Len(q) + 1
  BY <1>1
<1>4. s.voices \subseteq {v} /\ \A k \in 1..Len(r) : Says(r[k]) => r[k].voice = v
  BY <1>1, <1>3 DEF StreamFits, Says
<1>5. s.dones = 0 /\ \A k \in 1..(Len(r) - 1) : r[k].type # "done"
  <2>1. \A k \in 1..(Len(r) - 1) : k \in 1..Len(q)
    BY <1>1
  <2> QED BY <1>1, <2>1 DEF StreamFits
<1>6. Shown(r, s) = t.text
  BY <1>2 DEF StreamFits, Shown
<1> QED BY <1>1, <1>4, <1>5, <1>6 DEF StreamFits, IsLast, r

\* The event that stream_once does with what it hears.
Taken(s, e) ==
  CASE e.type = "text" -> [s EXCEPT !.voices = @ \cup {e.voice}, !.text = @ + 1]
    [] e.type = "tool" -> [s EXCEPT !.voices = @ \cup {e.voice}]
    [] e.type = "error" -> [s EXCEPT !.error = TRUE]
    [] e.type = "done" -> [s EXCEPT !.dones = @ + 1, !.msg = e.msg]
    [] OTHER -> s

LEMMA TakenIs ==
  ASSUME NEW s \in Seens, NEW e \in Events
  PROVE  /\ Taken(s, e) \in Seens
         /\ Taken(s, e).voices = IF Says(e) THEN s.voices \cup {e.voice} ELSE s.voices
         /\ Taken(s, e).text = s.text + (IF e.type = "text" THEN 1 ELSE 0)
         /\ Taken(s, e).dones = s.dones + (IF e.type = "done" THEN 1 ELSE 0)
         /\ Taken(s, e).msg = IF e.type = "done" THEN e.msg ELSE s.msg
         /\ e.type = "start" => Taken(s, e) = s
<1>1. e.type \in {"start", "text", "tool", "error", "done"} /\ e.voice \in Voices
      /\ e.msg \in Msgs
  BY DEF Events
<1>2. /\ s = [voices |-> s.voices, text |-> s.text, error |-> s.error,
              dones |-> s.dones, msg |-> s.msg]
      /\ s.voices \in SUBSET Voices /\ s.text \in Nat /\ s.dones \in Nat
      /\ s.error \in BOOLEAN /\ s.msg \in Msgs
  BY DEF Seens
<1> DEFINE Made(vs, n, err, d, m) ==
             [voices |-> vs, text |-> n, error |-> err, dones |-> d, msg |-> m]
<1>3. CASE e.type = "text"
  <2>1. Taken(s, e) = Made(s.voices \cup {e.voice}, s.text + 1, s.error, s.dones, s.msg)
    BY <1>2, <1>3 DEF Taken
  <2> QED BY <1>1, <1>2, <1>3, <2>1 DEF Says, Seens
<1>4. CASE e.type = "tool"
  <2>1. Taken(s, e) = Made(s.voices \cup {e.voice}, s.text, s.error, s.dones, s.msg)
    BY <1>2, <1>4 DEF Taken
  <2> QED BY <1>1, <1>2, <1>4, <2>1 DEF Says, Seens
<1>5. CASE e.type = "error"
  <2>1. Taken(s, e) = Made(s.voices, s.text, TRUE, s.dones, s.msg)
    BY <1>2, <1>5 DEF Taken
  <2> QED BY <1>1, <1>2, <1>5, <2>1 DEF Says, Seens
<1>6. CASE e.type = "done"
  <2>1. Taken(s, e) = Made(s.voices, s.text, s.error, s.dones + 1, e.msg)
    BY <1>2, <1>6 DEF Taken
  <2> QED BY <1>1, <1>2, <1>6, <2>1 DEF Says, Seens
<1>7. CASE e.type = "start"
  <2>1. Taken(s, e) = s
    BY <1>7 DEF Taken
  <2> QED BY <1>1, <1>2, <1>7, <2>1 DEF Says, Seens
<1> QED BY <1>1, <1>3, <1>4, <1>5, <1>6, <1>7

LEMMA FitsTake ==
  ASSUME NEW t \in Tasks, NEW q \in Seq(Events), NEW s \in Seens, NEW v, NEW kind,
         StreamFits(t, q, s, v, kind), q # <<>>
  PROVE  StreamFits(t, Tail(q), Taken(s, Head(q)), v, kind)
<1> DEFINE r == Tail(q)
           e == Head(q)
           u == Taken(s, e)
<1>1. /\ Len(q) \in Nat \ {0} /\ e = q[1] /\ e \in Events
      /\ r \in Seq(Events) /\ Len(r) = Len(q) - 1
      /\ \A k \in 1..Len(r) : r[k] = q[k + 1] /\ k + 1 \in 1..Len(q)
      /\ r = <<>> <=> Len(q) = 1
  BY TailIs
<1>2. /\ u \in Seens
      /\ u.voices = IF Says(e) THEN s.voices \cup {e.voice} ELSE s.voices
      /\ u.text = s.text + (IF e.type = "text" THEN 1 ELSE 0)
      /\ u.dones = s.dones + (IF e.type = "done" THEN 1 ELSE 0)
      /\ u.msg = IF e.type = "done" THEN e.msg ELSE s.msg
  BY <1>1, TakenIs
<1>3. TextsIn(q) = TextsIn(r) + (IF e.type = "text" THEN 1 ELSE 0) /\ TextsIn(r) \in Nat
  BY <1>1, TextsTail, TextsCounted
<1> HIDE DEF r, e, u
<1>4. Shown(r, u) = Shown(q, s)
  <2>1. s.text \in Nat
    BY DEF Seens
  <2> QED BY <1>2, <1>3, <2>1 DEF Shown
<1>5. 1 \in 1..Len(q)
  BY <1>1
<1>6. u.voices \subseteq {v} /\ \A k \in 1..Len(r) : Says(r[k]) => r[k].voice = v
  <2>1. \A k \in 1..Len(r) : Says(r[k]) => r[k].voice = v
    BY <1>1 DEF StreamFits
  <2>2. s.voices \subseteq {v} /\ (Says(e) => e.voice = v)
    BY <1>1, <1>5 DEF StreamFits
  <2> QED BY <1>2, <2>1, <2>2
<1>7. Speaks(r, u) => Speaks(q, s)
  BY <1>1, <1>2, <1>5 DEF Speaks
<1>8. CASE t.pc # "ended"
  <2>1. s.dones = 0 /\ \A k \in 1..Len(q) : q[k].type # "done"
    BY <1>8 DEF StreamFits
  <2>2. u.dones = 0 /\ \A k \in 1..Len(r) : r[k].type # "done"
    BY <1>1, <1>2, <1>5, <2>1
  <2>3. StreamFits(t, r, u, v, kind)
    BY <1>4, <1>6, <1>7, <1>8, <2>2 DEF StreamFits
  <2> QED BY <2>3 DEF r, e, u
<1>9. CASE t.pc = "ended"
  <2>1. /\ s.dones = 0 /\ q[Len(q)].type = "done"
        /\ IsLast(q[Len(q)].msg, q, s, v, kind)
        /\ \A k \in 1..(Len(q) - 1) : q[k].type # "done"
    BY <1>9 DEF StreamFits
  <2>2. CASE Len(q) = 1
    <3>1. e.type = "done" /\ u.dones = 1 /\ u.msg = q[Len(q)].msg /\ r = <<>>
      BY <1>1, <1>2, <2>1, <2>2
    <3> QED BY <1>4, <1>6, <1>9, <2>1, <3>1 DEF StreamFits, IsLast, r, e, u
  <2>3. CASE Len(q) # 1
    <3>1. 1 \in 1..(Len(q) - 1) /\ r # <<>> /\ Len(r) \in 1..Len(r)
          /\ \A k \in 1..(Len(r) - 1) : k \in 1..Len(r) /\ k + 1 \in 1..(Len(q) - 1)
      BY <1>1, <2>3
    <3>2. e.type # "done" /\ u.dones = 0 /\ r[Len(r)] = q[Len(q)]
      BY <1>1, <1>2, <2>1, <3>1
    <3>3. \A k \in 1..(Len(r) - 1) : r[k].type # "done"
      BY <1>1, <2>1, <3>1
    <3> QED BY <1>4, <1>6, <1>9, <2>1, <3>1, <3>2, <3>3 DEF StreamFits, IsLast, r, e, u
  <2> QED BY <2>2, <2>3
<1> QED BY <1>8, <1>9
-----------------------------------------------------------------------------
(* A step of one task. *)

LEMMA EventIs ==
  ASSUME CompletionInv, NEW i \in Indices,
         NEW type \in {"start", "text", "tool", "error"}
  PROVE  /\ Voice(i) \in Voices /\ Event(i, type) \in Events
         /\ Event(i, type).type = type /\ Event(i, type).voice = Voice(i)
<1>1. i \in Nat /\ task[i] \in Tasks
  BY DEF CompletionInv, CompletionTyped
<1>2. Voice(i) \in Voices
  BY <1>1 DEF Voice, Voices, Tasks
<1>3. Nothing \in Msgs
  BY DEF Nothing, Msgs, Voices
<1> QED BY <1>2, <1>3 DEF Event, Events

LEMMA DoneIs ==
  ASSUME NEW msg \in Msgs
  PROVE  /\ DoneEvent(msg) \in Events
         /\ DoneEvent(msg).type = "done" /\ DoneEvent(msg).msg = msg
BY DEF DoneEvent, Events, Msgs

LEMMA TaskStep ==
  ASSUME CompletionInv, NEW i \in Indices, NEW t2 \in Tasks, NEW events \in Seq(Events),
         UNCHANGED <<targets, routed, cancelled, heard, stage, seen, reply>>,
         task[i].pc # "none", t2.pc # "none",
         task' = [task EXCEPT ![i] = t2],
         Send(i, events) \/ (events = <<>> /\ UNCHANGED queue),
         TaskFits(t2, Kind(i)),
         \A q \in Seq(Events), s \in Seens :
           StreamFits(task[i], q, s, Voice(i), Kind(i)) =>
             StreamFits(t2, q \o events, s, <<i, t2.posts>>, Kind(i))
  PROVE  CompletionInv'
<1> USE DEF CompletionInv
<1>1. /\ Indices = 1..Len(targets) /\ Len(targets) \in Nat
      /\ task \in [Indices -> Tasks] /\ queue \in [Indices -> Seq(Events)]
      /\ heard \in 0..Len(targets) /\ seen \in Seens
  BY DEF CompletionTyped
<1>2. i <= heard
  <2>1. i > heard => task[i].pc = "none"
    BY DEF TasksFit, NoTask
  <2> QED BY <1>1, <2>1
<1>3. /\ task' \in [Indices -> Tasks] /\ task'[i] = t2
      /\ \A j \in Indices : j # i => task'[j] = task[j]
  BY <1>1
<1>4. /\ queue' \in [Indices -> Seq(Events)]
      /\ \A j \in Indices : j # i => queue'[j] = queue[j]
      /\ i = heard => queue'[i] = queue[i] \o events
  <2>1. queue[i] \in Seq(Events)
    BY <1>1
  <2>2. queue[i] \o events \in Seq(Events) /\ queue[i] \o <<>> = queue[i]
    BY <2>1
  <2>3. CASE UNCHANGED queue /\ events = <<>>
    BY <1>1, <2>2, <2>3
  <2>4. CASE Send(i, events)
    <3>1. CASE i = heard
      <4>1. queue' = [queue EXCEPT ![i] = queue[i] \o events]
        BY <2>4, <3>1 DEF Send
      <4> QED BY <1>1, <2>2, <4>1
    <3>2. CASE i # heard
      BY <1>1, <2>4, <3>2 DEF Send
    <3> QED BY <3>1, <3>2
  <2> QED BY <2>3, <2>4
<1>5. Indices' = Indices /\ \A j \in Indices : Kind(j)' = Kind(j)
  BY DEF Indices, Kind
<1>6. CompletionTyped'
  BY <1>3, <1>4, <1>5 DEF CompletionTyped
<1>7. TasksFit'
  <2> SUFFICES ASSUME NEW j \in Indices
               PROVE  /\ TaskFits(task'[j], Kind(j))
                      /\ j > heard => task'[j] = NoTask /\ queue'[j] = <<>>
    BY <1>5 DEF TasksFit
  <2>1. CASE j = i
    BY <1>1, <1>2, <1>3, <2>1
  <2>2. CASE j # i
    BY <1>3, <1>4, <2>2 DEF TasksFit
  <2> QED BY <2>1, <2>2
<1>8. HeardFits'
  <2>1. CASE stage \in {"probe", "read"} /\ heard = i
    <3>1. StreamFits(task[i], queue[i], seen, Voice(i), Kind(i)) /\ queue[i] \in Seq(Events)
      BY <1>1, <2>1 DEF HeardFits
    <3>2. StreamFits(t2, queue[i] \o events, seen, <<i, t2.posts>>, Kind(i))
      BY <1>1, <3>1
    <3>3. Voice(heard)' = <<i, t2.posts>> /\ Kind(heard)' = Kind(i)
      BY <1>3, <1>5, <2>1 DEF Voice, Kind
    <3>4. task'[heard'] = t2 /\ queue'[heard'] = queue[i] \o events /\ seen' = seen
      BY <1>3, <1>4, <2>1
    <3> QED BY <2>1, <3>2, <3>3, <3>4 DEF HeardFits
  <2>2. CASE stage \in {"probe", "read"} /\ heard # i
    <3>1. heard \in Indices
      BY <2>2 DEF CompletionTyped
    <3>2. task'[heard'] = task[heard] /\ queue'[heard'] = queue[heard]
      BY <1>3, <1>4, <2>2, <3>1
    <3>3. Voice(heard)' = Voice(heard) /\ Kind(heard)' = Kind(heard)
      BY <3>2 DEF Voice, Kind
    <3> QED BY <2>2, <3>2, <3>3 DEF HeardFits
  <2>3. CASE stage \notin {"probe", "read"}
    BY <2>3 DEF HeardFits
  <2> QED BY <2>1, <2>2, <2>3
<1>9. SeenFits'
  BY DEF SeenFits, Kind
<1> QED BY <1>6, <1>7, <1>8, <1>9

LEMMA OverIs ==
  ASSUME CompletionInv, NEW i \in Indices, NEW pc \in {"ended", "backoff"}
  PROVE  LET o == Over(i, pc) IN
         /\ o \in Tasks /\ o.pc = pc /\ o.posts = task[i].posts /\ o.tries = task[i].tries
         /\ o.text = 0 /\ o.args = 0 /\ o.finish = "none" /\ o.shown = FALSE
<1> DEFINE a == [NoTask EXCEPT !.pc = pc]
           b == [a EXCEPT !.posts = task[i].posts]
           c == [b EXCEPT !.tries = task[i].tries]
<1>1. task[i].posts \in Nat /\ task[i].tries \in [post : Nat, stream : Nat]
  BY DEF CompletionInv, CompletionTyped, Tasks
<1>2. NoTask \in Tasks /\ NoTask.text = 0 /\ NoTask.args = 0
      /\ NoTask.finish = "none" /\ NoTask.shown = FALSE
  BY DEF NoTask, Tasks
<1>3. a \in Tasks /\ a.pc = pc /\ a.text = 0 /\ a.args = 0 /\ a.finish = "none"
      /\ a.shown = FALSE
  BY <1>2 DEF Tasks
<1> HIDE DEF a
<1>4. b \in Tasks /\ b.pc = pc /\ b.posts = task[i].posts /\ b.text = 0 /\ b.args = 0
      /\ b.finish = "none" /\ b.shown = FALSE
  BY <1>1, <1>3 DEF Tasks
<1> HIDE DEF b
<1>5. c \in Tasks /\ c.pc = pc /\ c.posts = task[i].posts /\ c.tries = task[i].tries
      /\ c.text = 0 /\ c.args = 0 /\ c.finish = "none" /\ c.shown = FALSE
  BY <1>1, <1>4 DEF Tasks
<1>6. Over(i, pc) = c
  BY DEF Over, a, b
<1> HIDE DEF c
<1> QED BY <1>5, <1>6

LEMMA RetriedIs ==
  ASSUME CompletionInv, NEW i \in Indices, NEW what \in {"post", "stream"},
         MayRetry(i, what), task[i].pc \notin {"none", "backoff"}
  PROVE  \E t2 \in Tasks :
           /\ Retried(i, what) = [task EXCEPT ![i] = t2]
           /\ t2.pc = "backoff" /\ t2.posts = task[i].posts /\ t2.text = 0 /\ ~t2.shown
           /\ TaskFits(t2, Kind(i))
<1> DEFINE o == Over(i, "backoff")
           y == task[i].tries
           x == [y EXCEPT ![what] = @ + 1]
           t2 == [o EXCEPT !.tries = x]
<1>1. task[i] \in Tasks /\ TaskFits(task[i], Kind(i))
  BY DEF CompletionInv, CompletionTyped, TasksFit
<1>2. /\ y \in [post : Nat, stream : Nat] /\ task[i].posts \in Nat
      /\ y.post \in Nat /\ y.stream \in Nat
      /\ task[i].posts = 1 + (y.post + y.stream)
  BY <1>1 DEF Tasks, TaskFits, Retries
<1>3. /\ x \in [post : Nat, stream : Nat]
      /\ x.post = y.post + (IF what = "post" THEN 1 ELSE 0)
      /\ x.stream = y.stream + (IF what = "stream" THEN 1 ELSE 0)
  BY <1>2
<1>4. x.post + x.stream = y.post + y.stream + 1
  BY <1>2, <1>3
<1>5. /\ o \in Tasks /\ o.pc = "backoff" /\ o.posts = task[i].posts
      /\ o.text = 0 /\ o.args = 0 /\ o.finish = "none" /\ o.shown = FALSE /\ o.tries = y
  BY OverIs
<1>6. IF Kind(i) = "openai" THEN x.post <= MaxRetries /\ x.stream <= MaxRetries
                            ELSE x.post + x.stream <= MaxRetries
  <2> HIDE DEF x
  <2>1. (IF Kind(i) = "openai" THEN y[what] ELSE y.post + y.stream) < MaxRetries
    BY DEF MayRetry
  <2>2. what = "post" => y[what] = y.post
    OBVIOUS
  <2>3. what = "stream" => y[what] = y.stream
    OBVIOUS
  <2>4. CASE Kind(i) = "openai"
    BY <1>1, <1>2, <1>3, <2>1, <2>2, <2>3, <2>4, CompletionAssumption DEF TaskFits
  <2>5. CASE Kind(i) # "openai"
    BY <1>2, <1>4, <2>1, <2>5, CompletionAssumption
  <2> QED BY <2>4, <2>5
<1> HIDE DEF x, y, o
<1>7. /\ t2 \in Tasks /\ t2.pc = "backoff" /\ t2.posts = task[i].posts /\ t2.tries = x
      /\ t2.text = 0 /\ t2.args = 0 /\ t2.finish = "none" /\ t2.shown = FALSE
  BY <1>3, <1>5 DEF Tasks
<1>8. Retried(i, what) = [task EXCEPT ![i] = t2]
  BY <1>5 DEF Retried, x, y, o
<1> HIDE DEF t2
<1>9. TaskFits(t2, Kind(i))
  BY <1>2, <1>4, <1>6, <1>7 DEF TaskFits, Retries
<1> QED BY <1>7, <1>8, <1>9

LEMMA PairIs ==
  ASSUME NEW S, NEW e \in S, NEW d \in S
  PROVE  Append(<<e>>, d) = <<e, d>> /\ Append(<<>>, d) = <<d>>
<1> DEFINE s == Append(<<e>>, d)
           t == <<e, d>>
<1>1. <<e>> \in Seq(S) /\ Len(<<e>>) = 1 /\ <<e>>[1] = e
  OBVIOUS
<1>2. s \in Seq(S) /\ Len(s) = 2 /\ s[1] = e /\ s[2] = d
  BY <1>1, AppendProperties
<1>3. t \in Seq(S) /\ Len(t) = 2 /\ t[1] = e /\ t[2] = d
  OBVIOUS
<1> HIDE DEF s, t
<1>4. \A k \in 1..2 : k = 1 \/ k = 2
  OBVIOUS
<1>5. s = t
  BY <1>2, <1>3, <1>4, SeqEqual
<1>6. Append(<<>>, d) = <<d>>
  OBVIOUS
<1> QED BY <1>5, <1>6 DEF s, t

\* A queue with at most one event and a last one behind it.
LEMMA BehindIs ==
  ASSUME NEW q \in Seq(Events), NEW d \in Events, NEW e \in Events
  PROVE  /\ q \o Append(<<>>, d) = Append(q, d)
         /\ q \o Append(<<e>>, d) = Append(Append(q, e), d)
         /\ q \o <<e>> = Append(q, e) /\ q \o <<>> = q
         /\ Append(<<e>>, d) \in Seq(Events) /\ Append(<<>>, d) \in Seq(Events)
         /\ <<e>> \in Seq(Events) /\ <<>> \in Seq(Events)
         /\ Append(<<e>>, d) = <<e, d>> /\ Append(<<>>, d) = <<d>>
<1>1. /\ <<e>> \in Seq(Events) /\ <<>> \in Seq(Events) /\ <<e, d>> \in Seq(Events)
      /\ <<d>> \in Seq(Events)
  OBVIOUS
<1>2. Append(<<e>>, d) = <<e, d>> /\ Append(<<>>, d) = <<d>>
  BY PairIs
<1>3. q \o <<e>> = Append(q, e) /\ q \o <<>> = q /\ q \o <<d>> = Append(q, d)
  <2>1. q \o <<>> = q
    BY ConcatEqualIffEmpty, <1>1
  <2> QED BY <2>1, AppendIs
<1>4. q \o <<e, d>> = Append(Append(q, e), d)
  <2>1. Append(q, e) \in Seq(Events) /\ Len(Append(q, e)) = Len(q) + 1 /\ Len(q) \in Nat
    OBVIOUS
  <2>2. q \o <<e, d>> \in Seq(Events) /\ Append(Append(q, e), d) \in Seq(Events)
    BY <1>1, <2>1
  <2>3. Len(q \o <<e, d>>) = Len(q) + 2 /\ Len(Append(Append(q, e), d)) = Len(q) + 2
    BY <1>1, <2>1
  <2>4. ASSUME NEW k \in 1..(Len(q) + 2)
        PROVE  (q \o <<e, d>>)[k] = Append(Append(q, e), d)[k]
    <3>1. CASE k \in 1..Len(q)
      BY <1>1, <2>1, <3>1
    <3>2. CASE k = Len(q) + 1
      BY <1>1, <2>1, <3>2
    <3>3. CASE k = Len(q) + 2
      BY <1>1, <2>1, <3>3
    <3> QED BY <2>1, <3>1, <3>2, <3>3
  <2> QED BY <2>2, <2>3, <2>4, SeqEqual
<1> QED BY <1>1, <1>2, <1>3, <1>4

\* The task ends: an error event or none, then the message.
LEMMA EndStep ==
  ASSUME CompletionInv, NEW i \in Indices, NEW first, NEW msg \in Msgs,
         UNCHANGED <<targets, routed, cancelled, heard, stage, seen, reply>>,
         task[i].pc \notin {"none", "backoff", "ended"}, task' = Ended(i),
         first = <<>> \/ first = <<Event(i, "error")>>,
         Send(i, Append(first, DoneEvent(msg))),
         msg.voice = Voice(i), MsgFits(msg, Kind(i), task[i].text)
  PROVE  CompletionInv'
<1> DEFINE d == DoneEvent(msg)
           e == Event(i, "error")
           t == task[i]
           t2 == Over(i, "ended")
<1>1. d \in Events /\ d.type = "done" /\ d.msg = msg
  BY DoneIs
<1>2. e \in Events /\ e.type = "error" /\ e.voice = Voice(i)
  BY EventIs
<1>3. t2 \in Tasks /\ t2.pc = "ended" /\ t2.posts = t.posts /\ t2.tries = t.tries
      /\ t2.text = 0 /\ t2.args = 0 /\ t2.finish = "none" /\ ~t2.shown
  BY OverIs
<1>4. t \in Tasks /\ TaskFits(t, Kind(i)) /\ Voice(i) = <<i, t2.posts>>
  BY <1>3 DEF CompletionInv, CompletionTyped, TasksFit, Voice
<1>5. TaskFits(t2, Kind(i))
  BY <1>3, <1>4 DEF TaskFits, Retries
<1>6. task' = [task EXCEPT ![i] = t2]
  BY DEF Ended
<1> HIDE DEF d, e, t, t2
<1>7. Append(first, d) \in Seq(Events)
  <2>1. <<e>> \in Seq(Events) /\ <<>> \in Seq(Events)
    BY <1>2
  <2>2. first \in Seq(Events)
    BY <2>1 DEF e
  <2> QED BY <1>1, <2>2
<1>8. ASSUME NEW q \in Seq(Events), NEW s \in Seens, StreamFits(t, q, s, Voice(i), Kind(i))
      PROVE  StreamFits(t2, q \o Append(first, d), s, <<i, t2.posts>>, Kind(i))
  <2>1. ASSUME NEW r \in Seq(Events), StreamFits(t, r, s, Voice(i), Kind(i))
        PROVE  StreamFits(t2, Append(r, d), s, Voice(i), Kind(i))
    BY <1>1, <1>3, <1>4, <2>1, FitsEnd DEF t
  <2>2. StreamFits(t, Append(q, e), s, Voice(i), Kind(i)) /\ Append(q, e) \in Seq(Events)
    <3>1. t.text = t.text + (IF e.type = "text" THEN 1 ELSE 0) /\ ~Says(e) /\ e.type # "done"
      BY <1>2, <1>4 DEF Says, Tasks
    <3> QED BY <1>2, <1>4, <1>8, <3>1, FitsAppend, AppendIs DEF t
  <2>3. q \o Append(first, d) = Append(q, d) \/ q \o Append(first, d) = Append(Append(q, e), d)
    BY <1>1, <1>2, BehindIs DEF e
  <2> QED BY <1>4, <1>8, <2>1, <2>2, <2>3
<1>9. Send(i, Append(first, d))
  BY DEF d
<1> QED BY <1>3, <1>5, <1>6, <1>7, <1>8, <1>9, TaskStep DEF t

\* The task tries again, of which nothing was shown.
LEMMA RetryStep ==
  ASSUME CompletionInv, NEW i \in Indices, NEW first, NEW what \in {"post", "stream"},
         UNCHANGED <<targets, routed, cancelled, heard, stage, seen, reply>>,
         task[i].pc \notin {"none", "backoff", "ended"}, ~task[i].shown,
         MayRetry(i, what), task' = Retried(i, what),
         first = <<>> \/ first = <<Event(i, "error")>>,
         Send(i, first) \/ (first = <<>> /\ UNCHANGED queue)
  PROVE  CompletionInv'
<1> DEFINE e == Event(i, "error")
           t == task[i]
<1>1. PICK t2 \in Tasks : /\ Retried(i, what) = [task EXCEPT ![i] = t2]
                          /\ t2.pc = "backoff" /\ t2.posts = t.posts /\ t2.text = 0
                          /\ ~t2.shown /\ TaskFits(t2, Kind(i))
  BY RetriedIs
<1>2. e \in Events /\ e.type = "error" /\ e.voice = Voice(i)
  BY EventIs
<1>3. t \in Tasks /\ t.text = 0 /\ Voice(i) = <<i, t2.posts>>
  BY <1>1 DEF CompletionInv, CompletionTyped, TasksFit, Voice, TaskFits
<1>4. first \in Seq(Events)
  <2>1. <<e>> \in Seq(Events) /\ <<>> \in Seq(Events)
    BY <1>2
  <2> QED BY <2>1 DEF e
<1> HIDE DEF e, t
<1>5. ASSUME NEW q \in Seq(Events), NEW s \in Seens, StreamFits(t, q, s, Voice(i), Kind(i))
      PROVE  StreamFits(t2, q \o first, s, <<i, t2.posts>>, Kind(i))
  <2>1. StreamFits(t2, q, s, Voice(i), Kind(i))
    BY <1>1, <1>3, <1>5, FitsMove DEF t
  <2>2. StreamFits(t2, Append(q, e), s, Voice(i), Kind(i))
    BY <1>1, <1>2, <1>3, <1>5, FitsAppend DEF t, Says
  <2>3. q \o first = q \/ q \o first = Append(q, e)
    BY <1>2, BehindIs DEF e
  <2> QED BY <1>3, <2>1, <2>2, <2>3
<1> QED BY <1>1, <1>4, <1>5, TaskStep DEF t
-----------------------------------------------------------------------------
(* The steps of a client. *)

LEMMA TaskKnown ==
  ASSUME CompletionInv, NEW i \in Indices
  PROVE  /\ task[i] \in Tasks /\ TaskFits(task[i], Kind(i)) /\ i \in Nat
         /\ task \in [Indices -> Tasks] /\ queue[i] \in Seq(Events)
         /\ task[i].text \in Nat /\ task[i].args \in Nat /\ task[i].posts \in Nat
         /\ task[i].shown \in BOOLEAN
         /\ Voice(i) = <<i, task[i].posts>> /\ Voice(i) \in Voices
BY DEF CompletionInv, CompletionTyped, TasksFit, Voice, Voices, Tasks

LEMMA FailedIs ==
  ASSUME CompletionInv, NEW i \in Indices
  PROVE  /\ Failed(i) \in Msgs /\ Failed(i).voice = Voice(i)
         /\ Failed(i).reason = "error"
BY TaskKnown DEF Failed, Nothing, Msgs

LEMMA AcceptKeeps ==
  ASSUME CompletionInv, NEW i \in Indices, Accept(i)
  PROVE  CompletionInv'
<1> DEFINE t == task[i]
           t2 == [t EXCEPT !.pc = "stream"]
           e == Event(i, "start")
<1>1. t \in Tasks /\ TaskFits(t, Kind(i)) /\ t.pc = "post" /\ Voice(i) = <<i, t.posts>>
      /\ t.text \in Nat /\ task \in [Indices -> Tasks]
  BY TaskKnown DEF Accept, Served, Client
<1>2. e \in Events /\ e.type = "start" /\ <<e>> \in Seq(Events)
  BY EventIs
<1>3. /\ t2 \in Tasks /\ t2.pc = "stream" /\ t2.posts = t.posts /\ t2.tries = t.tries
      /\ t2.text = t.text /\ t2.args = t.args /\ t2.finish = t.finish
      /\ t2.shown = t.shown
  BY <1>1 DEF Tasks
<1>4. task' = [task EXCEPT ![i] = t2]
  BY <1>1 DEF Accept
<1>5. Send(i, <<e>>)
  BY DEF Accept
<1> HIDE DEF t, t2, e
<1>6. TaskFits(t2, Kind(i))
  BY <1>1, <1>3 DEF TaskFits, Retries
<1>7. ASSUME NEW q \in Seq(Events), NEW s \in Seens, StreamFits(t, q, s, Voice(i), Kind(i))
      PROVE  StreamFits(t2, q \o <<e>>, s, <<i, t2.posts>>, Kind(i))
  <2>1. ~Says(e) /\ e.type # "done"
        /\ t2.text = t.text + (IF e.type = "text" THEN 1 ELSE 0)
    BY <1>1, <1>2, <1>3 DEF Says
  <2>2. StreamFits(t2, Append(q, e), s, Voice(i), Kind(i))
    BY <1>1, <1>2, <1>3, <1>7, <2>1, FitsAppend
  <2>3. q \o <<e>> = Append(q, e)
    BY <1>2, AppendIs
  <2> QED BY <1>1, <1>3, <2>2, <2>3
<1> QED BY <1>1, <1>2, <1>3, <1>4, <1>5, <1>6, <1>7, TaskStep
        DEF t, Accept, Served, Client

\* The task moves on in silence.
LEMMA MoveStep ==
  ASSUME CompletionInv, NEW i \in Indices, NEW t2 \in Tasks,
         UNCHANGED <<targets, routed, cancelled, heard, stage, seen, reply, queue>>,
         task[i].pc \notin {"none", "ended"}, t2.pc \notin {"none", "ended"},
         task' = [task EXCEPT ![i] = t2], TaskFits(t2, Kind(i)),
         t2.posts = task[i].posts \/ ~task[i].shown,
         task[i].shown => t2.shown, t2.text = task[i].text
  PROVE  CompletionInv'
<1>1. task[i] \in Tasks /\ Voice(i) = <<i, task[i].posts>>
  BY TaskKnown
<1>2. ASSUME NEW q \in Seq(Events), NEW s \in Seens,
             StreamFits(task[i], q, s, Voice(i), Kind(i))
      PROVE  StreamFits(t2, q \o <<>>, s, <<i, t2.posts>>, Kind(i))
  <2>1. StreamFits(t2, q, s, <<i, t2.posts>>, Kind(i))
    BY <1>1, <1>2, FitsMove
  <2>2. q \o <<>> = q /\ <<>> \in Seq(Events)
    BY ConcatEqualIffEmpty
  <2> QED BY <2>1, <2>2
<1>3. <<>> \in Seq(Events)
  OBVIOUS
<1> QED BY <1>2, <1>3, TaskStep

LEMMA RefuseKeeps ==
  ASSUME CompletionInv, NEW i \in Indices, Refuse(i)
  PROVE  CompletionInv'
<1>1. PICK again \in BOOLEAN : task' = [task EXCEPT ![i].pc = "body", ![i].again = again]
  BY DEF Refuse
<1> DEFINE t == task[i]
           a == [t EXCEPT !.pc = "body"]
           t2 == [a EXCEPT !.again = again]
<1>2. t \in Tasks /\ TaskFits(t, Kind(i)) /\ t.pc = "post" /\ task \in [Indices -> Tasks]
  BY TaskKnown DEF Refuse, Served, Client
<1>4. task' = [task EXCEPT ![i] = t2]
  BY <1>1, <1>2
<1> HIDE DEF t
<1>5. /\ a \in Tasks /\ a.pc = "body" /\ a.posts = t.posts /\ a.tries = t.tries
      /\ a.text = t.text /\ a.args = t.args /\ a.finish = t.finish /\ a.shown = t.shown
  BY <1>2 DEF Tasks
<1> HIDE DEF a
<1>6. /\ t2 \in Tasks /\ t2.pc = "body" /\ t2.posts = t.posts /\ t2.tries = t.tries
      /\ t2.text = t.text /\ t2.args = t.args /\ t2.finish = t.finish
      /\ t2.shown = t.shown
  BY <1>5 DEF Tasks
<1> HIDE DEF t2
<1>7. TaskFits(t2, Kind(i))
  BY <1>2, <1>6 DEF TaskFits, Retries
<1> QED BY <1>2, <1>4, <1>6, <1>7, MoveStep DEF t, Refuse, Served, Client

LEMMA BodyKeeps ==
  ASSUME CompletionInv, NEW i \in Indices, Body(i)
  PROVE  CompletionInv'
<1>1. task[i].pc = "body" /\ ~task[i].shown
      /\ UNCHANGED <<targets, routed, cancelled, heard, stage, seen, reply>>
  BY TaskKnown DEF Body, Client, TaskFits
<1>2. CASE task[i].again /\ MayRetry(i, "post")
  BY <1>1, <1>2, RetryStep DEF Body
<1>3. CASE ~(task[i].again /\ MayRetry(i, "post"))
  <2>1. task' = Ended(i) /\ Send(i, <<DoneEvent(Failed(i))>>)
    BY <1>3 DEF Body
  <2>2. Failed(i) \in Msgs /\ Failed(i).voice = Voice(i)
        /\ MsgFits(Failed(i), Kind(i), task[i].text)
    BY FailedIs DEF MsgFits, Good
  <2>3. Append(<<>>, DoneEvent(Failed(i))) = <<DoneEvent(Failed(i))>>
    OBVIOUS
  <2> QED BY <1>1, <2>1, <2>2, <2>3, EndStep
<1> QED BY <1>2, <1>3

LEMMA UnreachableKeeps ==
  ASSUME CompletionInv, NEW i \in Indices, Unreachable(i)
  PROVE  CompletionInv'
<1>1. task[i].pc = "post" /\ ~task[i].shown
      /\ UNCHANGED <<targets, routed, cancelled, heard, stage, seen, reply>>
  BY TaskKnown DEF Unreachable, Served, Client, TaskFits
<1>2. CASE MayRetry(i, "post")
  BY <1>1, <1>2, RetryStep DEF Unreachable
<1>3. CASE ~MayRetry(i, "post") /\ Kind(i) = "openai"
  <2> DEFINE m == [Failed(i) EXCEPT !.err = FALSE]
             e == Event(i, "error")
  <2>1. task' = Ended(i) /\ Send(i, <<e, DoneEvent(m)>>)
    BY <1>3 DEF Unreachable
  <2>2. m \in Msgs /\ m.voice = Voice(i) /\ m.reason = "error"
    BY FailedIs DEF Msgs
  <2> HIDE DEF m
  <2>3. MsgFits(m, Kind(i), task[i].text)
    BY <2>2 DEF MsgFits, Good
  <2>4. Append(<<e>>, DoneEvent(m)) = <<e, DoneEvent(m)>>
    <3>1. e \in Events /\ DoneEvent(m) \in Events
      BY <2>2, EventIs, DoneIs
    <3> HIDE DEF e
    <3> QED BY <3>1, PairIs
  <2> HIDE DEF e
  <2>5. Send(i, Append(<<e>>, DoneEvent(m)))
    BY <2>1, <2>4
  <2> QED BY <1>1, <2>1, <2>2, <2>3, <2>5, EndStep DEF e
<1>4. CASE ~MayRetry(i, "post") /\ Kind(i) # "openai"
  <2>1. task' = Ended(i) /\ Send(i, <<DoneEvent(Failed(i))>>)
    BY <1>4 DEF Unreachable
  <2>2. Failed(i) \in Msgs /\ Failed(i).voice = Voice(i)
        /\ MsgFits(Failed(i), Kind(i), task[i].text)
    BY FailedIs DEF MsgFits, Good
  <2>3. Append(<<>>, DoneEvent(Failed(i))) = <<DoneEvent(Failed(i))>>
    OBVIOUS
  <2> QED BY <1>1, <2>1, <2>2, <2>3, EndStep
<1> QED BY <1>2, <1>3, <1>4
LEMMA AbortPostKeeps ==
  ASSUME CompletionInv, NEW i \in Indices, AbortPost(i)
  PROVE  CompletionInv'
<1> DEFINE m == [Nothing EXCEPT !.reason = "aborted", !.voice = Voice(i)]
<1>1. task[i].pc = "post" /\ task' = Ended(i) /\ Send(i, <<DoneEvent(m)>>)
      /\ UNCHANGED <<targets, routed, cancelled, heard, stage, seen, reply>>
  BY DEF AbortPost, Client
<1>2. m \in Msgs /\ m.voice = Voice(i) /\ m.reason = "aborted"
  BY TaskKnown DEF Nothing, Msgs
<1> HIDE DEF m
<1>3. MsgFits(m, Kind(i), task[i].text)
  BY <1>2 DEF MsgFits, Good
<1>4. Append(<<>>, DoneEvent(m)) = <<DoneEvent(m)>>
  OBVIOUS
<1> QED BY <1>1, <1>2, <1>3, <1>4, EndStep

LEMMA RepostKeeps ==
  ASSUME CompletionInv, NEW i \in Indices, Repost(i)
  PROVE  CompletionInv'
<1> DEFINE t == task[i]
           a == [t EXCEPT !.pc = "post"]
           t2 == [a EXCEPT !.posts = @ + 1]
<1>1. t \in Tasks /\ TaskFits(t, Kind(i)) /\ t.pc = "backoff" /\ ~t.shown
      /\ task \in [Indices -> Tasks] /\ t.posts \in Nat
  BY TaskKnown DEF Repost, Client, TaskFits
<1>2. task' = [task EXCEPT ![i] = t2]
  BY <1>1 DEF Repost
<1> HIDE DEF t
<1>3. /\ a \in Tasks /\ a.pc = "post" /\ a.posts = t.posts /\ a.tries = t.tries
      /\ a.text = t.text /\ a.args = t.args /\ a.finish = t.finish /\ a.shown = t.shown
  BY <1>1 DEF Tasks
<1> HIDE DEF a
<1>4. /\ t2 \in Tasks /\ t2.pc = "post" /\ t2.posts = t.posts + 1 /\ t2.tries = t.tries
      /\ t2.text = t.text /\ t2.args = t.args /\ t2.finish = t.finish
      /\ t2.shown = t.shown
  BY <1>1, <1>3 DEF Tasks
<1> HIDE DEF t2
<1>5. TaskFits(t2, Kind(i))
  <2>1. t.tries.post \in Nat /\ t.tries.stream \in Nat /\ t.posts = Retries(t)
        /\ Retries(t2) = Retries(t) /\ Retries(t) \in Nat
    BY <1>1, <1>4 DEF TaskFits, Retries, Tasks
  <2>2. t2.posts = 1 + Retries(t2)
    BY <1>4, <2>1
  <2> QED BY <1>1, <1>4, <2>1, <2>2 DEF TaskFits
<1> QED BY <1>1, <1>2, <1>4, <1>5, MoveStep DEF t, Repost, Client

LEMMA TextKeeps ==
  ASSUME CompletionInv, NEW i \in Indices, Text(i)
  PROVE  CompletionInv'
<1> DEFINE t == task[i]
           a == [t EXCEPT !.text = @ + 1]
           t2 == [a EXCEPT !.shown = TRUE]
           e == Event(i, "text")
<1>1. t \in Tasks /\ TaskFits(t, Kind(i)) /\ t.pc = "stream" /\ Voice(i) = <<i, t.posts>>
      /\ t.text \in Nat /\ task \in [Indices -> Tasks] /\ t.finish = "none"
  BY TaskKnown DEF Text, Served, Client
<1>2. e \in Events /\ e.type = "text" /\ e.voice = Voice(i) /\ <<e>> \in Seq(Events)
  BY EventIs
<1>3. task' = [task EXCEPT ![i] = t2]
  BY <1>1 DEF Text
<1>4. Send(i, <<e>>)
  BY DEF Text
<1> HIDE DEF t, e
<1>5. /\ a \in Tasks /\ a.pc = t.pc /\ a.posts = t.posts /\ a.tries = t.tries
      /\ a.text = t.text + 1 /\ a.args = t.args /\ a.finish = t.finish
  BY <1>1 DEF Tasks
<1> HIDE DEF a
<1>6. /\ t2 \in Tasks /\ t2.pc = t.pc /\ t2.posts = t.posts /\ t2.tries = t.tries
      /\ t2.text = t.text + 1 /\ t2.args = t.args /\ t2.finish = t.finish
      /\ t2.shown
  BY <1>5 DEF Tasks
<1> HIDE DEF t2
<1>7. TaskFits(t2, Kind(i))
  BY <1>1, <1>6 DEF TaskFits, Retries
<1>8. ASSUME NEW q \in Seq(Events), NEW s \in Seens, StreamFits(t, q, s, Voice(i), Kind(i))
      PROVE  StreamFits(t2, q \o <<e>>, s, <<i, t2.posts>>, Kind(i))
  <2>1. StreamFits(t2, Append(q, e), s, Voice(i), Kind(i))
    BY <1>1, <1>2, <1>6, <1>8, FitsAppend
  <2>2. q \o <<e>> = Append(q, e)
    BY <1>2, AppendIs
  <2> QED BY <1>1, <1>6, <2>1, <2>2
<1> QED BY <1>1, <1>2, <1>3, <1>4, <1>6, <1>7, <1>8, TaskStep
        DEF t, Text, Served, Client

LEMMA PieceKeeps ==
  ASSUME CompletionInv, NEW i \in Indices, Piece(i)
  PROVE  CompletionInv'
<1> DEFINE silent == Kind(i) = "anthropic" /\ task[i].args = 0
           t == task[i]
           a == [t EXCEPT !.args = @ + 1]
           t2 == [a EXCEPT !.shown = @ \/ ~silent]
           e == Event(i, "tool")
<1>1. t \in Tasks /\ TaskFits(t, Kind(i)) /\ t.pc = "stream" /\ Voice(i) = <<i, t.posts>>
      /\ t.text \in Nat /\ task \in [Indices -> Tasks] /\ t.finish = "none"
      /\ t.args \in Nat /\ t.shown \in BOOLEAN
  BY TaskKnown DEF Piece, Served, Client
<1>2. e \in Events /\ e.type = "tool" /\ e.voice = Voice(i) /\ <<e>> \in Seq(Events)
  BY EventIs
<1>3. task' = [task EXCEPT ![i] = t2]
  BY <1>1 DEF Piece
<1>4. IF silent THEN UNCHANGED queue ELSE Send(i, <<e>>)
  BY DEF Piece
<1>u. UNCHANGED <<targets, routed, cancelled, heard, stage, seen, reply>>
  BY DEF Piece, Served, Client
<1> HIDE DEF t, e, silent
<1>5. /\ a \in Tasks /\ a.pc = t.pc /\ a.posts = t.posts /\ a.tries = t.tries
      /\ a.text = t.text /\ a.args = t.args + 1 /\ a.finish = t.finish
      /\ a.shown = t.shown
  BY <1>1 DEF Tasks
<1> HIDE DEF a
<1>6. /\ t2 \in Tasks /\ t2.pc = t.pc /\ t2.posts = t.posts /\ t2.tries = t.tries
      /\ t2.text = t.text /\ t2.finish = t.finish
      /\ t2.shown = (t.shown \/ ~silent)
  BY <1>1, <1>5 DEF Tasks
<1> HIDE DEF t2
<1>7. TaskFits(t2, Kind(i))
  BY <1>1, <1>6 DEF TaskFits, Retries
<1>8. CASE silent
  BY <1>1, <1>3, <1>4, <1>6, <1>7, <1>8, <1>u, MoveStep DEF t
<1>9. CASE ~silent
  <2>1. ASSUME NEW q \in Seq(Events), NEW s \in Seens,
               StreamFits(t, q, s, Voice(i), Kind(i))
        PROVE  StreamFits(t2, q \o <<e>>, s, <<i, t2.posts>>, Kind(i))
    <3>0. t2.shown = TRUE
      BY <1>6, <1>9
    <3>1. t2.shown /\ t2.text = t.text + (IF e.type = "text" THEN 1 ELSE 0)
      <4>1. t2.text = t.text + 0
        BY <1>1, <1>6
      <4> QED BY <1>2, <3>0, <4>1
    <3>2. StreamFits(t2, Append(q, e), s, Voice(i), Kind(i))
      BY <1>1, <1>2, <1>6, <2>1, <3>1, FitsAppend
    <3>3. q \o <<e>> = Append(q, e)
      BY <1>2, AppendIs
    <3> QED BY <1>1, <1>6, <3>2, <3>3
  <2>2. Send(i, <<e>>)
    BY <1>4, <1>9
  <2> QED BY <1>1, <1>2, <1>3, <1>6, <1>7, <1>u, <2>1, <2>2, TaskStep DEF t
<1> QED BY <1>8, <1>9

LEMMA FinishKeeps ==
  ASSUME CompletionInv, NEW i \in Indices, Finish(i)
  PROVE  CompletionInv'
<1> DEFINE t == task[i]
<1>1. PICK r \in {"length", "odd", "stop", "tools"} :
         /\ task' = [task EXCEPT ![i].finish = r]
         /\ r = "stop" => t.args = 0
         /\ r = "tools" => t.args = CallPieces
  BY DEF Finish, Whole
<1> DEFINE t2 == [t EXCEPT !.finish = r]
<1>2. t \in Tasks /\ TaskFits(t, Kind(i)) /\ t.pc = "stream"
      /\ task \in [Indices -> Tasks]
  BY TaskKnown DEF Finish, Served, Client
<1>3. task' = [task EXCEPT ![i] = t2]
  BY <1>1, <1>2
<1> HIDE DEF t
<1>4. /\ t2 \in Tasks /\ t2.pc = t.pc /\ t2.posts = t.posts /\ t2.tries = t.tries
      /\ t2.text = t.text /\ t2.args = t.args /\ t2.finish = r /\ t2.shown = t.shown
  BY <1>2 DEF Tasks
<1> HIDE DEF t2
<1>5. TaskFits(t2, Kind(i))
  BY <1>1, <1>2, <1>4 DEF TaskFits, Retries
<1> QED BY <1>2, <1>3, <1>4, <1>5, MoveStep DEF t, Finish, Served, Client

LEMMA ConcludeKeeps ==
  ASSUME CompletionInv, NEW i \in Indices, NEW first, NEW msg \in Msgs,
         UNCHANGED <<targets, routed, cancelled, heard, stage, seen, reply>>,
         task[i].pc = "stream", Conclude(i, first, msg),
         first = <<>> \/ first = <<Event(i, "error")>>,
         msg.voice = Voice(i), MsgFits(msg, Kind(i), task[i].text)
  PROVE  CompletionInv'
<1>1. CASE ~task[i].shown /\ MayRetry(i, "stream")
           /\ task' = Retried(i, "stream") /\ Send(i, first)
  BY <1>1, RetryStep
<1>2. CASE task' = Ended(i) /\ Send(i, Append(first, DoneEvent(msg)))
  BY <1>2, EndStep
<1> QED BY <1>1, <1>2 DEF Conclude

LEMMA BreakKeeps ==
  ASSUME CompletionInv, NEW i \in Indices, Break(i)
  PROVE  CompletionInv'
<1>1. Failed(i) \in Msgs /\ Failed(i).voice = Voice(i)
      /\ MsgFits(Failed(i), Kind(i), task[i].text)
  BY FailedIs DEF MsgFits, Good
<1> QED BY <1>1, ConcludeKeeps DEF Break, Served, Client

LEMMA CloseKeeps ==
  ASSUME CompletionInv, NEW i \in Indices, NEW terminated \in BOOLEAN,
         Close(i, terminated), terminated => task[i].finish # "none" \/ Whole(i)
  PROVE  CompletionInv'
<1> DEFINE t == task[i]
<1>1. /\ t \in Tasks /\ TaskFits(t, Kind(i)) /\ t.pc = "stream"
      /\ t.text \in Nat /\ t.args \in Nat /\ Voice(i) \in Voices
      /\ t.finish \in {"none", "stop", "tools", "length", "odd"}
      /\ UNCHANGED <<targets, routed, cancelled, heard, stage, seen, reply>>
  BY TaskKnown DEF Close, Served, Client, Tasks
<1>2. ASSUME NEW reason \in {"stop", "tools", "length", "odd"}, NEW cut \in BOOLEAN,
             Conclude(i, <<>>, Assembled(i, reason, cut)),
             cut => Kind(i) = "openai",
             t.args \in {0, CallPieces} \/ cut \/ reason \in {"length", "odd"}
      PROVE  CompletionInv'
  <2> DEFINE m == Assembled(i, reason, cut)
  <2>1. /\ m \in Msgs /\ m.voice = Voice(i) /\ m.text = t.text /\ m.args = t.args
        /\ m.cut = cut /\ m.reason = (IF reason = "odd" THEN "error" ELSE reason)
    BY <1>1 DEF Assembled, Msgs
  <2> HIDE DEF m
  <2>2. MsgFits(m, Kind(i), t.text)
    BY <1>2, <2>1 DEF MsgFits, Good
  <2> QED BY <1>1, <1>2, <2>1, <2>2, ConcludeKeeps DEF m
<1>3. CASE t.finish # "none"
  <2>1. Conclude(i, <<>>, Assembled(i, t.finish, FALSE))
    BY <1>3 DEF Close
  <2>2. t.args \in {0, CallPieces} \/ t.finish \in {"length", "odd"}
    BY <1>1, <1>3 DEF TaskFits
  <2> QED BY <1>1, <1>2, <1>3, <2>1, <2>2
<1>4. CASE t.finish = "none" /\ Kind(i) = "openai" /\ t.text + t.args > 0
  <2>1. Conclude(i, <<>>,
           Assembled(i, IF t.args > 0 THEN "tools" ELSE "stop", ~terminated))
    BY <1>4 DEF Close
  <2>2. terminated => t.args \in {0, CallPieces}
    BY <1>4 DEF Whole
  <2> QED BY <1>2, <1>4, <2>1, <2>2
<1>5. CASE t.finish = "none" /\ Kind(i) = "anthropic" /\ terminated
  <2>1. Conclude(i, <<>>, Assembled(i, "stop", FALSE))
    BY <1>5 DEF Close
  <2> QED BY <1>2, <1>5, <2>1 DEF Whole
<1>6. CASE Conclude(i, <<Event(i, "error")>>, Failed(i))
  <2>1. Failed(i) \in Msgs /\ Failed(i).voice = Voice(i)
        /\ MsgFits(Failed(i), Kind(i), t.text)
    BY FailedIs DEF MsgFits, Good
  <2> QED BY <1>1, <1>6, <2>1, ConcludeKeeps
<1> QED BY <1>3, <1>4, <1>5, <1>6 DEF Close

LEMMA AbortStreamKeeps ==
  ASSUME CompletionInv, NEW i \in Indices, AbortStream(i)
  PROVE  CompletionInv'
<1> DEFINE n == IF Kind(i) = "openai" THEN 0 ELSE task[i].text
           a == [Nothing EXCEPT !.reason = "aborted"]
           b == [a EXCEPT !.voice = Voice(i)]
           m == [b EXCEPT !.text = n]
<1>1. task[i].text \in Nat /\ Voice(i) \in Voices /\ n \in Nat
  BY TaskKnown
<1>2. Conclude(i, <<>>, m) /\ task[i].pc = "stream"
      /\ UNCHANGED <<targets, routed, cancelled, heard, stage, seen, reply>>
  BY DEF AbortStream, Client
<1> HIDE DEF n
<1>3. a \in Msgs /\ a.reason = "aborted"
  BY DEF Nothing, Msgs, Voices
<1> HIDE DEF a
<1>4. b \in Msgs /\ b.reason = "aborted" /\ b.voice = Voice(i)
  BY <1>1, <1>3 DEF Msgs
<1> HIDE DEF b
<1>5. m \in Msgs /\ m.reason = "aborted" /\ m.voice = Voice(i)
  BY <1>1, <1>4 DEF Msgs
<1> HIDE DEF m
<1>6. MsgFits(m, Kind(i), task[i].text)
  BY <1>5 DEF MsgFits, Good
<1> QED BY <1>2, <1>5, <1>6, ConcludeKeeps
-----------------------------------------------------------------------------
(* The steps of the router and of the reader. *)

LEMMA ReaderKnown ==
  ASSUME CompletionInv
  PROVE  /\ Indices = 1..Len(targets) /\ Len(targets) \in Nat
         /\ heard \in 0..Len(targets)
         /\ task \in [Indices -> Tasks] /\ queue \in [Indices -> Seq(Events)]
         /\ seen \in Seens /\ seen.msg \in Msgs
         /\ stage \in {"pick", "probe"} => seen = Fresh
         /\ stage \in {"probe", "read"} =>
              /\ heard \in Indices /\ queue[heard] \in Seq(Events)
              /\ task[heard] \in Tasks /\ task[heard].pc # "none"
              /\ StreamFits(task[heard], queue[heard], seen, Voice(heard), Kind(heard))
BY DEF CompletionInv, CompletionTyped, HeardFits, Seens

\* The reader is between two targets, or at the end of what it reads.
LEMMA VerdictKeeps ==
  ASSUME CompletionInv, NEW msg \in Msgs, NEW error \in BOOLEAN,
         Reader("pick"), Verdict(msg, error), msg.reason \notin Good
  PROVE  CompletionInv'
<1>1. seen = Fresh
  BY ReaderKnown DEF Reader
<1> DEFINE a == [Fresh EXCEPT !.error = error]
           b == [a EXCEPT !.dones = @ + 1]
           c == [b EXCEPT !.msg = msg]
<1>2. seen' = c
  BY <1>1 DEF Verdict
<1>a. a \in Seens /\ a.voices = {} /\ a.text = 0 /\ a.dones = 0
  <2>1. Nothing \in Msgs
    BY DEF Nothing, Msgs, Voices
  <2> QED BY <2>1 DEF Fresh, Seens
<1> HIDE DEF a
<1>b. b \in Seens /\ b.voices = {} /\ b.text = 0 /\ b.dones = 1
  BY <1>a DEF Seens
<1> HIDE DEF b
<1>3. seen' \in Seens /\ seen'.dones = 1 /\ seen'.voices = {} /\ seen'.msg = msg
  BY <1>2, <1>b DEF Seens
<1> HIDE DEF c
<1>4. /\ stage' = "end"
      /\ UNCHANGED <<targets, routed, cancelled, task, queue, heard, reply>>
  BY DEF Reader, Verdict
<1>5. CompletionTyped'
  BY <1>3, <1>4 DEF CompletionInv, CompletionTyped, Indices
<1>6. TasksFit'
  BY <1>4 DEF CompletionInv, TasksFit, Indices, Kind
<1>7. HeardFits' /\ SeenFits'
  BY <1>3, <1>4 DEF HeardFits, SeenFits, MsgFits
<1> QED BY <1>5, <1>6, <1>7 DEF CompletionInv

LEMMA AskKeeps ==
  ASSUME CompletionInv, Reader("pick"), heard < Len(targets), heard' = heard + 1,
         stage' \in {"probe", "read"},
         task' = [task EXCEPT ![heard'].pc = "post", ![heard'].posts = 1],
         UNCHANGED <<queue, seen, reply>>
  PROVE  CompletionInv'
<1> DEFINE h == heard + 1
           a == [NoTask EXCEPT !.pc = "post"]
           t2 == [a EXCEPT !.posts = 1]
<1>1. /\ Indices = 1..Len(targets) /\ Len(targets) \in Nat
      /\ heard \in 0..Len(targets) /\ h \in Indices /\ h > heard
      /\ task \in [Indices -> Tasks] /\ queue \in [Indices -> Seq(Events)]
      /\ seen = Fresh
  BY ReaderKnown DEF Reader
<1>2. task[h] = NoTask /\ queue[h] = <<>>
  BY <1>1 DEF CompletionInv, TasksFit
<1>3. task' = [task EXCEPT ![h] = t2]
  BY <1>1, <1>2
<1>4. a \in Tasks /\ a.pc = "post" /\ a.text = 0 /\ a.args = 0 /\ a.finish = "none"
      /\ a.shown = FALSE /\ a.tries = [post |-> 0, stream |-> 0]
  BY DEF NoTask, Tasks
<1> HIDE DEF a
<1>5. t2 \in Tasks /\ t2.pc = "post" /\ t2.posts = 1 /\ t2.text = 0 /\ t2.args = 0
      /\ t2.finish = "none" /\ t2.shown = FALSE
      /\ t2.tries = [post |-> 0, stream |-> 0]
  BY <1>4 DEF Tasks
<1> HIDE DEF t2, h
<1>6. /\ task' \in [Indices -> Tasks] /\ task'[h] = t2
      /\ \A j \in Indices : j # h => task'[j] = task[j]
  BY <1>1, <1>3, <1>5
<1>7. heard' = h /\ UNCHANGED <<targets, routed, cancelled, queue, seen, reply>>
  BY DEF h, Reader
<1>8. Indices' = Indices /\ \A j \in Indices : Kind(j)' = Kind(j)
  BY <1>7 DEF Indices, Kind
<1>9. TaskFits(t2, Kind(h))
  BY <1>5, CompletionAssumption DEF TaskFits, Retries
<1>10. CompletionTyped'
  BY <1>1, <1>6, <1>7, <1>8 DEF CompletionInv, CompletionTyped
<1>11. TasksFit'
  <2> SUFFICES ASSUME NEW j \in Indices
               PROVE  /\ TaskFits(task'[j], Kind(j))
                      /\ j > h => task'[j] = NoTask /\ queue'[j] = <<>>
    BY <1>7, <1>8 DEF TasksFit
  <2>1. CASE j = h
    <3>1. ~(j > h)
      BY <1>1, <2>1
    <3>2. TaskFits(task'[j], Kind(j))
      BY <1>6, <1>9, <2>1
    <3> QED BY <3>1, <3>2
  <2>2. CASE j # h
    <3>1. j > h => j > heard
      BY <1>1 DEF h
    <3> QED BY <1>6, <1>7, <2>2, <3>1 DEF CompletionInv, TasksFit
  <2> QED BY <2>1, <2>2
<1>12. StreamFits(t2, <<>>, Fresh, <<h, 1>>, Kind(h))
  <2>1. <<>> \in Seq(Events) /\ Len(<<>>) = 0 /\ 1..0 = {}
    OBVIOUS
  <2>2. TextsIn(<<>>) = 0
    BY <2>1, TextsNone
  <2>3. Shown(<<>>, Fresh) = 0 /\ ~Speaks(<<>>, Fresh)
    BY <2>1, <2>2 DEF Shown, Speaks, Fresh
  <2> QED BY <1>5, <2>1, <2>3 DEF StreamFits, Fresh
<1>13. HeardFits'
  <2>1. Voice(heard)' = <<h, 1>> /\ Kind(heard)' = Kind(h)
    BY <1>5, <1>6, <1>7 DEF Voice, Kind
  <2>2. task'[heard'] = t2 /\ queue'[heard'] = <<>> /\ seen' = Fresh
    BY <1>1, <1>2, <1>6, <1>7
  <2> QED BY <1>5, <1>12, <2>1, <2>2 DEF HeardFits
<1>14. SeenFits'
  BY DEF SeenFits
<1> QED BY <1>10, <1>11, <1>13, <1>14 DEF CompletionInv

LEMMA PickKeeps ==
  ASSUME CompletionInv, Pick
  PROVE  CompletionInv'
<1>1. CASE heard = Len(targets)
  <2> DEFINE a == [Nothing EXCEPT !.reason = "error"]
             m == [a EXCEPT !.err = TRUE]
  <2>1. Verdict(m, TRUE)
    BY <1>1 DEF Pick, Verdict
  <2>2. m \in Msgs /\ m.reason = "error"
    <3>1. a \in Msgs /\ a.reason = "error"
      BY DEF Nothing, Msgs, Voices
    <3> HIDE DEF a
    <3> QED BY <3>1 DEF Msgs
  <2> HIDE DEF m
  <2> QED BY <2>1, <2>2, VerdictKeeps DEF Pick, Good
<1>2. CASE heard < Len(targets) /\ routed /\ cancelled
  <2> DEFINE m == [Nothing EXCEPT !.reason = "aborted"]
  <2>1. Verdict(m, FALSE)
    <3>1. heard # Len(targets)
      BY <1>2, ReaderKnown
    <3> QED BY <1>2, <3>1 DEF Pick, Verdict
  <2>2. m \in Msgs /\ m.reason = "aborted"
    BY DEF Nothing, Msgs, Voices
  <2> HIDE DEF m
  <2> QED BY <2>1, <2>2, VerdictKeeps DEF Pick, Good
<1>3. CASE heard # Len(targets) /\ ~(heard < Len(targets) /\ routed /\ cancelled)
  <2>1. heard < Len(targets)
    BY <1>3, ReaderKnown
  <2>2. /\ heard' = heard + 1
        /\ stage' = IF routed THEN "probe" ELSE "read"
        /\ task' = [task EXCEPT ![heard'].pc = "post", ![heard'].posts = 1]
        /\ UNCHANGED <<queue, seen, reply>>
    BY <1>3 DEF Pick
  <2>3. stage' \in {"probe", "read"}
    BY <2>2
  <2> QED BY <2>1, <2>2, <2>3, AskKeeps DEF Pick
<1> QED BY <1>1, <1>2, <1>3

\* The reader takes the event at the head of the queue.
LEMMA TakeKeeps ==
  ASSUME CompletionInv, stage \in {"probe", "read"}, queue[heard] # <<>>,
         Take(Head(queue[heard])), queue' = [queue EXCEPT ![heard] = Tail(@)],
         stage' = "read" \/ (/\ stage = "probe" /\ stage' = "probe"
                             /\ Head(queue[heard]).type = "start"),
         UNCHANGED <<targets, routed, cancelled, task, heard, reply>>
  PROVE  CompletionInv'
<1> DEFINE q == queue[heard]
           e == Head(q)
<1>1. /\ Indices = 1..Len(targets) /\ Len(targets) \in Nat
      /\ heard \in 0..Len(targets) /\ heard \in Indices
      /\ queue \in [Indices -> Seq(Events)] /\ q \in Seq(Events)
      /\ task[heard] \in Tasks /\ task[heard].pc # "none" /\ seen \in Seens
      /\ StreamFits(task[heard], q, seen, Voice(heard), Kind(heard))
  BY ReaderKnown
<1>2. e \in Events /\ Tail(q) \in Seq(Events)
  BY <1>1, TailIs
<1>3. seen' = Taken(seen, e)
  BY DEF Take, Taken
<1>4. seen' \in Seens /\ (e.type = "start" => seen' = seen)
  BY <1>1, <1>2, <1>3, TakenIs
<1>5. StreamFits(task[heard], Tail(q), seen', Voice(heard), Kind(heard))
  BY <1>1, <1>3, FitsTake
<1>6. /\ queue' \in [Indices -> Seq(Events)] /\ queue'[heard] = Tail(q)
      /\ \A j \in Indices : j # heard => queue'[j] = queue[j]
  BY <1>1, <1>2
<1> HIDE DEF q, e
<1>7. /\ Indices' = Indices /\ \A j \in Indices : Kind(j)' = Kind(j)
      /\ Voice(heard)' = Voice(heard) /\ Kind(heard)' = Kind(heard)
  BY DEF Indices, Kind, Voice
<1>8. CompletionTyped'
  BY <1>1, <1>4, <1>6, <1>7 DEF CompletionInv, CompletionTyped
<1>9. TasksFit'
  BY <1>1, <1>6, <1>7 DEF CompletionInv, TasksFit
<1>10. HeardFits'
  <2>1. stage' = "probe" => seen' = Fresh
    BY <1>4, ReaderKnown DEF e, q
  <2> QED BY <1>1, <1>5, <1>6, <1>7, <2>1 DEF HeardFits
<1>11. SeenFits'
  BY DEF SeenFits
<1> QED BY <1>8, <1>9, <1>10, <1>11 DEF CompletionInv

LEMMA ProbeKeeps ==
  ASSUME CompletionInv, Probe
  PROVE  CompletionInv'
<1>1. /\ stage = "probe" /\ queue[heard] # <<>>
      /\ UNCHANGED <<targets, routed, cancelled, task, heard, reply>>
  BY DEF Probe, Reader
<1>2. CASE ProbeFails(Head(queue[heard]))
  <2>1. stage' = "pick" /\ queue' = [queue EXCEPT ![heard] = <<>>] /\ UNCHANGED seen
    BY <1>2 DEF Probe
  <2>2. heard \in Indices /\ queue \in [Indices -> Seq(Events)] /\ seen = Fresh
        /\ Indices = 1..Len(targets) /\ Len(targets) \in Nat
    BY <1>1, ReaderKnown
  <2>3. /\ queue' \in [Indices -> Seq(Events)]
        /\ \A j \in Indices : j # heard => queue'[j] = queue[j]
    BY <2>1, <2>2
  <2>4. Indices' = Indices /\ \A j \in Indices : Kind(j)' = Kind(j)
    BY <1>1 DEF Indices, Kind
  <2>5. CompletionTyped'
    BY <1>1, <2>1, <2>3, <2>4 DEF CompletionInv, CompletionTyped
  <2>6. TasksFit'
    BY <1>1, <2>2, <2>3, <2>4 DEF CompletionInv, TasksFit
  <2>7. HeardFits' /\ SeenFits'
    BY <2>1, <2>2 DEF HeardFits, SeenFits
  <2> QED BY <2>5, <2>6, <2>7 DEF CompletionInv
<1>3. CASE ~ProbeFails(Head(queue[heard]))
  BY <1>1, <1>3, TakeKeeps DEF Probe
<1> QED BY <1>2, <1>3

LEMMA ReadKeeps ==
  ASSUME CompletionInv, Read
  PROVE  CompletionInv'
BY TakeKeeps DEF Read, Reader

LEMMA DrainedKeeps ==
  ASSUME CompletionInv, Drained
  PROVE  CompletionInv'
<1>1. /\ stage = "read" /\ queue[heard] = <<>> /\ task[heard].pc = "ended"
      /\ stage' = "end"
      /\ UNCHANGED <<targets, routed, cancelled, task, queue, heard, seen, reply>>
  BY DEF Drained, Reader
<1>2. /\ StreamFits(task[heard], <<>>, seen, Voice(heard), Kind(heard))
      /\ seen \in Seens
  BY <1>1, ReaderKnown
<1>3. seen.dones = 1 /\ seen.voices \subseteq {Voice(heard)}
      /\ seen.msg.voice = Voice(heard)
      /\ MsgFits(seen.msg, Kind(heard), Shown(<<>>, seen))
  BY <1>1, <1>2 DEF StreamFits, IsLast
<1>4. Shown(<<>>, seen) = seen.text
  <2>1. <<>> \in Seq(Events) /\ \A k \in 1..Len(<<>>) : FALSE
    OBVIOUS
  <2>2. TextsIn(<<>>) = 0
    BY <2>1, TextsNone
  <2> QED BY <1>2, <2>2 DEF Shown, Seens
<1>5. CompletionTyped'
  BY <1>1 DEF CompletionInv, CompletionTyped, Indices
<1>6. TasksFit'
  BY <1>1 DEF CompletionInv, TasksFit, Indices, Kind
<1>7. HeardFits' /\ SeenFits'
  BY <1>1, <1>3, <1>4 DEF HeardFits, SeenFits, Kind
<1> QED BY <1>5, <1>6, <1>7 DEF CompletionInv

LEMMA ReturnKeeps ==
  ASSUME CompletionInv, Return
  PROVE  CompletionInv'
<1> DEFINE m == seen.msg
           x == m.err \/ seen.error
           y == IF seen.error /\ m.reason \in {"none", "stop"} THEN "error" ELSE m.reason
           a == [m EXCEPT !.err = x]
           b == [a EXCEPT !.reason = y]
<1>1. /\ stage = "end" /\ stage' = "done"
      /\ UNCHANGED <<targets, routed, cancelled, task, queue, heard, seen>>
  BY DEF Return, Reader
<1>2. y \in {"none", "stop", "tools", "length", "error", "aborted"}
      /\ (y = m.reason \/ y = "error") /\ x \in BOOLEAN /\ m \in Msgs
  BY ReaderKnown DEF Msgs, Seens
<1>3. reply' = b
  BY <1>2 DEF Return, Msgs
<1> HIDE DEF m, x, y
<1>5. a \in Msgs /\ a.voice = m.voice /\ a.text = m.text /\ a.args = m.args
      /\ a.cut = m.cut
  BY <1>2 DEF Msgs
<1> HIDE DEF a
<1>6. b \in Msgs /\ b.voice = m.voice /\ b.text = m.text /\ b.args = m.args
      /\ b.cut = m.cut /\ b.reason = y
  BY <1>2, <1>5 DEF Msgs
<1> HIDE DEF b
<1>7. CompletionTyped'
  BY <1>1, <1>3, <1>6 DEF CompletionInv, CompletionTyped, Indices
<1>8. TasksFit'
  BY <1>1 DEF CompletionInv, TasksFit, Indices, Kind
<1>9. HeardFits'
  BY <1>1 DEF HeardFits
<1>10. SeenFits'
  BY <1>1, <1>2, <1>3, <1>6 DEF CompletionInv, SeenFits, Kind, m
<1> QED BY <1>7, <1>8, <1>9, <1>10 DEF CompletionInv

LEMMA CancelKeeps ==
  ASSUME CompletionInv, Cancel \/ UNCHANGED completionVars
  PROVE  CompletionInv'
<1>1. /\ cancelled' \in BOOLEAN
      /\ UNCHANGED <<targets, routed, task, queue, heard, stage, seen, reply>>
  BY DEF CompletionInv, CompletionTyped, Cancel, completionVars
<1>2. CompletionTyped' /\ TasksFit' /\ HeardFits' /\ SeenFits'
  BY <1>1 DEF CompletionInv, CompletionTyped, TasksFit, HeardFits, SeenFits,
              Indices, Kind, Voice
<1> QED BY <1>2 DEF CompletionInv
-----------------------------------------------------------------------------
(* The specification. *)

\* What is kept of a sequence is a sequence.
LEMMA SelectedIs ==
  ASSUME NEW S, NEW s \in Seq(S), NEW keep \in SUBSET DOMAIN s
  PROVE  LET f == Selected(s, keep) IN Len(f) \in Nat /\ DOMAIN f = 1..Len(f)
<1> DEFINE f == Selected(s, keep)
           T == {f[k] : k \in 1..Cardinality(keep)}
<1>1. IsFiniteSet(1..Len(s)) /\ keep \in SUBSET (1..Len(s))
  BY FS_Interval
<1>2. Cardinality(keep) \in Nat
  BY <1>1, FS_Subset, FS_CardinalityType
<1>3. f \in [1..Cardinality(keep) -> T]
  BY DEF Selected
<1> HIDE DEF f, T
<1>4. f \in Seq(T)
  BY <1>2, <1>3
<1> QED BY <1>4 DEF f

LEMMA TargetsAre ==
  ASSUME NEW r \in Routes
  PROVE  Len(TargetsFor(r)) \in Nat /\ DOMAIN TargetsFor(r) = 1..Len(TargetsFor(r))
<1> DEFINE known == {i \in DOMAIN r.serve : r.serve[i].known}
           keyed == {i \in known : r.serve[i].keyed}
<1>1. r.serve \in Seq(Backends) /\ r.routed \in BOOLEAN
  BY CompletionAssumption
<1>2. known \in SUBSET DOMAIN r.serve /\ keyed \in SUBSET DOMAIN r.serve
  OBVIOUS
<1>3. TargetsFor(r) \in {<<r.default>>, Selected(r.serve, known), Selected(r.serve, keyed)}
  BY <1>1 DEF TargetsFor
<1> HIDE DEF known, keyed
<1>4. /\ Len(Selected(r.serve, known)) \in Nat
      /\ DOMAIN Selected(r.serve, known) = 1..Len(Selected(r.serve, known))
  BY <1>1, <1>2, SelectedIs
<1>5. /\ Len(Selected(r.serve, keyed)) \in Nat
      /\ DOMAIN Selected(r.serve, keyed) = 1..Len(Selected(r.serve, keyed))
  BY <1>1, <1>2, SelectedIs
<1>6. Len(<<r.default>>) \in Nat /\ DOMAIN <<r.default>> = 1..Len(<<r.default>>)
  OBVIOUS
<1> QED BY <1>3, <1>4, <1>5, <1>6

LEMMA CompletionStarts == CompletionInit => CompletionInv
<1> SUFFICES ASSUME CompletionInit PROVE CompletionInv
  OBVIOUS
<1>1. Len(targets) \in Nat /\ Indices = 1..Len(targets) /\ routed \in BOOLEAN
  BY TargetsAre, CompletionAssumption DEF CompletionInit, Indices
<1>2. NoTask \in Tasks /\ <<>> \in Seq(Events) /\ Nothing \in Msgs
  BY DEF NoTask, Tasks, Nothing, Msgs, Voices
<1>3. seen = Fresh /\ Fresh \in Seens
  BY <1>2 DEF CompletionInit, Fresh, Seens
<1>4. CompletionTyped
  <2>1. task \in [Indices -> Tasks]
    BY <1>2 DEF CompletionInit
  <2>2. queue \in [Indices -> Seq(Events)]
    BY <1>2 DEF CompletionInit
  <2>3. heard \in 0..Len(targets) /\ stage = "pick" /\ cancelled = FALSE
        /\ reply \in Msgs
    BY <1>1, <1>2 DEF CompletionInit
  <2> QED BY <1>1, <1>3, <2>1, <2>2, <2>3 DEF CompletionTyped
<1>5. TasksFit
  <2>1. \A i \in Indices : task[i] = NoTask /\ queue[i] = <<>>
    BY DEF CompletionInit
  <2>2. \A kind : TaskFits(NoTask, kind)
    BY CompletionAssumption DEF TaskFits, NoTask, Retries
  <2> QED BY <2>1, <2>2 DEF TasksFit
<1>6. HeardFits /\ SeenFits
  BY <1>3 DEF CompletionInit, HeardFits, SeenFits
<1> QED BY <1>4, <1>5, <1>6 DEF CompletionInv

LEMMA CompletionKeeps ==
  ASSUME CompletionInv, [CompletionNext]_completionVars
  PROVE  CompletionInv'
<1>1. ASSUME NEW i \in Indices, Server(i) PROVE CompletionInv'
  <2>1. CASE Stop(i)
    BY <2>1, CloseKeeps DEF Stop
  <2>2. CASE Cut(i)
    BY <2>2, CloseKeeps DEF Cut
  <2> QED BY <1>1, <2>1, <2>2, AcceptKeeps, RefuseKeeps, UnreachableKeeps, TextKeeps,
             PieceKeeps, FinishKeeps, BreakKeeps DEF Server
<1>2. ASSUME NEW i \in Indices, Body(i) \/ Own(i) PROVE CompletionInv'
  BY <1>2, BodyKeeps, AbortPostKeeps, AbortStreamKeeps, RepostKeeps DEF Own
<1>3. CASE Reading
  BY <1>3, PickKeeps, ProbeKeeps, ReadKeeps, DrainedKeeps, ReturnKeeps DEF Reading
<1>4. CASE Cancel \/ UNCHANGED completionVars
  BY <1>4, CancelKeeps
<1> QED BY <1>1, <1>2, <1>3, <1>4 DEF CompletionNext

LEMMA CompletionInvIsEnough == CompletionInv => CompletionIsSound
<1> SUFFICES ASSUME CompletionInv PROVE CompletionIsSound
  OBVIOUS
<1>1. OneVoice
  BY DEF CompletionInv, SeenFits, OneVoice
<1>2. ReplyIsWhole
  BY DEF CompletionInv, SeenFits, MsgFits, ReplyIsWhole, Good
<1>3. stage \in {"pick", "probe"} => seen.voices = {}
  BY ReaderKnown DEF Fresh
<1>4. ASSUME NEW i \in Indices
      PROVE  task[i].posts <= 1 + MaxRetries * (IF Kind(i) = "openai" THEN 2 ELSE 1)
  <2> DEFINE t == task[i]
             a == t.tries.post
             b == t.tries.stream
  <2>1. t \in Tasks /\ TaskFits(t, Kind(i))
    BY <1>4, TaskKnown
  <2>2. a \in Nat /\ b \in Nat /\ t.posts \in Nat /\ MaxRetries \in Nat
    BY <2>1, CompletionAssumption DEF Tasks
  <2>3. t.posts <= 1 + (a + b)
    <3>1. t.pc = "none" => t.posts = 0
      BY <2>1 DEF TaskFits, NoTask
    <3> QED BY <2>1, <2>2, <3>1 DEF TaskFits, Retries
  <2>4. IF Kind(i) = "openai" THEN a <= MaxRetries /\ b <= MaxRetries
                              ELSE a + b <= MaxRetries
    BY <2>1 DEF TaskFits, Retries
  <2> HIDE DEF t, a, b
  <2>5. t.posts <= 1 + MaxRetries * (IF Kind(i) = "openai" THEN 2 ELSE 1)
    BY <2>2, <2>3, <2>4
  <2> QED BY <2>5 DEF t
<1> QED BY <1>1, <1>2, <1>3, <1>4 DEF CompletionIsSound, AttemptsAreBounded

\* Whatever fails on the way of one completion - a post, a stream, a target, or
\* all of them, with retries by openai.rs and anthropic.rs, a failover by
\* routing.rs and a cancel at any moment -, the reply that stream.rs returns is
\* the voice of one attempt of one target and comes from one Done, a good one has
\* all the text that was shown and was ended by the server or salvaged by the
\* OpenAI client, a target is left only while nothing of it was shown, and no
\* request is posted more often than the retries allow.
THEOREM CompletionIsSoundHolds == CompletionSpec => []CompletionIsSound
<1>1. CompletionInit => CompletionInv
  BY CompletionStarts
<1>2. CompletionInv /\ [CompletionNext]_completionVars => CompletionInv'
  BY CompletionKeeps
<1>3. CompletionInv => CompletionIsSound
  BY CompletionInvIsEnough
<1> QED BY <1>1, <1>2, <1>3, PTL DEF CompletionSpec

-----------------------------------------------------------------------------
(***************************************************************************)
(* Proofs about a run of a strategy, for any strategies, any allowance of  *)
(* attempts and any number of branches: what a phase is told, what is left *)
(* out, and what a pass was judged on.                                     *)
(*                                                                         *)
(* PhasesInv strengthens GateIsHonest by the order of the texts of an      *)
(* attempt (TextsInOrder), by what stands for each step that is over       *)
(* (Told), by what the running phase was given (PhaseRuns) and by whose    *)
(* verdict the attempt has (VerdictIsLast).                                *)
(***************************************************************************)

Steps == [width : Nat \ {0}, full : BOOLEAN, skip : BOOLEAN,
          join : {"solo", "first", "concat"}]
Texts == [try : Nat, step : Nat, from : SUBSET Nat, said : Saying]

RunTyped ==
  /\ strategy \in Seq(Steps) /\ allowed \in Nat /\ gated \in BOOLEAN
  /\ flow \in Flows /\ try \in 1..MaxTries /\ nth \in 1..(Len(strategy) + 1)
  /\ prev \in Texts /\ priors \in Seq(Texts) /\ Len(priors) < nth
  /\ \A b \in DOMAIN branches : branches[b] \in Saying \union {"runs", "error"}
  /\ tree \in 0..MaxTree /\ since \subseteq {"phase", "job"}
  /\ job \in {"none", "runs"} /\ command \in {"none", "runs", "orphan"}

\* The texts are of this attempt and in the order of the steps; the last is prev.
TextsInOrder ==
  /\ \A k \in 1..Len(priors) :
       /\ priors[k].try = try /\ priors[k].step < nth
       /\ k > 1 => priors[k - 1].step < priors[k].step
  /\ prev = IF priors = <<>> THEN NoText ELSE priors[Len(priors)]

\* Step s of the attempt has given a text, or was left out with good reason.
Told(s) ==
  \/ \E k \in 1..Len(priors) : priors[k].step = s
  \/ /\ strategy[s].skip
     /\ \E k \in 1..Len(priors) :
          /\ priors[k].step < s /\ priors[k].said = "approve"
          /\ \A j \in 1..Len(priors) : priors[j].step < s => j <= k

PhaseRuns ==
  flow = "phase" =>
    /\ nth <= Len(strategy)
    /\ given = [prev |-> prev, priors |-> priors, verdict |-> verdict]
    /\ DOMAIN branches = 1..Step.width

VerdictIsLast ==
  flow \in {"attempt", "phase", "verify"} => verdict.try = try - 1

PhasesInv ==
  /\ RunTyped /\ TextsInOrder /\ (\A s \in 1..(nth - 1) : Told(s))
  /\ PhaseRuns /\ VerdictIsLast /\ PassIsOfThisTree

-----------------------------------------------------------------------------
LEMMA Least ==
  ASSUME NEW T, T \subseteq Nat, T # {}
  PROVE  \E x \in T : \A y \in T : x <= y
<1> DEFINE Below == {pair \in Nat \X Nat : pair[1] < pair[2]}
<1>1. IsWellFoundedOn(Below, Nat)
  <2>1. Below = OpToRel(<, Nat)
    BY DEF OpToRel
  <2> QED BY <2>1, NatLessThanWellFounded
<1>2. PICK x \in T : \A y \in T : ~(<<y, x>> \in Below)
  <2> HIDE DEF Below
  <2> QED BY <1>1, WFMin
<1>3. ASSUME NEW y \in T PROVE x <= y
  <2>1. y < x => <<y, x>> \in Below
    OBVIOUS
  <2> QED BY <1>2, <2>1
<1> QED BY <1>3

LEMMA PhasesInitial == PhasesInit => PhasesInv
<1> SUFFICES ASSUME PhasesInit PROVE PhasesInv
  OBVIOUS
<1>1. strategy \in Seq(Steps) /\ allowed \in Nat
  BY PhasesAssumption DEF PhasesInit, Steps
<1>2. MaxTries \in Nat /\ 1 <= MaxTries
  BY <1>1 DEF MaxTries
<1>3. NoText \in Texts /\ <<>> \in Seq(Texts) /\ Len(<<>>) = 0
  BY DEF NoText, Texts, Saying
<1>4. 1 \in 1..(Len(strategy) + 1) /\ 0 \in 0..MaxTree
  BY <1>1, PhasesAssumption
<1>5. RunTyped
  BY <1>1, <1>2, <1>3, <1>4 DEF PhasesInit, RunTyped, Flows
<1>6. TextsInOrder
  BY <1>3 DEF PhasesInit, TextsInOrder
<1>7. \A s \in 1..(nth - 1) : Told(s)
  BY DEF PhasesInit
<1> QED BY <1>5, <1>6, <1>7
        DEF PhasesInit, PhasesInv, PhaseRuns, VerdictIsLast, NoVerdict, PassIsOfThisTree

LEMMA TextsTyped ==
  ASSUME RunTyped
  PROVE  /\ Len(priors) \in Nat /\ DOMAIN priors = 1..Len(priors)
         /\ \A k \in 1..Len(priors) : priors[k] \in Texts /\ priors[k].step \in Nat
<1>1. priors \in Seq(Texts)
  BY DEF RunTyped
<1>2. ASSUME NEW k \in 1..Len(priors) PROVE priors[k] \in Texts
  BY <1>1
<1>3. \A t \in Texts : t.step \in Nat
  BY DEF Texts
<1> QED BY <1>1, <1>2, <1>3

-----------------------------------------------------------------------------
(* The steps of an attempt. *)

LEMMA SkipKeeps == ASSUME PhasesInv, SkipPhase PROVE PhasesInv'
<1> USE DEF PhasesInv
<1>1. nth \in Nat /\ nth <= Len(strategy) /\ nth' = nth + 1 /\ Len(strategy) \in Nat
  BY DEF SkipPhase, RunTyped
<1>2. RunTyped'
  BY <1>1 DEF SkipPhase, RunTyped, MaxTries
<1>3. TextsInOrder'
  <2>1. \A k \in 1..Len(priors) : priors[k].step < nth + 1
    BY <1>1, TextsTyped DEF TextsInOrder
  <2> QED BY <1>1, <2>1 DEF SkipPhase, TextsInOrder
<1>4. ASSUME NEW s \in 1..(nth' - 1) PROVE Told(s)'
  <2>1. CASE s # nth
    <3>1. Told(s)
      BY <1>1, <2>1
    <3> QED BY <3>1 DEF Told, SkipPhase
  <2>2. CASE s = nth
    <3>1. priors # <<>> /\ prev = priors[Len(priors)] /\ prev.said = "approve"
      BY DEF SkipPhase, Skipped, TextsInOrder, NoText
    <3>2. Len(priors) \in 1..Len(priors)
      BY <3>1 DEF RunTyped
    <3>3. priors[Len(priors)].step < nth
      BY <3>2 DEF TextsInOrder
    <3> QED BY <2>2, <3>1, <3>2, <3>3 DEF Told, SkipPhase, Skipped, Step
  <2> QED BY <2>1, <2>2
<1>5. PhaseRuns' /\ VerdictIsLast' /\ PassIsOfThisTree'
  BY DEF SkipPhase, PhaseRuns, VerdictIsLast, PassIsOfThisTree
<1> QED BY <1>2, <1>3, <1>4, <1>5

LEMMA StartKeeps == ASSUME PhasesInv, StartStep PROVE PhasesInv'
<1> USE DEF PhasesInv
<1>1. RunTyped'
  BY DEF StartStep, RunTyped, MaxTries, Flows
<1>2. TextsInOrder'
  BY DEF StartStep, TextsInOrder
<1>3. ASSUME NEW s \in 1..(nth' - 1) PROVE Told(s)'
  BY DEF StartStep, Told
<1>4. PhaseRuns' /\ VerdictIsLast' /\ PassIsOfThisTree'
  BY DEF StartStep, PhaseRuns, VerdictIsLast, PassIsOfThisTree, Step
<1> QED BY <1>1, <1>2, <1>3, <1>4

(* What the tools and the agents of a step do changes neither texts nor steps.  *)
LEMMA BranchKeeps ==
  ASSUME PhasesInv, NEW b \in DOMAIN branches, PhaseEdits(b) \/ BranchEnds(b)
  PROVE  PhasesInv'
<1> USE DEF PhasesInv
<1>1. tree' \in 0..MaxTree
  BY PhasesAssumption DEF PhaseEdits, BranchEnds, RunTyped
<1>2. /\ DOMAIN branches' = DOMAIN branches
      /\ \A c \in DOMAIN branches : branches'[c] \in Saying \union {"runs", "error"}
  BY DEF PhaseEdits, BranchEnds, RunTyped
<1>3. RunTyped'
  BY <1>1, <1>2 DEF PhaseEdits, BranchEnds, RunTyped, MaxTries
<1>4. TextsInOrder' /\ VerdictIsLast' /\ PassIsOfThisTree'
  BY DEF PhaseEdits, BranchEnds, TextsInOrder, VerdictIsLast, PassIsOfThisTree
<1>5. ASSUME NEW s \in 1..(nth' - 1) PROVE Told(s)'
  BY DEF PhaseEdits, BranchEnds, Told
<1>6. PhaseRuns'
  BY <1>2 DEF PhaseEdits, BranchEnds, PhaseRuns, Step
<1> QED BY <1>3, <1>4, <1>5, <1>6

(* The merged text is that of the step which is over.                          *)
LEMMA MergedTyped ==
  ASSUME PhasesInv, AllEnded, Succeeded # {}
  PROVE  Merged \in Texts /\ Merged.try = try /\ Merged.step = nth
<1> USE DEF PhasesInv
<1>1. try \in Nat /\ nth \in Nat
  BY DEF RunTyped, MaxTries
<1>2. DOMAIN branches = 1..Step.width /\ nth \in 1..Len(strategy)
  BY <1>1 DEF AllEnded, PhaseRuns, RunTyped
<1>3. Step.width \in Nat
  <2>1. strategy[nth] \in Steps
    BY <1>2 DEF RunTyped
  <2> QED BY <2>1 DEF Step, Steps
<1>4. Succeeded \subseteq Nat
  BY <1>2, <1>3 DEF Succeeded
<1>5. \E b \in Succeeded : \A c \in Succeeded : b <= c
  BY <1>4, Least
<1>6. FirstToSucceed \in Succeeded
  BY <1>5 DEF FirstToSucceed
<1>7. branches[FirstToSucceed] \in Saying
  BY <1>6 DEF Succeeded, AllEnded, RunTyped
<1> QED BY <1>1, <1>4, <1>6, <1>7 DEF Merged, Texts, Saying

LEMMA JoinKeeps == ASSUME PhasesInv, JoinStep PROVE PhasesInv'
<1> USE DEF PhasesInv
<1>1. /\ Merged \in Texts /\ Merged.try = try /\ Merged.step = nth
      /\ prev' = Merged /\ priors' = Append(priors, Merged)
      /\ nth' = nth + 1 /\ try' = try /\ flow' = "attempt"
  BY MergedTyped DEF JoinStep
<1>2. /\ nth \in Nat /\ nth <= Len(strategy) /\ Len(strategy) \in Nat
      /\ priors \in Seq(Texts) /\ Len(priors) \in Nat
  BY DEF RunTyped, JoinStep, AllEnded, PhaseRuns
<1>3. /\ priors' \in Seq(Texts) /\ Len(priors') = Len(priors) + 1
      /\ priors'[Len(priors) + 1] = Merged /\ priors' # <<>>
      /\ \A k \in 1..Len(priors) : priors'[k] = priors[k]
  BY <1>1, <1>2
<1>o. \A k \in 1..Len(priors) : priors[k].step \in Nat /\ priors[k].step < nth
  BY TextsTyped DEF TextsInOrder
<1>4. RunTyped'
  BY <1>1, <1>2, <1>3 DEF JoinStep, RunTyped, MaxTries, Flows
<1>5. TextsInOrder'
  <2>1. ASSUME NEW k \in 1..Len(priors')
        PROVE  /\ priors'[k].try = try' /\ priors'[k].step < nth'
               /\ k > 1 => priors'[k - 1].step < priors'[k].step
    <3>1. CASE k <= Len(priors)
      <4>1. k \in 1..Len(priors) /\ (k > 1 => k - 1 \in 1..Len(priors))
        BY <1>2, <1>3, <3>1
      <4>2. priors'[k] = priors[k] /\ (k > 1 => priors'[k - 1] = priors[k - 1])
        BY <1>3, <4>1
      <4> QED BY <1>1, <1>2, <1>o, <4>1, <4>2 DEF TextsInOrder
    <3>2. CASE k = Len(priors) + 1
      <4>1. k > 1 => k - 1 \in 1..Len(priors)
        BY <1>2, <3>2
      <4> QED BY <1>1, <1>2, <1>3, <1>o, <3>2, <4>1
    <3> QED BY <1>2, <1>3, <3>1, <3>2
  <2> QED BY <1>1, <1>3, <2>1 DEF TextsInOrder
<1>6. ASSUME NEW s \in 1..(nth' - 1) PROVE Told(s)'
  <2>1. CASE s = nth
    <3>1. Len(priors') \in 1..Len(priors') /\ priors'[Len(priors')].step = s
      BY <1>1, <1>2, <1>3, <2>1
    <3> QED BY <3>1 DEF Told
  <2>2. CASE s # nth
    <3>1. Told(s) /\ s < nth /\ s \in 1..(nth - 1)
      BY <1>1, <1>2, <2>2
    <3>2. CASE \E k \in 1..Len(priors) : priors[k].step = s
      BY <1>2, <1>3, <3>2 DEF Told
    <3>3. CASE /\ strategy[s].skip
               /\ \E k \in 1..Len(priors) :
                    /\ priors[k].step < s /\ priors[k].said = "approve"
                    /\ \A j \in 1..Len(priors) : priors[j].step < s => j <= k
      <4>1. PICK k \in 1..Len(priors) :
              /\ priors[k].step < s /\ priors[k].said = "approve"
              /\ \A j \in 1..Len(priors) : priors[j].step < s => j <= k
        BY <3>3
      <4>2. k \in 1..Len(priors') /\ priors'[k] = priors[k]
        BY <1>2, <1>3
      <4>3. ASSUME NEW j \in 1..Len(priors'), priors'[j].step < s PROVE j <= k
        <5>1. j # Len(priors) + 1
          BY <1>1, <1>2, <1>3, <3>1, <4>3
        <5>2. j \in 1..Len(priors)
          BY <1>2, <1>3, <5>1
        <5> QED BY <1>3, <4>1, <4>3, <5>2
      <4> QED BY <3>3, <4>1, <4>2, <4>3 DEF Told, JoinStep
    <3> QED BY <3>1, <3>2, <3>3 DEF Told
  <2> QED BY <2>1, <2>2
<1>7. PhaseRuns' /\ VerdictIsLast' /\ PassIsOfThisTree'
  BY DEF JoinStep, AllEnded, PhaseRuns, VerdictIsLast, PassIsOfThisTree
<1> QED BY <1>4, <1>5, <1>6, <1>7

-----------------------------------------------------------------------------
(* The gate. *)

\* FailStep, Verify, Passes, Interrupt and what goes on behind the run: the texts,
\* the step and the attempt stay.
LEMMA FlowKeeps ==
  ASSUME PhasesInv,
         \/ FailStep \/ Verify \/ Passes \/ Interrupt
         \/ CommandEnds \/ JobEdits \/ JobEnds
  PROVE  PhasesInv'
<1> USE DEF PhasesInv
<1>1. UNCHANGED <<strategy, allowed, gated, try, nth, prev, priors, verdict, given>>
  BY DEF FailStep, Verify, Passes, Interrupt, CommandEnds, JobEdits, JobEnds
<1>2. tree' \in 0..MaxTree
  BY PhasesAssumption
  DEF FailStep, Verify, Passes, Interrupt, CommandEnds, JobEdits, JobEnds, RunTyped
<1>3. \A b \in DOMAIN branches' : branches'[b] \in Saying \union {"runs", "error"}
  BY DEF FailStep, Verify, Passes, Interrupt, CommandEnds, JobEdits, JobEnds, RunTyped
<1>4. flow' \in Flows /\ since' \subseteq {"phase", "job"}
      /\ job' \in {"none", "runs"} /\ command' \in {"none", "runs", "orphan"}
  BY DEF FailStep, Verify, Passes, Interrupt, CommandEnds, JobEdits, JobEnds,
         RunTyped, Flows
<1>5. RunTyped'
  BY <1>1, <1>2, <1>3, <1>4 DEF RunTyped, MaxTries
<1>6. TextsInOrder' /\ \A s \in 1..(nth' - 1) : Told(s)'
  BY <1>1 DEF TextsInOrder, Told
<1>7. PhaseRuns' /\ VerdictIsLast' /\ PassIsOfThisTree'
  BY <1>1
  DEF FailStep, Verify, Passes, Interrupt, CommandEnds, JobEdits, JobEnds, Step,
      PhaseRuns, VerdictIsLast, PassIsOfThisTree
<1> QED BY <1>5, <1>6, <1>7

LEMMA VerifyFailsKeeps == ASSUME PhasesInv, VerifyFails PROVE PhasesInv'
<1> USE DEF PhasesInv, VerifyFails, NextAttempt
<1>1. MaxTries' = MaxTries /\ MaxTries \in Nat /\ try \in Nat
  BY DEF MaxTries, RunTyped
<1>2. CASE try < MaxTries
  <2>1. /\ flow' = "attempt" /\ try' = try + 1 /\ nth' = 1
        /\ prev' = NoText /\ priors' = <<>> /\ verdict' = [try |-> try, tree |-> tree]
    BY <1>2
  <2>2. NoText \in Texts /\ <<>> \in Seq(Texts) /\ Len(<<>>) = 0
    BY DEF NoText, Texts, Saying
  <2>3. RunTyped'
    BY <1>1, <1>2, <2>1, <2>2 DEF RunTyped, Flows
  <2>4. TextsInOrder' /\ \A s \in 1..(nth' - 1) : Told(s)'
    BY <2>1, <2>2 DEF TextsInOrder
  <2>5. PhaseRuns' /\ VerdictIsLast' /\ PassIsOfThisTree'
    BY <1>1, <2>1 DEF PhaseRuns, VerdictIsLast, PassIsOfThisTree
  <2> QED BY <2>3, <2>4, <2>5
<1>3. CASE ~(try < MaxTries)
  <2>1. flow' = "exhausted" /\ UNCHANGED <<try, nth, prev, priors>>
    BY <1>3
  <2>2. RunTyped'
    BY <1>1, <2>1 DEF RunTyped, Flows
  <2>3. TextsInOrder' /\ \A s \in 1..(nth' - 1) : Told(s)'
    BY <2>1 DEF TextsInOrder, Told
  <2>4. PhaseRuns' /\ VerdictIsLast' /\ PassIsOfThisTree'
    BY <2>1 DEF PhaseRuns, VerdictIsLast, PassIsOfThisTree
  <2> QED BY <2>2, <2>3, <2>4
<1> QED BY <1>2, <1>3

-----------------------------------------------------------------------------
LEMMA PhasesInvKept == PhasesInv /\ [PhasesNext]_phaseVars => PhasesInv'
<1> SUFFICES ASSUME PhasesInv, [PhasesNext]_phaseVars PROVE PhasesInv'
  OBVIOUS
<1>1. CASE PhasesNext
  BY <1>1, SkipKeeps, StartKeeps, JoinKeeps, BranchKeeps, FlowKeeps, VerifyFailsKeeps
  DEF PhasesNext
<1>2. CASE UNCHANGED phaseVars
  BY <1>2
  DEF phaseVars, PhasesInv, RunTyped, MaxTries, TextsInOrder, Told, PhaseRuns, Step,
      VerdictIsLast, PassIsOfThisTree
<1> QED BY <1>1, <1>2

\* For every strategy, every number of attempts and of edits: what a phase is
\* told, what a gate judges and what is left out (strategy.rs, gate.rs).
THEOREM GateIsHonestHolds == PhasesSpec => []GateIsHonest
<1>1. PhasesInv => GateIsHonest
  <2> SUFFICES ASSUME PhasesInv PROVE GateIsHonest
    OBVIOUS
  <2> USE DEF PhasesInv
  <2>1. PhasesTypeOK
    <3>1. try \in Nat /\ nth \in Nat /\ Len(priors) <= Len(strategy)
      BY DEF RunTyped, MaxTries
    <3> QED BY <3>1 DEF PhasesTypeOK, RunTyped, Texts
  <2>2. PromptsAreOfThisAttempt
    BY DEF PromptsAreOfThisAttempt, TextsInOrder, PhaseRuns, RunTyped
  <2>3. RetryKnowsTheFailure
    BY DEF RetryKnowsTheFailure, VerdictIsLast, PhaseRuns
  <2>4. OnlyApprovalSkips
    <3>1. DOMAIN priors = 1..Len(priors)
      BY TextsTyped
    <3> QED BY <3>1 DEF OnlyApprovalSkips, Told
  <2> QED BY <2>1, <2>2, <2>3, <2>4 DEF GateIsHonest, RunTyped
<1> QED BY <1>1, PhasesInitial, PhasesInvKept, PTL DEF PhasesSpec
=============================================================================
