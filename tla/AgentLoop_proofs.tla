-------------------------- MODULE AgentLoop_proofs --------------------------
(***************************************************************************)
(* Proofs about the agent loop, for any number of runs, inputs, calls of a *)
(* reply and configurations: types, calls that have their results, inputs  *)
(* that are kept, the turn budget, and a history that is what was said.    *)
(*                                                                         *)
(* LoopShape adds to the types where the locals of a run are in use: what  *)
(* pending may hold at each place of the run, and that the batch under way *)
(* is that of the last reply.  Each promise then has an invariant of its   *)
(* own on top of it: RetellInv, AnsweredInv, TurnInv, ConserveInv.         *)
(***************************************************************************)
EXTENDS AgentLoop, FiniteSetTheorems, FunctionTheorems, SequenceTheorems, TLAPS

-----------------------------------------------------------------------------
(* Counting in sequences *)

\* The positions of a sequence with a member of M.
Where(s, M) == {i \in 1..Len(s) : s[i] \in M}
Count(s, M) == Cardinality(Where(s, M))

\* The places counted are finitely many.
LEMMA CountFinite ==
  ASSUME NEW S, NEW s \in Seq(S), NEW M
  PROVE  IsFiniteSet(Where(s, M)) /\ Count(s, M) \in Nat
<1>1. Where(s, M) \in SUBSET (1..Len(s)) /\ Len(s) \in Nat
  BY DEF Where
<1>2. IsFiniteSet(1..Len(s))
  BY <1>1, FS_Interval
<1>3. IsFiniteSet(Where(s, M))
  BY <1>1, <1>2, FS_Subset
<1>4. QED
  BY <1>3, FS_CardinalityType DEF Count

\* The members counted in a concatenation are those of its parts.
LEMMA CountConcat ==
  ASSUME NEW S, NEW s \in Seq(S), NEW t \in Seq(S), NEW M
  PROVE  Count(s \o t, M) = Count(s, M) + Count(t, M)
<1> DEFINE A == Where(s, M)
           B == Where(t, M)
           n == Len(s)
           C == {i \in (n + 1)..(n + Len(t)) : t[i - n] \in M}
           f == [i \in B |-> i + n]
<1>1. n \in Nat /\ Len(t) \in Nat
  OBVIOUS
<1>2. Where(s \o t, M) = A \cup C
  <2>1. /\ Len(s \o t) = n + Len(t)
        /\ \A i \in 1..(n + Len(t)) : (s \o t)[i] = IF i <= n THEN s[i] ELSE t[i - n]
    BY ConcatProperties
  <2> HIDE DEF n
  <2>2. QED
    BY <1>1, <2>1 DEF Where, n
<1>3. A \cap C = {}
  BY <1>1 DEF Where
<1>4. f \in Bijection(B, C)
  <2>1. f \in [B -> C]
    BY <1>1 DEF Where
  <2>2. \A a, b \in B : f[a] = f[b] => a = b
    BY <1>1 DEF Where
  <2>3. \A c \in C : \E b \in B : f[b] = c
    <3>1. ASSUME NEW c \in C PROVE c - n \in B /\ f[c - n] = c
      BY <1>1, <3>1 DEF Where
    <3>2. QED
      BY <3>1
  <2> HIDE DEF f, B, C
  <2>4. QED
    BY <2>1, <2>2, <2>3, Fun_IsBij
<1>5. ExistsBijection(B, C)
  BY <1>4 DEF ExistsBijection
<1>6. IsFiniteSet(A) /\ IsFiniteSet(B) /\ Count(s, M) \in Nat /\ Count(t, M) \in Nat
  BY CountFinite
<1>7. Count(s, M) = Cardinality(A) /\ Count(t, M) = Cardinality(B)
      /\ Count(s \o t, M) = Cardinality(A \cup C)
  BY <1>2 DEF Count
<1> HIDE DEF A, B, C
<1>8. IsFiniteSet(C) /\ Cardinality(C) = Cardinality(B)
  BY <1>5, <1>6, FS_Bijection DEF B
<1>9. IsFiniteSet(A)
  BY <1>6 DEF A
<1>10. Cardinality(A \cup C) = Cardinality(A) + Cardinality(C) - Cardinality({})
  BY <1>3, <1>8, <1>9, FS_Union
<1>11. Cardinality({}) = 0
  BY FS_EmptySet
<1>12. QED
  BY <1>6, <1>7, <1>8, <1>10, <1>11

\* Nothing is counted in an empty sequence,
LEMMA CountEmpty == ASSUME NEW M PROVE Count(<<>>, M) = 0
<1>1. Where(<<>>, M) = {}
  BY DEF Where
<1>2. QED
  BY <1>1, FS_EmptySet DEF Count

\* ... nor where no element is a member,
LEMMA CountNone ==
  ASSUME NEW S, NEW s \in Seq(S), NEW M, \A i \in 1..Len(s) : s[i] \notin M
  PROVE  Count(s, M) = 0
<1>1. Where(s, M) = {}
  BY DEF Where
<1>2. QED
  BY <1>1, FS_EmptySet DEF Count

\* ... and one where exactly one is.
LEMMA CountOne ==
  ASSUME NEW S, NEW s \in Seq(S), NEW M, NEW n \in 1..Len(s),
         \A i \in 1..Len(s) : s[i] \in M <=> i = n
  PROVE  Count(s, M) = 1
<1>1. Where(s, M) = {n}
  BY DEF Where
<1>2. QED
  BY <1>1, FS_Singleton DEF Count

-----------------------------------------------------------------------------
(* Histories *)

\* A sequence with the elements of s and then those of t is their concatenation.
LEMMA ConcatIs ==
  ASSUME NEW S, NEW s \in Seq(S), NEW t \in Seq(S), NEW u \in Seq(S),
         Len(u) = Len(s) + Len(t),
         \A i \in 1..Len(s) : u[i] = s[i],
         \A i \in 1..Len(t) : u[Len(s) + i] = t[i]
  PROVE  u = s \o t
<1>1. Len(s) \in Nat /\ Len(t) \in Nat
  OBVIOUS
<1>2. /\ s \o t \in Seq(S) /\ Len(s \o t) = Len(s) + Len(t)
      /\ \A i \in 1..(Len(s) + Len(t)) :
           (s \o t)[i] = IF i <= Len(s) THEN s[i] ELSE t[i - Len(s)]
  BY ConcatProperties
<1>3. ASSUME NEW i \in 1..Len(u) PROVE u[i] = (s \o t)[i]
  <2>1. CASE i <= Len(s)
    BY <1>1, <1>2, <1>3, <2>1
  <2>2. CASE i > Len(s)
    <3>1. i - Len(s) \in 1..Len(t) /\ i = Len(s) + (i - Len(s))
      BY <1>1, <1>3, <2>2
    <3>2. u[i] = t[i - Len(s)]
      BY <3>1
    <3>3. QED
      BY <1>1, <1>2, <1>3, <2>2, <3>2
  <2>3. QED
    BY <1>1, <1>3, <2>1, <2>2
<1>4. QED
  BY <1>2, <1>3, SeqEqual

\* The elements of a sequence from the one after n on.
LEMMA TailFrom ==
  ASSUME NEW S, NEW s \in Seq(S), NEW n \in 0..Len(s)
  PROVE  /\ SubSeq(s, n + 1, Len(s)) \in Seq(S)
         /\ Len(SubSeq(s, n + 1, Len(s))) = Len(s) - n
         /\ \A i \in 1..(Len(s) - n) : SubSeq(s, n + 1, Len(s))[i] = s[n + i]
<1>1. Len(s) \in Nat /\ n \in Nat /\ n + 1 \in Int /\ Len(s) \in Int
  OBVIOUS
<1>2. \A i \in (n + 1)..Len(s) : s[i] \in S
  BY <1>1, ElementOfSeq
<1>3. /\ SubSeq(s, n + 1, Len(s)) \in Seq(S)
      /\ Len(SubSeq(s, n + 1, Len(s))) = IF n + 1 <= Len(s) THEN Len(s) - (n + 1) + 1 ELSE 0
      /\ \A i \in 1..(Len(s) - (n + 1) + 1) : SubSeq(s, n + 1, Len(s))[i] = s[n + 1 + i - 1]
  BY <1>1, <1>2, SubSeqProperties
<1>4. Len(s) - (n + 1) + 1 = Len(s) - n
  BY <1>1
<1>5. ASSUME NEW i \in 1..(Len(s) - n) PROVE SubSeq(s, n + 1, Len(s))[i] = s[n + i]
  <2>1. n + 1 + i - 1 = n + i /\ i \in 1..(Len(s) - (n + 1) + 1)
    BY <1>1, <1>5
  <2>2. SubSeq(s, n + 1, Len(s))[i] = s[n + 1 + i - 1]
    BY <1>3, <2>1
  <2>3. QED
    BY <2>1, <2>2
<1>6. Len(SubSeq(s, n + 1, Len(s))) = Len(s) - n
  BY <1>1, <1>3
<1>7. QED
  BY <1>3, <1>5, <1>6

\* The tail of a concatenation.
LEMMA TailOfConcat ==
  ASSUME NEW S, NEW s \in Seq(S), NEW t \in Seq(S), NEW n \in 0..Len(s)
  PROVE  SubSeq(s \o t, n + 1, Len(s \o t)) = SubSeq(s, n + 1, Len(s)) \o t
<1> DEFINE all == s \o t
           tail == SubSeq(s, n + 1, Len(s))
           more == SubSeq(all, n + 1, Len(all))
<1>1. /\ Len(s) \in Nat /\ Len(t) \in Nat /\ Len(all) = Len(s) + Len(t)
      /\ all \in Seq(S)
      /\ \A i \in 1..(Len(s) + Len(t)) : all[i] = IF i <= Len(s) THEN s[i] ELSE t[i - Len(s)]
  BY ConcatProperties
<1> HIDE DEF all
<1>2. n \in Nat /\ n \in 0..Len(all)
  BY <1>1
<1>3. /\ tail \in Seq(S) /\ Len(tail) = Len(s) - n
      /\ \A i \in 1..(Len(s) - n) : tail[i] = s[n + i]
  BY TailFrom
<1>4. /\ more \in Seq(S) /\ Len(more) = Len(all) - n
      /\ \A i \in 1..(Len(all) - n) : more[i] = all[n + i]
  BY <1>1, <1>2, TailFrom
<1> HIDE DEF tail, more
<1>5. ASSUME NEW i \in 1..Len(tail) PROVE more[i] = tail[i]
  <2>1. n + i \in 1..(Len(s) + Len(t)) /\ n + i <= Len(s) /\ i \in 1..(Len(all) - n)
        /\ i \in 1..(Len(s) - n)
    BY <1>1, <1>2, <1>3, <1>5
  <2>2. more[i] = all[n + i] /\ tail[i] = s[n + i]
    BY <1>3, <1>4, <2>1
  <2>3. QED
    BY <1>1, <2>1, <2>2
<1>6. ASSUME NEW i \in 1..Len(t) PROVE more[Len(tail) + i] = t[i]
  <2> DEFINE k == Len(tail) + i
  <2>1. n + k \in 1..(Len(s) + Len(t)) /\ ~(n + k <= Len(s)) /\ k \in 1..(Len(all) - n)
        /\ n + k - Len(s) = i
    BY <1>1, <1>2, <1>3, <1>6
  <2> HIDE DEF k
  <2>2. more[k] = all[n + k]
    BY <1>4, <2>1
  <2>3. all[n + k] = t[n + k - Len(s)]
    BY <1>1, <2>1
  <2>4. QED
    BY <2>1, <2>2, <2>3 DEF k
<1>7. Len(more) = Len(tail) + Len(t)
  BY <1>1, <1>2, <1>3, <1>4
<1>8. more = tail \o t
  BY <1>3, <1>4, <1>5, <1>6, <1>7, ConcatIs
<1>9. QED
  BY <1>8 DEF more, tail, all

\* A tail of a sequence behind one element is a tail of the sequence.
LEMMA TailOfTail ==
  ASSUME NEW S, NEW s \in Seq(S), NEW k \in 0..Len(s), NEW e \in S, NEW c,
         c = <<e>> \o SubSeq(s, k + 1, Len(s)), NEW n \in 1..Len(c)
  PROVE  SubSeq(c, n + 1, Len(c)) = SubSeq(s, (k + n - 1) + 1, Len(s))
         /\ Len(c) = 1 + Len(s) - k
<1> DEFINE tail == SubSeq(s, k + 1, Len(s))
           rest == SubSeq(c, n + 1, Len(c))
           m == k + n - 1
           less == SubSeq(s, m + 1, Len(s))
           one == <<e>>
<1>1. Len(s) \in Nat /\ k \in Nat
  OBVIOUS
<1>2. /\ tail \in Seq(S) /\ Len(tail) = Len(s) - k
      /\ \A i \in 1..(Len(s) - k) : tail[i] = s[k + i]
  BY TailFrom
<1>3. one \in Seq(S) /\ Len(one) = 1 /\ c = one \o tail
  OBVIOUS
<1> HIDE DEF tail, one
<1>4. /\ c \in Seq(S) /\ Len(c) = Len(one) + Len(tail)
      /\ \A i \in 1..(Len(one) + Len(tail)) :
           c[i] = IF i <= Len(one) THEN one[i] ELSE tail[i - Len(one)]
  <2>1. one \in Seq(S) /\ tail \in Seq(S)
    BY <1>2, <1>3
  <2>2. /\ one \o tail \in Seq(S) /\ Len(one \o tail) = Len(one) + Len(tail)
        /\ \A i \in 1..(Len(one) + Len(tail)) :
             (one \o tail)[i] = IF i <= Len(one) THEN one[i] ELSE tail[i - Len(one)]
    BY <2>1, ConcatProperties
  <2>3. QED
    BY <1>3, <2>2
<1>5. Len(c) = 1 + Len(s) - k /\ Len(c) \in Nat /\ n \in Nat /\ n \in 0..Len(c)
  BY <1>1, <1>2, <1>3, <1>4
<1>6. /\ rest \in Seq(S) /\ Len(rest) = Len(c) - n
      /\ \A i \in 1..(Len(c) - n) : rest[i] = c[n + i]
  BY <1>4, <1>5, TailFrom
<1>7. m \in 0..Len(s)
  BY <1>1, <1>5
<1> HIDE DEF m, rest
<1>8. /\ less \in Seq(S) /\ Len(less) = Len(s) - m
      /\ \A i \in 1..(Len(s) - m) : less[i] = s[m + i]
  BY <1>7, TailFrom
<1> HIDE DEF less
<1>9. Len(rest) = Len(less)
  BY <1>1, <1>5, <1>6, <1>8 DEF m
<1>10. ASSUME NEW i \in 1..Len(rest) PROVE rest[i] = less[i]
  <2>1. /\ n + i \in 1..(1 + Len(tail)) /\ ~(n + i <= 1) /\ n + i - 1 \in 1..(Len(s) - k)
        /\ i \in 1..(Len(c) - n) /\ i \in 1..(Len(s) - m) /\ m + i = k + (n + i - 1)
    BY <1>1, <1>2, <1>5, <1>6, <1>7, <1>10 DEF m
  <2>2. rest[i] = c[n + i]
    BY <1>6, <2>1
  <2>3. c[n + i] = tail[n + i - 1]
    BY <1>3, <1>4, <2>1
  <2>4. tail[n + i - 1] = s[k + (n + i - 1)]
    BY <1>2, <2>1
  <2>5. less[i] = s[m + i]
    BY <1>8, <2>1
  <2>6. QED
    BY <2>1, <2>2, <2>3, <2>4, <2>5
<1>11. rest = less
  BY <1>6, <1>8, <1>9, <1>10, SeqEqual
<1>12. QED
  BY <1>5, <1>11 DEF rest, less, m

\* An element of a sequence changed, the last one, after another sequence.
LEMMA ExceptLast ==
  ASSUME NEW S, NEW s \in Seq(S), NEW t \in Seq(S), Len(t) > 0, NEW m \in S
  PROVE  [s \o t EXCEPT ![Len(s \o t)] = m] = s \o [t EXCEPT ![Len(t)] = m]
<1> DEFINE st == s \o t
           u == [st EXCEPT ![Len(st)] = m]
           v == [t EXCEPT ![Len(t)] = m]
<1>1. Len(t) \in 1..Len(t) /\ Len(s) \in Nat /\ Len(t) \in Nat
  OBVIOUS
<1>2. /\ st \in Seq(S) /\ Len(st) = Len(s) + Len(t)
      /\ \A i \in 1..(Len(s) + Len(t)) : st[i] = IF i <= Len(s) THEN s[i] ELSE t[i - Len(s)]
  BY ConcatProperties
<1> HIDE DEF st
<1>3. Len(st) \in 1..Len(st) /\ Len(st) = Len(s) + Len(t)
  BY <1>1, <1>2
<1>4. /\ v \in Seq(S) /\ Len(v) = Len(t)
      /\ \A i \in 1..Len(t) : v[i] = IF i = Len(t) THEN m ELSE t[i]
  BY <1>1, ExceptSeq
<1>5. /\ u \in Seq(S) /\ Len(u) = Len(st)
      /\ \A i \in 1..Len(st) : u[i] = IF i = Len(st) THEN m ELSE st[i]
  BY <1>2, <1>3, ExceptSeq
<1> HIDE DEF u, v
<1>6. ASSUME NEW i \in 1..Len(s) PROVE u[i] = s[i]
  <2>1. i \in 1..Len(st) /\ i # Len(st) /\ i <= Len(s)
    BY <1>1, <1>2, <1>6
  <2>2. QED
    BY <1>2, <1>5, <2>1
<1>7. ASSUME NEW i \in 1..Len(t) PROVE u[Len(s) + i] = v[i]
  <2> DEFINE k == Len(s) + i
  <2>1. k \in 1..Len(st) /\ ~(k <= Len(s)) /\ k - Len(s) = i
    BY <1>1, <1>3, <1>7
  <2>2. k = Len(st) <=> i = Len(t)
    BY <1>1, <1>3, <1>7
  <2> HIDE DEF k
  <2>3. u[k] = IF i = Len(t) THEN m ELSE t[i]
    BY <1>2, <1>5, <2>1, <2>2
  <2>4. QED
    BY <1>4, <1>7, <2>3 DEF k
<1>8. Len(u) = Len(s) + Len(v) /\ u \in Seq(S) /\ v \in Seq(S)
  BY <1>2, <1>4, <1>5
<1>9. \A i \in 1..Len(v) : u[Len(s) + i] = v[i]
  BY <1>4, <1>7
<1>10. u = s \o v
  BY <1>6, <1>8, <1>9, ConcatIs
<1>11. QED
  BY <1>10 DEF u, v, st

\* A poll takes the front of a queue and leaves the rest.
LEMMA TakenLeft ==
  ASSUME NEW q \in Seq(Message)
  PROVE  /\ Taken(q) \in Seq(Message) /\ Left(q) \in Seq(Message)
         /\ q = Taken(q) \o Left(q)
<1>1. CASE setup.drainAll
  <2>1. Taken(q) = q /\ Left(q) = <<>>
    BY <1>1 DEF Taken, Left
  <2>2. QED
    BY <2>1, ConcatEmptySeq
<1>2. CASE ~setup.drainAll /\ q = <<>>
  <2>1. Taken(q) = SubSeq(q, 1, 0) /\ Left(q) = SubSeq(q, 2, 0)
    BY <1>2 DEF Taken, Left
  <2>2. Taken(q) = <<>> /\ Left(q) = <<>>
    BY <2>1, SubSeqEmpty
  <2>3. QED
    BY <1>2, <2>2, ConcatEmptySeq
<1>3. CASE ~setup.drainAll /\ q # <<>>
  <2>1. Taken(q) = SubSeq(q, 1, 1) /\ Left(q) = SubSeq(q, 2, Len(q)) /\ Len(q) \in Nat \ {0}
    BY <1>3, EmptySeq DEF Taken, Left
  <2>2. Taken(q) \in Seq(Message) /\ Left(q) \in Seq(Message)
    BY <2>1, SubSeqProperties
  <2>3. SubSeq(q, 1, 1) \o SubSeq(q, 2, Len(q)) = SubSeq(q, 1, Len(q))
    BY <2>1, ConcatAdjacentSubSeq
  <2>4. QED
    BY <2>1, <2>2, <2>3, SubSeqFull
<1>4. QED
  BY <1>1, <1>2, <1>3

\* A soft steer reaches the last result of a turn, and changes only its text.
LEMMA SteeredResults ==
  ASSUME NEW s \in Seq(Message), NEW t \in Seq(Message), Len(t) > 0,
         NEW texts \in SUBSET Inputs
  PROVE  /\ SoftSteer(s \o t, texts) = s \o SoftSteer(t, texts)
         /\ SoftSteer(t, texts) \in Seq(Message)
         /\ Len(SoftSteer(t, texts)) = Len(t)
         /\ \A i \in 1..Len(t) :
              SoftSteer(t, texts)[i] =
                IF i = Len(t) THEN [t[i] EXCEPT !.said = @ \cup texts] ELSE t[i]
<1> DEFINE m == [t[Len(t)] EXCEPT !.said = @ \cup texts]
<1>1. Len(t) \in 1..Len(t) /\ t[Len(t)] \in Message /\ Len(s) \in Nat /\ Len(t) \in Nat
  BY ElementOfSeq
<1>2. m \in Message
  BY <1>1 DEF Message
<1>3. SoftSteer(t, texts) = [t EXCEPT ![Len(t)] = m]
  BY DEF SoftSteer
<1>4. /\ Len(s \o t) = Len(s) + Len(t) /\ s \o t \in Seq(Message)
      /\ (s \o t)[Len(s) + Len(t)] = t[Len(t)]
  <2>1. /\ Len(s \o t) = Len(s) + Len(t) /\ s \o t \in Seq(Message)
        /\ \A i \in 1..(Len(s) + Len(t)) :
             (s \o t)[i] = IF i <= Len(s) THEN s[i] ELSE t[i - Len(s)]
    BY ConcatProperties
  <2>2. QED
    BY <1>1, <2>1
<1>5. SoftSteer(s \o t, texts) = [s \o t EXCEPT ![Len(s \o t)] = m]
  BY <1>4 DEF SoftSteer
<1> HIDE DEF m
<1>6. /\ [t EXCEPT ![Len(t)] = m] \in Seq(Message)
      /\ Len([t EXCEPT ![Len(t)] = m]) = Len(t)
      /\ \A i \in 1..Len(t) : [t EXCEPT ![Len(t)] = m][i] = IF i = Len(t) THEN m ELSE t[i]
  BY <1>1, <1>2, ExceptSeq
<1>7. [s \o t EXCEPT ![Len(s \o t)] = m] = s \o [t EXCEPT ![Len(t)] = m]
  BY <1>2, ExceptLast
<1>8. QED
  BY <1>3, <1>5, <1>6, <1>7 DEF m

LEMMA SteeredBehind ==
  ASSUME NEW s \in Seq(Message), NEW t \in Seq(Message), Len(t) > 0,
         NEW texts \in SUBSET Inputs
  PROVE  /\ SoftSteer(s \o t, texts) = s \o SoftSteer(t, texts)
         /\ SoftSteer(t, texts) \in Seq(Message)
BY SteeredResults

\* The model sees s, but for a prefix that one summary replaces.
Retells(c, s) ==
  \/ c = s
  \/ \E k \in 1..Len(s) : c = <<User("summary", {})>> \o SubSeq(s, k + 1, Len(s))

\* An element in front of a concatenation.
LEMMA ConsConcat ==
  ASSUME NEW S, NEW e \in S, NEW t \in Seq(S), NEW u \in Seq(S)
  PROVE  (<<e>> \o t) \o u = <<e>> \o (t \o u)
BY SMTT(30), ConcatAssociative

\* The summary compaction writes is a message.
LEMMA SummaryMessage ==
  User("summary", {}) \in Message /\ <<User("summary", {})>> \in Seq(Message)
<1>1. User("summary", {}) \in Message
  BY LoopAssumption DEF User, Message, Tags
<1>2. QED
  BY <1>1

\* The context retells what was said also after both got the same messages.
LEMMA RetellsMore ==
  ASSUME NEW c \in Seq(Message), NEW s \in Seq(Message), NEW ms \in Seq(Message),
         Retells(c, s)
  PROVE  Retells(c \o ms, s \o ms)
<1>1. CASE c = s
  BY <1>1 DEF Retells
<1>2. ASSUME NEW k \in 1..Len(s), c = <<User("summary", {})>> \o SubSeq(s, k + 1, Len(s))
      PROVE  Retells(c \o ms, s \o ms)
  <2> DEFINE tail == SubSeq(s, k + 1, Len(s))
             more == SubSeq(s \o ms, k + 1, Len(s \o ms))
             sum == User("summary", {})
  <2>1. k \in 0..Len(s) /\ k \in 1..Len(s \o ms)
    BY ConcatProperties
  <2>2. tail \in Seq(Message)
    BY <2>1, TailFrom
  <2>3. more = tail \o ms
    BY <2>1, TailOfConcat
  <2>4. sum \in Message
    BY SummaryMessage
  <2> HIDE DEF sum, tail, more
  <2>5. (<<sum>> \o tail) \o ms = <<sum>> \o (tail \o ms)
    BY SMTT(30), <2>2, <2>4, ConsConcat
  <2>6. c \o ms = <<sum>> \o more
    BY <1>2, <2>3, <2>5 DEF sum, tail
  <2>7. QED
    BY <2>1, <2>6 DEF Retells, sum, more
<1>3. QED
  BY <1>1, <1>2 DEF Retells

\* ... and after another compaction, which summarises the summary too.
LEMMA RetellsLess ==
  ASSUME NEW c \in Seq(Message), NEW s \in Seq(Message), Retells(c, s),
         NEW cut \in 1..(Len(c) - 1)
  PROVE  Retells(<<User("summary", {})>> \o SubSeq(c, cut + 1, Len(c)), s)
<1>1. CASE c = s
  <2>1. cut \in 1..Len(s)
    BY <1>1
  <2>2. QED
    BY <1>1, <2>1 DEF Retells
<1>2. ASSUME NEW k \in 1..Len(s), c = <<User("summary", {})>> \o SubSeq(s, k + 1, Len(s))
      PROVE  Retells(<<User("summary", {})>> \o SubSeq(c, cut + 1, Len(c)), s)
  <2>1. k \in 0..Len(s) /\ cut \in 1..Len(c)
    BY <1>2
  <2>2. /\ SubSeq(c, cut + 1, Len(c)) = SubSeq(s, (k + cut - 1) + 1, Len(s))
        /\ Len(c) = 1 + Len(s) - k
    BY <1>2, <2>1, SummaryMessage, TailOfTail
  <2>3. k + cut - 1 \in 1..Len(s)
    BY <1>2, <2>2
  <2>4. QED
    BY <2>2, <2>3 DEF Retells
<1>3. QED
  BY <1>1, <1>2 DEF Retells

-----------------------------------------------------------------------------
(* Calls and results *)

\* The i-th message of s has its results, or follows its call.
HasResults(s, i) ==
  /\ i + s[i].n <= Len(s)
  /\ \A k \in 1..s[i].n : s[i + k].role = "result" /\ s[i + k].idx = k
HasCall(s, i) ==
  /\ s[i].idx \in 1..(i - 1)
  /\ s[i - s[i].idx].role = "assistant"
  /\ s[i].idx <= s[i - s[i].idx].n

\* Every call has its result, but for those of the last reply.
Asked(s) ==
  /\ Len(s) > 0 /\ s[Len(s)].role = "assistant"
  /\ \A i \in 1..Len(s) :
       /\ s[i].role = "assistant" /\ i # Len(s) => HasResults(s, i)
       /\ s[i].role = "result" => HasCall(s, i)

\* HistoryAnswered's operator, message by message.
LEMMA AnsweredDef ==
  ASSUME NEW s
  PROVE  Answered(s) <=> \A i \in 1..Len(s) :
           /\ s[i].role = "assistant" => HasResults(s, i)
           /\ s[i].role = "result" => HasCall(s, i)
BY DEF Answered, HasResults, HasCall

\* The parts of a message and their kinds.
LEMMA MessageParts ==
  ASSUME NEW m \in Message
  PROVE  m.n \in Nat /\ m.idx \in Nat /\ m.n \in 0..MaxCalls /\ m.idx \in 0..MaxCalls
         /\ m.said \subseteq Inputs /\ m.tag \in Tags
         /\ m.role \in {"user", "assistant", "result"}
BY LoopAssumption DEF Message

\* What stands before and behind a message that has its results, or its call,
\* does not matter.
LEMMA HasBefore ==
  ASSUME NEW s \in Seq(Message), NEW t \in Seq(Message), NEW i \in 1..Len(s)
  PROVE  /\ (s \o t)[i] = s[i]
         /\ HasResults(s, i) => HasResults(s \o t, i)
         /\ HasCall(s, i) => HasCall(s \o t, i)
<1> DEFINE all == s \o t
<1>1. /\ Len(s) \in Nat /\ Len(t) \in Nat /\ Len(all) = Len(s) + Len(t)
      /\ \A k \in 1..(Len(s) + Len(t)) : all[k] = IF k <= Len(s) THEN s[k] ELSE t[k - Len(s)]
  BY ConcatProperties
<1> HIDE DEF all
<1>2. \A k \in 1..Len(s) : all[k] = s[k]
  BY <1>1
<1>3. s[i].n \in Nat /\ s[i].idx \in Nat
  BY ElementOfSeq, MessageParts
<1>4. ASSUME HasResults(s, i) PROVE HasResults(all, i)
  <2>1. i + s[i].n <= Len(s)
    BY <1>4 DEF HasResults
  <2>2. \A k \in 1..s[i].n : i + k \in 1..Len(s)
    BY <1>1, <1>3, <2>1
  <2>3. \A k \in 1..s[i].n : all[i + k] = s[i + k]
    BY <1>2, <2>2
  <2>4. i + s[i].n <= Len(all) /\ all[i] = s[i]
    BY <1>1, <1>2, <1>3, <2>1
  <2>5. QED
    BY <1>4, <2>3, <2>4 DEF HasResults
<1>5. ASSUME HasCall(s, i) PROVE HasCall(all, i)
  <2>1. i - s[i].idx \in 1..Len(s)
    BY <1>1, <1>3, <1>5 DEF HasCall
  <2>2. QED
    BY <1>2, <1>5, <2>1 DEF HasCall
<1>6. QED
  BY <1>2, <1>4, <1>5 DEF all

\* ... of the second part of a concatenation, whose places move.
LEMMA HasBehind ==
  ASSUME NEW s \in Seq(Message), NEW t \in Seq(Message), NEW i \in 1..Len(t)
  PROVE  /\ Len(s) + i \in 1..Len(s \o t) /\ (s \o t)[Len(s) + i] = t[i]
         /\ HasResults(t, i) => HasResults(s \o t, Len(s) + i)
         /\ HasCall(t, i) => HasCall(s \o t, Len(s) + i)
<1> DEFINE all == s \o t
           n == Len(s)
<1>1. /\ n \in Nat /\ Len(t) \in Nat /\ Len(all) = n + Len(t)
      /\ \A k \in 1..(n + Len(t)) : all[k] = IF k <= n THEN s[k] ELSE t[k - n]
  BY ConcatProperties
<1> HIDE DEF all, n
<1>2. ASSUME NEW k \in 1..Len(t) PROVE all[n + k] = t[k]
  <2>1. n + k \in 1..(n + Len(t)) /\ ~(n + k <= n) /\ n + k - n = k
    BY <1>1
  <2>2. QED
    BY <1>1, <2>1
<1>3. t[i].n \in Nat /\ t[i].idx \in Nat
  BY ElementOfSeq, MessageParts
<1>4. ASSUME HasResults(t, i) PROVE HasResults(all, n + i)
  <2>1. i + t[i].n <= Len(t) /\ all[n + i] = t[i]
    BY <1>2, <1>4 DEF HasResults
  <2>2. (n + i) + t[i].n <= Len(all)
    BY <1>1, <1>3, <2>1
  <2>3. ASSUME NEW k \in 1..t[i].n
        PROVE  all[(n + i) + k].role = "result" /\ all[(n + i) + k].idx = k
    <3>1. i + k \in 1..Len(t) /\ (n + i) + k = n + (i + k)
      BY <1>1, <1>3, <2>1, <2>3
    <3>2. t[i + k].role = "result" /\ t[i + k].idx = k
      BY <1>4, <2>3 DEF HasResults
    <3>3. QED
      BY <1>2, <3>1, <3>2
  <2>4. QED
    BY <2>1, <2>2, <2>3 DEF HasResults
<1>5. ASSUME HasCall(t, i) PROVE HasCall(all, n + i)
  <2> DEFINE x == t[i].idx
  <2>1. all[n + i] = t[i] /\ x \in 1..(i - 1)
    BY <1>2, <1>5 DEF HasCall
  <2>2. t[i - x].role = "assistant" /\ t[i - x].n >= x
    BY <1>5 DEF HasCall
  <2> HIDE DEF x
  <2>3. i \in Nat /\ x \in Nat /\ i - x \in 1..Len(t)
    BY <1>1, <2>1
  <2>4. (n + i) - x = n + (i - x)
    BY <1>1, <2>3
  <2>5. x \in 1..((n + i) - 1)
    BY <1>1, <2>1
  <2>6. all[(n + i) - x] = t[i - x]
    BY <1>2, <2>3, <2>4
  <2>7. QED
    BY <2>1, <2>2, <2>5, <2>6 DEF HasCall, x
<1>6. n + i \in 1..Len(all)
  BY <1>1
<1>7. QED
  BY <1>2, <1>4, <1>5, <1>6 DEF all, n

\* A place in a concatenation is one in its first or in its second part.
LEMMA ConcatPlace ==
  ASSUME NEW s \in Seq(Message), NEW t \in Seq(Message), NEW i \in 1..Len(s \o t),
         i \notin 1..Len(s)
  PROVE  \E k \in 1..Len(t) : i = Len(s) + k
<1>1. Len(s \o t) = Len(s) + Len(t) /\ Len(s) \in Nat /\ Len(t) \in Nat
  BY ConcatProperties
<1>2. i - Len(s) \in 1..Len(t) /\ i = Len(s) + (i - Len(s))
  BY <1>1
<1>3. QED
  BY <1>2

\* Two histories in which every call is answered, one after the other.
LEMMA AnsweredConcat ==
  ASSUME NEW s \in Seq(Message), NEW t \in Seq(Message), Answered(s), Answered(t)
  PROVE  Answered(s \o t)
<1>1. ASSUME NEW i \in 1..Len(s \o t)
      PROVE  /\ (s \o t)[i].role = "assistant" => HasResults(s \o t, i)
             /\ (s \o t)[i].role = "result" => HasCall(s \o t, i)
  <2>1. CASE i \in 1..Len(s)
    BY <2>1, HasBefore, AnsweredDef
  <2>2. CASE i \notin 1..Len(s)
    <3>1. PICK k \in 1..Len(t) : i = Len(s) + k
      BY <1>1, <2>2, ConcatPlace
    <3>2. QED
      BY <3>1, HasBehind, AnsweredDef
  <2>3. QED
    BY <2>1, <2>2
<1>2. QED
  BY <1>1, AnsweredDef

\* Messages without calls and results.
LEMMA AnsweredPlain ==
  ASSUME NEW s \in Seq(Message),
         \A i \in 1..Len(s) : s[i].role # "result" /\ (s[i].role = "assistant" => s[i].n = 0)
  PROVE  Answered(s)
BY DEF Answered

\* The reply and, in source order, its results.
LEMMA AskedReply ==
  ASSUME NEW s \in Seq(Message), Answered(s), NEW r \in Message, r.role = "assistant"
  PROVE  Asked(s \o <<r>>) /\ (s \o <<r>>)[Len(s \o <<r>>)] = r
<1> DEFINE t == <<r>>
           all == s \o t
<1>1. t \in Seq(Message) /\ Len(t) = 1 /\ t[1] = r /\ 1 \in 1..Len(t)
  OBVIOUS
<1>2. Len(s) \in Nat /\ Len(all) = Len(s) + 1
  BY <1>1, ConcatProperties
<1>3. all[Len(all)] = r
  BY <1>1, <1>2, HasBehind
<1>4. ASSUME NEW i \in 1..Len(all), i # Len(all)
      PROVE  /\ all[i].role = "assistant" => HasResults(all, i)
             /\ all[i].role = "result" => HasCall(all, i)
  <2>1. i \in 1..Len(s)
    BY <1>2, <1>4
  <2>2. QED
    BY <1>1, <2>1, HasBefore, AnsweredDef
<1>5. QED
  BY <1>2, <1>3, <1>4 DEF Asked

\* ... and with them every call has its result again.
LEMMA AskedResults ==
  ASSUME NEW s \in Seq(Message), Asked(s), NEW t \in Seq(Message),
         Len(t) = s[Len(s)].n,
         \A k \in 1..Len(t) : t[k].role = "result" /\ t[k].idx = k
  PROVE  Answered(s \o t)
<1> DEFINE all == s \o t
           n == Len(s)
<1>1. /\ n \in Nat /\ n > 0 /\ Len(t) \in Nat /\ Len(all) = n + Len(t)
      /\ n \in 1..n /\ all[n] = s[n] /\ s[n].n = Len(t) /\ s[n].role = "assistant"
  BY ConcatProperties, HasBefore DEF Asked
<1>2. \A k \in 1..Len(t) : all[n + k] = t[k]
  BY HasBehind
<1>3. ASSUME NEW i \in 1..Len(all)
      PROVE  /\ all[i].role = "assistant" => HasResults(all, i)
             /\ all[i].role = "result" => HasCall(all, i)
  <2>1. CASE i \in 1..n /\ i # n
    BY <2>1, HasBefore DEF Asked
  <2>2. CASE i = n
    <3> HIDE DEF all, n
    <3>1. all[n].n = Len(t) /\ n + Len(t) <= Len(all) /\ all[n].role = "assistant"
      BY <1>1
    <3>2. \A k \in 1..Len(t) : all[n + k].role = "result" /\ all[n + k].idx = k
      BY <1>2
    <3>3. HasResults(all, n)
      BY <3>1, <3>2 DEF HasResults
    <3>4. QED
      BY <2>2, <3>1, <3>3
  <2>3. CASE i \notin 1..n
    <3>1. PICK k \in 1..Len(t) : i = n + k
      BY <1>3, <2>3, ConcatPlace
    <3> HIDE DEF all, n
    <3>2. all[i].role = "result" /\ all[i].idx = k
      BY <1>2, <3>1
    <3>3. k \in 1..(i - 1) /\ i - k = n /\ k <= Len(t)
      <4>1. n \in Nat /\ n > 0 /\ Len(t) \in Nat
        BY <1>1
      <4>2. QED
        BY <3>1, <4>1
    <3>4. all[n].n = Len(t) /\ all[n].role = "assistant"
      BY <1>1
    <3>5. HasCall(all, i)
      BY <3>2, <3>3, <3>4 DEF HasCall
    <3>6. QED
      BY <3>2, <3>5
  <2>4. QED
    BY <1>3, <2>1, <2>2, <2>3
<1>4. QED
  BY <1>3, AnsweredDef

\* A kept tail that splits no call from its results.
LEMMA AnsweredTail ==
  ASSUME NEW s \in Seq(Message), Answered(s), NEW cut \in 0..Len(s),
         ToolPairsIntact(SubSeq(s, cut + 1, Len(s)))
  PROVE  Answered(SubSeq(s, cut + 1, Len(s)))
<1> DEFINE t == SubSeq(s, cut + 1, Len(s))
<1>1. /\ t \in Seq(Message) /\ Len(t) = Len(s) - cut /\ Len(s) \in Nat /\ cut \in Nat
      /\ \A i \in 1..(Len(s) - cut) : t[i] = s[cut + i]
  BY TailFrom
<1>2. ToolPairsIntact(t)
  OBVIOUS
<1> HIDE DEF t
<1>3. ASSUME NEW i \in 1..Len(t)
      PROVE  /\ t[i].role = "assistant" => HasResults(t, i)
             /\ t[i].role = "result" => HasCall(t, i)
  <2>1. /\ t[i] = s[cut + i] /\ cut + i \in 1..Len(s) /\ t[i].n \in Nat /\ t[i].idx \in Nat
    BY <1>1, <1>3, ElementOfSeq, MessageParts
  <2>2. ASSUME t[i].role = "assistant" PROVE HasResults(t, i)
    <3>1. i + t[i].n <= Len(t)
      BY <1>2, <1>3, <2>2 DEF ToolPairsIntact
    <3>2. HasResults(s, cut + i)
      BY <2>1, <2>2, AnsweredDef
    <3>3. ASSUME NEW k \in 1..t[i].n PROVE t[i + k] = s[(cut + i) + k]
      <4>1. i + k \in 1..(Len(s) - cut) /\ cut + (i + k) = (cut + i) + k
        BY <1>1, <1>3, <2>1, <3>1, <3>3
      <4>2. QED
        BY <1>1, <4>1
    <3>4. QED
      BY <2>1, <3>1, <3>2, <3>3 DEF HasResults
  <2>3. ASSUME t[i].role = "result" PROVE HasCall(t, i)
    <3>1. i > t[i].idx
      BY <1>2, <1>3, <2>3 DEF ToolPairsIntact
    <3>2. HasCall(s, cut + i)
      BY <2>1, <2>3, AnsweredDef
    <3> DEFINE x == t[i].idx
    <3>3. x \in 1..(i - 1) /\ i - x \in 1..(Len(s) - cut) /\ cut + (i - x) = (cut + i) - x
      <4>1. x \in Nat /\ x >= 1 /\ i > x
        BY <2>1, <3>1, <3>2 DEF HasCall
      <4> HIDE DEF x
      <4>2. QED
        BY <1>1, <1>3, <4>1
    <3>4. t[i - t[i].idx] = s[(cut + i) - t[i].idx]
      BY <1>1, <3>3
    <3>5. QED
      BY <2>1, <3>2, <3>3, <3>4 DEF HasCall
  <2>4. QED
    BY <2>2, <2>3
<1>4. QED
  BY <1>3, AnsweredDef DEF t

-----------------------------------------------------------------------------
(* Types and shape *)

\* The messages the loop makes.
LEMMA MadeMessages ==
  /\ \A tag \in Tags, said \in SUBSET Inputs : User(tag, said) \in Message
  /\ \A tag \in Tags, n \in 0..MaxCalls : Reply(tag, n) \in Message
  /\ \A tag \in Tags, k \in 0..MaxCalls : Result(k, tag) \in Message
<1>1. 0 \in 0..MaxCalls
  BY LoopAssumption
<1>2. QED
  BY <1>1 DEF User, Reply, Result, Message

\* What a provider can answer.
LEMMA AnswersTyped ==
  ASSUME setup \in Setups, NEW r \in Answers
  PROVE  /\ r \in Message /\ r.role = "assistant" /\ r.said = {}
         /\ r.tag \in {"text", "freeform", "aborted"} => r.n = 0
         /\ r.tag \in {"tools", "length"} => r.n >= 1
<1>1. setup.calls \in 0..MaxCalls
  BY LoopAssumption
<1>2. r \in Replies
  BY DEF Answers, Replies
<1>3. \E tag \in {"text", "freeform", "aborted", "error", "tools", "length"}, n \in 0..MaxCalls :
        /\ r = Reply(tag, n)
        /\ tag \in {"text", "freeform", "aborted"} => n = 0
        /\ tag \in {"tools", "length"} => n >= 1
  BY <1>1, <1>2, LoopAssumption DEF Replies
<1>4. {"text", "freeform", "aborted", "error", "tools", "length"} \subseteq Tags
  BY DEF Tags
<1>5. QED
  BY <1>3, <1>4, MadeMessages DEF Reply

\* The results of a batch of n calls: one for each, in source order.
ResultsOf(t, n) ==
  /\ t \in Seq(Message) /\ Len(t) = n
  /\ \A k \in 1..n : t[k].role = "result" /\ t[k].idx = k /\ t[k].said = {}

\* A refused batch and one that ran have such results.
LEMMA BatchesTyped ==
  ASSUME NEW n \in 0..MaxCalls
  PROVE  ResultsOf(Refused(n), n) /\ \A b \in Outcomes(n) : ResultsOf(b, n)
<1>1. n \in Nat /\ MaxCalls \in Nat /\ {"plain", "terminate"} \subseteq Tags
  BY LoopAssumption DEF Tags
<1>2. \A k \in 1..n, tag \in {"plain", "terminate"} :
        /\ Result(k, tag) \in Message /\ Result(k, tag).role = "result"
        /\ Result(k, tag).idx = k /\ Result(k, tag).said = {}
  <2>1. \A k \in 1..n : k \in 0..MaxCalls
    BY <1>1
  <2>2. QED
    BY <1>1, <2>1, MadeMessages DEF Result
<1>3. ASSUME NEW g, g \in [1..n -> {"plain", "terminate"}]
      PROVE  ResultsOf([k \in 1..n |-> Result(k, g[k])], n)
  <2> DEFINE b == [k \in 1..n |-> Result(k, g[k])]
  <2>1. \A k \in 1..n : b[k] = Result(k, g[k]) /\ g[k] \in {"plain", "terminate"}
    BY <1>3
  <2>2. b \in [1..n -> Message]
    BY <1>2, <1>3
  <2>3. b \in Seq(Message) /\ Len(b) = n
    BY <1>1, <2>2
  <2> HIDE DEF b
  <2>4. ResultsOf(b, n)
    BY <1>2, <2>1, <2>3 DEF ResultsOf
  <2>5. QED
    BY <2>4 DEF b
<1>4. \A b \in Outcomes(n) : ResultsOf(b, n)
  BY <1>3 DEF Outcomes
<1>5. ResultsOf(Refused(n), n)
  <2> DEFINE g == [k \in 1..n |-> "plain"]
  <2>1. g \in [1..n -> {"plain", "terminate"}]
    OBVIOUS
  <2>2. Refused(n) = [k \in 1..n |-> Result(k, g[k])]
    BY DEF Refused
  <2> HIDE DEF g
  <2>3. QED
    BY <1>3, <2>1, <2>2
<1>6. QED
  BY <1>4, <1>5

\* The queues hold what the user said.
QueuesHold ==
  \A q \in {steering, followUp, pending} : \A i \in 1..Len(q) : q[i].role = "user"
\* A poll never replaces messages that were taken before, and a run that ends
\* drops only inputs without text.
PendingPlaced ==
  /\ pc \in {"idle", "start", "call", "streaming", "exec", "attach", "follow"} => pending = <<>>
  /\ pc \in {"turnEnd", "budget", "poll", "done"} =>
       \A i \in 1..Len(pending) : pending[i].said \subseteq BlankInputs
\* Between runs there is no run.
LocalsPlaced ==
  /\ running <=> pc # "idle"
  /\ pc = "idle" => newMsgs = <<>> /\ context = <<>>
\* The context ends with a reply of n calls.
LastReply(n) ==
  /\ Len(context) > 0 /\ context[Len(context)].role = "assistant"
  /\ context[Len(context)].n = n /\ n >= 1
\* A batch under way is that of the last reply.
BatchPlaced ==
  /\ pc = "exec" => LastReply(context[Len(context)].n)
  /\ pc = "attach" => ResultsOf(batch, Len(batch)) /\ LastReply(Len(batch))

LoopShape == TypeOK /\ QueuesHold /\ PendingPlaced /\ LocalsPlaced /\ BatchPlaced

\* An agent is built in that shape.
LEMMA InitShape == Init => LoopShape
<1> SUFFICES ASSUME Init PROVE LoopShape
  OBVIOUS
<1>1. <<>> \in Seq(Message) /\ Len(<<>>) = 0
  OBVIOUS
<1>2. messages \in Seq(Message)
  BY <1>1, HistoryAssumption DEF Init
<1>3. TypeOK
  <2>1. /\ context = <<>> /\ newMsgs = <<>> /\ steering = <<>> /\ followUp = <<>>
        /\ pending = <<>> /\ batch = <<>> /\ file = messages
    BY DEF Init
  <2>2. {messages, context, newMsgs, file} \subseteq History
        /\ {steering, followUp, pending, batch} \subseteq History
    BY <1>1, <1>2, <2>1 DEF History
  <2>3. /\ setup \in Setups /\ typed \subseteq Inputs
        /\ running \in BOOLEAN /\ cancelled \in BOOLEAN /\ hasMore \in BOOLEAN
        /\ firstTurn \in BOOLEAN /\ nudged \in BOOLEAN
        /\ drafted \in BOOLEAN /\ doomed \in BOOLEAN /\ tripped \in BOOLEAN
        /\ runs \in Nat /\ turns \in Nat /\ calls \in Nat /\ advice \in Nat
        /\ pc \in PCs /\ ended \in Reasons
    BY DEF Init, PCs, Reasons
  <2>4. QED
    BY <2>2, <2>3 DEF TypeOK
<1>4. QED
  BY <1>1, <1>3 DEF Init, LoopShape, QueuesHold, PendingPlaced, LocalsPlaced, BatchPlaced

\* What the actions need of the types, one by one.
LEMMA Typed ==
  ASSUME TypeOK
  PROVE  /\ messages \in Seq(Message) /\ context \in Seq(Message)
         /\ newMsgs \in Seq(Message) /\ file \in Seq(Message)
         /\ steering \in Seq(Message) /\ followUp \in Seq(Message)
         /\ pending \in Seq(Message) /\ batch \in Seq(Message)
BY DEF TypeOK, History

\* Messages added to the history and to the file.
LEMMA RecordTyped ==
  ASSUME TypeOK, NEW ms \in Seq(Message), Record(ms)
  PROVE  context' \in Seq(Message) /\ newMsgs' \in Seq(Message) /\ file' \in Seq(Message)
BY Typed, ConcatProperties DEF Record

\* Every step keeps the types.
LEMMA NextTyped == LoopShape /\ [Next]_vars => TypeOK'
<1> SUFFICES ASSUME LoopShape, [Next]_vars PROVE TypeOK'
  OBVIOUS
<1>1. TypeOK
  BY DEF LoopShape
<1>2. /\ messages \in Seq(Message) /\ context \in Seq(Message)
      /\ newMsgs \in Seq(Message) /\ file \in Seq(Message)
      /\ steering \in Seq(Message) /\ followUp \in Seq(Message)
      /\ pending \in Seq(Message) /\ batch \in Seq(Message)
  BY <1>1, Typed
<1>3. /\ Taken(steering) \in Seq(Message) /\ Left(steering) \in Seq(Message)
      /\ Taken(followUp) \in Seq(Message) /\ Left(followUp) \in Seq(Message)
  BY <1>2, TakenLeft
<1>4. <<>> \in Seq(Message)
  OBVIOUS
<1> DEFINE Histories ==
             /\ messages \in Seq(Message) /\ context \in Seq(Message)
             /\ newMsgs \in Seq(Message) /\ file \in Seq(Message)
             /\ steering \in Seq(Message) /\ followUp \in Seq(Message)
             /\ pending \in Seq(Message) /\ batch \in Seq(Message)
           Scalars ==
             /\ setup \in Setups /\ typed \subseteq Inputs
             /\ running \in BOOLEAN /\ cancelled \in BOOLEAN /\ hasMore \in BOOLEAN
             /\ firstTurn \in BOOLEAN /\ nudged \in BOOLEAN
             /\ drafted \in BOOLEAN /\ doomed \in BOOLEAN /\ tripped \in BOOLEAN
             /\ runs \in Nat /\ turns \in Nat /\ calls \in Nat /\ advice \in Nat
             /\ pc \in PCs /\ ended \in Reasons
<1>5. Scalars
  BY <1>1 DEF TypeOK
<1>6. setup \in Setups /\ setup.typing \subseteq Inputs /\ BlankInputs \subseteq Inputs
  BY <1>1, LoopAssumption DEF TypeOK
<1>7. Scalars'
  <2> USE DEF agent, queues, counters, flow, guards, stream, logs, PCs, Reasons, End, FreshLocals
  <2>1. ASSUME NEW u \in setup.typing, Steer(u) \/ FollowUp(u) PROVE Scalars'
    BY <1>5, <1>6, <2>1 DEF Steer, FollowUp
  <2>2. ASSUME NEW prompts, Cancel \/ BeginPrompt(prompts) PROVE Scalars'
    <3>1. CASE Cancel
      BY <1>5, <3>1 DEF Cancel
    <3>2. CASE BeginPrompt(prompts)
      <4>1. /\ running' = TRUE /\ runs' = runs + 1 /\ cancelled' = FALSE /\ pc' = "start"
            /\ UNCHANGED <<setup, typed, tripped, advice>> /\ FreshLocals
        BY <3>2 DEF BeginPrompt
      <4>2. runs' \in Nat /\ turns' \in Nat /\ calls' \in Nat /\ advice' \in Nat
        BY <1>5, <4>1
      <4> HIDE DEF FreshLocals
      <4>3. /\ hasMore' = TRUE /\ firstTurn' = TRUE /\ nudged' = FALSE /\ drafted' = FALSE
            /\ doomed' = FALSE /\ ended' = "none"
        BY <4>1 DEF FreshLocals
      <4>4. QED
        BY <1>5, <4>1, <4>2, <4>3
    <3>3. QED
      BY <2>2, <3>1, <3>2
  <2>3. ASSUME FirstPoll \/ LoopHead \/ CallModel PROVE Scalars'
    <3>1. CASE FirstPoll
      BY <1>5, <3>1 DEF FirstPoll
    <3>2. CASE LoopHead
      <4>1. /\ firstTurn' \in {FALSE, firstTurn} /\ pc' \in {"call", "follow"} /\ drafted' = FALSE
            /\ UNCHANGED <<hasMore, agent, typed, counters, guards, doomed, cancelled, ended>>
        BY <3>2 DEF LoopHead
      <4>2. firstTurn' \in BOOLEAN /\ pc' \in PCs /\ drafted' \in BOOLEAN
        BY <1>5, <4>1
      <4>3. /\ setup' = setup /\ typed' = typed /\ running' = running
            /\ cancelled' = cancelled /\ hasMore' = hasMore /\ nudged' = nudged
            /\ doomed' = doomed /\ tripped' = tripped /\ runs' = runs /\ turns' = turns
            /\ calls' = calls /\ advice' = advice /\ ended' = ended
        BY <4>1
      <4> HIDE DEF PCs, Reasons
      <4>4. QED
        BY <1>5, <4>2, <4>3
    <3>3. CASE CallModel
      BY <1>5, <3>3 DEF CallModel
    <3>4. QED
      BY <2>3, <3>1, <3>2, <3>3
  <2>4. ASSUME NEW r, RejectDraft(r) \/ ReplyFailed(r) \/ NudgeFreeform(r) PROVE Scalars'
    <3>1. CASE RejectDraft(r)
      BY <1>5, <3>1 DEF RejectDraft
    <3>2. CASE ReplyFailed(r)
      BY <1>5, <3>2 DEF ReplyFailed
    <3>3. CASE NudgeFreeform(r)
      BY <1>5, <3>3 DEF NudgeFreeform
    <3>4. QED
      BY <2>4, <3>1, <3>2, <3>3
  <2>5. ASSUME NEW r, ReplyText(r) \/ ReplyTruncated(r) \/ ReplyTools(r) PROVE Scalars'
    BY <1>5, <2>5 DEF ReplyText, ReplyTruncated, ReplyTools
  <2>6. ASSUME ExecBatch \/ AttachResults PROVE Scalars'
    BY <1>5, <2>6 DEF ExecBatch, AttachResults
  <2>7. ASSUME ThrashAdvice \/ ThrashStop \/ CountTurn PROVE Scalars'
    <3>1. Len(batch) \in Nat
      BY <1>2
    <3>2. CASE ThrashAdvice
      <4>1. /\ turns' = turns + 1 /\ calls' = calls + Len(batch) /\ advice' = advice + 1
            /\ tripped' = FALSE /\ pc' = "loop"
            /\ UNCHANGED <<agent, typed, nudged, flow, stream, cancelled, ended>>
        BY <3>2 DEF ThrashAdvice
      <4>2. turns' \in Nat /\ calls' \in Nat /\ advice' \in Nat
        BY <1>5, <3>1, <4>1
      <4>3. tripped' = FALSE /\ pc' \in PCs
        BY <4>1
      <4>4. QED
        BY <1>5, <4>1, <4>2, <4>3
    <3>3. CASE ThrashStop
      <4>1. /\ advice' \in {advice, advice + 1} /\ tripped' = FALSE
            /\ pc' = "done" /\ ended' = "thrash"
            /\ UNCHANGED <<agent, typed, counters, flow, stream, cancelled>>
        BY <3>3 DEF ThrashStop
      <4>2. advice' \in Nat
        BY <1>5, <4>1
      <4>3. tripped' = FALSE /\ pc' \in PCs /\ ended' \in Reasons
        BY <4>1
      <4>4. QED
        BY <1>5, <4>1, <4>2, <4>3
    <3>4. CASE CountTurn
      BY <1>5, <3>1, <3>4 DEF CountTurn
    <3>5. QED
      BY <2>7, <3>2, <3>3, <3>4
  <2>8. ASSUME CheckBudgets \/ PollSteering \/ PollFollowUp \/ CompleteRun PROVE Scalars'
    <3>1. CASE CheckBudgets
      BY <1>5, <3>1 DEF CheckBudgets
    <3>2. CASE PollSteering
      BY <1>5, <3>2 DEF PollSteering, BatchTerminates
    <3>3. CASE PollFollowUp
      <4>1. /\ hasMore' \in {TRUE, hasMore} /\ pc' \in {"done", "loop"}
            /\ ended' \in {"natural", ended}
            /\ UNCHANGED <<typed, agent, counters, firstTurn, guards, stream, cancelled>>
        BY <3>3 DEF PollFollowUp
      <4>2. hasMore' \in BOOLEAN /\ pc' \in PCs /\ ended' \in Reasons
        BY <1>5, <4>1
      <4>3. /\ setup' = setup /\ typed' = typed /\ running' = running
            /\ cancelled' = cancelled /\ firstTurn' = firstTurn /\ nudged' = nudged
            /\ drafted' = drafted /\ doomed' = doomed /\ tripped' = tripped
            /\ runs' = runs /\ turns' = turns /\ calls' = calls /\ advice' = advice
        BY <4>1
      <4> HIDE DEF PCs, Reasons
      <4>4. QED
        BY <1>5, <4>2, <4>3
    <3>4. CASE CompleteRun
      BY <1>5, <3>4 DEF CompleteRun
    <3>5. QED
      BY <2>8, <3>1, <3>2, <3>3, <3>4
  <2>9. ASSUME UNCHANGED vars PROVE Scalars'
    BY <1>5, <2>9 DEF vars
  <2>10. QED
    BY <2>1, <2>2, <2>3, <2>4, <2>5, <2>6, <2>7, <2>8, <2>9 DEF Next, UserStep, RunStep, StreamReply
<1>8. Histories'
  <2> USE DEF agent, queues, counters, flow, guards, stream, logs
  <2>1. ASSUME NEW u \in setup.typing, Steer(u) \/ FollowUp(u) PROVE Histories'
    <3>1. User("input", {u}) \in Message
      BY <1>6, <2>1, MadeMessages DEF Tags
    <3>2. Append(steering, User("input", {u})) \in Seq(Message)
          /\ Append(followUp, User("input", {u})) \in Seq(Message)
      BY <1>2, <3>1
    <3>3. QED
      BY <1>2, <2>1, <3>2 DEF Steer, FollowUp
  <2>2. ASSUME NEW prompts \in {<<>>, <<User("prompt", {})>>}, BeginPrompt(prompts) PROVE Histories'
    <3>1. prompts \in Seq(Message)
      <4>1. User("prompt", {}) \in Message
        BY MadeMessages DEF Tags
      <4>2. <<User("prompt", {})>> \in Seq(Message)
        BY <4>1
      <4>3. QED
        BY <1>4, <2>2, <4>2
    <3>2. messages \o prompts \in Seq(Message) /\ file \o prompts \in Seq(Message)
      BY <1>2, <3>1, ConcatProperties
    <3>3. QED
      BY <1>2, <1>4, <2>2, <3>1, <3>2 DEF BeginPrompt, FreshLocals
  <2>3. ASSUME Cancel \/ FirstPoll \/ CallModel \/ CountTurn PROVE Histories'
    BY <1>2, <1>3, <2>3 DEF Cancel, FirstPoll, CallModel, CountTurn
  <2>4. ASSUME LoopHead PROVE Histories'
    BY <1>1, <1>2, <1>4, <2>4, RecordTyped DEF LoopHead
  <2>5. ASSUME NEW r \in Answers,
               \/ RejectDraft(r) \/ ReplyFailed(r) \/ NudgeFreeform(r) \/ ReplyText(r)
               \/ ReplyTruncated(r) \/ ReplyTools(r)
        PROVE  Histories'
    <3>1. r \in Message /\ r.n \in 0..MaxCalls
      BY <1>6, <2>5, AnswersTyped, MessageParts
    <3>2. ResultsOf(Refused(r.n), r.n)
      BY <3>1, BatchesTyped
    <3>3. Refused(r.n) \in Seq(Message)
      BY <3>2 DEF ResultsOf
    <3>4. CASE RejectDraft(r)
      <4>1. [r EXCEPT !.tag = "draft"] \in Message
        BY <3>1 DEF Message, Tags
      <4>2. QED
        BY <1>2, <3>4, <4>1, AppendProperties DEF RejectDraft
    <3>5. CASE ReplyFailed(r)
      <4>1. Append(context, r) \in Seq(Message) /\ Append(newMsgs, r) \in Seq(Message)
            /\ Append(file, r) \in Seq(Message)
        BY <1>2, <3>1
      <4>2. Append(context, r) \o Refused(r.n) \in Seq(Message)
            /\ Append(newMsgs, r) \o Refused(r.n) \in Seq(Message)
        BY <3>3, <4>1, ConcatProperties
      <4>3. QED
        BY <1>2, <3>5, <4>1, <4>2 DEF ReplyFailed
    <3>6. CASE NudgeFreeform(r)
      <4>1. <<r, User("nudge", {})>> \in Seq(Message)
        BY <3>1, MadeMessages DEF Tags
      <4>2. QED
        BY <1>1, <1>2, <3>6, <4>1, RecordTyped DEF NudgeFreeform
    <3>7. CASE ReplyText(r) \/ ReplyTruncated(r) \/ ReplyTools(r)
      <4>1. <<r>> \in Seq(Message)
        BY <3>1
      <4>2. QED
        BY <1>1, <1>2, <3>3, <3>7, <4>1, RecordTyped DEF ReplyText, ReplyTruncated, ReplyTools
    <3>8. QED
      BY <2>5, <3>4, <3>5, <3>6, <3>7
  <2>6. ASSUME ExecBatch PROVE Histories'
    <3>1. context[Len(context)].n \in 0..MaxCalls
      <4>1. Len(context) \in 1..Len(context)
        BY <1>2, <2>6 DEF ExecBatch, LoopShape, BatchPlaced, LastReply
      <4>2. QED
        BY <1>2, <4>1, ElementOfSeq, MessageParts
    <3>2. PICK b \in Outcomes(context[Len(context)].n) : batch' = b
      BY <2>6 DEF ExecBatch
    <3>3. b \in Seq(Message)
      BY <3>1, <3>2, BatchesTyped DEF ResultsOf
    <3>4. QED
      BY <1>2, <2>6, <3>2, <3>3 DEF ExecBatch
  <2>7. ASSUME AttachResults PROVE Histories'
    <3> DEFINE texts == SteerTexts(Taken(steering))
    <3>1. texts \in SUBSET Inputs
      <4>1. \A i \in DOMAIN Taken(steering) : Taken(steering)[i].said \subseteq Inputs
        BY <1>3, LenProperties, ElementOfSeq, MessageParts
      <4>2. QED
        BY <4>1 DEF SteerTexts
    <3>2. Len(batch) > 0
      BY <1>2, <2>7 DEF AttachResults, LoopShape, BatchPlaced, LastReply
    <3> HIDE DEF texts
    <3>3. SoftSteer(batch, texts) \in Seq(Message)
          /\ SoftSteer(context \o batch, texts) = context \o SoftSteer(batch, texts)
          /\ SoftSteer(newMsgs \o batch, texts) = newMsgs \o SoftSteer(batch, texts)
      <4>1. context \in Seq(Message) /\ newMsgs \in Seq(Message) /\ batch \in Seq(Message)
        BY <1>2
      <4>2. QED
        BY <3>1, <3>2, <4>1, SteeredBehind
    <3>4. context \o SoftSteer(batch, texts) \in Seq(Message)
          /\ newMsgs \o SoftSteer(batch, texts) \in Seq(Message)
          /\ file \o batch \in Seq(Message)
      BY <1>2, <3>3, ConcatProperties
    <3>5. /\ context' = SoftSteer(context \o batch, texts)
          /\ newMsgs' = SoftSteer(newMsgs \o batch, texts) /\ file' = file \o batch
          /\ pending' \in {Taken(steering), <<>>} /\ steering' = Left(steering)
          /\ UNCHANGED <<followUp, messages, batch>>
      BY <2>7 DEF AttachResults, texts
    <3>6. QED
      BY <1>2, <1>3, <1>4, <3>3, <3>4, <3>5
  <2>8. ASSUME ThrashAdvice \/ ThrashStop PROVE Histories'
    <3>1. <<User("advice", {})>> \in Seq(Message) /\ <<User("stop", {})>> \in Seq(Message)
      BY MadeMessages DEF Tags
    <3>2. QED
      BY <1>1, <1>2, <2>8, <3>1, RecordTyped DEF ThrashAdvice, ThrashStop
  <2>9. ASSUME CheckBudgets PROVE Histories'
    <3>1. ASSUME NEW cut \in 1..(Len(context) - 1), Compact(cut) PROVE context' \in Seq(Message)
      <4>1. cut \in 0..Len(context)
        BY <1>2, <3>1
      <4>2. SubSeq(context, cut + 1, Len(context)) \in Seq(Message)
        BY <1>2, <4>1, TailFrom
      <4>3. <<User("summary", {})>> \o SubSeq(context, cut + 1, Len(context)) \in Seq(Message)
        BY <4>2, SummaryMessage, ConcatProperties
      <4>4. QED
        BY <3>1, <4>3 DEF Compact
    <3>2. context' \in Seq(Message)
      BY <1>2, <2>9, <3>1 DEF CheckBudgets
    <3>3. QED
      BY <1>2, <2>9, <3>2 DEF CheckBudgets
  <2>10. ASSUME PollSteering \/ PollFollowUp PROVE Histories'
    <3>1. pending \o Taken(steering) \in Seq(Message)
      BY <1>2, <1>3, ConcatProperties
    <3>2. QED
      BY <1>2, <1>3, <1>4, <2>10, <3>1 DEF PollSteering, PollFollowUp
  <2>11. ASSUME CompleteRun PROVE Histories'
    BY <1>2, <1>4, <2>11 DEF CompleteRun, FreshLocals
  <2>12. ASSUME UNCHANGED vars PROVE Histories'
    BY <1>2, <2>12 DEF vars
  <2>13. QED
    BY <2>1, <2>2, <2>3, <2>4, <2>5, <2>6, <2>7, <2>8, <2>9, <2>10, <2>11, <2>12
       DEF Next, UserStep, RunStep, StreamReply
<1>9. QED
  BY <1>7, <1>8 DEF TypeOK, History

\* What a poll takes, and what it leaves, was in the queue.
LEMMA TakenFrom ==
  ASSUME NEW q \in Seq(Message)
  PROVE  /\ \A i \in 1..Len(Taken(q)) : \E k \in 1..Len(q) : Taken(q)[i] = q[k]
         /\ \A i \in 1..Len(Left(q)) : \E k \in 1..Len(q) : Left(q)[i] = q[k]
<1> DEFINE t == Taken(q)
           l == Left(q)
<1>1. t \in Seq(Message) /\ l \in Seq(Message) /\ q = t \o l
  BY TakenLeft
<1> HIDE DEF t, l
<1>2. Len(q) = Len(t) + Len(l) /\ Len(t) \in Nat /\ Len(l) \in Nat
  BY <1>1, ConcatProperties
<1>3. ASSUME NEW i \in 1..Len(t) PROVE \E k \in 1..Len(q) : t[i] = q[k]
  <2>1. q[i] = t[i] /\ i \in 1..Len(q)
    BY <1>1, <1>2, HasBefore
  <2>2. QED
    BY <2>1
<1>4. ASSUME NEW i \in 1..Len(l) PROVE \E k \in 1..Len(q) : l[i] = q[k]
  <2>1. q[Len(t) + i] = l[i] /\ Len(t) + i \in 1..Len(q)
    BY <1>1, HasBehind
  <2>2. QED
    BY <2>1
<1>5. QED
  BY <1>3, <1>4 DEF t, l

\* The queues go on holding what the user said.
LEMMA QueuesKept == LoopShape /\ [Next]_vars => QueuesHold'
<1> SUFFICES ASSUME LoopShape, [Next]_vars PROVE QueuesHold'
  OBVIOUS
<1> DEFINE Spoken1(q) == \A i \in 1..Len(q) : q[i].role = "user"
<1>1. steering \in Seq(Message) /\ followUp \in Seq(Message) /\ pending \in Seq(Message)
  BY Typed DEF LoopShape
<1>2. Spoken1(steering) /\ Spoken1(followUp) /\ Spoken1(pending)
  BY DEF LoopShape, QueuesHold
<1>3. /\ Spoken1(Taken(steering)) /\ Spoken1(Left(steering))
      /\ Spoken1(Taken(followUp)) /\ Spoken1(Left(followUp))
  <2>1. ASSUME NEW q \in Seq(Message), Spoken1(q) PROVE Spoken1(Taken(q)) /\ Spoken1(Left(q))
    <3>1. /\ \A i \in 1..Len(Taken(q)) : \E k \in 1..Len(q) : Taken(q)[i] = q[k]
          /\ \A i \in 1..Len(Left(q)) : \E k \in 1..Len(q) : Left(q)[i] = q[k]
      BY <2>1, TakenFrom
    <3>2. ASSUME NEW i \in 1..Len(Taken(q)) PROVE Taken(q)[i].role = "user"
      <4>1. PICK k \in 1..Len(q) : Taken(q)[i] = q[k]
        BY <3>1
      <4>2. QED
        BY <2>1, <4>1
    <3>3. ASSUME NEW i \in 1..Len(Left(q)) PROVE Left(q)[i].role = "user"
      <4>1. PICK k \in 1..Len(q) : Left(q)[i] = q[k]
        BY <3>1
      <4>2. QED
        BY <2>1, <4>1
    <3>4. QED
      BY <3>2, <3>3
  <2> HIDE DEF Spoken1
  <2>2. Spoken1(Taken(steering)) /\ Spoken1(Left(steering))
    BY <1>1, <1>2, <2>1
  <2>3. Spoken1(Taken(followUp)) /\ Spoken1(Left(followUp))
    BY <1>1, <1>2, <2>1
  <2>4. QED
    BY <2>2, <2>3
<1>4. Spoken1(<<>>)
  OBVIOUS
<1>5. Spoken1(pending \o Taken(steering))
  <2> DEFINE q == Taken(steering)
  <2>1. q \in Seq(Message)
    BY <1>1, TakenLeft
  <2> HIDE DEF q
  <2>2. ASSUME NEW i \in 1..Len(pending \o q) PROVE (pending \o q)[i].role = "user"
    <3>1. CASE i \in 1..Len(pending)
      BY <1>1, <1>2, <2>1, <3>1, HasBefore
    <3>2. CASE i \notin 1..Len(pending)
      <4>1. PICK k \in 1..Len(q) : i = Len(pending) + k
        BY <1>1, <2>1, <2>2, <3>2, ConcatPlace
      <4>2. QED
        BY <1>1, <1>3, <2>1, <4>1, HasBehind DEF q
    <3>3. QED
      BY <3>1, <3>2
  <2>3. QED
    BY <2>2 DEF q
<1>6. ASSUME NEW u, NEW q \in {steering, followUp} PROVE Spoken1(Append(q, User("input", {u})))
  BY <1>1, <1>2, <1>6 DEF User
<1>7. Spoken1(steering') /\ Spoken1(followUp') /\ Spoken1(pending')
  <2> HIDE DEF Spoken1
  <2> USE DEF agent, queues, counters, flow, guards, stream, logs
  <2>1. ASSUME NEW u, Steer(u) \/ FollowUp(u)
        PROVE  Spoken1(steering') /\ Spoken1(followUp') /\ Spoken1(pending')
    BY <1>2, <1>6, <2>1 DEF Steer, FollowUp
  <2>2. ASSUME NEW prompts, BeginPrompt(prompts)
        PROVE  Spoken1(steering') /\ Spoken1(followUp') /\ Spoken1(pending')
    BY <1>2, <1>4, <2>2 DEF BeginPrompt, FreshLocals
  <2>3. ASSUME Cancel \/ FirstPoll \/ LoopHead \/ CallModel
        PROVE  Spoken1(steering') /\ Spoken1(followUp') /\ Spoken1(pending')
    BY <1>2, <1>3, <1>4, <2>3 DEF Cancel, FirstPoll, LoopHead, CallModel
  <2>4. ASSUME StreamReply \/ ExecBatch
        PROVE  Spoken1(steering') /\ Spoken1(followUp') /\ Spoken1(pending')
    BY <1>2, <2>4 DEF StreamReply, RejectDraft, ReplyFailed, NudgeFreeform, ReplyText,
                      ReplyTruncated, ReplyTools, ExecBatch
  <2>5. ASSUME AttachResults \/ ThrashAdvice \/ ThrashStop \/ CountTurn \/ CheckBudgets
        PROVE  Spoken1(steering') /\ Spoken1(followUp') /\ Spoken1(pending')
    BY <1>2, <1>3, <1>4, <2>5
       DEF AttachResults, ThrashAdvice, ThrashStop, CountTurn, CheckBudgets
  <2>6. ASSUME PollSteering \/ PollFollowUp \/ CompleteRun
        PROVE  Spoken1(steering') /\ Spoken1(followUp') /\ Spoken1(pending')
    BY <1>2, <1>3, <1>4, <1>5, <2>6 DEF PollSteering, PollFollowUp, CompleteRun, FreshLocals
  <2>7. CASE UNCHANGED vars
    BY <1>2, <2>7 DEF vars
  <2>8. QED
    BY <2>1, <2>2, <2>3, <2>4, <2>5, <2>6, <2>7 DEF Next, UserStep, RunStep
<1>8. QED
  BY <1>7 DEF QueuesHold

\* Where the locals of a run are in use.
LEMMA PlacesKept == LoopShape /\ [Next]_vars => PendingPlaced' /\ LocalsPlaced'
<1> SUFFICES ASSUME LoopShape, [Next]_vars PROVE PendingPlaced' /\ LocalsPlaced'
  OBVIOUS
<1>1. PendingPlaced /\ LocalsPlaced /\ pending \in Seq(Message) /\ steering \in Seq(Message)
  BY Typed DEF LoopShape
<1> USE DEF agent, queues, counters, flow, guards, stream, logs, End, FreshLocals
<1>2. ASSUME NEW u, Steer(u) \/ FollowUp(u) PROVE PendingPlaced' /\ LocalsPlaced'
  BY <1>1, <1>2 DEF Steer, FollowUp, PendingPlaced, LocalsPlaced
<1>3. ASSUME Cancel PROVE PendingPlaced' /\ LocalsPlaced'
  BY <1>1, <1>3 DEF Cancel, PendingPlaced, LocalsPlaced
<1>4. ASSUME NEW prompts, BeginPrompt(prompts) PROVE PendingPlaced' /\ LocalsPlaced'
  BY <1>1, <1>4 DEF BeginPrompt, PendingPlaced, LocalsPlaced
<1>5. ASSUME FirstPoll \/ LoopHead \/ CallModel PROVE PendingPlaced' /\ LocalsPlaced'
  BY <1>1, <1>5 DEF FirstPoll, LoopHead, CallModel, PendingPlaced, LocalsPlaced
<1>6. ASSUME NEW r, \/ RejectDraft(r) \/ ReplyFailed(r) \/ NudgeFreeform(r) \/ ReplyText(r)
                    \/ ReplyTruncated(r) \/ ReplyTools(r)
      PROVE  PendingPlaced' /\ LocalsPlaced'
  <2>1. pc = "streaming" /\ pending = <<>> /\ pending' = pending /\ running' = running
        /\ pc' \in PCs \ {"idle"}
    BY <1>1, <1>6 DEF RejectDraft, ReplyFailed, NudgeFreeform, ReplyText, ReplyTruncated,
                      ReplyTools, PendingPlaced, PCs
  <2>2. QED
    BY <1>1, <2>1 DEF PendingPlaced, LocalsPlaced, PCs
<1>7. ASSUME ExecBatch \/ ThrashAdvice \/ ThrashStop \/ CountTurn \/ CheckBudgets
      PROVE  PendingPlaced' /\ LocalsPlaced'
  BY <1>1, <1>7 DEF ExecBatch, ThrashAdvice, ThrashStop, CountTurn, CheckBudgets,
                    PendingPlaced, LocalsPlaced
<1>8. ASSUME AttachResults PROVE PendingPlaced' /\ LocalsPlaced'
  <2> DEFINE q == Taken(steering)
  <2>1. q \in Seq(Message)
    BY <1>1, TakenLeft
  <2>2. /\ pc = "attach" /\ pc' = "turnEnd" /\ running' = running
        /\ pending' = (IF SteerTexts(q) = {} THEN q ELSE <<>>)
    BY <1>8 DEF AttachResults
  <2> HIDE DEF q
  <2>3. ASSUME SteerTexts(q) = {}, NEW i \in 1..Len(q) PROVE q[i].said \subseteq BlankInputs
    <3>1. i \in DOMAIN q
      BY <2>1, <2>3
    <3>2. q[i].said \subseteq UNION {q[j].said : j \in DOMAIN q}
      BY <3>1
    <3>3. UNION {q[j].said : j \in DOMAIN q} \subseteq BlankInputs
      <4> DEFINE texts == UNION {q[j].said : j \in DOMAIN q}
      <4>1. SteerTexts(q) = texts \ BlankInputs
        BY DEF SteerTexts
      <4> HIDE DEF texts
      <4>2. texts \subseteq BlankInputs
        BY <2>3, <4>1
      <4>3. QED
        BY <4>2 DEF texts
    <3>4. QED
      BY <3>2, <3>3
  <2>4. QED
    BY <1>1, <2>2, <2>3 DEF PendingPlaced, LocalsPlaced
<1>9. ASSUME PollSteering \/ PollFollowUp \/ CompleteRun PROVE PendingPlaced' /\ LocalsPlaced'
  BY <1>1, <1>9 DEF PollSteering, PollFollowUp, CompleteRun, PendingPlaced, LocalsPlaced
<1>10. CASE UNCHANGED vars
  BY <1>1, <1>10 DEF vars, PendingPlaced, LocalsPlaced
<1>11. QED
  BY <1>2, <1>3, <1>4, <1>5, <1>6, <1>7, <1>8, <1>9, <1>10
     DEF Next, UserStep, RunStep, StreamReply

\* The batch under way is that of the last reply.
LEMMA BatchKept == LoopShape /\ [Next]_vars => BatchPlaced'
<1> SUFFICES ASSUME LoopShape, [Next]_vars PROVE BatchPlaced'
  OBVIOUS
<1>1. BatchPlaced /\ TypeOK /\ context \in Seq(Message) /\ setup \in Setups
  BY Typed DEF LoopShape, TypeOK
<1> USE DEF agent, queues, counters, flow, guards, stream, logs, End
<1>2. ASSUME pc' \notin {"exec", "attach"} PROVE BatchPlaced'
  BY <1>2 DEF BatchPlaced
<1>3. ASSUME UNCHANGED <<pc, context, batch>> PROVE BatchPlaced'
  BY <1>1, <1>3 DEF BatchPlaced, LastReply
<1>4. ASSUME NEW r \in Answers, ReplyTruncated(r) \/ ReplyTools(r) PROVE BatchPlaced'
  <2>1. r \in Message /\ r.role = "assistant" /\ r.n >= 1 /\ r.n \in 0..MaxCalls
    BY <1>1, <1>4, AnswersTyped, MessageParts DEF ReplyTruncated, ReplyTools
  <2>2. context' = context \o <<r>>
    BY <1>4 DEF ReplyTruncated, ReplyTools, Record
  <2>3. Len(context') > 0 /\ context'[Len(context')] = r
    BY <1>1, <2>1, <2>2
  <2>4. ResultsOf(Refused(r.n), r.n)
    BY <2>1, BatchesTyped
  <2>5. CASE ReplyTruncated(r)
    <3>1. batch' = Refused(r.n) /\ pc' = "attach"
      BY <2>5 DEF ReplyTruncated
    <3>2. Len(batch') = r.n
      BY <2>4, <3>1 DEF ResultsOf
    <3>3. QED
      BY <2>1, <2>3, <2>4, <3>1, <3>2 DEF BatchPlaced, LastReply
  <2>6. CASE ReplyTools(r)
    <3>1. pc' = "exec"
      BY <2>6 DEF ReplyTools
    <3>2. QED
      BY <2>1, <2>3, <3>1 DEF BatchPlaced, LastReply
  <2>7. QED
    BY <1>4, <2>5, <2>6
<1>5. ASSUME ExecBatch PROVE BatchPlaced'
  <2> DEFINE n == context[Len(context)].n
  <2>1. LastReply(n) /\ context' = context /\ pc' = "attach"
    BY <1>1, <1>5 DEF ExecBatch, BatchPlaced
  <2>2. n \in 0..MaxCalls
    <3>1. Len(context) \in 1..Len(context)
      BY <1>1, <2>1 DEF LastReply
    <3>2. QED
      BY <1>1, <3>1, ElementOfSeq, MessageParts
  <2>3. batch' \in Outcomes(n)
    BY <1>5 DEF ExecBatch
  <2> HIDE DEF n
  <2>4. ResultsOf(batch', n) /\ Len(batch') = n
    BY <2>2, <2>3, BatchesTyped DEF ResultsOf
  <2>5. QED
    BY <2>1, <2>4 DEF BatchPlaced, LastReply
<1>6. QED
  <2>1. \/ pc' \notin {"exec", "attach"}
        \/ UNCHANGED <<pc, context, batch>>
        \/ ExecBatch
        \/ \E r \in Answers : ReplyTruncated(r) \/ ReplyTools(r)
    <3>1. ASSUME NEW u, Steer(u) \/ FollowUp(u) PROVE UNCHANGED <<pc, context, batch>>
      BY <3>1 DEF Steer, FollowUp
    <3>2. ASSUME NEW prompts, BeginPrompt(prompts) PROVE pc' \notin {"exec", "attach"}
      BY <3>2 DEF BeginPrompt
    <3>3. ASSUME Cancel \/ UNCHANGED vars PROVE UNCHANGED <<pc, context, batch>>
      BY <3>3 DEF Cancel, vars
    <3>4. ASSUME \/ FirstPoll \/ LoopHead \/ CallModel \/ AttachResults \/ ThrashAdvice
                 \/ ThrashStop \/ CountTurn \/ CheckBudgets \/ PollSteering \/ PollFollowUp
                 \/ CompleteRun
          PROVE  pc' \notin {"exec", "attach"}
      BY <3>4 DEF FirstPoll, LoopHead, CallModel, AttachResults, ThrashAdvice, ThrashStop,
                  CountTurn, CheckBudgets, PollSteering, PollFollowUp, CompleteRun
    <3>5. ASSUME NEW r, RejectDraft(r) \/ ReplyFailed(r) \/ NudgeFreeform(r) \/ ReplyText(r)
          PROVE  pc' \notin {"exec", "attach"}
      BY <3>5 DEF RejectDraft, ReplyFailed, NudgeFreeform, ReplyText
    <3>6. QED
      BY <3>1, <3>2, <3>3, <3>4, <3>5 DEF Next, UserStep, RunStep, StreamReply
  <2>2. QED
    BY <1>2, <1>3, <1>4, <1>5, <2>1

\* Every step keeps the shape.
LEMMA ShapeKept == LoopShape /\ [Next]_vars => LoopShape'
BY NextTyped, QueuesKept, PlacesKept, BatchKept DEF LoopShape

\* Every variable of the loop keeps its kind.
THEOREM LoopTyped == Spec => []TypeOK
<1>1. Init => LoopShape
  BY InitShape
<1>2. LoopShape /\ [Next]_vars => LoopShape'
  BY ShapeKept
<1>3. LoopShape => TypeOK
  BY DEF LoopShape
<1>4. QED
  BY <1>1, <1>2, <1>3, PTL DEF Spec

\* A failed reply with its synthesized results, as one piece.
LEMMA AppendedBatch ==
  ASSUME NEW s \in Seq(Message), NEW r \in Message, NEW t \in Seq(Message)
  PROVE  Append(s, r) \o t = s \o (<<r>> \o t)
<1>1. Append(s, r) = s \o <<r>> /\ <<r>> \in Seq(Message)
  BY AppendIsConcat
<1>2. (s \o <<r>>) \o t = s \o (<<r>> \o t)
  BY <1>1, ConcatAssociative
<1>3. QED
  BY <1>1, <1>2

\* The results of a batch go into both copies with the same words of the user.
LEMMA Attached ==
  ASSUME LoopShape, AttachResults
  PROVE  LET texts == SteerTexts(Taken(steering))
             ms == SoftSteer(batch, texts)
         IN  /\ ms \in Seq(Message) /\ texts \in SUBSET Inputs
             /\ context' = context \o ms /\ newMsgs' = newMsgs \o ms
             /\ Len(ms) = Len(batch) /\ Len(batch) > 0
             /\ \A i \in 1..Len(batch) :
                  ms[i] = IF i = Len(batch) THEN [batch[i] EXCEPT !.said = @ \cup texts]
                                            ELSE batch[i]
<1> DEFINE texts == SteerTexts(Taken(steering))
<1>1. /\ context \in Seq(Message) /\ newMsgs \in Seq(Message)
      /\ batch \in Seq(Message) /\ steering \in Seq(Message)
  BY Typed DEF LoopShape
<1>2. Taken(steering) \in Seq(Message)
  BY <1>1, TakenLeft
<1>3. texts \in SUBSET Inputs
  <2>1. \A i \in DOMAIN Taken(steering) : Taken(steering)[i].said \subseteq Inputs
    BY <1>2, LenProperties, ElementOfSeq, MessageParts
  <2>2. QED
    BY <2>1 DEF SteerTexts
<1>4. Len(batch) > 0
  BY <1>1 DEF AttachResults, LoopShape, BatchPlaced, LastReply
<1>5. /\ context' = SoftSteer(context \o batch, texts)
      /\ newMsgs' = SoftSteer(newMsgs \o batch, texts)
  BY DEF AttachResults
<1> HIDE DEF texts
<1>6. SoftSteer(context \o batch, texts) = context \o SoftSteer(batch, texts)
  BY <1>1, <1>3, <1>4, SteeredResults
<1>7. SoftSteer(newMsgs \o batch, texts) = newMsgs \o SoftSteer(batch, texts)
  BY <1>1, <1>3, <1>4, SteeredResults
<1>8. /\ SoftSteer(batch, texts) \in Seq(Message)
      /\ Len(SoftSteer(batch, texts)) = Len(batch)
      /\ \A i \in 1..Len(batch) :
           SoftSteer(batch, texts)[i] =
             IF i = Len(batch) THEN [batch[i] EXCEPT !.said = @ \cup texts] ELSE batch[i]
  BY <1>1, <1>3, <1>4, SteeredResults
<1>9. QED
  BY <1>3, <1>4, <1>5, <1>6, <1>7, <1>8 DEF texts

-----------------------------------------------------------------------------
(* The history and what was said *)

\* Without compaction the two are the same.
RetellInv ==
  pc # "idle" => Retells(context, Said) /\ (~setup.compacts => context = Said)

LEMMA SaidAssociative ==
  ASSUME NEW s \in Seq(Message), NEW t \in Seq(Message), NEW u \in Seq(Message)
  PROVE  s \o (t \o u) = (s \o t) \o u
BY SMTT(30), ConcatAssociative

\* What is recorded in the context and in new_messages was said.
LEMMA RecordRetold ==
  ASSUME LoopShape, RetellInv, pc # "idle", NEW ms \in Seq(Message),
         context' = context \o ms, newMsgs' = newMsgs \o ms,
         messages' = messages, setup' = setup
  PROVE  RetellInv'
<1>1. context \in Seq(Message) /\ messages \in Seq(Message) /\ newMsgs \in Seq(Message)
  BY Typed DEF LoopShape
<1>2. Said \in Seq(Message) /\ Said' = Said \o ms
  <2>1. messages \o newMsgs \in Seq(Message)
    BY <1>1, ConcatProperties
  <2>2. messages \o (newMsgs \o ms) = (messages \o newMsgs) \o ms
    BY <1>1, SaidAssociative
  <2>3. QED
    BY <2>1, <2>2 DEF Said
<1>3. Retells(context, Said) /\ (~setup.compacts => context = Said)
  BY DEF RetellInv
<1>4. Retells(context \o ms, Said \o ms)
  BY <1>1, <1>2, <1>3, RetellsMore
<1>5. Retells(context', Said')
  BY <1>2, <1>4
<1>6. ~setup.compacts => context' = Said'
  BY <1>2, <1>3
<1>7. QED
  BY <1>5, <1>6 DEF RetellInv

\* Every step keeps the history what was said.
LEMMA RetellKept == LoopShape /\ RetellInv /\ [Next]_vars => RetellInv'
<1> SUFFICES ASSUME LoopShape, RetellInv, [Next]_vars PROVE RetellInv'
  OBVIOUS
<1>1. /\ messages \in Seq(Message) /\ context \in Seq(Message) /\ newMsgs \in Seq(Message)
      /\ pending \in Seq(Message) /\ batch \in Seq(Message) /\ steering \in Seq(Message)
      /\ setup \in Setups
  BY Typed DEF LoopShape, TypeOK
<1> USE DEF agent, queues, counters, flow, guards, stream, logs
<1>2. ASSUME UNCHANGED <<context, newMsgs, messages, setup>>, pc # "idle" \/ pc' = "idle"
      PROVE  RetellInv'
  BY <1>2 DEF RetellInv, Said
<1>3. ASSUME NEW u, Steer(u) \/ FollowUp(u) PROVE RetellInv'
  BY <1>3 DEF Steer, FollowUp, RetellInv, Said
<1>4. CASE Cancel \/ UNCHANGED vars
  BY <1>4 DEF Cancel, vars, RetellInv, Said
<1>5. ASSUME NEW prompts, BeginPrompt(prompts) PROVE RetellInv'
  <2>1. context' = Said'
    BY <1>5 DEF BeginPrompt, Said
  <2>2. QED
    BY <2>1 DEF RetellInv, Retells
<1>6. CASE FirstPoll \/ CallModel \/ ExecBatch \/ CountTurn \/ PollSteering \/ PollFollowUp
  BY <1>2, <1>6 DEF FirstPoll, CallModel, ExecBatch, CountTurn, PollSteering, PollFollowUp
<1>7. CASE LoopHead
  <2>1. pc # "idle" /\ UNCHANGED <<messages, setup>>
        /\ \/ UNCHANGED <<context, newMsgs>>
           \/ context' = context \o pending /\ newMsgs' = newMsgs \o pending
    BY <1>7 DEF LoopHead, Record
  <2>2. QED
    BY <1>1, <1>2, <2>1, RecordRetold
<1>8. ASSUME NEW r \in Answers,
             \/ RejectDraft(r) \/ ReplyFailed(r) \/ NudgeFreeform(r) \/ ReplyText(r)
             \/ ReplyTruncated(r) \/ ReplyTools(r)
      PROVE  RetellInv'
  <2>1. r \in Message /\ r.n \in 0..MaxCalls /\ User("nudge", {}) \in Message
    BY <1>1, <1>8, AnswersTyped, MessageParts, MadeMessages DEF Tags
  <2>2. Refused(r.n) \in Seq(Message)
    BY <2>1, BatchesTyped DEF ResultsOf
  <2>3. <<r>> \in Seq(Message) /\ <<r, User("nudge", {})>> \in Seq(Message)
    BY <2>1
  <2>4. CASE RejectDraft(r)
    BY <1>2, <2>4 DEF RejectDraft
  <2>5. CASE ReplyFailed(r)
    <3>1. <<r>> \o Refused(r.n) \in Seq(Message)
      BY <2>2, <2>3, ConcatProperties
    <3>2. /\ context' = Append(context, r) \o Refused(r.n)
          /\ newMsgs' = Append(newMsgs, r) \o Refused(r.n)
          /\ pc # "idle" /\ messages' = messages /\ setup' = setup
      BY <2>5 DEF ReplyFailed
    <3>3. Append(context, r) \o Refused(r.n) = context \o (<<r>> \o Refused(r.n))
      BY <1>1, <2>1, <2>2, AppendedBatch
    <3>4. Append(newMsgs, r) \o Refused(r.n) = newMsgs \o (<<r>> \o Refused(r.n))
      BY <1>1, <2>1, <2>2, AppendedBatch
    <3>5. QED
      BY <3>1, <3>2, <3>3, <3>4, RecordRetold
  <2>6. CASE NudgeFreeform(r)
    <3>1. /\ context' = context \o <<r, User("nudge", {})>>
          /\ newMsgs' = newMsgs \o <<r, User("nudge", {})>>
          /\ pc # "idle" /\ messages' = messages /\ setup' = setup
      BY <2>6 DEF NudgeFreeform, Record
    <3>2. QED
      BY <2>3, <3>1, RecordRetold
  <2>7. CASE ReplyText(r) \/ ReplyTruncated(r) \/ ReplyTools(r)
    <3>1. /\ context' = context \o <<r>> /\ newMsgs' = newMsgs \o <<r>>
          /\ pc # "idle" /\ messages' = messages /\ setup' = setup
      BY <2>7 DEF ReplyText, ReplyTruncated, ReplyTools, Record
    <3>2. QED
      BY <2>3, <3>1, RecordRetold
  <2>8. QED
    BY <1>8, <2>4, <2>5, <2>6, <2>7
<1>9. CASE AttachResults
  <2> DEFINE texts == SteerTexts(Taken(steering))
             ms == SoftSteer(batch, texts)
  <2>1. /\ context' = context \o ms /\ newMsgs' = newMsgs \o ms /\ ms \in Seq(Message)
        /\ pc # "idle" /\ messages' = messages /\ setup' = setup
    BY <1>9, Attached DEF AttachResults
  <2> HIDE DEF ms
  <2>2. QED
    BY <2>1, RecordRetold
<1>10. CASE ThrashAdvice \/ ThrashStop
  <2>1. <<User("advice", {})>> \in Seq(Message) /\ <<User("stop", {})>> \in Seq(Message)
    BY MadeMessages DEF Tags
  <2>2. pc # "idle" /\ messages' = messages /\ setup' = setup
    BY <1>10 DEF ThrashAdvice, ThrashStop
  <2>3. CASE ThrashAdvice
    BY <2>1, <2>2, <2>3, RecordRetold DEF ThrashAdvice, Record
  <2>4. CASE ThrashStop
    BY <2>1, <2>2, <2>4, RecordRetold DEF ThrashStop, Record
  <2>5. QED
    BY <1>10, <2>3, <2>4
<1>11. CASE CheckBudgets
  <2>1. pc # "idle" /\ UNCHANGED <<messages, newMsgs, setup>>
        /\ (UNCHANGED context \/ \E cut \in 1..(Len(context) - 1) : Compact(cut))
    BY <1>11 DEF CheckBudgets
  <2>2. Said' = Said /\ Said \in Seq(Message)
    BY <1>1, <2>1, ConcatProperties DEF Said
  <2>3. ASSUME NEW cut \in 1..(Len(context) - 1), Compact(cut) PROVE RetellInv'
    <3>1. Retells(context, Said)
      BY <2>1 DEF RetellInv
    <3>2. Retells(<<User("summary", {})>> \o SubSeq(context, cut + 1, Len(context)), Said)
      BY <1>1, <2>2, <2>3, <3>1, RetellsLess
    <3>3. Retells(context', Said') /\ setup'.compacts
      BY <2>1, <2>2, <2>3, <3>2 DEF Compact
    <3>4. QED
      BY <3>3 DEF RetellInv
  <2>4. QED
    BY <1>2, <2>1, <2>3
<1>12. CASE CompleteRun
  BY <1>12 DEF CompleteRun, RetellInv
<1>13. QED
  BY <1>3, <1>4, <1>5, <1>6, <1>7, <1>8, <1>9, <1>10, <1>11, <1>12
     DEF Next, UserStep, RunStep, StreamReply

\* The history the model sees is what was said, but for a prefix one summary
\* replaced: Record, AttachResults and ReplyFailed put the same messages into the
\* context and new_messages, and compaction only ever cuts a prefix.
THEOREM HistoryRetells == Spec => []HistoryIsWhatWasSaid
<1>1. Init => LoopShape /\ RetellInv
  BY InitShape DEF Init, RetellInv
<1>2. LoopShape /\ RetellInv /\ [Next]_vars => (LoopShape /\ RetellInv)'
  BY ShapeKept, RetellKept
<1>3. LoopShape /\ RetellInv => HistoryIsWhatWasSaid
  BY DEF RetellInv, Retells, HistoryIsWhatWasSaid
<1>4. QED
  BY <1>1, <1>2, <1>3, PTL DEF Spec

-----------------------------------------------------------------------------
(* The session file and what was said *)

\* The file has what is spoken in s, in order and behind all that is older.
Keeps(f, s) ==
  \A i \in DOMAIN s : IsSpoken(s[i]) =>
    \E j \in DOMAIN f : f[j] = s[i] /\ SpokenFrom(f, j) = SpokenFrom(s, i)

\* What is spoken from a place on, and where it stands behind n more messages.
SpokenAt(s, i) == {k \in i..Len(s) : IsSpoken(s[k])}
SpokenBehind(t, n, i) == {k \in (n + i)..(n + Len(t)) : IsSpoken(t[k - n])}

LEMMA FromFinite ==
  ASSUME NEW s \in Seq(Message), NEW i \in Nat
  PROVE  /\ IsFiniteSet(SpokenAt(s, i)) /\ Cardinality(SpokenAt(s, i)) \in Nat
         /\ SpokenFrom(s, i) = Cardinality(SpokenAt(s, i))
<1>1. IsFiniteSet(i..Len(s))
  BY FS_Interval
<1>2. SpokenAt(s, i) \in SUBSET (i..Len(s))
  BY DEF SpokenAt
<1>3. IsFiniteSet(SpokenAt(s, i))
  BY <1>1, <1>2, FS_Subset
<1>4. Cardinality(SpokenAt(s, i)) \in Nat
  BY <1>3, FS_CardinalityType
<1>5. SpokenFrom(s, i) = Cardinality(SpokenAt(s, i))
  BY DEF SpokenFrom, SpokenAt
<1>6. QED
  BY <1>3, <1>4, <1>5

LEMMA FromTyped ==
  ASSUME NEW s \in Seq(Message), NEW i \in Nat
  PROVE  SpokenFrom(s, i) \in Nat
BY FromFinite

\* ... is nothing where nothing is spoken,
LEMMA FromNone ==
  ASSUME NEW t \in Seq(Message), NEW i \in Nat \ {0},
         \A k \in 1..Len(t) : ~IsSpoken(t[k])
  PROVE  SpokenFrom(t, i) = 0
<1>1. SpokenAt(t, i) = {}
  BY DEF SpokenAt
<1>2. SpokenFrom(t, i) = Cardinality(SpokenAt(t, i))
  BY FromFinite
<1>3. QED
  BY <1>1, <1>2, FS_EmptySet

\* ... and does not depend on what stands before it.
LEMMA FromShifted ==
  ASSUME NEW t \in Seq(Message), NEW n \in Nat, NEW i \in Nat \ {0}
  PROVE  /\ IsFiniteSet(SpokenBehind(t, n, i))
         /\ Cardinality(SpokenBehind(t, n, i)) = SpokenFrom(t, i)
<1> DEFINE B == SpokenAt(t, i)
           C == SpokenBehind(t, n, i)
           f == [k \in B |-> k + n]
<1>1. Len(t) \in Nat
  OBVIOUS
<1>2. f \in Bijection(B, C)
  <2>1. \A k \in B : k \in Nat /\ k + n \in C
    BY <1>1 DEF SpokenAt, SpokenBehind
  <2>2. \A c \in C : c - n \in B /\ c = (c - n) + n
    BY <1>1 DEF SpokenAt, SpokenBehind
  <2> HIDE DEF B, C
  <2>3. f \in [B -> C]
    BY <2>1
  <2>4. \A a, b \in B : f[a] = f[b] => a = b
    BY <2>1
  <2>5. \A c \in C : \E b \in B : f[b] = c
    BY <2>2
  <2>6. QED
    BY <2>3, <2>4, <2>5, Fun_IsBij
<1>3. ExistsBijection(B, C)
  BY <1>2 DEF ExistsBijection
<1>4. IsFiniteSet(B) /\ Cardinality(B) = SpokenFrom(t, i)
  BY FromFinite
<1> HIDE DEF B, C
<1>5. IsFiniteSet(C) /\ Cardinality(C) = SpokenFrom(t, i)
  BY <1>3, <1>4, FS_Bijection
<1>6. QED
  BY <1>5 DEF C

LEMMA FromBehind ==
  ASSUME NEW s \in Seq(Message), NEW t \in Seq(Message), NEW i \in 1..Len(t)
  PROVE  SpokenFrom(s \o t, Len(s) + i) = SpokenFrom(t, i)
<1> DEFINE n == Len(s)
           u == s \o t
<1>1. /\ n \in Nat /\ Len(t) \in Nat /\ Len(u) = n + Len(t) /\ u \in Seq(Message)
      /\ \A k \in 1..(n + Len(t)) : u[k] = IF k <= n THEN s[k] ELSE t[k - n]
  BY ConcatProperties
<1> HIDE DEF n, u
<1>2. i \in Nat \ {0} /\ n + i \in Nat
  BY <1>1
<1>3. SpokenAt(u, n + i) = SpokenBehind(t, n, i)
  <2>1. \A k \in (n + i)..(n + Len(t)) : k \in 1..(n + Len(t)) /\ ~(k <= n)
    BY <1>1
  <2>2. \A k \in (n + i)..(n + Len(t)) : u[k] = t[k - n]
    BY <1>1, <2>1
  <2>3. QED
    BY <1>1, <2>2 DEF SpokenAt, SpokenBehind
<1>4. Cardinality(SpokenBehind(t, n, i)) = SpokenFrom(t, i)
  BY <1>1, <1>2, FromShifted
<1>5. SpokenFrom(u, n + i) = Cardinality(SpokenAt(u, n + i))
  BY <1>1, <1>2, FromFinite
<1>6. SpokenFrom(u, n + i) = SpokenFrom(t, i)
  BY <1>3, <1>4, <1>5
<1>7. QED
  BY <1>6 DEF n, u

LEMMA FromConcat ==
  ASSUME NEW s \in Seq(Message), NEW t \in Seq(Message), NEW i \in 1..Len(s)
  PROVE  SpokenFrom(s \o t, i) = SpokenFrom(s, i) + SpokenFrom(t, 1)
<1> DEFINE n == Len(s)
           u == s \o t
           A == SpokenAt(s, i)
           C == SpokenBehind(t, n, 1)
<1>1. /\ n \in Nat /\ Len(t) \in Nat /\ Len(u) = n + Len(t) /\ u \in Seq(Message)
      /\ \A k \in 1..(n + Len(t)) : u[k] = IF k <= n THEN s[k] ELSE t[k - n]
  BY ConcatProperties
<1>2. i \in Nat /\ i \in 1..n /\ 1 \in Nat \ {0}
  BY <1>1
<1>3. IsFiniteSet(A) /\ Cardinality(A) \in Nat /\ SpokenFrom(s, i) = Cardinality(A)
  BY <1>2, FromFinite
<1> HIDE DEF u, n
<1>4. IsFiniteSet(C) /\ Cardinality(C) = SpokenFrom(t, 1)
  BY <1>1, <1>2, FromShifted
<1>5. SpokenFrom(t, 1) \in Nat
  BY <1>2, FromTyped
<1>6. SpokenFrom(u, i) = Cardinality(SpokenAt(u, i))
  BY <1>1, <1>2, FromFinite
<1>7. A = {k \in i..n : IsSpoken(s[k])}
  BY DEF SpokenAt, n
<1>8. C = {k \in (n + 1)..(n + Len(t)) : IsSpoken(t[k - n])}
  BY DEF SpokenBehind
<1> HIDE DEF A, C
<1>9. SpokenAt(u, i) = A \cup C
  <2>1. \A k \in i..n : u[k] = s[k]
    BY <1>1, <1>2
  <2>2. \A k \in (n + 1)..(n + Len(t)) : u[k] = t[k - n]
    BY <1>1
  <2>3. i..Len(u) = (i..n) \cup ((n + 1)..(n + Len(t)))
    BY <1>1, <1>2
  <2>4. SpokenAt(u, i) = {k \in i..Len(u) : IsSpoken(u[k])}
    BY DEF SpokenAt
  <2>5. QED
    BY <1>7, <1>8, <2>1, <2>2, <2>3, <2>4
<1>10. A \cap C = {}
  <2>1. \A k \in A : k <= n
    BY <1>1, <1>2, <1>7
  <2>2. \A k \in C : k \in Int /\ ~(k <= n)
    BY <1>1, <1>8
  <2>3. QED
    BY <2>1, <2>2
<1>11. Cardinality(A \cup C) = Cardinality(A) + Cardinality(C) - Cardinality({})
  BY <1>3, <1>4, <1>10, FS_Union
<1>12. Cardinality({}) = 0
  BY FS_EmptySet
<1>13. SpokenFrom(u, i) = SpokenFrom(s, i) + SpokenFrom(t, 1)
  BY <1>3, <1>4, <1>5, <1>6, <1>9, <1>11, <1>12
<1>14. QED
  BY <1>13 DEF u

\* The parts of a concatenation.
LEMMA ConcatParts ==
  ASSUME NEW s \in Seq(Message), NEW t \in Seq(Message)
  PROVE  /\ Len(s) \in Nat /\ Len(t) \in Nat
         /\ s \o t \in Seq(Message) /\ Len(s \o t) = Len(s) + Len(t)
         /\ \A k \in 1..Len(s) : (s \o t)[k] = s[k]
         /\ \A k \in 1..Len(t) : (s \o t)[Len(s) + k] = t[k]
<1>1. /\ Len(s) \in Nat /\ Len(t) \in Nat
      /\ s \o t \in Seq(Message) /\ Len(s \o t) = Len(s) + Len(t)
      /\ \A k \in 1..(Len(s) + Len(t)) :
           (s \o t)[k] = IF k <= Len(s) THEN s[k] ELSE t[k - Len(s)]
  BY ConcatProperties
<1>2. ASSUME NEW k \in 1..Len(t) PROVE (s \o t)[Len(s) + k] = t[k]
  <2>1. Len(s) + k \in 1..(Len(s) + Len(t)) /\ ~(Len(s) + k <= Len(s))
        /\ (Len(s) + k) - Len(s) = k
    BY <1>1
  <2>2. QED
    BY <1>1, <2>1
<1>3. QED
  BY <1>1, <1>2

\* What is recorded in both is kept,
LEMMA KeepsBoth ==
  ASSUME NEW f \in Seq(Message), NEW s \in Seq(Message), NEW ms \in Seq(Message),
         Keeps(f, s)
  PROVE  Keeps(f \o ms, s \o ms)
<1>1. /\ Len(s) \in Nat /\ Len(f) \in Nat /\ Len(ms) \in Nat
      /\ s \o ms \in Seq(Message) /\ Len(s \o ms) = Len(s) + Len(ms)
      /\ f \o ms \in Seq(Message) /\ Len(f \o ms) = Len(f) + Len(ms)
      /\ \A k \in 1..Len(s) : (s \o ms)[k] = s[k]
      /\ \A k \in 1..Len(f) : (f \o ms)[k] = f[k]
      /\ \A k \in 1..Len(ms) : (s \o ms)[Len(s) + k] = ms[k]
      /\ \A k \in 1..Len(ms) : (f \o ms)[Len(f) + k] = ms[k]
  BY ConcatParts
<1>2. DOMAIN (s \o ms) = 1..(Len(s) + Len(ms)) /\ DOMAIN (f \o ms) = 1..(Len(f) + Len(ms))
      /\ DOMAIN s = 1..Len(s) /\ DOMAIN f = 1..Len(f)
  BY <1>1, LenProperties
<1> SUFFICES ASSUME NEW i \in 1..(Len(s) + Len(ms)), IsSpoken((s \o ms)[i])
             PROVE  \E j \in 1..(Len(f) + Len(ms)) :
                      /\ (f \o ms)[j] = (s \o ms)[i]
                      /\ SpokenFrom(f \o ms, j) = SpokenFrom(s \o ms, i)
  BY <1>2 DEF Keeps
<1>3. CASE i <= Len(s)
  <2>1. i \in 1..Len(s) /\ (s \o ms)[i] = s[i]
    BY <1>1, <1>3
  <2>2. PICK j \in 1..Len(f) : f[j] = s[i] /\ SpokenFrom(f, j) = SpokenFrom(s, i)
    BY <1>2, <2>1 DEF Keeps
  <2>3. SpokenFrom(f \o ms, j) = SpokenFrom(s \o ms, i)
    BY <2>1, <2>2, FromConcat
  <2>4. j \in 1..(Len(f) + Len(ms)) /\ (f \o ms)[j] = (s \o ms)[i]
    BY <1>1, <2>1, <2>2
  <2>5. QED
    BY <2>3, <2>4
<1>4. CASE i > Len(s)
  <2> DEFINE k == i - Len(s)
             j == Len(f) + k
  <2>1. k \in 1..Len(ms) /\ i = Len(s) + k /\ j \in 1..(Len(f) + Len(ms))
    BY <1>1, <1>4
  <2> HIDE DEF k
  <2>2. (f \o ms)[j] = (s \o ms)[i]
    BY <1>1, <2>1
  <2>3. SpokenFrom(f \o ms, j) = SpokenFrom(s \o ms, i)
    BY <2>1, FromBehind
  <2>4. QED
    BY <2>1, <2>2, <2>3
<1>5. QED
  BY <1>1, <1>3, <1>4

\* ... and what is not spoken makes no difference to either.
LEMMA KeepsSilent ==
  ASSUME NEW f \in Seq(Message), NEW s \in Seq(Message), NEW t \in Seq(Message),
         Keeps(f, s), \A k \in 1..Len(t) : ~IsSpoken(t[k])
  PROVE  Keeps(f \o t, s) /\ Keeps(f, s \o t)
<1>1. /\ Len(s) \in Nat /\ Len(f) \in Nat /\ Len(t) \in Nat
      /\ s \o t \in Seq(Message) /\ Len(s \o t) = Len(s) + Len(t)
      /\ f \o t \in Seq(Message) /\ Len(f \o t) = Len(f) + Len(t)
      /\ \A k \in 1..Len(s) : (s \o t)[k] = s[k]
      /\ \A k \in 1..Len(f) : (f \o t)[k] = f[k]
      /\ \A k \in 1..Len(t) : (s \o t)[Len(s) + k] = t[k]
  BY ConcatParts
<1>2. DOMAIN (s \o t) = 1..(Len(s) + Len(t)) /\ DOMAIN (f \o t) = 1..(Len(f) + Len(t))
      /\ DOMAIN s = 1..Len(s) /\ DOMAIN f = 1..Len(f)
  BY <1>1, LenProperties
<1>3. SpokenFrom(t, 1) = 0
  BY FromNone
<1>4. \A k \in 1..Len(s) : SpokenFrom(s \o t, k) = SpokenFrom(s, k)
  <2>1. \A k \in 1..Len(s) : SpokenFrom(s, k) \in Nat
    BY FromTyped, <1>1
  <2>2. QED
    BY <1>3, <2>1, FromConcat
<1>5. \A k \in 1..Len(f) : SpokenFrom(f \o t, k) = SpokenFrom(f, k)
  <2>1. \A k \in 1..Len(f) : SpokenFrom(f, k) \in Nat
    BY FromTyped, <1>1
  <2>2. QED
    BY <1>3, <2>1, FromConcat
<1>6. \A i \in 1..Len(s) : IsSpoken(s[i]) =>
        \E j \in 1..Len(f) : f[j] = s[i] /\ SpokenFrom(f, j) = SpokenFrom(s, i)
  BY <1>2 DEF Keeps
<1>7. Keeps(f \o t, s)
  <2>1. ASSUME NEW i \in 1..Len(s), IsSpoken(s[i])
        PROVE  \E j \in 1..(Len(f) + Len(t)) :
                 (f \o t)[j] = s[i] /\ SpokenFrom(f \o t, j) = SpokenFrom(s, i)
    <3>1. PICK j \in 1..Len(f) : f[j] = s[i] /\ SpokenFrom(f, j) = SpokenFrom(s, i)
      BY <1>6, <2>1
    <3>2. j \in 1..(Len(f) + Len(t)) /\ (f \o t)[j] = s[i]
      BY <1>1, <3>1
    <3>3. QED
      BY <1>5, <3>1, <3>2
  <2>2. QED
    BY <1>2, <2>1 DEF Keeps
<1>8. Keeps(f, s \o t)
  <2>1. ASSUME NEW i \in 1..(Len(s) + Len(t)), IsSpoken((s \o t)[i])
        PROVE  \E j \in 1..Len(f) :
                 f[j] = (s \o t)[i] /\ SpokenFrom(f, j) = SpokenFrom(s \o t, i)
    <3>1. i \in 1..Len(s)
      <4>1. i > Len(s) => i - Len(s) \in 1..Len(t) /\ i = Len(s) + (i - Len(s))
        BY <1>1
      <4>2. i > Len(s) => ~IsSpoken((s \o t)[i])
        BY <1>1, <4>1
      <4>3. QED
        BY <1>1, <2>1, <4>2
    <3>2. (s \o t)[i] = s[i]
      BY <1>1, <3>1
    <3>3. PICK j \in 1..Len(f) : f[j] = s[i] /\ SpokenFrom(f, j) = SpokenFrom(s, i)
      BY <1>6, <2>1, <3>1, <3>2
    <3>4. QED
      BY <1>4, <3>1, <3>2, <3>3
  <2>2. QED
    BY <1>2, <2>1 DEF Keeps
<1>9. QED
  BY <1>7, <1>8

\* A step that records the same in both.
LEMMA RecordKept ==
  ASSUME LoopShape, Keeps(file, newMsgs), NEW ms \in Seq(Message),
         newMsgs' = newMsgs \o ms, file' = file \o ms
  PROVE  Keeps(file, newMsgs)'
<1>1. newMsgs \in Seq(Message) /\ file \in Seq(Message)
  BY Typed DEF LoopShape
<1>2. Keeps(file \o ms, newMsgs \o ms)
  BY <1>1, KeepsBoth
<1>3. QED
  BY <1>2 DEF Keeps

\* Every step keeps the dialogue in the file.
LEMMA DialogueKept ==
  LoopShape /\ Keeps(file, newMsgs) /\ [Next]_vars => Keeps(file, newMsgs)'
<1> SUFFICES ASSUME LoopShape, Keeps(file, newMsgs), [Next]_vars
             PROVE  Keeps(file, newMsgs)'
  OBVIOUS
<1>1. /\ newMsgs \in Seq(Message) /\ file \in Seq(Message)
      /\ pending \in Seq(Message) /\ batch \in Seq(Message) /\ setup \in Setups
  BY Typed DEF LoopShape, TypeOK
<1> USE DEF agent, queues, counters, flow, guards, stream, logs
<1>2. ASSUME UNCHANGED <<newMsgs, file>> PROVE Keeps(file, newMsgs)'
  BY <1>2 DEF Keeps
<1>3. ASSUME newMsgs' = <<>> PROVE Keeps(file, newMsgs)'
  BY <1>3 DEF Keeps
<1>4. ASSUME NEW u, Steer(u) \/ FollowUp(u) PROVE Keeps(file, newMsgs)'
  BY <1>2, <1>4 DEF Steer, FollowUp
<1>5. CASE Cancel \/ UNCHANGED vars
  BY <1>2, <1>5 DEF Cancel, vars
<1>6. ASSUME NEW prompts \in {<<>>, <<User("prompt", {})>>}, BeginPrompt(prompts)
      PROVE  Keeps(file, newMsgs)'
  <2>1. newMsgs = <<>>
    BY <1>6 DEF BeginPrompt, LoopShape, LocalsPlaced
  <2>2. prompts \in Seq(Message)
    <3>1. User("prompt", {}) \in Message
      BY MadeMessages DEF Tags
    <3>2. <<>> \in Seq(Message) /\ <<User("prompt", {})>> \in Seq(Message)
      BY <3>1
    <3>3. QED
      BY <1>6, <3>2
  <2>3. newMsgs' = newMsgs \o prompts /\ file' = file \o prompts
    BY <1>6, <2>1, <2>2 DEF BeginPrompt
  <2>4. QED
    BY <2>2, <2>3, RecordKept
<1>7. CASE FirstPoll \/ CallModel \/ ExecBatch \/ CountTurn \/ PollSteering
           \/ PollFollowUp \/ CheckBudgets
  BY <1>2, <1>7 DEF FirstPoll, CallModel, ExecBatch, CountTurn, PollSteering,
                    PollFollowUp, CheckBudgets
<1>8. CASE LoopHead
  <2>1. \/ UNCHANGED <<newMsgs, file>>
        \/ newMsgs' = newMsgs \o pending /\ file' = file \o pending
    BY <1>8 DEF LoopHead, Record
  <2>2. QED
    BY <1>1, <1>2, <2>1, RecordKept
<1>9. ASSUME NEW r \in Answers,
             \/ RejectDraft(r) \/ ReplyFailed(r) \/ NudgeFreeform(r) \/ ReplyText(r)
             \/ ReplyTruncated(r) \/ ReplyTools(r)
      PROVE  Keeps(file, newMsgs)'
  <2>1. r \in Message /\ r.n \in 0..MaxCalls /\ User("nudge", {}) \in Message
    BY <1>1, <1>9, AnswersTyped, MessageParts, MadeMessages DEF Tags
  <2>2. <<r>> \in Seq(Message) /\ <<r, User("nudge", {})>> \in Seq(Message)
    BY <2>1
  <2>3. CASE RejectDraft(r)
    <3> DEFINE d == [r EXCEPT !.tag = "draft"]
    <3>1. d \in Message /\ ~IsSpoken(d)
      BY <2>1 DEF Message, Tags, IsSpoken
    <3>2. file' = Append(file, d) /\ newMsgs' = newMsgs
      BY <2>3 DEF RejectDraft
    <3> HIDE DEF d
    <3>3. <<d>> \in Seq(Message) /\ Append(file, d) = file \o <<d>>
          /\ \A k \in 1..Len(<<d>>) : ~IsSpoken(<<d>>[k])
      BY <1>1, <3>1, AppendIsConcat
    <3>4. Keeps(file \o <<d>>, newMsgs)
      BY <1>1, <3>3, KeepsSilent
    <3>5. QED
      BY <3>2, <3>3, <3>4 DEF Keeps
  <2>4. CASE ReplyFailed(r)
    <3>1. /\ newMsgs' = Append(newMsgs, r) \o Refused(r.n)
          /\ file' = Append(file, r)
      BY <2>4 DEF ReplyFailed
    <3>2. Append(newMsgs, r) = newMsgs \o <<r>> /\ Append(file, r) = file \o <<r>>
          /\ newMsgs \o <<r>> \in Seq(Message) /\ file \o <<r>> \in Seq(Message)
      BY <1>1, <2>1, <2>2, AppendIsConcat, ConcatProperties
    <3>3. Keeps(file \o <<r>>, newMsgs \o <<r>>)
      BY <1>1, <2>2, KeepsBoth
    <3>4. Refused(r.n) \in Seq(Message)
          /\ \A k \in 1..Len(Refused(r.n)) : ~IsSpoken(Refused(r.n)[k])
      BY <2>1, BatchesTyped DEF ResultsOf, IsSpoken
    <3>5. Keeps(file \o <<r>>, (newMsgs \o <<r>>) \o Refused(r.n))
      BY <3>2, <3>3, <3>4, KeepsSilent
    <3>6. QED
      BY <3>1, <3>2, <3>5 DEF Keeps
  <2>5. CASE NudgeFreeform(r)
    BY <2>2, <2>5, RecordKept DEF NudgeFreeform, Record
  <2>6. CASE ReplyText(r) \/ ReplyTruncated(r) \/ ReplyTools(r)
    BY <2>2, <2>6, RecordKept DEF ReplyText, ReplyTruncated, ReplyTools, Record
  <2>7. QED
    BY <1>9, <2>3, <2>4, <2>5, <2>6
<1>10. CASE AttachResults
  <2> DEFINE texts == SteerTexts(Taken(steering))
             ms == SoftSteer(batch, texts)
  <2>1. /\ newMsgs' = newMsgs \o ms /\ ms \in Seq(Message) /\ Len(ms) = Len(batch)
        /\ texts \in SUBSET Inputs
        /\ \A i \in 1..Len(batch) :
             ms[i] = IF i = Len(batch) THEN [batch[i] EXCEPT !.said = @ \cup texts]
                                       ELSE batch[i]
    BY <1>10, Attached
  <2>2. file' = file \o batch
    BY <1>10 DEF AttachResults
  <2>3. \A i \in 1..Len(batch) : batch[i] \in Message /\ batch[i].role = "result"
    BY <1>1, <1>10, ElementOfSeq DEF AttachResults, LoopShape, BatchPlaced, ResultsOf
  <2> HIDE DEF ms, texts
  <2>4. \A i \in 1..Len(batch) : ~IsSpoken(batch[i]) /\ ~IsSpoken(ms[i])
    BY <2>1, <2>3 DEF Message, IsSpoken
  <2>5. Keeps(file \o batch, newMsgs) /\ file \o batch \in Seq(Message)
    BY <1>1, <2>4, KeepsSilent, ConcatProperties
  <2>6. Keeps(file \o batch, newMsgs \o ms)
    BY <1>1, <2>1, <2>4, <2>5, KeepsSilent
  <2>7. QED
    BY <2>1, <2>2, <2>6 DEF Keeps
<1>11. CASE ThrashAdvice \/ ThrashStop
  <2>1. <<User("advice", {})>> \in Seq(Message) /\ <<User("stop", {})>> \in Seq(Message)
    BY MadeMessages DEF Tags
  <2>2. CASE ThrashAdvice
    BY <2>1, <2>2, RecordKept DEF ThrashAdvice, Record
  <2>3. CASE ThrashStop
    BY <2>1, <2>3, RecordKept DEF ThrashStop, Record
  <2>4. QED
    BY <1>11, <2>2, <2>3
<1>12. CASE CompleteRun
  BY <1>3, <1>12 DEF CompleteRun
<1>13. QED
  BY <1>4, <1>5, <1>6, <1>7, <1>8, <1>9, <1>10, <1>11, <1>12
     DEF Next, UserStep, RunStep, StreamReply

\* The session file gains what is said in a run, in order and once each: every
\* path that adds to new_messages emits the same message with its MessageEnd, but
\* for the results that ReplyFailed synthesizes, and a rejected draft is on top.
THEOREM DialogueIsKept == Spec => []FileKeepsDialogue
<1>1. Init => LoopShape /\ Keeps(file, newMsgs)
  BY InitShape DEF Init, Keeps
<1>2. LoopShape /\ Keeps(file, newMsgs) /\ [Next]_vars => (LoopShape /\ Keeps(file, newMsgs))'
  BY ShapeKept, DialogueKept
<1>3. Keeps(file, newMsgs) => FileKeepsDialogue
  BY DEF Keeps, FileKeepsDialogue
<1>4. QED
  BY <1>1, <1>2, <1>3, PTL DEF Spec

-----------------------------------------------------------------------------
(* Calls and their results *)

\* While a batch runs, the last message of the context still waits for results.
AnsweredInv ==
  /\ Answered(messages)
  /\ pc \notin {"exec", "attach"} => Answered(context)
  /\ pc \in {"exec", "attach"} => Asked(context)

\* User messages and replies without calls need no results.
LEMMA PlainRecorded ==
  ASSUME NEW s \in Seq(Message), Answered(s), NEW t \in Seq(Message),
         \A i \in 1..Len(t) : t[i].role # "result" /\ (t[i].role = "assistant" => t[i].n = 0)
  PROVE  Answered(s \o t)
BY AnsweredPlain, AnsweredConcat

\* A message of the loop to the model needs none.
LEMMA UserRecorded ==
  ASSUME NEW s \in Seq(Message), Answered(s), NEW tag \in Tags
  PROVE  Answered(s \o <<User(tag, {})>>)
<1>1. User(tag, {}) \in Message /\ User(tag, {}).role = "user"
  BY MadeMessages DEF User
<1> DEFINE t == <<User(tag, {})>>
<1>2. /\ t \in Seq(Message) /\ Len(t) = 1
      /\ \A i \in 1..Len(t) : t[i].role = "user"
  BY <1>1
<1> HIDE DEF t
<1>3. Answered(s \o t)
  BY <1>2, PlainRecorded
<1>4. QED
  BY <1>3 DEF t

\* Every step keeps calls and results together.
LEMMA AnsweredKept == LoopShape /\ AnsweredInv /\ [Next]_vars => AnsweredInv'
<1> SUFFICES ASSUME LoopShape, AnsweredInv, [Next]_vars PROVE AnsweredInv'
  OBVIOUS
<1>1. /\ messages \in Seq(Message) /\ context \in Seq(Message)
      /\ pending \in Seq(Message) /\ batch \in Seq(Message) /\ setup \in Setups
  BY Typed DEF LoopShape, TypeOK
<1>2. /\ Answered(messages)
      /\ pc \notin {"exec", "attach"} => Answered(context)
      /\ pc \in {"exec", "attach"} => Asked(context)
  BY DEF AnsweredInv
<1> USE DEF agent, queues, counters, flow, guards, stream, logs
<1>3. ASSUME UNCHANGED <<context, messages>>,
             pc \in {"exec", "attach"} <=> pc' \in {"exec", "attach"}
      PROVE  AnsweredInv'
  BY <1>2, <1>3 DEF AnsweredInv
<1>4. ASSUME messages' = messages, Answered(context'), pc' \notin {"exec", "attach"}
      PROVE  AnsweredInv'
  BY <1>2, <1>4 DEF AnsweredInv
<1>5. ASSUME messages' = messages, Asked(context'), pc' \in {"exec", "attach"}
      PROVE  AnsweredInv'
  BY <1>2, <1>5 DEF AnsweredInv
<1>6. ASSUME NEW u, Steer(u) \/ FollowUp(u) PROVE AnsweredInv'
  BY <1>3, <1>6 DEF Steer, FollowUp
<1>7. CASE Cancel \/ UNCHANGED vars
  BY <1>3, <1>7 DEF Cancel, vars
<1>8. ASSUME NEW prompts \in {<<>>, <<User("prompt", {})>>}, BeginPrompt(prompts)
      PROVE  AnsweredInv'
  <2>1. context' = messages \o prompts /\ messages' = messages /\ pc' = "start"
    BY <1>8 DEF BeginPrompt
  <2>2. CASE prompts = <<>>
    <3>1. messages \o <<>> = messages
      BY <1>1, ConcatEmptySeq
    <3>2. QED
      BY <1>2, <1>4, <2>1, <2>2, <3>1
  <2>3. CASE prompts = <<User("prompt", {})>>
    BY <1>1, <1>2, <1>4, <2>1, <2>3, UserRecorded DEF Tags
  <2>4. QED
    BY <1>8, <2>2, <2>3
<1>9. CASE FirstPoll \/ CallModel \/ ExecBatch \/ CountTurn \/ PollSteering \/ PollFollowUp
  BY <1>3, <1>9 DEF FirstPoll, CallModel, ExecBatch, CountTurn, PollSteering, PollFollowUp, End
<1>10. CASE LoopHead
  <2>1. \A i \in 1..Len(pending) : pending[i].role = "user"
    BY DEF LoopShape, QueuesHold
  <2>2. Answered(context \o pending)
    <3>1. Answered(context)
      BY <1>2, <1>10 DEF LoopHead
    <3>2. QED
      BY <1>1, <2>1, <3>1, PlainRecorded
  <2>3. /\ messages' = messages /\ pc' \notin {"exec", "attach"}
        /\ context' \in {context, context \o pending} /\ pc = "loop"
    BY <1>10 DEF LoopHead, Record
  <2>4. QED
    BY <1>2, <1>4, <2>2, <2>3
<1>11. ASSUME NEW r \in Answers,
              \/ RejectDraft(r) \/ ReplyFailed(r) \/ NudgeFreeform(r) \/ ReplyText(r)
              \/ ReplyTruncated(r) \/ ReplyTools(r)
       PROVE  AnsweredInv'
  <2>1. r \in Message /\ r.n \in 0..MaxCalls /\ r.role = "assistant"
        /\ (r.tag \in {"text", "freeform"} => r.n = 0)
    BY <1>1, <1>11, AnswersTyped, MessageParts
  <2>2. pc = "streaming" /\ Answered(context) /\ messages' = messages
    BY <1>2, <1>11 DEF RejectDraft, ReplyFailed, NudgeFreeform, ReplyText,
                       ReplyTruncated, ReplyTools
  <2>3. Asked(context \o <<r>>) /\ (context \o <<r>>)[Len(context \o <<r>>)] = r
    BY <1>1, <2>1, <2>2, AskedReply
  <2>4. <<r>> \in Seq(Message) /\ context \o <<r>> \in Seq(Message)
    BY <1>1, <2>1, ConcatProperties
  <2>5. CASE RejectDraft(r)
    BY <1>3, <2>5 DEF RejectDraft
  <2>6. CASE ReplyFailed(r)
    <3>1. ResultsOf(Refused(r.n), r.n)
      BY <2>1, BatchesTyped
    <3>2. /\ Refused(r.n) \in Seq(Message) /\ Len(Refused(r.n)) = r.n
          /\ \A k \in 1..Len(Refused(r.n)) :
               Refused(r.n)[k].role = "result" /\ Refused(r.n)[k].idx = k
      BY <3>1 DEF ResultsOf
    <3>3. Answered((context \o <<r>>) \o Refused(r.n))
      BY <2>3, <2>4, <3>2, AskedResults
    <3>4. Append(context, r) = context \o <<r>>
      BY <1>1, <2>1, AppendIsConcat
    <3>5. context' = Append(context, r) \o Refused(r.n) /\ pc' = "done"
      BY <2>6 DEF ReplyFailed, End
    <3>6. QED
      BY <1>4, <2>2, <3>3, <3>4, <3>5
  <2>7. CASE NudgeFreeform(r)
    <3> DEFINE t == <<r, User("nudge", {})>>
    <3>1. User("nudge", {}) \in Message /\ User("nudge", {}).role = "user" /\ r.n = 0
      BY <2>1, <2>7, MadeMessages DEF Tags, User, NudgeFreeform
    <3>2. /\ t \in Seq(Message) /\ Len(t) = 2 /\ t[1] = r /\ t[2] = User("nudge", {})
      BY <2>1, <3>1
    <3>3. context' = context \o t /\ pc' \in {"loop", "done"}
      BY <2>7 DEF NudgeFreeform, Record, End
    <3> HIDE DEF t
    <3>4. \A i \in 1..Len(t) : t[i].role # "result" /\ (t[i].role = "assistant" => t[i].n = 0)
      BY <2>1, <3>1, <3>2
    <3>5. Answered(context \o t)
      BY <1>1, <2>2, <3>2, <3>4, PlainRecorded
    <3>6. QED
      BY <1>4, <2>2, <3>3, <3>5
  <2>8. CASE ReplyText(r)
    <3> DEFINE t == <<r>>
    <3>1. t \in Seq(Message) /\ Len(t) = 1 /\ t[1] = r /\ r.n = 0
      BY <2>1, <2>8 DEF ReplyText
    <3>2. context' = context \o t /\ pc' = "turnEnd"
      BY <2>8 DEF ReplyText, Record
    <3> HIDE DEF t
    <3>3. \A i \in 1..Len(t) : t[i].role # "result" /\ (t[i].role = "assistant" => t[i].n = 0)
      BY <2>1, <3>1
    <3>4. Answered(context \o t)
      BY <1>1, <2>2, <3>1, <3>3, PlainRecorded
    <3>5. QED
      BY <1>4, <2>2, <3>2, <3>4
  <2>9. CASE ReplyTruncated(r) \/ ReplyTools(r)
    BY <1>5, <2>2, <2>3, <2>9 DEF ReplyTruncated, ReplyTools, Record
  <2>10. QED
    BY <1>11, <2>5, <2>6, <2>7, <2>8, <2>9
<1>12. CASE AttachResults
  <2> DEFINE texts == SteerTexts(Taken(steering))
             ms == SoftSteer(batch, texts)
  <2>1. /\ ms \in Seq(Message) /\ context' = context \o ms
        /\ Len(ms) = Len(batch)
        /\ \A i \in 1..Len(batch) :
             ms[i] = IF i = Len(batch) THEN [batch[i] EXCEPT !.said = @ \cup texts]
                                       ELSE batch[i]
    BY <1>12, Attached
  <2>2. pc = "attach" /\ pc' = "turnEnd" /\ messages' = messages
    BY <1>12 DEF AttachResults
  <2> HIDE DEF ms, texts
  <2>3. ResultsOf(batch, Len(batch)) /\ context[Len(context)].n = Len(batch)
    BY <2>2 DEF LoopShape, BatchPlaced, LastReply
  <2>4. \A k \in 1..Len(batch) : /\ batch[k] \in Message
                                 /\ batch[k].role = "result" /\ batch[k].idx = k
    BY <1>1, <2>3, ElementOfSeq DEF ResultsOf
  <2>5. ASSUME NEW k \in 1..Len(ms) PROVE ms[k].role = "result" /\ ms[k].idx = k
    <3>1. k \in 1..Len(batch)
      BY <2>1, <2>5
    <3>2. batch[k] \in Message /\ batch[k].role = "result" /\ batch[k].idx = k
      BY <2>4, <3>1
    <3> DEFINE m == batch[k]
    <3>3. ms[k] \in {[m EXCEPT !.said = @ \cup texts], m}
      BY <2>1, <3>1
    <3>4. m \in Message /\ m.role = "result" /\ m.idx = k
      BY <3>2
    <3> HIDE DEF m
    <3>5. [m EXCEPT !.said = @ \cup texts].role = m.role
          /\ [m EXCEPT !.said = @ \cup texts].idx = m.idx
      BY <3>4 DEF Message
    <3>6. QED
      BY <3>3, <3>4, <3>5
  <2>6. Answered(context \o ms)
    BY <1>1, <1>2, <2>1, <2>2, <2>3, <2>5, AskedResults
  <2>7. QED
    BY <1>4, <2>1, <2>2, <2>6
<1>13. CASE ThrashAdvice \/ ThrashStop
  <2>1. /\ messages' = messages /\ pc' \in {"loop", "done"} /\ pc = "turnEnd"
        /\ \/ context' = context \o <<User("advice", {})>>
           \/ context' = context \o <<User("stop", {})>>
    BY <1>13 DEF ThrashAdvice, ThrashStop, Record, End
  <2>2. Answered(context)
    BY <1>2, <2>1
  <2>3. Answered(context \o <<User("advice", {})>>) /\ Answered(context \o <<User("stop", {})>>)
    BY <1>1, <2>2, UserRecorded DEF Tags
  <2>4. QED
    BY <1>4, <2>1, <2>3
<1>14. CASE CheckBudgets
  <2>1. /\ pc = "budget" /\ pc' \in {"done", "poll"} /\ messages' = messages
        /\ (UNCHANGED context \/ \E cut \in 1..(Len(context) - 1) : Compact(cut))
    BY <1>14 DEF CheckBudgets, End
  <2>2. Answered(context)
    BY <1>2, <2>1
  <2>3. ASSUME NEW cut \in 1..(Len(context) - 1), Compact(cut) PROVE Answered(context')
    <3> DEFINE tail == SubSeq(context, cut + 1, Len(context))
               one == <<User("summary", {})>>
    <3>1. cut \in 0..Len(context)
      BY <1>1, <2>3
    <3>2. ToolPairsIntact(tail) /\ context' = one \o tail
      BY <2>3 DEF Compact
    <3>3. Answered(tail) /\ tail \in Seq(Message)
      BY <1>1, <2>2, <3>1, <3>2, AnsweredTail, TailFrom
    <3>4. one \in Seq(Message) /\ Len(one) = 1 /\ one[1].role = "user"
      BY SummaryMessage DEF User
    <3> HIDE DEF tail, one
    <3>5. Answered(one)
      BY <3>4, AnsweredPlain
    <3>6. QED
      BY <3>2, <3>3, <3>4, <3>5, AnsweredConcat
  <2>4. QED
    BY <1>4, <2>1, <2>2, <2>3
<1>15. CASE CompleteRun
  <2>1. pc = "done" /\ messages' = context /\ context' = <<>> /\ pc' = "idle"
    BY <1>15 DEF CompleteRun
  <2>2. Answered(<<>>)
    BY DEF Answered
  <2>3. QED
    BY <1>2, <2>1, <2>2 DEF AnsweredInv
<1>16. QED
  BY <1>6, <1>7, <1>8, <1>9, <1>10, <1>11, <1>12, <1>13, <1>14, <1>15
     DEF Next, UserStep, RunStep, StreamReply

\* The histories a session file yields are answered.
ResumesAnswered == \A h \in Resumable : Answered(h)

\* Whatever mix of errors, truncations, thrash stops, steers, budgets and
\* compactions its runs go through, every call of a history has its result
\* whenever the model can be called, given that those resumed are answered.
THEOREM CallsAnswered == ASSUME ResumesAnswered PROVE Spec => []HistoryAnswered
<1>1. Init => LoopShape /\ AnsweredInv
  <2> SUFFICES ASSUME Init PROVE LoopShape /\ AnsweredInv
    OBVIOUS
  <2>1. Answered(<<>>)
    BY DEF Answered
  <2>2. messages = <<>> \/ messages \in Resumable
    BY DEF Init
  <2>3. Answered(messages)
    BY <2>1, <2>2 DEF ResumesAnswered
  <2>4. QED
    BY <2>1, <2>3, InitShape DEF Init, AnsweredInv
<1>2. LoopShape /\ AnsweredInv /\ [Next]_vars => (LoopShape /\ AnsweredInv)'
  BY ShapeKept, AnsweredKept
<1>3. LoopShape /\ AnsweredInv => HistoryAnswered
  BY DEF AnsweredInv, HistoryAnswered
<1>4. QED
  BY <1>1, <1>2, <1>3, PTL DEF Spec

-----------------------------------------------------------------------------
(* Turns *)

\* The replies.
Assistants == {m \in Message : m.role = "assistant"}

\* Turns, as a count.
LEMMA TurnsIs ==
  ASSUME NEW s \in Seq(Message)
  PROVE  Turns(s) = Count(s, Assistants) /\ Turns(s) \in Nat
<1>1. {i \in DOMAIN s : s[i].role = "assistant"} = Where(s, Assistants)
  <2>1. DOMAIN s = 1..Len(s) /\ \A i \in 1..Len(s) : s[i] \in Message
    BY LenProperties, ElementOfSeq
  <2>2. QED
    BY <2>1 DEF Where, Assistants
<1>2. QED
  BY <1>1, CountFinite DEF Turns, Count

\* The turns of a concatenation.
LEMMA TurnsAdd ==
  ASSUME NEW s \in Seq(Message), NEW t \in Seq(Message)
  PROVE  Turns(s \o t) = Turns(s) + Turns(t)
<1>1. s \o t \in Seq(Message)
  BY ConcatProperties
<1>2. Turns(s \o t) = Count(s \o t, Assistants)
  BY <1>1, TurnsIs
<1>3. Turns(s) = Count(s, Assistants) /\ Turns(t) = Count(t, Assistants)
  BY TurnsIs
<1>4. Count(s \o t, Assistants) = Count(s, Assistants) + Count(t, Assistants)
  BY CountConcat
<1>5. QED
  BY <1>2, <1>3, <1>4

\* Messages of the user and results are no turns,
LEMMA NoTurns ==
  ASSUME NEW t \in Seq(Message), \A i \in 1..Len(t) : t[i].role # "assistant"
  PROVE  Turns(t) = 0
<1>1. \A i \in 1..Len(t) : t[i] \notin Assistants
  BY DEF Assistants
<1>2. QED
  BY <1>1, TurnsIs, CountNone

\* ... and a reply is one, with what is recorded behind it.
LEMMA OneTurn ==
  ASSUME NEW t \in Seq(Message), Len(t) >= 1, t[1].role = "assistant",
         \A i \in 2..Len(t) : t[i].role # "assistant"
  PROVE  Turns(t) = 1
<1>1. 1 \in 1..Len(t) /\ t[1] \in Assistants
  BY ElementOfSeq DEF Assistants
<1>2. ASSUME NEW i \in 1..Len(t) PROVE (t[i] \in Assistants) <=> (i = 1)
  <2>1. i = 1 \/ i \in 2..Len(t)
    OBVIOUS
  <2>2. QED
    BY <1>1, <2>1 DEF Assistants
<1>3. QED
  BY <1>1, <1>2, TurnsIs, CountOne

\* turn_count is the number of replies recorded in the run, one behind while a
\* reply's turn is under way;
TurnsCounted ==
  /\ pc \in {"start", "loop", "call", "streaming", "budget", "poll", "follow"} =>
       Turns(newMsgs) = turns
  /\ pc \in {"exec", "attach", "turnEnd"} => Turns(newMsgs) = turns + 1
\* ... and the budget is checked before another one begins.
TurnsBelow ==
  setup.maxTurns # 0 =>
    /\ pc \notin {"idle", "budget", "done"} => turns < setup.maxTurns + advice
    /\ pc = "budget" => turns <= setup.maxTurns + advice
    /\ pc = "done" => Turns(newMsgs) <= setup.maxTurns + advice
TurnInv == TurnsCounted /\ TurnsBelow

\* Every step keeps turn_count right and below the budget.
LEMMA TurnsKept == LoopShape /\ TurnInv /\ [Next]_vars => TurnInv'
<1> SUFFICES ASSUME LoopShape, TurnInv, [Next]_vars PROVE TurnInv'
  OBVIOUS
<1>1. /\ newMsgs \in Seq(Message) /\ pending \in Seq(Message) /\ batch \in Seq(Message)
      /\ setup \in Setups /\ turns \in Nat /\ advice \in Nat /\ pc \in PCs
  BY Typed DEF LoopShape, TypeOK
<1>2. setup.maxTurns \in Nat /\ Turns(newMsgs) \in Nat
  BY <1>1, LoopAssumption, TurnsIs
<1>3. TurnsCounted /\ TurnsBelow
  BY DEF TurnInv
<1> USE DEF agent, queues, counters, flow, guards, stream, logs
<1> DEFINE Open == {"start", "loop", "call", "streaming", "poll", "follow"}
           Busy == {"exec", "attach", "turnEnd"}
\* Steps that count nothing.
<1>4. ASSUME UNCHANGED <<newMsgs, turns, advice, setup>>,
             \/ pc' = pc
             \/ pc \in Open /\ pc' \in Open
             \/ pc \in Busy /\ pc' \in Busy
             \/ pc \in Open /\ pc' = "done"
      PROVE  TurnInv'
  <2>1. CASE pc' = pc
    BY <1>3, <1>4, <2>1 DEF TurnInv, TurnsCounted, TurnsBelow
  <2>2. CASE pc \in Open /\ pc' \in Open
    BY <1>3, <1>4, <2>2 DEF TurnInv, TurnsCounted, TurnsBelow
  <2>3. CASE pc \in Busy /\ pc' \in Busy
    BY <1>3, <1>4, <2>3 DEF TurnInv, TurnsCounted, TurnsBelow
  <2>4. CASE pc \in Open /\ pc' = "done"
    BY <1>1, <1>2, <1>3, <1>4, <2>4 DEF TurnInv, TurnsCounted, TurnsBelow
  <2>5. QED
    BY <1>4, <2>1, <2>2, <2>3, <2>4
\* Messages that are no reply.
<1>5. ASSUME NEW ms \in Seq(Message), newMsgs' = newMsgs \o ms,
             \A i \in 1..Len(ms) : ms[i].role # "assistant"
      PROVE  Turns(newMsgs') = Turns(newMsgs)
  <2>1. Turns(ms) = 0 /\ Turns(newMsgs \o ms) = Turns(newMsgs) + Turns(ms)
    BY <1>1, <1>5, NoTurns, TurnsAdd
  <2>2. QED
    BY <1>2, <1>5, <2>1
\* A reply, with what follows it.
<1>6. ASSUME NEW ms \in Seq(Message), newMsgs' = newMsgs \o ms,
             Len(ms) >= 1, ms[1].role = "assistant",
             \A i \in 2..Len(ms) : ms[i].role # "assistant"
      PROVE  Turns(newMsgs') = Turns(newMsgs) + 1
  <2>1. Turns(ms) = 1 /\ Turns(newMsgs \o ms) = Turns(newMsgs) + Turns(ms)
    BY <1>1, <1>6, OneTurn, TurnsAdd
  <2>2. QED
    BY <1>2, <1>6, <2>1
<1>7. ASSUME NEW u, Steer(u) \/ FollowUp(u) PROVE TurnInv'
  BY <1>4, <1>7 DEF Steer, FollowUp
<1>8. CASE Cancel \/ UNCHANGED vars
  BY <1>4, <1>8 DEF Cancel, vars
<1>9. ASSUME NEW prompts \in {<<>>, <<User("prompt", {})>>}, BeginPrompt(prompts)
      PROVE  TurnInv'
  <2>1. turns' = 0 /\ pc' = "start" /\ newMsgs' = prompts /\ UNCHANGED <<advice, setup>>
    BY <1>9 DEF BeginPrompt, FreshLocals
  <2>2. /\ prompts \in Seq(Message)
        /\ \A i \in 1..Len(prompts) : prompts[i].role # "assistant"
    <3>1. User("prompt", {}) \in Message /\ User("prompt", {}).role = "user"
      BY MadeMessages DEF Tags, User
    <3>2. CASE prompts = <<>>
      BY <3>2
    <3>3. CASE prompts = <<User("prompt", {})>>
      BY <3>1, <3>3
    <3>4. QED
      BY <1>9, <3>2, <3>3
  <2>3. Turns(prompts) = 0
    BY <2>2, NoTurns
  <2>4. turns' = 0 /\ Turns(newMsgs') = 0
    BY <2>1, <2>3
  <2>5. setup'.maxTurns # 0 => turns' < setup'.maxTurns + advice'
    BY <1>1, <1>2, <2>1
  <2>6. QED
    BY <2>1, <2>4, <2>5 DEF TurnInv, TurnsCounted, TurnsBelow
<1>10. CASE FirstPoll \/ CallModel \/ ExecBatch \/ PollSteering \/ PollFollowUp
  BY <1>4, <1>10 DEF FirstPoll, CallModel, ExecBatch, PollSteering, PollFollowUp, End
<1>11. CASE LoopHead
  <2>1. UNCHANGED <<turns, advice, setup>> /\ pc = "loop" /\ pc' \in {"call", "follow"}
        /\ (newMsgs' = newMsgs \/ newMsgs' = newMsgs \o pending)
    BY <1>11 DEF LoopHead, Record
  <2>2. \A i \in 1..Len(pending) : pending[i].role # "assistant"
    BY DEF LoopShape, QueuesHold
  <2>3. Turns(newMsgs') = Turns(newMsgs)
    BY <1>1, <1>5, <2>1, <2>2
  <2>4. QED
    BY <1>3, <2>1, <2>3 DEF TurnInv, TurnsCounted, TurnsBelow
<1>12. ASSUME NEW r \in Answers,
              \/ RejectDraft(r) \/ ReplyFailed(r) \/ NudgeFreeform(r) \/ ReplyText(r)
              \/ ReplyTruncated(r) \/ ReplyTools(r)
       PROVE  TurnInv'
  <2>1. r \in Message /\ r.n \in 0..MaxCalls /\ r.role = "assistant"
    BY <1>1, <1>12, AnswersTyped, MessageParts
  <2>2. pc = "streaming" /\ UNCHANGED <<advice, setup>>
    BY <1>12 DEF RejectDraft, ReplyFailed, NudgeFreeform, ReplyText,
                 ReplyTruncated, ReplyTools
  <2>3. Turns(newMsgs) = turns /\ (setup.maxTurns # 0 => turns < setup.maxTurns + advice)
    BY <1>3, <2>2 DEF TurnsCounted, TurnsBelow
  <2>4. CASE RejectDraft(r)
    BY <1>4, <2>4 DEF RejectDraft
  <2>5. ASSUME newMsgs' = newMsgs \o <<r>> PROVE Turns(newMsgs') = turns + 1
    <3> DEFINE t == <<r>>
    <3>1. t \in Seq(Message) /\ Len(t) = 1 /\ t[1].role = "assistant"
      BY <2>1
    <3>2. newMsgs' = newMsgs \o t
      BY <2>5
    <3> HIDE DEF t
    <3>3. \A i \in 2..Len(t) : t[i].role # "assistant"
      BY <3>1
    <3>4. QED
      BY <1>6, <2>3, <3>1, <3>2, <3>3
  <2>6. CASE ReplyFailed(r)
    <3> DEFINE t == <<r>> \o Refused(r.n)
    <3>1. ResultsOf(Refused(r.n), r.n)
      BY <2>1, BatchesTyped
    <3>2. /\ Refused(r.n) \in Seq(Message)
          /\ \A k \in 1..Len(Refused(r.n)) : Refused(r.n)[k].role = "result"
      BY <3>1 DEF ResultsOf
    <3>3. /\ newMsgs' = Append(newMsgs, r) \o Refused(r.n)
          /\ pc' = "done" /\ turns' = turns
      BY <2>6 DEF ReplyFailed, End
    <3>4. newMsgs' = (newMsgs \o <<r>>) \o Refused(r.n)
      BY <1>1, <2>1, <3>3, AppendIsConcat
    <3>5. Turns(Refused(r.n)) = 0
      <4>1. \A k \in 1..Len(Refused(r.n)) : Refused(r.n)[k].role # "assistant"
        BY <3>2
      <4>2. QED
        BY <3>2, <4>1, NoTurns
    <3>6. <<r>> \in Seq(Message) /\ newMsgs \o <<r>> \in Seq(Message)
      BY <1>1, <2>1, ConcatProperties
    <3>7. Turns(<<r>>) = 1
      <4> DEFINE one == <<r>>
      <4>1. one \in Seq(Message) /\ Len(one) = 1 /\ one[1].role = "assistant"
        BY <2>1
      <4> HIDE DEF one
      <4>2. Turns(one) = 1
        <5>1. Len(one) >= 1 /\ \A i \in 2..Len(one) : one[i].role # "assistant"
          BY <4>1
        <5>2. QED
          BY <4>1, <5>1, OneTurn
      <4>3. QED
        BY <4>2 DEF one
    <3>8. /\ Turns(newMsgs \o <<r>>) = Turns(newMsgs) + Turns(<<r>>)
          /\ Turns((newMsgs \o <<r>>) \o Refused(r.n)) =
               Turns(newMsgs \o <<r>>) + Turns(Refused(r.n))
      BY <1>1, <3>2, <3>6, TurnsAdd
    <3>9. Turns(newMsgs') = turns + 1
      BY <1>1, <2>3, <3>4, <3>5, <3>7, <3>8
    <3>10. setup.maxTurns # 0 => turns + 1 <= setup.maxTurns + advice
      BY <1>1, <1>2, <2>3
    <3>11. QED
      BY <2>2, <3>3, <3>9, <3>10 DEF TurnInv, TurnsCounted, TurnsBelow
  <2>7. CASE NudgeFreeform(r)
    <3> DEFINE t == <<r, User("nudge", {})>>
    <3>1. User("nudge", {}) \in Message /\ User("nudge", {}).role = "user"
      BY MadeMessages DEF Tags, User
    <3>2. /\ t \in Seq(Message) /\ Len(t) = 2 /\ t[1] = r /\ t[2] = User("nudge", {})
      BY <2>1, <3>1
    <3>3. /\ newMsgs' = newMsgs \o t /\ turns' = turns + 1
          /\ \/ pc' = "done"
             \/ pc' = "loop" /\ ~(setup.maxTurns # 0 /\ turns + 1 >= setup.maxTurns)
      BY <2>7 DEF NudgeFreeform, Record, End
    <3> HIDE DEF t
    <3>4. \A i \in 2..Len(t) : t[i].role # "assistant"
      BY <3>1, <3>2
    <3>5. Turns(newMsgs') = turns + 1
      <4>1. Len(t) >= 1 /\ t[1].role = "assistant"
        BY <2>1, <3>2
      <4>2. Turns(newMsgs') = Turns(newMsgs) + 1
        BY <1>6, <3>2, <3>3, <3>4, <4>1
      <4>3. QED
        BY <2>3, <4>2
    <3>6. setup.maxTurns # 0 =>
            /\ turns + 1 <= setup.maxTurns + advice
            /\ pc' = "loop" => turns + 1 < setup.maxTurns + advice
      BY <1>1, <1>2, <2>3, <3>3
    <3>7. CASE pc' = "done"
      BY <2>2, <3>3, <3>5, <3>6, <3>7 DEF TurnInv, TurnsCounted, TurnsBelow
    <3>8. CASE pc' = "loop"
      BY <2>2, <3>3, <3>5, <3>6, <3>8 DEF TurnInv, TurnsCounted, TurnsBelow
    <3>9. QED
      BY <3>3, <3>7, <3>8
  <2>8. CASE ReplyText(r) \/ ReplyTruncated(r) \/ ReplyTools(r)
    <3>1. newMsgs' = newMsgs \o <<r>> /\ turns' = turns /\ pc' \in Busy
      BY <2>8 DEF ReplyText, ReplyTruncated, ReplyTools, Record
    <3>2. Turns(newMsgs') = turns + 1
      BY <2>5, <3>1
    <3>3. QED
      BY <2>2, <2>3, <3>1, <3>2 DEF TurnInv, TurnsCounted, TurnsBelow
  <2>9. QED
    BY <1>12, <2>4, <2>6, <2>7, <2>8
<1>13. CASE AttachResults
  <2> DEFINE texts == SteerTexts(Taken(steering))
             ms == SoftSteer(batch, texts)
  <2>1. /\ ms \in Seq(Message) /\ newMsgs' = newMsgs \o ms
        /\ Len(ms) = Len(batch)
        /\ \A i \in 1..Len(batch) :
             ms[i] = IF i = Len(batch) THEN [batch[i] EXCEPT !.said = @ \cup texts]
                                       ELSE batch[i]
    BY <1>13, Attached
  <2>2. pc = "attach" /\ pc' = "turnEnd" /\ UNCHANGED <<turns, advice, setup>>
    BY <1>13 DEF AttachResults
  <2> HIDE DEF ms, texts
  <2>3. ResultsOf(batch, Len(batch))
    BY <2>2 DEF LoopShape, BatchPlaced
  <2>4. ASSUME NEW k \in 1..Len(ms) PROVE ms[k].role # "assistant"
    <3> DEFINE m == batch[k]
    <3>1. k \in 1..Len(batch)
      BY <2>1, <2>4
    <3>2. m \in Message /\ m.role = "result"
      BY <1>1, <2>3, <3>1, ElementOfSeq DEF ResultsOf
    <3>3. ms[k] \in {[m EXCEPT !.said = @ \cup texts], m}
      BY <2>1, <3>1
    <3> HIDE DEF m
    <3>4. [m EXCEPT !.said = @ \cup texts].role = m.role
      BY <3>2 DEF Message
    <3>5. QED
      BY <3>2, <3>3, <3>4
  <2>5. Turns(newMsgs') = Turns(newMsgs)
    BY <1>5, <2>1, <2>4
  <2>6. QED
    BY <1>3, <2>2, <2>5 DEF TurnInv, TurnsCounted, TurnsBelow
<1>14. CASE ThrashAdvice \/ ThrashStop
  <2>1. /\ <<User("advice", {})>> \in Seq(Message) /\ <<User("stop", {})>> \in Seq(Message)
        /\ \A i \in 1..Len(<<User("advice", {})>>) : <<User("advice", {})>>[i].role # "assistant"
        /\ \A i \in 1..Len(<<User("stop", {})>>) : <<User("stop", {})>>[i].role # "assistant"
    BY MadeMessages DEF Tags, User
  <2>2. pc = "turnEnd" /\ UNCHANGED setup
        /\ \/ newMsgs' = newMsgs \o <<User("advice", {})>>
           \/ newMsgs' = newMsgs \o <<User("stop", {})>>
    BY <1>14 DEF ThrashAdvice, ThrashStop, Record
  <2>3. Turns(newMsgs') = Turns(newMsgs)
    BY <1>5, <2>1, <2>2
  <2>4. Turns(newMsgs) = turns + 1 /\ (setup.maxTurns # 0 => turns < setup.maxTurns + advice)
    BY <1>3, <2>2 DEF TurnsCounted, TurnsBelow
  <2>5. CASE ThrashAdvice
    <3>1. turns' = turns + 1 /\ advice' = advice + 1 /\ pc' = "loop"
      BY <2>5 DEF ThrashAdvice
    <3>2. setup.maxTurns # 0 => turns' < setup.maxTurns + advice'
      BY <1>1, <1>2, <2>4, <3>1
    <3>3. Turns(newMsgs') = turns'
      BY <2>3, <2>4, <3>1
    <3>4. QED
      BY <2>2, <3>1, <3>2, <3>3 DEF TurnInv, TurnsCounted, TurnsBelow
  <2>6. CASE ThrashStop
    <3>1. advice' \in {advice, advice + 1} /\ pc' = "done"
      BY <2>6 DEF ThrashStop, End
    <3>2. setup.maxTurns # 0 => Turns(newMsgs') <= setup.maxTurns + advice'
      BY <1>1, <1>2, <2>3, <2>4, <3>1
    <3>3. QED
      BY <2>2, <3>1, <3>2 DEF TurnInv, TurnsCounted, TurnsBelow
  <2>7. QED
    BY <1>14, <2>5, <2>6
<1>15. CASE CountTurn
  <2>1. /\ pc = "turnEnd" /\ pc' = "budget" /\ turns' = turns + 1
        /\ UNCHANGED <<newMsgs, advice, setup>>
    BY <1>15 DEF CountTurn
  <2>2. Turns(newMsgs) = turns + 1 /\ (setup.maxTurns # 0 => turns < setup.maxTurns + advice)
    BY <1>3, <2>1 DEF TurnsCounted, TurnsBelow
  <2>3. setup.maxTurns # 0 => turns' <= setup.maxTurns + advice
    BY <1>1, <1>2, <2>1, <2>2
  <2>4. QED
    BY <2>1, <2>2, <2>3 DEF TurnInv, TurnsCounted, TurnsBelow
<1>16. CASE CheckBudgets
  <2>1. /\ pc = "budget" /\ UNCHANGED <<newMsgs, turns, advice, setup>>
        /\ \/ pc' = "done"
           \/ pc' = "poll" /\ ~(setup.maxTurns # 0 /\ turns >= setup.maxTurns)
    BY <1>16 DEF CheckBudgets, BudgetSpent, End
  <2>2. Turns(newMsgs) = turns /\ (setup.maxTurns # 0 => turns <= setup.maxTurns + advice)
    BY <1>3, <2>1 DEF TurnsCounted, TurnsBelow
  <2>3. pc' = "poll" => (setup.maxTurns # 0 => turns < setup.maxTurns + advice)
    BY <1>1, <1>2, <2>1
  <2>4. CASE pc' = "done"
    BY <2>1, <2>2, <2>4 DEF TurnInv, TurnsCounted, TurnsBelow
  <2>5. CASE pc' = "poll"
    BY <2>1, <2>2, <2>3, <2>5 DEF TurnInv, TurnsCounted, TurnsBelow
  <2>6. QED
    BY <2>1, <2>4, <2>5
<1>17. CASE CompleteRun
  <2>1. pc' = "idle"
    BY <1>17 DEF CompleteRun
  <2>2. QED
    BY <2>1 DEF TurnInv, TurnsCounted, TurnsBelow
<1>18. QED
  BY <1>7, <1>8, <1>9, <1>10, <1>11, <1>12, <1>13, <1>14, <1>15, <1>16, <1>17
     DEF Next, UserStep, RunStep, StreamReply

\* No path round the loop is free: a run makes at most max_turns replies, and
\* one more for each piece of advice (turn_count, mod.rs).
THEOREM TurnsBounded == Spec => []TurnBudgetHolds
<1>1. Init => LoopShape /\ TurnInv
  BY InitShape DEF Init, TurnInv, TurnsCounted, TurnsBelow
<1>2. LoopShape /\ TurnInv /\ [Next]_vars => (LoopShape /\ TurnInv)'
  BY ShapeKept, TurnsKept
<1>3. LoopShape /\ TurnInv => TurnBudgetHolds
  <2> SUFFICES ASSUME LoopShape, TurnInv, setup.maxTurns # 0
               PROVE  Turns(newMsgs) <= setup.maxTurns + advice
    BY DEF TurnBudgetHolds
  <2>1. /\ newMsgs \in Seq(Message) /\ setup \in Setups
        /\ turns \in Nat /\ advice \in Nat /\ pc \in PCs
    BY Typed DEF LoopShape, TypeOK
  <2>2. setup.maxTurns \in Nat
    BY <2>1, LoopAssumption
  <2>3. TurnsCounted /\ TurnsBelow
    BY DEF TurnInv
  <2>4. CASE pc = "idle"
    <3>1. newMsgs = <<>>
      BY <2>4 DEF LoopShape, LocalsPlaced
    <3>2. Turns(newMsgs) = 0
      <4>1. \A i \in 1..Len(newMsgs) : newMsgs[i].role # "assistant"
        BY <3>1
      <4>2. QED
        BY <2>1, <4>1, NoTurns
    <3>3. QED
      BY <2>1, <2>2, <3>2
  <2>5. CASE pc = "done"
    BY <2>3, <2>5 DEF TurnsBelow
  <2>6. CASE pc \notin {"idle", "done"}
    <3>1. Turns(newMsgs) = turns \/ (Turns(newMsgs) = turns + 1 /\ pc # "budget")
      <4>1. \/ pc \in {"start", "loop", "call", "streaming", "budget", "poll", "follow"}
            \/ pc \in {"exec", "attach", "turnEnd"}
        BY <2>1, <2>6 DEF PCs
      <4>2. CASE pc \in {"start", "loop", "call", "streaming", "budget", "poll", "follow"}
        BY <2>3, <4>2 DEF TurnsCounted
      <4>3. CASE pc \in {"exec", "attach", "turnEnd"}
        BY <2>3, <4>3 DEF TurnsCounted
      <4>4. QED
        BY <4>1, <4>2, <4>3
    <3>2. /\ pc = "budget" => turns <= setup.maxTurns + advice
          /\ pc # "budget" => turns < setup.maxTurns + advice
      BY <2>3, <2>6 DEF TurnsBelow
    <3>3. QED
      BY <2>1, <2>2, <3>1, <3>2
  <2>7. QED
    BY <2>4, <2>5, <2>6
<1>4. QED
  BY <1>1, <1>2, <1>3, PTL DEF Spec

-----------------------------------------------------------------------------
(* What the user typed *)

\* The messages that carry an input, and how many of s do.
Carrying(u) == {m \in Message : u \in m.said}
Carried(s, u) == Count(s, Carrying(u))

\* Places' terms, as counts.
LEMMA CarriedIs ==
  ASSUME NEW s \in Seq(Message), NEW u
  PROVE  /\ Cardinality({i \in DOMAIN s : u \in s[i].said}) = Carried(s, u)
         /\ Carried(s, u) \in Nat
<1>1. {i \in DOMAIN s : u \in s[i].said} = Where(s, Carrying(u))
  <2>1. DOMAIN s = 1..Len(s) /\ \A i \in 1..Len(s) : s[i] \in Message
    BY LenProperties, ElementOfSeq
  <2>2. QED
    BY <2>1 DEF Where, Carrying
<1>2. QED
  BY <1>1, CountFinite DEF Carried, Count

\* The inputs a concatenation carries.
LEMMA CarriedAdds ==
  ASSUME NEW s \in Seq(Message), NEW t \in Seq(Message), NEW u
  PROVE  Carried(s \o t, u) = Carried(s, u) + Carried(t, u)
BY CountConcat DEF Carried

\* An input no message carries.
LEMMA CarriedNone ==
  ASSUME NEW s \in Seq(Message), NEW u, \A i \in 1..Len(s) : u \notin s[i].said
  PROVE  Carried(s, u) = 0
<1>1. \A i \in 1..Len(s) : s[i] \notin Carrying(u)
  BY DEF Carrying
<1>2. QED
  BY <1>1, CountNone DEF Carried

\* ... is in none of them.
LEMMA CarriedNowhere ==
  ASSUME NEW s \in Seq(Message), NEW u, Carried(s, u) = 0
  PROVE  \A i \in 1..Len(s) : u \notin s[i].said
<1>1. IsFiniteSet(Where(s, Carrying(u)))
  BY CountFinite
<1>2. Where(s, Carrying(u)) = {}
  BY <1>1, FS_EmptySet DEF Carried, Count
<1>3. \A i \in 1..Len(s) : s[i] \in Message
  BY ElementOfSeq
<1>4. QED
  BY <1>2, <1>3 DEF Where, Carrying

\* An input that only one message carries.
LEMMA CarriedAt ==
  ASSUME NEW s \in Seq(Message), NEW u, NEW k \in 1..Len(s), u \in s[k].said,
         \A i \in 1..Len(s) : i # k => u \notin s[i].said
  PROVE  Carried(s, u) = 1
<1>1. \A i \in 1..Len(s) : s[i] \in Message
  BY ElementOfSeq
<1>2. ASSUME NEW i \in 1..Len(s) PROVE (s[i] \in Carrying(u)) <=> (i = k)
  BY <1>1 DEF Carrying
<1>3. QED
  BY <1>2, CountOne DEF Carried

\* The inputs one message carries.
LEMMA CarriedOne ==
  ASSUME NEW m \in Message, NEW u
  PROVE  Carried(<<m>>, u) = IF u \in m.said THEN 1 ELSE 0
<1> DEFINE t == <<m>>
<1>1. t \in Seq(Message) /\ Len(t) = 1 /\ t[1] = m /\ 1 \in 1..Len(t)
  OBVIOUS
<1> HIDE DEF t
<1>2. CASE u \in m.said
  <2>1. \A i \in 1..Len(t) : i # 1 => u \notin t[i].said
    BY <1>1
  <2>2. Carried(t, u) = 1
    BY <1>1, <1>2, <2>1, CarriedAt
  <2>3. QED
    BY <1>2, <2>2 DEF t
<1>3. CASE u \notin m.said
  <2>1. \A i \in 1..Len(t) : u \notin t[i].said
    BY <1>1, <1>3
  <2>2. Carried(t, u) = 0
    BY <1>1, <2>1, CarriedNone
  <2>3. QED
    BY <1>3, <2>2 DEF t
<1>4. QED
  BY <1>2, <1>3

\* A poll moves inputs and loses none.
LEMMA CarriedPolled ==
  ASSUME NEW q \in Seq(Message), NEW u
  PROVE  /\ Carried(q, u) = Carried(Taken(q), u) + Carried(Left(q), u)
         /\ Carried(Taken(q), u) \in Nat /\ Carried(Left(q), u) \in Nat
<1>1. Taken(q) \in Seq(Message) /\ Left(q) \in Seq(Message) /\ q = Taken(q) \o Left(q)
  BY TakenLeft
<1>2. Carried(Taken(q) \o Left(q), u) = Carried(Taken(q), u) + Carried(Left(q), u)
  BY <1>1, CarriedAdds
<1>3. Carried(Taken(q), u) \in Nat /\ Carried(Left(q), u) \in Nat
  BY <1>1, CarriedIs
<1>4. QED
  BY <1>1, <1>2, <1>3

\* Where an input is, counted part by part.
Held(u) ==
  Carried(steering, u) + Carried(followUp, u) + Carried(pending, u)
    + Carried(messages, u) + Carried(newMsgs, u)

\* Places, part by part.
LEMMA PlacesIs == ASSUME LoopShape, NEW u PROVE Places(u) = Held(u)
<1>1. /\ messages \in Seq(Message) /\ newMsgs \in Seq(Message) /\ pending \in Seq(Message)
      /\ steering \in Seq(Message) /\ followUp \in Seq(Message)
  BY Typed DEF LoopShape
<1>2. Said \in Seq(Message) /\ Carried(Said, u) = Carried(messages, u) + Carried(newMsgs, u)
  BY <1>1, CarriedAdds, ConcatProperties DEF Said
<1>3. /\ Cardinality({i \in DOMAIN steering : u \in steering[i].said}) = Carried(steering, u)
      /\ Cardinality({i \in DOMAIN followUp : u \in followUp[i].said}) = Carried(followUp, u)
      /\ Cardinality({i \in DOMAIN pending : u \in pending[i].said}) = Carried(pending, u)
      /\ Cardinality({i \in DOMAIN Said : u \in Said[i].said}) = Carried(Said, u)
  BY <1>1, <1>2, CarriedIs
<1>4. /\ Carried(steering, u) \in Nat /\ Carried(followUp, u) \in Nat
      /\ Carried(pending, u) \in Nat /\ Carried(messages, u) \in Nat
      /\ Carried(newMsgs, u) \in Nat
  BY <1>1, CarriedIs
<1>5. QED
  BY <1>2, <1>3, <1>4 DEF Places, Held

\* Every input is held once from when it is typed, and not before.
ConserveInv ==
  ~setup.compacts =>
    \A u \in Inputs \ BlankInputs : Held(u) = IF u \in typed THEN 1 ELSE 0

\* Every step keeps each input in one place.
LEMMA ConserveKept == LoopShape /\ RetellInv /\ ConserveInv /\ [Next]_vars => ConserveInv'
<1> SUFFICES ASSUME LoopShape, RetellInv, ConserveInv, [Next]_vars,
                    ~setup'.compacts, NEW u \in Inputs \ BlankInputs
             PROVE  Held(u)' = IF u \in typed' THEN 1 ELSE 0
  BY DEF ConserveInv
<1> USE DEF agent, queues, counters, flow, guards, stream, logs
<1>1. setup' = setup
  BY DEF Next, UserStep, RunStep, StreamReply, vars, Steer, FollowUp, Cancel, BeginPrompt,
         FirstPoll, LoopHead, CallModel, RejectDraft, ReplyFailed, NudgeFreeform, ReplyText,
         ReplyTruncated, ReplyTools, ExecBatch, AttachResults, ThrashAdvice, ThrashStop,
         CountTurn, CheckBudgets, PollSteering, PollFollowUp, CompleteRun
<1>2. /\ messages \in Seq(Message) /\ newMsgs \in Seq(Message) /\ pending \in Seq(Message)
      /\ steering \in Seq(Message) /\ followUp \in Seq(Message) /\ context \in Seq(Message)
      /\ batch \in Seq(Message) /\ setup \in Setups /\ setup.typing \subseteq Inputs
  BY Typed, LoopAssumption DEF LoopShape, TypeOK
<1> DEFINE S == Carried(steering, u)
           F == Carried(followUp, u)
           P == Carried(pending, u)
           M == Carried(messages, u)
           N == Carried(newMsgs, u)
           Goal == Held(u)' = IF u \in typed' THEN 1 ELSE 0
<1>3. S \in Nat /\ F \in Nat /\ P \in Nat /\ M \in Nat /\ N \in Nat
  BY <1>2, CarriedIs
<1>4. S + F + P + M + N = IF u \in typed THEN 1 ELSE 0
  BY <1>1 DEF ConserveInv, Held
<1>5. ASSUME typed' = typed, S' + F' + P' + M' + N' = S + F + P + M + N PROVE Goal
  BY <1>4, <1>5 DEF Held
<1>6. ASSUME UNCHANGED <<steering, followUp, pending, messages, newMsgs, typed>> PROVE Goal
  BY <1>5, <1>6
\* What a message without words of the user adds.
<1>7. ASSUME NEW ms \in Seq(Message), \A i \in 1..Len(ms) : u \notin ms[i].said,
             newMsgs' = newMsgs \o ms,
             UNCHANGED <<steering, followUp, pending, messages, typed>>
      PROVE  Goal
  <2>1. Carried(ms, u) = 0
    BY <1>7, CarriedNone
  <2>2. Carried(newMsgs \o ms, u) = N + Carried(ms, u)
    BY <1>2, <1>7, CarriedAdds
  <2>3. N' = N
    BY <1>3, <1>7, <2>1, <2>2
  <2>4. S' = S /\ F' = F /\ P' = P /\ M' = M
    BY <1>7
  <2>5. QED
    BY <1>5, <1>7, <2>3, <2>4
<1>8. Carried(<<>>, u) = 0
  BY CountEmpty DEF Carried
<1> HIDE DEF Goal
<1>9. ASSUME NEW v \in setup.typing, Steer(v) \/ FollowUp(v) PROVE Goal
  <2> DEFINE m == User("input", {v})
  <2>1. m \in Message /\ m.said = {v}
    BY <1>2, <1>9, MadeMessages DEF Tags, User
  <2> HIDE DEF m
  <2>2. <<m>> \in Seq(Message) /\ Carried(<<m>>, u) = IF u = v THEN 1 ELSE 0
    BY <2>1, CarriedOne
  <2>3. Append(steering, m) = steering \o <<m>> /\ Append(followUp, m) = followUp \o <<m>>
    BY <1>2, <2>1, AppendIsConcat
  <2>4. /\ Carried(steering \o <<m>>, u) = S + Carried(<<m>>, u)
        /\ Carried(followUp \o <<m>>, u) = F + Carried(<<m>>, u)
    <3> DEFINE t == <<m>>
    <3>1. t \in Seq(Message)
      BY <2>2
    <3> HIDE DEF t
    <3>2. Carried(steering \o t, u) = S + Carried(t, u)
      BY <1>2, <3>1, CarriedAdds
    <3>3. Carried(followUp \o t, u) = F + Carried(t, u)
      BY <1>2, <3>1, CarriedAdds
    <3>4. QED
      BY <3>2, <3>3 DEF t
  <2>5. v \notin typed /\ typed' = typed \cup {v} /\ UNCHANGED <<pending, messages, newMsgs>>
    BY <1>9 DEF Steer, FollowUp
  <2>6. P' = P /\ M' = M /\ N' = N
    BY <2>5
  <2>7. \/ S' = S + Carried(<<m>>, u) /\ F' = F
        \/ F' = F + Carried(<<m>>, u) /\ S' = S
    <3>1. CASE Steer(v)
      <4>1. steering' = steering \o <<m>> /\ followUp' = followUp
        BY <2>3, <3>1 DEF Steer, m
      <4>2. QED
        BY <2>4, <4>1
    <3>2. CASE FollowUp(v)
      <4>1. followUp' = followUp \o <<m>> /\ steering' = steering
        BY <2>3, <3>2 DEF FollowUp, m
      <4>2. QED
        BY <2>4, <4>1
    <3>3. QED
      BY <1>9, <3>1, <3>2
  <2> HIDE DEF S, F, P, M, N
  <2>8. S' + F' + P' + M' + N' = S + F + P + M + N + Carried(<<m>>, u)
    BY <1>3, <2>2, <2>6, <2>7
  <2>9. Held(u)' = S' + F' + P' + M' + N'
    BY DEF Held, S, F, P, M, N
  <2>10. CASE u = v
    BY <1>3, <1>4, <2>2, <2>5, <2>8, <2>9, <2>10 DEF Goal
  <2>11. CASE u # v
    <3>1. S' + F' + P' + M' + N' = S + F + P + M + N
      BY <1>3, <2>2, <2>8, <2>11
    <3>2. u \in typed' <=> u \in typed
      BY <2>5, <2>11
    <3>3. QED
      BY <1>4, <2>9, <3>1, <3>2 DEF Goal
  <2>12. QED
    BY <2>10, <2>11
<1>10. ASSUME Cancel \/ UNCHANGED vars PROVE Goal
  BY <1>6, <1>10 DEF Cancel, vars
<1>11. ASSUME NEW prompts \in {<<>>, <<User("prompt", {})>>}, BeginPrompt(prompts) PROVE Goal
  <2>1. /\ newMsgs' = prompts /\ pending' = <<>>
        /\ UNCHANGED <<steering, followUp, messages, typed>> /\ ~running
    BY <1>11 DEF BeginPrompt, FreshLocals
  <2>2. pc = "idle" /\ newMsgs = <<>> /\ pending = <<>>
    BY <2>1 DEF LoopShape, LocalsPlaced, PendingPlaced
  <2>3. Carried(prompts, u) = 0
    <3>1. User("prompt", {}) \in Message /\ User("prompt", {}).said = {}
      BY MadeMessages DEF Tags, User
    <3>2. Carried(<<User("prompt", {})>>, u) = 0
      BY <3>1, CarriedOne
    <3>3. QED
      BY <1>8, <1>11, <3>2
  <2>4. N' = N /\ P' = P
    BY <1>8, <2>1, <2>2, <2>3
  <2>5. S' = S /\ F' = F /\ M' = M
    BY <2>1
  <2>6. QED
    BY <1>5, <2>1, <2>4, <2>5
<1>12. ASSUME CallModel \/ ExecBatch \/ CountTurn \/ CheckBudgets PROVE Goal
  BY <1>6, <1>12 DEF CallModel, ExecBatch, CountTurn, CheckBudgets
<1>13. S = Carried(Taken(steering), u) + Carried(Left(steering), u)
       /\ Carried(Taken(steering), u) \in Nat /\ Carried(Left(steering), u) \in Nat
  BY <1>2, CarriedPolled
<1>14. F = Carried(Taken(followUp), u) + Carried(Left(followUp), u)
       /\ Carried(Taken(followUp), u) \in Nat /\ Carried(Left(followUp), u) \in Nat
  BY <1>2, CarriedPolled
<1>15. ASSUME FirstPoll PROVE Goal
  <2>1. /\ pending' = Taken(steering) /\ steering' = Left(steering) /\ pending = <<>>
        /\ UNCHANGED <<followUp, messages, newMsgs, typed>>
    BY <1>15 DEF FirstPoll, LoopShape, PendingPlaced
  <2>2. P = 0 /\ F' = F /\ M' = M /\ N' = N
    BY <1>8, <2>1
  <2>3. P' = Carried(Taken(steering), u) /\ S' = Carried(Left(steering), u)
    BY <2>1
  <2> HIDE DEF S, F, P, M, N
  <2>4. S' + F' + P' + M' + N' = S + F + P + M + N
    BY <1>3, <1>13, <2>2, <2>3
  <2>5. QED
    BY <1>5, <2>1, <2>4 DEF S, F, P, M, N
<1>16. ASSUME LoopHead PROVE Goal
  <2>1. UNCHANGED <<steering, followUp, messages, typed>>
        /\ \/ UNCHANGED <<pending, newMsgs>>
           \/ pending' = <<>> /\ newMsgs' = newMsgs \o pending
    BY <1>16 DEF LoopHead, Record
  <2>2. CASE UNCHANGED <<pending, newMsgs>>
    BY <1>6, <2>1, <2>2
  <2>3. CASE pending' = <<>> /\ newMsgs' = newMsgs \o pending
    <3>1. P' = 0 /\ N' = N + P
      BY <1>2, <1>8, <2>3, CarriedAdds
    <3>2. S' = S /\ F' = F /\ M' = M
      BY <2>1
    <3> HIDE DEF S, F, P, M, N
    <3>3. S' + F' + P' + M' + N' = S + F + P + M + N
      BY <1>3, <3>1, <3>2
    <3>4. QED
      BY <1>5, <2>1, <3>3 DEF S, F, P, M, N
  <2>4. QED
    BY <2>1, <2>2, <2>3
<1>17. ASSUME NEW r \in Answers,
              \/ RejectDraft(r) \/ ReplyFailed(r) \/ NudgeFreeform(r) \/ ReplyText(r)
              \/ ReplyTruncated(r) \/ ReplyTools(r)
       PROVE  Goal
  <2>1. r \in Message /\ r.n \in 0..MaxCalls /\ r.said = {}
    BY <1>2, <1>17, AnswersTyped, MessageParts
  <2>2. UNCHANGED <<steering, followUp, pending, messages, typed>>
    BY <1>17 DEF RejectDraft, ReplyFailed, NudgeFreeform, ReplyText,
                 ReplyTruncated, ReplyTools
  <2>3. <<r>> \in Seq(Message) /\ \A i \in 1..Len(<<r>>) : u \notin <<r>>[i].said
    BY <2>1
  <2>4. CASE RejectDraft(r)
    BY <1>6, <2>2, <2>4 DEF RejectDraft
  <2>5. CASE ReplyFailed(r)
    <3>1. ResultsOf(Refused(r.n), r.n)
      BY <2>1, BatchesTyped
    <3>2. /\ Refused(r.n) \in Seq(Message)
          /\ \A k \in 1..Len(Refused(r.n)) : u \notin Refused(r.n)[k].said
      BY <3>1 DEF ResultsOf
    <3>3. /\ newMsgs' = Append(newMsgs, r) \o Refused(r.n)
          /\ Append(newMsgs, r) \o Refused(r.n) = newMsgs \o (<<r>> \o Refused(r.n))
      BY <1>2, <2>1, <2>5, <3>2, AppendedBatch DEF ReplyFailed
    <3>4. Carried(<<r>>, u) = 0 /\ Carried(Refused(r.n), u) = 0
      BY <2>3, <3>2, CarriedNone
    <3>5. Carried(<<r>> \o Refused(r.n), u) = Carried(<<r>>, u) + Carried(Refused(r.n), u)
          /\ <<r>> \o Refused(r.n) \in Seq(Message)
      BY <2>3, <3>2, CarriedAdds, ConcatProperties
    <3>6. Carried(<<r>> \o Refused(r.n), u) = 0
      BY <3>4, <3>5
    <3>7. \A i \in 1..Len(<<r>> \o Refused(r.n)) : u \notin (<<r>> \o Refused(r.n))[i].said
      BY <3>5, <3>6, CarriedNowhere
    <3>8. QED
      BY <1>7, <2>2, <3>3, <3>5, <3>7
  <2>6. CASE NudgeFreeform(r)
    <3> DEFINE t == <<r, User("nudge", {})>>
    <3>1. User("nudge", {}) \in Message /\ User("nudge", {}).said = {}
      BY MadeMessages DEF Tags, User
    <3>2. t \in Seq(Message) /\ Len(t) = 2 /\ t[1] = r /\ t[2] = User("nudge", {})
      BY <2>1, <3>1
    <3>3. newMsgs' = newMsgs \o t
      BY <2>6 DEF NudgeFreeform, Record
    <3> HIDE DEF t
    <3>4. \A i \in 1..Len(t) : u \notin t[i].said
      BY <2>1, <3>1, <3>2
    <3>5. QED
      BY <1>7, <2>2, <3>2, <3>3, <3>4
  <2>7. CASE ReplyText(r) \/ ReplyTruncated(r) \/ ReplyTools(r)
    <3>1. newMsgs' = newMsgs \o <<r>>
      BY <2>7 DEF ReplyText, ReplyTruncated, ReplyTools, Record
    <3>2. QED
      BY <1>7, <2>2, <2>3, <3>1
  <2>8. QED
    BY <1>17, <2>4, <2>5, <2>6, <2>7
<1>18. ASSUME AttachResults PROVE Goal
  <2> DEFINE texts == SteerTexts(Taken(steering))
             ms == SoftSteer(batch, texts)
             q == Taken(steering)
  <2>1. /\ ms \in Seq(Message) /\ newMsgs' = newMsgs \o ms
        /\ Len(ms) = Len(batch) /\ Len(batch) > 0
        /\ \A i \in 1..Len(batch) :
             ms[i] = IF i = Len(batch) THEN [batch[i] EXCEPT !.said = @ \cup texts]
                                       ELSE batch[i]
    BY <1>18, Attached
  <2>2. /\ pc = "attach" /\ pending = <<>> /\ steering' = Left(steering)
        /\ pending' = (IF texts = {} THEN q ELSE <<>>)
        /\ UNCHANGED <<followUp, messages, typed>>
    BY <1>18 DEF AttachResults, LoopShape, PendingPlaced
  <2>3. q \in Seq(Message)
    BY <1>2, TakenLeft
  <2>4. u \in texts <=> \E i \in 1..Len(q) : u \in q[i].said
    <3>1. DOMAIN q = 1..Len(q)
      BY <2>3
    <3>2. texts = (UNION {q[i].said : i \in DOMAIN q}) \ BlankInputs
      BY DEF SteerTexts
    <3> HIDE DEF q, texts
    <3>3. QED
      BY <3>1, <3>2
  <2>5. ResultsOf(batch, Len(batch))
    BY <2>2 DEF LoopShape, BatchPlaced
  <2> HIDE DEF ms, texts, q
  <2>6. Carried(ms, u) = IF u \in texts THEN 1 ELSE 0
    <3>1. ASSUME NEW i \in 1..Len(ms)
          PROVE  u \in ms[i].said <=> (i = Len(batch) /\ u \in texts)
      <4> DEFINE m == batch[i]
      <4>1. i \in 1..Len(batch)
        BY <2>1, <3>1
      <4>2. m \in Message /\ m.said = {}
        BY <1>2, <2>5, <4>1, ElementOfSeq DEF ResultsOf
      <4>3. ms[i] = IF i = Len(batch) THEN [m EXCEPT !.said = @ \cup texts] ELSE m
        BY <2>1, <4>1
      <4> HIDE DEF m
      <4>4. [m EXCEPT !.said = @ \cup texts].said = texts
        BY <4>2 DEF Message
      <4>5. QED
        BY <4>2, <4>3, <4>4
    <3>2. Len(batch) \in 1..Len(ms)
      BY <1>2, <2>1
    <3>3. CASE u \in texts
      BY <2>1, <3>1, <3>2, <3>3, CarriedAt
    <3>4. CASE u \notin texts
      BY <2>1, <3>1, <3>4, CarriedNone
    <3>5. QED
      BY <3>3, <3>4
  <2>7. Carried(q, u) = IF u \in texts THEN 1 ELSE 0
    <3>1. Carried(q, u) \in {0, 1}
      <4>1. S = Carried(q, u) + Carried(Left(steering), u)
            /\ Carried(q, u) \in Nat /\ Carried(Left(steering), u) \in Nat
        BY <1>13 DEF q
      <4>2. S + F + P + M + N = 0 \/ S + F + P + M + N = 1
        BY <1>4
      <4> DEFINE rest == Carried(Left(steering), u)
                 here == Carried(q, u)
      <4>3. S = here + rest /\ here \in Nat /\ rest \in Nat
        BY <4>1
      <4> HIDE DEF S, F, P, M, N, rest, here
      <4>4. here = 0 \/ here = 1
        BY <1>3, <4>2, <4>3
      <4>5. QED
        BY <4>4 DEF here
    <3>2. CASE u \in texts
      <4>1. Carried(q, u) # 0
        BY <2>3, <2>4, <3>2, CarriedNowhere
      <4>2. QED
        BY <3>1, <3>2, <4>1
    <3>3. CASE u \notin texts
      BY <2>3, <2>4, <3>3, CarriedNone
    <3>4. QED
      BY <3>2, <3>3
  <2>8. P = 0 /\ F' = F /\ M' = M /\ S' = Carried(Left(steering), u)
    BY <1>8, <2>2
  <2>9. P' = 0
    <3>1. CASE texts = {}
      BY <2>2, <2>7, <3>1
    <3>2. CASE texts # {}
      BY <1>8, <2>2, <3>2
    <3>3. QED
      BY <3>1, <3>2
  <2>10. N' = N + Carried(ms, u)
    BY <1>2, <2>1, CarriedAdds
  <2>11. S = Carried(q, u) + S' /\ S' \in Nat
    BY <1>13, <2>8 DEF q
  <2>12. Carried(ms, u) = Carried(q, u) /\ Carried(q, u) \in Nat
    BY <2>6, <2>7
  <2> HIDE DEF S, F, P, M, N
  <2>13. S' + F' + P' + M' + N' = S + F + P + M + N
    BY <1>3, <2>8, <2>9, <2>10, <2>11, <2>12
  <2>14. QED
    BY <1>5, <2>2, <2>13 DEF S, F, P, M, N
<1>19. ASSUME ThrashAdvice \/ ThrashStop PROVE Goal
  <2>1. /\ <<User("advice", {})>> \in Seq(Message) /\ <<User("stop", {})>> \in Seq(Message)
        /\ \A i \in 1..Len(<<User("advice", {})>>) : u \notin <<User("advice", {})>>[i].said
        /\ \A i \in 1..Len(<<User("stop", {})>>) : u \notin <<User("stop", {})>>[i].said
    BY MadeMessages DEF Tags, User
  <2>2. UNCHANGED <<steering, followUp, pending, messages, typed>>
        /\ \/ newMsgs' = newMsgs \o <<User("advice", {})>>
           \/ newMsgs' = newMsgs \o <<User("stop", {})>>
    BY <1>19 DEF ThrashAdvice, ThrashStop, Record
  <2>3. QED
    BY <1>7, <2>1, <2>2
<1>20. ASSUME PollSteering PROVE Goal
  <2>1. UNCHANGED <<followUp, messages, newMsgs, typed>>
        /\ \/ UNCHANGED <<steering, pending>>
           \/ pending' = pending \o Taken(steering) /\ steering' = Left(steering)
    BY <1>20 DEF PollSteering
  <2>2. CASE UNCHANGED <<steering, pending>>
    BY <1>6, <2>1, <2>2
  <2>3. CASE pending' = pending \o Taken(steering) /\ steering' = Left(steering)
    <3>1. P' = P + Carried(Taken(steering), u)
      BY <1>2, <2>3, CarriedAdds, TakenLeft
    <3>2. S' = Carried(Left(steering), u) /\ F' = F /\ M' = M /\ N' = N
      BY <2>1, <2>3
    <3> HIDE DEF S, F, P, M, N
    <3>3. S' + F' + P' + M' + N' = S + F + P + M + N
      BY <1>3, <1>13, <3>1, <3>2
    <3>4. QED
      BY <1>5, <2>1, <3>3 DEF S, F, P, M, N
  <2>4. QED
    BY <2>1, <2>2, <2>3
<1>21. ASSUME PollFollowUp PROVE Goal
  <2>1. /\ UNCHANGED <<steering, messages, newMsgs, typed>> /\ followUp' = Left(followUp)
        /\ pending = <<>>
        /\ \/ followUp = <<>> /\ pending' = pending
           \/ pending' = Taken(followUp)
    BY <1>21 DEF PollFollowUp, LoopShape, PendingPlaced
  <2>2. P = 0 /\ F' = Carried(Left(followUp), u) /\ S' = S /\ M' = M /\ N' = N
    BY <1>8, <2>1
  <2>3. P' = Carried(Taken(followUp), u)
    <3>1. CASE pending' = Taken(followUp)
      BY <3>1
    <3>2. CASE followUp = <<>> /\ pending' = pending
      <4>1. F = 0 /\ P' = 0
        BY <1>8, <2>1, <3>2
      <4> HIDE DEF S, F, P, M, N
      <4>2. Carried(Taken(followUp), u) = 0
        BY <1>14, <4>1
      <4>3. QED
        BY <4>1, <4>2
    <3>3. QED
      BY <2>1, <3>1, <3>2
  <2> HIDE DEF S, F, P, M, N
  <2>4. S' + F' + P' + M' + N' = S + F + P + M + N
    BY <1>3, <1>14, <2>2, <2>3
  <2>5. QED
    BY <1>5, <2>1, <2>4 DEF S, F, P, M, N
<1>22. ASSUME CompleteRun PROVE Goal
  <2>1. /\ pc = "done" /\ messages' = context /\ newMsgs' = <<>> /\ pending' = <<>>
        /\ UNCHANGED <<steering, followUp, typed>>
    BY <1>22 DEF CompleteRun, FreshLocals
  <2>2. context = messages \o newMsgs
    BY <1>1, <2>1 DEF RetellInv, Said
  <2>3. M' = M + N
    BY <1>2, <2>1, <2>2, CarriedAdds
  <2>4. P = 0
    <3>1. \A i \in 1..Len(pending) : u \notin pending[i].said
      BY <2>1 DEF LoopShape, PendingPlaced
    <3>2. QED
      BY <1>2, <3>1, CarriedNone
  <2>5. P' = 0 /\ N' = 0 /\ S' = S /\ F' = F
    BY <1>8, <2>1
  <2> HIDE DEF S, F, P, M, N
  <2>6. S' + F' + P' + M' + N' = S + F + P + M + N
    BY <1>3, <2>3, <2>4, <2>5
  <2>7. QED
    BY <1>5, <2>1, <2>6 DEF S, F, P, M, N
<1>23. Goal
  BY <1>9, <1>10, <1>11, <1>12, <1>15, <1>16, <1>17, <1>18, <1>19, <1>20, <1>21, <1>22
     DEF Next, UserStep, RunStep, StreamReply
<1>24. QED
  BY <1>23 DEF Goal

\* Nothing is held before it is typed.
LEMMA NothingTyped == Init => ConserveInv
<1> SUFFICES ASSUME Init, NEW u \in Inputs \ BlankInputs
             PROVE  Held(u) = IF u \in typed THEN 1 ELSE 0
  BY DEF ConserveInv
<1>1. Carried(<<>>, u) = 0
  BY CountEmpty DEF Carried
<1>2. /\ steering = <<>> /\ followUp = <<>> /\ pending = <<>> /\ newMsgs = <<>> /\ typed = {}
      /\ messages = <<>> \/ messages \in Resumable
  BY DEF Init
<1>3. Carried(messages, u) = 0
  <2>1. CASE messages = <<>>
    BY <1>1, <2>1
  <2>2. CASE messages \in Resumable
    <3>1. messages \in Seq(Message) /\ \A i \in DOMAIN messages : messages[i].said = {}
      BY <2>2, HistoryAssumption
    <3>2. \A i \in 1..Len(messages) : u \notin messages[i].said
      BY <3>1
    <3>3. QED
      BY <3>1, <3>2, CarriedNone
  <2>3. QED
    BY <1>2, <2>1, <2>2
<1>4. QED
  BY <1>1, <1>2, <1>3 DEF Held

\* No steer or follow-up with text is lost or delivered twice, however the runs
\* it falls into end: drain_queue, the soft steer and complete_run only move it.
THEOREM NothingLost == Spec => []InputsConserved
<1>1. Init => LoopShape /\ RetellInv /\ ConserveInv
  BY InitShape, NothingTyped DEF Init, RetellInv
<1>2. LoopShape /\ RetellInv /\ ConserveInv /\ [Next]_vars
        => (LoopShape /\ RetellInv /\ ConserveInv)'
  BY ShapeKept, RetellKept, ConserveKept
<1>3. LoopShape /\ RetellInv /\ ConserveInv => InputsConserved
  <2> SUFFICES ASSUME LoopShape, ConserveInv, ~setup.compacts, NEW u \in typed \ BlankInputs
               PROVE  Places(u) = 1
    BY DEF InputsConserved
  <2>1. u \in Inputs \ BlankInputs
    BY DEF LoopShape, TypeOK
  <2>2. Held(u) = 1
    BY <2>1 DEF ConserveInv
  <2>3. QED
    BY <2>2, PlacesIs
<1>4. QED
  BY <1>1, <1>2, <1>3, PTL DEF Spec
=============================================================================
