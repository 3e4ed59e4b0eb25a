----------------------------- MODULE Compaction -----------------------------
(***************************************************************************)
(* Compaction of the history (pirs-agent/src/compaction.rs), as the agent  *)
(* loop calls it after a turn (agent_loop/mod.rs) and the user by          *)
(* /compact (agent.rs, compact_now): the choice of the cut, the summary    *)
(* that takes the place of what is dropped, the memory that keeps it, and  *)
(* the account of the tokens spent.                                        *)
(*                                                                         *)
(* A message carries its place in all that was said (no, 0 for a summary), *)
(* its estimated tokens, the calls it makes or the call it answers, the    *)
(* usage its provider reported, and whether it has a text that a           *)
(* compaction hands to the memory.  Results have none: the loop hands them *)
(* over when they come.  What the memory evicts at its cap, a write to it  *)
(* that fails and guidance a soft steer adds to a result are left out.     *)
(* A cut is the number of messages dropped, 0 for None.                    *)
(***************************************************************************)
EXTENDS Integers, Sequences, FiniteSets, FiniteSetsExt, SequencesExt

CONSTANTS
  Sizes,        \* estimated tokens of a message
  Limit,        \* context_window - reserve_tokens
  KeepRecent,   \* keep_recent_tokens
  MinTurns,     \* min_recent_user_turns
  MaxResult,    \* tokens of MODEL_MAX_TOOL_RESULT_CHARS
  Resumes,      \* the histories a session may start with
  MaxSaid,      \* bound: the messages said
  MaxExtra      \* bound: the usage of summaries up to which /compact is given

VARIABLES
  messages,     \* Context::messages
  said,         \* how many messages were ever said
  open,         \* memory::global() is there
  memory,       \* the places of those handed to it
  extra,        \* extra_usage: what is not on a message any more
  phase,        \* "idle", "turn" or, after a turn, "check"
  \* history
  silent,       \* the places of those that are never handed over
  spent,        \* the usage every provider call has reported
  failures      \* what of it summaries that failed have reported

compactionVars ==
  <<messages, said, open, memory, extra, phase, silent, spent, failures>>

-----------------------------------------------------------------------------
(* Messages. *)

Said(role, no, size) ==
  [role |-> role, no |-> no, size |-> size, calls |-> {}, of |-> 0,
   usage |-> 0, text |-> TRUE]
Asks(no, size, ids, text) ==
  [Said("assistant", no, size) EXCEPT !.calls = ids, !.usage = 1, !.text = text]
Answers(no, size, id) ==
  [Said("result", no, size) EXCEPT !.of = id, !.text = FALSE]
Summary(size) == Said("user", 0, size)

IsResult(ms, i) == i \in DOMAIN ms /\ ms[i].role = "result"

\* estimate_tokens, count_user_turns.
Tokens(ms) == FoldLeft(LAMBDA sum, m : sum + m.size, 0, ms)
UserTurns(ms) == Len(SelectSeq(ms, LAMBDA m : m.role = "user"))
Usages(ms) == FoldLeft(LAMBDA sum, m : sum + m.usage, 0, ms)
Kept(ms, cut) == SubSeq(ms, cut + 1, Len(ms))

\* tool_pairs_intact: no call without a later result, no result without an
\* earlier call that is still open.
PairsIntact(ms) ==
  /\ \A i \in DOMAIN ms : \A id \in ms[i].calls :
       \E j \in i+1..Len(ms) : ms[j].role = "result" /\ ms[j].of = id
  /\ \A j \in DOMAIN ms : ms[j].role = "result" =>
       \E i \in 1..j-1 :
         /\ ms[j].of \in ms[i].calls
         /\ \A k \in i+1..j-1 : ~(ms[k].role = "result" /\ ms[k].of = ms[j].of)

\* shrink_oversized_tool_results (the note it adds is not counted).
Shrunk(ms) ==
  [i \in DOMAIN ms |->
    IF ms[i].role = "result" /\ ms[i].size > MaxResult
      THEN [ms[i] EXCEPT !.size = MaxResult] ELSE ms[i]]

-----------------------------------------------------------------------------
(* The cut. *)

\* The first cut from this one on that leaves no result in front.
PastResults(ms, cut) ==
  Min({c \in cut..Len(ms) : ~IsResult(ms, c + 1)})

\* snap_cut_to_tool_pair_boundary: a cut in front of a result goes back to the
\* reply that made the call, or past the results when a user message or
\* nothing comes before them.
Snap(ms, cut) ==
  LET owners == {i \in 1..cut : ms[i].calls # {} \/ ms[i].role = "user"}
      owner == Max(owners)
  IN CASE ~IsResult(ms, cut + 1) -> cut
       [] IsResult(ms, cut + 1) /\ owners = {} -> PastResults(ms, cut)
       [] OTHER -> IF ms[owner].role = "user" THEN PastResults(ms, owner)
                   ELSE owner - 1

\* emergency_token_cut: the shortest tail of keep_recent_tokens, or else half
\* of the messages.
EmergencyCut(ms) ==
  LET n == Len(ms)
      enough == {c \in 1..n-1 : /\ Tokens(Kept(ms, c)) >= KeepRecent
                                /\ Snap(ms, c) \in 1..n-1}
      half == Snap(ms, n \div 2)
  IN CASE n < 3 -> 0
       [] n >= 3 /\ enough # {} -> Snap(ms, Max(enough))
       [] OTHER -> IF half \in 1..n-1 THEN half ELSE n \div 2

\* The loop of find_cut_point_ex, from the last message to message i.
Walk(ms) ==
  LET least == IF MinTurns < UserTurns(ms) THEN MinTurns ELSE UserTurns(ms)
      walk[i \in 1..Len(ms)+1] ==
        IF i = Len(ms) + 1
          THEN [acc |-> 0, turns |-> 0, cut |-> 0, done |-> FALSE]
          ELSE LET w == walk[i + 1]
                   acc == w.acc + ms[i].size
               IN CASE w.done -> w
                    [] ~w.done /\ ms[i].role # "user" -> [w EXCEPT !.acc = acc]
                    [] OTHER -> [acc |-> acc, turns |-> w.turns + 1, cut |-> i - 1,
                                 done |-> /\ acc >= KeepRecent
                                          /\ w.turns + 1 >= least]
  IN walk[1]

\* Variant: the turns to keep are not clamped to those there are.
FindCutUnclamped(ms) ==
  IF UserTurns(ms) < MinTurns \/ Len(ms) < 2 THEN 0
  ELSE IF Walk(ms).cut = 0 THEN EmergencyCut(ms) ELSE Snap(ms, Walk(ms).cut)

\* find_cut_point_ex.
FindCut(ms) ==
  LET cut == Snap(ms, Walk(ms).cut)
  IN IF Len(ms) < 2 THEN 0
     ELSE IF Walk(ms).cut = 0 \/ cut = 0 THEN EmergencyCut(ms) ELSE cut

-----------------------------------------------------------------------------

CompactionInit ==
  /\ messages \in Resumes
  /\ said = Len(messages)
  /\ open \in BOOLEAN
  /\ memory = {} /\ extra = 0 /\ phase = "idle"
  /\ silent = {m.no : m \in {n \in ToSet(messages) : ~n.text}}
  /\ spent = Usages(messages) /\ failures = 0

\* MemoryStore::add_messages: the places of those that it takes.
Demoted(ms) == {m.no : m \in {n \in ToSet(ms) : n.text}} \ {0}

\* What the memory has after it is given the messages at these places.
Spill(places) == IF open THEN memory \cup places ELSE memory

\* compact_messages on the history ms: refused without a cut or when the tail
\* would break pairs; the texts of the dropped range go to memory before the
\* summary is asked for, and its usage to the account only when there is one.
\* A summary that fails may have cost something as well (summarize bails out
\* with the usage it has read).
CompactMessages(ms) ==
  LET cut == FindCut(ms)
      dropped == SubSeq(ms, 1, cut)
  IN IF cut = 0 \/ ~PairsIntact(Kept(ms, cut))
       THEN messages' = ms /\ UNCHANGED <<memory, extra, spent, failures>>
       ELSE /\ memory' = Spill(Demoted(dropped))
            /\ \/ \E s \in Sizes :
                    /\ messages' = <<Summary(s)>> \o Kept(ms, cut)
                    /\ extra' = extra + Usages(dropped) + 1
                    /\ spent' = spent + 1
                    /\ UNCHANGED failures
               \/ \E cost \in {0, 1} :
                    /\ messages' = ms
                    /\ spent' = spent + cost /\ failures' = failures + cost
                    /\ UNCHANGED extra

\* The user says something.
Prompt(size) ==
  /\ phase = "idle" /\ said < MaxSaid
  /\ phase' = "turn" /\ said' = said + 1
  /\ messages' = Append(messages, Said("user", said', size))
  /\ UNCHANGED <<open, memory, extra, silent, spent, failures>>

\* A turn: a reply, with a text or without, and the results of its calls, of
\* which these go to memory.
Replied(n, size, text, spilled) ==
  LET ids == {said + 1 + k : k \in 1..n}
  IN /\ phase = "turn" /\ said + 1 + n <= MaxSaid
     /\ said' = said + 1 + n
     /\ messages' = messages \o <<Asks(said + 1, 1, ids, text)>>
                      \o [k \in 1..n |-> Answers(said + 1 + k, size, said + 1 + k)]
     /\ memory' = Spill(spilled)
     /\ silent' = silent \cup (ids \ spilled)
                         \cup (IF text THEN {} ELSE {said + 1})
     /\ spent' = spent + 1
     /\ UNCHANGED <<open, extra, failures>>

\* Each result is handed to memory at once: not one of recall, nor a blank one.
Turn(n, size, text, quiet) ==
  /\ phase' = "check"
  /\ Replied(n, size, text, {said + 1 + k : k \in 1..n} \ quiet)

\* An errored or aborted reply: the results made up for its calls go nowhere
\* else, and the run is over without a check.
FailedTurn(n) ==
  /\ phase' = "idle"
  /\ Replied(n, Min(Sizes), TRUE, {})

\* The check after a turn: the provider's count or the estimate is over.
Check(reported) ==
  LET calls == Last(messages).role = "result"
  IN /\ phase = "check"
     /\ phase' = IF calls THEN "turn" ELSE "idle"
     /\ IF reported \/ Tokens(messages) > Limit
          THEN CompactMessages(Shrunk(messages))
          ELSE UNCHANGED <<messages, memory, extra, spent, failures>>
     /\ UNCHANGED <<said, open, silent>>

\* Agent::compact_now.
CompactNow ==
  /\ phase = "idle" /\ messages # <<>> /\ extra + failures < MaxExtra
  /\ CompactMessages(messages)
  /\ UNCHANGED <<said, open, silent, phase>>

CompactionNext ==
  \/ \E s \in Sizes : Prompt(s)
  \/ \E s \in Sizes, n \in 1..2 : Turn(n, s, n # 1, {})
  \/ Turn(0, Min(Sizes), TRUE, {}) \/ Turn(1, Max(Sizes), TRUE, {said + 2})
  \/ \E n \in 0..1 : FailedTurn(n)
  \/ \E reported \in BOOLEAN : Check(reported)
  \/ CompactNow

-----------------------------------------------------------------------------

\* The history keeps the pairs of calls and results a provider asks for, and
\* is what was said, word for word, from some message on, behind a summary
\* (compaction.rs:181-252, 446).
HistoryIsSuffix ==
  LET own == SelectSeq(messages, LAMBDA m : m.no # 0)
  IN /\ \A i \in DOMAIN own : own[i].no = said - Len(own) + i
     /\ \A i \in DOMAIN messages : messages[i].no = 0 => i = 1

InHistory == {m.no : m \in ToSet(messages)}

\* As long as there is a memory, what has left the history has been handed to
\* it, whether the summaries fail or not: all but replies without a text,
\* results of recall, blank results and those made up for an errored reply
\* (compaction.rs:417-422, memory.rs:317, agent_loop/mod.rs:249). A reply's
\* usage is counted once, on it or in extra_usage (compaction.rs:408-416, 433);
\* only that of a summary that failed is not.
DroppedIsKept ==
  /\ open => (1..said) \ silent \subseteq memory \cup InHistory
  /\ spent = extra + Usages(messages) + failures

\* The cut a history with all its results should be given: the last one in
\* front of a user message, or else of any message but a result, that keeps
\* KeepRecent tokens and, in front of a user message, the turns to keep; or
\* else the last boundary of the first half.
BestCut(ms) ==
  LET n == Len(ms)
      bounds == {c \in 1..n-1 : ~IsResult(ms, c + 1)}
      enough == {c \in bounds : Tokens(Kept(ms, c)) >= KeepRecent}
      least == IF MinTurns < UserTurns(ms) THEN MinTurns ELSE UserTurns(ms)
      turns == {c \in enough : /\ ms[c + 1].role = "user"
                               /\ UserTurns(Kept(ms, c)) >= least}
  IN CASE turns # {} -> Max(turns)
       [] turns = {} /\ n < 3 -> 0
       [] turns = {} /\ n >= 3 /\ enough # {} -> Max(enough)
       [] OTHER -> Max({c \in bounds : c <= n \div 2})

\* A compaction that is done keeps pairs and cuts where BestCut says, so that
\* one long turn does not keep it from cutting (compaction.rs:82-92, 139); it
\* is not refused while there is such a cut.
CutsBest ==
  LET ms == IF phase = "check" THEN Shrunk(messages) ELSE messages
      cut == BestCut(ms)
  IN PairsIntact(messages) =>
       /\ PairsIntact(messages')
       /\ extra' # extra => /\ cut # 0
                            /\ Tail(messages') = Kept(ms, cut)
       /\ cut # 0 /\ (\/ phase = "idle" /\ phase' = "idle"
                      \/ phase = "check" /\ Tokens(messages) > Limit) =>
            (open => Demoted(SubSeq(ms, 1, cut)) \subseteq memory')

\* What a history may be trusted with over any number of compactions.
CompactionIsSound ==
  [](HistoryIsSuffix /\ DroppedIsKept) /\ [][CutsBest]_compactionVars
=============================================================================
