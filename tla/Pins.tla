-------------------------------- MODULE Pins --------------------------------
(***************************************************************************)
(* The list of messages that a request carries (stream_once, stream.rs):   *)
(* a copy of the history, rewritten by the on_context of each extension    *)
(* pack in turn, after which the host puts back the reminders that must    *)
(* stay and the order that the wire asks for (control_pins.rs).            *)
(*                                                                         *)
(* A message is its role with what matters of it here: the calls of a      *)
(* reply, the call and tool of a result, the kind of a user's reminder.    *)
(***************************************************************************)
EXTENDS Naturals, Sequences, FiniteSets

LOCAL INSTANCE SequencesExt
LOCAL INSTANCE TLC

CONSTANTS
  Packs,        \* the packs with on_context, in the order they were loaded
  Protected,    \* PROTECTED_KINDS, in the order of the code
  MaxMessages   \* bound on the history

PlanKinds == {"plan", "goal"}   \* kinds of which a pack keeps one pin
PackKinds == PlanKinds \cup {"strip", "merge"}

ASSUME PinsAssumption ==
  /\ Packs \in Seq(PackKinds)
  /\ \A i \in DOMAIN Protected : Protected[i] \notin PlanKinds \cup {"plain"}
  /\ MaxMessages \in Nat

VARIABLES
  history,  \* context.messages
  wire,     \* the list being rewritten
  at        \* 0 while the history grows, the pack that is next, past them all: sent

pinVars == <<history, wire, at>>

Reminds(kind) == [role |-> "user", kind |-> kind, calls |-> <<>>, of |-> 0]
Says(calls) ==
  [role |-> "assistant", kind |-> "none", calls |-> calls, of |-> 0]
Gives(i) == [role |-> "result", kind |-> "none", calls |-> <<>>, of |-> i]

Kinds == {Protected[i] : i \in DOMAIN Protected}
IsKind(m, k) == m.role = "user" /\ m.kind = k
Has(ms, k) == \E i \in DOMAIN ms : IsKind(ms[i], k)

PinsInit == history = <<>> /\ wire = <<>> /\ at = 0

\* What the loop adds to the history: words of the user, reminders, replies,
\* and batches with their results behind them.
Groups(n) ==
  {<<Reminds(k)>> : k \in Kinds \cup {"plain"}}
  \cup {<<Says(<<>>)>>, <<Says(<<n>>), Gives(n)>>,
        <<Says(<<n, n + 1>>), Gives(n), Gives(n + 1)>>}

Converse ==
  /\ at = 0
  /\ \E g \in Groups(Len(history)) :
       /\ Len(history) + Len(g) <= MaxMessages
       /\ history' = history \o g
  /\ UNCHANGED <<wire, at>>

-----------------------------------------------------------------------------
(* The packs. *)

\* Just before the last message.
PinLast(ms, m) == InsertAt(ms, IF ms = <<>> THEN 1 ELSE Len(ms), m)
Without(ms, kinds) ==
  SelectSeq(ms, LAMBDA m : ~(m.role = "user" /\ m.kind \in kinds))

\* weak-model, goal and their like: the pin of their kind is renewed.
Renew(ms, k) == PinLast(Without(ms, {k}), Reminds(k))

\* A pack of a user's that drops every reminder.
Strip(ms) == Without(ms, Kinds \cup PlanKinds)

\* diff-shield: results of one tool that follow each other become the first.
Merge(ms) ==
  FoldLeft(LAMBDA out, m : IF out # <<>> /\ m.role = "result"
                              /\ out[Len(out)].role = "result"
                           THEN out ELSE Append(out, m),
           <<>>, ms)

Rewritten(ms, pack) ==
  CASE pack \in PlanKinds -> Renew(ms, pack)
    [] pack = "strip" -> Strip(ms)
    [] OTHER -> Merge(ms)

-----------------------------------------------------------------------------
(* The host. *)

\* preserve_control_pins: a protected kind that has gone comes back once.
PreserveControlPins(before, after) ==
  FoldLeft(LAMBDA ms, k :
             IF Has(before, k) /\ ~Has(ms, k) THEN PinLast(ms, Reminds(k)) ELSE ms,
           after, Protected)

\* enforce_tool_result_adjacency: between a reply with calls and the next
\* reply, results come first; nothing else changes its place.
EnforceAdjacency(ms) ==
  LET Replies(i) == {j \in 1..i : ms[j].role = "assistant"}
      Group(i) == IF Replies(i) = {} THEN 0
                  ELSE CHOOSE j \in Replies(i) : \A k \in Replies(i) : k <= j
      Behind(i) == /\ Group(i) \notin {0, i} /\ ms[Group(i)].calls # <<>>
                   /\ ms[i].role # "result"
      Before(i, j) ==
        IF Group(i) # Group(j) THEN Group(i) < Group(j)
        ELSE IF Behind(i) # Behind(j) THEN Behind(j) ELSE i < j
      order == SortSeq([i \in DOMAIN ms |-> i], Before)
  IN  [i \in DOMAIN ms |-> ms[order[i]]]

RestoreOrderFirst(before, after) ==
  PreserveControlPins(before, EnforceAdjacency(after))
Restore(before, after) == EnforceAdjacency(PreserveControlPins(before, after))

AskModel ==
  /\ at = 0 /\ history # <<>>
  /\ wire' = history
  /\ at' = 1
  /\ UNCHANGED history

\* A pack may have nothing to say.
Rewrite ==
  /\ at \in DOMAIN Packs
  /\ wire' \in {wire, Rewritten(wire, Packs[at])}
  /\ at' = at + 1
  /\ UNCHANGED history

SendWire ==
  /\ at = Len(Packs) + 1
  /\ wire' = Restore(history, wire)
  /\ at' = Len(Packs) + 2
  /\ UNCHANGED history

PinsNext == Converse \/ AskModel \/ Rewrite \/ SendWire

-----------------------------------------------------------------------------
(* Properties. *)

\* "The wire protocol requires every tool result to sit in the turn immediately
\* following" (control_pins.rs:113): the calls of a reply have their results
\* right behind it, whatever the packs have put between.
Answered(ms) ==
  \A i \in DOMAIN ms :
    \A j \in DOMAIN ms[i].calls :
      /\ i + j <= Len(ms)
      /\ ms[i + j].of = ms[i].calls[j]

\* What a request carries: calls with their results, every protected reminder
\* of the history, and the rest of the history in its order.
WireIsValid ==
  at = Len(Packs) + 2 =>
    /\ Answered(wire)
    /\ \A k \in Kinds : Has(history, k) => Has(wire, k)
    /\ Without(wire, Kinds \cup PlanKinds) = Without(history, Kinds)

\* The same of the calls alone.
WireIsAnswered == at = Len(Packs) + 2 => Answered(wire)
=============================================================================
