------------------------------- MODULE Thrash -------------------------------
(***************************************************************************)
(* The thrash guard of an agent (pirs-agent/src/thrash.rs) and the advisor *)
(* of a hybrid strategy (hybrid.rs), as the batches of the agent loop use  *)
(* them (agent_loop/tool_exec.rs, mod.rs): every call is looked at before  *)
(* it runs and after it has run, and a verdict taken at the end of a turn  *)
(* ends the run, or is answered by the advisor while its budget lasts.     *)
(*                                                                         *)
(* A call is a record of the path it writes ("" for none) and of its body; *)
(* equal calls have equal signatures.  The guard belongs to the agent and  *)
(* outlives a run.                                                         *)
(***************************************************************************)
EXTENDS Integers, Sequences, FiniteSets, FiniteSetsExt, SequencesExt

CONSTANTS
  Calls,        \* the calls a model may make
  MayFail,      \* those of them that may end in an error
  Window,       \* LoopDetectionTracker::window
  MaxRepeats,   \* LoopDetectionTracker::max_repeats
  MaxMistakes,  \* MistakeTracker::max_consecutive
  HashKeep,     \* the contents kept of a path, 6 in the code
  MaxAdvice,    \* max_advisor_calls, 0 for no hybrid
  MaxStarts     \* bound: the calls made

AskAdvisor == [path |-> "", body |-> "ask_advisor"]
Paths == {c.path : c \in Calls} \ {""}

VARIABLES
  recent,     \* LoopDetectionTracker::recent
  streak,     \* MistakeTracker::streak
  hashes,     \* edit_hashes: the contents of a path, oldest first
  stop,       \* stop_message is set
  advisor,    \* advisor_calls
  todo,       \* the calls of the batch that are not looked at yet
  flying,     \* the calls of the batch that run
  parallel,   \* the batch runs in parallel
  mode,       \* "idle", "model" (a reply is awaited) or "batch"
  starts,     \* for the properties: every call and what was done with it
  ends,       \* ... the outcome of each that ran, TRUE for an error,
  asked,      \* ... the calls the strong model has served,
  told        \* ... and how often a verdict was told to the model

guard == <<recent, streak, hashes, stop>>
thrashVars == <<guard, advisor, todo, flying, parallel, mode, starts, ends,
                asked, told>>

ThrashInit ==
  /\ recent = <<>> /\ streak = 0 /\ hashes = [p \in Paths |-> <<>>]
  /\ stop = FALSE /\ advisor = 0
  /\ todo = <<>> /\ flying = <<>> /\ parallel = FALSE /\ mode = "idle"
  /\ starts = <<>> /\ ends = <<>> /\ asked = 0 /\ told = 0

-----------------------------------------------------------------------------

LastOf(s, n) == SubSeq(s, Max({1, Len(s) - n + 1}), Len(s))
Count(x, s) == Cardinality({i \in DOMAIN s : s[i] = x})

\* LoopDetectionTracker::observe.
Repeats(c) == Count(c, LastOf(Append(recent, c), Window)) >= MaxRepeats

\* observe_edit_oscillation: the path returns to a content it had, and not
\* the last one.
Oscillates(c) ==
  /\ c.path # "" /\ hashes[c.path] # <<>>
  /\ Last(hashes[c.path]) # c.body
  /\ Contains(hashes[c.path], c.body)

\* A prompt starts a run.
Begin ==
  /\ mode = "idle" /\ mode' = "model"
  /\ UNCHANGED <<guard, advisor, todo, flying, parallel, starts, ends, asked, told>>

\* The model replies with a batch, or with a final answer.
Reply(calls, par) ==
  /\ mode = "model" /\ Len(starts) + Len(calls) <= MaxStarts
  /\ mode' = IF calls = <<>> THEN "idle" ELSE "batch"
  /\ todo' = calls /\ parallel' = par
  /\ UNCHANGED <<guard, advisor, flying, starts, ends, asked, told>>

\* observe_tool_start: a repeated call or an edit back and forth is refused,
\* and the calls behind it are answered unrun.  The loop detector keeps a
\* refused call, the contents of a path do not.
Start ==
  LET c == Head(todo)
      verdict == CASE Repeats(c) -> "loop"
                   [] ~Repeats(c) /\ Oscillates(c) -> "oscillation"
                   [] OTHER -> "run"
  IN /\ mode = "batch" /\ todo # <<>> /\ (parallel \/ flying = <<>>)
     /\ recent' = LastOf(Append(recent, c), Window)
     /\ starts' = Append(starts, [call |-> c, verdict |-> verdict])
     /\ IF verdict = "run"
          THEN /\ flying' = Append(flying, c) /\ todo' = Tail(todo)
               /\ hashes' = IF c.path = "" THEN hashes
                            ELSE [hashes EXCEPT ![c.path] =
                                    LastOf(Append(@, c.body), HashKeep)]
               /\ UNCHANGED stop
          ELSE /\ stop' = TRUE /\ todo' = <<>>
               /\ UNCHANGED <<flying, hashes>>
     /\ UNCHANGED <<streak, advisor, parallel, mode, ends, asked, told>>

\* HybridConfig::advise: the budget is taken before the strong model is asked.
Advise ==
  /\ advisor' = advisor + 1
  /\ asked' = IF advisor < MaxAdvice THEN asked + 1 ELSE asked

\* observe_tool_end, in the order in which the calls of a batch end; of a
\* parallel one, a call that cannot be prepared ends before the next is looked
\* at, and the others once all are started.
End(i, error) ==
  LET c == flying[i]
  IN /\ mode = "batch"
     /\ parallel => todo = <<>> \/ (error /\ i = Len(flying))
     /\ error => c \in MayFail
     /\ flying' = RemoveAt(flying, i)
     /\ streak' = IF error THEN streak + 1 ELSE 0
     /\ stop' = (stop \/ (error /\ streak + 1 >= MaxMistakes))
     /\ ends' = Append(ends, error)
     /\ IF c = AskAdvisor THEN Advise ELSE UNCHANGED <<advisor, asked>>
     /\ UNCHANGED <<recent, hashes, todo, parallel, mode, starts, told>>

BatchOver == mode = "batch" /\ todo = <<>> /\ flying = <<>>

\* The turn ends without a verdict.
GoOn ==
  /\ BatchOver /\ ~stop
  /\ mode' = "model"
  /\ UNCHANGED <<guard, advisor, todo, flying, parallel, starts, ends, asked, told>>

\* Variant: the advisor is asked whatever its budget.
EscalateAlways ==
  /\ BatchOver /\ stop
  /\ stop' = FALSE /\ told' = told + 1 /\ mode' = "model"
  /\ Advise
  /\ UNCHANGED <<recent, streak, hashes, todo, flying, parallel, starts, ends>>

\* take_stop, on_thrash: the verdict is answered with guidance.
Escalate ==
  /\ BatchOver /\ stop /\ advisor < MaxAdvice
  /\ stop' = FALSE /\ told' = told + 1 /\ mode' = "model"
  /\ Advise
  /\ UNCHANGED <<recent, streak, hashes, todo, flying, parallel, starts, ends>>

\* take_stop: without a hybrid, with its budget spent, or when the advisor
\* fails, the run ends on the verdict.
HardStop ==
  /\ BatchOver /\ stop
  /\ stop' = FALSE /\ told' = told + 1 /\ mode' = "idle"
  /\ IF advisor < MaxAdvice THEN Advise ELSE UNCHANGED <<advisor, asked>>
  /\ UNCHANGED <<recent, streak, hashes, todo, flying, parallel, starts, ends>>

Batches == {<<>>} \cup {<<c>> : c \in Calls} \cup (Calls \X Calls)

ThrashNext ==
  \/ Begin
  \/ \E calls \in Batches, par \in BOOLEAN : Reply(calls, par)
  \/ Start
  \/ \E i \in DOMAIN flying, error \in BOOLEAN : End(i, error)
  \/ GoOn \/ Escalate \/ HardStop

-----------------------------------------------------------------------------

Ran(s) == SelectSeq(s, LAMBDA e : e.verdict = "run")

\* In any Window calls the same one runs fewer than MaxRepeats times, over
\* batches and runs (thrash.rs:66).
RepeatsAreFew ==
  \A i \in DOMAIN starts :
    LET ran == Ran(SubSeq(starts, Max({1, i - Window + 1}), i))
    IN \A e \in ToSet(ran) : Count(e, ran) < MaxRepeats

\* A path is not written back to one of its last HashKeep contents, once it
\* has had another in between (thrash.rs:222).
NoOscillation ==
  \A p \in Paths :
    LET wrote == SelectSeq(Ran(starts), LAMBDA e : e.call.path = p)
        body(i) == wrote[i].call.body
    IN \A j \in DOMAIN wrote : \A i \in Max({1, j - HashKeep})..j-1 :
         body(i) = body(j) => body(j - 1) = body(j)

\* No turn passes over a verdict: the model is told of each refusal, and of a
\* row of MaxMistakes errors, before it makes its next reply, and while the
\* run goes on the strong model has answered.  It is asked within its budget.
VerdictsAreTold ==
  /\ asked <= MaxAdvice
  /\ Cardinality({i \in DOMAIN starts : starts[i].verdict # "run"})
       <= told + (IF mode = "batch" THEN 1 ELSE 0)
  /\ ~stop \/ mode = "batch"
  /\ mode = "batch" /\ Len(ends) >= MaxMistakes /\ flying = <<>> /\ todo = <<>>
     /\ (\A e \in ToSet(LastOf(ends, MaxMistakes)) : e) => stop \/ told > 0

\* A run that goes on after a verdict has spent advice on it.
StopsUnlessAdvised ==
  [][mode = "batch" /\ stop /\ mode' = "model" =>
       asked' = asked + 1 /\ asked' <= MaxAdvice]_thrashVars

\* A model that goes in circles is stopped.
ThrashIsStopped ==
  [](RepeatsAreFew /\ NoOscillation /\ VerdictsAreTold) /\ StopsUnlessAdvised
=============================================================================
