---------------------------- MODULE MCTurnParts ----------------------------
(***************************************************************************)
(* TLC instances of five parts of a turn that share no state: completion,  *)
(* compaction, thrash guard, the rewriting of a request and the gated      *)
(* strategy.  A behaviour is one of a single part; the others rest in a    *)
(* state in which no action of theirs is enabled.                          *)
(***************************************************************************)
EXTENDS Completion, Compaction, Thrash, Pins, Phases

OpenAi == [kind |-> "openai", known |-> TRUE, keyed |-> TRUE]
Anthropic == [kind |-> "anthropic", known |-> TRUE, keyed |-> TRUE]
Unknown == [OpenAi EXCEPT !.known = FALSE]
Keyless == [Anthropic EXCEPT !.keyed = FALSE]

Plain(b) == [routed |-> FALSE, pin |-> FALSE, serve |-> <<>>, default |-> b]
Alias(s) == [routed |-> TRUE, pin |-> FALSE, serve |-> s, default |-> OpenAi]
Pin(b) == [routed |-> TRUE, pin |-> TRUE, serve |-> <<b>>, default |-> OpenAi]

\* Each client alone, a failover between them, a pin to an unknown backend.
AllRoutes ==
  {Plain(OpenAi), Plain(Anthropic), Pin(Unknown),
   Alias(<<Unknown, OpenAi, Keyless, Anthropic>>)}
OnePlain == {Plain(OpenAi)}

\* A new session, and one resumed from a file cut off in a batch.
FreshOrTorn == {<<>>, <<Said("user", 1, 1), Asks(2, 1, {3}, FALSE)>>}

\* To bound the run: the memory is missing in the resumed one only.
NoMemoryIfTorn == open <=> messages = <<>>

Look == [path |-> "", body |-> "look"]
Write(b) == [path |-> "p", body |-> b]
LooksAndWrites == {Look, AskAdvisor, Write("x"), Write("y"), Write("z")}
Looks == {Look}

\* Two packs that renew a pin around one that drops every reminder, and the
\* reminders of two gates.
PinsAndStrip == <<"plan", "strip", "goal">>
PlanAndMerge == <<"plan", "merge">>
Gates == <<"gate", "verify">>

\* weak-drive: plan, edit, review, mend unless approved; a fan of two that
\* explore, then one that edits; a fan that keeps the first and may edit.
Solo(full, skip) ==
  [width |-> 1, full |-> full, skip |-> skip, join |-> "solo"]
FanOf(full, join) == [width |-> 2, full |-> full, skip |-> FALSE, join |-> join]
WeakDriveAndFans ==
  {<<Solo(FALSE, FALSE), Solo(TRUE, FALSE), Solo(FALSE, FALSE),
     Solo(TRUE, TRUE)>>,
   <<FanOf(FALSE, "concat"), Solo(TRUE, TRUE)>>,
   <<FanOf(TRUE, "first"), Solo(TRUE, TRUE)>>}

CompletionRests ==
  /\ targets = <<>> /\ task = <<>> /\ queue = <<>> /\ routed = FALSE
  /\ cancelled = FALSE
  /\ heard = 0 /\ stage = "rest" /\ reply = Nothing
  /\ seen = [voices |-> {}, text |-> 0, error |-> FALSE, dones |-> 0,
             msg |-> Nothing]
CompactionRests ==
  /\ messages = <<>> /\ said = 0 /\ open = FALSE /\ memory = {} /\ extra = 0
  /\ phase = "rest" /\ silent = {} /\ spent = 0 /\ failures = 0
ThrashRests ==
  /\ recent = <<>> /\ streak = 0 /\ hashes = [p \in Paths |-> <<>>]
  /\ stop = FALSE /\ mode = "rest"
  /\ advisor = 0 /\ todo = <<>> /\ flying = <<>> /\ parallel = FALSE
  /\ starts = <<>> /\ ends = <<>> /\ asked = 0 /\ told = 0

PinsRests == history = <<>> /\ wire = <<>> /\ at = Len(Packs) + 2

PhasesRest ==
  /\ strategy = <<>> /\ allowed = 0 /\ gated = FALSE /\ flow = "rest"
  /\ try = 0 /\ nth = 0 /\ prev = NoText /\ priors = <<>>
  /\ verdict = NoVerdict
  /\ given = [prev |-> NoText, priors |-> <<>>, verdict |-> NoVerdict]
  /\ branches = <<>> /\ tree = 0 /\ since = {} /\ job = "none"
  /\ command = "none"

OthersRest(part) ==
  /\ part # "completion" => CompletionRests
  /\ part # "compaction" => CompactionRests
  /\ part # "thrash" => ThrashRests
  /\ part # "pins" => PinsRests
  /\ part # "phases" => PhasesRest

PartsInit ==
  \/ CompletionInit /\ OthersRest("completion")
  \/ CompactionInit /\ NoMemoryIfTorn /\ OthersRest("compaction")
  \/ ThrashInit /\ OthersRest("thrash")
  \/ PinsInit /\ OthersRest("pins")
  \/ PhasesInit /\ OthersRest("phases")

PartsNext ==
  \/ /\ stage # "rest" /\ CompletionNext
     /\ UNCHANGED <<compactionVars, thrashVars, pinVars, phaseVars>>
  \/ CompactionNext
     /\ UNCHANGED <<completionVars, thrashVars, pinVars, phaseVars>>
  \/ ThrashNext
     /\ UNCHANGED <<completionVars, compactionVars, pinVars, phaseVars>>
  \/ PinsNext
     /\ UNCHANGED <<completionVars, compactionVars, thrashVars, phaseVars>>
  \/ PhasesNext
     /\ UNCHANGED <<completionVars, compactionVars, thrashVars, pinVars>>

PartsSpec ==
  PartsInit
  /\ [][PartsNext]_<<completionVars, compactionVars, thrashVars, pinVars,
                    phaseVars>>
FairSpec == PartsSpec /\ CompletionFairness
=============================================================================
