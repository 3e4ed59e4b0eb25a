------------------------------- MODULE Phases -------------------------------
(***************************************************************************)
(* A gated strategy: run_gated repeats an attempt until the verification   *)
(* passes; an attempt (run_strategy_async) walks the steps of a strategy,  *)
(* a step runs one phase or a fan of branches at once, each an agent of    *)
(* its own.  The tree the phases edit may also be edited by a background   *)
(* job that one of them has left behind.  Texts are known by the attempt   *)
(* and the step that gave them; prompts by the texts put into them.        *)
(***************************************************************************)
EXTENDS Integers, Sequences, FiniteSets

CONSTANTS
  Strategies,   \* sequences of steps [width, full, skip, join]
  Allowances,   \* the values of --max-attempts
  MaxTree       \* bound on the edits of a run

\* Step::Solo is a step with one branch and join "solo"; only a solo step can
\* be skipped.
ASSUME PhasesAssumption ==
  /\ \A s \in Strategies :
       /\ s \in Seq([width : Nat \ {0}, full : BOOLEAN, skip : BOOLEAN,
                    join : {"solo", "first", "concat"}])
       /\ \A i \in DOMAIN s :
            /\ s[i].join = "solo" => s[i].width = 1
            /\ s[i].skip => s[i].join = "solo"
  /\ Allowances \subseteq Nat /\ MaxTree \in Nat

VARIABLES
  strategy,   \* the steps, <<>> where no strategy runs
  allowed,    \* max_attempts
  gated,      \* a verify command was given
  flow,       \* where the run is, see Flows
  try,        \* the number of the attempt
  nth,        \* the step of the attempt
  prev,       \* the text for {prev}
  priors,     \* the texts for {prev_0}, {prev_1}, ...
  verdict,    \* the failure for {verdict}
  given,      \* what the prompts of the running step were rendered from
  branches,   \* the agents of the running step: "runs" or how they ended
  tree,       \* edits made so far
  since,      \* who has edited since the verification began
  job,        \* a background command left by a phase
  command     \* the child of the verification: "none", "runs", "orphan"

phaseVars == <<strategy, allowed, gated, flow, try, nth, prev, priors, verdict,
               given, branches, tree, since, job, command>>

NoText == [try |-> 0, step |-> 0, from |-> {}, said |-> "nothing"]
NoVerdict == [try |-> 0, tree |-> 0]
Saying == {"text", "approve", "nothing"}
Flows == {"attempt", "phase", "verify", "passed", "exhausted", "failed",
          "interrupted"}
Finished == {"passed", "exhausted", "failed", "interrupted"}

PhasesInit ==
  /\ strategy \in Strategies /\ allowed \in Allowances /\ gated \in BOOLEAN
  /\ flow = "attempt" /\ try = 1 /\ nth = 1
  /\ prev = NoText /\ priors = <<>> /\ verdict = NoVerdict
  /\ given = [prev |-> NoText, priors |-> <<>>, verdict |-> NoVerdict]
  /\ branches = <<>>
  /\ tree = 0 /\ since = {} /\ job = "none" /\ command = "none"

Step == strategy[nth]
MaxTries == IF allowed = 0 THEN 1 ELSE allowed

---------------------------------------------------------------------------
(* An attempt. *)

Skipped == Step.skip /\ prev.said = "approve"

\* A phase that mends is left out when the text before it approves: nothing is
\* added to the texts.
SkipPhase ==
  /\ flow = "attempt" /\ nth <= Len(strategy) /\ Skipped
  /\ nth' = nth + 1
  /\ UNCHANGED <<strategy, allowed, gated, flow, try, prev, priors, verdict,
                 given, branches, tree, since, job, command>>

\* req_for renders the prompts of all the branches before any of them runs.
StartStep ==
  /\ flow = "attempt" /\ nth <= Len(strategy) /\ ~Skipped
  /\ flow' = "phase"
  /\ given' = [prev |-> prev, priors |-> priors, verdict |-> verdict]
  /\ branches' = [b \in 1..Step.width |-> "runs"]
  /\ UNCHANGED <<strategy, allowed, gated, try, nth, prev, priors, verdict,
                 tree, since, job, command>>

\* A tool of a phase with the full set edits, or starts a command in the
\* background, which stays when the phase is over.
PhaseEdits(b) ==
  /\ flow = "phase" /\ branches[b] = "runs" /\ Step.full /\ tree < MaxTree
  /\ tree' = tree + 1 /\ since' = since \union {"phase"}
  /\ job' \in {job, "runs"}
  /\ UNCHANGED <<strategy, allowed, gated, flow, try, nth, prev, priors,
                 verdict, given, branches, command>>

\* The agent of a branch ends with its last text; a driver may also fail.
BranchEnds(b) ==
  /\ flow = "phase" /\ branches[b] = "runs"
  /\ branches' \in {[branches EXCEPT ![b] = s] : s \in Saying \union {"error"}}
  /\ UNCHANGED <<strategy, allowed, gated, flow, try, nth, prev, priors,
                 verdict, given, tree, since, job, command>>

AllEnded == flow = "phase" /\ \A b \in DOMAIN branches : branches[b] # "runs"
Succeeded == {b \in DOMAIN branches : branches[b] # "error"}
FirstToSucceed == CHOOSE b \in Succeeded : \A c \in Succeeded : b <= c

\* merge: the first text that is there, or all of them under headings.
Merged ==
  [try |-> try, step |-> nth,
   from |-> IF Step.join = "concat" THEN Succeeded ELSE {FirstToSucceed},
   said |-> IF Step.join = "concat" THEN "text" ELSE branches[FirstToSucceed]]

\* All the branches have answered (join_all), the failures are left out.
JoinStep ==
  /\ AllEnded /\ Succeeded # {}
  /\ prev' = Merged /\ priors' = Append(priors, Merged)
  /\ flow' = "attempt" /\ nth' = nth + 1 /\ branches' = <<>>
  /\ UNCHANGED <<strategy, allowed, gated, try, verdict, given, tree, since,
                 job, command>>

\* The error of a solo phase, or of every branch, is the error of the run.
FailStep ==
  /\ AllEnded /\ Succeeded = {}
  /\ flow' = "failed" /\ branches' = <<>>
  /\ UNCHANGED <<strategy, allowed, gated, try, nth, prev, priors, verdict,
                 given, tree, since, job, command>>

---------------------------------------------------------------------------
(* The gate. *)

\* Without a command the gate passes.
Verify ==
  /\ flow = "attempt" /\ nth > Len(strategy)
  /\ IF gated THEN flow' = "verify" /\ command' = "runs" /\ since' = {}
              ELSE flow' = "passed" /\ UNCHANGED <<command, since>>
  /\ UNCHANGED <<strategy, allowed, gated, try, nth, prev, priors, verdict,
                 given, branches, tree, job>>

Passes ==
  /\ flow = "verify"
  /\ flow' = "passed" /\ command' = "none"
  /\ UNCHANGED <<strategy, allowed, gated, try, nth, prev, priors, verdict,
                 given, branches, tree, since, job>>

\* Plausible bug: the texts of an attempt stay for the next one.
NextAttemptKeepsTexts ==
  /\ verdict' = [try |-> try, tree |-> tree]
  /\ IF try < MaxTries
     THEN flow' = "attempt" /\ try' = try + 1 /\ nth' = 1
     ELSE flow' = "exhausted" /\ UNCHANGED <<try, nth>>
  /\ UNCHANGED <<prev, priors>>

\* The next attempt starts with a new driver, no texts and the failure.
NextAttempt ==
  /\ verdict' = [try |-> try, tree |-> tree]
  /\ IF try < MaxTries
     THEN /\ flow' = "attempt" /\ try' = try + 1 /\ nth' = 1
          /\ prev' = NoText /\ priors' = <<>>
     ELSE flow' = "exhausted" /\ UNCHANGED <<try, nth, prev, priors>>

VerifyFails ==
  /\ flow = "verify"
  /\ NextAttempt
  /\ command' = "none"
  /\ UNCHANGED <<strategy, allowed, gated, given, branches, tree, since,
                 job>>

\* Ctrl-C drops the future of the run, its agents with it.  The command of the
\* verification is on a blocking thread and goes on; so does a command that a
\* phase was running.
Interrupt ==
  /\ flow \notin Finished /\ strategy # <<>>
  /\ flow' = "interrupted" /\ branches' = <<>>
  /\ command' = IF command = "runs" THEN "orphan" ELSE command
  /\ job' \in IF flow = "phase" /\ Step.full THEN {job, "runs"} ELSE {job}
  /\ UNCHANGED <<strategy, allowed, gated, try, nth, prev, priors, verdict,
                 given, tree, since>>

CommandEnds ==
  /\ command = "orphan" /\ command' = "none"
  /\ UNCHANGED <<strategy, allowed, gated, flow, try, nth, prev, priors,
                 verdict, given, branches, tree, since, job>>

JobEdits ==
  /\ job = "runs" /\ tree < MaxTree
  /\ tree' = tree + 1 /\ since' = since \union {"job"}
  /\ UNCHANGED <<strategy, allowed, gated, flow, try, nth, prev, priors,
                 verdict, given, branches, job, command>>

JobEnds ==
  /\ job = "runs" /\ job' = "none"
  /\ UNCHANGED <<strategy, allowed, gated, flow, try, nth, prev, priors,
                 verdict, given, branches, tree, since, command>>

PhasesNext ==
  \/ SkipPhase \/ StartStep \/ JoinStep \/ FailStep
  \/ \E b \in DOMAIN branches : PhaseEdits(b) \/ BranchEnds(b)
  \/ Verify \/ Passes \/ VerifyFails
  \/ Interrupt \/ CommandEnds \/ JobEdits \/ JobEnds

PhasesSpec == PhasesInit /\ [][PhasesNext]_phaseVars

---------------------------------------------------------------------------
(* Properties. *)

PhasesTypeOK ==
  /\ flow \in Flows \union {"rest"} /\ try \in Nat /\ nth \in Nat
  /\ prev.said \in Saying
  /\ Len(priors) <= Len(strategy)
  /\ \A b \in DOMAIN branches : branches[b] \in Saying \union {"runs", "error"}
  /\ tree \in 0..MaxTree /\ since \subseteq {"phase", "job"}
  /\ job \in {"none", "runs"} /\ command \in {"none", "runs", "orphan"}

\* What passed is what the phases left: nobody but a job in the background has
\* edited since the verification began.
PassIsOfThisTree ==
  flow \in {"verify", "passed"} /\ gated => since \subseteq {"job"}

\* The prompts of a phase carry texts of this attempt only, in the order of
\* the steps, each from a step that is over: {prev} is the last of them.
PromptsAreOfThisAttempt ==
  flow = "phase" =>
    LET texts == given.priors IN
    /\ \A k \in DOMAIN texts :
         /\ texts[k].try = try /\ texts[k].step < nth
         /\ k > 1 => texts[k - 1].step < texts[k].step
    /\ given.prev = IF texts = <<>> THEN NoText ELSE texts[Len(texts)]

\* A retry is told the failure of the attempt before it.
RetryKnowsTheFailure ==
  flow = "phase" => given.verdict.try = try - 1

\* A step is missing from the texts of an attempt only because the text
\* before it, of the same attempt, approved.
OnlyApprovalSkips ==
  flow = "phase" =>
    \A s \in 1..(nth - 1) :
      \/ \E k \in DOMAIN priors : priors[k].step = s
      \/ /\ strategy[s].skip
         /\ \E k \in DOMAIN priors :
              /\ priors[k].step < s /\ priors[k].said = "approve"
              /\ \A j \in DOMAIN priors : priors[j].step < s => j <= k

\* A gated strategy judges what it ran: the four above, within the attempts
\* allowed, one at least.
GateIsHonest ==
  /\ PhasesTypeOK
  /\ PassIsOfThisTree
  /\ PromptsAreOfThisAttempt
  /\ RetryKnowsTheFailure
  /\ OnlyApprovalSkips
  /\ strategy # <<>> => try \in 1..MaxTries
=============================================================================
