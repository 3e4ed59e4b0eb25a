---------------------------- MODULE MCFrontEnds ----------------------------
(***************************************************************************)
(* TLC instances of the front ends: the Telegram gateway of pirs-claw, the *)
(* REPL, rpc and acp modes of pirs, its terminal screen. They share no     *)
(* state: a behaviour is one of a single part; the others rest.            *)
(***************************************************************************)
EXTENDS MCInbox, Sessions, Screen

VARIABLE part

InboxRests ==
  /\ chat = Silence.chat /\ order = Silence.order
  /\ arrived = 0 /\ acked = 0
  /\ allow = Listed /\ codes = {} /\ filed = FALSE /\ expired = {}
  /\ log = [p \in Peers |-> <<>>]
  /\ lock = None
  /\ pc = [g \in Gateways |-> "ended"]
  /\ list = [g \in Gateways |-> {}]
  /\ offset = [g \in Gateways |-> 1] /\ last = [g \in Gateways |-> 0]
  /\ copy = [g \in Gateways |-> {}] /\ prior = [g \in Gateways |-> <<>>]
  /\ cliPc = [c \in Clis |-> "done"] /\ cliCopy = [c \in Clis |-> {}]
  /\ finished = {}
  /\ used = [k \in Codes |-> {}] /\ welcomed = {} /\ snubbed = {}
  /\ raced = FALSE /\ crashes = MaxCrashes

SessionsRest ==
  /\ mode = "repl" /\ up = FALSE /\ panicked = FALSE
  /\ msgs = <<>> /\ ctx = <<>> /\ phase = "none"
  /\ cur = MaxSessions /\ made = MaxSessions
  /\ asked = FALSE
  /\ hist = [s \in SessionIds |-> <<>>] /\ jsonl = [s \in SessionIds |-> <<>>]
  /\ snaps = <<>> /\ before = 0
  /\ home = <<>> /\ switched = FALSE /\ inSync = TRUE /\ failed = FALSE

FrontInit ==
  \/ part = "inbox" /\ Init /\ chat # <<>> /\ SessionsRest /\ ScreenIs("off")
  \/ part = "sessions" /\ InboxRests /\ SessionInit /\ ScreenIs("off")
  \/ part = "screen" /\ InboxRests /\ SessionsRest /\ ScreenInit

FrontNext ==
  /\ \/ part = "inbox" /\ Next /\ UNCHANGED <<sessionVars, screenVars>>
     \/ part = "sessions" /\ SessionNext /\ UNCHANGED <<vars, screenVars>>
     \/ part = "screen" /\ ScreenNext /\ UNCHANGED <<vars, sessionVars>>
  /\ UNCHANGED part

\* The fairness of each part.  (A part that rests has no step to take: to name
\* the part only spares TLC the look.)
FrontSpec ==
  /\ FrontInit /\ [][FrontNext]_<<vars, sessionVars, screenVars, part>>
  /\ \A g \in Gateways :
       /\ WF_vars(part = "inbox" /\ Serve(g))
       /\ SF_vars(part = "inbox" /\ Lock(g))
       /\ WF_vars(part = "inbox" /\ Poll(g))
       /\ WF_vars(part = "inbox" /\ Handle(g))
  /\ WF_sessionVars(part = "sessions" /\ Report)
  /\ WF_sessionVars(part = "sessions" /\ FinishRun)
  /\ WF_screenVars(part = "screen" /\ ScreenProgress)

\* EveryUpdateEnds, PromptAnswered and ScreenReturns, in a form that TLC checks
\* at once: no update and no prompt is left for ever, and the screen comes back
\* to the keys.
EveryRequestEnds ==
  []<>(/\ UpdatesEnded /\ ~asked
       /\ screen \in {"off", "gone"} \/ (Reads /\ ~running))
=============================================================================
