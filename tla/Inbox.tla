------------------------------- MODULE Inbox -------------------------------
(***************************************************************************)
(* The Telegram gateway of pirs-claw (gateway/telegram.rs, gateway/mod.rs, *)
(* bin_helpers/gateway_msg.rs), the pairing of peers (pairing.rs) and a    *)
(* peer's session file (session.rs).                                       *)
(*                                                                         *)
(* A gateway is one `pirs-claw serve` process after another. It polls      *)
(* Telegram, which keeps an update until a later poll asks for the updates *)
(* behind it. `pirs-claw pair` runs beside the gateway and shares the      *)
(* allowlist and the pairing codes with it, as files read and written      *)
(* whole and without a lock.                                               *)
(***************************************************************************)
EXTENDS Naturals, Sequences, FiniteSets

CONSTANTS
  Peers,
  Codes,      \* texts with the shape of a pairing code
  Gateways,
  Clis,       \* runs of `pirs-claw pair`
  Cases,      \* bound: what happens: a sequence of updates [from, says], and
              \* what the CLI runs do, [Clis -> [op, arg]]
  Listed,     \* the allowlist at first
  MaxCrashes

None == "none"

\* An update says something for the agent, a code, something the gateway does
\* not understand, or is no message.
Says == {"chat", "odd", "other"} \cup Codes

ASSUME InboxAssumption ==
  /\ Says \cap {None} = {} /\ None \notin Gateways
  /\ \A w \in Cases :
       /\ w = [chat |-> w.chat, order |-> w.order]
       /\ w.chat \in Seq([from : Peers, says : Says])
       /\ \A c \in Clis :
            \/ w.order[c].op = None
            \/ w.order[c].op = "code" /\ w.order[c].arg \in Codes
            \/ w.order[c].op \in {"add", "remove"} /\ w.order[c].arg \in Peers
       \* a code is drawn at random, so that none is minted twice
       /\ \A c, d \in Clis :
            w.order[c].op = "code" /\ w.order[d].op = "code"
            /\ w.order[d].arg = w.order[c].arg => c = d
  /\ Listed \subseteq Peers
  /\ MaxCrashes \in Nat

VARIABLES
  chat, order,       \* the updates and CLI runs of this behaviour
  arrived,           \* Telegram: the updates up to here have come,
  acked,             \* ... and up to here are confirmed and gone
  allow, codes,      \* the files: listed peers, pending codes,
  filed,             \* ... and whether there is a file of codes
  expired,           \* codes whose time is over
  log,               \* a peer's session file: lines [role, upd]
  lock,              \* the holder of the telegram flock
  pc,                \* where a gateway is
  list,              \* the allowlist it read when it started
  offset,            \* the first update it has not handled
  last,              \* the last update of its batch
  copy,              \* the file it has read and will write back
  prior,             \* the history its agent was given
  cliPc, cliCopy,    \* the same of a CLI run
  \* history
  finished,          \* updates handled to the end
  used,              \* who was paired by a code
  welcomed,          \* peers told that they are paired
  snubbed,           \* welcomed and listed peers that were refused later
  raced,             \* a file was written over a change made since it was read
  crashes

choice == <<chat, order>>
queue == <<arrived, acked>>
files == <<allow, codes, filed, expired>>
gateway == <<pc, list, offset, last, copy, prior>>
cli == <<cliPc, cliCopy>>
pairings == <<used, welcomed, raced>>
vars == <<choice, queue, files, log, lock, gateway, cli, finished, pairings,
          snubbed, crashes>>

Updates == 1..Len(chat)
From(u) == chat[u].from
Pcs == {"off", "lock", "poll", "take", "spend", "open", "list", "welcome",
        "ask", "reply", "ended"}
Idle == {"off", "lock", "ended"}

Init ==
  /\ \E w \in Cases : chat = w.chat /\ order = w.order
  /\ arrived = 0 /\ acked = 0
  /\ allow = Listed /\ codes = {} /\ filed = FALSE /\ expired = {}
  /\ log = [p \in Peers |-> <<>>]
  /\ lock = None
  /\ pc = [g \in Gateways |-> "off"]
  /\ list = [g \in Gateways |-> {}]
  /\ offset = [g \in Gateways |-> 1]
  /\ last = [g \in Gateways |-> 0]
  /\ copy = [g \in Gateways |-> {}]
  /\ prior = [g \in Gateways |-> <<>>]
  /\ cliPc = [c \in Clis |-> IF order[c].op = None THEN "done" ELSE "start"]
  /\ cliCopy = [c \in Clis |-> {}]
  /\ finished = {}
  /\ used = [k \in Codes |-> {}] /\ welcomed = {} /\ snubbed = {}
  /\ raced = FALSE
  /\ crashes = 0

-----------------------------------------------------------------------------
(* Telegram, time, and the CLI. *)

Arrive ==
  /\ arrived < Len(chat)
  /\ arrived' = arrived + 1
  /\ UNCHANGED <<choice, acked, files, log, lock, gateway, cli, finished,
                 pairings, snubbed, crashes>>

Expire(k) ==
  /\ k \in codes \ expired
  /\ expired' = expired \cup {k}
  /\ UNCHANGED <<choice, queue, allow, codes, filed, log, lock, gateway, cli,
                 finished, pairings, snubbed, crashes>>

CliRead(c) ==
  /\ cliPc[c] = "start"
  /\ cliPc' = [cliPc EXCEPT ![c] = "write"]
  /\ cliCopy' = [cliCopy EXCEPT ![c] =
                   IF order[c].op = "code" THEN codes ELSE allow]
  /\ UNCHANGED <<choice, queue, files, log, lock, gateway, finished, pairings,
                 snubbed, crashes>>

\* mint_pairing_code prunes the expired codes and inserts a fresh one.
CliCode(c) ==
  /\ order[c].op = "code"
  /\ codes' = (cliCopy[c] \ expired) \cup {order[c].arg}
  /\ filed' = TRUE
  /\ raced' = (raced \/ codes # cliCopy[c])
  /\ UNCHANGED <<allow, used, welcomed>>

CliAdd(c) ==
  /\ order[c].op = "add"
  /\ allow' = cliCopy[c] \cup {order[c].arg}
  /\ raced' = (raced \/ allow # cliCopy[c])
  /\ UNCHANGED <<codes, filed, used, welcomed>>

CliRemove(c) ==
  /\ order[c].op = "remove"
  /\ allow' = cliCopy[c] \ {order[c].arg}
  /\ welcomed' = welcomed \ {order[c].arg}
  /\ raced' = (raced \/ allow # cliCopy[c])
  /\ UNCHANGED <<codes, filed, used>>

CliWrite(c) ==
  /\ cliPc[c] = "write"
  /\ CliCode(c) \/ CliAdd(c) \/ CliRemove(c)
  /\ cliPc' = [cliPc EXCEPT ![c] = "done"]
  /\ UNCHANGED <<choice, queue, expired, log, lock, gateway, cliCopy, finished,
                 snubbed, crashes>>

-----------------------------------------------------------------------------
(* The gateway process. *)

Go(g, label) == pc' = [pc EXCEPT ![g] = label]

\* An empty allowlist will do when a code was ever minted.
Admits == allow # {} \/ filed

Serve(g) ==
  /\ pc[g] = "off"
  /\ Admits
  /\ list' = [list EXCEPT ![g] = allow]
  /\ Go(g, "lock")
  /\ UNCHANGED <<choice, queue, files, log, lock, offset, last, copy, prior,
                 cli, finished, pairings, snubbed, crashes>>

LockUnchecked(g) ==
  /\ pc[g] = "lock"
  /\ lock' = g
  /\ offset' = [offset EXCEPT ![g] = 1]
  /\ Go(g, "poll")
  /\ UNCHANGED <<choice, queue, files, log, list, last, copy, prior, cli,
                 finished, pairings, snubbed, crashes>>

\* run_telegram: without the lock it fails, and is called again.
Lock(g) == lock = None /\ LockUnchecked(g)

AckedBy(g) == IF offset[g] - 1 > acked THEN offset[g] - 1 ELSE acked

\* A batch confirmed as it is received, as signal-cli does.
PollAcksBatch(g) ==
  /\ pc[g] = "poll"
  /\ arrived > AckedBy(g)
  /\ acked' = arrived
  /\ offset' = [offset EXCEPT ![g] = AckedBy(g) + 1]
  /\ last' = [last EXCEPT ![g] = arrived]
  /\ Go(g, "take")
  /\ UNCHANGED <<choice, arrived, files, log, lock, list, copy, prior, cli,
                 finished, pairings, snubbed, crashes>>

\* getUpdates confirms what is before the offset and returns the rest.
Poll(g) ==
  /\ pc[g] = "poll"
  /\ acked' = AckedBy(g)
  /\ arrived > acked'
  /\ offset' = [offset EXCEPT ![g] = acked' + 1]
  /\ last' = [last EXCEPT ![g] = arrived]
  /\ Go(g, "take")
  /\ UNCHANGED <<choice, arrived, files, log, lock, list, copy, prior, cli,
                 finished, pairings, snubbed, crashes>>

\* No updates, or an answer that is lost, is no JSON or says ok=false: polled
\* again, later and later.
PollAgain(g) ==
  /\ pc[g] = "poll"
  /\ acked' = AckedBy(g)
  /\ UNCHANGED <<choice, arrived, files, log, lock, gateway, cli, finished,
                 pairings, snubbed, crashes>>

\* A process that dies loses everything but the files, and frees the flock.
Crash(g) ==
  /\ pc[g] # "off"
  /\ crashes < MaxCrashes
  /\ crashes' = crashes + 1
  /\ lock' = IF lock = g THEN None ELSE lock
  /\ Go(g, "off")
  /\ offset' = [offset EXCEPT ![g] = 1]
  /\ last' = [last EXCEPT ![g] = 0]
  /\ copy' = [copy EXCEPT ![g] = {}]
  /\ list' = [list EXCEPT ![g] = {}]
  /\ prior' = [prior EXCEPT ![g] = <<>>]
  /\ UNCHANGED <<choice, queue, files, log, cli, finished, pairings, snubbed>>

-----------------------------------------------------------------------------
(* One update. *)

\* The offset moves past the update only now.
Finish(g) ==
  /\ finished' = finished \cup {offset[g]}
  /\ offset' = [offset EXCEPT ![g] = @ + 1]
  /\ Go(g, IF offset[g] < last[g] THEN "take" ELSE "poll")

Refuse(g) ==
  /\ Finish(g)
  /\ snubbed' = snubbed \cup ({From(offset[g])} \cap welcomed \cap allow)

\* The update the gateway is at, and whether it comes from a listed peer.
Taken(g, listed, texts) ==
  /\ pc[g] = "take"
  /\ chat[offset[g]].says \in texts
  /\ listed <=> From(offset[g]) \in list[g]

\* Not a message, or a message of a listed peer that is not understood.
Skip(g) ==
  /\ \/ \E l \in BOOLEAN : Taken(g, l, {"other"})
     \/ Taken(g, TRUE, {"odd"})
  /\ Finish(g)
  /\ UNCHANGED <<choice, queue, files, log, lock, list, last, copy, prior, cli,
                 pairings, snubbed, crashes>>

TurnAway(g) ==
  /\ Taken(g, FALSE, {"chat", "odd"})
  /\ Refuse(g)
  /\ UNCHANGED <<choice, queue, files, log, lock, list, last, copy, prior, cli,
                 pairings, crashes>>

\* try_redeem_pairing_code: load the codes,
Redeem(g) ==
  /\ Taken(g, FALSE, Codes)
  /\ copy' = [copy EXCEPT ![g] = codes]
  /\ Go(g, "spend")
  /\ UNCHANGED <<choice, queue, files, log, lock, list, offset, last, prior,
                 cli, finished, pairings, snubbed, crashes>>

Code(g) == chat[offset[g]].says

\* ... save them without the expired ones and the one redeemed (no file is
\* written when this fails, and the code counts as wrong),
Spend(g) ==
  /\ pc[g] = "spend"
  /\ \E saved \in BOOLEAN :
       /\ codes' = IF saved THEN copy[g] \ (expired \cup {Code(g)}) ELSE codes
       /\ filed' = (filed \/ saved)
       /\ raced' = (raced \/ (saved /\ codes # copy[g]))
       /\ IF saved /\ Code(g) \in copy[g] \ expired
          THEN Go(g, "open") /\ UNCHANGED <<offset, finished, snubbed>>
          ELSE Refuse(g)
  /\ UNCHANGED <<choice, queue, allow, expired, log, lock, list, last, copy,
                 prior, cli, used, welcomed, crashes>>

\* ... open the allowlist,
Open(g) ==
  /\ pc[g] = "open"
  /\ copy' = [copy EXCEPT ![g] = allow]
  /\ Go(g, "list")
  /\ UNCHANGED <<choice, queue, files, log, lock, list, offset, last, prior,
                 cli, finished, pairings, snubbed, crashes>>

\* ... and save it with the peer. A code whose peer cannot be saved is spent.
\* The list reloaded after this is a copy that the next update does not see.
Enlist(g) ==
  /\ pc[g] = "list"
  /\ \/ /\ allow' = copy[g] \cup {From(offset[g])}
        /\ raced' = (raced \/ allow # copy[g])
        /\ used' = [used EXCEPT ![Code(g)] = @ \cup {From(offset[g])}]
        /\ Go(g, "welcome")
        /\ UNCHANGED <<offset, finished, snubbed>>
     \/ /\ Refuse(g)
        /\ UNCHANGED <<allow, raced, used>>
  /\ UNCHANGED <<choice, queue, codes, filed, expired, log, lock, list, last,
                 copy, prior, cli, welcomed, crashes>>

Welcome(g) ==
  /\ pc[g] = "welcome"
  /\ welcomed' = welcomed \cup ({From(offset[g])} \cap allow)
  /\ Finish(g)
  /\ UNCHANGED <<choice, queue, files, log, lock, list, last, copy, prior, cli,
                 used, raced, snubbed, crashes>>

Line(role, u) == [role |-> role, upd |-> u]

\* handle_gateway_message appends what the peer says, and gives the agent the
\* session without its last line if the user said it.
Hear(g) ==
  /\ Taken(g, TRUE, {"chat"} \cup Codes)
  /\ LET p == From(offset[g]) IN
       /\ log' = [log EXCEPT ![p] = Append(@, Line("user", offset[g]))]
       /\ prior' = [prior EXCEPT ![g] = log[p]]
  /\ Go(g, "ask")
  /\ UNCHANGED <<choice, queue, files, lock, list, offset, last, copy, cli,
                 finished, pairings, snubbed, crashes>>

\* The agent answers, or its prompt fails and nothing is appended.
Ask(g) ==
  /\ pc[g] = "ask"
  /\ LET p == From(offset[g]) IN
       \/ log' = [log EXCEPT ![p] = Append(@, Line("assistant", offset[g]))]
       \/ UNCHANGED log
  /\ Go(g, "reply")
  /\ UNCHANGED <<choice, queue, files, lock, list, offset, last, copy, prior,
                 cli, finished, pairings, snubbed, crashes>>

\* The answer or the error is sent, once more if that fails.
Reply(g) ==
  /\ pc[g] = "reply"
  /\ Finish(g)
  /\ UNCHANGED <<choice, queue, files, log, lock, list, last, copy, prior, cli,
                 pairings, snubbed, crashes>>

Handle(g) ==
  \/ Skip(g) \/ TurnAway(g) \/ Redeem(g) \/ Spend(g) \/ Open(g) \/ Enlist(g)
  \/ Welcome(g) \/ Hear(g) \/ Ask(g) \/ Reply(g)

Next ==
  \/ Arrive
  \/ \E k \in Codes : Expire(k)
  \/ \E c \in Clis : CliRead(c) \/ CliWrite(c)
  \/ \E g \in Gateways :
       Serve(g) \/ Lock(g) \/ Poll(g) \/ PollAgain(g) \/ Crash(g) \/ Handle(g)

\* A unit with Restart=on-failure runs the gateway, Telegram can be reached
\* again and again, and the agent answers or fails (its own limits bound it).
Fairness ==
  \A g \in Gateways :
    WF_vars(Serve(g)) /\ SF_vars(Lock(g)) /\ WF_vars(Poll(g))
    /\ WF_vars(Handle(g))

Spec == Init /\ [][Next]_vars /\ Fairness

-----------------------------------------------------------------------------
(* Properties. *)

Times(seq, line) == Cardinality({i \in DOMAIN seq : seq[i] = line})

\* The variables have their types, and exactly the process that polls and
\* handles updates holds the flock (instance_lock.rs).
TypeOK ==
  /\ [chat |-> chat, order |-> order] \in Cases
  /\ acked <= arrived /\ arrived \in 0..Len(chat)
  /\ allow \subseteq Peers /\ expired \subseteq Codes /\ codes \subseteq Codes
  /\ log \in [Peers -> Seq([role : {"user", "assistant"}, upd : Updates])]
  /\ pc \in [Gateways -> Pcs]
  /\ list \in [Gateways -> SUBSET Peers]
  /\ offset \in [Gateways -> 1..(Len(chat) + 1)]
  /\ last \in [Gateways -> 0..Len(chat)]
  /\ finished \subseteq Updates
  /\ used \in [Codes -> SUBSET Peers] /\ snubbed \subseteq Peers
  /\ \A g \in Gateways : lock = g <=> pc[g] \notin Idle

\* An update that Telegram has forgotten was handled to its end, whichever
\* process received it and wherever that process died (telegram.rs:623,
\* "Process first, then advance offset").
AckedWasHandled == 1..acked \subseteq finished

\* "crash mid-handler may redeliver once": an update is put to the agent, and
\* answered, once and at most once more per crash; its own text is in the
\* history given to the agent only after a crash; an answer follows its
\* question in the session.
OncePerCrash ==
  /\ \A p \in Peers : \A i \in DOMAIN log[p] :
       /\ Times(log[p], log[p][i]) <= 1 + crashes
       /\ log[p][i].role = "assistant"
            => i > 1 /\ log[p][i - 1] = Line("user", log[p][i].upd)
  /\ \A g \in Gateways : pc[g] = "ask" =>
       Times(prior[g], Line("user", offset[g])) <= crashes

\* What a peer says is neither lost nor heard more often than crashes explain.
DeliveryIsHonest == AckedWasHandled /\ OncePerCrash

\* A code pairs one peer, and a peer that is told it is paired stays on the
\* list until it is removed, as long as no process writes a file over another
\* one's change (pairing.rs: the code "is consumed").
CodePairsOnce ==
  ~raced => /\ \A k \in Codes : Cardinality(used[k]) <= 1
            /\ welcomed \subseteq allow

\* What the gateway says it has heard it has, once, and whom it says it has
\* paired it has, once.
InboxIsHonest == TypeOK /\ DeliveryIsHonest /\ CodePairsOnce

\* Every update is handled in the end, over lost answers, crashes and a second
\* gateway that waits for the lock, unless a serve refuses to start.
UpdatesEnded == 1..arrived \subseteq finished \/ ~Admits
EveryUpdateEnds == []<>UpdatesEnded

\* "pirs-claw: paired successfully. You can chat now." (telegram.rs:655): a
\* peer that was told so and is on the list is not refused.
PairedCanChat == snubbed = {}
=============================================================================
