------------------------------ MODULE MCInbox ------------------------------
(* TLC instances of Inbox. *)
EXTENDS Inbox

CONSTANTS ann, bob, eve, k1, k2, g1, g2, c1, c2

Upd(p, t) == [from |-> p, says |-> t]
Order(o, x) == [op |-> o, arg |-> x]
Mint == Order("code", k1)
Rest == Order(None, None)
Case(talk, x, y) ==
  [chat |-> talk, order |-> [c \in Clis |-> IF c = c1 THEN x ELSE y]]

\* A talk with a listed peer; a code that two peers send; a peer that pairs
\* itself and is removed, or whose code is minted beside another one; and one
\* that is added by hand.
Mixes ==
  {Case(<<Upd(ann, "chat"), Upd(ann, "odd"), Upd(ann, k1)>>, Rest, Rest),
   Case(<<Upd(bob, k1), Upd(eve, k1)>>, Mint, Rest),
   Case(<<Upd(bob, k1), Upd(bob, "chat")>>, Mint, Order("remove", bob)),
   Case(<<Upd(eve, k2), Upd(bob, k1)>>, Mint, Order("code", k2)),
   Case(<<Upd(eve, "chat"), Upd(bob, "other")>>, Order("add", eve), Rest)}

\* Nobody writes.
Silence == Case(<<>>, Rest, Rest)
MixesOrSilence == Mixes \cup {Silence}

Paired == {Case(<<Upd(bob, k1), Upd(bob, "chat")>>, Mint, Rest)}
=============================================================================
