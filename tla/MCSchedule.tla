----------------------------- MODULE MCSchedule -----------------------------
(* TLC instances of Schedule: a one-shot and a job that recurs. *)
EXTENDS Schedule, TLC

CONSTANTS once, daily, gw, c1, c2

Commands == Permutations(Clis)
Kind == [j \in Jobs |-> IF j = once THEN "once" ELSE "cron"]
Steps == [j \in Jobs |-> 1]

\* What follows a lost update is not explored; two commands at once are only
\* explored with one job and before the last tick of the clock.
Explored ==
  /\ ~lost
  /\ (\A c \in Clis : pc[c] # "idle") => Cardinality(Jobs \ fresh) <= 1 /\ now < MaxTime
=============================================================================
