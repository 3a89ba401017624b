----------------------------- MODULE LoopScore -----------------------------
(***************************************************************************)
(* How many frames each loop of the stack may handle in a tick: calc_score *)
(* in pico_stack.c, with as many loops as Loops and smaller scores.  What  *)
(* a loop leaves of its score is its load.                                 *)
(***************************************************************************)
EXTENDS Integers

CONSTANTS Loops,     \* PROTO_DEF_NR
          Samples,   \* PROTO_DEF_AVG_NR
          MinScore, MaxScore,
          MaxTotal   \* PROTO_MAX_LOOP

VARIABLE load

vars == <<load>>

Init == load = [i \in 1..Loops |->
                 [score |-> MinScore, index |-> 1, idle |-> FALSE,
                  avg |-> [j \in 1..Samples |-> 0]]]

Sum(avg) == LET s[j \in 0..Samples] == IF j = 0 THEN 0 ELSE s[j - 1] + avg[j]
            IN s[Samples]

\* The next sample of a loop that used this much
Sampled(l, used) ==
  LET j == IF l.index > Samples THEN 1 ELSE l.index
  IN [l EXCEPT !.avg[j] = used, !.index = j + 1, !.idle = (used = 0)]

Doubled(l) == [l EXCEPT !.score = @ * 2]
Halved(l) == [l EXCEPT !.score = @ \div 2]
CanHalve(l) == l.score \div 2 >= MinScore
\* (mutant: the maximum is tested before the score is doubled)
CanDouble_Late(l) == l.score <= MaxScore
CanDouble(l) == l.score * 2 <= MaxScore

\* A loop that used some of its score; total is that of the loops before it.
Busy(l, used, total) ==
  LET m == Sampled(l, used)
      mean == Sum(m.avg) \div Samples
  IN IF used = l.score /\ CanDouble(l) /\ total + l.score * 2 < MaxTotal THEN Doubled(m)
     ELSE IF mean > l.score - l.score \div 4 /\ CanDouble(l) /\ total + l.score \div 2 < MaxTotal
     THEN Doubled(m)
     ELSE IF mean < l.score \div 4 /\ CanHalve(l) THEN Halved(m) ELSE m

\* A loop that used nothing shrinks when its samples are all 0; if it does
\* not, it is not counted in the total.
\* (mutant: the last step down is never taken)
Idle_Once(l) ==
  LET m == Sampled(l, 0)
  IN IF Sum(m.avg) \div 2 = 0 /\ CanHalve(l) /\ l.score > 2 * MinScore
     THEN [Halved(m) EXCEPT !.avg = [j \in 1..Samples |-> l.score \div 2]]
     ELSE m
Idle(l) ==
  LET m == Sampled(l, 0)
  IN IF Sum(m.avg) \div 2 = 0 /\ CanHalve(l)
     THEN [Halved(m) EXCEPT !.avg = [j \in 1..Samples |-> l.score \div 2]]
     ELSE m

\* calc_score, for the loops in their order
CalcScore(used) ==
  LET go[i \in 0..Loops] ==
        IF i = 0 THEN [all |-> load, total |-> 0]
        ELSE LET s == go[i - 1]
                 l == load[i]
                 m == IF used[i] = 0 THEN Idle(l) ELSE Busy(l, used[i], s.total)
             IN [all |-> [s.all EXCEPT ![i] = m],
                 total |-> IF used[i] = 0 /\ m.score = l.score THEN s.total
                           ELSE s.total + m.score]
  IN go[Loops].all

\* A tick: a loop uses nothing, a little, or all of its score.
Tick == \E used \in [1..Loops -> {"none", "some", "all"}] :
  load' = CalcScore([i \in 1..Loops |->
            CASE used[i] = "none" -> 0
              [] used[i] = "some" -> 1
              [] used[i] = "all" -> load[i].score])

Next == Tick

FairSpec == Init /\ [][Next]_vars /\ WF_vars(Tick)

-----------------------------------------------------------------------------
(* Properties.                                                             *)

\* No loop ever has less than the least score or more than the largest: with
\* less a layer would stop, with more it would hold up the others.
ScoresInRange == \A i \in 1..Loops : load[i].score \in MinScore..MaxScore

\* A loop that has nothing to do any more comes back to the least score, the
\* samples of its busy time notwithstanding (pico_stack.c:985).
IdleShrinks == \A i \in 1..Loops :
  (<>[](load[i].idle)) => <>[](load[i].score = MinScore)

\* The scores together stay within the limit of a tick.
\* (The code breaks it: see the README.)
TotalIsLimited ==
  LET total[i \in 0..Loops] == IF i = 0 THEN 0 ELSE total[i - 1] + load[i].score
  IN total[Loops] <= MaxTotal
=============================================================================
