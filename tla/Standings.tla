------------------------------ MODULE Standings ------------------------------
(***************************************************************************)
(* The rules of internal/domain: the final time of a run, heat numbers,    *)
(* the order of the ranking, and the rank a run has in a drill-down        *)
(* (internal/snapshot/combination.go).                                     *)
(*                                                                         *)
(* A run is [ id, combo, raw, pt, mc, at ]; a combination of a driver and  *)
(* a vehicle is a number, in the order of lessCombo.                       *)
(***************************************************************************)
EXTENDS Integers, SequencesExt, FiniteSetsExt

CONSTANTS
  Combos,         \* combinations
  Electric,       \* those of them with an EV
  ConvertedCC     \* the converted displacement of the others

ASSUME StandingsConstants ==
  /\ Combos \subseteq Nat
  /\ Electric \subseteq Combos
  /\ ConvertedCC \in [ Combos -> Nat ]

(* FinalMS: the pit touch penalty, added or disqualifying.                 *)
FinalMS(run, rule)   == IF rule.mode = "add" THEN run.raw + run.pt * rule.penalty ELSE run.raw
IsInvalid(run, rule) == run.mc \/ (rule.mode = "invalidate" /\ run.pt > 0)

Valid(runs, rule)    == { r \in runs : ~IsInvalid(r, rule) }
OfCombo(runs, combo) == { r \in runs : r.combo = combo }

(* sort.Slice: the elements of a set, none of them after one that it is to *)
(* come before.                                                            *)
InOrder(S, Before(_, _)) ==
  CHOOSE s \in [ 1 .. Cardinality(S) -> S ] :
    \A i, j \in 1 .. Cardinality(S) : i < j => s[i] # s[j] /\ ~Before(s[j], s[i])

-----------------------------------------------------------------------------
(* HeatNumbers: the runs of a combination in the order they were driven.   *)

(* A plausible slip: runs of the same millisecond are left as they come.   *)
DrivenBeforeByTime(r, s) == r.at < s.at

DrivenBefore(r, s) == r.at < s.at \/ (r.at = s.at /\ r.id < s.id)

HeatNumbers(runs) ==
  [ id \in { r.id : r \in runs } |->
      LET run == CHOOSE r \in runs : r.id = id
          own == InOrder(OfCombo(runs, run.combo), DrivenBefore)
      IN CHOOSE i \in DOMAIN own : own[i].id = id ]

-----------------------------------------------------------------------------
(* Rank: one standing for each combination that has a run.                 *)

(* The fastest run, the earlier one of two that took the same time.        *)
Faster(r, s, rule) ==
  \/ FinalMS(r, rule) < FinalMS(s, rule)
  \/ FinalMS(r, rule) = FinalMS(s, rule) /\ DrivenBefore(r, s)

(* applyOverallBest.                                                       *)
Standing(runs, combo, rule) ==
  LET own   == OfCombo(runs, combo)
      valid == InOrder(Valid(own, rule), LAMBDA r, s : Faster(r, s, rule))
      n     == Cardinality(Valid(own, rule))
  IN [ combo     |-> combo,
       invalid   |-> n = 0,
       best      |-> IF n > 0 THEN FinalMS(valid[1], rule) ELSE 0,
       bestAt    |-> IF n > 0 THEN valid[1].at ELSE 0,
       hasSecond |-> n > 1,
       second    |-> IF n > 1 THEN FinalMS(valid[2], rule) ELSE 0 ]

(* The levels of lessStanding.  A second time beats none; an EV has more   *)
(* displacement than any engine.                                           *)
LessSecond(a, b) == a.hasSecond /\ (~b.hasSecond \/ a.second < b.second)

(* A plausible slip: without a second time there is nothing to compare.    *)
SameSecondIfBoth(a, b) == (a.hasSecond /\ b.hasSecond) => a.second = b.second

SameSecond(a, b) == a.hasSecond = b.hasSecond /\ (a.hasSecond => a.second = b.second)

LessCC(c, d) == c \notin Electric /\ (d \in Electric \/ ConvertedCC[c] < ConvertedCC[d])
SameCC(c, d) == /\ c \in Electric <=> d \in Electric
                /\ c \notin Electric => ConvertedCC[c] = ConvertedCC[d]

LessValid(a, b) ==
  \/ a.best < b.best
  \/ /\ a.best = b.best
     /\ \/ LessSecond(a, b)
        \/ /\ SameSecond(a, b)
           /\ \/ LessCC(a.combo, b.combo)
              \/ /\ SameCC(a.combo, b.combo)
                 /\ \/ a.bestAt < b.bestAt
                    \/ a.bestAt = b.bestAt /\ a.combo < b.combo

LessStanding(a, b) ==
  IF a.invalid # b.invalid THEN ~a.invalid
  ELSE IF a.invalid THEN a.combo < b.combo ELSE LessValid(a, b)

StandingsOf(runs, rule) == { Standing(runs, r.combo, rule) : r \in runs }

Rank(runs, rule) == InOrder(StandingsOf(runs, rule), LessStanding)

-----------------------------------------------------------------------------
(* combinationLogsFor: the rank of a valid run among the valid runs of the *)
(* combinations the filter lets pass.                                      *)

(* A plausible slip: every entry of the same time counts.                  *)
RankOfLast(population, run, rule) ==
  Cardinality({ r \in population : FinalMS(r, rule) <= FinalMS(run, rule) })

RankInFilter(population, run, rule) ==
  1 + Cardinality({ r \in population : FinalMS(r, rule) < FinalMS(run, rule) })

Population(runs, passing, rule) == { r \in Valid(runs, rule) : r.combo \in passing }
=============================================================================
