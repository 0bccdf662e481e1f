------------------------------- MODULE Ranking -------------------------------
(***************************************************************************)
(* Two scores: how well a signal fits an opportunity, by which it is       *)
(* linked when no number decides (pipeline/link.py), and how much an       *)
(* opportunity is worth to a customer today (pipeline/recommend.py).       *)
(*                                                                         *)
(* Features are in hundredths, so the weighted sums are exact: a score is  *)
(* in tenthousandths.  The code compares budgets by the logarithm of their *)
(* ratio: a budget is its logarithm here, in steps of which a factor of    *)
(* three (four, for a customer's range) has Steps.  Unknown is -1.  A      *)
(* range that ends at zero, which the API accepts, divides by zero in the  *)
(* code and is left out.                                                   *)
(***************************************************************************)
EXTENDS Integers, Sequences, FiniteSets

CONSTANTS LinkThreshold, ReviewBand, \* settings.py: 6000 and 800
          Steps

ASSUME RankingAssumption == Steps \in Nat \ {0} /\ {LinkThreshold, ReviewBand} \subseteq Nat

Unknown == -1
Tender == 4  \* the place of bid_notice among the stages
Greater(a, b) == IF a >= b THEN a ELSE b
Lesser(a, b) == IF a <= b THEN a ELSE b
Distance(a, b) == IF a >= b THEN a - b ELSE b - a

(***************************************************************************)
(* link.py.  A signal or an opportunity: stage, category, budget, terms    *)
(* (of the thesaurus, in its title); a signal's day is at, an              *)
(* opportunity's are last and published.  content and wording say how      *)
(* alike an opportunity is to the signal.                                  *)
(***************************************************************************)
TitleSimilarity(s, o) ==
  LET fewer == Lesser(Cardinality(s.terms), Cardinality(o.terms))
  IN IF fewer = 0 THEN o.wording
     ELSE Greater(o.wording, (80 * Cardinality(s.terms \cap o.terms)) \div fewer)

BudgetSimilarity(a, b) ==
  IF Unknown \in {a, b} THEN 50 ELSE Greater(0, 100 - (100 * Distance(a, b)) \div Steps)

TimelinePlausibility(s, o) ==
  Greater(0, 100
    - (IF s.at - o.last > 540 THEN 60 ELSE 0)
    - (IF s.stage < o.stage /\ o.published # Unknown /\ s.at > o.published + 60 THEN 70 ELSE 0)
    - (IF s.stage < Tender /\ s.at - o.last < -120 THEN 30 ELSE 0))

TermsConflict(s, o) == s.terms # {} /\ o.terms # {} /\ s.terms \cap o.terms = {}

CategoryMatch(s, o) ==
  IF s.category = o.category THEN 100 ELSE IF "other" \in {s.category, o.category} THEN 50 ELSE 0

ScoreCandidate(s, o) ==
  35 * o.content + 30 * TitleSimilarity(s, o) + 15 * CategoryMatch(s, o)
    + 10 * BudgetSimilarity(s.budget, o.budget) + 10 * TimelinePlausibility(s, o)
    - IF TermsConflict(s, o) THEN 1500 ELSE 0

\* The first of the best.
BestOf(s, candidates) ==
  CHOOSE n \in DOMAIN candidates : \A m \in DOMAIN candidates :
    LET a == ScoreCandidate(s, candidates[n])
        b == ScoreCandidate(s, candidates[m])
    IN a > b \/ (a = b /\ n <= m)

SameKind(s, candidates) ==
  {n \in DOMAIN candidates :
     LET o == candidates[n] IN
       /\ o.category = s.category
       /\ BudgetSimilarity(s.budget, o.budget) >= 85
       /\ TimelinePlausibility(s, o) >= 90}

\* mutant: the only one of its kind, whatever the titles say
AloneOfKind(s, candidates, n) ==
  SameKind(s, candidates) = {n} /\ Unknown \notin {s.budget, candidates[n].budget}
\* The only one of its kind, and the best.
Exclusive(s, candidates, n) ==
  /\ SameKind(s, candidates) = {n} /\ Unknown \notin {s.budget, candidates[n].budget}
  /\ ~TermsConflict(s, candidates[n])

NoLink == [to |-> 0, tentative |-> FALSE]
Decide(s, candidates) ==
  LET best == BestOf(s, candidates)
      score == ScoreCandidate(s, candidates[best]) + IF Exclusive(s, candidates, best) THEN 2000 ELSE 0
  IN IF candidates = <<>> THEN NoLink
     ELSE IF score < LinkThreshold - ReviewBand THEN NoLink
     ELSE [to |-> best, tentative |-> score < LinkThreshold]

(***************************************************************************)
(* recommend.py.  c: the customer's profile, o: an opportunity; regions    *)
(* are <<province, district>>, the district is "" for all of a province.   *)
(***************************************************************************)
LeadTimeValue(o) ==
  CASE o.status = "bid_open" -> 60
    [] o.status # "bid_open" /\ o.passed -> 35
    [] o.status # "bid_open" /\ ~o.passed ->
         IF o.days = 0 THEN 75
         ELSE IF o.days <= 60 THEN 70 + o.days \div 2
         ELSE IF o.days <= 270 THEN 100
         ELSE Greater(35, 100 - (o.days - 270) \div 4)

BudgetFit(amount, lo, hi) ==
  LET edge == IF lo # Unknown /\ amount < lo THEN lo ELSE hi
  IN IF amount = Unknown \/ (lo = Unknown /\ hi = Unknown) THEN 50
     ELSE IF (lo = Unknown \/ amount >= lo) /\ (hi = Unknown \/ amount <= hi) THEN 100
     ELSE Greater(0, 100 - (100 * Distance(amount, edge)) \div Steps)

RegionMatch(regions, region) ==
  IF regions = {} \/ region[1] = "" THEN 50
  ELSE IF \E r \in regions : r[1] = region[1] /\ r[2] \in {"", region[2]} THEN 100 ELSE 0

CategoryFit(c, o) == IF c.categories = {} THEN 50 ELSE IF o.category \in c.categories THEN 100 ELSE 0

WeightedSum(c, o) ==
  26 * o.content + 22 * Lesser(50 * Cardinality(c.keywords \cap o.words), 100)
    + 12 * CategoryFit(c, o) + 8 * RegionMatch(c.regions, o.region)
    + 8 * BudgetFit(o.budget, c.lo, c.hi) + 14 * o.chance + 10 * LeadTimeValue(o)

\* What is excluded is worth a fifth.
ScoreOpportunity(c, o) == IF c.excluded \cap o.words # {} THEN WeightedSum(c, o) \div 5 ELSE WeightedSum(c, o)

(***************************************************************************)
(* Properties.                                                             *)
(***************************************************************************)
\* Linked for sure means alike in name and in content: titles that name
\* different things are not linked for sure by either alone, titles and contents
\* that share nothing not by kind, money and time, were it the only one of its
\* kind; and the order in which the candidates come decides between equals only.
LinksAreEarned(s, a, b) ==
  LET decision == Decide(s, <<a, b>>)
      turned == Decide(s, <<b, a>>)
      o == <<a, b>>[decision.to]
  IN /\ decision.to # 0 /\ ~decision.tentative =>
          /\ TermsConflict(s, o) => o.content > 0 /\ TitleSimilarity(s, o) > 0
          /\ o.content > 0 \/ TitleSimilarity(s, o) > 0
     /\ ScoreCandidate(s, a) # ScoreCandidate(s, b) =>
          /\ turned.tentative = decision.tentative
          /\ turned.to = IF decision.to = 0 THEN 0 ELSE 3 - decision.to

\* A score is a share of one; what the customer has excluded is worth less than
\* anything with two of the customer's words; and of two equally good matches the
\* one to be tendered in two to nine months, with a chance of three quarters, is
\* worth as much as the one that is out (ranker, on lead time).
EarlyIsWorth(c, o, p) ==
  /\ ScoreOpportunity(c, o) \in 0 .. 10000
  /\ (c.excluded \cap o.words # {} /\ c.excluded \cap p.words = {} /\ Cardinality(c.keywords \cap p.words) >= 2)
       => ScoreOpportunity(c, o) < ScoreOpportunity(c, p)
  /\ LET out == [o EXCEPT !.status = "bid_open", !.chance = 100]
         early == [o EXCEPT !.status = "open", !.passed = FALSE]
     IN (o.days \in 60 .. 270 /\ o.chance >= 75 /\ c.excluded = {}) =>
          ScoreOpportunity(c, early) > ScoreOpportunity(c, out)
=============================================================================
