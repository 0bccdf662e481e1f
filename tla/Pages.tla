-------------------------------- MODULE Pages --------------------------------
(***************************************************************************)
(* What customers are told of an opportunity, from its row and its signals *)
(* as Lifecycle leaves them: the card (api/presenters.py), the facts of a  *)
(* brief, the prompt and the template made of them (pipeline/brief.py,     *)
(* llm/prompts.py), the chance of a tender (pipeline/link.py), and what    *)
(* the backtest counts, from which chances are learnt                      *)
(* (pipeline/backtest.py).  Chances are in thousandths.                    *)
(*                                                                         *)
(* A council and a budget line say how firm they are: said gives the       *)
(* commitment of each.  All other documents are committed.                 *)
(***************************************************************************)
EXTENDS Lifecycle

CONSTANTS Horizon  \* 540: days after which the lack of a tender is a verdict

ASSUME PagesAssumption == Horizon \in Nat

(***************************************************************************)
(* Commitments and the chance of a tender.                                 *)
(***************************************************************************)
CommitmentOrder == <<"none", "declined", "reviewing", "planned", "committed">>
Firmness(c) == CHOOSE n \in 1 .. 5 : CommitmentOrder[n] = c
Weak == {"reviewing", "declined"}
Prior == [council_mention |-> 350, budget_line |-> 700, order_plan |-> 850, prespec |-> 950,
          bid_notice |-> 1000, award |-> 1000]
Multiplier == [committed |-> 160, planned |-> 120, reviewing |-> 60, declined |-> 15]

EarlyWords == {s \in links : s.stage \in PreProcurement}
SaidBy(said, s) == IF s \in EarlyWords THEN said[s] ELSE "committed"
Firmest(said, signals) == CommitmentOrder[Max({1} \cup {Firmness(SaidBy(said, s)) : s \in signals})]

\* The key of a measured rate, as the ranker looks it up.
RateKey(said) == <<opp.stage, Firmest(said, links)>>
BaseRate(said, calibration) ==
  LET best == Firmest(said, links)
  IN IF RateKey(said) \in DOMAIN calibration THEN calibration[RateKey(said)]
     ELSE IF opp.stage = "council_mention" /\ best # "none"
     THEN (Prior[opp.stage] * Multiplier[best]) \div 100
     ELSE Prior[opp.stage]

\* More documents make it likelier, and never certain.
Chance(said, calibration) ==
  IF opp.certain THEN 1000
  ELSE Min({980, BaseRate(said, calibration) + 50 * Min({Cardinality(links) - 1, 3})})

(***************************************************************************)
(* run_backtest, on an opportunity.  first: its first signal.              *)
(***************************************************************************)
\* Too young to judge, unless the tender is there.
Judged(first, d) ==
  first.stage \in PreProcurement /\ (first.at <= d - Horizon \/ opp.published # Nil)
Cohort(said, first) ==
  <<first.stage, IF first.stage = "council_mention"
                 THEN Firmest(said, {s \in links : s.stage = first.stage}) ELSE "committed">>

\* What is learnt from the cohorts, <<judged, converted>> each.
Calibration(cohorts, minSamples) ==
  [k \in {c \in DOMAIN cohorts : cohorts[c][1] >= minSamples} |-> (1000 * cohorts[k][2]) \div cohorts[k][1]]

Early == {s \in links : s.stage \in PreProcurement /\ opp.published # Nil /\ s.at < opp.published}
LeadCounted == IF Early = {} THEN Nil ELSE opp.published - Min({s.at : s \in Early})

(***************************************************************************)
(* The card, with the reasons of a recommendation ranked on the same day.  *)
(***************************************************************************)
Reasons(d, said) ==
  (IF LeadTime(d).days > 0 /\ opp.status = "open" THEN {"months left"} ELSE {})
    \cup (IF opp.stage = "council_mention"
          THEN IF Firmest(said, links) = "none" THEN {} ELSE {Firmest(said, links)}
          ELSE IF opp.stage # "bid_notice" THEN {"confirmed"} ELSE {})
    \cup (IF opp.status = "bid_open" THEN {"bidding"} ELSE {})

Card(d, said) ==
  [window |-> <<Shown(d).from, Shown(d).to>>, passed |-> Shown(d).passed, out |-> TenderOut,
   lead |-> LeadDays(d), headStart |-> HeadStart(d), reasons |-> Reasons(d, said)]

(***************************************************************************)
(* A line of an alert (notify/dispatch.py), with the window for workers of *)
(* the version before, and what it quotes: proven are the signals with a   *)
(* budget or a quote that was found.                                       *)
(***************************************************************************)
WhenLabel(d) ==
  IF opp.published # Nil THEN [tender |-> "out", window |-> <<opp.published, opp.published>>]
  ELSE IF Shown(d).passed THEN [tender |-> "late", window |-> <<Shown(d).from, Shown(d).to>>]
  ELSE [tender |-> "expected", window |-> <<Shown(d).from, Shown(d).to>>]

LegacyWindow == IF opp.published # Nil THEN <<opp.published, opp.published>> ELSE <<opp.from, opp.to>>

BestEvidence(proven) == {s \in proven : \A t \in proven : t.at <= s.at}

AlertItem(d, proven) ==
  [stage |-> opp.stage, when |-> WhenLabel(d), legacy |-> LegacyWindow, evidence |-> BestEvidence(proven)]

(***************************************************************************)
(* The brief.                                                              *)
(***************************************************************************)
Facts(d) ==
  [stage |-> opp.stage, published |-> opp.published, passed |-> Shown(d).passed,
   window |-> IF Shown(d).passed THEN <<opp.from, opp.to>> ELSE <<Shown(d).from, Shown(d).to>>]

FactsSayOut(facts) == TenderIsOut(facts.stage, facts.published)

Councils == {s \in links : s.stage = "council_mention"}
LastWords == {s \in Councils : \A t \in Councils : t.at <= s.at}

\* What a seller can still do at a stage.
Advice(stage) ==
  CASE stage = "award" -> "over"
    [] stage = "bid_notice" -> "offer"
    [] OTHER -> "shape it"

\* What the model is told of the tender.
PromptSays(facts) ==
  IF FactsSayOut(facts)
  THEN [tender |-> "out", window |-> <<facts.published, facts.published>>, chance |-> FALSE]
  ELSE [tender |-> IF facts.passed THEN "late" ELSE "expected", window |-> facts.window, chance |-> TRUE]

\* What the template says; last is the council signal that the database puts last.
TemplateSays(facts, said, last) ==
  [tender |-> IF FactsSayOut(facts) THEN "out" ELSE IF facts.passed THEN "late" ELSE "expected",
   window |-> IF FactsSayOut(facts) THEN <<facts.published, facts.published>> ELSE facts.window,
   chance |-> ~FactsSayOut(facts),
   advice |-> Advice(facts.stage),
   warns  |-> said[last] \in Weak]

(***************************************************************************)
(* Properties.                                                             *)
(***************************************************************************)
Sayings == [EarlyWords -> {"none", "declined", "planned"}]

\* The card, the alert, the prompt and the template say the same of the tender;
\* what is not out has a chance, which is no certainty; nobody is advised to
\* shape, or told to wait for, what is out.
SameStory(d, said) ==
  LET facts == Facts(d)
      card == Card(d, said)
      prompt == PromptSays(facts)
      alert == AlertItem(d, EarlyWords)
  IN /\ alert.when = [tender |-> prompt.tender, window |-> prompt.window]
     /\ alert.legacy[2] = prompt.window[2]
     /\ EarlyWords = Councils => alert.evidence = LastWords
     /\ card.out <=> prompt.tender = "out"
     /\ card.passed <=> prompt.tender = "late"
     /\ card.window = prompt.window
     /\ prompt.chance <=> Chance(said, <<>>) < 1000
     /\ "months left" \in card.reasons => card.lead > 0
     /\ "bidding" \in card.reasons => card.out
     /\ \A last \in LastWords :
          LET brief == TemplateSays(facts, said, last) IN
            /\ brief.tender = prompt.tender /\ brief.window = prompt.window /\ brief.chance = prompt.chance
            /\ brief.advice = "shape it" <=> ~card.out
            /\ Firmest(said, links) \in Weak => brief.warns \/ said[last] = "none"

OneCohort(cohort, counted) == [c \in {cohort} |-> counted]

\* What is learnt is what is looked up: while a council's word is all there is, its
\* chance has the key under which it will be counted.  What is counted as no tender
\* had the time for one, and a lead is the head start on the card.
LearntIsUsed(d, said) ==
  \A first \in Firsts :
    /\ links = Councils =>
         /\ Cohort(said, first) = RateKey(said)
         /\ Chance(said, Calibration(OneCohort(Cohort(said, first), <<2, 2>>), 2)) < 1000
         /\ DOMAIN Calibration(OneCohort(Cohort(said, first), <<1, 1>>), 2) = {}
    /\ Judged(first, d) /\ opp.published = Nil => d - opp.first >= Horizon
    /\ first.stage \in PreProcurement /\ LeadCounted # Nil => LeadCounted = HeadStart(d)

PagesAgree ==
  opp # Gone => \A said \in Sayings : SameStory(date, said) /\ LearntIsUsed(date, said)

\* Whatever was announced, withdrawn, announced again and signed, in whatever
\* order it arrived and however long nobody looked: what is shown of an
\* opportunity, said in a brief and counted in the backtest follows from what
\* stands, and is the same everywhere.
OpportunityRight == OutIsStanding /\ ViewsAgree /\ ConvertedStands /\ PagesAgree
=============================================================================
