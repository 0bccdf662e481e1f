----------------------------- MODULE Lifecycle -----------------------------
(***************************************************************************)
(* The life of one opportunity, from the first word in a council to the    *)
(* contract: what its signals and the calendar make of it                  *)
(* (pipeline/link.py refresh_opportunity, domain/stages.py), and what the  *)
(* card, the ranker, the brief and the backtest read off the stored row    *)
(* until somebody refreshes it.  Linking has the jobs and their            *)
(* transactions, and an opportunity's content as an opaque value; here a   *)
(* refresh is one step and the content is what matters; links only come.   *)
(*                                                                         *)
(* Days are numbers; a year is two halves of HalfYear days.                *)
(***************************************************************************)
EXTENDS Integers, Sequences, SequencesExt, FiniteSets, FiniteSetsExt

CONSTANTS Lag,        \* BID_LAG_DAYS: stage -> <<from, to>>
          HalfYear,   \* days of half a year
          BidDays,    \* 21: a tender counts as open
          SilentDays, \* 540: without a signal an opportunity is dormant
          LateDays,   \* 180: after its window too
          SweetFrom, SweetTo, \* 60 and 270: the lead time sales teams want
          Notice,     \* bid notice numbers
          LastDate,   \* bound: days
          MaxSignals  \* bound: signals

StageOrder == <<"council_mention", "budget_line", "order_plan", "prespec", "bid_notice", "award">>
Stages == Range(StageOrder)
Rank(stage) == CHOOSE n \in 1 .. 6 : StageOrder[n] = stage
PreProcurement == {"council_mention", "budget_line"}
Nil == -1

ASSUME LifecycleAssumption ==
  /\ \A s \in Stages : Lag[s][1] \in Nat /\ Lag[s][2] \in Nat /\ Lag[s][1] <= Lag[s][2]
  /\ {HalfYear, BidDays, SilentDays, LateDays, LastDate, MaxSignals} \subseteq Nat /\ HalfYear > 0
  /\ {SweetFrom, SweetTo} \subseteq Nat /\ SweetFrom > 0 /\ SweetFrom < SweetTo

VARIABLES date, links, opp
lifeVars == <<date, links, opp>>

\* A linked signal.  no: its bid_notice_no or cancels_bid_notice_no.
Mention == [stage : Stages, at : 0 .. LastDate, year : {Nil, 0, 1}, half : {"H1", "H2", "none"},
            no : Notice \cup {"none"}, cancels : BOOLEAN]
Gone == [status |-> "gone"]

LifeInit == date = 0 /\ links = {} /\ opp = Gone

(***************************************************************************)
(* domain/stages.py and domain/timing.py.                                  *)
(***************************************************************************)
TenderIsOut(stage, published) == published # Nil \/ Rank(stage) >= Rank("bid_notice")

\* mutant: whoever is withdrawn once stays withdrawn
OnceWithdrawn(notices) == {s.no : s \in {n \in notices : n.cancels}}

\* The latest notice of a number decides; on one day the withdrawal wins.
Withdrawn(notices) ==
  {no \in Notice :
     LET same == {s \in notices : s.no = no}
         latest == {s \in same : \A t \in same : t.at <= s.at}
     IN \E s \in latest : s.cancels}

\* Without a half: from the middle of January to the end of November.
SpanOf(year, half) ==
  LET first == year * 2 * HalfYear
      last == first + 2 * HalfYear - 1
  IN CASE half = "H1"   -> <<first, first + HalfYear - 1>>
       [] half = "H2"   -> <<first + HalfYear, last>>
       [] half = "none" -> <<first + HalfYear \div 6, last - HalfYear \div 3>>

AfterLag(stage, at) == <<at + Lag[stage][1], at + Lag[stage][2]>>

ForecastBidWindow(s) ==
  LET window == SpanOf(s.year, s.half)
  IN IF s.year = Nil \/ window[2] < s.at THEN AfterLag(s.stage, s.at)
     ELSE <<Max({window[1], s.at}), window[2]>>

RemainingWindow(from, to, d, published) ==
  IF published # Nil THEN [from |-> published, to |-> published, passed |-> FALSE]
  ELSE [from |-> IF to < d THEN from ELSE Max({from, d}), to |-> to, passed |-> to < d]

(***************************************************************************)
(* refresh_opportunity.                                                    *)
(***************************************************************************)
Live(signals) ==
  LET gone == Withdrawn({s \in signals : s.stage = "bid_notice"})
  IN {s \in signals : s.stage = "bid_notice" => ~s.cancels /\ s.no \notin gone}

\* The last by stage and day; of two on one day the database takes either.
Tops(signals) ==
  {s \in signals : \A t \in signals :
     Rank(t.stage) < Rank(s.stage) \/ (Rank(t.stage) = Rank(s.stage) /\ t.at <= s.at)}

Basis(signals, top) ==
  LET timed == {s \in signals : s.year # Nil}
  IN IF timed = {} THEN {top} ELSE Tops(timed)

StoredRow(stage, signals, published, window, status) ==
  [stage |-> stage, first |-> Min({s.at : s \in signals}), last |-> Max({s.at : s \in signals}),
   published |-> published, from |-> window[1], to |-> window[2], status |-> status,
   certain |-> TenderIsOut(stage, Nil)]

TenderStatus(published, d) == IF d - published <= BidDays THEN "bid_open" ELSE "closed"
Dormant(last, to, d) == d - last > SilentDays \/ to < d - LateDays

\* What a refresh on day d may write.
Refreshes(signals, d) ==
  LET live == Live(signals)
      bids == {s \in live : s.stage \in {"bid_notice", "award"}}
      counted == IF live = {} THEN signals ELSE live
      lastAt == Max({s.at : s \in signals})
      closedOn == Min({s.at : s \in signals})
      out == Min({s.at : s \in bids})
  IN IF signals = {} THEN {Gone}
     ELSE UNION {
       IF bids # {} THEN {StoredRow(top.stage, signals, out, <<out, out>>, TenderStatus(out, d))}
       ELSE IF live = {} THEN {StoredRow(top.stage, signals, closedOn, <<closedOn, closedOn>>, "closed")}
       ELSE {LET window == ForecastBidWindow(basis)
             IN StoredRow(top.stage, signals, Nil, window,
                    IF Dormant(lastAt, window[2], d) THEN "dormant" ELSE "open")
             : basis \in Basis(counted, top)}
       : top \in Tops(counted)}

(***************************************************************************)
(* The steps.                                                              *)
(***************************************************************************)
Kinds == {m \in Mention :
            /\ m.stage = "bid_notice" <=> m.no # "none"
            /\ m.cancels => m.stage = "bid_notice"
            /\ m.year # Nil => m.stage \in PreProcurement \cup {"order_plan"} /\ m.half # "H1"
            /\ m.year = Nil => m.half = "none"
            /\ m.stage = "order_plan" => m.half = "H2"
            /\ m.stage # "prespec"}

\* A signal of today or before is linked.  An order plan's record names its year
\* and half.  Kinds leaves out the prespecs, which are like order plans without a
\* half, and the first halves.
LinkMention ==
  /\ Cardinality(links) < MaxSignals
  /\ \E s \in {m \in Kinds : m.at <= date} \ links :
       /\ links' = links \cup {s}
       /\ opp' \in Refreshes(links', date)
  /\ UNCHANGED date

\* refresh_lifecycle: what is open or out for bids.
NightRefresh ==
  /\ opp.status \in {"open", "bid_open"}
  /\ opp' \in Refreshes(links, date)
  /\ UNCHANGED <<date, links>>

DayPasses == date < LastDate /\ date' = date + 1 /\ UNCHANGED <<links, opp>>

LifeNext == LinkMention \/ NightRefresh \/ DayPasses
LifeSpec == LifeInit /\ [][LifeNext]_lifeVars

(***************************************************************************)
(* What is read off the row on a day.                                      *)
(***************************************************************************)
Shown(d) == RemainingWindow(opp.from, opp.to, d, opp.published)

\* The card: days until the window opens.
LeadDays(d) == IF opp.published # Nil \/ Shown(d).passed THEN Nil ELSE Shown(d).from - d
HeadStart(d) ==
  LET days == Shown(d).from - opp.first IN IF Shown(d).passed \/ days <= 0 THEN Nil ELSE days
TenderOut == TenderIsOut(opp.stage, opp.published)

\* The ranker: days, and how much they are worth in thousandths.
LeadTime(d) ==
  LET window == RemainingWindow(opp.from, opp.to, d, Nil)
      days == window.from - d
  IN CASE opp.status = "bid_open" -> [worth |-> 600, days |-> 0]
       [] opp.status \in {"closed", "dormant"} -> [worth |-> 0, days |-> Nil]
       [] opp.status = "open" ->
            IF window.passed THEN [worth |-> 350, days |-> Nil]
            ELSE [days |-> days,
                  worth |-> IF days = 0 THEN 750
                            ELSE IF days <= SweetFrom THEN 700 + (300 * days) \div SweetFrom
                            ELSE IF days <= SweetTo THEN 1000
                            ELSE Max({350, 1000 - (5 * (days - SweetTo)) \div 2})]

\* The brief: what its sentence about the tender says.
BriefSays(d) ==
  IF TenderOut THEN "is out"
  ELSE IF Shown(d).passed THEN "is late" ELSE "is expected"

\* The backtest: whether the first signal is counted as one that became a tender.
Firsts == {s \in links : \A t \in links : s.at <= t.at}
Converted(first) == first.stage \in PreProcurement /\ opp.published # Nil

(***************************************************************************)
(* Properties.                                                             *)
(***************************************************************************)
Notices == {s \in links : s.stage = "bid_notice"}
Standing(n) ==
  n \in Notices /\ ~n.cancels /\ \A c \in Notices : (c.cancels /\ c.no = n.no) => c.at < n.at
SomethingStands == \E s \in links : s.stage = "award" \/ Standing(s)

\* A tender is out when there is a contract, or a notice that nothing has
\* withdrawn since; or it is over, when all there ever was has been withdrawn.
OutIsStanding ==
  opp # Gone => (TenderOut <=> SomethingStands \/ links = Notices)

\* The card, the ranker and the brief read one stored row on a later day than it
\* was written, each in its own way: they tell the same story.
ViewsAgree ==
  opp # Gone =>
    /\ LeadDays(date) # Nil => LeadDays(date) >= 0 /\ BriefSays(date) = "is expected"
    /\ opp.certain <=> TenderOut
    /\ opp.status = "open" => LeadTime(date).days = LeadDays(date)
    /\ TenderOut <=> opp.status \in {"bid_open", "closed"}
    /\ BriefSays(date) = "is late" => HeadStart(date) = Nil /\ LeadTime(date).worth <= 350

\* What the backtest learns its conversion rates from: a tender that was withdrawn
\* and left only the first word behind does not count as a conversion.
ConvertedStands == \A first \in Firsts : Converted(first) => SomethingStands

\* "A re-announcement links here and reopens it" (link.py, stages.py): a notice
\* published again after its withdrawal is open for bids for BidDays.
ReannouncedIsOpen ==
  \A n \in Notices :
    /\ Standing(n) /\ \E c \in Notices : c.cancels /\ c.no = n.no
    /\ date - n.at <= BidDays
    => opp.status = "bid_open"
=============================================================================
