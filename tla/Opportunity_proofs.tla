-------------------------- MODULE Opportunity_proofs --------------------------
(***************************************************************************)
(* Proofs about the life of an opportunity and what is shown of it, for    *)
(* any lags, days, notice numbers and number of signals; about the         *)
(* institutions that records are filed under, for any table and names; and *)
(* about the scores by which signals are linked and opportunities ranked.  *)
(*                                                                         *)
(* The stored row is what a refresh on some day up to now makes of the     *)
(* signals there are: that is the invariant.  A refresh writes one of two  *)
(* kinds of row (RowRight), and what the pages say follows from the kind,  *)
(* on whatever later day they are read.                                    *)
(***************************************************************************)
EXTENDS Pages, Institutions, Ranking, FiniteSetTheorems, NaturalsInduction, WellFoundedInduction, TLAPS

(***************************************************************************)
(* Extremes of sets of numbers, and the orders of stages and commitments.  *)
(***************************************************************************)

LEMMA LeastNat ==
  ASSUME NEW T, T \subseteq Nat, T # {}
  PROVE  Min(T) \in T /\ \A y \in T : Min(T) <= y
<1>1. PICK x \in T : \A y \in T : ~(<<y, x>> \in OpToRel(<, Nat))
  BY NatLessThanWellFounded, WFMin, Zenon
<1>2. \A y \in T : ~(y < x)
  BY <1>1, Zenon DEF OpToRel
<1>3. \A y \in T : x <= y
  BY <1>2
<1>. QED  BY <1>3 DEF Min

LEMMA GreatestBelow ==
  ASSUME NEW N \in Nat, NEW T, T \subseteq 0 .. N, T # {}
  PROVE  Max(T) \in T /\ \A y \in T : y <= Max(T)
<1>. DEFINE Left == {N - y : y \in T}
<1>1. Left \subseteq Nat
  <2>1. \A y \in T : N - y \in Nat
    OBVIOUS
  <2>. QED  BY <2>1
<1>. Left # {}
  OBVIOUS
<1>2. Min(Left) \in Left /\ \A z \in Left : Min(Left) <= z
  BY <1>1, LeastNat
<1>3. PICK x \in T : \A y \in T : N - x <= N - y
  BY <1>2
<1>4. \A y \in T : x >= y
  BY <1>3
<1>. QED  BY <1>4 DEF Max

LEMMA OfTwo ==
  ASSUME NEW a \in Int, NEW b \in Int
  PROVE  /\ Min({a, b}) = IF a <= b THEN a ELSE b
         /\ Max({a, b}) = IF a >= b THEN a ELSE b
BY DEF Min, Max

LEMMA Ranks ==
  /\ Stages = {"council_mention", "budget_line", "order_plan", "prespec", "bid_notice", "award"}
  /\ Rank("council_mention") = 1 /\ Rank("budget_line") = 2 /\ Rank("order_plan") = 3
  /\ Rank("prespec") = 4 /\ Rank("bid_notice") = 5 /\ Rank("award") = 6
<1>1. Stages = {StageOrder[n] : n \in 1 .. 6}
  BY DEF Stages, Range, StageOrder
<1>. QED  BY <1>1 DEF StageOrder, Rank

\* A tender is out from the bid notice on.
LEMMA StageIsOut ==
  ASSUME NEW stage \in Stages
  PROVE  /\ Rank(stage) \in 1 .. 6
         /\ TenderIsOut(stage, Nil) <=> stage \in {"bid_notice", "award"}
BY Ranks DEF TenderIsOut, Nil

LEMMA Firmnesses ==
  /\ Firmness("none") = 1 /\ Firmness("declined") = 2 /\ Firmness("reviewing") = 3
  /\ Firmness("planned") = 4 /\ Firmness("committed") = 5
  /\ \A n \in 1 .. 5 : CommitmentOrder[n] \in {"none", "declined", "reviewing", "planned", "committed"}
  /\ \A n \in 1 .. 5 : Firmness(CommitmentOrder[n]) = n
BY DEF Firmness, CommitmentOrder

(***************************************************************************)
(* The row is a refreshed one.                                             *)
(***************************************************************************)
RowIsRefreshed ==
  IF links = {} THEN opp = Gone ELSE \E d \in 0 .. date : opp \in Refreshes(links, d)

LifeInv ==
  /\ date \in 0 .. LastDate
  /\ links \subseteq Kinds /\ IsFiniteSet(links)
  /\ RowIsRefreshed

LEMMA LinkMentionKeeps ==
  ASSUME LifeInv, LinkMention
  PROVE  LifeInv'
<1>1. PICK s \in Kinds : links' = links \cup {s} /\ opp' \in Refreshes(links', date)
  BY DEF LinkMention
<1>2. date' = date /\ date \in 0 .. date
  BY LifecycleAssumption DEF LinkMention, LifeInv
<1>3. IsFiniteSet(links') /\ links' # {} /\ links' \subseteq Kinds
  BY <1>1, FS_AddElement DEF LifeInv
<1>4. RowIsRefreshed'
  BY <1>1, <1>2, <1>3 DEF RowIsRefreshed, Refreshes
<1>. QED  BY <1>2, <1>3, <1>4 DEF LifeInv

\* The row is what a refresh on some day up to now makes of the signals.
THEOREM RowRefreshed == LifeSpec => []LifeInv
<1>1. LifeInit => LifeInv
  BY LifecycleAssumption, FS_EmptySet DEF LifeInit, LifeInv, RowIsRefreshed
<1>2. LifeInv /\ [LifeNext]_lifeVars => LifeInv'
  <2>. SUFFICES ASSUME LifeInv, [LifeNext]_lifeVars
                PROVE  LifeInv'
    OBVIOUS
  <2>1. CASE LinkMention
    BY <2>1, LinkMentionKeeps
  <2>2. CASE NightRefresh
    <3>1. date' = date /\ links' = links /\ opp' \in Refreshes(links, date) /\ date \in 0 .. date
      BY <2>2, LifecycleAssumption DEF NightRefresh, LifeInv
    <3>2. links = {} => opp' = Gone
      BY <3>1 DEF Refreshes
    <3>. QED  BY <3>1, <3>2 DEF LifeInv, RowIsRefreshed
  <2>3. CASE DayPasses
    <3>1. date' \in 0 .. LastDate /\ 0 .. date \subseteq 0 .. date' /\ links' = links /\ opp' = opp
      BY <2>3, LifecycleAssumption DEF DayPasses, LifeInv
    <3>. QED  BY <3>1 DEF LifeInv, RowIsRefreshed
  <2>4. CASE UNCHANGED lifeVars
    BY <2>4 DEF lifeVars, LifeInv, RowIsRefreshed
  <2>. QED  BY <2>1, <2>2, <2>3, <2>4 DEF LifeNext
<1>. QED  BY <1>1, <1>2, PTL DEF LifeSpec

(***************************************************************************)
(* What a refresh makes of signals.                                        *)
(***************************************************************************)
LEMMA SignalFields ==
  ASSUME NEW s \in Kinds
  PROVE  /\ s.stage \in Stages /\ s.at \in 0 .. LastDate /\ s.year \in {Nil, 0, 1}
         /\ s.half \in {"H1", "H2", "none"} /\ s.cancels \in BOOLEAN
         /\ s.stage = "bid_notice" => s.no \in Notice
         /\ s.cancels => s.stage = "bid_notice"
BY DEF Kinds, Mention

LEMMA DaysOf ==
  ASSUME NEW T, T \subseteq Kinds, T # {}
  PROVE  /\ Min({s.at : s \in T}) \in Nat
         /\ \E s \in T : s.at = Min({t.at : t \in T})
         /\ \A s \in T : Min({t.at : t \in T}) <= s.at
         /\ \E s \in T : \A t \in T : t.at <= s.at
<1>. DEFINE ats == {s.at : s \in T}
<1>1. ats \subseteq 0 .. LastDate /\ ats # {} /\ LastDate \in Nat
  BY SignalFields, LifecycleAssumption
<1>2. ats \subseteq Nat
  BY <1>1
<1>3. Min(ats) \in ats /\ \A y \in ats : Min(ats) <= y
  BY <1>1, <1>2, LeastNat
<1>4. Max(ats) \in ats /\ \A y \in ats : y <= Max(ats)
  BY <1>1, GreatestBelow
<1>5. PICK last \in T : last.at = Max(ats)
  BY <1>4
<1>6. \A t \in T : t.at <= last.at
  BY <1>4, <1>5
<1>. HIDE DEF ats
<1>7. Min(ats) \in Nat
  BY <1>2, <1>3
<1>8. \E s \in T : s.at = Min(ats)
  BY <1>3 DEF ats
<1>9. \A s \in T : Min(ats) <= s.at
  BY <1>3 DEF ats
<1>. QED  BY <1>6, <1>7, <1>8, <1>9 DEF ats

\* What is live: all but notices, and notices that are not withdrawn.
LEMMA LiveSignals ==
  ASSUME links \subseteq Kinds
  PROVE  /\ Live(links) \subseteq links
         /\ \A s \in links : s.stage # "bid_notice" => s \in Live(links)
         /\ \A s \in links : s \in Notices =>
              (s \in Live(links) <=> ~s.cancels /\ s.no \notin Withdrawn(Notices))
BY DEF Live, Notices

\* The latest of a number's notices stands exactly if the number is not withdrawn.
LEMMA LiveStands ==
  ASSUME links \subseteq Kinds
  PROVE  SomethingStands <=> \E s \in Live(links) : s.stage \in {"bid_notice", "award"}
<1>1. ASSUME NEW n \in Notices, Standing(n)
      PROVE  n \in Live(links)
  <2>. DEFINE same == {s \in Notices : s.no = n.no}
              latest == {s \in same : \A t \in same : t.at <= s.at}
  <2>1. n \in links /\ ~n.cancels /\ \A c \in Notices : c.cancels /\ c.no = n.no => c.at < n.at
    BY <1>1 DEF Standing, Notices
  <2>2. ASSUME n.no \in Withdrawn(Notices)
        PROVE  FALSE
    <3>1. PICK s \in latest : s.cancels
      BY <2>2 DEF Withdrawn
    <3>2. s.at < n.at /\ n.at <= s.at
      BY <2>1, <3>1
    <3>3. s.at \in Int /\ n.at \in Int
      BY <2>1, SignalFields DEF Notices
    <3>. QED  BY <3>2, <3>3
  <2>. QED  BY <2>1, <2>2, LiveSignals
<1>2. ASSUME NEW s \in Live(links), s.stage = "bid_notice"
      PROVE  \E n \in links : Standing(n)
  <2>. DEFINE same == {t \in Notices : t.no = s.no}
  <2>1. s \in Notices /\ s.no \notin Withdrawn(Notices) /\ s.no \in Notice
    BY <1>2, LiveSignals, SignalFields DEF Notices
  <2>2. same \subseteq Kinds /\ same # {}
    BY <2>1 DEF Notices
  <2>3. PICK n \in same : \A t \in same : t.at <= n.at
    BY <2>2, DaysOf
  <2>4. \A c \in same : (\A t \in same : t.at <= c.at) => ~c.cancels
    BY <2>1 DEF Withdrawn
  <2>5. ~n.cancels
    BY <2>3, <2>4
  <2>6. ASSUME NEW c \in Notices, c.cancels, c.no = n.no
        PROVE  c.at < n.at
    <3>1. c \in same /\ c.at <= n.at
      BY <2>3, <2>6
    <3>2. c.at \in Int /\ n.at \in Int /\ \A t \in same : t.at \in Int
      BY <2>2, <3>1, SignalFields
    <3>3. c.at # n.at
      BY <2>3, <2>4, <2>6, <3>1
    <3>. QED  BY <3>1, <3>2, <3>3
  <2>7. n \in Notices /\ n \in links
    BY DEF Notices
  <2>. QED  BY <2>5, <2>6, <2>7 DEF Standing
<1>3. \A n \in links : Standing(n) => n \in Notices /\ n.stage = "bid_notice"
  BY DEF Standing, Notices
<1>4. \A s \in links : s.stage = "award" => s \in Live(links)
  BY LiveSignals
<1>. QED  BY <1>1, <1>2, <1>3, <1>4, LiveSignals DEF SomethingStands

LEMMA WindowIsDays ==
  ASSUME NEW s \in Kinds
  PROVE  \E a, b \in Int : ForecastBidWindow(s) = <<a, b>>
<1>1. s.at \in Int /\ s.year \in Int /\ s.stage \in Stages /\ s.half \in {"H1", "H2", "none"}
  BY SignalFields DEF Nil
<1>2. HalfYear \in Int /\ Lag[s.stage][1] \in Int /\ Lag[s.stage][2] \in Int
  BY <1>1, LifecycleAssumption
<1>3. \E a, b \in Int : SpanOf(s.year, s.half) = <<a, b>>
  BY <1>1, <1>2 DEF SpanOf
<1>4. PICK a \in Int, b \in Int : SpanOf(s.year, s.half) = <<a, b>>
  BY <1>3
<1>5. ForecastBidWindow(s) =
        IF s.year = Nil \/ b < s.at THEN AfterLag(s.stage, s.at) ELSE <<Max({a, s.at}), b>>
  BY <1>4 DEF ForecastBidWindow
<1>6. Max({a, s.at}) \in Int
  BY <1>1, OfTwo
<1>. QED  BY <1>1, <1>2, <1>5, <1>6 DEF AfterLag

(***************************************************************************)
(* The two kinds of row: a tender is out, or it is ahead.                  *)
(***************************************************************************)
OutRow ==
  /\ opp.stage \in {"bid_notice", "award"} /\ opp.published \in Nat
  /\ opp.from = opp.published /\ opp.to = opp.published
  /\ opp.status \in {"bid_open", "closed"}
  /\ SomethingStands \/ links = Notices

AheadRow ==
  /\ opp.stage \in Stages \ {"bid_notice", "award"} /\ opp.published = Nil
  /\ opp.from \in Int /\ opp.to \in Int
  /\ opp.status \in {"open", "dormant"}
  /\ ~SomethingStands /\ links # Notices

RowRight ==
  links # {} =>
    /\ opp.first = Min({s.at : s \in links})
    /\ opp.certain = TenderIsOut(opp.stage, Nil) /\ \E s \in links : opp.stage = s.stage
    /\ OutRow \/ AheadRow

LEMMA RefreshedIsRight ==
  ASSUME LifeInv
  PROVE  RowRight
<1>. SUFFICES ASSUME links # {}
              PROVE  /\ opp.first = Min({s.at : s \in links})
                     /\ opp.certain = TenderIsOut(opp.stage, Nil) /\ \E s \in links : opp.stage = s.stage
                     /\ OutRow \/ AheadRow
  BY DEF RowRight
<1>1. links # {} /\ links \subseteq Kinds
  BY DEF LifeInv
<1>2. PICK d \in 0 .. date : opp \in Refreshes(links, d)
  BY <1>1 DEF LifeInv, RowIsRefreshed
<1>. DEFINE live == Live(links)
            bids == {s \in live : s.stage \in {"bid_notice", "award"}}
            counted == IF live = {} THEN links ELSE live
<1>3. live \subseteq links /\ (live = {} => links = Notices) /\ (SomethingStands <=> bids # {})
  BY <1>1, LiveSignals, LiveStands DEF Notices
<1>4. PICK top \in Tops(counted) :
        opp \in
          IF bids # {} THEN {StoredRow(top.stage, links, Min({s.at : s \in bids}),
                               <<Min({s.at : s \in bids}), Min({s.at : s \in bids})>>,
                               TenderStatus(Min({s.at : s \in bids}), d))}
          ELSE IF live = {} THEN {StoredRow(top.stage, links, Min({s.at : s \in links}),
                               <<Min({s.at : s \in links}), Min({s.at : s \in links})>>, "closed")}
          ELSE {LET window == ForecastBidWindow(basis)
                IN StoredRow(top.stage, links, Nil, window,
                       IF Dormant(Max({s.at : s \in links}), window[2], d) THEN "dormant" ELSE "open")
                : basis \in Basis(counted, top)}
  BY <1>1, <1>2 DEF Refreshes
<1>5. /\ top \in counted /\ top \in links /\ top.stage \in Stages
      /\ \A t \in counted : Rank(t.stage) <= Rank(top.stage)
  <2>1. top \in counted /\ \A t \in counted :
          Rank(t.stage) < Rank(top.stage) \/ (Rank(t.stage) = Rank(top.stage) /\ t.at <= top.at)
    BY <1>4 DEF Tops
  <2>2. counted \subseteq links /\ \A t \in links : t.stage \in Stages
    BY <1>1, <1>3, SignalFields
  <2>3. \A t \in links : Rank(t.stage) \in Int
    BY <2>2, StageIsOut
  <2>. QED  BY <2>1, <2>2, <2>3
<1>. HIDE DEF live, bids, counted
<1>6. CASE bids # {}
  <2>1. bids \subseteq live /\ counted = live /\ \A s \in bids : s.stage \in {"bid_notice", "award"}
    BY <1>6 DEF bids, counted
  <2>2. PICK out : out = Min({s.at : s \in bids})
    OBVIOUS
  <2>3. bids \subseteq Kinds /\ out \in Nat
    BY <1>1, <1>3, <1>6, <2>1, <2>2, DaysOf
  <2>4. top.stage \in {"bid_notice", "award"}
    BY <1>3, <1>5, <1>6, <2>1, Ranks
  <2>5. opp = StoredRow(top.stage, links, out, <<out, out>>, TenderStatus(out, d))
    BY <1>4, <1>6, <2>2
  <2>6. /\ opp.stage = top.stage /\ opp.first = Min({s.at : s \in links}) /\ opp.published = out
        /\ opp.from = out /\ opp.to = out /\ opp.status = TenderStatus(out, d)
        /\ opp.certain = TenderIsOut(top.stage, Nil)
    BY <2>5 DEF StoredRow
  <2>. QED  BY <1>1, <1>3, <1>5, <1>6, <2>3, <2>4, <2>6 DEF OutRow, TenderStatus
<1>7. CASE bids = {} /\ live = {}
  <2>1. PICK closedOn : closedOn = Min({s.at : s \in links})
    OBVIOUS
  <2>2. closedOn \in Nat
    BY <1>1, <2>1, DaysOf
  <2>3. opp = StoredRow(top.stage, links, closedOn, <<closedOn, closedOn>>, "closed")
    BY <1>4, <1>7, <2>1
  <2>4. top.stage = "bid_notice"
    BY <1>3, <1>5, <1>7 DEF Notices
  <2>5. /\ opp.stage = top.stage /\ opp.first = Min({s.at : s \in links}) /\ opp.published = closedOn
        /\ opp.from = closedOn /\ opp.to = closedOn /\ opp.status = "closed"
        /\ opp.certain = TenderIsOut(top.stage, Nil)
    BY <2>3 DEF StoredRow
  <2>. QED  BY <1>1, <1>3, <1>5, <1>7, <2>2, <2>4, <2>5 DEF OutRow
<1>8. CASE bids = {} /\ live # {}
  <2>1. counted = live
    BY <1>8 DEF counted
  <2>2. top.stage \notin {"bid_notice", "award"}
    BY <1>5, <1>8, <2>1 DEF bids
  <2>3. PICK basis \in Basis(counted, top), status \in {"dormant", "open"} :
          opp = StoredRow(top.stage, links, Nil, ForecastBidWindow(basis), status)
    BY <1>4, <1>8
  <2>4. basis \in Kinds
    BY <1>1, <1>3, <1>5, <2>1, <2>3 DEF Basis, Tops
  <2>5. \E a, b \in Int : ForecastBidWindow(basis) = <<a, b>>
    BY <2>4, WindowIsDays
  <2>6. PICK a \in Int, b \in Int : ForecastBidWindow(basis) = <<a, b>>
    BY <2>5
  <2>7. opp = StoredRow(top.stage, links, Nil, <<a, b>>, status)
    BY <2>3, <2>6
  <2>8. links # Notices
    BY <1>5, <2>2 DEF Notices
  <2>9. /\ opp.stage = top.stage /\ opp.first = Min({s.at : s \in links}) /\ opp.published = Nil
        /\ opp.from = a /\ opp.to = b /\ opp.status = status
        /\ opp.certain = TenderIsOut(top.stage, Nil)
    BY <2>7 DEF StoredRow
  <2>. QED  BY <1>1, <1>3, <1>5, <1>8, <2>2, <2>8, <2>9 DEF AheadRow
<1>. QED  BY <1>6, <1>7, <1>8

(***************************************************************************)
(* What is read off a row of each kind, on any day.                        *)
(***************************************************************************)
LEMMA OutIsShown ==
  ASSUME OutRow, NEW d \in Int
  PROVE  /\ TenderOut /\ TenderIsOut(opp.stage, Nil) /\ opp.published # Nil
         /\ Shown(d) = [from |-> opp.published, to |-> opp.published, passed |-> FALSE]
         /\ ~Shown(d).passed /\ Shown(d).from = opp.published /\ Shown(d).to = opp.published
         /\ LeadDays(d) = Nil /\ opp.status # "open"
<1>1. opp.published # Nil /\ opp.stage \in Stages
  BY Ranks DEF OutRow, Nil
<1>2. TenderOut /\ TenderIsOut(opp.stage, Nil)
  BY <1>1, StageIsOut DEF OutRow, TenderOut, TenderIsOut
<1>3. Shown(d) = [from |-> opp.published, to |-> opp.published, passed |-> FALSE]
  BY <1>1 DEF Shown, RemainingWindow
<1>. QED  BY <1>1, <1>2, <1>3 DEF LeadDays, OutRow

LEMMA AheadIsShown ==
  ASSUME AheadRow, NEW d \in Int
  PROVE  /\ ~TenderOut /\ ~TenderIsOut(opp.stage, Nil)
         /\ Shown(d) = RemainingWindow(opp.from, opp.to, d, Nil)
         /\ Shown(d).passed <=> opp.to < d
         /\ Shown(d).to = opp.to /\ Shown(d).from \in Int
         /\ Shown(d).passed => Shown(d).from = opp.from /\ LeadDays(d) = Nil
         /\ ~Shown(d).passed => d <= Shown(d).from /\ LeadDays(d) = Shown(d).from - d
<1>1. ~TenderOut /\ ~TenderIsOut(opp.stage, Nil)
  BY StageIsOut DEF AheadRow, TenderOut, TenderIsOut
<1>2. Shown(d) = [from |-> IF opp.to < d THEN opp.from ELSE Max({opp.from, d}),
                  to |-> opp.to, passed |-> opp.to < d]
  BY DEF AheadRow, Shown, RemainingWindow
<1>3. Max({opp.from, d}) \in Int /\ d <= Max({opp.from, d})
  <2>1. opp.from \in Int
    BY DEF AheadRow
  <2>. QED  BY <2>1, OfTwo
<1>4. Shown(d) = RemainingWindow(opp.from, opp.to, d, Nil)
  BY DEF AheadRow, Shown
<1>5. /\ Shown(d).passed = (opp.to < d)
      /\ Shown(d).to = opp.to
      /\ Shown(d).from = IF opp.to < d THEN opp.from ELSE Max({opp.from, d})
  BY <1>2
<1>6. opp.published = Nil /\ opp.from \in Int
  BY DEF AheadRow
<1>. QED  BY <1>1, <1>3, <1>4, <1>5, <1>6 DEF LeadDays

LEMMA OutIsWhatStands ==
  ASSUME LifeInv, RowRight
  PROVE  OutIsStanding
<1>1. date \in Int /\ (opp # Gone => links # {})
  BY LifecycleAssumption DEF LifeInv, RowIsRefreshed
<1>. QED  BY <1>1, OutIsShown, AheadIsShown DEF OutIsStanding, RowRight, OutRow, AheadRow

LEMMA ViewsOfRow ==
  ASSUME LifeInv, RowRight
  PROVE  ViewsAgree
<1>. SUFFICES ASSUME opp # Gone
              PROVE  /\ LeadDays(date) # Nil => LeadDays(date) >= 0 /\ BriefSays(date) = "is expected"
                     /\ opp.certain <=> TenderOut
                     /\ opp.status = "open" => LeadTime(date).days = LeadDays(date)
                     /\ TenderOut <=> opp.status \in {"bid_open", "closed"}
                     /\ BriefSays(date) = "is late" => HeadStart(date) = Nil /\ LeadTime(date).worth <= 350
  BY DEF ViewsAgree
<1>1. date \in Int /\ links # {}
  BY LifecycleAssumption DEF LifeInv, RowIsRefreshed
<1>2. CASE OutRow
  BY <1>1, <1>2, OutIsShown DEF RowRight, OutRow, BriefSays
<1>3. CASE AheadRow
  <2>1. opp.status \in {"open", "dormant"} /\ opp.published = Nil
    BY <1>3 DEF AheadRow
  <2>2. /\ ~TenderOut /\ ~TenderIsOut(opp.stage, Nil)
        /\ Shown(date) = RemainingWindow(opp.from, opp.to, date, Nil)
        /\ Shown(date).from \in Int
        /\ Shown(date).passed => LeadDays(date) = Nil
        /\ ~Shown(date).passed => date <= Shown(date).from /\ LeadDays(date) = Shown(date).from - date
    BY <1>1, <1>3, AheadIsShown
  <2>3. LeadDays(date) # Nil => LeadDays(date) >= 0 /\ BriefSays(date) = "is expected"
    BY <1>1, <2>2 DEF BriefSays
  <2>4. opp.certain <=> TenderOut
    BY <1>1, <2>2 DEF RowRight
  <2>5. opp.status = "open" =>
          /\ LeadTime(date).days = IF Shown(date).passed THEN Nil ELSE Shown(date).from - date
          /\ Shown(date).passed => LeadTime(date).worth = 350
    BY <2>2 DEF LeadTime
  <2>6. opp.status = "dormant" => LeadTime(date).worth = 0
    BY DEF LeadTime
  <2>7. BriefSays(date) = "is late" => Shown(date).passed /\ HeadStart(date) = Nil
    BY DEF BriefSays, HeadStart
  <2>8. opp.status = "open" => LeadTime(date).days = LeadDays(date)
    BY <2>2, <2>5
  <2>9. BriefSays(date) = "is late" => HeadStart(date) = Nil /\ LeadTime(date).worth <= 350
    <3>1. \A n \in {0, 350} : n <= 350
      OBVIOUS
    <3>. QED  BY <2>1, <2>5, <2>6, <2>7, <3>1, Zenon
  <2>. QED  BY <2>1, <2>2, <2>3, <2>4, <2>8, <2>9
<1>. QED  BY <1>1, <1>2, <1>3 DEF RowRight

LEMMA ConvertedOnStanding ==
  ASSUME LifeInv, RowRight
  PROVE  ConvertedStands
<1>. SUFFICES ASSUME NEW first \in Firsts, Converted(first), ~SomethingStands
              PROVE  FALSE
  BY DEF ConvertedStands
<1>1. links # {}
  BY DEF Firsts
<1>. QED  BY <1>1 DEF RowRight, OutRow, AheadRow, Converted, Firsts, Notices, PreProcurement

(***************************************************************************)
(* Commitments and the chance of a tender.                                 *)
(***************************************************************************)
LEMMA FirmestOf ==
  ASSUME NEW said \in Sayings, NEW T, T \subseteq links
  PROVE  /\ Firmest(said, T) \in {"none", "declined", "reviewing", "planned", "committed"}
         /\ \A s \in T : Firmness(SaidBy(said, s)) <= Firmness(Firmest(said, T))
<1>. DEFINE levels == {1} \cup {Firmness(SaidBy(said, s)) : s \in T}
<1>1. \A s \in T : SaidBy(said, s) \in {"none", "declined", "planned", "committed"}
  BY DEF SaidBy, Sayings
<1>2. levels \subseteq 0 .. 5 /\ levels \subseteq 1 .. 5 /\ levels # {}
  BY <1>1, Firmnesses
<1>3. Max(levels) \in levels /\ \A n \in levels : n <= Max(levels)
  BY <1>2, GreatestBelow
<1>4. Firmest(said, T) = CommitmentOrder[Max(levels)]
  BY DEF Firmest
<1>5. Max(levels) \in 1 .. 5
  BY <1>2, <1>3
<1>6. Firmness(Firmest(said, T)) = Max(levels)
  BY <1>4, <1>5, Firmnesses
<1>. QED  BY <1>3, <1>4, <1>5, <1>6, Firmnesses

\* Whatever was learnt, a tender that is not out has less than a certain chance.
LEMMA ChanceOf ==
  ASSUME LifeInv, RowRight, links # {}, NEW said \in Sayings, NEW calibration,
         RateKey(said) \in DOMAIN calibration => calibration[RateKey(said)] \in Int
  PROVE  Chance(said, calibration) < 1000 <=> ~TenderIsOut(opp.stage, Nil)
<1>1. opp.stage \in Stages
  BY SignalFields DEF RowRight, LifeInv
<1>2. Firmest(said, links) \in {"none", "declined", "reviewing", "planned", "committed"}
  BY FirmestOf
<1>3. Prior[opp.stage] \in Int
  BY <1>1, Ranks DEF Prior
<1>4. Firmest(said, links) # "none" => Multiplier[Firmest(said, links)] \in Int
  BY <1>2 DEF Multiplier
<1>5. BaseRate(said, calibration) \in Int
  <2>1. Firmest(said, links) # "none" =>
          (Prior[opp.stage] * Multiplier[Firmest(said, links)]) \div 100 \in Int
    BY <1>3, <1>4
  <2>. QED  BY <1>3, <2>1 DEF BaseRate
<1>6. Cardinality(links) - 1 \in Int
  BY FS_CardinalityType DEF LifeInv
<1>7. Min({Cardinality(links) - 1, 3}) \in Int
  BY <1>6, OfTwo
<1>8. PICK rate : rate = BaseRate(said, calibration) + 50 * Min({Cardinality(links) - 1, 3})
  OBVIOUS
<1>9. rate \in Int
  BY <1>5, <1>7, <1>8
<1>10. Min({980, rate}) \in Int /\ Min({980, rate}) <= 980
  BY <1>9, OfTwo
<1>11. Min({980, rate}) < 1000
  BY <1>10
<1>12. opp.certain = TenderIsOut(opp.stage, Nil)
  BY DEF RowRight
<1>13. CASE TenderIsOut(opp.stage, Nil)
  <2>1. Chance(said, calibration) = 1000
    BY <1>12, <1>13 DEF Chance
  <2>. QED  BY <1>13, <2>1
<1>14. CASE ~TenderIsOut(opp.stage, Nil)
  <2>1. Chance(said, calibration) = Min({980, rate})
    BY <1>8, <1>12, <1>14 DEF Chance
  <2>. QED  BY <1>11, <1>14, <2>1
<1>. QED  BY <1>13, <1>14

(***************************************************************************)
(* What the card, the alert, the prompt and the template say of a row.     *)
(***************************************************************************)
LEMMA StoryOfOut ==
  ASSUME OutRow, NEW d \in Int
  PROVE  /\ FactsSayOut(Facts(d))
         /\ PromptSays(Facts(d)) =
              [tender |-> "out", window |-> <<opp.published, opp.published>>, chance |-> FALSE]
         /\ WhenLabel(d) = [tender |-> "out", window |-> <<opp.published, opp.published>>]
         /\ LegacyWindow = <<opp.published, opp.published>>
         /\ <<Shown(d).from, Shown(d).to>> = <<opp.published, opp.published>>
<1>1. Facts(d).stage = opp.stage /\ Facts(d).published = opp.published
  BY DEF Facts
<1>2. FactsSayOut(Facts(d))
  BY <1>1, OutIsShown DEF FactsSayOut, TenderOut
<1>. QED  BY <1>1, <1>2, OutIsShown DEF PromptSays, WhenLabel, LegacyWindow

LEMMA StoryOfAhead ==
  ASSUME AheadRow, NEW d \in Int
  PROVE  /\ ~FactsSayOut(Facts(d))
         /\ \E word \in {"late", "expected"} :
              /\ word = "late" <=> Shown(d).passed
              /\ PromptSays(Facts(d)) =
                   [tender |-> word, window |-> <<Shown(d).from, Shown(d).to>>, chance |-> TRUE]
              /\ WhenLabel(d) = [tender |-> word, window |-> <<Shown(d).from, Shown(d).to>>]
         /\ LegacyWindow = <<opp.from, opp.to>> /\ opp.to = Shown(d).to
<1>1. /\ Facts(d).stage = opp.stage /\ Facts(d).published = opp.published
      /\ Facts(d).passed = Shown(d).passed
      /\ Facts(d).window = IF Shown(d).passed THEN <<opp.from, opp.to>> ELSE <<Shown(d).from, Shown(d).to>>
  BY DEF Facts
<1>2. ~FactsSayOut(Facts(d))
  BY <1>1, AheadIsShown DEF FactsSayOut, TenderOut
<1>3. Facts(d).window = <<Shown(d).from, Shown(d).to>>
  BY <1>1, AheadIsShown
<1>4. opp.published = Nil /\ opp.to = Shown(d).to
  BY AheadIsShown DEF AheadRow
<1>5. CASE Shown(d).passed
  BY <1>1, <1>2, <1>3, <1>4, <1>5 DEF PromptSays, WhenLabel, LegacyWindow
<1>6. CASE ~Shown(d).passed
  BY <1>1, <1>2, <1>3, <1>4, <1>6 DEF PromptSays, WhenLabel, LegacyWindow
<1>. QED  BY <1>5, <1>6

LEMMA EverySameStory ==
  ASSUME LifeInv, RowRight, links # {}, NEW said \in Sayings
  PROVE  SameStory(date, said)
<1>. DEFINE d == date
            prompt == PromptSays(Facts(d))
            card == Card(d, said)
            alert == AlertItem(d, EarlyWords)
            word == IF OutRow THEN "out" ELSE IF Shown(d).passed THEN "late" ELSE "expected"
            window == <<Shown(d).from, Shown(d).to>>
<1>1. date \in Int /\ (OutRow \/ AheadRow) /\ (OutRow => ~AheadRow)
  BY LifecycleAssumption DEF LifeInv, RowRight, OutRow, AheadRow
<1>2. /\ prompt = [tender |-> word, window |-> window, chance |-> ~OutRow]
      /\ WhenLabel(d) = [tender |-> word, window |-> window]
      /\ LegacyWindow[2] = window[2]
      /\ FactsSayOut(Facts(d)) <=> OutRow
  <2>1. CASE OutRow
    BY <1>1, <2>1, StoryOfOut
  <2>2. CASE AheadRow
    <3>1. PICK said1 \in {"late", "expected"} :
            /\ said1 = "late" <=> Shown(d).passed
            /\ prompt = [tender |-> said1, window |-> window, chance |-> TRUE]
            /\ WhenLabel(d) = [tender |-> said1, window |-> window]
      BY <1>1, <2>2, StoryOfAhead
    <3>2. word = said1 /\ (~OutRow) = TRUE
      BY <1>1, <2>2, <3>1
    <3>3. LegacyWindow[2] = window[2] /\ ~FactsSayOut(Facts(d))
      BY <1>1, <2>2, StoryOfAhead
    <3>. QED  BY <3>1, <3>2, <3>3
  <2>. QED  BY <1>1, <2>1, <2>2
<1>3. /\ TenderOut <=> OutRow
      /\ Shown(d).passed => ~OutRow
      /\ TenderIsOut(opp.stage, Nil) <=> OutRow
      /\ OutRow <=> opp.stage \in {"bid_notice", "award"}
  BY <1>1, OutIsShown, AheadIsShown DEF OutRow, AheadRow
<1>4. /\ card.window = window /\ (card.passed <=> Shown(d).passed) /\ (card.out <=> OutRow)
      /\ card.lead = LeadDays(d) /\ card.reasons = Reasons(d, said)
  BY <1>3 DEF Card
<1>5. alert.when = [tender |-> prompt.tender, window |-> prompt.window]
  BY <1>2 DEF AlertItem
<1>6. alert.legacy[2] = prompt.window[2]
  BY <1>2 DEF AlertItem
<1>7. EarlyWords = Councils => alert.evidence = LastWords
  BY DEF AlertItem, BestEvidence, LastWords
<1>8. /\ card.out <=> prompt.tender = "out"
      /\ card.passed <=> prompt.tender = "late"
      /\ card.window = prompt.window
  BY <1>2, <1>3, <1>4
<1>9. prompt.chance <=> Chance(said, <<>>) < 1000
  <2>1. RateKey(said) \notin DOMAIN <<>>
    OBVIOUS
  <2>2. Chance(said, <<>>) < 1000 <=> ~TenderIsOut(opp.stage, Nil)
    BY <2>1, ChanceOf
  <2>3. prompt.chance = ~OutRow
    BY <1>2
  <2>. QED  BY <1>3, <2>2, <2>3
<1>10. "months left" \in card.reasons => card.lead > 0
  <2>1. "months left" \in Reasons(d, said) => LeadTime(d).days > 0 /\ opp.status = "open"
    BY FirmestOf DEF Reasons
  <2>2. opp # Gone
    BY <1>1 DEF OutRow, AheadRow, Gone
  <2>3. opp.status = "open" => LeadTime(d).days = LeadDays(d)
    BY <2>2, ViewsOfRow DEF ViewsAgree
  <2>. QED  BY <1>4, <2>1, <2>3
<1>11. "bidding" \in card.reasons => card.out
  <2>1. "bidding" \in Reasons(d, said) => opp.status = "bid_open"
    BY FirmestOf DEF Reasons
  <2>. QED  BY <1>1, <1>4, <2>1 DEF AheadRow
<1>12. ASSUME NEW last \in LastWords
       PROVE  LET brief == TemplateSays(Facts(d), said, last) IN
                /\ brief.tender = prompt.tender /\ brief.window = prompt.window /\ brief.chance = prompt.chance
                /\ brief.advice = "shape it" <=> ~card.out
                /\ Firmest(said, links) \in Weak => brief.warns \/ said[last] = "none"
  <2>. DEFINE brief == TemplateSays(Facts(d), said, last)
  <2>1. /\ Facts(d).stage = opp.stage
        /\ Facts(d).published = opp.published
        /\ Facts(d).passed = Shown(d).passed
        /\ Facts(d).window = IF Shown(d).passed THEN <<opp.from, opp.to>> ELSE window
    BY DEF Facts
  <2>2. /\ brief.tender = IF FactsSayOut(Facts(d)) THEN "out" ELSE IF Facts(d).passed THEN "late" ELSE "expected"
        /\ brief.window = IF FactsSayOut(Facts(d)) THEN <<Facts(d).published, Facts(d).published>>
                          ELSE Facts(d).window
        /\ brief.chance = ~FactsSayOut(Facts(d))
        /\ brief.advice = Advice(Facts(d).stage)
        /\ brief.warns = (said[last] \in Weak)
    BY DEF TemplateSays
  <2>3. brief.tender = prompt.tender
    BY <1>2, <2>1, <2>2
  <2>4. brief.window = prompt.window
    <3>1. OutRow => window = <<opp.published, opp.published>>
      BY <1>1, OutIsShown
    <3>2. AheadRow /\ Shown(d).passed => window = <<opp.from, opp.to>>
      BY <1>1, AheadIsShown
    <3>. QED  BY <1>1, <1>2, <2>1, <2>2, <3>1, <3>2
  <2>5. brief.chance = prompt.chance
    BY <1>2, <2>2
  <2>6. brief.advice = "shape it" <=> ~card.out
    BY <1>3, <1>4, <2>1, <2>2 DEF Advice
  <2>7. Firmest(said, links) \in Weak => said[last] \in {"none", "declined"}
    <3>1. last \in links /\ last \in EarlyWords
      BY DEF LastWords, Councils, EarlyWords, PreProcurement
    <3>2. said[last] \in {"none", "declined", "planned"} /\ SaidBy(said, last) = said[last]
      BY <3>1 DEF Sayings, SaidBy
    <3>3. Firmness(said[last]) <= Firmness(Firmest(said, links))
      BY <3>1, <3>2, FirmestOf
    <3>. QED  BY <3>2, <3>3, Firmnesses DEF Weak
  <2>. QED  BY <2>2, <2>3, <2>4, <2>5, <2>6, <2>7 DEF Weak
<1>. QED  BY <1>5, <1>6, <1>7, <1>8, <1>9, <1>10, <1>11, <1>12 DEF SameStory

(***************************************************************************)
(* What is learnt of the chances is what is looked up.                     *)
(***************************************************************************)
LEMMA FirstOfRow ==
  ASSUME LifeInv, RowRight, NEW first \in Firsts
  PROVE  /\ first \in links /\ first.at \in Nat /\ opp.first = first.at
         /\ \A s \in links : s.at \in Nat /\ first.at <= s.at
<1>1. first \in links /\ links \subseteq Kinds /\ \A s \in links : first.at <= s.at
  BY DEF Firsts, LifeInv
<1>2. \A s \in links : s.at \in Nat
  BY <1>1, SignalFields, LifecycleAssumption
<1>3. PICK s \in links : s.at = Min({t.at : t \in links})
  BY <1>1, DaysOf
<1>4. Min({t.at : t \in links}) <= first.at
  BY <1>1, DaysOf
<1>5. opp.first = s.at
  BY <1>1, <1>3 DEF RowRight
<1>. QED  BY <1>1, <1>2, <1>3, <1>4, <1>5

LEMMA LookedUpIsLearnt ==
  ASSUME LifeInv, RowRight, NEW said \in Sayings, NEW first \in Firsts, links = Councils
  PROVE  /\ Cohort(said, first) = RateKey(said)
         /\ Chance(said, Calibration(OneCohort(Cohort(said, first), <<2, 2>>), 2)) < 1000
         /\ DOMAIN Calibration(OneCohort(Cohort(said, first), <<1, 1>>), 2) = {}
<1>1. first.stage = "council_mention" /\ {s \in links : s.stage = first.stage} = links
  BY FirstOfRow DEF Councils
<1>2. links # {} /\ opp.stage = "council_mention"
  BY FirstOfRow DEF Councils, RowRight
<1>3. Cohort(said, first) = RateKey(said)
  BY <1>1, <1>2 DEF Cohort, RateKey
<1>4. PICK key : key = Cohort(said, first)
  OBVIOUS
<1>5. PICK learnt : learnt = Calibration(OneCohort(key, <<2, 2>>), 2)
  OBVIOUS
<1>6. DOMAIN learnt = {key} /\ learnt[key] = (1000 * 2) \div 2
  BY <1>5 DEF Calibration, OneCohort
<1>7. Chance(said, learnt) < 1000 <=> ~TenderIsOut(opp.stage, Nil)
  BY <1>2, <1>3, <1>4, <1>6, ChanceOf
<1>8. ~TenderIsOut(opp.stage, Nil)
  BY <1>2, Ranks, StageIsOut
<1>9. DOMAIN Calibration(OneCohort(key, <<1, 1>>), 2) = {}
  BY DEF Calibration, OneCohort
<1>. QED  BY <1>3, <1>4, <1>5, <1>7, <1>8, <1>9

LEMMA EveryLearntIsUsed ==
  ASSUME LifeInv, RowRight, NEW said \in Sayings
  PROVE  LearntIsUsed(date, said)
<1>. SUFFICES ASSUME NEW first \in Firsts
              PROVE  /\ Judged(first, date) /\ opp.published = Nil => date - opp.first >= Horizon
                     /\ first.stage \in PreProcurement /\ LeadCounted # Nil => LeadCounted = HeadStart(date)
  BY LookedUpIsLearnt DEF LearntIsUsed
<1>1. /\ first \in links /\ first.at \in Nat /\ opp.first = first.at
      /\ \A s \in links : s.at \in Nat /\ first.at <= s.at
  BY FirstOfRow
<1>2. date \in Int
  BY LifecycleAssumption DEF LifeInv
<1>3. Judged(first, date) /\ opp.published = Nil => date - opp.first >= Horizon
  BY <1>1, <1>2, PagesAssumption DEF Judged
<1>4. ASSUME first.stage \in PreProcurement, LeadCounted # Nil
      PROVE  LeadCounted = HeadStart(date)
  <2>1. PICK s \in Early : TRUE
    BY <1>4 DEF LeadCounted
  <2>2. s \in links /\ opp.published # Nil /\ s.at < opp.published
    BY <2>1 DEF Early
  <2>3. OutRow
    BY <2>2 DEF RowRight, AheadRow
  <2>4. opp.published \in Int
    BY <2>3 DEF OutRow
  <2>5. first.at < opp.published /\ first \in Early
    BY <1>1, <1>4, <2>2, <2>4 DEF Early
  <2>6. Early \subseteq Kinds /\ Early # {} /\ Early \subseteq links
    BY <2>5 DEF Early, LifeInv
  <2>7. PICK e \in Early : e.at = Min({t.at : t \in Early})
    BY <2>6, DaysOf
  <2>8. Min({t.at : t \in Early}) <= first.at
    BY <2>5, <2>6, DaysOf
  <2>9. Min({t.at : t \in Early}) = first.at
    BY <1>1, <2>6, <2>7, <2>8
  <2>10. LeadCounted = opp.published - first.at
    BY <2>6, <2>9 DEF LeadCounted
  <2>11. ~Shown(date).passed /\ Shown(date).from = opp.published
    BY <1>2, <2>3, OutIsShown
  <2>12. HeadStart(date) = opp.published - first.at
    BY <1>1, <2>4, <2>5, <2>11 DEF HeadStart
  <2>. QED  BY <2>10, <2>12
<1>. QED  BY <1>3, <1>4

\* Whatever was announced, withdrawn, announced again and signed, in whatever
\* order, what is shown of an opportunity, said in a brief and counted in the
\* backtest follows from what stands and is the same everywhere
\* (refresh_opportunity, presenters.py, brief.py, prompts.py, backtest.py).
THEOREM RightOpportunity == LifeSpec => []OpportunityRight
<1>1. LifeInv => OpportunityRight
  <2>. SUFFICES ASSUME LifeInv
                PROVE  OpportunityRight
    OBVIOUS
  <2>1. RowRight
    BY RefreshedIsRight
  <2>2. PagesAgree
    <3>1. opp # Gone => links # {}
      BY DEF LifeInv, RowIsRefreshed
    <3>. QED  BY <2>1, <3>1, EverySameStory, EveryLearntIsUsed DEF PagesAgree
  <2>. QED  BY <2>1, <2>2, OutIsWhatStands, ViewsOfRow, ConvertedOnStanding DEF OpportunityRight
<1>. QED  BY <1>1, RowRefreshed, PTL

-----------------------------------------------------------------------------
(***************************************************************************)
(* Institutions.  Rows of one code are one row, whoever has inserted it;   *)
(* what a transaction has written is right by the rows it sees.  A record  *)
(* without a code may take a name for the code's that its process keeps    *)
(* from a transaction that was rolled back: with a second name for the     *)
(* code in the table by then, that is the one case that is excepted.       *)
(***************************************************************************)
OneName == \A d, e \in Published : Coded(d.provider) /\ d.provider = e.provider => d.name = e.name
Trusted == OneName \/ aborts = 0

OneRow ==
  \A w \in Process :
    /\ \A i, j \in InTable(w) : i.code = j.code => i = j
    /\ \A v \in Process \ {w} : \A i \in inserted[v], j \in inserted[w] : i.code # j.code

NoLocals == \A w \in Process : \A i \in InTable(w) : ~LooksLikeLocalGovernment(i.name)

MayBeFiled(rows, d, code) ==
  IsOwn(code) =>
    IF Coded(d.provider) THEN code = OwnCode(d.provider)
    ELSE Trusted => \E i \in rows : i.code = code /\ i.name = d.name

WrittenRight == \A w \in Process : \A x \in written[w] : MayBeFiled(InTable(w), x.doc, x.code)
FiledSoFar == \A d \in Published : MayBeFiled(table, d, filed[d])
StoredRight == aborts = 0 => KnownIsStored

InstInv ==
  /\ InstitutionsTypeOK /\ OneRow /\ NoLocals /\ WrittenRight /\ FiledSoFar /\ StoredRight
  /\ \A i \in table : ~LooksLikeLocalGovernment(i.name)
  /\ \A i, j \in table : i.code = j.code => i = j

LEMMA RowFields ==
  ASSUME NEW i \in ProviderRows
  PROVE  \E d \in Published :
           Coded(d.provider) /\ i = [code |-> OwnCode(d.provider), name |-> d.name]
                             /\ i.code = OwnCode(d.provider) /\ i.name = d.name
BY DEF ProviderRows

LEMMA RowCodes ==
  ASSUME NEW i \in ProviderRows
  PROVE  IsOwn(i.code) /\ i.code \in Codes
<1>1. PICK d \in Published : Coded(d.provider) /\ i.code = OwnCode(d.provider)
  BY RowFields
<1>2. d.provider \in CodeIds
  BY <1>1 DEF CodeIds, Coded
<1>3. IsOwn(i.code)
  BY <1>1 DEF IsOwn, OwnCode
<1>. QED  BY <1>1, <1>2, <1>3 DEF Codes

LEMMA OwnCodes ==
  /\ \A p, q : OwnCode(p) = OwnCode(q) => p = q
  /\ \A p : IsOwn(OwnCode(p))
  /\ \A p \in CodeIds : OwnCode(p) \in Codes
  /\ ~IsOwn(NoCode) /\ NoCode \in Codes
  /\ \A i \in Curated : ~IsOwn(i.code) /\ i.code \in Codes
<1>1. \A p, q : OwnCode(p) = OwnCode(q) => p = q
  <2>. TAKE p, q
  <2>1. OwnCode(p).id = p /\ OwnCode(q).id = q
    BY DEF OwnCode
  <2>. QED  BY <2>1
<1>2. \A i \in Curated : ~IsOwn(i.code)
  BY InstitutionsAssumption DEF IsOwn
<1>. QED  BY <1>1, <1>2 DEF OwnCode, IsOwn, NoCode, Codes

LEMMA SameName ==
  ASSUME OneName, NEW i \in ProviderRows, NEW j \in ProviderRows, i.code = j.code
  PROVE  i.name = j.name
<1>1. PICK d \in Published : Coded(d.provider) /\ i.code = OwnCode(d.provider) /\ i.name = d.name
  BY RowFields
<1>2. PICK e \in Published : Coded(e.provider) /\ j.code = OwnCode(e.provider) /\ j.name = e.name
  BY RowFields
<1>3. d.provider = e.provider
  BY <1>1, <1>2, OwnCodes
<1>. QED  BY <1>1, <1>2, <1>3 DEF OneName

LEMMA NamedCodes ==
  ASSUME NEW k \in Seq(ProviderRows), NEW name, NEW c \in CodeOfName(k, name)
  PROVE  \/ \E i \in Curated : c = i.code
         \/ \E n \in 1 .. Len(k) : k[n].code = c /\ k[n].name = name
<1>. DEFINE named == {n \in 1 .. Len(k) : k[n].name = name}
<1>1. CASE TableAlias(name) # {}
  BY <1>1 DEF CodeOfName, TableAlias
<1>2. CASE TableAlias(name) = {}
  <2>1. named # {} /\ c = k[Min(named)].code
    BY <1>2 DEF CodeOfName
  <2>2. named \subseteq Nat
    OBVIOUS
  <2>3. Min(named) \in named
    BY <2>1, <2>2, LeastNat
  <2>. QED  BY <2>1, <2>3
<1>. QED  BY <1>1, <1>2

\* Whatever is resolved: nobody, one of the table, or a row of the registry that
\* has the record's own code, or the name of a record without one.
LEMMA ResolvedCode ==
  ASSUME NEW k \in Seq(ProviderRows), NEW d \in Published, NEW hint,
         NEW r \in Resolve(k, d.name, hint, d.provider)
  PROVE  /\ r.code \in Codes
         /\ IsOwn(r.code) =>
              \E n \in 1 .. Len(k) :
                /\ k[n].code = r.code
                /\ IF Coded(d.provider) THEN r.code = OwnCode(d.provider) ELSE k[n].name = d.name
<1>0. \A n \in 1 .. Len(k) : k[n] \in ProviderRows
  OBVIOUS
<1>1. CASE Coded(d.provider) /\ Knows(k, OwnCode(d.provider)) /\ r.code = OwnCode(d.provider)
  BY <1>0, <1>1, RowCodes DEF Knows
<1>2. CASE r.code = NoCode
  BY <1>2, OwnCodes
<1>3. CASE r.code \in ByName(k, d.name, d.provider)
  <2>1. /\ r.code \in CodeOfName(k, d.name)
        /\ IsOwn(r.code) /\ Coded(d.provider) => r.code = OwnCode(d.provider)
    BY <1>3 DEF ByName
  <2>2. CASE \E i \in Curated : r.code = i.code
    BY <2>2, OwnCodes
  <2>3. CASE \E n \in 1 .. Len(k) : k[n].code = r.code /\ k[n].name = d.name
    BY <1>0, <2>1, <2>3, RowCodes
  <2>. QED  BY <2>1, <2>2, <2>3, NamedCodes
<1>4. CASE r \in ByParts(d.name, hint)
  <2>1. PoolOf(d.name) \subseteq Curated /\ SidoLevel(d.name) \subseteq Curated
    BY DEF PoolOf, SidoLevel
  <2>2. r.code = NoCode \/ \E i \in Curated : r.code = i.code
    BY <1>4, <2>1 DEF ByParts, Fuzzy, Resolution, Unresolved, Ambiguous
  <2>. QED  BY <2>2, OwnCodes
<1>. QED  BY <1>1, <1>2, <1>3, <1>4 DEF Resolve, Resolution, Unresolved

LEMMA InstTypes ==
  ASSUME InstitutionsTypeOK, NEW w \in Process
  PROVE  /\ known[w] \in Seq(ProviderRows) /\ inserted[w] \subseteq ProviderRows
         /\ InTable(w) \subseteq ProviderRows
         /\ \A x \in written[w] : x.doc \in Published /\ x.code \in Codes
         /\ todo[w] \subseteq Published /\ aborts \in Nat
BY InstitutionsAssumption DEF InstitutionsTypeOK, InTable

\* What a process knows when it resolves a name: what it knew, and what it reads.
LEMMA RegistryRight ==
  ASSUME InstInv, NEW w \in Process, NEW d \in Published
  PROVE  /\ Registry(w, d) \in Seq(ProviderRows)
         /\ aborts = 0 => \A n \in 1 .. Len(Registry(w, d)) : Registry(w, d)[n] \in InTable(w)
<1>1. /\ known[w] \in Seq(ProviderRows) /\ InTable(w) \subseteq ProviderRows
      /\ aborts = 0 => \A n \in 1 .. Len(known[w]) : known[w][n] \in InTable(w)
  BY InstTypes DEF InstInv, StoredRight, KnownIsStored
<1>2. CASE Registry(w, d) = known[w]
  BY <1>1, <1>2
<1>3. CASE /\ LoadedByName(w, d) # {}
           /\ Registry(w, d) = Append(known[w], CHOOSE i \in LoadedByName(w, d) : TRUE)
  <2>1. PICK row \in LoadedByName(w, d) : Registry(w, d) = Append(known[w], row)
    BY <1>3
  <2>2. row \in InTable(w)
    BY <2>1 DEF LoadedByName
  <2>3. \A n \in 1 .. Len(Append(known[w], row)) :
          Append(known[w], row)[n] = row \/ \E m \in 1 .. Len(known[w]) : Append(known[w], row)[n] = known[w][m]
    BY <1>1, <2>2
  <2>. QED  BY <1>1, <2>1, <2>2, <2>3
<1>. QED  BY <1>2, <1>3 DEF Registry

LEMMA RowFor ==
  ASSUME InstInv, NEW w \in Process, NEW d \in Published, Coded(d.provider)
  PROVE  /\ ProviderRow(w, d) \in ProviderRows
         /\ ProviderRow(w, d).code = OwnCode(d.provider)
         /\ \/ ProviderRow(w, d) \in InTable(w)
            \/ /\ ProviderRow(w, d).name = d.name
               /\ \A i \in InTable(w) : i.code # OwnCode(d.provider)
<1>. DEFINE stored == {i \in InTable(w) : i.code = OwnCode(d.provider)}
<1>1. InTable(w) \subseteq ProviderRows
  BY InstTypes DEF InstInv
<1>2. CASE stored = {}
  <2>1. ProviderRow(w, d) = [code |-> OwnCode(d.provider), name |-> d.name]
    BY <1>2 DEF ProviderRow
  <2>. QED  BY <1>2, <2>1 DEF ProviderRows
<1>3. CASE stored # {}
  <2>1. PICK i \in stored : ProviderRow(w, d) = i
    BY <1>3 DEF ProviderRow
  <2>. QED  BY <1>1, <2>1
<1>. QED  BY <1>2, <1>3

\* A right row stays right where rows are added and nobody starts to trust more.
LEMMA StaysFiled ==
  ASSUME NEW rows, NEW more, rows \subseteq more, NEW d, NEW code,
         MayBeFiled(rows, d, code), aborts' = 0 => aborts = 0
  PROVE  MayBeFiled(more, d, code)'
<1>1. Trusted' => Trusted
  BY DEF Trusted, OneName
<1>. QED  BY <1>1 DEF MayBeFiled

\* A transaction that is gone leaves everybody else's rows as they were.
LEMMA RollBackKeeps ==
  ASSUME InstInv, NEW w \in Process, RollBackIngest(w), UNCHANGED <<table, filed>>,
         known' \in [Process -> Seq(ProviderRows)], aborts' \in 0 .. MaxAborts, aborts' # 0
  PROVE  InstInv'
<1>1. /\ inserted' \in [Process -> SUBSET ProviderRows] /\ inserted'[w] = {}
      /\ \A v \in Process \ {w} : inserted'[v] = inserted[v]
      /\ written' \in [Process -> SUBSET [doc : Published, code : Codes]] /\ written'[w] = {}
      /\ \A v \in Process \ {w} : written'[v] = written[v]
      /\ todo' \in [Process -> SUBSET Published]
  BY DEF RollBackIngest, InstInv, InstitutionsTypeOK
<1>2. InstitutionsTypeOK'
  BY <1>1 DEF InstInv, InstitutionsTypeOK
<1>3. InTable(w)' = table /\ \A v \in Process \ {w} : InTable(v)' = InTable(v)
  BY <1>1 DEF InTable
<1>4. OneRow'
  <2>1. OneRow /\ \A i, j \in table : i.code = j.code => i = j
    BY DEF InstInv
  <2>2. ASSUME NEW v \in Process  PROVE \A i, j \in InTable(v)' : i.code = j.code => i = j
    <3>1. InTable(v)' = table \/ InTable(v)' = InTable(v)
      BY <1>3
    <3>. QED  BY <2>1, <3>1 DEF OneRow
  <2>3. ASSUME NEW v \in Process, NEW u \in Process \ {v},
               NEW i \in inserted'[u], NEW j \in inserted'[v]
        PROVE  i.code # j.code
    <3>1. i \in inserted[u] /\ j \in inserted[v]
      BY <1>1, <2>3
    <3>. QED  BY <2>1, <3>1 DEF OneRow
  <2>. QED  BY <2>2, <2>3 DEF OneRow
<1>5. NoLocals'
  BY <1>3 DEF InstInv, NoLocals
<1>6. WrittenRight'
  <2>. SUFFICES ASSUME NEW v \in Process, NEW x \in written'[v]
                PROVE  MayBeFiled(InTable(v), x.doc, x.code)'
    BY DEF WrittenRight
  <2>1. v # w /\ x \in written[v] /\ InTable(v)' = InTable(v)
    BY <1>1, <1>3
  <2>2. MayBeFiled(InTable(v), x.doc, x.code)
    BY <2>1 DEF InstInv, WrittenRight
  <2>. QED  BY <2>1, <2>2, StaysFiled DEF MayBeFiled, Trusted, OneName
<1>7. FiledSoFar'
  BY StaysFiled DEF InstInv, FiledSoFar, MayBeFiled, Trusted, OneName
<1>8. StoredRight'
  BY DEF StoredRight
<1>. QED  BY <1>2, <1>4, <1>5, <1>6, <1>7, <1>8 DEF InstInv

\* A record is filed under an institution of its own.
LEMMA FileNewKeeps ==
  ASSUME InstInv, NEW w \in Process, NEW d \in Published, NEW left \in SUBSET Published,
         NEW method, IsNew(d, method), ~IsLocked(w, d), UNCHANGED <<table, filed, aborts>>,
         inserted' = [inserted EXCEPT ![w] = @ \cup ({ProviderRow(w, d)} \ table)],
         known' = [known EXCEPT ![w] = Append(Registry(w, d), ProviderRow(w, d))],
         Write(w, d, OwnCode(d.provider)), todo' = [todo EXCEPT ![w] = left]
  PROVE  InstInv'
<1>. DEFINE row == ProviderRow(w, d)
            added == {row} \ table
<1>0. InstitutionsTypeOK /\ Coded(d.provider) /\ ~LooksLikeLocalGovernment(d.name) /\ d.provider \in CodeIds
  BY DEF InstInv, IsNew, Coded, CodeIds
<1>1. /\ row \in ProviderRows /\ row.code = OwnCode(d.provider)
      /\ \/ row \in InTable(w)
         \/ row.name = d.name /\ \A i \in InTable(w) : i.code # OwnCode(d.provider)
  BY <1>0, RowFor
<1>. HIDE DEF row
<1>2. /\ inserted' \in [Process -> SUBSET ProviderRows] /\ inserted'[w] = inserted[w] \cup added
      /\ \A v \in Process \ {w} : inserted'[v] = inserted[v]
  BY <1>0, <1>1 DEF InstitutionsTypeOK, row
<1>3. InTable(w)' = InTable(w) \cup {row} /\ \A v \in Process \ {w} : InTable(v)' = InTable(v)
  BY <1>2 DEF InTable
<1>4. /\ written' \in [Process -> SUBSET [doc : Published, code : Codes]]
      /\ \A v \in Process \ {w} : written'[v] = written[v]
      /\ \A x \in written'[w] : x \in written[w] \/ x = [doc |-> d, code |-> OwnCode(d.provider)]
  BY <1>0, OwnCodes DEF Write, InstitutionsTypeOK
<1>5. known' \in [Process -> Seq(ProviderRows)] /\ todo' \in [Process -> SUBSET Published]
  <2>1. Append(Registry(w, d), row) \in Seq(ProviderRows)
    BY <1>1, RegistryRight
  <2>. QED  BY <1>0, <2>1 DEF InstitutionsTypeOK, row
<1>6. InstitutionsTypeOK'
  BY <1>0, <1>2, <1>4, <1>5 DEF InstitutionsTypeOK
<1>7. OneRow'
  <2>1. OneRow
    BY DEF InstInv
  <2>2. ASSUME NEW v \in Process  PROVE \A i, j \in InTable(v)' : i.code = j.code => i = j
    <3>1. CASE v # w
      BY <1>3, <2>1, <3>1 DEF OneRow
    <3>2. CASE v = w /\ row \in InTable(w)
      <4>1. InTable(v)' = InTable(w)
        BY <1>3, <3>2
      <4>. QED  BY <2>1, <4>1 DEF OneRow
    <3>3. CASE v = w /\ \A i \in InTable(w) : i.code # OwnCode(d.provider)
      <4>1. InTable(v)' = InTable(w) \cup {row}
        BY <1>3, <3>3
      <4>. QED  BY <1>1, <2>1, <3>3, <4>1 DEF OneRow
    <3>. QED  BY <1>1, <3>1, <3>2, <3>3
  <2>3. ASSUME NEW v \in Process \ {w}, NEW i \in inserted[v]  PROVE i.code # row.code
    BY <1>1, <2>3 DEF IsLocked
  <2>4. ASSUME NEW v \in Process, NEW u \in Process \ {v}, NEW i \in inserted'[u], NEW j \in inserted'[v]
        PROVE  i.code # j.code
    <3>1. u # w => i \in inserted[u]
      BY <1>2
    <3>2. v # w => j \in inserted[v]
      BY <1>2
    <3>3. u = w => i \in inserted[u] \/ i = row
      BY <1>2
    <3>4. v = w => j \in inserted[v] \/ j = row
      BY <1>2
    <3>5. CASE i \in inserted[u] /\ j \in inserted[v]
      BY <2>1, <3>5 DEF OneRow
    <3>6. CASE u = w /\ i = row /\ j \in inserted[v]
      BY <2>3, <3>6
    <3>7. CASE v = w /\ j = row /\ i \in inserted[u]
      BY <2>3, <3>7
    <3>. QED  BY <3>1, <3>2, <3>3, <3>4, <3>5, <3>6, <3>7
  <2>. QED  BY <2>2, <2>4 DEF OneRow
<1>8. NoLocals'
  <2>1. \A v \in Process : \A i \in InTable(v) : ~LooksLikeLocalGovernment(i.name)
    BY DEF InstInv, NoLocals
  <2>2. ~LooksLikeLocalGovernment(row.name)
    BY <1>0, <1>1, <2>1
  <2>3. ASSUME NEW v \in Process, NEW i \in InTable(v)'  PROVE ~LooksLikeLocalGovernment(i.name)
    <3>1. i \in InTable(v) \/ i = row
      BY <1>3
    <3>. QED  BY <2>1, <2>2, <3>1
  <2>. QED  BY <2>3 DEF NoLocals
<1>9. WrittenRight'
  <2>. SUFFICES ASSUME NEW v \in Process, NEW x \in written'[v]
                PROVE  MayBeFiled(InTable(v), x.doc, x.code)'
    BY DEF WrittenRight
  <2>1. InTable(v) \subseteq InTable(v)'
    BY <1>3
  <2>2. CASE x \in written[v]
    <3>1. MayBeFiled(InTable(v), x.doc, x.code)
      BY <2>2 DEF InstInv, WrittenRight
    <3>. QED  BY <2>1, <3>1, StaysFiled DEF MayBeFiled, Trusted, OneName
  <2>3. CASE x = [doc |-> d, code |-> OwnCode(d.provider)]
    <3>1. x.doc = d /\ x.code = OwnCode(d.provider)
      BY <2>3
    <3>. QED  BY <1>0, <3>1 DEF MayBeFiled
  <2>. QED  BY <1>4, <2>2, <2>3
<1>10. FiledSoFar'
  BY StaysFiled DEF InstInv, FiledSoFar, MayBeFiled, Trusted, OneName
<1>11. StoredRight'
  <2>. SUFFICES ASSUME aborts = 0, NEW v \in Process, NEW n \in 1 .. Len(known'[v])
                PROVE  known'[v][n] \in InTable(v)'
    BY DEF StoredRight, KnownIsStored
  <2>1. CASE v # w
    <3>1. known'[v] = known[v] /\ InTable(v)' = InTable(v)
      BY <1>0, <1>3, <2>1 DEF InstitutionsTypeOK
    <3>. QED  BY <3>1 DEF InstInv, StoredRight, KnownIsStored
  <2>2. CASE v = w
    <3>1. known'[v] = Append(Registry(w, d), row)
      BY <1>0, <2>2 DEF InstitutionsTypeOK, row
    <3>2. /\ Registry(w, d) \in Seq(ProviderRows)
          /\ \A m \in 1 .. Len(Registry(w, d)) : Registry(w, d)[m] \in InTable(w)
      BY RegistryRight
    <3>3. known'[v][n] = row \/ \E m \in 1 .. Len(Registry(w, d)) : known'[v][n] = Registry(w, d)[m]
      BY <1>1, <3>1, <3>2
    <3>. QED  BY <1>3, <2>2, <3>2, <3>3
  <2>. QED  BY <2>1, <2>2
<1>12. UNCHANGED table
  OBVIOUS
<1>. QED  BY <1>6, <1>7, <1>8, <1>9, <1>10, <1>11, <1>12 DEF InstInv

\* A record is filed under what its name or its code was resolved to.
LEMMA FileKnownKeeps ==
  ASSUME InstInv, NEW w \in Process, NEW d \in Published, NEW left \in SUBSET Published,
         NEW r \in Resolve(Registry(w, d), d.name, "none", d.provider), IsReal(w, r.code),
         UNCHANGED <<table, filed, aborts, inserted>>,
         known' = [known EXCEPT ![w] = Registry(w, d)],
         Write(w, d, r.code), todo' = [todo EXCEPT ![w] = left]
  PROVE  InstInv'
<1>0. InstitutionsTypeOK /\ Registry(w, d) \in Seq(ProviderRows) /\ InTable(w) \subseteq ProviderRows
  BY RegistryRight, InstTypes DEF InstInv
<1>1. /\ r.code \in Codes
      /\ IsOwn(r.code) =>
           \E n \in 1 .. Len(Registry(w, d)) :
             /\ Registry(w, d)[n].code = r.code
             /\ IF Coded(d.provider) THEN r.code = OwnCode(d.provider) ELSE Registry(w, d)[n].name = d.name
  <2>1. PICK k \in Seq(ProviderRows) : k = Registry(w, d)
    BY <1>0
  <2>2. r \in Resolve(k, d.name, "none", d.provider)
    BY <2>1
  <2>3. /\ r.code \in Codes
        /\ IsOwn(r.code) =>
             \E n \in 1 .. Len(k) :
               /\ k[n].code = r.code
               /\ IF Coded(d.provider) THEN r.code = OwnCode(d.provider) ELSE k[n].name = d.name
    BY <2>2, ResolvedCode, SMTT(60)
  <2>. QED  BY <2>1, <2>3, Zenon
<1>2. \A v \in Process : InTable(v)' = InTable(v)
  BY DEF InTable
<1>3. /\ written' \in [Process -> SUBSET [doc : Published, code : Codes]]
      /\ \A v \in Process \ {w} : written'[v] = written[v]
      /\ \A x \in written'[w] : x \in written[w] \/ x = [doc |-> d, code |-> r.code]
  BY <1>0, <1>1 DEF Write, InstitutionsTypeOK
<1>4. InstitutionsTypeOK'
  BY <1>0, <1>3 DEF InstitutionsTypeOK
<1>5. MayBeFiled(InTable(w), d, r.code)
  <2>. SUFFICES ASSUME IsOwn(r.code), ~Coded(d.provider), Trusted
                PROVE  \E i \in InTable(w) : i.code = r.code /\ i.name = d.name
    BY <1>1 DEF MayBeFiled
  <2>1. PICK n \in 1 .. Len(Registry(w, d)) :
               Registry(w, d)[n].code = r.code /\ Registry(w, d)[n].name = d.name
    BY <1>1
  <2>2. CASE aborts = 0
    BY <2>1, <2>2, RegistryRight
  <2>3. CASE OneName
    <3>1. PICK i \in InTable(w) : i.code = r.code
      BY DEF IsReal
    <3>2. Registry(w, d)[n] \in ProviderRows
      BY <1>0
    <3>3. i.name = Registry(w, d)[n].name
      BY <1>0, <2>1, <2>3, <3>1, <3>2, SameName
    <3>. QED  BY <2>1, <3>1, <3>3
  <2>. QED  BY <2>2, <2>3 DEF Trusted
<1>6. OneRow' /\ NoLocals'
  BY <1>2 DEF InstInv, OneRow, NoLocals
<1>7. WrittenRight'
  <2>. SUFFICES ASSUME NEW v \in Process, NEW x \in written'[v]
                PROVE  MayBeFiled(InTable(v), x.doc, x.code)'
    BY DEF WrittenRight
  <2>1. MayBeFiled(InTable(v), x.doc, x.code)
    <3>1. CASE x \in written[v]
      BY <3>1 DEF InstInv, WrittenRight
    <3>2. CASE v = w /\ x = [doc |-> d, code |-> r.code]
      <4>1. x.doc = d /\ x.code = r.code
        BY <3>2
      <4>. QED  BY <1>5, <3>2, <4>1
    <3>. QED  BY <1>3, <3>1, <3>2
  <2>. QED  BY <1>2, <2>1, StaysFiled DEF MayBeFiled, Trusted, OneName
<1>8. FiledSoFar'
  BY StaysFiled DEF InstInv, FiledSoFar, MayBeFiled, Trusted, OneName
<1>9. StoredRight'
  <2>. SUFFICES ASSUME aborts = 0, NEW v \in Process, NEW n \in 1 .. Len(known'[v])
                PROVE  known'[v][n] \in InTable(v)'
    BY DEF StoredRight, KnownIsStored
  <2>1. CASE v # w
    <3>1. known'[v] = known[v]
      BY <1>0, <2>1 DEF InstitutionsTypeOK
    <3>. QED  BY <1>2, <3>1 DEF InstInv, StoredRight, KnownIsStored
  <2>2. CASE v = w
    <3>1. known'[v] = Registry(w, d)
      BY <1>0, <2>2 DEF InstitutionsTypeOK
    <3>. QED  BY <1>2, <2>2, <3>1, RegistryRight
  <2>. QED  BY <2>1, <2>2
<1>10. UNCHANGED table
  OBVIOUS
<1>. QED  BY <1>4, <1>6, <1>7, <1>8, <1>9, <1>10 DEF InstInv

\* The foreign key refuses a row: only where the process keeps what was rolled back.
LEMMA FileRefusedKeeps ==
  ASSUME InstInv, NEW w \in Process, NEW d \in Published,
         NEW r \in Resolve(Registry(w, d), d.name, "none", d.provider), ~IsReal(w, r.code),
         UNCHANGED <<table, filed, aborts>>,
         known' = [known EXCEPT ![w] = Registry(w, d)], RollBackIngest(w)
  PROVE  InstInv'
<1>1. InstitutionsTypeOK /\ Registry(w, d) \in Seq(ProviderRows)
  BY RegistryRight DEF InstInv
<1>2. PICK n \in 1 .. Len(Registry(w, d)) : Registry(w, d)[n].code = r.code
  BY <1>1, ResolvedCode DEF IsReal
<1>3. aborts # 0
  BY <1>2, RegistryRight DEF IsReal
<1>4. known' \in [Process -> Seq(ProviderRows)] /\ aborts' \in 0 .. MaxAborts
  BY <1>1 DEF InstitutionsTypeOK
<1>. QED  BY <1>3, <1>4, RollBackKeeps

LEMMA FileKeeps ==
  ASSUME InstInv, NEW w \in Process, NEW d \in Published, NEW left \in SUBSET Published, File(w, d, left)
  PROVE  InstInv'
<1>1. ~IsLocked(w, d) /\ UNCHANGED <<table, filed, aborts>>
  BY DEF File
<1>2. PICK r \in Resolve(Registry(w, d), d.name, "none", d.provider) :
       IF IsNew(d, r.method)
       THEN /\ inserted' = [inserted EXCEPT ![w] = @ \cup ({ProviderRow(w, d)} \ table)]
            /\ known' = [known EXCEPT ![w] = Append(Registry(w, d), ProviderRow(w, d))]
            /\ Write(w, d, OwnCode(d.provider)) /\ todo' = [todo EXCEPT ![w] = left]
       ELSE /\ known' = [known EXCEPT ![w] = Registry(w, d)]
            /\ IF IsReal(w, r.code)
               THEN /\ Write(w, d, r.code) /\ todo' = [todo EXCEPT ![w] = left]
                    /\ UNCHANGED inserted
               ELSE RollBackIngest(w)
  BY Zenon DEF File
<1>3. CASE IsNew(d, r.method)
  BY <1>1, <1>2, <1>3, FileNewKeeps
<1>4. CASE ~IsNew(d, r.method) /\ IsReal(w, r.code)
  BY <1>1, <1>2, <1>4, FileKnownKeeps
<1>5. CASE ~IsNew(d, r.method) /\ ~IsReal(w, r.code)
  BY <1>1, <1>2, <1>5, FileRefusedKeeps
<1>. QED  BY <1>3, <1>4, <1>5

LEMMA CommitIngestKeeps ==
  ASSUME InstInv, NEW w \in Process, CommitIngest(w)
  PROVE  InstInv'
<1>0. InstitutionsTypeOK
  BY DEF InstInv
<1>1. /\ table' = table \cup inserted[w] /\ UNCHANGED <<known, todo, aborts>>
      /\ inserted' \in [Process -> SUBSET ProviderRows] /\ inserted'[w] = {}
      /\ \A v \in Process \ {w} : inserted'[v] = inserted[v]
      /\ written' \in [Process -> SUBSET [doc : Published, code : Codes]] /\ written'[w] = {}
      /\ \A v \in Process \ {w} : written'[v] = written[v]
  BY <1>0 DEF CommitIngest, InTable, InstitutionsTypeOK
<1>2. \A v \in Process : InTable(v)' = IF v = w THEN InTable(w) ELSE InTable(v) \cup inserted[w]
  BY <1>1 DEF InTable
<1>3. \A d \in Published :
        \/ filed'[d] = filed[d]
        \/ \E x \in written[w] : x.doc = d /\ filed'[d] = x.code
  <2>. TAKE d \in Published
  <2>1. filed'[d] = IF \E x \in written[w] : x.doc = d THEN (CHOOSE x \in written[w] : x.doc = d).code
                    ELSE filed[d]
    BY DEF CommitIngest
  <2>. QED  BY <2>1
<1>4. InstitutionsTypeOK'
  <2>1. DOMAIN filed' = Published /\ filed' = [d \in Published |-> filed'[d]]
    BY DEF CommitIngest
  <2>2. \A d \in Published : filed'[d] \in Codes \cup {Unfiled}
    BY <1>0, <1>3, InstTypes DEF InstitutionsTypeOK
  <2>3. filed' \in [Published -> Codes \cup {Unfiled}]
    BY <2>1, <2>2
  <2>4. table' \subseteq ProviderRows
    BY <1>0, <1>1 DEF InstitutionsTypeOK
  <2>. QED  BY <1>0, <1>1, <2>3, <2>4 DEF InstitutionsTypeOK
<1>5. /\ \A i \in table' : ~LooksLikeLocalGovernment(i.name)
      /\ \A i, j \in table' : i.code = j.code => i = j
  <2>1. table' = InTable(w)
    BY <1>1 DEF InTable
  <2>. QED  BY <2>1 DEF InstInv, OneRow, NoLocals
<1>6. OneRow'
  <2>1. OneRow
    BY DEF InstInv
  <2>2. ASSUME NEW v \in Process, v # w, NEW i \in InTable(w), NEW j \in InTable(v), i.code = j.code
        PROVE  i = j
    <3>1. CASE i \in table
      BY <2>1, <2>2, <3>1 DEF OneRow, InTable
    <3>2. CASE j \in table
      BY <2>1, <2>2, <3>2 DEF OneRow, InTable
    <3>3. CASE i \in inserted[w] /\ j \in inserted[v]
      BY <2>1, <2>2, <3>3 DEF OneRow
    <3>. QED  BY <3>1, <3>2, <3>3 DEF InTable
  <2>3. ASSUME NEW v \in Process  PROVE \A i, j \in InTable(v)' : i.code = j.code => i = j
    <3>1. CASE v = w
      <4>1. InTable(v)' = InTable(v)
        BY <1>2, <3>1
      <4>. QED  BY <2>1, <4>1 DEF OneRow
    <3>2. CASE v # w
      <4>. SUFFICES ASSUME NEW i \in InTable(v)', NEW j \in InTable(v)', i.code = j.code  PROVE i = j
        OBVIOUS
      <4>1. (i \in InTable(v) \/ i \in InTable(w)) /\ (j \in InTable(v) \/ j \in InTable(w))
        BY <1>2, <3>2 DEF InTable
      <4>2. CASE i \in InTable(v) /\ j \in InTable(v)
        BY <2>1, <4>2 DEF OneRow
      <4>3. CASE i \in InTable(w) /\ j \in InTable(w)
        BY <2>1, <4>3 DEF OneRow
      <4>. QED  BY <2>2, <3>2, <4>1, <4>2, <4>3
    <3>. QED  BY <3>1, <3>2
  <2>4. ASSUME NEW v \in Process, NEW u \in Process \ {v}, NEW i \in inserted'[u], NEW j \in inserted'[v]
        PROVE  i.code # j.code
    <3>1. i \in inserted[u] /\ j \in inserted[v]
      BY <1>1
    <3>. QED  BY <2>1, <3>1 DEF OneRow
  <2>. QED  BY <2>3, <2>4 DEF OneRow
<1>7. NoLocals'
  <2>1. ASSUME NEW v \in Process, NEW i \in InTable(v)'  PROVE i \in InTable(v) \/ i \in InTable(w)
    BY <1>2 DEF InTable
  <2>. QED  BY <2>1 DEF InstInv, NoLocals
<1>8. WrittenRight'
  <2>. SUFFICES ASSUME NEW v \in Process, NEW x \in written'[v]
                PROVE  MayBeFiled(InTable(v), x.doc, x.code)'
    BY DEF WrittenRight
  <2>1. x \in written[v] /\ InTable(v) \subseteq InTable(v)'
    BY <1>1, <1>2
  <2>2. MayBeFiled(InTable(v), x.doc, x.code)
    BY <2>1 DEF InstInv, WrittenRight
  <2>. QED  BY <1>1, <2>1, <2>2, StaysFiled DEF MayBeFiled, Trusted, OneName
<1>9. FiledSoFar'
  <2>. SUFFICES ASSUME NEW d \in Published  PROVE MayBeFiled(table, d, filed[d])'
    BY DEF FiledSoFar
  <2>1. table \subseteq table' /\ InTable(w) = table'
    BY <1>1 DEF InTable
  <2>2. MayBeFiled(table', d, filed'[d])
    <3>1. CASE filed'[d] = filed[d]
      BY <2>1, <3>1 DEF InstInv, FiledSoFar, MayBeFiled
    <3>2. CASE \E x \in written[w] : x.doc = d /\ filed'[d] = x.code
      BY <2>1, <3>2 DEF InstInv, WrittenRight
    <3>. QED  BY <1>3, <3>1, <3>2
  <2>. QED  BY <1>1, <2>2 DEF MayBeFiled, Trusted, OneName
<1>10. StoredRight'
  <2>1. \A v \in Process : InTable(v) \subseteq InTable(v)'
    BY <1>2
  <2>. QED  BY <1>1, <2>1 DEF InstInv, StoredRight, KnownIsStored
<1>. QED  BY <1>4, <1>5, <1>6, <1>7, <1>8, <1>9, <1>10 DEF InstInv

LEMMA InstInit == InstitutionsInit => InstInv
<1>. SUFFICES ASSUME InstitutionsInit  PROVE InstInv
  OBVIOUS
<1>1. InstitutionsTypeOK
  BY InstitutionsAssumption DEF InstitutionsInit, InstitutionsTypeOK
<1>2. \A w \in Process : InTable(w) = {} /\ Len(known[w]) = 0
  BY DEF InstitutionsInit, InTable
<1>3. FiledSoFar
  BY DEF InstitutionsInit, FiledSoFar, MayBeFiled, IsOwn, Unfiled
<1>4. OneRow /\ NoLocals /\ WrittenRight /\ StoredRight
  BY <1>2 DEF InstitutionsInit, OneRow, NoLocals, WrittenRight, StoredRight, KnownIsStored
<1>. QED  BY <1>1, <1>3, <1>4 DEF InstInv, InstitutionsInit

LEMMA InstStep == InstInv /\ [InstitutionsNext]_instVars => InstInv'
<1>. SUFFICES ASSUME InstInv, [InstitutionsNext]_instVars  PROVE InstInv'
  OBVIOUS
<1>0. InstitutionsTypeOK
  BY DEF InstInv
<1>1. ASSUME NEW w \in Process, AbortIngest(w)  PROVE InstInv'
  <2>1. aborts' \in 0 .. MaxAborts /\ aborts' # 0
    BY <1>0, <1>1, InstitutionsAssumption DEF AbortIngest, InstitutionsTypeOK
  <2>2. RollBackIngest(w) /\ UNCHANGED <<table, filed>> /\ known' \in [Process -> Seq(ProviderRows)]
    BY <1>0, <1>1 DEF AbortIngest, InstitutionsTypeOK
  <2>. QED  BY <2>1, <2>2, RollBackKeeps
<1>2. ASSUME NEW w \in Process, RestartIngest(w)  PROVE InstInv'
  <2>1. aborts' \in 0 .. MaxAborts /\ aborts' # 0
    BY <1>0, <1>2, InstitutionsAssumption DEF RestartIngest, InstitutionsTypeOK
  <2>2. RollBackIngest(w) /\ UNCHANGED <<table, filed>> /\ known' \in [Process -> Seq(ProviderRows)]
    BY <1>0, <1>2 DEF RestartIngest, InstitutionsTypeOK
  <2>. QED  BY <2>1, <2>2, RollBackKeeps
<1>3. ASSUME NEW w \in Process, StartReresolve(w)  PROVE InstInv'
  <2>1. UNCHANGED <<table, known, inserted, written, filed, aborts>> /\ todo' \in [Process -> SUBSET Published]
    BY <1>0, <1>3 DEF StartReresolve, InstitutionsTypeOK
  <2>2. InstitutionsTypeOK'
    BY <1>0, <2>1 DEF InstitutionsTypeOK
  <2>. QED  BY <2>1, <2>2 DEF InstInv, OneRow, NoLocals, WrittenRight, FiledSoFar, StoredRight,
              KnownIsStored, MayBeFiled, Trusted, OneName, InTable
<1>4. ASSUME NEW w \in Process, Reresolve(w)  PROVE InstInv'
  <2>1. PICK d \in todo[w] : File(w, d, todo[w] \ {d})
    BY <1>4 DEF Reresolve
  <2>2. d \in Published /\ todo[w] \ {d} \in SUBSET Published
    BY <1>0 DEF InstitutionsTypeOK
  <2>. QED  BY <2>1, <2>2, FileKeeps
<1>5. ASSUME NEW w \in Process, NEW d \in Published, Ingest(w, d)  PROVE InstInv'
  <2>1. File(w, d, {}) /\ {} \in SUBSET Published
    BY <1>5 DEF Ingest
  <2>. QED  BY <2>1, FileKeeps
<1>6. CASE UNCHANGED instVars
  BY <1>6 DEF instVars, InstInv, InstitutionsTypeOK, OneRow, NoLocals, WrittenRight, FiledSoFar, StoredRight,
     KnownIsStored, MayBeFiled, Trusted, OneName, InTable
<1>. QED  BY <1>1, <1>2, <1>3, <1>4, <1>5, <1>6, CommitIngestKeeps, Zenon DEF InstitutionsNext

\* What is stored and filed is right whatever processes ingest, fail, start again
\* and resolve again, in whatever order (pipeline/ingest.py).
THEOREM InstitutionsInvariant == InstitutionsSpec => []InstInv
BY InstInit, InstStep, PTL DEF InstitutionsSpec

\* The rows, the registries and the documents have their types (ingest.py).
THEOREM InstitutionsTypeCorrect == InstitutionsSpec => []InstitutionsTypeOK
<1>1. InstInv => InstitutionsTypeOK
  BY DEF InstInv
<1>. QED  BY <1>1, InstitutionsInvariant, PTL

\* A record is filed under its own code, or under a local government of the table,
\* or under a stored institution of its name: always while a provider has one name
\* for a code, and with several while no transaction was rolled back
\* (resolve_institution).
THEOREM FiledIsRight == InstitutionsSpec => [](Trusted => FiledRight)
<1>1. InstInv => (Trusted => FiledRight)
  BY DEF InstInv, FiledSoFar, MayBeFiled, FiledRight
<1>. QED  BY <1>1, InstitutionsInvariant, PTL

\* Only a rollback makes a registry hold what is not stored
\* (_store_provider_institution).
THEOREM RegistryIsStored == InstitutionsSpec => [](aborts = 0 => KnownIsStored)
<1>1. InstInv => (aborts = 0 => KnownIsStored)
  BY DEF InstInv, StoredRight
<1>. QED  BY <1>1, InstitutionsInvariant, PTL

-----------------------------------------------------------------------------
(* Names. *)

\* A word that is a province's name has that province in it.
WordsOf(name) == \A n \in 1 .. Len(name) : Has(name[n].alias) => name[n].holds = name[n].alias

LEMMA LeadingIsSaid ==
  ASSUME NEW Word, NEW name \in Seq(Word), WordsOf(name), Has(LeadingSido(name))
  PROVE  SidoIn(name) = LeadingSido(name)
<1>. DEFINE with == {n \in 1 .. Len(name) : Has(name[n].holds)}
<1>1. name # <<>> /\ LeadingSido(name) = name[1].alias /\ Len(name) \in Nat \ {0}
  BY DEF LeadingSido, Has
<1>2. name[1].holds = LeadingSido(name) /\ 1 \in with
  BY <1>1 DEF WordsOf
<1>3. with \subseteq Nat
  OBVIOUS
<1>4. Min(with) \in with /\ \A y \in with : Min(with) <= y
  BY <1>2, <1>3, LeastNat
<1>5. Min(with) = 1
  BY <1>2, <1>4
<1>. QED  BY <1>2, <1>5 DEF SidoIn

LEMMA SubsetsOfCurated ==
  ASSUME NEW S \in SUBSET Curated
  PROVE  IsFiniteSet(S) /\ Cardinality(S) \in Nat /\ (Cardinality(S) = 0 <=> S = {})
BY InstitutionsAssumption, FS_Subset, FS_CardinalityType, FS_EmptySet

\* Where nobody says which, a place that several have is ambiguous.
LEMMA HomonymsStay ==
  ASSUME NEW name, NEW hint, ~IsOwnBody(name), Has(ParseName(name).place), ~Has(SidoIn(name)), ~Has(hint),
         Cardinality({i \in Curated : i.place = ParseName(name).place /\ i.kind = WantedKind(name)}) >= 2
  PROVE  ByParts(name, hint) = {Ambiguous}
<1>. DEFINE all == {i \in Curated : i.place = ParseName(name).place}
            wanted == {i \in all : i.kind = WantedKind(name)}
            narrowed == {i \in wanted : i.sido = hint}
<1>1. wanted = {i \in Curated : i.place = ParseName(name).place /\ i.kind = WantedKind(name)}
  OBVIOUS
<1>2. wanted \in SUBSET Curated /\ narrowed \in SUBSET Curated
  OBVIOUS
<1>3. wanted # {} /\ Cardinality(wanted) # 1
  <2>1. Cardinality(wanted) >= 2
    BY <1>1
  <2>. HIDE DEF wanted
  <2>2. Cardinality(wanted) \in Nat /\ (Cardinality(wanted) = 0 <=> wanted = {})
    BY <1>2, SubsetsOfCurated
  <2>. QED  BY <2>1, <2>2
<1>4. PoolOf(name) = wanted
  BY <1>3 DEF PoolOf
<1>5. narrowed = {}
  BY InstitutionsAssumption DEF Has
<1>6. Cardinality(narrowed) # 1
  BY <1>2, <1>5, SubsetsOfCurated
<1>. QED  BY <1>3, <1>4, <1>6 DEF ByParts

\* What is found by its parts, and how.
LEMMA PartsFound ==
  ASSUME NEW name, NEW hint, NEW r \in ByParts(name, hint)
  PROVE  \/ r = Ambiguous \/ r = Unresolved
         \/ /\ ~IsOwnBody(name) /\ Has(ParseName(name).place)
            /\ \E i \in PoolOf(name) : r.code = i.code
         \/ /\ ~IsOwnBody(name) /\ IsSidoOnly(name) /\ ~Has(ParseName(name).place)
            /\ \E i \in SidoLevel(name) : r.code = i.code
         \/ /\ r.method = "fuzzy"
            /\ \E i \in Curated : ~FuzzyRefused(name, i) /\ r.code = i.code
<1>1. CASE Has(ParseName(name).place) /\ ~IsOwnBody(name) /\ PoolOf(name) # {}
  BY <1>1 DEF ByParts, Resolution
<1>2. CASE /\ ~(Has(ParseName(name).place) /\ ~IsOwnBody(name) /\ PoolOf(name) # {})
           /\ ~Has(ParseName(name).place) \/ IsOwnBody(name)
           /\ IsSidoOnly(name) /\ ~IsEducation(name) /\ ~IsOwnBody(name)
           /\ Cardinality(SidoLevel(name)) = 1
  BY <1>2 DEF ByParts, Resolution
<1>3. CASE r \in Fuzzy(name)
  BY <1>3 DEF Fuzzy, Resolution
<1>. QED  BY <1>1, <1>2, <1>3 DEF ByParts

\* No name is guessed, whatever its words, the table and what the fuzzy match
\* offers (InstitutionRegistry.resolve).
THEOREM NoNameIsGuessed ==
  ASSUME NEW Word, NEW name \in Seq(Word), name # <<>>, WordsOf(name), NEW hint
  PROVE  ResolvedRight(name, hint)
<1>. DEFINE place == ParseName(name).place
            sido == IF Has(SidoIn(name)) THEN SidoIn(name) ELSE hint
            Homonyms == {i \in Curated : i.place = place /\ i.kind = WantedKind(name)}
<1>. SUFFICES ASSUME NEW r \in Resolve(<<>>, name, hint, 0), TableAlias(name) = {}
              PROVE  /\ IsOwnBody(name) \/ ~Has(place) \/ Has(sido) \/ Cardinality(Homonyms) < 2 \/ r = Ambiguous
                     /\ \A i \in Curated : i.code = r.code =>
                          /\ IsOwnBody(name) => i.kind \notin {"local_gov", "council"}
                          /\ Has(LeadingSido(name)) => i.sido = LeadingSido(name)
                          /\ i.place = place \/ r.method = "fuzzy" \/ ~Has(place)
  BY DEF ResolvedRight
<1>1. CodeOfName(<<>>, name) = {}
  BY DEF CodeOfName
<1>2. r \in ByParts(name, hint)
  BY <1>1 DEF Resolve, ByName, Coded
<1>3. Has(LeadingSido(name)) => SidoIn(name) = LeadingSido(name)
  BY LeadingIsSaid
<1>4. \A i, j \in Curated : i.code = j.code => i = j
  BY InstitutionsAssumption
<1>5. IsOwnBody(name) \/ ~Has(place) \/ Has(sido) \/ Cardinality(Homonyms) < 2 \/ r = Ambiguous
  <2>. SUFFICES ASSUME ~IsOwnBody(name), Has(place), ~Has(sido), ~(Cardinality(Homonyms) < 2)  PROVE r = Ambiguous
    OBVIOUS
  <2>1. Homonyms \in SUBSET Curated
    OBVIOUS
  <2>2. Cardinality(Homonyms) >= 2
    BY <2>1, SubsetsOfCurated
  <2>3. ~Has(SidoIn(name)) /\ ~Has(hint)
    OBVIOUS
  <2>4. r \in ByParts(name, hint)
    BY <1>2
  <2>. QED  BY <2>2, <2>3, <2>4, HomonymsStay
<1>6. ASSUME NEW i \in Curated, i.code = r.code
      PROVE  /\ IsOwnBody(name) => i.kind \notin {"local_gov", "council"}
             /\ Has(LeadingSido(name)) => i.sido = LeadingSido(name)
             /\ i.place = place \/ r.method = "fuzzy" \/ ~Has(place)
  <2>1. CASE r = Ambiguous \/ r = Unresolved
    <3>1. r.code = NoCode
      BY <2>1 DEF Ambiguous, Unresolved, Resolution
    <3>. QED  BY <1>6, <3>1, InstitutionsAssumption DEF NoCode
  <2>2. CASE ~IsOwnBody(name) /\ Has(place) /\ \E j \in PoolOf(name) : r.code = j.code
    <3>1. PICK j \in PoolOf(name) : r.code = j.code
      BY <2>2
    <3>2. j \in Curated /\ j.place = place /\ (Has(SidoIn(name)) => j.sido = SidoIn(name))
      BY <3>1 DEF PoolOf
    <3>3. i = j
      BY <1>4, <1>6, <3>1, <3>2
    <3>. QED  BY <1>3, <2>2, <3>2, <3>3
  <2>3. CASE ~IsOwnBody(name) /\ IsSidoOnly(name) /\ ~Has(place) /\ \E j \in SidoLevel(name) : r.code = j.code
    <3>1. PICK j \in SidoLevel(name) : r.code = j.code
      BY <2>3
    <3>2. j \in Curated /\ j.sido = SidoIn(name)
      BY <3>1 DEF SidoLevel
    <3>3. i = j
      BY <1>4, <1>6, <3>1, <3>2
    <3>. QED  BY <1>3, <2>3, <3>2, <3>3
  <2>4. CASE r.method = "fuzzy" /\ \E j \in Curated : ~FuzzyRefused(name, j) /\ r.code = j.code
    <3>1. PICK j \in Curated : ~FuzzyRefused(name, j) /\ r.code = j.code
      BY <2>4
    <3>2. i = j
      BY <1>4, <1>6, <3>1
    <3>. QED  BY <2>4, <3>1, <3>2 DEF FuzzyRefused
  <2>. QED  BY <1>2, <2>1, <2>2, <2>3, <2>4, PartsFound
<1>. QED  BY <1>5, <1>6

-----------------------------------------------------------------------------
(***************************************************************************)
(* Scores.  Features are shares of a hundred; what is left is arithmetic.  *)
(***************************************************************************)
Share == 0 .. 100

LEMMA Quotient ==
  ASSUME NEW n \in Nat, NEW k \in Nat \ {0}
  PROVE  n \div k \in Nat /\ k * (n \div k) <= n
BY SMT

LEMMA ShareOf ==
  ASSUME NEW m \in Nat, NEW k \in Nat \ {0}, m <= k
  PROVE  (80 * m) \div k \in 0 .. 80
<1>. DEFINE q == (80 * m) \div k
<1>1. q \in Nat /\ k * q <= 80 * m
  BY Quotient
<1>2. 80 * m <= 80 * k
  OBVIOUS
<1>. HIDE DEF q
<1>3. ASSUME q >= 81  PROVE FALSE
  <2>1. PICK e \in Nat : q = 81 + e
    <3>1. q - 81 \in Nat /\ q = 81 + (q - 81)
      BY <1>1, <1>3
    <3>. QED  BY <3>1
  <2>2. k * (81 + e) = 81 * k + k * e /\ k * e \in Nat
    BY <2>1
  <2>. QED  BY <1>1, <1>2, <2>1, <2>2
<1>4. q \in 0 .. 80
  BY <1>1, <1>3
<1>. QED  BY <1>4 DEF q

LEMMA ShareLess ==
  ASSUME NEW d \in Nat
  PROVE  Greater(0, 100 - (100 * d) \div Steps) \in Share
<1>. DEFINE q == (100 * d) \div Steps
<1>1. q \in Nat
  BY Quotient, RankingAssumption
<1>. HIDE DEF q
<1>2. Greater(0, 100 - q) \in Share
  BY <1>1 DEF Greater, Share
<1>. QED  BY <1>2 DEF q

\* What a signal, an opportunity and its features are.
Sums == Nat \cup {Unknown}
IsSignal(s) == /\ s.at \in Nat /\ s.stage \in Nat /\ s.budget \in Sums /\ IsFiniteSet(s.terms)
IsCandidate(o) ==
  /\ o.last \in Nat /\ o.stage \in Nat /\ o.published \in Sums /\ o.budget \in Sums /\ IsFiniteSet(o.terms)
  /\ o.content \in Share /\ o.wording \in Share

LEMMA DistanceType == ASSUME NEW a \in Int, NEW b \in Int  PROVE Distance(a, b) \in Nat
BY DEF Distance

LEMMA Features ==
  ASSUME NEW s, NEW o, IsSignal(s), IsCandidate(o)
  PROVE  /\ TitleSimilarity(s, o) \in Share
         /\ CategoryMatch(s, o) \in Share
         /\ BudgetSimilarity(s.budget, o.budget) \in Share
         /\ TimelinePlausibility(s, o) \in Share
<1>1. TitleSimilarity(s, o) \in Share
  <2>. DEFINE m == Cardinality(s.terms \cap o.terms)
              k == Lesser(Cardinality(s.terms), Cardinality(o.terms))
  <2>1. /\ Cardinality(s.terms) \in Nat /\ Cardinality(o.terms) \in Nat /\ m \in Nat
        /\ m <= Cardinality(s.terms) /\ m <= Cardinality(o.terms)
    <3>1. s.terms \cap o.terms \subseteq s.terms /\ s.terms \cap o.terms \subseteq o.terms
      OBVIOUS
    <3>. QED  BY <3>1, FS_Subset, FS_CardinalityType DEF IsSignal, IsCandidate
  <2>2. k \in Nat /\ m <= k /\ o.wording \in 0 .. 100
    BY <2>1 DEF Lesser, IsCandidate, Share
  <2>. DEFINE q == (80 * m) \div k
  <2>3. k # 0 => q \in 0 .. 80
    BY <2>1, <2>2, ShareOf
  <2>4. TitleSimilarity(s, o) = IF k = 0 THEN o.wording ELSE Greater(o.wording, q)
    BY DEF TitleSimilarity
  <2>. HIDE DEF m, k, q
  <2>. QED  BY <2>2, <2>3, <2>4 DEF Greater, Share
<1>2. CategoryMatch(s, o) \in Share
  BY DEF CategoryMatch, Share
<1>3. BudgetSimilarity(s.budget, o.budget) \in Share
  <2>1. 50 \in Share
    BY DEF Share
  <2>2. Distance(s.budget, o.budget) \in Nat
    <3>1. s.budget \in Int /\ o.budget \in Int
      BY DEF IsSignal, IsCandidate, Sums, Unknown
    <3>. QED  BY <3>1, DistanceType
  <2>. QED  BY <2>1, <2>2, ShareLess DEF BudgetSimilarity
<1>4. TimelinePlausibility(s, o) \in Share
  BY DEF TimelinePlausibility, Greater, Share
<1>. QED  BY <1>1, <1>2, <1>3, <1>4

LEMMA ScoreType ==
  ASSUME NEW s, NEW o, IsSignal(s), IsCandidate(o)
  PROVE  ScoreCandidate(s, o) \in Int
<1>. DEFINE t == TitleSimilarity(s, o)
            c == CategoryMatch(s, o)
            b == BudgetSimilarity(s.budget, o.budget)
            p == TimelinePlausibility(s, o)
<1>1. t \in Int /\ c \in Int /\ b \in Int /\ p \in Int /\ o.content \in Int
  BY Features DEF IsCandidate, Share
<1>. HIDE DEF t, c, b, p
<1>2. ScoreCandidate(s, o) =
        35 * o.content + 30 * t + 15 * c + 10 * b + 10 * p - IF TermsConflict(s, o) THEN 1500 ELSE 0
  BY DEF ScoreCandidate, t, c, b, p
<1>. QED  BY <1>1, <1>2

\* The best of two.
LEMMA BestOfTwo ==
  ASSUME NEW s, NEW a, NEW b, IsSignal(s), IsCandidate(a), IsCandidate(b)
  PROVE  BestOf(s, <<a, b>>) = IF ScoreCandidate(s, a) >= ScoreCandidate(s, b) THEN 1 ELSE 2
<1>. DEFINE x == ScoreCandidate(s, a)
            y == ScoreCandidate(s, b)
            score(n) == ScoreCandidate(s, <<a, b>>[n])
            Best(n) == \A m \in DOMAIN <<a, b>> : score(n) > score(m) \/ (score(n) = score(m) /\ n <= m)
<1>1. x \in Int /\ y \in Int /\ score(1) = x /\ score(2) = y /\ DOMAIN <<a, b>> = {1, 2}
  BY ScoreType
<1>2. BestOf(s, <<a, b>>) = CHOOSE n \in DOMAIN <<a, b>> : Best(n)
  BY Zenon DEF BestOf
<1>. HIDE DEF x, y, score
<1>3. /\ Best(1) <=> x >= y
      /\ Best(2) <=> y > x
  BY <1>1
<1>. HIDE DEF Best
<1>4. BestOf(s, <<a, b>>) = IF x >= y THEN 1 ELSE 2
  BY <1>1, <1>2, <1>3
<1>. QED  BY <1>4 DEF x, y

\* What a score can reach without the titles, or without the contents.
LEMMA ScoreReach ==
  ASSUME NEW s, NEW o, IsSignal(s), IsCandidate(o)
  PROVE  /\ TermsConflict(s, o) /\ (o.content = 0 \/ TitleSimilarity(s, o) = 0) => ScoreCandidate(s, o) <= 5500
         /\ o.content = 0 /\ TitleSimilarity(s, o) = 0 => ScoreCandidate(s, o) <= 3500
<1>. DEFINE t == TitleSimilarity(s, o)
            c == CategoryMatch(s, o)
            b == BudgetSimilarity(s.budget, o.budget)
            p == TimelinePlausibility(s, o)
<1>1. t \in 0 .. 100 /\ c \in 0 .. 100 /\ b \in 0 .. 100 /\ p \in 0 .. 100 /\ o.content \in 0 .. 100
  BY Features DEF IsCandidate, Share
<1>2. ScoreCandidate(s, o) =
        35 * o.content + 30 * t + 15 * c + 10 * b + 10 * p - IF TermsConflict(s, o) THEN 1500 ELSE 0
  BY DEF ScoreCandidate
<1>. HIDE DEF c, b, p
<1>. QED  BY <1>1, <1>2

\* What is decided of two, whatever their order.
LEMMA DecideOfTwo ==
  ASSUME NEW s, NEW a, NEW b, IsSignal(s), IsCandidate(a), IsCandidate(b)
  PROVE  LET best == IF ScoreCandidate(s, a) >= ScoreCandidate(s, b) THEN 1 ELSE 2
             score == ScoreCandidate(s, <<a, b>>[best]) + IF Exclusive(s, <<a, b>>, best) THEN 2000 ELSE 0
         IN Decide(s, <<a, b>>) =
              IF score < LinkThreshold - ReviewBand THEN NoLink
              ELSE [to |-> best, tentative |-> score < LinkThreshold]
<1>1. <<a, b>> # <<>>
  OBVIOUS
<1>. QED  BY <1>1, BestOfTwo DEF Decide

\* Being the only one of its kind does not depend on the order.
LEMMA ExclusiveTurned ==
  ASSUME NEW s, NEW a, NEW b
  PROVE  /\ Exclusive(s, <<a, b>>, 1) <=> Exclusive(s, <<b, a>>, 2)
         /\ Exclusive(s, <<a, b>>, 2) <=> Exclusive(s, <<b, a>>, 1)
<1>. DEFINE Kin(o) == /\ o.category = s.category
                      /\ BudgetSimilarity(s.budget, o.budget) >= 85
                      /\ TimelinePlausibility(s, o) >= 90
<1>1. /\ DOMAIN <<a, b>> = {1, 2} /\ <<a, b>>[1] = a /\ <<a, b>>[2] = b
      /\ DOMAIN <<b, a>> = {1, 2} /\ <<b, a>>[1] = b /\ <<b, a>>[2] = a
  OBVIOUS
<1>2. /\ SameKind(s, <<a, b>>) = {n \in {1, 2} : Kin(<<a, b>>[n])}
      /\ SameKind(s, <<b, a>>) = {n \in {1, 2} : Kin(<<b, a>>[n])}
  BY <1>1, Zenon DEF SameKind
<1>. HIDE DEF Kin
<1>3. /\ SameKind(s, <<a, b>>) = {1} <=> Kin(a) /\ ~Kin(b)
      /\ SameKind(s, <<a, b>>) = {2} <=> Kin(b) /\ ~Kin(a)
      /\ SameKind(s, <<b, a>>) = {1} <=> Kin(b) /\ ~Kin(a)
      /\ SameKind(s, <<b, a>>) = {2} <=> Kin(a) /\ ~Kin(b)
  BY <1>1, <1>2
<1>. QED  BY <1>1, <1>3 DEF Exclusive

\* Above a threshold of 0.55 nothing is linked for sure that is alike in name or
\* in content only while the titles name different things, or in neither; and the
\* order of the candidates decides between equals only (decide of link.py).
THEOREM LinksEarned ==
  ASSUME NEW s, NEW a, NEW b, IsSignal(s), IsCandidate(a), IsCandidate(b), LinkThreshold > 5500
  PROVE  LinksAreEarned(s, a, b)
<1>. DEFINE x == ScoreCandidate(s, a)
            y == ScoreCandidate(s, b)
            best == IF x >= y THEN 1 ELSE 2
            score == ScoreCandidate(s, <<a, b>>[best]) + IF Exclusive(s, <<a, b>>, best) THEN 2000 ELSE 0
            decision == Decide(s, <<a, b>>)
            turned == Decide(s, <<b, a>>)
            o == <<a, b>>[decision.to]
<1>0. x \in Int /\ y \in Int /\ LinkThreshold \in Nat /\ ReviewBand \in Nat
  BY ScoreType, RankingAssumption
<1>1. decision = IF score < LinkThreshold - ReviewBand THEN NoLink
                 ELSE [to |-> best, tentative |-> score < LinkThreshold]
  BY DecideOfTwo
<1>2. ASSUME decision.to # 0, ~decision.tentative
      PROVE  /\ TermsConflict(s, o) => o.content > 0 /\ TitleSimilarity(s, o) > 0
             /\ o.content > 0 \/ TitleSimilarity(s, o) > 0
  <2>1. decision.to = best /\ ~(score < LinkThreshold)
    <3>. DEFINE low == score < LinkThreshold - ReviewBand
                unsure == score < LinkThreshold
    <3>1. decision = IF low THEN NoLink ELSE [to |-> best, tentative |-> unsure]
      BY <1>1
    <3>. HIDE DEF low, unsure, score, best, decision
    <3>2. ~low
      BY <1>2, <3>1 DEF NoLink
    <3>3. decision.to = best /\ decision.tentative = unsure
      BY <3>1, <3>2
    <3>4. ~unsure
      <4>1. ~decision.tentative
        BY <1>2
      <4>. QED  BY <3>3, <4>1
    <3>. QED  BY <3>3, <3>4 DEF unsure
  <2>2. IsCandidate(o) /\ o = <<a, b>>[best]
    BY <2>1
  <2>3. Exclusive(s, <<a, b>>, best) => ~TermsConflict(s, o)
    BY <2>2 DEF Exclusive
  <2>4. ScoreCandidate(s, o) \in Int /\ score = ScoreCandidate(s, o) + IF Exclusive(s, <<a, b>>, best) THEN 2000 ELSE 0
    BY <2>2, ScoreType
  <2>. DEFINE z == ScoreCandidate(s, o)
  <2>5. z + (IF Exclusive(s, <<a, b>>, best) THEN 2000 ELSE 0) > 5500 /\ z \in Int
    BY <1>0, <2>1, <2>4
  <2>6. /\ TermsConflict(s, o) /\ (o.content = 0 \/ TitleSimilarity(s, o) = 0) => z <= 5500
        /\ o.content = 0 /\ TitleSimilarity(s, o) = 0 => z <= 3500
    BY <2>2, ScoreReach
  <2>7. o.content \in 0 .. 100 /\ TitleSimilarity(s, o) \in 0 .. 100
    BY <2>2, Features DEF IsCandidate, Share
  <2>. HIDE DEF z, o, best, score, decision
  <2>8. TermsConflict(s, o) => o.content # 0 /\ TitleSimilarity(s, o) # 0
    BY <2>3, <2>5, <2>6
  <2>9. ~(o.content = 0 /\ TitleSimilarity(s, o) = 0)
    BY <2>5, <2>6
  <2>. QED  BY <2>7, <2>8, <2>9
<1>3. ASSUME x # y
      PROVE  /\ turned.tentative = decision.tentative
             /\ turned.to = IF decision.to = 0 THEN 0 ELSE 3 - decision.to
  <2>. DEFINE other == IF y >= x THEN 1 ELSE 2
              again == ScoreCandidate(s, <<b, a>>[other]) + IF Exclusive(s, <<b, a>>, other) THEN 2000 ELSE 0
  <2>1. turned = IF again < LinkThreshold - ReviewBand THEN NoLink
                 ELSE [to |-> other, tentative |-> again < LinkThreshold]
    BY DecideOfTwo
  <2>2. other = 3 - best /\ best \in {1, 2}
    BY <1>0, <1>3
  <2>3. <<b, a>>[other] = <<a, b>>[best]
    BY <2>2
  <2>4. Exclusive(s, <<b, a>>, other) <=> Exclusive(s, <<a, b>>, best)
    BY <2>2, ExclusiveTurned
  <2>5. again = score
    BY <2>3, <2>4
  <2>. HIDE DEF other, again, best, score, decision, turned
  <2>. QED  BY <1>1, <2>1, <2>2, <2>5 DEF NoLink
<1>. QED  BY <1>2, <1>3 DEF LinksAreEarned

-----------------------------------------------------------------------------
(* What an opportunity is worth to a customer. *)
IsProfile(c) == IsFiniteSet(c.keywords) /\ c.lo \in Sums /\ c.hi \in Sums
IsOffer(o) ==
  /\ o \in [content : Share, words : SUBSET STRING, category : STRING, region : Seq(STRING), budget : Sums,
            chance : Share, status : STRING, passed : BOOLEAN, days : Nat]

LEMMA Fits ==
  ASSUME NEW c, NEW o, IsProfile(c), IsOffer(o)
  PROVE  /\ CategoryFit(c, o) \in Share /\ RegionMatch(c.regions, o.region) \in Share
         /\ BudgetFit(o.budget, c.lo, c.hi) \in Share
         /\ Lesser(50 * Cardinality(c.keywords \cap o.words), 100) \in Share
         /\ Cardinality(c.keywords \cap o.words) >= 2 => Lesser(50 * Cardinality(c.keywords \cap o.words), 100) = 100
<1>1. CategoryFit(c, o) \in Share /\ RegionMatch(c.regions, o.region) \in Share
  BY DEF CategoryFit, RegionMatch, Share
<1>2. BudgetFit(o.budget, c.lo, c.hi) \in Share
  <2>. DEFINE edge == IF c.lo # Unknown /\ o.budget < c.lo THEN c.lo ELSE c.hi
  <2>1. edge \in Int /\ o.budget \in Int
    BY DEF IsProfile, IsOffer, Sums, Unknown
  <2>2. Distance(o.budget, edge) \in Nat
    BY <2>1, DistanceType
  <2>3. Greater(0, 100 - (100 * Distance(o.budget, edge)) \div Steps) \in Share /\ 50 \in Share /\ 100 \in Share
    BY <2>2, ShareLess DEF Share
  <2>. QED  BY <2>3 DEF BudgetFit
<1>3. Cardinality(c.keywords \cap o.words) \in Nat
  <2>1. c.keywords \cap o.words \subseteq c.keywords
    OBVIOUS
  <2>. QED  BY <2>1, FS_Subset, FS_CardinalityType DEF IsProfile
<1>4. \A n \in Nat : Lesser(50 * n, 100) \in Share /\ (n >= 2 => Lesser(50 * n, 100) = 100)
  BY DEF Lesser, Share
<1>. QED  BY <1>1, <1>2, <1>3, <1>4

LEMMA LeadTimes ==
  ASSUME NEW o, IsOffer(o)
  PROVE  LeadTimeValue(o) \in Share
<1>1. o.days \in Nat /\ o.passed \in BOOLEAN
  BY DEF IsOffer
<1>2. CASE o.status = "bid_open" \/ o.passed
  BY <1>1, <1>2 DEF LeadTimeValue, Share
<1>3. CASE o.status # "bid_open" /\ ~o.passed
  <2>1. LeadTimeValue(o) = IF o.days = 0 THEN 75
         ELSE IF o.days <= 60 THEN 70 + o.days \div 2
         ELSE IF o.days <= 270 THEN 100
         ELSE Greater(35, 100 - (o.days - 270) \div 4)
    BY <1>3 DEF LeadTimeValue
  <2>2. o.days <= 60 => o.days \div 2 \in 0 .. 30
    BY <1>1
  <2>3. o.days > 270 => (o.days - 270) \div 4 \in Nat
    BY <1>1
  <2>. QED  BY <1>1, <2>1, <2>2, <2>3 DEF Greater, Share
<1>. QED  BY <1>1, <1>2, <1>3

LEMMA SumOf ==
  ASSUME NEW c, NEW o, IsProfile(c), IsOffer(o)
  PROVE  /\ WeightedSum(c, o) \in 0 .. 10000
         /\ Cardinality(c.keywords \cap o.words) >= 2 => WeightedSum(c, o) >= 2200
<1>. DEFINE w == Lesser(50 * Cardinality(c.keywords \cap o.words), 100)
            g == CategoryFit(c, o)
            r == RegionMatch(c.regions, o.region)
            b == BudgetFit(o.budget, c.lo, c.hi)
            t == LeadTimeValue(o)
<1>1. /\ w \in 0 .. 100 /\ g \in 0 .. 100 /\ r \in 0 .. 100 /\ b \in 0 .. 100 /\ t \in 0 .. 100
      /\ o.content \in 0 .. 100 /\ o.chance \in 0 .. 100
      /\ Cardinality(c.keywords \cap o.words) >= 2 => w = 100
  BY Fits, LeadTimes DEF IsOffer, Share
<1>2. WeightedSum(c, o) = 26 * o.content + 22 * w + 12 * g + 8 * r + 8 * b + 14 * o.chance + 10 * t
  BY DEF WeightedSum
<1>. DEFINE x == o.content
            y == o.chance
            many == Cardinality(c.keywords \cap o.words) >= 2
            sum == WeightedSum(c, o)
<1>3. /\ w \in 0 .. 100 /\ g \in 0 .. 100 /\ r \in 0 .. 100 /\ b \in 0 .. 100 /\ t \in 0 .. 100
      /\ x \in 0 .. 100 /\ y \in 0 .. 100 /\ (many => w = 100)
      /\ sum = 26 * x + 22 * w + 12 * g + 8 * r + 8 * b + 14 * y + 10 * t
  BY <1>1, <1>2
<1>. HIDE DEF w, g, r, b, t, x, y, many, sum
<1>4. sum \in 0 .. 10000 /\ (many => sum >= 2200)
  BY <1>3
<1>. QED  BY <1>4 DEF sum, many

\* A score, in tenthousandths, and a fifth of one.
Whole(n) == n \in 0 .. 10000
AtMostAFifth(n) == n <= 2000

LEMMA Fifth ==
  ASSUME NEW n, Whole(n)
  PROVE  Whole(n \div 5) /\ AtMostAFifth(n \div 5)
<1>1. n \in Int /\ 0 <= n /\ n <= 10000
  BY DEF Whole
<1>2. n \div 5 \in Int /\ 0 <= n \div 5 /\ n \div 5 <= 2000
  BY <1>1
<1>. QED  BY <1>2 DEF Whole, AtMostAFifth

LEMMA WholeSum ==
  ASSUME NEW c, NEW o, IsProfile(c), IsOffer(o)
  PROVE  Whole(WeightedSum(c, o))
<1>1. /\ WeightedSum(c, o) \in 0 .. 10000
      /\ Cardinality(c.keywords \cap o.words) >= 2 => WeightedSum(c, o) >= 2200
  BY SumOf
<1>. QED  BY <1>1 DEF Whole

LEMMA ScoreOf ==
  ASSUME NEW c, NEW o, IsProfile(c), IsOffer(o)
  PROVE  /\ Whole(ScoreOpportunity(c, o))
         /\ c.excluded \cap o.words # {} => AtMostAFifth(ScoreOpportunity(c, o))
<1>1. Whole(WeightedSum(c, o))
  BY WholeSum, Zenon
<1>2. Whole(WeightedSum(c, o) \div 5) /\ AtMostAFifth(WeightedSum(c, o) \div 5)
  BY <1>1, Fifth, Zenon
<1>. QED  BY <1>1, <1>2, Zenon DEF ScoreOpportunity

\* Whatever the profile and the offers: a score is a share of one, two words of the
\* customer's outweigh anything excluded, and an early opportunity outweighs the
\* same one when it is out (score_opportunity of recommend.py).
THEOREM EarlyWorth ==
  ASSUME NEW c, NEW o, NEW p, IsProfile(c), IsOffer(o), IsOffer(p)
  PROVE  EarlyIsWorth(c, o, p)
<1>1. ScoreOpportunity(c, o) \in 0 .. 10000
  BY ScoreOf DEF Whole
<1>2. ASSUME c.excluded \cap o.words # {}, c.excluded \cap p.words = {}, Cardinality(c.keywords \cap p.words) >= 2
      PROVE  ScoreOpportunity(c, o) < ScoreOpportunity(c, p)
  <2>1. ScoreOpportunity(c, p) = WeightedSum(c, p) /\ WeightedSum(c, p) \in 0 .. 10000 /\ WeightedSum(c, p) >= 2200
    BY <1>2, SumOf DEF ScoreOpportunity
  <2>2. ScoreOpportunity(c, o) <= 2000 /\ ScoreOpportunity(c, o) \in 0 .. 10000
    BY <1>2, ScoreOf DEF Whole, AtMostAFifth
  <2>. DEFINE x == ScoreOpportunity(c, o)
              y == ScoreOpportunity(c, p)
  <2>3. x <= 2000 /\ x \in 0 .. 10000 /\ y \in 0 .. 10000 /\ y >= 2200
    BY <2>1, <2>2
  <2>. HIDE DEF x, y
  <2>4. x < y
    BY <2>3
  <2>. QED  BY <2>4 DEF x, y
<1>. DEFINE out == [o EXCEPT !.status = "bid_open", !.chance = 100]
            early == [o EXCEPT !.status = "open", !.passed = FALSE]
<1>3. ASSUME o.days \in 60 .. 270, o.chance >= 75, c.excluded = {}
      PROVE  ScoreOpportunity(c, early) > ScoreOpportunity(c, out)
  <2>. DEFINE w == Lesser(50 * Cardinality(c.keywords \cap o.words), 100)
              g == CategoryFit(c, o)
              r == RegionMatch(c.regions, o.region)
              b == BudgetFit(o.budget, c.lo, c.hi)
  <2>1. /\ out.content = o.content /\ out.words = o.words /\ out.category = o.category /\ out.region = o.region
        /\ out.budget = o.budget /\ out.chance = 100 /\ out.status = "bid_open"
        /\ early.content = o.content /\ early.words = o.words /\ early.category = o.category
        /\ early.region = o.region /\ early.budget = o.budget /\ early.chance = o.chance
        /\ early.status = "open" /\ early.passed = FALSE /\ early.days = o.days
    BY DEF IsOffer
  <2>2. /\ w \in 0 .. 100 /\ g \in 0 .. 100 /\ r \in 0 .. 100 /\ b \in 0 .. 100
        /\ o.content \in 0 .. 100 /\ o.chance \in 0 .. 100
    BY Fits DEF IsOffer, Share
  <2>3. LeadTimeValue(out) = 60
    BY <2>1 DEF LeadTimeValue
  <2>4. LeadTimeValue(early) = 100
    <3>1. LeadTimeValue(early) = IF o.days = 0 THEN 75
           ELSE IF o.days <= 60 THEN 70 + o.days \div 2
           ELSE IF o.days <= 270 THEN 100
           ELSE Greater(35, 100 - (o.days - 270) \div 4)
      BY <2>1 DEF LeadTimeValue
    <3>2. 60 \div 2 = 30
      OBVIOUS
    <3>. QED  BY <1>3, <3>1, <3>2
  <2>. HIDE DEF out, early
  <2>5. CategoryFit(c, out) = g /\ CategoryFit(c, early) = g
    BY <2>1 DEF CategoryFit
  <2>6. WeightedSum(c, out) = 26 * o.content + 22 * w + 12 * g + 8 * r + 8 * b + 14 * 100 + 10 * 60
    BY <2>1, <2>3, <2>5 DEF WeightedSum
  <2>7. WeightedSum(c, early) = 26 * o.content + 22 * w + 12 * g + 8 * r + 8 * b + 14 * o.chance + 10 * 100
    BY <2>1, <2>4, <2>5 DEF WeightedSum
  <2>8. ScoreOpportunity(c, early) = WeightedSum(c, early) /\ ScoreOpportunity(c, out) = WeightedSum(c, out)
    BY <1>3 DEF ScoreOpportunity
  <2>. DEFINE x == ScoreOpportunity(c, out)
              y == ScoreOpportunity(c, early)
              rest == 26 * o.content + 22 * w + 12 * g + 8 * r + 8 * b
              chance == o.chance
  <2>9. /\ x = rest + 2000 /\ y = rest + 14 * chance + 1000
        /\ rest \in Int /\ chance \in 0 .. 100 /\ chance >= 75
    <3>. DEFINE content == o.content
    <3>1. x = 26 * content + 22 * w + 12 * g + 8 * r + 8 * b + 14 * 100 + 10 * 60
      BY <2>6, <2>8
    <3>2. y = 26 * content + 22 * w + 12 * g + 8 * r + 8 * b + 14 * chance + 10 * 100
      BY <2>7, <2>8
    <3>3. rest = 26 * content + 22 * w + 12 * g + 8 * r + 8 * b
      OBVIOUS
    <3>4. /\ w \in 0 .. 100 /\ g \in 0 .. 100 /\ r \in 0 .. 100 /\ b \in 0 .. 100
          /\ content \in 0 .. 100 /\ chance \in 0 .. 100 /\ chance >= 75
      BY <1>3, <2>2
    <3>. HIDE DEF w, g, r, b, x, y, rest, content, chance
    <3>. QED  BY <3>1, <3>2, <3>3, <3>4
  <2>. HIDE DEF x, y, rest, chance
  <2>10. y > x
    BY <2>9
  <2>. QED  BY <2>10 DEF x, y
<1>. QED  BY <1>1, <1>2, <1>3 DEF EarlyIsWorth
=============================================================================
