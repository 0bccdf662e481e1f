------------------------------ MODULE MCReading ------------------------------
(***************************************************************************)
(* The pure algorithms over bounded inputs.  A behaviour takes one input,  *)
(* and what its topic promises must hold of it.                            *)
(***************************************************************************)
EXTENDS Fallback, Chunking, MCInstitutions, Records, Ranking, TLC

VARIABLE input

Upto(n, S) == UNION {[1 .. k -> S] : k \in 0 .. n}

(***************************************************************************)
(* Texts to be cut: lines of all kinds, with and without a full stop.      *)
(***************************************************************************)
Lines(kinds, sizes, stops) ==
  {[kind |-> "blank", size |-> 0, stop |-> FALSE]}
    \cup {[kind |-> k, size |-> n, stop |-> e] : k \in kinds \ {"blank"}, n \in sizes, e \in stops}
MinutesTexts == Upto(3, Lines(MinutesLine, {2, 5}, BOOLEAN))
BudgetTexts == Upto(5, Lines(BudgetLine, {2}, {FALSE}))

(***************************************************************************)
(* Records: numbers in every form, amounts below, at and above the least;  *)
(* posts with up to three links.                                           *)
(***************************************************************************)
Num(core, shape, order) == [core |-> core, shape |-> shape, order |-> order]
PlanNo == Num("p", "old", FALSE)
Numbers == {Num(c, s, o) : c \in {"n1", "n2"}, s \in {"new", "old"}, o \in BOOLEAN} \cup {NoNumber}
PlainItem ==
  [ids |-> <<NoNumber, PlanNo>>, titles |-> <<None, "t">>, date |-> [digits |-> 8, real |-> TRUE],
   amounts |-> <<NoSum, 3>>, ord |-> None, planNo |-> NoNumber, specNo |-> NoNumber, bidList |-> <<>>, kind |-> "new"]
Listings == {[PlainItem EXCEPT !.bidList = l, !.date.digits = d] : l \in Upto(2, Numbers), d \in {4, 6, 8}}
NoticeItems ==
  {[PlainItem EXCEPT !.ids = <<n>>, !.ord = o, !.planNo = p] :
     n \in {m \in Numbers : ~m.order}, o \in {None, "000", "001"}, p \in {NoNumber, PlanNo}}
PricedItems == {[PlainItem EXCEPT !.amounts = a] : a \in Upto(3, {NoSum, 0, MinAmount - 1, MinAmount, MinAmount + 1})}

FileOf(magic, sections, size) == [magic |-> magic, sections |-> sections, size |-> size]
Files == {FileOf("%PDF", FALSE, MaxFile), FileOf("%PDF", FALSE, MaxFile + 1),
          FileOf("PK", TRUE, MaxFile), FileOf("other", FALSE, MaxFile)}
PostOf(session) == [path |-> "view", query |-> [sid |-> session, nttId |-> "1"]]
TitleOf == [year |-> 2027, words |-> {"book", "supplement"}]
LinkTo(files, path, how) ==
  [url |-> [path |-> path, query |-> [sid |-> "s"]], download |-> how = "download", named |-> how = "named",
   file |-> IF path = "private" THEN FileOf("%PDF", FALSE, MaxFile) ELSE files[path]]
LinkLists ==
  Upto(3, {<<"a", "other">>, <<"a", "download">>, <<"a", "named">>, <<"b", "download">>, <<"private", "named">>})
LinksKept(list) ==
  \A files \in [{"a", "b"} -> Files], robots \in {"rules", "missing", "down"} :
    FilesKept(robots, PostOf("s1"), PostOf("s2"), TitleOf,
              [n \in DOMAIN list |-> LinkTo(files, list[n][1], list[n][2])])

ReadingRight ==
  CASE input[1] = "amounts" -> AmountsRead
    [] input[1] = "minutes" -> MinutesChunked(input[2])
    [] input[1] = "budget"  -> BudgetChunked(input[2])
    [] input[1] = "listing" -> \A notice \in NoticeItems : ListedMeets(input[2], notice)
    [] input[1] = "notice"  -> \A notice \in NoticeItems : OrdersApart(input[2], notice)
    [] input[1] = "priced"  -> AmountIsReal(input[2])
    [] input[1] = "links"   -> LinksKept(input[2])
    [] OTHER -> TRUE

(***************************************************************************)
(* Signals with up to two quotes, and all the referee looks at.            *)
(***************************************************************************)
Quotes == Upto(2, [found : BOOLEAN, amounts : {{}, {100}}, year : {Nowhere, 1}])
Claims ==
  {[docType |-> dt, quotes |-> q, owner |-> o] :
     dt \in {"council_minutes", "budget_book"}, q \in Quotes, o \in {"nobody", "city"}}
Signals(claim) ==
  {[docType |-> claim.docType, quotes |-> claim.quotes, owner |-> claim.owner, fiscalYear |-> 1,
    budgetText |-> b, budget |-> n, timing |-> t, year |-> y, confident |-> f[1], degraded |-> f[2], mentioned |-> m] :
     b \in {NoAmount, [found |-> TRUE, amounts |-> {100}], [found |-> FALSE, amounts |-> {100}]},
     n \in {Nowhere, 101, 102}, t \in {Nowhere, 1, 2}, y \in {Nowhere, 1, 2},
     f \in {<<TRUE, FALSE>>, <<FALSE, FALSE>>, <<TRUE, TRUE>>}, m \in {"nobody", "council", "office"}}

(***************************************************************************)
(* Exchanges: a question with an amount, up to three answers, or a long    *)
(* answer of one official.                                                 *)
(***************************************************************************)
Big == [value |-> 300, long |-> TRUE]
Small == [value |-> 400, long |-> FALSE]
LineBy(who, level, amounts, half, ends) ==
  [who |-> who, level |-> level, amounts |-> amounts, year |-> Nowhere, words |-> {}, half |-> half,
   named |-> half = "H2", ends |-> ends]
Question == LineBy("member", "none", {[value |-> 900, long |-> TRUE]}, "none", TRUE)
Answered ==
  {LineBy(w, l, a, h, e) : w \in {"official", "same"}, l \in {"none", "planned"}, a \in {{}, {Big}, {Small}},
                           h \in {"none", "H1"}, e \in BOOLEAN}
Longer == {LineBy("same", l, a, "none", TRUE) : l \in {"none", "planned"}, a \in {{}, {Big}, {Small}}}
Today == [year |-> 5, month |-> 8]
ExchangesFrom(line) ==
  {<<Question, line, u, v>> : u, v \in Answered \cup {Question}}
    \cup {<<[line EXCEPT !.who = "official"], p, q, r, s>> : p, q, r, s \in Longer}

Cells == [number : {100, 300}, grouped : BOOLEAN]
BookLines == {[cells |-> c, operating |-> o, known |-> k] : c \in Upto(2, Cells), o \in BOOLEAN, k \in BOOLEAN}

EvidenceRight ==
  CASE input[1] = "text"     -> QuotesFound(input[2])
    [] input[1] = "claim"    -> \A signal \in Signals(input[2]) : AcceptedIsGrounded(signal)
    [] input[1] = "month"    -> HalfIsAhead([year |-> 5, month |-> input[2]]) /\ TriageKeeps
    [] input[1] = "answer"   -> \A lines \in ExchangesFrom(input[2]) : ExchangeGrounded(lines, Today)
    [] input[1] = "bookline" -> \A unit \in {1, DefaultUnit} : \A here \in {Nowhere, unit} :
                                  BudgetLineGrounded(input[2], here, unit)
    [] OTHER -> TRUE

(***************************************************************************)
(* Signals and the opportunities they may be linked to; customers and what *)
(* may be recommended to them.                                             *)
(***************************************************************************)
NewSignals ==
  {[at |-> 400, stage |-> st, category |-> "it", budget |-> b, terms |-> t] :
     st \in {0, Tender}, b \in {Unknown, 8}, t \in SUBSET {"x", "y"}}
Candidacies ==
  {[stage |-> p[1], last |-> p[2], published |-> p[3], category |-> c, budget |-> b, terms |-> t,
    content |-> l[1], wording |-> l[2]] :
     p \in {<<1, 400, Unknown>>, <<Tender, 300, 300>>}, c \in {"it", "other"}, b \in {Unknown, 8},
     t \in {{}, {"x"}}, l \in {<<0, 0>>, <<100, 0>>, <<50, 50>>, <<100, 60>>}}

Profiles ==
  {[keywords |-> {"a", "b"}, excluded |-> e, categories |-> f[1], regions |-> f[2], lo |-> r[1], hi |-> r[2]] :
     e \in {{}, {"z"}}, f \in {<<{}, {}>>, <<{"it"}, {<<"11", "">>}>>}, r \in {<<Unknown, Unknown>>, <<4, 8>>}}
Offers ==
  {[content |-> c, words |-> w, category |-> "it", region |-> r, budget |-> b, chance |-> p,
    status |-> "open", passed |-> d[1], days |-> d[2]] :
     c \in {0, 100}, w \in {{}, {"a"}, {"a", "b"}, {"a", "b", "z"}, {"z"}},
     r \in {<<"11", "680">>, <<"26", "">>}, b \in {Unknown, 2, 6}, p \in {35, 75, 100},
     d \in {<<FALSE, 0>>, <<FALSE, 60>>, <<FALSE, 270>>, <<TRUE, 0>>}}
WeakOffers == {o \in Offers : o.budget = 2 /\ o.region[1] = "26" /\ o.content = 0 /\ o.chance = 35}

\* What a name, a signal and an opportunity are matched with.
MatchedRight ==
  /\ FiledRight
  /\ CASE input[1] = "name"   -> \A hint \in {"none", "Seoul", "Busan"} : ResolvedRight(input[2], hint)
       [] input[1] = "signal" -> \A o \in Candidacies : LinksAreEarned(input[2], input[3], o)
       [] input[1] = "offer"  -> \A o \in WeakOffers : EarlyIsWorth(input[2], input[3], o)
       [] OTHER -> TRUE

(***************************************************************************)
(* The choice of an input.                                                 *)
(***************************************************************************)
Topics == {"amounts", "minutes", "budget", "records", "text", "claim", "answer", "name", "signal", "offer"}
ReadingInit == input \in {"start"} \X Topics

Choose1(topic, S) == \E x \in S : input' = <<topic, x>>
Choose2(topic, S, T) == \E x \in S, y \in T : input' = <<topic, x, y>>
ChooseFrom(topic) ==
  CASE topic = "amounts" -> Choose1("amounts", {1})
    [] topic = "minutes" -> Choose1("minutes", MinutesTexts)
    [] topic = "budget"  -> Choose1("budget", BudgetTexts)
    [] topic = "records" -> \/ Choose1("listing", Listings) \/ Choose1("notice", NoticeItems)
                            \/ Choose1("priced", PricedItems) \/ Choose1("links", LinkLists)
    [] topic = "text"    -> Choose1("text", Text)
    [] topic = "claim"   -> Choose1("claim", Claims)
    [] topic = "answer"  -> \/ Choose1("answer", Answered) \/ Choose1("bookline", BookLines)
                            \/ Choose1("month", 1 .. 12)
    [] topic = "name"    -> Choose1("name", Names)
    [] topic = "signal"  -> Choose2("signal", NewSignals, Candidacies)
    [] topic = "offer"   -> Choose2("offer", Profiles, Offers)

ReadingNext == input[1] = "start" /\ ChooseFrom(input[2])
=============================================================================
