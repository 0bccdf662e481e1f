------------------------------ MODULE Fallback ------------------------------
(***************************************************************************)
(* What is extracted when there is no model to ask: which chunks are worth *)
(* a call at all (pipeline/triage.py), the rules that read an exchange of  *)
(* a council and a line of a budget book (llm/providers/heuristic.py), and *)
(* the signal they make of it, for the verifier of Evidence.               *)
(*                                                                         *)
(* Of a line of the minutes its speaker is kept, whether its sentence ends *)
(* with it, and what the phrase lists, the amounts and the timing          *)
(* expressions find in it.                                                 *)
(***************************************************************************)
EXTENDS Evidence, FiniteSetsExt

CONSTANTS DefaultUnit  \* 1000: what a book's numbers count if it does not say

ASSUME FallbackAssumption == DefaultUnit \in Nat \ {0}

(***************************************************************************)
(* Triage.  Scores in hundredths; the threshold of 0.35 is that of the     *)
(* logistic curve.                                                         *)
(***************************************************************************)
Threshold == -61
AtMost(n, cap) == Min({n, cap})

Worth(f) ==
  55 * AtMost(f.verbs, 3) + 60 * AtMost(f.keywords, 3) + 130 * AtMost(f.commitments, 2)
    + 110 * AtMost(f.amounts, 1) + 45 * AtMost(f.futures, 2) - 90 * AtMost(f.noises, 2)

Forwarded(kind, f) ==
  CASE kind = "record" -> TRUE
    [] kind = "procedure" -> FALSE
    [] OTHER -> Worth(f) + (IF kind = "budget_line" THEN 160 ELSE 0) - 240 >= Threshold

(***************************************************************************)
(* An exchange.  A line: [who, level, amounts, year, words, half, named,   *)
(* ends]; named says that the half is called by its name.                  *)
(***************************************************************************)
Ladder == <<"committed", "planned", "reviewing", "declined">>
Labelled(line) == line.who # "same"

\* The last speaker named decides; before there is one, it is the question.
Side(lines, i) ==
  LET named == {k \in 1 .. i : Labelled(lines[k])}
  IN IF named # {} /\ lines[Max(named)].who = "official" THEN "answer" ELSE "question"

AnswerLines(lines) == SelectSeq([i \in 1 .. Len(lines) |-> i], LAMBDA i : Side(lines, i) = "answer")

\* The sentences of the answer, as the lines that each takes.
Sentences(lines) ==
  LET answer == AnswerLines(lines)
      AddLine(out, i) ==
        IF out = <<>> \/ lines[Last(Last(out))].ends THEN Append(out, <<i>>)
        ELSE Append(Front(out), Append(Last(out), i))
  IN FoldLeft(AddLine, <<>>, answer)

LevelIn(lines, some) ==
  LET levels == {lines[i].level : i \in some}
      heard == {n \in 1 .. 4 : Ladder[n] \in levels}
  IN IF heard = {} THEN "none" ELSE Ladder[Min(heard)]
AmountsIn(lines, some) == UNION {lines[i].amounts : i \in some}

PhraseIn(lines, some) ==
  LET years == {i \in some : lines[i].year # Nowhere}
      halves == {lines[i].half : i \in some}
  IN [year  |-> IF years = {} THEN Nowhere ELSE lines[Min(years)].year,
      words |-> UNION {lines[i].words : i \in some},
      half  |-> IF "H2" \in halves THEN "H2" ELSE IF "H1" \in halves THEN "H1" ELSE "none",
      month |-> 0]

\* Evidence: three sentences at most, the last of them with the first amount.
EvidenceOf(lines) ==
  LET all == Sentences(lines)
      firm == SelectSeq(all, LAMBDA s : LevelIn(lines, ToSet(s)) # "none")
      paid == SelectSeq(all, LAMBDA s : AmountsIn(lines, ToSet(s)) # {})
      both == IF paid # <<>> /\ Head(paid) \notin ToSet(firm) THEN Append(firm, Head(paid)) ELSE firm
  IN SubSeq(both, 1, Min({3, Len(both)}))

\* A sentence is in the text as it is quoted if no other line and no speaker's
\* label comes between its lines.
InOnePiece(lines, s) ==
  \A k \in 2 .. Len(s) : s[k] = s[k - 1] + 1 /\ ~Labelled(lines[s[k]])

YearOf(phrase, reference) == ResolveTiming(phrase, reference).year
QuoteOf(lines, s, reference) ==
  [found |-> InOnePiece(lines, s), amounts |-> {a.value : a \in AmountsIn(lines, ToSet(s))},
   year |-> YearOf(PhraseIn(lines, ToSet(s)), reference)]

\* The timing counts when it is firm; its phrase is kept if it can be pointed at.
Firm(level) == level \in {"committed", "planned"}
Named(lines, some, phrase) ==
  phrase.year # Nowhere \/ phrase.words # {} \/ \E i \in some : lines[i].half = phrase.half /\ lines[i].named

NoAmount == [found |-> FALSE, amounts |-> {}]
Largest(amounts) == CHOOSE a \in amounts : \A b \in amounts : b.value <= a.value

\* The signal, or none: nobody answers, nobody commits, or there is no title whose
\* category is known.
ExtractExchange(lines, titled, reference) ==
  LET answer == ToSet(AnswerLines(lines))
      amounts == AmountsIn(lines, answer)
      phrase == PhraseIn(lines, answer)
      timed == Firm(LevelIn(lines, answer)) /\ ResolveTiming(phrase, reference) # NoTiming
      evidence == EvidenceOf(lines)
  IN IF LevelIn(lines, answer) = "none" \/ ~titled THEN {}
     ELSE {[docType |-> "council_minutes",
            quotes |-> [n \in 1 .. Len(evidence) |-> QuoteOf(lines, evidence[n], reference)],
            budget |-> IF amounts = {} THEN Nowhere ELSE Largest(amounts).value,
            budgetText |-> IF amounts = {} THEN NoAmount
                           ELSE [found |-> Largest(amounts).long, amounts |-> {Largest(amounts).value}],
            year |-> IF timed THEN YearOf(phrase, reference) ELSE Nowhere,
            timing |-> IF timed /\ Named(lines, answer, phrase) THEN YearOf(phrase, reference) ELSE Nowhere,
            fiscalYear |-> Nowhere, confident |-> TRUE, degraded |-> TRUE,
            owner |-> "city", mentioned |-> "council"]}

(***************************************************************************)
(* A line of a budget book: [cells, operating, known]; a cell: [number,    *)
(* grouped].  unitHere is the unit that this chunk names, unit the book's. *)
(***************************************************************************)
ExtractBudgetLine(line, unitHere, unit) ==
  LET first == Head(line.cells)
      mine == IF unitHere = Nowhere THEN DefaultUnit ELSE unitHere
      read == {c.number * unit : c \in {c \in ToSet(line.cells) : c.grouped}}
  IN IF line.cells = <<>> \/ line.operating \/ ~line.known THEN {}
     ELSE {[docType |-> "budget_book",
            quotes |-> <<[found |-> TRUE, amounts |-> read, year |-> Nowhere]>>,
            budget |-> first.number * mine,
            budgetText |-> [found |-> TRUE, amounts |-> IF first.grouped THEN {first.number * unit} ELSE {}],
            year |-> Nowhere, timing |-> Nowhere, fiscalYear |-> 1, confident |-> TRUE, degraded |-> TRUE,
            owner |-> "city", mentioned |-> "nobody"]}

(***************************************************************************)
(* Properties.                                                             *)
(***************************************************************************)

\* Whatever the rules would extract from an exchange or a budget line is worth a
\* call: without the noise of procedure, triage drops no commitment and no line of
\* a book about a subject that the taxonomy knows.
TriageKeeps ==
  \A verbs \in 0 .. 3, keywords \in 1 .. 3, commitments, amounts \in 0 .. 2, futures \in 0 .. 2 :
    LET f == [verbs |-> verbs, keywords |-> keywords, commitments |-> commitments,
              amounts |-> amounts, futures |-> futures, noises |-> 0]
    IN (commitments > 0 => Forwarded("exchange", f)) /\ Forwarded("budget_line", f)

\* What the rules say passes the referee: a reviewer sees it, every quote is in the
\* text, and the amount that is stored is the largest one the official named, never
\* one from the question.  The referee follows the year if its phrase can be pointed
\* at.  The exceptions are a sentence that another speaker breaks, and an amount too
\* short to be looked for in a sentence that is not quoted.
ExchangeGrounded(lines, reference) ==
  \A signal \in ExtractExchange(lines, TRUE, reference) :
    LET answer == ToSet(AnswerLines(lines))
        officials == {i \in 1 .. Len(lines) : \E k \in 1 .. i :
                        /\ lines[k].who = "official"
                        /\ \A n \in k + 1 .. i : lines[n].who # "member"}
        top == Largest(AmountsIn(lines, answer))
        quoted == \E n \in 1 .. Len(signal.quotes) : top.value \in signal.quotes[n].amounts
    IN (\A s \in ToSet(Sentences(lines)) : InOnePiece(lines, s)) =>
         /\ VerdictOn(signal) = "needs_review"
         /\ IssuesOf(signal) \cap {"evidence_not_found", "partial_evidence", "low_confidence"} = {}
         /\ signal.timing # Nowhere => "year_unverified" \notin IssuesOf(signal)
         /\ BudgetStored(signal) \in {Nowhere} \cup {a.value : a \in AmountsIn(lines, officials)}
         /\ signal.budget # Nowhere /\ (top.long \/ quoted) => BudgetStored(signal) = top.value

\* A chunk of a book rarely has the header with the unit: the referee, who knows it,
\* corrects the rules.  Of a line with one number, or where the unit is at hand,
\* stored is what the book says.
BudgetLineGrounded(line, unitHere, unit) ==
  \A signal \in ExtractBudgetLine(line, unitHere, unit) :
    /\ VerdictOn(signal) = "needs_review"
    /\ line.cells[1].grouped /\ (Len(line.cells) = 1 \/ unitHere = unit)
         => BudgetStored(signal) = line.cells[1].number * unit
=============================================================================
