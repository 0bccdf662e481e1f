------------------------------ MODULE Evidence ------------------------------
(***************************************************************************)
(* The referee between an extractor and the database: where a quote stands *)
(* in the source (domain/text.py, domain/grounding.py), what year a phrase *)
(* means (domain/timing.py), and the verdict on a signal                   *)
(* (grounding.verify_extraction, pipeline/process.py).                     *)
(*                                                                         *)
(* A text is a sequence of characters of which only what normalisation     *)
(* does with them is kept; the fuzzy alignment of rapidfuzz is external    *)
(* and may find anything.  In the verdict a quote is what was found of it  *)
(* and what amount and year the parsers read in it.                        *)
(***************************************************************************)
EXTENDS Amounts

CONSTANTS Letter,     \* characters that stay as they are
          MinQuote,   \* 4: shorter quotes are not looked for
          LongestText \* bound: characters of a document

ASSUME EvidenceAssumption ==
  /\ MinQuote \in Nat \ {0} /\ LongestText \in Nat /\ {"k", "m"} \subseteq Letter
  /\ Letter \cap {"space", "zero width", "wide", "onset", "vowel", "syllable", "mark"} = {}

(***************************************************************************)
(* Text.  "wide" is one character that NFKC writes as two, km; "onset" and *)
(* "vowel" are two that it writes as one where it sees both.               *)
(***************************************************************************)
Char == Letter \cup {"space", "zero width", "wide", "onset", "vowel"}
Text == UNION {[1 .. n -> Char] : n \in 0 .. LongestText}

Folded(c) ==
  CASE c = "zero width" -> <<>>
    [] c = "wide"       -> <<"k", "m">>
    [] OTHER            -> <<c>>

AddChar(out, c, i) ==
  IF c = "space" /\ (out = <<>> \/ Last(out).c = "space") THEN out ELSE Append(out, [c |-> c, at |-> i])

Trimmed(out) == IF out # <<>> /\ Last(out).c = "space" THEN Front(out) ELSE out

\* Each character by itself, with the place it came from.
NormalizeWithMap(text) ==
  Trimmed(FoldLeft(LAMBDA out, i : FoldLeft(LAMBDA o, c : AddChar(o, c, i), out, Folded(text[i])),
                   <<>>, [i \in 1 .. Len(text) |-> i]))

Plain(out) == [n \in 1 .. Len(out) |-> out[n].c]

\* The whole text at once: an onset and its vowel become a syllable.
Composed(text) ==
  FoldLeft(LAMBDA out, c : IF c = "vowel" /\ out # <<>> /\ Last(out) = "onset"
                           THEN Append(Front(out), "syllable") ELSE Append(out, c),
           <<>>, text)
CollapseWs(text) == Plain(NormalizeWithMap(Composed(text)))

StripMarks(text) ==
  LET kept == {i \in 1 .. Len(text) : text[i] \notin {"space", "mark"}}
  IN IF kept = {} THEN <<>>
     ELSE SubSeq(text, CHOOSE i \in kept : \A k \in kept : i <= k, CHOOSE i \in kept : \A k \in kept : k <= i)

(***************************************************************************)
(* locate_quote.  Offsets count from 0; stop is the first character after. *)
(***************************************************************************)
FoundAt(text, quote) == 
  {p \in 1 .. Len(text) - Len(quote) + 1 : SubSeq(text, p, p + Len(quote) - 1) = quote}
Missing == [method |-> "missing", start |-> 0, stop |-> 0]

\* mutant: the last character of the quote is left out
StopBefore(map, n) == map[n].at - 1
StopAfter(map, n) == map[n].at

Spot(method, map, first, last) ==
  [method |-> method, start |-> map[first].at - 1, stop |-> StopAfter(map, last)]

LocateQuote(source, quote) ==
  LET map == NormalizeWithMap(source)
      wanted == StripMarks(CollapseWs(quote))
      places == FoundAt(Plain(map), wanted)
  IN IF Len(wanted) < MinQuote \/ map = <<>> THEN {Missing}
     ELSE IF places # {}
     THEN LET p == CHOOSE p \in places : \A q \in places : p <= q
          IN {Spot("exact", map, p, p + Len(wanted) - 1)}
     ELSE {Missing} \cup {Spot("fuzzy", map, p, q) : p, q \in 1 .. Len(map)}

(***************************************************************************)
(* resolve_timing.  A phrase is what the expressions find in it: a year of *)
(* four digits or of two, relative words by their offset, and a half or a  *)
(* month.  reference is the day of the meeting, as its year and month.     *)
(***************************************************************************)
Nowhere == -1
NoTiming == [year |-> Nowhere, half |-> "none"]

HalfIn(phrase) ==
  IF phrase.half # "none" THEN phrase.half
  ELSE IF phrase.month \in 1 .. 12 THEN (IF phrase.month <= 6 THEN "H1" ELSE "H2")
  ELSE "none"

\* A half that is over this year is meant of the next.
NextHalf(half, reference) ==
  IF half = "H1" /\ reference.month > 6 THEN reference.year + 1 ELSE reference.year

ResolveTiming(phrase, reference) ==
  LET half == HalfIn(phrase)
  IN CASE phrase.year # Nowhere -> [year |-> phrase.year, half |-> half]
       [] phrase.year = Nowhere /\ phrase.words # {} ->
            [year |-> reference.year + (CHOOSE n \in phrase.words : \A k \in phrase.words : k <= n), half |-> half]
       [] phrase.year = Nowhere /\ phrase.words = {} /\ half # "none" ->
            [year |-> NextHalf(half, reference), half |-> half]
       [] OTHER -> NoTiming

(***************************************************************************)
(* verify_extraction: what is wrong with a signal.  A quote is [found,     *)
(* amounts, year]: the amounts and the year that are read in its span.     *)
(***************************************************************************)
FoundOf(signal) == SelectSeq(signal.quotes, LAMBDA q : q.found)

EvidenceIssues(signal) ==
  IF FoundOf(signal) = <<>> THEN {"evidence_not_found"}
  ELSE IF Len(FoundOf(signal)) < Len(signal.quotes) THEN {"partial_evidence"} ELSE {}

\* Of the phrase for the budget the amounts count if the phrase is in the source.
Candidates(signal) ==
  UNION {FoundOf(signal)[n].amounts : n \in 1 .. Len(FoundOf(signal))}
    \cup (IF signal.budgetText.found THEN signal.budgetText.amounts ELSE {})
BudgetParsed(signal) ==
  CHOOSE a \in Candidates(signal) : \A b \in Candidates(signal) : b <= a
BudgetGrounded(signal) == \E a \in Candidates(signal) : AmountsAgree(signal.budget, a)

BudgetIssues(signal) ==
  IF signal.budget = Nowhere \/ BudgetGrounded(signal) THEN {}
  ELSE IF Candidates(signal) = {} THEN {"budget_unsupported"} ELSE {"budget_mismatch"}

\* The first year that the phrase for the timing, or a found quote, gives.
YearResolved(signal) ==
  LET years == SelectSeq(<<signal.timing>> \o [n \in 1 .. Len(FoundOf(signal)) |-> FoundOf(signal)[n].year],
                         LAMBDA y : y # Nowhere)
  IN IF years = <<>> THEN Nowhere ELSE Head(years)

\* The year of a budget book is not looked for in the text.
IsBook(signal) == signal.docType = "budget_book"
YearIssues(signal) ==
  IF IsBook(signal) \/ signal.year = Nowhere \/ YearResolved(signal) = signal.year
  THEN {} ELSE {"year_unverified"}

ReportIssues(signal) ==
  EvidenceIssues(signal) \cup BudgetIssues(signal) \cup YearIssues(signal)
    \cup (IF signal.confident THEN {} ELSE {"low_confidence"})

(***************************************************************************)
(* check_signal and _text_signal: what is stored.                          *)
(***************************************************************************)

\* mutant: the model has the last word
Claimed(signal) == signal.budget

\* The parser, not the model, has the last word on numbers.
BudgetStored(signal) ==
  IF "budget_mismatch" \in BudgetIssues(signal) THEN BudgetParsed(signal) ELSE signal.budget

YearStored(signal) ==
  IF IsBook(signal) /\ signal.year = Nowhere THEN signal.fiscalYear ELSE signal.year

\* A council may speak of the project of another body; a council's own name is
\* nobody who buys.
OwnerOf(signal) ==
  IF signal.docType = "council_minutes" /\ signal.mentioned \notin {"nobody", "council"}
  THEN signal.mentioned ELSE signal.owner

IssuesOf(signal) ==
  ReportIssues(signal)
    \cup (IF OwnerOf(signal) = "nobody" THEN {"institution_unresolved"} ELSE {})
    \cup (IF signal.degraded THEN {"degraded"} ELSE {})

VerdictOn(signal) ==
  IF "evidence_not_found" \in IssuesOf(signal) THEN "rejected"
  ELSE IF IssuesOf(signal) # {} THEN "needs_review" ELSE "accepted"

(***************************************************************************)
(* Properties.                                                             *)
(***************************************************************************)
Doubled(span) == FoldLeft(LAMBDA out, c : out \o (IF c = "space" THEN <<c, c>> ELSE <<c>>), <<>>, span)
Visible(span) == SelectSeq(span, LAMBDA c : c # "zero width")
Quotings(span) == {span, Doubled(span), Visible(span), <<"mark">> \o span \o <<"mark">>}

IsComposed(text) ==
  FoundAt(Visible(text), <<"onset", "vowel">>) = {}

\* Whoever copies a span of a chunk, with other white space, without what cannot be
\* seen or between quotation marks, is found word for word, and what the page
\* highlights in the document, at the offset of the chunk, holds the quote and no
\* more than the characters it begins and ends in.  Texts that a Mac has
\* decomposed are the exception: see the README.
QuotesFound(text) ==
  IsComposed(text) =>
    \A offset \in 0 .. 1 : LET chunk == SubSeq(text, offset + 1, Len(text)) IN
      \A i, k \in 1 .. Len(chunk) : \A quote \in Quotings(SubSeq(chunk, i, k)) :
        LET wanted == StripMarks(CollapseWs(quote))
        IN i <= k /\ Len(wanted) >= MinQuote =>
             \A spot \in LocateQuote(chunk, quote) :
               LET shown == Plain(NormalizeWithMap(SubSeq(text, offset + spot.start + 1, offset + spot.stop)))
               IN /\ spot.method = "exact"
                  /\ FoundAt(shown, wanted) # {} /\ Len(shown) <= Len(wanted) + 2

Offered(signal) == [n \in 1 .. Len(signal.quotes) |-> signal.quotes[n].found]

\* What is accepted without a reviewer stands on the source: all of its quotes, an
\* amount that a parser reads there, a year that follows from a phrase, and a
\* buyer that is known.  A number nobody can find there is never kept where the
\* parser reads another, and nothing is thrown away that has one true quote.
AcceptedIsGrounded(signal) ==
  /\ VerdictOn(signal) = "accepted" =>
       /\ \A n \in 1 .. Len(signal.quotes) : Offered(signal)[n]
       /\ signal.quotes # <<>> /\ ~signal.degraded /\ OwnerOf(signal) # "nobody"
       /\ YearStored(signal) # Nowhere /\ ~IsBook(signal) =>
            \/ signal.timing = YearStored(signal)
            \/ \E n \in 1 .. Len(signal.quotes) : signal.quotes[n].year = YearStored(signal)
  /\ BudgetStored(signal) # Nowhere =>
       \/ \E a \in Candidates(signal) : AmountsAgree(BudgetStored(signal), a)
       \/ Candidates(signal) = {} /\ VerdictOn(signal) # "accepted"
  /\ VerdictOn(signal) = "rejected" => \A n \in 1 .. Len(signal.quotes) : ~Offered(signal)[n]

\* A phrase that only names a half means the next one, or the one that runs.
HalfIsAhead(reference) ==
  \A half \in {"H1", "H2"} :
    LET t == ResolveTiming([year |-> Nowhere, words |-> {}, half |-> half, month |-> 0], reference)
    IN 12 * t.year + (IF t.half = "H1" THEN 6 ELSE 12) >= 12 * reference.year + reference.month
=============================================================================
