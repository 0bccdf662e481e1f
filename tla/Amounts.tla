------------------------------- MODULE Amounts -------------------------------
(***************************************************************************)
(* Amounts of won as public documents write them (domain/krw.py).          *)
(*                                                                         *)
(* The numerals have a radix of their own: Radix is ten in the code, and   *)
(* 32-bit integers hold no 조 then.  Everything the parser knows of ten is *)
(* in the units, four powers to a group.  A span that the regular          *)
(* expressions have found is its tokens, whether 원 follows, and whether   *)
(* it is a plain number, a table's cell, or begins with a hangul digit.    *)
(***************************************************************************)
EXTENDS Integers, Sequences, SequencesExt, FiniteSets

CONSTANTS Radix,     \* 10
          LargestWon \* bound: amounts that are written and read again

ASSUME AmountsAssumption == Radix \in Nat /\ Radix > 1 /\ LargestWon \in Nat

SmallUnit == [sip |-> Radix, baek |-> Radix^2, cheon |-> Radix^3]
LargeUnit == [man |-> Radix^4, eok |-> Radix^8, jo |-> Radix^12]

\* A token is a number or a unit.
Number(n) == [unit |-> "none", number |-> n]
Unit(u) == [unit |-> u, number |-> 0]
IsSmall(token) == token.unit \in DOMAIN SmallUnit
IsLarge(token) == token.unit \in DOMAIN LargeUnit

(***************************************************************************)
(* _evaluate.                                                              *)
(***************************************************************************)
Absent == -1
OrElse(pending, default) == IF pending = Absent THEN default ELSE pending

AtUnit(acc, token) ==
  [acc EXCEPT !.section = @ + OrElse(acc.pending, 1) * SmallUnit[token.unit], !.pending = Absent]

AtLargeUnit(acc, token) ==
  LET chunk == acc.section + OrElse(acc.pending, 0)
  IN [total |-> acc.total + (IF chunk = 0 THEN 1 ELSE chunk) * LargeUnit[token.unit],
      section |-> 0, pending |-> Absent, lastLarge |-> LargeUnit[token.unit]]

\* Two numbers in a row are added.
AtNumber(acc, token) ==
  [acc EXCEPT !.section = @ + OrElse(acc.pending, 0), !.pending = token.number]

Step(acc, token) ==
  IF IsSmall(token) THEN AtUnit(acc, token)
  ELSE IF IsLarge(token) THEN AtLargeUnit(acc, token)
  ELSE AtNumber(acc, token)

\* mutant: the small units at the end count as they are
TailAsWritten(acc, spoken) == acc.section

\* "2억 8천": the 만 after the small units at the end is left out in speech.
SpokenTail(acc, spoken) ==
  IF spoken /\ acc.pending = Absent /\ acc.lastLarge >= LargeUnit.eok
  THEN acc.section * (acc.lastLarge \div LargeUnit.man)
  ELSE acc.section

Evaluate(tokens, spoken) ==
  LET acc == FoldLeft(Step, [total |-> 0, section |-> 0, pending |-> Absent, lastLarge |-> 0], tokens)
  IN acc.total + SpokenTail(acc, spoken) + OrElse(acc.pending, 0)

(***************************************************************************)
(* find_amounts: the value of a span, or none.                             *)
(***************************************************************************)
Span(kind, tokens, won) == [kind |-> kind, tokens |-> tokens, won |-> won]

HasLarge(span) == \E i \in 1 .. Len(span.tokens) : IsLarge(span.tokens[i])

\* Hangul digits may be the beginning of a word.
Trusted(span) == span.kind = "hangul" => span.won /\ HasLarge(span)

ValuesOf(span, defaultUnit, bareNumbers) ==
  CASE span.kind = "cell"  -> IF bareNumbers THEN {span.tokens[1].number * defaultUnit} ELSE {}
    [] span.kind = "plain" -> IF span.won THEN {span.tokens[1].number} ELSE {}
    [] OTHER ->
         LET value == Evaluate(span.tokens, ~span.won)
         IN IF ~Trusted(span) THEN {}
            ELSE {IF span.won \/ HasLarge(span) THEN value ELSE value * defaultUnit}

FindAmounts(spans, defaultUnit, bareNumbers) ==
  UNION {ValuesOf(spans[i], defaultUnit, bareNumbers) : i \in 1 .. Len(spans)}

\* Within one part in a hundred.
AmountsAgree(a, b) ==
  a = b \/ (a > 0 /\ b > 0 /\ LET larger == IF a > b THEN a ELSE b
                              IN 100 * (IF a > b THEN a - b ELSE b - a) <= larger)

(***************************************************************************)
(* format_krw, as the spans it is read as again.                           *)
(***************************************************************************)
Part(n, unit) == IF n = 0 THEN <<>> ELSE <<Number(n), Unit(unit)>>

FormatKrw(value) ==
  LET eok == value \div LargeUnit.eok
      man == (value % LargeUnit.eok) \div LargeUnit.man
      won == value % LargeUnit.man
  IN Part(eok, "eok") \o Part(man, "man") \o (IF won # 0 /\ eok = 0 THEN <<Number(won)>> ELSE <<>>)

(***************************************************************************)
(* What a clerk writes and what a council member says, from the amount.    *)
(***************************************************************************)
Digit(n, power) == (n \div Radix^power) % Radix
SmallNames == <<"sip", "baek", "cheon">>

\* A digit and its unit; a clerk writes the one, a speaker leaves it out.
DigitTokens(d, unit, ones) ==
  IF d = 0 THEN <<>>
  ELSE IF d = 1 /\ ~ones THEN <<Unit(unit)>> ELSE <<Number(d), Unit(unit)>>

Group(n, ones) ==
  DigitTokens(Digit(n, 3), "cheon", ones) \o DigitTokens(Digit(n, 2), "baek", ones)
    \o DigitTokens(Digit(n, 1), "sip", ones) \o (IF Digit(n, 0) = 0 THEN <<>> ELSE <<Number(Digit(n, 0))>>)

GroupAt(value, power, unit, ones) ==
  LET n == (value \div Radix^power) % LargeUnit.man
  IN IF n = 0 THEN <<>>
     ELSE IF n = 1 /\ ~ones THEN <<Unit(unit)>> ELSE Append(Group(n, ones), Unit(unit))

Numeral(value, ones) ==
  GroupAt(value, 12, "jo", ones) \o GroupAt(value, 8, "eok", ones)
    \o GroupAt(value, 4, "man", ones) \o Group(value % LargeUnit.man, ones)

\* "2억 8천": tens, hundreds and thousands of the next unit down behind 억 or
\* 조, and that unit unsaid.
ShortOf(value, unit, next) ==
  LET tail == (value % LargeUnit[unit]) \div LargeUnit[next]
  IN /\ (value \div LargeUnit[unit]) % LargeUnit.man # 0 /\ value % LargeUnit[next] = 0
     /\ tail # 0 /\ tail % Radix = 0

MaySayShort(value) ==
  ShortOf(value, "eok", "man") \/ (value % LargeUnit.eok = 0 /\ ShortOf(value, "jo", "eok"))

AmountsChecked ==
  1 .. LargestWon \cup {LargeUnit.eok * n : n \in 1 .. 2 * LargeUnit.man}
    \cup {LargeUnit.jo + LargeUnit.man * n : n \in 1 .. 2 * LargeUnit.man}

\* The parser agrees with itself on every way to write an amount: the numeral
\* in full, with its ones or without; the one the pages print, but for the won
\* they leave out; the short form of speech; a table's cell and the same with
\* its unit.
AmountsRead ==
  \A value \in AmountsChecked :
    /\ \A ones \in BOOLEAN : Evaluate(Numeral(value, ones), FALSE) = value
    /\ MaySayShort(value) => Evaluate(Front(Numeral(value, TRUE)), TRUE) = value
    /\ Evaluate(FormatKrw(value), FALSE) =
         IF value < LargeUnit.eok THEN value ELSE value - (value % LargeUnit.man)
    /\ value < LargeUnit.eok =>
         FindAmounts(<<Span("cell", <<Number(value)>>, FALSE)>>, SmallUnit.cheon, TRUE)
           = FindAmounts(<<Span("digits", <<Number(value), Unit("cheon")>>, TRUE)>>, SmallUnit.cheon, TRUE)
=============================================================================
