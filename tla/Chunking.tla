------------------------------ MODULE Chunking ------------------------------
(***************************************************************************)
(* How a document is cut into the chunks the model reads                   *)
(* (parsing/chunking.py).  A text is its lines: what the regular           *)
(* expressions take a line for, its length without the newline, and        *)
(* whether a full stop is its last character.  Offsets count characters    *)
(* from 0; a chunk is the half-open span from start to stop.               *)
(***************************************************************************)
EXTENDS Integers, Sequences, SequencesExt, FiniteSets

CONSTANTS MaxChunk,     \* MAX_CHUNK_CHARS
          MinPiece,     \* the 200 characters a sentence cut must leave
          PlainSize,    \* size of chunk_plain
          PlainOverlap  \* overlap of chunk_plain

ASSUME ChunkingAssumption ==
  /\ MaxChunk \in Nat /\ MinPiece \in Nat /\ MinPiece < MaxChunk
  /\ PlainSize \in Nat /\ PlainSize > 1 /\ PlainOverlap \in Nat

Speakers == {"member", "chair", "official"}
MinutesLine == Speakers \cup {"speech", "note", "blank"}
BudgetLine == {"department", "project", "basis", "other", "blank"}

LineStart(text, i) == FoldLeft(LAMBDA n, line : n + line.size + 1, 0, SubSeq(text, 1, i - 1))
LineStop(text, i) == LineStart(text, i) + text[i].size
TextLength(text) == LineStart(text, Len(text) + 1)

\* text.rfind(c, from, to): the last place of a character in a span, or -1.
LastIn(places, from, to) ==
  LET inside == {p \in places : from <= p /\ p < to}
  IN IF inside = {} THEN -1 ELSE CHOOSE p \in inside : \A q \in inside : q <= p

FullStops(text) == {LineStop(text, i) - 1 : i \in {k \in 1 .. Len(text) : text[k].stop}}
Newlines(text) == {LineStop(text, i) : i \in 1 .. Len(text)}

Chunk(start, stop, labels, kind) == [start |-> start, stop |-> stop, labels |-> labels, kind |-> kind]

(***************************************************************************)
(* chunk_minutes.                                                          *)
(***************************************************************************)

\* A line that is no speaker's goes on with the last one's speech, unless it
\* is empty or in parentheses.
AddLine(text, turns, i) ==
  IF text[i].kind \in Speakers
  THEN Append(turns, [role |-> text[i].kind, line |-> i, start |-> LineStart(text, i), stop |-> LineStop(text, i)])
  ELSE IF turns # <<>> /\ text[i].kind = "speech"
       THEN [turns EXCEPT ![Len(turns)].stop = LineStop(text, i)]
       ELSE turns

SplitTurns(text) == FoldLeft(LAMBDA turns, i : AddLine(text, turns, i), <<>>, [i \in 1 .. Len(text) |-> i])

Cut(text, start) ==
  LET dot == LastIn(FullStops(text), start, start + MaxChunk)
  IN IF dot > start + MinPiece THEN dot + 1 ELSE start + MaxChunk

\* A long speech is cut at the end of a sentence.
Emit(text, group, kind) ==
  LET stop == Last(group).stop
      labels == [i \in 1 .. Len(group) |-> group[i].line]
      pieces[start \in 0 .. stop] ==
        IF stop - start > MaxChunk
        THEN <<Chunk(start, Cut(text, start), labels, kind)>> \o pieces[Cut(text, start)]
        ELSE <<Chunk(start, stop, labels, kind)>>
  IN pieces[Head(group).start]

\* The last of the turns that answer turn i.
Answers(turns, i) ==
  CHOOSE j \in i .. Len(turns) :
    /\ \A k \in i + 1 .. j : turns[k].role = "official"
    /\ j < Len(turns) => turns[j + 1].role # "official"

\* mutant: the first answer alone
FirstAnswer(turns, i) == IF turns[i].role = "member" /\ Answers(turns, i) > i THEN i + 1 ELSE i
GroupEnd(turns, i) == IF turns[i].role = "member" THEN Answers(turns, i) ELSE i
KindOf(role) == [member |-> "exchange", chair |-> "procedure", official |-> "statement"][role]

ChunkTurns(text, turns) ==
  LET from[i \in 1 .. Len(turns) + 1] ==
        IF i > Len(turns) THEN <<>>
        ELSE Emit(text, SubSeq(turns, i, GroupEnd(turns, i)), KindOf(turns[i].role))
               \o from[GroupEnd(turns, i) + 1]
  IN from[1]

(***************************************************************************)
(* chunk_plain.                                                            *)
(***************************************************************************)
PlainStop(text, start) ==
  LET stop == start + PlainSize
      paragraph == LastIn(Newlines(text), start + PlainSize \div 2, stop)
  IN IF stop >= TextLength(text) THEN TextLength(text)
     ELSE IF paragraph > start THEN paragraph ELSE stop

\* mutant: the newline the chunk ends at is left out
PastNewline(start, stop) == stop + 1
PlainNext(start, stop) == IF stop - PlainOverlap > start + 1 THEN stop - PlainOverlap ELSE start + 1

ChunkPlain(text) ==
  LET from[start \in 0 .. TextLength(text)] ==
        LET stop == PlainStop(text, start)
        IN IF start >= TextLength(text) THEN <<>>
           ELSE <<Chunk(start, stop, <<>>, "text")>>
                  \o (IF stop >= TextLength(text) THEN <<>> ELSE from[PlainNext(start, stop)])
  IN from[0]

IsBlank(text) == \A i \in 1 .. Len(text) : text[i].kind = "blank"

ChunkMinutes(text) ==
  LET chunks == ChunkTurns(text, SplitTurns(text))
  IN IF chunks = <<>> /\ ~IsBlank(text) THEN ChunkPlain(text) ELSE chunks

(***************************************************************************)
(* chunk_budget: the project's line, the lines of its basis under it, and  *)
(* the department named above it.                                          *)
(***************************************************************************)
Flush(acc, text) ==
  IF acc.current = <<>> THEN acc
  ELSE [acc EXCEPT !.current = <<>>,
          !.chunks = Append(@, Chunk(LineStart(text, Head(acc.current)), LineStop(text, Last(acc.current)),
                                     acc.owner, "budget_line"))]

\* mutant: an empty line ends the project
EndsAtBlank(acc, text) == Flush(acc, text)
AtBlank(acc, text) == acc

ReadBudgetLine(acc, text, i) ==
  CASE text[i].kind = "blank" -> AtBlank(acc, text)
    [] text[i].kind = "department" -> [Flush(acc, text) EXCEPT !.department = <<i>>]
    [] text[i].kind = "project" -> [Flush(acc, text) EXCEPT !.current = <<i>>, !.owner = acc.department]
    [] text[i].kind = "basis" /\ acc.current # <<>> -> [acc EXCEPT !.current = Append(@, i)]
    [] OTHER -> Flush(acc, text)

ChunkBudget(text) ==
  LET nothing == [chunks |-> <<>>, department |-> <<>>, current |-> <<>>, owner |-> <<>>]
  IN Flush(FoldLeft(LAMBDA acc, i : ReadBudgetLine(acc, text, i), nothing, [i \in 1 .. Len(text) |-> i]), text).chunks

(***************************************************************************)
(* What a reader of the chunks may rely on.                                *)
(***************************************************************************)
Chars(a, b) == a .. b - 1
Covered(chunks) == UNION {Chars(chunks[n].start, chunks[n].stop) : n \in 1 .. Len(chunks)}

InOrder(chunks, text) ==
  /\ \A n \in 1 .. Len(chunks) : chunks[n].start < chunks[n].stop /\ chunks[n].stop <= TextLength(text)
  /\ \A n \in 1 .. Len(chunks) - 1 : chunks[n].stop <= chunks[n + 1].start

Spoken(text) == {i \in 1 .. Len(text) :
                   \/ text[i].kind \in Speakers
                   \/ text[i].kind = "speech" /\ \E k \in 1 .. i - 1 : text[k].kind \in Speakers}

\* The member whose question the official's line i answers.
QuestionOf(text, i) ==
  {q \in 1 .. i - 1 : text[q].kind = "member"
                      /\ \A k \in q + 1 .. i - 1 : text[k].kind \notin {"member", "chair"}}

\* Minutes: the chunks follow one another, none is too long, every word that is
\* spoken is in one, and an answer stays under the name of who asked.
MinutesChunked(text) ==
  LET chunks == ChunkMinutes(text)
  IN IF SplitTurns(text) = <<>>
     THEN IsBlank(text) \/ Covered(chunks) = Chars(0, TextLength(text))
     ELSE /\ InOrder(chunks, text)
          /\ \A n \in 1 .. Len(chunks) : chunks[n].stop - chunks[n].start <= MaxChunk
          /\ \A i \in Spoken(text) : Chars(LineStart(text, i), LineStop(text, i)) \subseteq Covered(chunks)
          /\ \A i \in 1 .. Len(text) : text[i].kind = "official" =>
               \A q \in QuestionOf(text, i), n \in 1 .. Len(chunks) :
                 chunks[n].start <= LineStart(text, i) /\ LineStart(text, i) < chunks[n].stop
                   => q \in ToSet(chunks[n].labels)

\* The lines of the block that project line i begins.
Block(text, i) ==
  {k \in i .. Len(text) : text[k].kind # "blank" /\ \A l \in i + 1 .. k : text[l].kind \in {"basis", "blank"}}
DepartmentOf(text, i) == {k \in 1 .. i - 1 : text[k].kind = "department"
                                             /\ \A l \in k + 1 .. i - 1 : text[l].kind # "department"}

\* Budget books: one chunk for each project, with the lines of its basis and
\* no other, under the department it belongs to.
BudgetChunked(text) ==
  LET chunks == ChunkBudget(text)
      projects == {i \in 1 .. Len(text) : text[i].kind = "project"}
  IN /\ InOrder(chunks, text) /\ Len(chunks) = Cardinality(projects)
     /\ \A i \in projects : \E n \in 1 .. Len(chunks) :
          /\ chunks[n].start = LineStart(text, i)
          /\ \A k \in 1 .. Len(text) : text[k].size > 0 =>
               (k \in Block(text, i) <=> Chars(LineStart(text, k), LineStop(text, k))
                                           \subseteq Chars(chunks[n].start, chunks[n].stop))
          /\ ToSet(chunks[n].labels) = DepartmentOf(text, i)
=============================================================================
