-------------------------------- MODULE Feed --------------------------------
(***************************************************************************)
(* The feed of recommended opportunities (api/routers/opportunities.py):   *)
(* pages of a list that nobody keeps.  Every page is one SELECT of its     *)
(* own, behind the last row of the page before; in between rows change and *)
(* the day ends.  The cursor (next) holds the key, the score and the id of *)
(* that row and the day of the first page.  The filters of the query are   *)
(* one condition here: a row is shown or not.                              *)
(***************************************************************************)
EXTENDS Integers, Sequences, SequencesExt, FiniteSets

CONSTANTS Listed,      \* ids of opportunities
          Scores,      \* recommendation scores, comparable
          PageLimits,  \* rows of a page that a client asks for
          LastFeedDay, \* bound: days
          MaxMoves     \* bound: rows that change during the walk

ASSUME FeedAssumption ==
  /\ Listed \subseteq Nat /\ IsFiniteSet(Listed) /\ Scores \subseteq Nat
  /\ PageLimits \subseteq Nat \ {0}
  /\ LastFeedDay \in Nat \ {0} /\ MaxMoves \in Nat

VARIABLES
  sort,    \* the order the customer has chosen
  limit,   \* rows of a page
  rows,    \* what the query joins: recommendation and opportunity
  feedDay, \* today_kst
  next,    \* what the next request sends
  pages,   \* the ids shown so far
  moved    \* rows that have changed since the first page

feedVars == <<sort, limit, rows, feedDay, next, pages, moved>>

FarAway == LastFeedDay + 1
FirstPage == [value |-> 0, score |-> 0, id |-> 0, day |-> 0]
NoMore == [FirstPage EXCEPT !.id = -1]

\* window: the start of the forecast window, FarAway when there is none;
\* signal: last_signal_at.
Row == [score : Scores, window : 1 .. FarAway, signal : 1 .. LastFeedDay, shown : BOOLEAN]
Cursor == [value : Nat, score : Scores, id : Listed, day : 1 .. LastFeedDay]

FeedInit ==
  /\ sort \in {"score", "soon", "recent"} /\ limit \in PageLimits
  /\ rows \in [Listed -> {r \in Row : (sort # "soon" => r.window = FarAway) /\ (sort # "recent" => r.signal = 1)}]
  /\ feedDay = 1
  /\ next = FirstPage /\ pages = <<>> /\ moved = {}

(***************************************************************************)
(* _sort_key, and ORDER BY key, score DESC, id DESC.                       *)
(***************************************************************************)
Later(a, b) == IF a > b THEN a ELSE b

SortKey(row, day) ==
  CASE sort = "soon"   -> Later(row.window, day)
    [] sort = "recent" -> row.signal
    [] sort = "score"  -> row.score

Ascending == sort = "soon"

\* Whether a row comes after a key, score and id in the list.
AfterTie(score, id, c) == score < c.score \/ (score = c.score /\ id < c.id)
Behind(key, score, id, c) ==
  \/ IF Ascending THEN key > c.value ELSE key < c.value
  \/ key = c.value /\ AfterTie(score, id, c)

CursorAt(o, day) == [value |-> SortKey(rows[o], day), score |-> rows[o].score, id |-> o, day |-> day]

IsBehind(o, c, day) == Behind(SortKey(rows[o], day), rows[o].score, o, c)
Precedes(a, b, day) == IsBehind(b, CursorAt(a, day), day)

\* mutant: "soon" is what is soon today
DayOfRequest == feedDay

\* The day the first page was served pins the order.
PinnedDay == IF next = FirstPage THEN feedDay ELSE next.day

\* What WHERE leaves, and what ORDER BY and LIMIT leave of it.
Found(day) ==
  {o \in Listed : rows[o].shown /\ (next = FirstPage \/ IsBehind(o, next, day))}

Page(found, day) ==
  {page \in [1 .. (IF limit < Cardinality(found) THEN limit ELSE Cardinality(found)) -> found] :
     \A n \in DOMAIN page :
       /\ \A m \in 1 .. n - 1 : Precedes(page[m], page[n], day)
       /\ \A o \in found \ ToSet(page) : Precedes(page[n], o, day)}

RequestPage ==
  /\ next # NoMore
  /\ \E page \in Page(Found(PinnedDay), PinnedDay) :
       /\ pages' = pages \o page
       /\ next' = IF Cardinality(Found(PinnedDay)) > limit
                    THEN CursorAt(page[limit], PinnedDay) ELSE NoMore
  /\ UNCHANGED <<sort, limit, rows, feedDay, moved>>

\* A refresh writes another score, window or last signal; feedback or a filter
\* takes the row out of the list or brings it back.
RowChanges(o) ==
  /\ Cardinality(moved) < MaxMoves /\ o \notin moved
  /\ next \notin {FirstPage, NoMore}
  /\ \E r \in Row :
       /\ (sort # "soon" => r.window = FarAway) /\ (sort # "recent" => r.signal = 1)
       /\ rows' = [rows EXCEPT ![o] = r]
  /\ moved' = moved \cup {o}
  /\ UNCHANGED <<sort, limit, feedDay, next, pages>>

DayEnds ==
  /\ feedDay < LastFeedDay /\ feedDay' = feedDay + 1
  /\ UNCHANGED <<sort, limit, rows, next, pages, moved>>

FeedNext == RequestPage \/ (\E o \in Listed : RowChanges(o)) \/ DayEnds

FeedSpec == FeedInit /\ [][FeedNext]_feedVars

FeedTypeOK ==
  /\ sort \in {"score", "soon", "recent"} /\ limit \in PageLimits
  /\ rows \in [Listed -> Row] /\ feedDay \in 1 .. LastFeedDay
  /\ next \in {FirstPage, NoMore} \cup Cursor
  /\ pages \in Seq(Listed) /\ moved \subseteq Listed

Still == Listed \ moved

OneOrder(day) ==
  \A m, n \in DOMAIN pages :
    m < n /\ {pages[m], pages[n]} \subseteq Still =>
      pages[m] # pages[n] /\ Precedes(pages[m], pages[n], day)

\* Whoever pages to the end has seen every opportunity that stayed where it was
\* once, and in the order of one day, that of the first page, although others
\* moved past it, came, went, or shared its key, and although midnight has
\* changed what "soon" means.
FeedExact ==
  /\ \E day \in 1 .. feedDay : next.day \in {0, day} /\ OneOrder(day)
  /\ next = NoMore => \A o \in Still : rows[o].shown => o \in ToSet(pages)
=============================================================================
