----------------------------- MODULE Collecting -----------------------------
(***************************************************************************)
(* One source read by the hourly ingest jobs and by backfills from the     *)
(* command line: the window that resumes from the cursor and the           *)
(* transaction around a run (pipeline/ingest.py, backfill.py), and the way *)
(* each adapter walks through what its provider lists (sources/g2b.py,     *)
(* clik.py, lofin.py, crawler.py) while the provider goes on publishing.   *)
(*                                                                         *)
(* Time is counted in days.  An item is the number of its publication; a   *)
(* document's content and its later versions are in Documents.             *)
(***************************************************************************)
EXTENDS Integers, Sequences, FiniteSets

CONSTANTS Runs,        \* bound: runs of this source at a time
          Days,        \* bound: the last day
          MaxItems,    \* bound: items ever published
          MaxShared,   \* bound: the same where runs overlap
          Shared,      \* bound: the adapters whose runs overlap, newest items first
          Overlap,     \* default_window goes back this far behind the cursor
          FirstDays,   \* backfill_days of default_window
          WindowDays,  \* Operation.window_days of the procurement service
          PageSize,    \* rows, page_size, pSize; posts on a board's page
          MaxPages     \* max_pages of the crawler

ASSUME CollectBoundAssumption ==
  /\ Runs \in Nat /\ Days \in Nat \ {0} /\ MaxItems \in Nat /\ MaxShared \in 0 .. MaxItems
  /\ Overlap \in Nat /\ WindowDays \in Nat \ {0} /\ PageSize \in Nat \ {0}
  \* the first window and the crawler's pages reach back to the first day
  /\ FirstDays \in Nat /\ FirstDays >= Days
  /\ MaxPages \in Nat /\ MaxPages * PageSize > MaxItems

VARIABLES
  adapter,  \* Source.adapter
  newest,   \* the provider lists the newest items first
  overlap,  \* runs overlap
  day,      \* today_kst
  dates,    \* dates[i]: the publication date of item i, in the order of appearance
  late,     \* history: items that appeared more than Overlap days after their date
  stored,   \* documents committed
  cursor,   \* Source.cursor["until"], 0 when there is none
  job,      \* the state of each run, NoJob when there is none
  owed      \* history: on time, and listed when a run began that has succeeded

provider == <<adapter, newest, overlap, dates, late>>
collectVars == <<provider, day, stored, cursor, job, owed>>

Adapters == {"g2b", "clik", "lofin", "crawler"}
NoJob == [on |-> FALSE]
Job == 1 .. Runs
Items == 1 .. Len(dates)

(***************************************************************************)
(* A run: its window, where it is in it, the rows of the last page it has  *)
(* yet to store, whether the row at their head was looked up and missing,  *)
(* what it has stored and not committed, and history: what was listed when *)
(* it began and how many items appeared since its last page.               *)
(***************************************************************************)
Run == [on : {TRUE}, cli : BOOLEAN, since : Int, until : 1 .. Days,
        from : Int, page : Nat, todo : SUBSET (1 .. MaxItems), missing : BOOLEAN,
        seen : SUBSET (1 .. MaxItems), got : SUBSET (1 .. MaxItems),
        began : SUBSET (1 .. MaxItems), shift : Nat]

CollectTypeOK ==
  /\ adapter \in Adapters /\ newest \in BOOLEAN /\ overlap \in BOOLEAN
  /\ day \in 1 .. Days
  /\ dates \in Seq(1 .. Days) /\ Len(dates) <= MaxItems /\ \A i \in Items : dates[i] <= day
  /\ late \subseteq Items /\ stored \subseteq Items /\ owed \subseteq Items \ late
  /\ cursor \in 0 .. day
  /\ job \in [Job -> {NoJob} \cup Run]
  \* the unique index: one transaction at most has inserted an item
  /\ \A j, k \in Job, i \in Items :
       job[j].on /\ job[k].on /\ i \in job[j].got /\ i \in job[k].got => j = k

CollectInit ==
  /\ adapter \in Adapters
  /\ newest \in IF adapter = "crawler" THEN {TRUE} ELSE BOOLEAN
  /\ overlap \in IF adapter \in Shared /\ newest THEN BOOLEAN ELSE {FALSE}
  /\ day = 1
  /\ dates = <<>> /\ late = {}
  /\ stored = {} /\ owed = {}
  /\ cursor = 0
  /\ job = [j \in Job |-> NoJob]

(***************************************************************************)
(* What the provider lists.                                                *)
(***************************************************************************)
Before(a, b) == dates[a] < dates[b] \/ (dates[a] = dates[b] /\ a < b)

InWindow(i, since, until) == since <= dates[i] /\ dates[i] <= until

\* The order of the list, and the place of an item among those asked for.
Precedes(a, b) == IF newest THEN Before(b, a) ELSE Before(a, b)
Place(i, asked) == Cardinality({k \in asked : k = i \/ Precedes(k, i)})

PageOf(asked, p) ==
  {i \in asked : (p - 1) * PageSize < Place(i, asked) /\ Place(i, asked) <= p * PageSize}

\* The days one request asks for.  The budget books are asked for by year and
\* the boards have no filter: both take what is in the window from all rows.
SliceEnd(r) == IF adapter = "g2b" /\ r.from + WindowDays - 1 < r.until
               THEN r.from + WindowDays - 1 ELSE r.until
Asked(r) == IF adapter \in {"lofin", "crawler"} THEN Items
            ELSE {i \in Items : InWindow(i, r.from, SliceEnd(r))}

(***************************************************************************)
(* The adapters' loops: whether this page was the last of its request.     *)
(***************************************************************************)
LastPage(r, rows) ==
  CASE adapter = "g2b"             -> r.page * PageSize >= Cardinality(Asked(r)) \/ rows = {}
    [] adapter \in {"clik", "lofin"} -> Cardinality(rows) < PageSize
    [] adapter = "crawler"         -> \/ rows \subseteq r.seen
                                      \/ \E i \in rows \ r.seen : dates[i] < r.since
                                      \/ r.page = MaxPages

\* After the last page comes the next slice of days, or nothing (page 0).
Turned(r, rows) ==
  IF ~LastPage(r, rows) THEN [r EXCEPT !.page = @ + 1]
  ELSE IF SliceEnd(r) < r.until THEN [r EXCEPT !.from = SliceEnd(r) + 1, !.page = 1]
  ELSE [r EXCEPT !.page = 0]

FetchPage(j) ==
  LET r == job[j]
      rows == PageOf(Asked(r), r.page)
      seen == IF adapter = "crawler" THEN r.seen ELSE {}
  IN /\ r.on /\ r.page > 0 /\ r.todo = {}
     /\ job' = [job EXCEPT ![j] = [Turned(r, rows) EXCEPT
                  !.todo = {i \in rows \ seen : InWindow(i, r.since, r.until)},
                  !.seen = IF adapter = "crawler" THEN @ \cup rows ELSE @,
                  !.shift = 0]]
     /\ UNCHANGED <<provider, day, stored, cursor, owed>>

(***************************************************************************)
(* upsert_record: a SELECT, then an INSERT under the unique index on       *)
(* (source_id, external_id).                                               *)
(***************************************************************************)
\* The rows are taken in the order of the list.
Row(j, i) == i \in job[j].todo /\ \A k \in job[j].todo \ {i} : Precedes(i, k)

Others(j) == {k \in Job \ {j} : job[k].on}
Holds(k, i) == i \in job[k].got

LookUp(j, i) ==
  LET r == job[j]
      known == i \in stored \cup r.got
  IN /\ r.on /\ Row(j, i) /\ ~r.missing
     /\ job' = [job EXCEPT ![j] = IF known THEN [r EXCEPT !.todo = @ \ {i}]
                                  ELSE [r EXCEPT !.missing = TRUE]]
     /\ UNCHANGED <<provider, day, stored, cursor, owed>>

Inserting(j, i) == job[j].on /\ job[j].missing /\ Row(j, i)

\* mutant: no unique index
NeverWaits(j, k) == FALSE

\* j waits for the transaction of k, which has inserted the same item.
WaitsFor(j, k) == k \in Others(j) /\ \E i \in Items : Inserting(j, i) /\ Holds(k, i)

Insert(j, i) ==
  /\ Inserting(j, i) /\ i \notin stored
  /\ \A k \in Others(j) : ~WaitsFor(j, k)
  /\ job' = [job EXCEPT ![j] = [job[j] EXCEPT !.todo = @ \ {i}, !.missing = FALSE,
                                              !.got = @ \cup {i}]]
  /\ UNCHANGED <<provider, day, stored, cursor, owed>>

\* IntegrityError, or the victim of a deadlock: not a source error, so the
\* whole run rolls back, a backfill too.
InsertFails(j, i) ==
  /\ Inserting(j, i)
  /\ i \in stored \/ \E k \in Others(j) : WaitsFor(j, k) /\ WaitsFor(k, j)
  /\ job' = [job EXCEPT ![j] = NoJob]
  /\ UNCHANGED <<provider, day, stored, cursor, owed>>

(***************************************************************************)
(* run_ingest.                                                             *)
(***************************************************************************)

\* mutant: no overlap behind the cursor
ResumeAtCursor(c) == c
ResumeFrom(c) == c - Overlap

DefaultSince == IF cursor = 0 THEN day - FirstDays ELSE ResumeFrom(cursor)

\* A run takes the first free place.
Begin(j, cli, since, until) ==
  /\ ~job[j].on /\ (\A k \in 1 .. j - 1 : job[k].on) /\ (overlap \/ Others(j) = {})
  /\ job' = [job EXCEPT ![j] =
       [on |-> TRUE, cli |-> cli, since |-> since, until |-> until, from |-> since, page |-> 1,
        todo |-> {}, missing |-> FALSE, seen |-> {}, got |-> {},
        began |-> {i \in Items \ late : dates[i] <= until}, shift |-> 0]]
  /\ UNCHANGED <<provider, day, stored, cursor, owed>>

\* The hourly job, or one the operators start without dates.
BeginIngest(j) == Begin(j, FALSE, DefaultSince, day)

\* manage sources ingest, or the operators' job with dates: the window is given.
\* Only windows that leave no gap behind the cursor: see the README.
BeginBackfill(j) ==
  \E cli \in BOOLEAN, until \in {day - 1, day} :
    /\ 1 <= until /\ DefaultSince <= until /\ Others(j) = {}
    /\ Begin(j, cli, DefaultSince, until)

Succeed(j) ==
  LET r == job[j]
  IN /\ r.on /\ r.page = 0 /\ r.todo = {}
     /\ stored' = stored \cup r.got
     /\ cursor' = r.until
     /\ owed' = owed \cup r.began
     /\ job' = [job EXCEPT ![j] = NoJob]
     /\ UNCHANGED <<provider, day>>

\* A request fails for good, or the calls run out: the job rolls back, a
\* backfill from the command line commits what it has stored, without the cursor.
StopOnSourceError(j) ==
  LET r == job[j]
  IN /\ r.on /\ r.page > 0 /\ r.todo = {}
     /\ stored' = IF r.cli THEN stored \cup r.got ELSE stored
     /\ job' = [job EXCEPT ![j] = NoJob]
     /\ UNCHANGED <<provider, day, cursor, owed>>

DieWhileCollecting(j) ==
  /\ job[j].on
  /\ job' = [job EXCEPT ![j] = NoJob]
  /\ UNCHANGED <<provider, day, stored, cursor, owed>>

(***************************************************************************)
(* The provider's side, and the calendar.                                  *)
(***************************************************************************)

\* An item appears under a date of today or before.  Between two pages of a
\* crawl less than a page of posts appears (see the README).
Publish ==
  /\ Len(dates) < IF overlap THEN MaxShared ELSE MaxItems
  /\ adapter = "crawler" => \A j \in Job : job[j].on => job[j].shift + 1 < PageSize
  /\ \E d \in 1 .. day :
       /\ dates' = Append(dates, d)
       /\ late' = IF day - d > Overlap THEN late \cup {Len(dates) + 1} ELSE late
  /\ job' = [j \in Job |-> IF job[j].on /\ adapter = "crawler"
                           THEN [job[j] EXCEPT !.shift = @ + 1] ELSE job[j]]
  /\ UNCHANGED <<adapter, newest, overlap, day, stored, cursor, owed>>

NextDay ==
  /\ day < Days /\ day' = day + 1
  /\ UNCHANGED <<provider, stored, cursor, job, owed>>

RunStep(j) ==
  \/ FetchPage(j) \/ Succeed(j)
  \/ \E i \in Items : LookUp(j, i) \/ Insert(j, i) \/ InsertFails(j, i)

CollectNext ==
  \/ \E j \in Job : \/ BeginIngest(j) \/ BeginBackfill(j) \/ RunStep(j)
                    \/ StopOnSourceError(j) \/ DieWhileCollecting(j)
  \/ Publish \/ NextDay

CollectSpec == CollectInit /\ [][CollectNext]_collectVars

\* The cursor tells the truth: whatever was listed when a run began, on time and
\* dated within reach of its window, is stored once that run has succeeded,
\* although runs overlap, end out of order, fail, are rolled back or move the
\* cursor backwards, and although pages shift while they are read.
NothingMissed == owed \subseteq stored
=============================================================================
