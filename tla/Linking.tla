------------------------------ MODULE Linking ------------------------------
(***************************************************************************)
(* Signals threaded into opportunities: link_signals and                   *)
(* refresh_opportunity (pipeline/link.py) as the jobs of several workers   *)
(* run them, the nightly refresh_lifecycle, documents that are processed   *)
(* again, and the review queue (api/routers/admin.py).                     *)
(*                                                                         *)
(* A document has one signal at a time, as the records of procurement do.  *)
(* Every job is one transaction at READ COMMITTED.                         *)
(***************************************************************************)
EXTENDS Naturals, FiniteSets, FiniteSetsExt

CONSTANTS Doc,         \* documents
          Doubtful,    \* those whose signal may need a review
          Number,      \* order plan, prespec and bid notice numbers
          Numberings,  \* which document may carry which numbers: a set of functions
          NoNumber, NoOpp,
          Workers,     \* link jobs at the same time
          MaxVersion,  \* bound: how often each document is processed
          MaxTroubles  \* bound: documents processed again, decisions of reviewers,
                       \* jobs that die, all together

ASSUME LinkingAssumption ==
  /\ IsFiniteSet(Doc)
  /\ Numberings \subseteq
       [Doc -> [plan : Number \cup {NoNumber}, prespec : Number \cup {NoNumber},
                notice : Number \cup {NoNumber}, notices : SUBSET Number]]
  /\ NoNumber \notin Number /\ NoOpp \notin Doc \X Nat
  /\ Workers \in Nat /\ MaxVersion \in [Doc -> Nat] /\ MaxTroubles \in Nat

VARIABLES
  refs,     \* external_refs: the order plan, prespec and bid notice number that a
            \* document carries, and the bid notices that it lists
  version,  \* how often a document has been processed
  verdict,  \* of its signal
  item,     \* the review item of its signal
  link,     \* the opportunity of its signal,
  method,   \* and what put it there
  opp,      \* rows of the opportunities
  at,       \* where each job is
  plan,     \* what a link job has decided, loaded and computed
  night,    \* the transaction of refresh_lifecycle
  late,     \* the tenders are more than 21 days old
  overlapped,  \* history: pairs of documents that were linked at the same time
  troubles

vars == <<refs, version, verdict, item, link, method, opp, at, plan, night, late, overlapped,
          troubles>>

Signal == UNION {{d} \X (1 .. MaxVersion[d]) : d \in Doc}
SignalOf(d) == <<d, version[d]>>
Current(s) == SignalOf(s[1]) = s

\* An opportunity has the name of the signal that seeded it.
Opp == Signal
None == "none"
Gone == [count |-> 0, stage |-> 0, status |-> "gone"]
Columns == [count : 0 .. Cardinality(Doc), stage : 0 .. 2, status : {"open", "closed"}]

\* The tender is out, or it is not: a bid notice has a number of its own.
StageOf(d) == IF refs[d].notice = NoNumber THEN 1 ELSE 2

LinkJob == {"link", "review"} \X Signal
RelinkJob == {"relink"} \X Signal
Job == LinkJob \cup RelinkJob
Place == {"none", "queued", "decided", "inserted", "computed", "kept"}

Method == {"seed", "ref", "similarity"}
NoPlan == [opp |-> NoOpp, method |-> None, loaded |-> Gone, found |-> Gone]
Plan == [opp : Opp \cup {NoOpp}, method : Method \cup {None},
         loaded : Columns \cup {Gone}, found : Columns \cup {Gone}]

Unread == [Gone EXCEPT !.status = "unread"]
Idle == [works |-> FALSE, loaded |-> [o \in Opp |-> Gone], found |-> [o \in Opp |-> Unread],
         flushed |-> {}]
Night == [works : BOOLEAN, loaded : [Opp -> Columns \cup {Gone}],
          found : [Opp -> Columns \cup {Gone, Unread}], flushed : SUBSET Opp]

Init ==
  /\ refs \in Numberings
  /\ version = [d \in Doc |-> 0]
  /\ verdict = [d \in Doc |-> None]
  /\ item = [d \in Doc |-> None]
  /\ link = [d \in Doc |-> NoOpp] /\ method = [d \in Doc |-> None]
  /\ opp = [o \in Opp |-> Gone]
  /\ at = [j \in Job |-> "none"]
  /\ plan = [j \in LinkJob |-> NoPlan]
  /\ night = Idle
  /\ late = FALSE /\ overlapped = {}
  /\ troubles = 0

Trouble == troubles < MaxTroubles /\ troubles' = troubles + 1

Active == {j \in LinkJob : at[j] \in {"decided", "inserted", "computed"}}
\* Jobs that have inserted a link and not committed it.
Holds(j) == at[j] \in {"inserted", "computed"}

\* refresh_opportunity: the columns that follow from the signals linked.
Aggregate(ds) ==
  LET stage == Max({StageOf(d) : d \in ds})
  IN IF ds = {} THEN Gone
     ELSE [count |-> Cardinality(ds), stage |-> stage,
           status |-> IF stage = 2 /\ late THEN "closed" ELSE "open"]
Linked(o) == {d \in Doc : link[d] = o}

\* The session writes the columns that differ from those it has loaded.
Flushed(row, loaded, found) ==
  [c \in DOMAIN row |-> IF found[c] = loaded[c] THEN row[c] ELSE found[c]]

(***************************************************************************)
(* process_document: the signal of a document is replaced, and the link of *)
(* the old one is gone with it.  Its DELETE waits for a job that has       *)
(* inserted a link.                                                        *)
(***************************************************************************)
Process(d) ==
  /\ version[d] < MaxVersion[d]
  /\ IF version[d] = 0 THEN UNCHANGED troubles ELSE Trouble
  /\ \A j \in LinkJob : Holds(j) => j[2] # SignalOf(d)
  /\ version' = [version EXCEPT ![d] = @ + 1]
  /\ link' = [link EXCEPT ![d] = NoOpp] /\ method' = [method EXCEPT ![d] = None]
  /\ \E v \in {"accepted"} \cup (IF d \in Doubtful THEN {"needs_review"} ELSE {}) :
       /\ verdict' = [verdict EXCEPT ![d] = v]
       /\ item' = [item EXCEPT ![d] = IF v = "needs_review" THEN "open" ELSE None]
  /\ at' = [at EXCEPT ![<<"link", <<d, version[d] + 1>>>>] = "queued"]
  /\ UNCHANGED <<refs, opp, plan, night, late, overlapped>>

(***************************************************************************)
(* The review queue.                                                       *)
(***************************************************************************)
\* What an enqueue makes of the jobs: refused while the job is under way or its
\* result is kept; an hour later it is not.
Enqueued(j) ==
  {[at EXCEPT ![j] = IF @ \in {"none", forgotten} THEN "queued" ELSE @] : forgotten \in {"none", "kept"}}

Decided(d, v, status) ==
  /\ item[d] # None
  /\ Trouble
  /\ verdict' = [verdict EXCEPT ![d] = v]
  /\ item' = [item EXCEPT ![d] = status]
  /\ UNCHANGED <<refs, version, link, method, opp, plan, night, late, overlapped>>

Approve(d) ==
  /\ Decided(d, "accepted", "approved")
  /\ at' \in Enqueued(<<"relink", SignalOf(d)>>)

Reject(d) ==
  /\ Decided(d, "rejected", "rejected")
  /\ UNCHANGED at

\* relink_signal: as a job of its own.
Relink(j) ==
  LET s == j[2]
      follow == IF Current(s) /\ verdict[s[1]] = "accepted"
                THEN Enqueued(<<"review", s>>) ELSE {at}
  IN /\ at[j] = "queued"
     /\ \E a \in follow : at' = [a EXCEPT ![j] = "kept"]
     /\ UNCHANGED <<refs, version, verdict, item, link, method, opp, plan, night, late, overlapped, troubles>>

(***************************************************************************)
(* link_signals.                                                           *)
(***************************************************************************)

\* mutant: whatever the verdict
UnlinkedOnly(s) == Current(s) /\ link[s[1]] = NoOpp
Eligible(s) == Current(s) /\ verdict[s[1]] = "accepted" /\ link[s[1]] = NoOpp

RefKeys == {"plan", "prespec"}
SameNumber(d, e, k) == refs[d][k] # NoNumber /\ refs[e][k] = refs[d][k]
Lists(d, e) == refs[e].notice \in refs[d].notices

\* The look-ups of _reference_match, in their order: the plan, the prespec, another
\* notice of the same tender, those that list this notice, the notices listed here.
Found(d, n) ==
  {e \in Doc \ {d} :
     /\ link[e] # NoOpp
     /\ CASE n = 1 -> SameNumber(d, e, "plan")
          [] n = 2 -> SameNumber(d, e, "prespec")
          [] n = 3 -> SameNumber(d, e, "notice")
          [] n = 4 -> Lists(e, d)
          [] n = 5 -> Lists(d, e)}

\* mutant: the prespec is looked up before the plan
PrespecFirst(d) ==
  {link[e] : e \in IF Found(d, 2) # {} THEN Found(d, 2)
                    ELSE UNION {Found(d, n) : n \in {m \in 1 .. 5 : \A l \in 1 .. (m - 1) : Found(d, l) = {}}}}
\* The first look-up that finds anything, and any row of what it finds.
ReferenceMatch(d) ==
  {link[e] : e \in UNION {Found(d, n) : n \in {m \in 1 .. 5 : \A l \in 1 .. (m - 1) : Found(d, l) = {}}}}

\* Two plan numbers, or two prespec numbers.
NumbersConflict(d, e) ==
  \E k \in RefKeys : NoNumber \notin {refs[d][k], refs[e][k]} /\ refs[d][k] # refs[e][k]

\* mutant: the numbers are not compared
Existing(d) == {o \in Opp : opp[o] # Gone}
\* An opportunity that holds another number is another purchase.
WithoutConflict(d) == {o \in Opp : opp[o] # Gone /\ \A e \in Linked(o) : ~NumbersConflict(d, e)}

\* mutant: likeness decides, references do not
LikeFirst(s) == (WithoutConflict(s[1]) \X {"similarity"}) \cup {<<s, "seed">>}
\* A reference decides; else the most alike, or a new opportunity, whose name is
\* that of the signal.
Targets(s) ==
  IF ReferenceMatch(s[1]) # {} THEN ReferenceMatch(s[1]) \X {"ref"}
  ELSE (WithoutConflict(s[1]) \X {"similarity"}) \cup {<<s, "seed">>}

Finish(j) ==
  /\ at' = [at EXCEPT ![j] = "kept"]
  /\ plan' = [plan EXCEPT ![j] = NoPlan]

Decide(j) ==
  /\ at[j] = "queued" /\ Eligible(j[2]) /\ Cardinality(Active) < Workers
  /\ \E t \in Targets(j[2]) :
       plan' = [plan EXCEPT ![j] = [opp |-> t[1], method |-> t[2], loaded |-> opp[t[1]], found |-> Gone]]
  /\ at' = [at EXCEPT ![j] = "decided"]
  /\ overlapped' = overlapped \cup {{j[2][1], k[2][1]} : k \in {l \in Active : l[2][1] # j[2][1]}}
  /\ UNCHANGED <<refs, version, verdict, item, link, method, opp, night, late, troubles>>

NothingToLink(j) ==
  /\ at[j] = "queued" /\ ~Eligible(j[2])
  /\ Finish(j)
  /\ UNCHANGED <<refs, version, verdict, item, link, method, opp, night, late, overlapped, troubles>>

Seeds(j) == plan[j].loaded = Gone
NightDeletes(o) == o \in night.flushed /\ night.found[o] = Gone
NightUpdates(o) == o \in night.flushed /\ night.found[o] # night.loaded[o]

\* Another transaction has inserted a link of the signal, or deletes the row.
Waits(j) ==
  \/ \E k \in LinkJob \ {j} : Holds(k) /\ k[2] = j[2]
  \/ NightDeletes(plan[j].opp)
\* Signal and opportunity still exist (foreign keys), and the signal has no link.
MayLink(j) ==
  Current(j[2]) /\ link[j[2][1]] = NoOpp /\ (Seeds(j) \/ opp[plan[j].opp] # Gone)

Insert(j) ==
  /\ at[j] = "decided" /\ ~Waits(j) /\ MayLink(j)
  /\ at' = [at EXCEPT ![j] = "inserted"]
  /\ UNCHANGED <<refs, version, verdict, item, link, method, opp, plan, night, late, overlapped, troubles>>

\* IntegrityError: the job has failed.
Conflict(j) ==
  /\ at[j] = "decided" /\ ~Waits(j) /\ ~MayLink(j)
  /\ Finish(j)
  /\ UNCHANGED <<refs, version, verdict, item, link, method, opp, night, late, overlapped, troubles>>

Compute(j) ==
  /\ at[j] = "inserted"
  /\ plan' = [plan EXCEPT ![j].found = Aggregate(Linked(plan[j].opp) \cup {j[2][1]})]
  /\ at' = [at EXCEPT ![j] = "computed"]
  /\ UNCHANGED <<refs, version, verdict, item, link, method, opp, night, late, overlapped, troubles>>

\* The UPDATE of the opportunity waits for the night's, and COMMIT follows.
Commit(j) ==
  LET p == plan[j]
  IN /\ at[j] = "computed" /\ ~NightUpdates(p.opp)
     /\ link' = [link EXCEPT ![j[2][1]] = p.opp]
     /\ method' = [method EXCEPT ![j[2][1]] = p.method]
     /\ opp' = [opp EXCEPT ![p.opp] = Flushed(@, p.loaded, p.found)]
     /\ Finish(j)
     /\ UNCHANGED <<refs, version, verdict, item, night, late, overlapped, troubles>>

\* Rolled back; arq runs the job again.
Dies(j) ==
  /\ j \in Active
  /\ Trouble
  /\ at' = [at EXCEPT ![j] = "queued"]
  /\ plan' = [plan EXCEPT ![j] = NoPlan]
  /\ UNCHANGED <<refs, version, verdict, item, link, method, opp, night, late, overlapped>>

(***************************************************************************)
(* refresh_lifecycle: every open opportunity, in one transaction.          *)
(***************************************************************************)
NightBegins ==
  /\ ~night.works /\ \E o \in Opp : opp[o].status = "open"
  /\ night' = [Idle EXCEPT !.works = TRUE,
                           !.loaded = [o \in Opp |-> IF opp[o].status = "open" THEN opp[o] ELSE Gone]]
  /\ UNCHANGED <<refs, version, verdict, item, link, method, opp, at, plan, late, overlapped, troubles>>

Surveyed == {o \in Opp : night.loaded[o] # Gone}

\* The read of the links flushes what has been computed before.
NightComputes(o) ==
  /\ o \in Surveyed /\ night.found[o] = Unread
  /\ \A p \in Surveyed : night.found[p] # Unread => p \in night.flushed
  /\ night' = [night EXCEPT !.found[o] = Aggregate(Linked(o))]
  /\ UNCHANGED <<refs, version, verdict, item, link, method, opp, at, plan, late, overlapped, troubles>>

\* A DELETE waits for those that have inserted a link to the row.
NightFlushes(o) ==
  /\ o \in Surveyed \ night.flushed /\ night.found[o] # Unread
  /\ night.found[o] = Gone => \A j \in LinkJob : Holds(j) => plan[j].opp # o
  /\ night' = [night EXCEPT !.flushed = @ \cup {o}]
  /\ UNCHANGED <<refs, version, verdict, item, link, method, opp, at, plan, late, overlapped, troubles>>

\* mutant: an opportunity without links is left as it is
RefreshedIfLinked(o) ==
  IF o \in night.flushed /\ night.found[o] # Gone
  THEN Flushed(opp[o], night.loaded[o], night.found[o]) ELSE opp[o]
Refreshed(o) ==
  CASE o \notin night.flushed -> opp[o]
    [] NightDeletes(o) -> Gone
    [] OTHER -> Flushed(opp[o], night.loaded[o], night.found[o])

\* mutant: the links of a deleted row stay
LinkStays(d) == link[d]
\* ON DELETE CASCADE, of links too that were committed since the night read them.
LinkKept(d) == IF \E o \in Opp : link[d] = o /\ NightDeletes(o) THEN NoOpp ELSE link[d]

NightCommits ==
  /\ night.works /\ night.flushed = Surveyed
  /\ opp' = [o \in Opp |-> Refreshed(o)]
  /\ link' = [d \in Doc |-> LinkKept(d)]
  /\ method' = [d \in Doc |-> IF LinkKept(d) = NoOpp THEN None ELSE method[d]]
  /\ night' = Idle
  /\ UNCHANGED <<refs, version, verdict, item, at, plan, late, overlapped, troubles>>

NightDies ==
  /\ night.works
  /\ Trouble
  /\ night' = Idle
  /\ UNCHANGED <<refs, version, verdict, item, link, method, opp, at, plan, late, overlapped>>

TimePasses ==
  /\ ~late /\ late' = TRUE
  /\ UNCHANGED <<refs, version, verdict, item, link, method, opp, at, plan, night, overlapped, troubles>>

LinkStep(j) == Insert(j) \/ Conflict(j) \/ Compute(j) \/ Commit(j)
NightStep ==
  \/ NightBegins \/ NightCommits
  \/ \E o \in Opp : NightComputes(o) \/ NightFlushes(o)

Next ==
  \/ \E d \in Doc : Process(d) \/ Approve(d) \/ Reject(d)
  \/ \E j \in RelinkJob : Relink(j)
  \/ \E j \in LinkJob : Decide(j) \/ NothingToLink(j) \/ LinkStep(j) \/ Dies(j)
  \/ NightStep \/ NightDies
  \/ TimePasses

Spec == Init /\ [][Next]_vars

\* A job that has begun goes on, and there is a next night.
FairSpec == Spec /\ WF_vars(NightStep) /\ WF_vars(\E j \in LinkJob : LinkStep(j))

-----------------------------------------------------------------------------
(***************************************************************************)
(* Properties.                                                             *)
(***************************************************************************)

\* Types; a link is to an opportunity that exists.
TypeOK ==
  /\ version \in [Doc -> Nat] /\ \A d \in Doc : version[d] <= MaxVersion[d]
  /\ verdict \in [Doc -> {None, "accepted", "needs_review", "rejected"}]
  /\ item \in [Doc -> {None, "open", "approved", "rejected"}]
  /\ link \in [Doc -> Opp \cup {NoOpp}] /\ method \in [Doc -> Method \cup {None}]
  /\ opp \in [Opp -> Columns \cup {Gone}]
  /\ at \in [Job -> Place]
  /\ plan \in [LinkJob -> Plan]
  /\ night \in Night
  /\ late \in BOOLEAN /\ overlapped \subseteq SUBSET Doc
  /\ troubles \in 0 .. MaxTroubles
  /\ \A d \in Doc : link[d] # NoOpp => opp[link[d]] # Gone

\* What waits for a reviewer is on no customer's list: a signal that is linked
\* has been accepted, by the verdict or by a reviewer, and one that is no
\* longer accepted has been rejected by a reviewer afterwards.
UnreviewedUnlinked ==
  \A d \in Doc : link[d] # NoOpp /\ verdict[d] # "accepted" => item[d] = "rejected"

\* The documents with the number that d has under k, and the keys looked up before k.
Fellows(d, k) == {e \in Doc : SameNumber(d, e, k)}
Before(k) == CASE k = "plan" -> {} [] k = "prespec" -> {"plan"} [] k = "notice" -> RefKeys

\* No document with that number has one that comes before it, nor have any two of
\* them been linked at the same time.
Leads(d, k) ==
  \A e \in Fellows(d, k) :
    /\ \A b \in Before(k) : refs[e][b] = NoNumber
    /\ \A f \in Fellows(d, k) : {e, f} \notin overlapped

\* The look-ups have an order: the documents of one order plan are in one
\* opportunity, whatever other numbers they carry; those of a prespec, or of a bid
\* notice, are if no number that comes before it leads one of them elsewhere.  All
\* of that unless some of them have been linked at the same time.
NumberLinks ==
  \A d \in Doc, k \in RefKeys \cup {"notice"} :
    Leads(d, k) => \A e \in Fellows(d, k) : link[d] # NoOpp /\ link[e] # NoOpp => link[d] = link[e]

\* One of the look-ups of either finds the other.
Meet(d, e) ==
  (\E k \in RefKeys \cup {"notice"} : SameNumber(d, e, k)) \/ Lists(d, e) \/ Lists(e, d)

\* Where there is a reference it decides, in whatever order the documents of a
\* purchase come and are processed again: of two that refer to each other and are
\* in two opportunities, one has been led away by a reference that it has besides.
\* Likeness, or a new opportunity, has parted them only if they have been linked at
\* the same time.
ReferencesDecide ==
  \A d, e \in Doc :
    Meet(d, e) /\ NoOpp \notin {link[d], link[e]} /\ link[d] # link[e] /\ {d, e} \notin overlapped
      => "ref" \in {method[d], method[e]}

\* Two plan numbers, or two prespec numbers, are two purchases, however alike the
\* titles: only a reference of one of the two puts both in one opportunity, or that
\* they have been linked at the same time.
NumbersApart ==
  \A d, e \in Doc :
    NumbersConflict(d, e) /\ link[d] = link[e] /\ link[d] # NoOpp /\ {d, e} \notin overlapped
      => "ref" \in {method[d], method[e]}

\* The jobs that compute stage and count of an opportunity from what each of
\* them sees overwrite each other, documents that are processed again take
\* links away: the nights repair all that on opportunities that are open.
Converges ==
  <>[](\A o \in Opp : opp[o].status = "open" => opp[o] = Aggregate(Linked(o)))
=============================================================================
