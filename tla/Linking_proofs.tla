--------------------------- MODULE Linking_proofs ---------------------------
(***************************************************************************)
(* Proofs about Linking, for any finite set of documents, any numbers,     *)
(* numbers of link jobs and versions.                                      *)
(*                                                                         *)
(* That references decide, between documents that are not linked at the    *)
(* same time, rests on what a job has decided and not yet written: nothing *)
(* that happens before its commit, short of a job that overlaps it, can    *)
(* make another opportunity the right one (AheadRight).                    *)
(***************************************************************************)
EXTENDS Linking, FiniteSetTheorems, TLAPS

\* The night deletes, updates and has read opportunities that exist: no one
\* else deletes them.
NightRight ==
  /\ \A o \in Surveyed : opp[o] # Gone
  /\ night.flushed \subseteq Surveyed
  /\ \A o \in night.flushed : night.found[o] # Unread

\* A link that is inserted and not committed: nobody has linked or replaced the
\* signal, and the opportunity will be there.
HoldsRight ==
  /\ \A j \in LinkJob : Holds(j) =>
       /\ Current(j[2]) /\ link[j[2][1]] = NoOpp
       /\ Seeds(j) \/ opp[plan[j].opp] # Gone
       /\ ~NightDeletes(plan[j].opp)
  /\ \A j, k \in LinkJob : Holds(j) /\ Holds(k) /\ j[2] = k[2] => j = k

\* What a link job has decided.
ActiveRight ==
  \A j \in Active :
    /\ plan[j].opp \in Opp /\ (Seeds(j) => plan[j].opp = j[2])
    /\ j[2][2] <= version[j[2][1]]
    /\ Current(j[2]) => verdict[j[2][1]] = "accepted" \/ item[j[2][1]] = "rejected"
    /\ at[j] = "computed" => plan[j].found \in Columns /\ plan[j].found.count # 0 /\ plan[j].found.stage # 0

\* The signal that seeded an opportunity is in it, until it is replaced.
OppRight ==
  \A s \in Opp : opp[s] # Gone => s[2] <= version[s[1]] /\ (Current(s) => link[s[1]] = s)

Keys == RefKeys \cup {"notice"}

\* Where a job is going, the documents whose number leads there are, those that its
\* document meets, and none with a conflicting number, unless by reference.
Ahead(j, e) ==
  LET d == j[2][1]
  IN /\ \A k \in Keys : Leads(d, k) /\ e \in Fellows(d, k) => link[e] = plan[j].opp
     /\ {d, e} \notin overlapped /\ plan[j].method # "ref" =>
          /\ Meet(d, e) => link[e] = plan[j].opp
          /\ NumbersConflict(d, e) => link[e] # plan[j].opp

AheadRight ==
  /\ \A j, k \in Active : j[2][1] # k[2][1] => {j[2][1], k[2][1]} \in overlapped
  /\ \A j \in Active : \A e \in Doc \ {j[2][1]} : link[e] # NoOpp => Ahead(j, e)

LinkInv ==
  /\ TypeOK /\ refs \in Numberings
  /\ NightRight /\ HoldsRight /\ ActiveRight /\ OppRight
  /\ UnreviewedUnlinked
  /\ AheadRight /\ NumberLinks /\ ReferencesDecide /\ NumbersApart

-----------------------------------------------------------------------------
(* Rows. *)

LEMMA ColumnsRight ==
  /\ \A c \in Columns : DOMAIN c = {"count", "stage", "status"} /\ c # Gone
  /\ DOMAIN Gone = {"count", "stage", "status"}
  /\ Unread \notin Columns \cup {Gone} /\ Idle \in Night
  /\ Gone.count = 0 /\ Gone.stage = 0 /\ Gone.status = "gone"
<1>1. Unread = [count |-> 0, stage |-> 0, status |-> "unread"]
  BY DEF Unread, Gone
<1>2. Idle \in Night
  BY DEF Idle, Night
<1>. QED  BY <1>1, <1>2 DEF Columns, Gone

LEMMA NoOppIsNoOpp == NoOpp \notin Opp
BY LinkingAssumption DEF Opp, Signal

\* The row of an opportunity with links is there; one without is to be deleted.
LEMMA AggregateRight ==
  ASSUME NEW ds \in SUBSET Doc
  PROVE  /\ ds = {} => Aggregate(ds) = Gone
         /\ ds # {} => Aggregate(ds) \in Columns /\ Aggregate(ds).count # 0 /\ Aggregate(ds).stage # 0
<1>. DEFINE stages == {StageOf(d) : d \in ds}
            stage == Max(stages)
            status == IF stage = 2 /\ late THEN "closed" ELSE "open"
<1>1. CASE ds = {}
  BY <1>1 DEF Aggregate
<1>2. CASE ds # {}
  <2>1. Cardinality(ds) \in 0 .. Cardinality(Doc) /\ Cardinality(ds) # 0
    BY <1>2, LinkingAssumption, FS_Subset, FS_CardinalityType
  <2>2. stages # {} /\ stages \subseteq {1, 2}
    BY <1>2 DEF StageOf
  <2>3. stage \in {1, 2}
    <3>1. \E x \in stages : \A y \in stages : x >= y
      BY <2>2
    <3>2. stage \in stages
      BY <3>1 DEF Max
    <3>. QED  BY <2>2, <3>2
  <2>4. Aggregate(ds) = [count |-> Cardinality(ds), stage |-> stage, status |-> status]
    BY <1>2 DEF Aggregate
  <2>5. status \in {"open", "closed"}
    OBVIOUS
  <2>. HIDE DEF stage, status
  <2>. QED  BY <1>2, <2>1, <2>3, <2>4, <2>5 DEF Columns
<1>. QED  BY <1>1, <1>2

\* What a session writes to a row that is there, or that it has inserted.
LEMMA FlushRight ==
  ASSUME NEW row \in Columns \cup {Gone}, NEW loaded \in Columns \cup {Gone}, NEW found \in Columns,
         row \in Columns \/ (loaded = Gone /\ found.count # 0 /\ found.stage # 0)
  PROVE  Flushed(row, loaded, found) \in Columns
<1>1. DOMAIN row = {"count", "stage", "status"}
  BY ColumnsRight
<1>2. CASE row \in Columns
  BY <1>2 DEF Flushed, Columns
<1>3. CASE loaded = Gone /\ found.count # 0 /\ found.stage # 0
  <2>1. found.status # "gone"
    BY DEF Columns
  <2>. QED  BY ColumnsRight DEF Flushed, Columns
<1>. QED  BY <1>2, <1>3

LEMMA SignalRight ==
  /\ \A s \in Signal : s[1] \in Doc /\ s[2] \in 1 .. MaxVersion[s[1]] /\ s = <<s[1], s[2]>>
  /\ \A s \in Signal : Current(s) <=> version[s[1]] = s[2]
  /\ \A j \in LinkJob : j[2] \in Signal /\ j \in Job
  /\ \A s, t \in Signal : s[1] = t[1] /\ Current(s) /\ Current(t) => s = t
<1>1. \A s \in Signal : s[1] \in Doc /\ s[2] \in 1 .. MaxVersion[s[1]] /\ s = <<s[1], s[2]>>
  BY DEF Signal
<1>2. \A s \in Signal : Current(s) <=> version[s[1]] = s[2]
  BY <1>1 DEF Current, SignalOf
<1>3. \A j \in LinkJob : j[2] \in Signal /\ j \in Job
  BY DEF LinkJob, Job
<1>. QED  BY <1>1, <1>2, <1>3

-----------------------------------------------------------------------------
(* References. *)

LEMMA MeetRight ==
  /\ \A d, e : Meet(d, e) <=> Meet(e, d)
  /\ \A d, e : NumbersConflict(d, e) <=> NumbersConflict(e, d)
  /\ \A k \in Keys, d, e \in Doc : e \in Fellows(d, k) =>
       /\ Meet(d, e) /\ Fellows(e, k) = Fellows(d, k) /\ d \in Fellows(d, k)
       /\ Leads(d, k) => Leads(e, k)
<1>1. \A d, e : Meet(d, e) <=> Meet(e, d)
  BY DEF Meet, SameNumber
<1>2. \A d, e : NumbersConflict(d, e) <=> NumbersConflict(e, d)
  BY DEF NumbersConflict
<1>3. ASSUME NEW k \in Keys, NEW d \in Doc, NEW e \in Doc, e \in Fellows(d, k)
      PROVE  /\ Meet(d, e) /\ Fellows(e, k) = Fellows(d, k) /\ d \in Fellows(d, k)
             /\ Leads(d, k) => Leads(e, k)
  <2>1. Meet(d, e)
    BY <1>3 DEF Meet, Fellows, Keys
  <2>2. Fellows(e, k) = Fellows(d, k) /\ d \in Fellows(d, k)
    BY <1>3 DEF Fellows, SameNumber
  <2>. QED  BY <2>1, <2>2 DEF Leads
<1>. QED  BY <1>1, <1>2, <1>3

\* A document that one of the look-ups finds is found by the first that finds any.
LEMMA MatchRight ==
  ASSUME NEW d \in Doc, NEW e \in Doc \ {d}, link[e] # NoOpp, Meet(d, e)
  PROVE  ReferenceMatch(d) # {}
<1>1. \E n \in 1 .. 5 : e \in Found(d, n)
  <2>1. SameNumber(d, e, "plan") => e \in Found(d, 1)
    BY DEF Found
  <2>2. SameNumber(d, e, "prespec") => e \in Found(d, 2)
    BY DEF Found
  <2>3. SameNumber(d, e, "notice") => e \in Found(d, 3)
    BY DEF Found
  <2>4. Lists(e, d) => e \in Found(d, 4)
    BY DEF Found
  <2>5. Lists(d, e) => e \in Found(d, 5)
    BY DEF Found
  <2>. QED  BY <2>1, <2>2, <2>3, <2>4, <2>5 DEF Meet, RefKeys
<1>2. \E n \in 1 .. 5 : Found(d, n) # {} /\ \A l \in 1 .. (n - 1) : Found(d, l) = {}
  <2>. DEFINE none(n) == Found(d, n) = {}
  <2>1. ~(none(1) /\ none(2) /\ none(3) /\ none(4) /\ none(5))
    BY <1>1
  <2>. HIDE DEF none
  <2>2. \E n \in 1 .. 5 : ~none(n) /\ \A l \in 1 .. (n - 1) : none(l)
    <3>1. CASE ~none(1)
      BY <3>1
    <3>2. CASE none(1) /\ ~none(2)
      BY <3>2
    <3>3. CASE none(1) /\ none(2) /\ ~none(3)
      BY <3>3
    <3>4. CASE none(1) /\ none(2) /\ none(3) /\ ~none(4)
      BY <3>4
    <3>5. CASE none(1) /\ none(2) /\ none(3) /\ none(4) /\ ~none(5)
      BY <3>5
    <3>. QED  BY <2>1, <3>1, <3>2, <3>3, <3>4, <3>5
  <2>. QED  BY <2>2 DEF none
<1>. QED  BY <1>2 DEF ReferenceMatch

\* A number that leads decides: no other look-up comes before it.
LEMMA LeadsRight ==
  ASSUME NumberLinks, NEW d \in Doc, NEW k \in Keys, Leads(d, k),
         NEW e \in Fellows(d, k) \ {d}, link[e] # NoOpp, NEW o \in ReferenceMatch(d)
  PROVE  o = link[e]
<1>. DEFINE place == IF k = "plan" THEN 1 ELSE IF k = "prespec" THEN 2 ELSE 3
<1>1. e \in Doc /\ d \in Fellows(d, k) /\ Fellows(e, k) = Fellows(d, k) /\ Leads(e, k)
  BY MeetRight DEF Fellows
<1>2. k \in {"plan", "prespec", "notice"}
  BY DEF Keys, RefKeys
<1>3. \A f : f \in Found(d, place) <=> f \in Fellows(d, k) \ {d} /\ link[f] # NoOpp
  <2>1. CASE k = "plan"
    BY <2>1 DEF Found, Fellows
  <2>2. CASE k = "prespec"
    BY <2>2 DEF Found, Fellows
  <2>3. CASE k = "notice"
    BY <2>3 DEF Found, Fellows
  <2>. QED  BY <1>2, <2>1, <2>2, <2>3
<1>4. \A l \in 1 .. (place - 1) : Found(d, l) = {}
  <2>1. \A b \in Before(k) : refs[d][b] = NoNumber
    BY <1>1 DEF Leads
  <2>2. CASE k = "plan"
    BY <2>2
  <2>3. CASE k = "prespec"
    BY <2>1, <2>3 DEF Before, Found, SameNumber
  <2>4. CASE k = "notice"
    <3>1. refs[d]["plan"] = NoNumber /\ refs[d]["prespec"] = NoNumber
      BY <2>1, <2>4 DEF Before, RefKeys
    <3>2. Found(d, 1) = {} /\ Found(d, 2) = {}
      BY <3>1 DEF Found, SameNumber
    <3>. QED  BY <2>4, <3>2
  <2>. QED  BY <1>2, <2>2, <2>3, <2>4
<1>5. PICK n \in 1 .. 5 : \E f \in Found(d, n) : o = link[f] /\ \A l \in 1 .. (n - 1) : Found(d, l) = {}
  BY DEF ReferenceMatch
<1>. PICK f \in Found(d, n) : o = link[f] /\ \A l \in 1 .. (n - 1) : Found(d, l) = {}
  BY <1>5
<1>6. n = place
  <2>1. e \in Found(d, place) /\ place \in 1 .. 3
    BY <1>2, <1>3
  <2>. HIDE DEF place
  <2>2. ~(place < n)
    BY <1>5, <2>1
  <2>3. ~(n < place)
    BY <1>4, <1>5, <2>1
  <2>. QED  BY <2>1, <2>2, <2>3
<1>7. f \in Fellows(e, k) /\ link[f] # NoOpp
  BY <1>1, <1>3, <1>5, <1>6
<1>8. link[e] = link[f]
  BY <1>1, <1>7 DEF NumberLinks, Keys
<1>. QED  BY <1>5, <1>8

\* What has been said of two documents holds on, if they are linked at the same time
\* later.
LEMMA RefsSame ==
  ASSUME refs' = refs, overlapped \subseteq overlapped'
  PROVE  /\ \A d, e : (Meet(d, e)' <=> Meet(d, e)) /\ (NumbersConflict(d, e)' <=> NumbersConflict(d, e))
         /\ \A d, k : Fellows(d, k)' = Fellows(d, k) /\ (Leads(d, k)' => Leads(d, k))
<1>1. \A d, e, k : SameNumber(d, e, k)' <=> SameNumber(d, e, k)
  BY DEF SameNumber
<1>2. \A d, e : (Meet(d, e)' <=> Meet(d, e)) /\ (NumbersConflict(d, e)' <=> NumbersConflict(d, e))
  BY <1>1 DEF Meet, Lists, NumbersConflict
<1>3. \A d, k : Fellows(d, k)' = Fellows(d, k)
  BY <1>1 DEF Fellows
<1>4. \A d, k : Leads(d, k)' => Leads(d, k)
  BY <1>3 DEF Leads
<1>. QED  BY <1>2, <1>3, <1>4

LEMMA ActiveDoc == \A j \in Active : j[2][1] \in Doc
BY SignalRight DEF Active

\* Links may go, and jobs may end.
LEMMA ReferencesKeep ==
  ASSUME AheadRight, NumberLinks, ReferencesDecide, NumbersApart,
         refs' = refs, overlapped' = overlapped,
         \A d \in Doc : link'[d] = NoOpp \/ (link'[d] = link[d] /\ method'[d] = method[d]),
         \A j \in Active' : j \in Active /\ plan'[j].opp = plan[j].opp /\ plan'[j].method = plan[j].method,
         \A j \in Active : j[2][1] \in Doc
  PROVE  AheadRight' /\ NumberLinks' /\ ReferencesDecide' /\ NumbersApart'
<1>1. /\ \A d, e : (Meet(d, e)' <=> Meet(d, e)) /\ (NumbersConflict(d, e)' <=> NumbersConflict(d, e))
      /\ \A d, k : Fellows(d, k)' = Fellows(d, k) /\ (Leads(d, k)' => Leads(d, k))
  BY RefsSame
<1>2. ASSUME NEW j \in Active', NEW e \in Doc \ {j[2][1]}, link'[e] # NoOpp
      PROVE  Ahead(j, e)'
  <2>1. j \in Active /\ link'[e] = link[e] /\ Ahead(j, e)
    BY <1>2 DEF AheadRight
  <2>2. plan'[j].opp = plan[j].opp /\ plan'[j].method = plan[j].method
    BY <1>2
  <2>3. \A k \in Keys : Leads(j[2][1], k)' /\ e \in Fellows(j[2][1], k)' => link'[e] = plan'[j].opp
    BY <1>1, <2>1, <2>2 DEF Ahead
  <2>4. {j[2][1], e} \notin overlapped' /\ plan'[j].method # "ref" =>
          /\ Meet(j[2][1], e)' => link'[e] = plan'[j].opp
          /\ NumbersConflict(j[2][1], e)' => link'[e] # plan'[j].opp
    BY <1>1, <2>1, <2>2 DEF Ahead
  <2>. QED  BY <2>3, <2>4 DEF Ahead, Keys, RefKeys
<1>3. AheadRight'
  BY <1>2 DEF AheadRight
<1>4. NumberLinks'
  BY <1>1 DEF NumberLinks, Fellows, RefKeys
<1>5. ReferencesDecide' /\ NumbersApart'
  BY <1>1 DEF ReferencesDecide, NumbersApart
<1>. QED  BY <1>3, <1>4, <1>5

-----------------------------------------------------------------------------
(* Steps that link nothing. *)

Under == {"decided", "inserted", "computed"}

\* Jobs are queued or end, reviewers decide.
LEMMA QuietStep ==
  ASSUME LinkInv, TypeOK', UNCHANGED <<refs, version, link, method, opp, night, overlapped>>,
         \A j \in LinkJob : at'[j] \in Under => at'[j] = at[j] /\ plan'[j] = plan[j],
         \A d \in Doc : \/ verdict'[d] = verdict[d] /\ item'[d] = item[d]
                        \/ verdict'[d] = "accepted" \/ item'[d] = "rejected"
  PROVE  LinkInv'
<1>. USE DEF LinkInv
<1>1. refs' \in Numberings /\ NightRight'
  BY DEF NightRight, Surveyed
<1>2. Active' \subseteq Active /\ \A j \in Active' : at'[j] = at[j] /\ plan'[j] = plan[j]
  BY DEF Active, Under
<1>3. \A j \in LinkJob : Holds(j)' => Holds(j) /\ at'[j] = at[j] /\ plan'[j] = plan[j]
  BY DEF Holds, Under
<1>4. \A s : Current(s)' <=> Current(s)
  BY DEF Current, SignalOf
<1>5. HoldsRight'
  BY <1>3, <1>4 DEF HoldsRight, Seeds, NightDeletes
<1>6. ActiveRight'
  <2>. SUFFICES ASSUME NEW j \in Active'
                PROVE  /\ plan'[j].opp \in Opp /\ (Seeds(j)' => plan'[j].opp = j[2])
                       /\ j[2][2] <= version'[j[2][1]]
                       /\ Current(j[2])' => verdict'[j[2][1]] = "accepted" \/ item'[j[2][1]] = "rejected"
                       /\ at'[j] = "computed" => /\ plan'[j].found \in Columns
                                                 /\ plan'[j].found.count # 0 /\ plan'[j].found.stage # 0
    BY DEF ActiveRight
  <2>1. j \in Active /\ at'[j] = at[j] /\ plan'[j] = plan[j] /\ j[2][1] \in Doc
    BY <1>2, SignalRight DEF Active
  <2>2. Current(j[2])' => verdict[j[2][1]] = "accepted" \/ item[j[2][1]] = "rejected"
    BY <1>4, <2>1 DEF ActiveRight
  <2>3. /\ plan'[j].opp \in Opp /\ (Seeds(j)' => plan'[j].opp = j[2])
        /\ j[2][2] <= version'[j[2][1]]
        /\ at'[j] = "computed" => /\ plan'[j].found \in Columns
                                  /\ plan'[j].found.count # 0 /\ plan'[j].found.stage # 0
    BY <2>1 DEF ActiveRight, Seeds
  <2>. QED  BY <2>1, <2>2, <2>3
<1>7. OppRight'
  BY <1>4 DEF OppRight
<1>8. UnreviewedUnlinked'
  BY DEF UnreviewedUnlinked
<1>9. AheadRight' /\ NumberLinks' /\ ReferencesDecide' /\ NumbersApart'
  BY <1>2, ActiveDoc, ReferencesKeep
<1>. QED  BY <1>1, <1>5, <1>6, <1>7, <1>8, <1>9

\* The night reads and flushes.
LEMMA NightStepKeeps ==
  ASSUME LinkInv, TypeOK', NightRight',
         UNCHANGED <<refs, version, verdict, item, link, method, opp, at, plan, overlapped>>,
         \A j \in LinkJob : Holds(j) => ~NightDeletes(plan[j].opp)'
  PROVE  LinkInv'
<1>. USE DEF LinkInv
<1>1. Active' = Active /\ (\A j \in LinkJob : Holds(j)' <=> Holds(j)) /\ \A s : Current(s)' <=> Current(s)
  BY DEF Active, Holds, Current, SignalOf
<1>2. HoldsRight'
  BY <1>1 DEF HoldsRight, Seeds
<1>3. ActiveRight'
  BY <1>1 DEF ActiveRight, Seeds
<1>4. OppRight' /\ UnreviewedUnlinked'
  BY <1>1 DEF OppRight, UnreviewedUnlinked
<1>5. AheadRight' /\ NumberLinks' /\ ReferencesDecide' /\ NumbersApart'
  BY <1>1, ActiveDoc, ReferencesKeep
<1>. QED  BY <1>2, <1>3, <1>4, <1>5

-----------------------------------------------------------------------------
(* Each action keeps the invariant. *)

\* An enqueue changes no job that is under way.
LEMMA EnqueueRight ==
  ASSUME at \in [Job -> Place], NEW j, NEW a \in Enqueued(j)
  PROVE  /\ a \in [Job -> Place]
         /\ \A k \in Job : a[k] \in Under => a[k] = at[k]
<1>1. PICK f \in {"none", "kept"} : a = [at EXCEPT ![j] = IF @ \in {"none", f} THEN "queued" ELSE @]
  BY DEF Enqueued
<1>2. "queued" \in Place /\ "queued" \notin Under
  BY DEF Place, Under
<1>. QED  BY <1>1, <1>2

LEMMA ReviewKeeps ==
  ASSUME LinkInv, NEW d \in Doc, Approve(d) \/ Reject(d)
  PROVE  LinkInv'
<1>1. item[d] # None /\ TypeOK /\ troubles' \in 0 .. MaxTroubles
  BY LinkingAssumption DEF Approve, Reject, Decided, Trouble, LinkInv, TypeOK
<1>2. UNCHANGED <<refs, version, link, method, opp, plan, night, late, overlapped>>
  BY DEF Approve, Reject, Decided
<1>3. /\ verdict' \in [Doc -> {None, "accepted", "needs_review", "rejected"}]
      /\ item' \in [Doc -> {None, "open", "approved", "rejected"}]
      /\ \A e \in Doc : \/ verdict'[e] = verdict[e] /\ item'[e] = item[e]
                        \/ verdict'[e] = "accepted" \/ item'[e] = "rejected"
  <2>1. \/ verdict' = [verdict EXCEPT ![d] = "accepted"] /\ item' = [item EXCEPT ![d] = "approved"]
        \/ verdict' = [verdict EXCEPT ![d] = "rejected"] /\ item' = [item EXCEPT ![d] = "rejected"]
    BY DEF Approve, Reject, Decided
  <2>. QED  BY <1>1, <2>1 DEF TypeOK
<1>4. at' \in [Job -> Place] /\ \A k \in Job : at'[k] \in Under => at'[k] = at[k]
  <2>1. at \in [Job -> Place]
    BY <1>1 DEF TypeOK
  <2>2. CASE Approve(d)
    <3>1. at' \in Enqueued(<<"relink", SignalOf(d)>>)
      BY <2>2 DEF Approve
    <3>. QED  BY <2>1, <3>1, EnqueueRight
  <2>3. CASE Reject(d)
    BY <2>1, <2>3 DEF Reject
  <2>. QED  BY <2>2, <2>3
<1>5. TypeOK'
  BY <1>1, <1>2, <1>3, <1>4 DEF TypeOK
<1>6. \A j \in LinkJob : at'[j] \in Under => at'[j] = at[j] /\ plan'[j] = plan[j]
  BY <1>2, <1>4, SignalRight
<1>. QED  BY <1>2, <1>3, <1>5, <1>6, QuietStep

LEMMA RelinkKeeps ==
  ASSUME LinkInv, NEW j \in RelinkJob, Relink(j)
  PROVE  LinkInv'
<1>1. /\ TypeOK
      /\ UNCHANGED <<refs, version, verdict, item, link, method, opp, plan, night, late, overlapped, troubles>>
  BY DEF Relink, LinkInv
<1>2. at' \in [Job -> Place] /\ \A k \in LinkJob : at'[k] \in Under => at'[k] = at[k]
  <2>1. at \in [Job -> Place]
    BY <1>1 DEF TypeOK
  <2>2. PICK a \in {at} \cup Enqueued(<<"review", j[2]>>) : at' = [a EXCEPT ![j] = "kept"]
    BY DEF Relink
  <2>3. a \in [Job -> Place] /\ \A k \in Job : a[k] \in Under => a[k] = at[k]
    BY <2>1, <2>2, EnqueueRight
  <2>4. "kept" \in Place /\ "kept" \notin Under
    BY DEF Place, Under
  <2>. QED  BY <2>2, <2>3, <2>4, SignalRight
<1>3. TypeOK'
  BY <1>1, <1>2 DEF TypeOK
<1>. QED  BY <1>1, <1>2, <1>3, QuietStep

LEMMA NoPlanRight == NoPlan \in Plan
BY DEF NoPlan, Plan

\* A job that ends, or will be run again.
LEMMA LeavingKeeps ==
  ASSUME LinkInv, NEW j \in LinkJob, NEW to \in {"queued", "kept"},
         at' = [at EXCEPT ![j] = to], plan' = [plan EXCEPT ![j] = NoPlan], troubles' \in 0 .. MaxTroubles,
         UNCHANGED <<refs, version, verdict, item, link, method, opp, night, late, overlapped>>
  PROVE  LinkInv'
<1>1. TypeOK /\ to \in Place /\ to \notin Under /\ j \in Job
  BY SignalRight DEF LinkInv, Place, Under
<1>2. at' \in [Job -> Place] /\ plan' \in [LinkJob -> Plan]
  BY <1>1, NoPlanRight DEF TypeOK
<1>3. TypeOK'
  BY <1>1, <1>2 DEF TypeOK
<1>4. \A k \in LinkJob : at'[k] \in Under => at'[k] = at[k] /\ plan'[k] = plan[k]
  BY <1>1, SignalRight DEF TypeOK
<1>. QED  BY <1>3, <1>4, QuietStep

LEMMA EndsKeeps ==
  ASSUME LinkInv, NEW j \in LinkJob, NothingToLink(j) \/ Conflict(j) \/ Dies(j)
  PROVE  LinkInv'
<1>1. troubles \in 0 .. MaxTroubles
  BY DEF LinkInv, TypeOK
<1>2. CASE NothingToLink(j) \/ Conflict(j)
  BY <1>1, <1>2, LeavingKeeps DEF NothingToLink, Conflict, Finish
<1>3. CASE Dies(j)
  <2>1. troubles' \in 0 .. MaxTroubles
    BY <1>1, <1>3, LinkingAssumption DEF Dies, Trouble
  <2>. QED  BY <1>3, <2>1, LeavingKeeps DEF Dies
<1>. QED  BY <1>2, <1>3

LEMMA TimePassesKeeps ==
  ASSUME LinkInv, TimePasses
  PROVE  LinkInv'
<1>1. UNCHANGED <<refs, version, verdict, item, link, method, opp, at, plan, night, overlapped, troubles>> /\ late' = TRUE
  BY DEF TimePasses
<1>2. TypeOK'
  BY <1>1 DEF LinkInv, TypeOK
<1>. QED  BY <1>1, <1>2, QuietStep

\* The night.
LEMMA NightBeginsKeeps ==
  ASSUME LinkInv, NightBegins
  PROVE  LinkInv'
<1>1. UNCHANGED <<refs, version, verdict, item, link, method, opp, at, plan, late, overlapped, troubles>>
  BY DEF NightBegins
<1>. DEFINE loaded == [o \in Opp |-> IF opp[o].status = "open" THEN opp[o] ELSE Gone]
<1>2. night' = [Idle EXCEPT !.works = TRUE, !.loaded = loaded]
  BY DEF NightBegins
<1>3. loaded \in [Opp -> Columns \cup {Gone}] /\ \A o \in Opp : loaded[o] # Gone => opp[o] # Gone
  BY DEF LinkInv, TypeOK
<1>. HIDE DEF loaded
<1>4. night' = [works |-> TRUE, loaded |-> loaded, found |-> [o \in Opp |-> Unread], flushed |-> {}]
  BY <1>2 DEF Idle
<1>5. night' \in Night
  BY <1>3, <1>4 DEF Night
<1>6. TypeOK'
  BY <1>1, <1>5 DEF LinkInv, TypeOK
<1>7. NightRight'
  BY <1>1, <1>3, <1>4 DEF NightRight, Surveyed
<1>8. \A j \in LinkJob : Holds(j) => ~NightDeletes(plan[j].opp)'
  BY <1>4 DEF NightDeletes
<1>. QED  BY <1>1, <1>6, <1>7, <1>8, NightStepKeeps

LEMMA NightComputesKeeps ==
  ASSUME LinkInv, NEW o \in Opp, NightComputes(o)
  PROVE  LinkInv'
<1>1. UNCHANGED <<refs, version, verdict, item, link, method, opp, at, plan, late, overlapped, troubles>>
  BY DEF NightComputes
<1>. DEFINE row == Aggregate(Linked(o))
<1>2. o \in Surveyed /\ night.found[o] = Unread /\ night' = [night EXCEPT !.found[o] = row]
  BY DEF NightComputes
<1>3. row \in Columns \cup {Gone} /\ row # Unread
  <2>1. Linked(o) \in SUBSET Doc
    BY DEF Linked
  <2>. QED  BY <2>1, AggregateRight, ColumnsRight
<1>. HIDE DEF row
<1>4. night \in Night /\ NightRight /\ HoldsRight
  BY DEF LinkInv, TypeOK
<1>5. /\ night'.loaded = night.loaded /\ night'.flushed = night.flushed /\ night'.works = night.works
      /\ night'.found = [night.found EXCEPT ![o] = row]
  BY <1>2, <1>4 DEF Night
<1>6. night' \in Night
  BY <1>2, <1>3, <1>4 DEF Night
<1>7. TypeOK'
  BY <1>1, <1>6 DEF LinkInv, TypeOK
<1>8. o \notin night.flushed
  BY <1>2, <1>4 DEF NightRight
<1>9. \A p \in Opp \ {o} : night'.found[p] = night.found[p]
  BY <1>4, <1>5 DEF Night
<1>10. NightRight'
  <2>1. Surveyed' = Surveyed /\ night.flushed \subseteq Opp
    BY <1>4, <1>5 DEF Surveyed, Night
  <2>. QED  BY <1>1, <1>4, <1>5, <1>8, <2>1 DEF NightRight
<1>11. \A j \in LinkJob : Holds(j) => ~NightDeletes(plan[j].opp)'
  <2>1. night.flushed \subseteq Opp
    BY <1>4 DEF Night
  <2>. QED  BY <1>1, <1>4, <1>5, <1>8 DEF NightDeletes, HoldsRight
<1>. QED  BY <1>1, <1>7, <1>10, <1>11, NightStepKeeps

LEMMA NightFlushesKeeps ==
  ASSUME LinkInv, NEW o \in Opp, NightFlushes(o)
  PROVE  LinkInv'
<1>1. UNCHANGED <<refs, version, verdict, item, link, method, opp, at, plan, late, overlapped, troubles>>
  BY DEF NightFlushes
<1>2. /\ o \in Surveyed /\ night.found[o] # Unread /\ night' = [night EXCEPT !.flushed = @ \cup {o}]
      /\ night.found[o] = Gone => \A j \in LinkJob : Holds(j) => plan[j].opp # o
  BY DEF NightFlushes
<1>3. night \in Night /\ NightRight /\ HoldsRight
  BY DEF LinkInv, TypeOK
<1>4. /\ night'.loaded = night.loaded /\ night'.found = night.found
      /\ night'.flushed = night.flushed \cup {o}
  BY <1>2, <1>3 DEF Night
<1>5. night' \in Night
  BY <1>2, <1>3 DEF Night
<1>6. TypeOK'
  BY <1>1, <1>5 DEF LinkInv, TypeOK
<1>7. NightRight'
  BY <1>1, <1>2, <1>3, <1>4 DEF NightRight, Surveyed
<1>8. \A j \in LinkJob : Holds(j) => ~NightDeletes(plan[j].opp)'
  BY <1>1, <1>2, <1>3, <1>4 DEF NightDeletes, HoldsRight
<1>. QED  BY <1>1, <1>6, <1>7, <1>8, NightStepKeeps

LEMMA NightDiesKeeps ==
  ASSUME LinkInv, NightDies
  PROVE  LinkInv'
<1>1. UNCHANGED <<refs, version, verdict, item, link, method, opp, at, plan, late, overlapped>> /\ night' = Idle
  BY DEF NightDies
<1>2. troubles' \in 0 .. MaxTroubles
  BY LinkingAssumption DEF NightDies, Trouble, LinkInv, TypeOK
<1>3. TypeOK'
  BY <1>1, <1>2, ColumnsRight DEF LinkInv, TypeOK
<1>4. night'.flushed = {} /\ \A o \in Opp : night'.loaded[o] = Gone
  BY <1>1 DEF Idle
<1>5. NightRight'
  BY <1>4 DEF NightRight, Surveyed
<1>6. \A j \in LinkJob : Holds(j) => ~NightDeletes(plan[j].opp)'
  BY <1>4 DEF NightDeletes
<1>. QED  BY <1>1, <1>3, <1>5, <1>6, NightStepKeeps

\* A link job decides.
LEMMA DecideKeeps ==
  ASSUME LinkInv, NEW j \in LinkJob, Decide(j)
  PROVE  LinkInv'
<1>. DEFINE d == j[2][1]
<1>1. PICK t \in Targets(j[2]) :
        plan' = [plan EXCEPT ![j] = [opp |-> t[1], method |-> t[2], loaded |-> opp[t[1]], found |-> Gone]]
  BY DEF Decide
<1>. DEFINE o == t[1]
<1>2. /\ at[j] = "queued" /\ Eligible(j[2])
      /\ at' = [at EXCEPT ![j] = "decided"]
      /\ overlapped' = overlapped \cup {{d, k[2][1]} : k \in {l \in Active : l[2][1] # d}}
      /\ UNCHANGED <<refs, version, verdict, item, link, method, opp, night, late, troubles>>
  BY DEF Decide
<1>3. TypeOK /\ d \in Doc /\ j[2] \in Signal /\ j \in Job
  BY SignalRight DEF LinkInv
<1>4. Current(j[2]) /\ verdict[d] = "accepted" /\ link[d] = NoOpp /\ j[2][2] = version[d]
  BY <1>2, SignalRight DEF Eligible
\* The target exists, or it is the signal's own; a reference has led there, or there
\* is none.
<1>5. /\ o \in Opp /\ (opp[o] # Gone \/ o = j[2])
      /\ t[2] \in Method
      /\ \/ o \in ReferenceMatch(d) /\ t[2] = "ref"
         \/ ReferenceMatch(d) = {} /\ o \in WithoutConflict(d) \cup {j[2]}
  <2>1. \/ o \in ReferenceMatch(d) /\ t[2] = "ref"
        \/ ReferenceMatch(d) = {} /\ o \in WithoutConflict(d) /\ t[2] = "similarity"
        \/ ReferenceMatch(d) = {} /\ o = j[2] /\ t[2] = "seed"
    BY DEF Targets
  <2>2. CASE o \in ReferenceMatch(d)
    <3>1. PICK e \in Doc : link[e] # NoOpp /\ o = link[e]
      BY <2>2 DEF ReferenceMatch, Found
    <3>. QED  BY <1>3, <2>1, <3>1 DEF TypeOK, Method
  <2>3. CASE o \in WithoutConflict(d) \cup {j[2]}
    BY <1>3, <2>1, <2>3 DEF WithoutConflict, Opp, Method
  <2>. QED  BY <2>1, <2>2, <2>3
<1>. HIDE DEF o
<1>6. plan'[j] = [opp |-> o, method |-> t[2], loaded |-> opp[o], found |-> Gone] /\ plan' \in [LinkJob -> Plan]
      /\ \A k \in LinkJob \ {j} : plan'[k] = plan[k]
  BY <1>1, <1>3, <1>5 DEF TypeOK, Plan, o
<1>7. /\ at' \in [Job -> Place] /\ at'[j] = "decided"
      /\ \A k \in Job \ {j} : at'[k] = at[k]
  BY <1>2, <1>3 DEF TypeOK, Place
<1>8. overlapped' \subseteq SUBSET Doc /\ overlapped \subseteq overlapped'
  BY <1>2, <1>3, ActiveDoc DEF TypeOK
<1>9. TypeOK'
  BY <1>2, <1>3, <1>6, <1>7, <1>8 DEF TypeOK
<1>10. NightRight' /\ refs' \in Numberings /\ UnreviewedUnlinked' /\ OppRight'
  BY <1>2 DEF LinkInv, NightRight, Surveyed, UnreviewedUnlinked, OppRight, Current, SignalOf
<1>11. Active' \subseteq Active \cup {j} /\ (\A k \in LinkJob : Holds(k)' => Holds(k) /\ k # j)
  BY <1>7, SignalRight DEF Active, Holds
<1>12. \A s : Current(s)' <=> Current(s)
  BY <1>2 DEF Current, SignalOf
<1>13. HoldsRight'
  BY <1>2, <1>6, <1>11, <1>12 DEF LinkInv, HoldsRight, Seeds, NightDeletes
<1>14. ActiveRight'
  <2>. SUFFICES ASSUME NEW k \in Active'
                PROVE  /\ plan'[k].opp \in Opp /\ (Seeds(k)' => plan'[k].opp = k[2])
                       /\ k[2][2] <= version'[k[2][1]]
                       /\ Current(k[2])' => verdict'[k[2][1]] = "accepted" \/ item'[k[2][1]] = "rejected"
                       /\ at'[k] = "computed" => /\ plan'[k].found \in Columns
                                                 /\ plan'[k].found.count # 0 /\ plan'[k].found.stage # 0
    BY DEF ActiveRight
  <2>1. CASE k = j
    <3>1. version[d] \in Nat
      BY <1>3 DEF TypeOK
    <3>2. j[2][2] <= version[d]
      BY <1>4, <3>1
    <3>. QED  BY <1>2, <1>4, <1>5, <1>6, <2>1, <3>2 DEF Seeds
  <2>2. CASE k # j
    <3>1. k \in Active /\ plan'[k] = plan[k] /\ at'[k] = at[k]
      BY <1>6, <1>7, <1>11, <2>2, SignalRight DEF Active
    <3>. QED  BY <1>2, <1>12, <3>1 DEF LinkInv, ActiveRight, Seeds
  <2>. QED  BY <2>1, <2>2
\* Those that it meets are where it goes, and none with another number is.
<1>15. ASSUME NEW e \in Doc \ {d}, link[e] # NoOpp
       PROVE  /\ \A k \in Keys : Leads(d, k) /\ e \in Fellows(d, k) => link[e] = o
              /\ t[2] # "ref" =>
                   /\ Meet(d, e) => link[e] = o
                   /\ NumbersConflict(d, e) => link[e] # o
  <2>1. CASE o \in ReferenceMatch(d) /\ t[2] = "ref"
    BY <1>3, <1>15, <2>1, LeadsRight DEF LinkInv
  <2>2. CASE ReferenceMatch(d) = {} /\ o \in WithoutConflict(d) \cup {j[2]}
    <3>1. ~Meet(d, e) /\ \A k \in Keys : e \notin Fellows(d, k)
      BY <1>3, <1>15, <2>2, MatchRight, MeetRight
    <3>2. CASE o \in WithoutConflict(d)
      BY <3>1, <3>2 DEF WithoutConflict, Linked
    <3>3. CASE o = j[2]
      <4>1. link[e] # o
        BY <1>3, <1>4, <1>15, <3>3, NoOppIsNoOpp DEF LinkInv, TypeOK, OppRight, Opp
      <4>. QED  BY <3>1, <4>1
    <3>. QED  BY <2>2, <3>1, <3>2, <3>3
  <2>. QED  BY <1>5, <2>1, <2>2
<1>16. /\ \A x, y : (Meet(x, y)' <=> Meet(x, y)) /\ (NumbersConflict(x, y)' <=> NumbersConflict(x, y))
       /\ \A x, k : Fellows(x, k)' = Fellows(x, k) /\ (Leads(x, k)' => Leads(x, k))
  BY <1>2, <1>8, RefsSame
<1>17. AheadRight'
  <2>1. ASSUME NEW k \in Active', NEW l \in Active', k[2][1] # l[2][1]
        PROVE  {k[2][1], l[2][1]} \in overlapped'
    <3>1. CASE k # j /\ l # j
      BY <1>8, <1>11, <2>1, <3>1 DEF LinkInv, AheadRight
    <3>2. CASE k = j
      BY <1>2, <1>11, <2>1, <3>2
    <3>3. CASE l = j
      <4>1. {l[2][1], k[2][1]} \in overlapped'
        BY <1>2, <1>11, <2>1, <3>3
      <4>. QED  BY <4>1
    <3>. QED  BY <3>1, <3>2, <3>3
  <2>2. ASSUME NEW k \in Active', NEW e \in Doc \ {k[2][1]}, link'[e] # NoOpp
        PROVE  Ahead(k, e)'
    <3>1. CASE k = j
      <4>1. \A i \in Keys : Leads(d, i)' /\ e \in Fellows(d, i)' => link'[e] = plan'[j].opp
        BY <1>2, <1>6, <1>15, <1>16, <2>2, <3>1
      <4>2. link[e] # NoOpp /\ plan'[j].opp = o /\ plan'[j].method = t[2] /\ link'[e] = link[e]
        BY <1>2, <1>6, <2>2, <3>1
      <4>3. plan'[j].method # "ref" =>
              /\ Meet(d, e)' => link'[e] = plan'[j].opp
              /\ NumbersConflict(d, e)' => link'[e] # plan'[j].opp
        BY <1>15, <1>16, <2>2, <3>1, <4>2
      <4>. QED  BY <3>1, <4>1, <4>3 DEF Ahead, Keys, RefKeys
    <3>2. CASE k # j
      <4>1. k \in Active /\ plan'[k] = plan[k]
        BY <1>6, <1>11, <3>2 DEF Active
      <4>2. Ahead(k, e)
        BY <1>2, <2>2, <4>1 DEF LinkInv, AheadRight
      <4>3. \A i \in Keys : Leads(k[2][1], i)' /\ e \in Fellows(k[2][1], i)' => link'[e] = plan'[k].opp
        BY <1>2, <1>16, <4>1, <4>2 DEF Ahead
      <4>4. {k[2][1], e} \notin overlapped' /\ plan'[k].method # "ref" =>
              /\ Meet(k[2][1], e)' => link'[e] = plan'[k].opp
              /\ NumbersConflict(k[2][1], e)' => link'[e] # plan'[k].opp
        BY <1>2, <1>8, <1>16, <4>1, <4>2 DEF Ahead
      <4>. QED  BY <4>3, <4>4 DEF Ahead, Keys, RefKeys
    <3>. QED  BY <3>1, <3>2
  <2>. QED  BY <2>1, <2>2 DEF AheadRight
<1>18. NumberLinks' /\ ReferencesDecide' /\ NumbersApart'
  <2>1. NumberLinks'
    BY <1>2, <1>16 DEF LinkInv, NumberLinks, RefKeys
  <2>2. ReferencesDecide' /\ NumbersApart'
    BY <1>2, <1>8, <1>16 DEF LinkInv, ReferencesDecide, NumbersApart
  <2>. QED  BY <2>1, <2>2
<1>. QED  BY <1>9, <1>10, <1>13, <1>14, <1>17, <1>18 DEF LinkInv

LEMMA InsertKeeps ==
  ASSUME LinkInv, NEW j \in LinkJob, Insert(j)
  PROVE  LinkInv'
<1>. USE DEF LinkInv
<1>1. /\ at[j] = "decided" /\ ~Waits(j) /\ MayLink(j)
      /\ at' = [at EXCEPT ![j] = "inserted"]
      /\ UNCHANGED <<refs, version, verdict, item, link, method, opp, plan, night, late, overlapped, troubles>>
  BY DEF Insert
<1>2. j \in Job /\ j[2] \in Signal
  BY SignalRight
<1>3. /\ at' \in [Job -> Place] /\ at'[j] = "inserted"
      /\ \A k \in Job \ {j} : at'[k] = at[k]
  BY <1>1, <1>2 DEF TypeOK, Place
<1>4. TypeOK'
  BY <1>1, <1>3 DEF TypeOK
<1>5. NightRight' /\ refs' \in Numberings /\ UnreviewedUnlinked' /\ OppRight'
  BY <1>1 DEF NightRight, Surveyed, UnreviewedUnlinked, OppRight, Current, SignalOf
<1>6. /\ Active' = Active /\ j \in Active
      /\ \A k \in LinkJob : Holds(k)' <=> Holds(k) \/ k = j
  BY <1>1, <1>3, SignalRight DEF Active, Holds
<1>7. \A s : Current(s)' <=> Current(s)
  BY <1>1 DEF Current, SignalOf
<1>8. HoldsRight'
  <2>1. /\ Current(j[2]) /\ link[j[2][1]] = NoOpp /\ (Seeds(j) \/ opp[plan[j].opp] # Gone)
        /\ ~NightDeletes(plan[j].opp)
        /\ \A k \in LinkJob \ {j} : Holds(k) => k[2] # j[2]
    BY <1>1 DEF MayLink, Waits
  <2>. QED  BY <1>1, <1>6, <1>7, <2>1 DEF HoldsRight, Seeds, NightDeletes
<1>9. ActiveRight'
  BY <1>1, <1>6, <1>7 DEF ActiveRight, Seeds
<1>10. AheadRight' /\ NumberLinks' /\ ReferencesDecide' /\ NumbersApart'
  BY <1>1, <1>6, ActiveDoc, ReferencesKeep
<1>. QED  BY <1>4, <1>5, <1>8, <1>9, <1>10

LEMMA ComputeKeeps ==
  ASSUME LinkInv, NEW j \in LinkJob, Compute(j)
  PROVE  LinkInv'
<1>. USE DEF LinkInv
<1>. DEFINE row == Aggregate(Linked(plan[j].opp) \cup {j[2][1]})
<1>1. /\ at[j] = "inserted"
      /\ plan' = [plan EXCEPT ![j].found = row]
      /\ at' = [at EXCEPT ![j] = "computed"]
      /\ UNCHANGED <<refs, version, verdict, item, link, method, opp, night, late, overlapped, troubles>>
  BY DEF Compute
<1>2. j \in Job /\ j[2] \in Signal /\ j[2][1] \in Doc
  BY SignalRight
<1>3. row \in Columns /\ row.count # 0 /\ row.stage # 0
  <2>1. Linked(plan[j].opp) \cup {j[2][1]} \in SUBSET Doc
    BY <1>2 DEF Linked
  <2>. QED  BY <2>1, AggregateRight
<1>. HIDE DEF row
<1>4. /\ at' \in [Job -> Place] /\ at'[j] = "computed"
      /\ \A k \in Job \ {j} : at'[k] = at[k]
  BY <1>1, <1>2 DEF TypeOK, Place
<1>5. /\ plan' \in [LinkJob -> Plan]
      /\ plan'[j].opp = plan[j].opp /\ plan'[j].method = plan[j].method
      /\ plan'[j].loaded = plan[j].loaded /\ plan'[j].found = row
      /\ \A k \in LinkJob \ {j} : plan'[k] = plan[k]
  BY <1>1, <1>3 DEF TypeOK, Plan
<1>6. TypeOK'
  BY <1>1, <1>4, <1>5 DEF TypeOK
<1>7. NightRight' /\ refs' \in Numberings /\ UnreviewedUnlinked' /\ OppRight'
  BY <1>1 DEF NightRight, Surveyed, UnreviewedUnlinked, OppRight, Current, SignalOf
<1>8. /\ Active' = Active /\ j \in Active
      /\ \A k \in LinkJob : Holds(k)' <=> Holds(k)
      /\ \A k \in LinkJob : plan'[k].opp = plan[k].opp /\ (Seeds(k)' <=> Seeds(k))
      /\ \A s : Current(s)' <=> Current(s)
  BY <1>1 DEF Active, Holds, Seeds, Current, SignalOf
<1>9. HoldsRight'
  BY <1>1, <1>8 DEF HoldsRight, NightDeletes
<1>10. ActiveRight'
  <2>. SUFFICES ASSUME NEW k \in Active
                PROVE  /\ plan'[k].opp \in Opp /\ (Seeds(k)' => plan'[k].opp = k[2])
                       /\ k[2][2] <= version'[k[2][1]]
                       /\ Current(k[2])' => verdict'[k[2][1]] = "accepted" \/ item'[k[2][1]] = "rejected"
                       /\ at'[k] = "computed" => /\ plan'[k].found \in Columns
                                                 /\ plan'[k].found.count # 0 /\ plan'[k].found.stage # 0
    BY <1>8 DEF ActiveRight
  <2>1. k \in LinkJob /\ k \in Job
    BY SignalRight DEF Active
  <2>2. /\ plan'[k].opp \in Opp /\ (Seeds(k)' => plan'[k].opp = k[2])
        /\ k[2][2] <= version'[k[2][1]]
        /\ Current(k[2])' => verdict'[k[2][1]] = "accepted" \/ item'[k[2][1]] = "rejected"
    BY <1>1, <1>8, <2>1 DEF ActiveRight
  <2>3. at'[k] = "computed" => /\ plan'[k].found \in Columns
                               /\ plan'[k].found.count # 0 /\ plan'[k].found.stage # 0
    BY <1>3, <1>4, <1>5, <2>1 DEF ActiveRight
  <2>. QED  BY <2>2, <2>3
<1>11. AheadRight' /\ NumberLinks' /\ ReferencesDecide' /\ NumbersApart'
  <2>1. \A k \in Active : k \in LinkJob
    BY DEF Active
  <2>2. \A k \in LinkJob : plan'[k].opp = plan[k].opp /\ plan'[k].method = plan[k].method
    BY <1>5
  <2>. QED  BY <1>1, <1>8, <2>1, <2>2, ActiveDoc, ReferencesKeep
<1>. QED  BY <1>6, <1>7, <1>9, <1>10, <1>11

\* The link is there, and the row.
LEMMA CommitKeeps ==
  ASSUME LinkInv, NEW j \in LinkJob, Commit(j)
  PROVE  LinkInv'
<1>. DEFINE d == j[2][1]
            o == plan[j].opp
            row == Flushed(opp[o], plan[j].loaded, plan[j].found)
<1>1. /\ at[j] = "computed"
      /\ link' = [link EXCEPT ![d] = o] /\ method' = [method EXCEPT ![d] = plan[j].method]
      /\ opp' = [opp EXCEPT ![o] = row]
      /\ at' = [at EXCEPT ![j] = "kept"]
      /\ plan' = [plan EXCEPT ![j] = NoPlan]
      /\ UNCHANGED <<refs, version, verdict, item, night, late, overlapped, troubles>>
  BY DEF Commit, Finish
<1>2. j \in Job /\ j[2] \in Signal /\ d \in Doc /\ j \in Active /\ Holds(j)
  BY <1>1, SignalRight DEF Active, Holds
<1>3. TypeOK /\ NightRight /\ HoldsRight /\ ActiveRight /\ OppRight /\ AheadRight
  BY DEF LinkInv
<1>4. /\ Current(j[2]) /\ link[d] = NoOpp /\ o \in Opp
      /\ Seeds(j) \/ opp[o] # Gone
      /\ Seeds(j) => o = j[2]
      /\ verdict[d] = "accepted" \/ item[d] = "rejected"
  BY <1>2, <1>3 DEF HoldsRight, ActiveRight
<1>5. row \in Columns /\ row # Gone
  <2>1. /\ opp[o] \in Columns \cup {Gone} /\ plan[j].loaded \in Columns \cup {Gone}
        /\ plan[j].found \in Columns /\ plan[j].found.count # 0 /\ plan[j].found.stage # 0
    BY <1>1, <1>2, <1>3 DEF TypeOK, Plan, ActiveRight
  <2>2. opp[o] \in Columns \/ plan[j].loaded = Gone
    BY <1>4, <2>1 DEF Seeds
  <2>3. row \in Columns
    BY <2>1, <2>2, FlushRight
  <2>. QED  BY <2>3, ColumnsRight
<1>. HIDE DEF row
<1>6. /\ at' \in [Job -> Place] /\ at'[j] = "kept"
      /\ \A k \in Job \ {j} : at'[k] = at[k]
  BY <1>1, <1>2, <1>3 DEF TypeOK, Place
<1>7. plan' \in [LinkJob -> Plan] /\ \A k \in LinkJob \ {j} : plan'[k] = plan[k]
  BY <1>1, <1>3, NoPlanRight DEF TypeOK
<1>8. /\ link' \in [Doc -> Opp \cup {NoOpp}] /\ link'[d] = o
      /\ method' \in [Doc -> Method \cup {None}] /\ method'[d] = plan[j].method
      /\ \A e \in Doc \ {d} : link'[e] = link[e] /\ method'[e] = method[e]
  BY <1>1, <1>2, <1>3, <1>4 DEF TypeOK, Plan
<1>9. opp' \in [Opp -> Columns \cup {Gone}] /\ opp'[o] # Gone /\ \A p \in Opp \ {o} : opp'[p] = opp[p]
  BY <1>1, <1>3, <1>4, <1>5 DEF TypeOK
<1>10. TypeOK'
  <2>1. \A e \in Doc : link'[e] # NoOpp => opp'[link'[e]] # Gone
    BY <1>3, <1>8, <1>9 DEF TypeOK
  <2>. QED  BY <1>1, <1>3, <1>6, <1>7, <1>8, <1>9 DEF TypeOK
<1>11. NightRight'
  BY <1>1, <1>3, <1>9 DEF NightRight, Surveyed
<1>12. /\ \A k \in Active' : k \in Active /\ k # j /\ at'[k] = at[k] /\ plan'[k] = plan[k]
       /\ \A k \in LinkJob : Holds(k)' => Holds(k) /\ k # j /\ plan'[k] = plan[k]
       /\ \A s : Current(s)' <=> Current(s)
  BY <1>1, <1>6 DEF Active, Holds, Current, SignalOf
\* Nobody else holds a link of this signal, which is the one of the document.
<1>13. \A k \in LinkJob : Holds(k)' => k[2][1] # d
  <2>. SUFFICES ASSUME NEW k \in LinkJob, Holds(k)', k[2][1] = d  PROVE FALSE
    OBVIOUS
  <2>1. Holds(k) /\ k # j /\ Current(k[2]) /\ k[2] \in Signal
    BY <1>3, <1>12, SignalRight DEF HoldsRight
  <2>2. k[2] = j[2]
    BY <1>2, <1>4, <2>1, SignalRight
  <2>. QED  BY <1>2, <1>3, <2>1, <2>2 DEF HoldsRight
<1>14. HoldsRight'
  <2>1. ASSUME NEW k \in LinkJob, Holds(k)'
        PROVE  /\ Current(k[2])' /\ link'[k[2][1]] = NoOpp
               /\ Seeds(k)' \/ opp'[plan'[k].opp] # Gone
               /\ ~NightDeletes(plan[k].opp)'
    <3>1. Holds(k) /\ k # j /\ plan'[k] = plan[k] /\ k[2][1] \in Doc \ {d}
      BY <1>12, <1>13, <2>1, SignalRight
    <3>2. plan[k].opp \in Opp
      BY <1>3, <3>1 DEF ActiveRight, Active, Holds
    <3>. QED  BY <1>1, <1>3, <1>9, <1>12, <3>1 DEF HoldsRight, Seeds, NightDeletes
  <2>2. ASSUME NEW k \in LinkJob, NEW l \in LinkJob, Holds(k)', Holds(l)', k[2] = l[2]  PROVE k = l
    BY <1>3, <1>12, <2>2 DEF HoldsRight
  <2>. QED  BY <2>1, <2>2 DEF HoldsRight
<1>15. ActiveRight'
  <2>. SUFFICES ASSUME NEW k \in Active'
                PROVE  /\ plan'[k].opp \in Opp /\ (Seeds(k)' => plan'[k].opp = k[2])
                       /\ k[2][2] <= version'[k[2][1]]
                       /\ Current(k[2])' => verdict'[k[2][1]] = "accepted" \/ item'[k[2][1]] = "rejected"
                       /\ at'[k] = "computed" => /\ plan'[k].found \in Columns
                                                 /\ plan'[k].found.count # 0 /\ plan'[k].found.stage # 0
    BY DEF ActiveRight
  <2>. QED  BY <1>1, <1>3, <1>12 DEF ActiveRight, Seeds
<1>16. OppRight'
  <2>. SUFFICES ASSUME NEW s \in Opp, opp'[s] # Gone
                PROVE  s[2] <= version[s[1]] /\ (Current(s) => link'[s[1]] = s)
    BY <1>1, <1>12 DEF OppRight
  <2>1. s \in Signal /\ s[1] \in Doc
    BY SignalRight DEF Opp
  <2>2. CASE opp[s] # Gone
    <3>1. s[2] <= version[s[1]] /\ (Current(s) => link[s[1]] = s)
      BY <1>3, <2>2 DEF OppRight
    <3>2. Current(s) => s[1] # d
      BY <1>2, <1>4, <2>1, <3>1, SignalRight, NoOppIsNoOpp
    <3>. QED  BY <1>8, <2>1, <3>1, <3>2
  <2>3. CASE opp[s] = Gone
    <3>1. s = o /\ o = j[2]
      BY <1>4, <1>9, <2>3
    <3>2. j[2][2] <= version[d]
      BY <1>2, <1>3 DEF ActiveRight
    <3>. QED  BY <1>8, <3>1, <3>2
  <2>. QED  BY <2>2, <2>3
<1>17. UnreviewedUnlinked'
  BY <1>1, <1>4, <1>8 DEF LinkInv, UnreviewedUnlinked
<1>18. refs' = refs /\ overlapped' = overlapped
  BY <1>1
<1>19. /\ \A x, y : (Meet(x, y)' <=> Meet(x, y)) /\ (NumbersConflict(x, y)' <=> NumbersConflict(x, y))
       /\ \A x, k : Fellows(x, k)' = Fellows(x, k) /\ (Leads(x, k)' => Leads(x, k))
  BY <1>18, RefsSame
\* Jobs of other documents have been under way at the same time.
<1>20. AheadRight'
  <2>1. ASSUME NEW k \in Active', NEW e \in Doc \ {k[2][1]}, link'[e] # NoOpp
        PROVE  Ahead(k, e)'
    <3>1. k \in Active /\ k # j /\ plan'[k] = plan[k] /\ k[2][1] \in Doc
      BY <1>12, ActiveDoc
    <3>2. CASE e = d
      <4>1. {k[2][1], e} \in overlapped
        BY <1>2, <1>3, <2>1, <3>1, <3>2 DEF AheadRight
      <4>2. \A i \in Keys : e \in Fellows(k[2][1], i) => ~Leads(k[2][1], i)
        BY <2>1, <3>1, <4>1, MeetRight DEF Leads
      <4>. QED  BY <1>18, <1>19, <4>1, <4>2 DEF Ahead, Keys, RefKeys
    <3>3. CASE e # d
      <4>1. link'[e] = link[e] /\ Ahead(k, e)
        BY <1>3, <1>8, <2>1, <3>1, <3>3 DEF AheadRight
      <4>2. \A i \in Keys : Leads(k[2][1], i)' /\ e \in Fellows(k[2][1], i)' => link'[e] = plan'[k].opp
        BY <1>19, <3>1, <4>1 DEF Ahead
      <4>3. {k[2][1], e} \notin overlapped' /\ plan'[k].method # "ref" =>
              /\ Meet(k[2][1], e)' => link'[e] = plan'[k].opp
              /\ NumbersConflict(k[2][1], e)' => link'[e] # plan'[k].opp
        BY <1>18, <1>19, <3>1, <4>1 DEF Ahead
      <4>. QED  BY <4>2, <4>3 DEF Ahead, Keys, RefKeys
    <3>. QED  BY <3>2, <3>3
  <2>. QED  BY <1>3, <1>12, <1>18, <2>1 DEF AheadRight
<1>21. \A e \in Doc \ {d} : link[e] # NoOpp => Ahead(j, e)
  BY <1>2, <1>3 DEF AheadRight
<1>22. NumberLinks'
  <2>. SUFFICES ASSUME NEW x \in Doc, NEW k \in Keys, Leads(x, k), NEW y \in Fellows(x, k),
                       link'[x] # NoOpp, link'[y] # NoOpp
                PROVE  link'[x] = link'[y]
    BY <1>19 DEF NumberLinks, Keys, RefKeys
  <2>1. y \in Doc /\ x \in Fellows(y, k) /\ Leads(y, k)
    BY MeetRight DEF Fellows
  <2>2. CASE x # d /\ y # d
    BY <1>8, <2>1, <2>2 DEF LinkInv, NumberLinks, Keys
  <2>3. CASE x = d /\ y # d
    BY <1>8, <1>21, <2>1, <2>3 DEF Ahead
  <2>4. CASE x # d /\ y = d
    BY <1>8, <1>21, <2>1, <2>4 DEF Ahead
  <2>. QED  BY <2>2, <2>3, <2>4
<1>23. ReferencesDecide' /\ NumbersApart'
  <2>1. ASSUME NEW x \in Doc, NEW y \in Doc, link'[x] # NoOpp, link'[y] # NoOpp, {x, y} \notin overlapped,
               "ref" \notin {method'[x], method'[y]}
        PROVE  /\ Meet(x, y) => link'[x] = link'[y]
               /\ NumbersConflict(x, y) => link'[x] # link'[y]
    <3>1. CASE x # d /\ y # d
      BY <1>8, <2>1, <3>1 DEF LinkInv, ReferencesDecide, NumbersApart
    <3>2. CASE x = d /\ y # d
      BY <1>8, <1>21, <2>1, <3>2 DEF Ahead
    <3>3. CASE x # d /\ y = d
      <4>1. {d, x} \notin overlapped /\ (Meet(x, y) <=> Meet(d, x)) /\ (NumbersConflict(x, y) <=> NumbersConflict(d, x))
        <5>1. {x, y} = {d, x}
          BY <3>3
        <5>. QED  BY <2>1, <3>3, <5>1, MeetRight
      <4>. QED  BY <1>8, <1>21, <2>1, <3>3, <4>1 DEF Ahead
    <3>4. CASE x = d /\ y = d
      BY <3>4 DEF NumbersConflict
    <3>. QED  BY <3>1, <3>2, <3>3, <3>4
  <2>. QED  BY <1>18, <1>19, <2>1 DEF ReferencesDecide, NumbersApart
<1>. QED  BY <1>1, <1>10, <1>11, <1>14, <1>15, <1>16, <1>17, <1>18, <1>20, <1>22, <1>23 DEF LinkInv

\* Links go with the old signal, and the new one has none.
LEMMA ProcessKeeps ==
  ASSUME LinkInv, NEW d \in Doc, Process(d)
  PROVE  LinkInv'
<1>1. /\ version[d] < MaxVersion[d]
      /\ \A j \in LinkJob : Holds(j) => j[2] # SignalOf(d)
      /\ version' = [version EXCEPT ![d] = @ + 1]
      /\ link' = [link EXCEPT ![d] = NoOpp] /\ method' = [method EXCEPT ![d] = None]
      /\ UNCHANGED <<refs, opp, plan, night, late, overlapped>>
  BY DEF Process
<1>2. PICK v \in {"accepted"} \cup (IF d \in Doubtful THEN {"needs_review"} ELSE {}) :
        /\ verdict' = [verdict EXCEPT ![d] = v]
        /\ item' = [item EXCEPT ![d] = IF v = "needs_review" THEN "open" ELSE None]
  BY DEF Process
<1>3. TypeOK /\ NightRight /\ HoldsRight /\ ActiveRight /\ OppRight /\ AheadRight
  BY DEF LinkInv
<1>4. troubles' \in 0 .. MaxTroubles
  BY <1>3, LinkingAssumption DEF Process, Trouble, TypeOK
<1>5. /\ version' \in [Doc -> Nat] /\ version'[d] = version[d] + 1
      /\ \A e \in Doc : version'[e] <= MaxVersion[e]
      /\ \A e \in Doc \ {d} : version'[e] = version[e]
      /\ version[d] \in Nat
  <2>1. version[d] + 1 <= MaxVersion[d] /\ version[d] \in Nat
    BY <1>1, <1>3, LinkingAssumption DEF TypeOK
  <2>. QED  BY <1>1, <1>3, <2>1 DEF TypeOK
<1>6. /\ link' \in [Doc -> Opp \cup {NoOpp}] /\ link'[d] = NoOpp
      /\ method' \in [Doc -> Method \cup {None}]
      /\ \A e \in Doc \ {d} : link'[e] = link[e]
  BY <1>1, <1>3 DEF TypeOK
<1>7. /\ verdict' \in [Doc -> {None, "accepted", "needs_review", "rejected"}]
      /\ item' \in [Doc -> {None, "open", "approved", "rejected"}]
      /\ \A e \in Doc \ {d} : verdict'[e] = verdict[e] /\ item'[e] = item[e]
  BY <1>2, <1>3 DEF TypeOK
<1>8. at' \in [Job -> Place] /\ \A j \in LinkJob : at'[j] \in Under => at'[j] = at[j]
  <2>1. at' = [at EXCEPT ![<<"link", <<d, version[d] + 1>>>>] = "queued"]
    BY DEF Process
  <2>. QED  BY <1>3, <2>1, SignalRight DEF TypeOK, Place, Under
<1>9. TypeOK'
  BY <1>1, <1>3, <1>4, <1>5, <1>6, <1>7, <1>8 DEF TypeOK
<1>10. NightRight'
  BY <1>1, <1>3 DEF NightRight, Surveyed
<1>11. /\ \A j \in Active' : j \in Active /\ at'[j] = at[j]
       /\ \A j \in LinkJob : Holds(j)' => Holds(j) /\ at'[j] = at[j]
  BY <1>8 DEF Active, Holds, Under
\* A signal of before is current if it is another document's.
<1>12. \A s \in Signal : s[2] <= version[s[1]] =>
         /\ s[2] <= version'[s[1]]
         /\ Current(s)' => s[1] # d /\ Current(s)
  <2>. SUFFICES ASSUME NEW s \in Signal, s[2] <= version[s[1]]
                PROVE  s[2] <= version'[s[1]] /\ (Current(s)' => s[1] # d /\ Current(s))
    OBVIOUS
  <2>1. s[2] \in Nat /\ (Current(s) <=> version[s[1]] = s[2]) /\ (Current(s)' <=> version'[s[1]] = s[2])
        /\ s[1] \in Doc
    BY SignalRight, LinkingAssumption DEF Current, SignalOf
  <2>2. CASE s[1] = d
    BY <1>5, <2>1, <2>2
  <2>3. CASE s[1] # d
    BY <1>5, <2>1, <2>3
  <2>. QED  BY <2>2, <2>3
<1>13. \A s \in Signal : Current(s) /\ s[1] # d => Current(s)'
  BY <1>5, SignalRight DEF Current, SignalOf
<1>14. HoldsRight'
  <2>1. ASSUME NEW j \in LinkJob, Holds(j)
        PROVE  Current(j[2])' /\ link'[j[2][1]] = NoOpp
    <3>1. Current(j[2]) /\ j[2] \in Signal /\ j[2][1] \in Doc /\ link[j[2][1]] = NoOpp
      BY <1>3, <2>1, SignalRight DEF HoldsRight
    <3>2. j[2][1] # d
      BY <1>1, <2>1, <3>1 DEF Current
    <3>. QED  BY <1>6, <1>13, <3>1, <3>2
  <2>. QED  BY <1>1, <1>3, <1>11, <2>1 DEF HoldsRight, Seeds, NightDeletes
<1>15. ActiveRight'
  <2>. SUFFICES ASSUME NEW k \in Active'
                PROVE  /\ plan'[k].opp \in Opp /\ (Seeds(k)' => plan'[k].opp = k[2])
                       /\ k[2][2] <= version'[k[2][1]]
                       /\ Current(k[2])' => verdict'[k[2][1]] = "accepted" \/ item'[k[2][1]] = "rejected"
                       /\ at'[k] = "computed" => /\ plan'[k].found \in Columns
                                                 /\ plan'[k].found.count # 0 /\ plan'[k].found.stage # 0
    BY DEF ActiveRight
  <2>1. k \in Active /\ at'[k] = at[k] /\ k[2] \in Signal /\ k[2][1] \in Doc
    BY <1>11, SignalRight DEF Active
  <2>2. k[2][2] <= version[k[2][1]]
    BY <1>3, <2>1 DEF ActiveRight
  <2>3. k[2][2] <= version'[k[2][1]] /\ (Current(k[2])' => k[2][1] # d /\ Current(k[2]))
    BY <1>12, <2>1, <2>2
  <2>4. Current(k[2])' => verdict'[k[2][1]] = "accepted" \/ item'[k[2][1]] = "rejected"
    BY <1>3, <1>7, <2>1, <2>3 DEF ActiveRight
  <2>. QED  BY <1>1, <1>3, <2>1, <2>3, <2>4 DEF ActiveRight, Seeds
<1>16. OppRight'
  <2>. SUFFICES ASSUME NEW s \in Opp, opp[s] # Gone
                PROVE  s[2] <= version'[s[1]] /\ (Current(s)' => link'[s[1]] = s)
    BY <1>1 DEF OppRight
  <2>1. s \in Signal /\ s[1] \in Doc /\ s[2] <= version[s[1]]
    BY <1>3, SignalRight DEF Opp, OppRight
  <2>. QED  BY <1>3, <1>6, <1>12, <2>1 DEF OppRight
<1>17. UnreviewedUnlinked'
  BY <1>6, <1>7 DEF LinkInv, UnreviewedUnlinked
<1>18. AheadRight' /\ NumberLinks' /\ ReferencesDecide' /\ NumbersApart'
  <2>1. \A e \in Doc : link'[e] = NoOpp \/ (link'[e] = link[e] /\ method'[e] = method[e])
    BY <1>3, <1>6, <1>1 DEF TypeOK
  <2>. QED  BY <1>1, <1>11, <2>1, ActiveDoc, ReferencesKeep DEF LinkInv
<1>. QED  BY <1>1, <1>9, <1>10, <1>14, <1>15, <1>16, <1>17, <1>18 DEF LinkInv

\* The night writes and deletes, and the links of what it deletes are gone.
LEMMA NightCommitsKeeps ==
  ASSUME LinkInv, NightCommits
  PROVE  LinkInv'
<1>1. /\ night.works /\ night.flushed = Surveyed
      /\ opp' = [o \in Opp |-> Refreshed(o)]
      /\ link' = [d \in Doc |-> LinkKept(d)]
      /\ method' = [d \in Doc |-> IF LinkKept(d) = NoOpp THEN None ELSE method[d]]
      /\ night' = Idle
      /\ UNCHANGED <<refs, version, verdict, item, at, plan, late, overlapped, troubles>>
  BY DEF NightCommits
<1>2. TypeOK /\ NightRight /\ HoldsRight /\ ActiveRight /\ OppRight /\ AheadRight
  BY DEF LinkInv
<1>3. ASSUME NEW o \in Opp
      PROVE  /\ Refreshed(o) \in Columns \cup {Gone}
             /\ Refreshed(o) = Gone <=> opp[o] = Gone \/ NightDeletes(o)
  <2>1. opp[o] \in Columns \cup {Gone} /\ night.loaded[o] \in Columns \cup {Gone}
    BY <1>2 DEF TypeOK, Night
  <2>2. CASE o \notin night.flushed
    BY <2>1, <2>2 DEF Refreshed, NightDeletes
  <2>3. CASE o \in night.flushed /\ NightDeletes(o)
    BY <2>3 DEF Refreshed
  <2>4. CASE o \in night.flushed /\ ~NightDeletes(o)
    <3>1. night.found[o] \in Columns /\ opp[o] \in Columns
      BY <1>2, <2>4 DEF TypeOK, Night, NightRight, NightDeletes
    <3>2. Flushed(opp[o], night.loaded[o], night.found[o]) \in Columns
      BY <2>1, <3>1, FlushRight
    <3>. QED  BY <2>4, <3>1, <3>2, ColumnsRight DEF Refreshed
  <2>. QED  BY <2>2, <2>3, <2>4
<1>4. ASSUME NEW d \in Doc
      PROVE  /\ link'[d] \in {link[d], NoOpp}
             /\ link[d] # NoOpp /\ link'[d] = NoOpp => NightDeletes(link[d])
             /\ link'[d] # NoOpp => ~NightDeletes(link[d])
  <2>1. link'[d] = LinkKept(d) /\ link[d] \in Opp \cup {NoOpp}
    BY <1>1, <1>2 DEF TypeOK
  <2>. QED  BY <2>1, NoOppIsNoOpp DEF LinkKept
<1>5. opp' \in [Opp -> Columns \cup {Gone}] /\ link' \in [Doc -> Opp \cup {NoOpp}]
      /\ method' \in [Doc -> Method \cup {None}]
      /\ \A o \in Opp : opp'[o] = Gone <=> opp[o] = Gone \/ NightDeletes(o)
  <2>1. link' \in [Doc -> Opp \cup {NoOpp}] /\ method' \in [Doc -> Method \cup {None}]
    BY <1>1, <1>2, <1>4 DEF TypeOK
  <2>. QED  BY <1>1, <1>3, <2>1
<1>6. TypeOK'
  <2>1. \A d \in Doc : link'[d] # NoOpp => opp'[link'[d]] # Gone
    BY <1>2, <1>4, <1>5 DEF TypeOK
  <2>. QED  BY <1>1, <1>2, <1>5, <2>1, ColumnsRight DEF TypeOK
<1>7. night'.flushed = {} /\ \A o \in Opp : night'.loaded[o] = Gone
  BY <1>1 DEF Idle
<1>8. NightRight'
  BY <1>7 DEF NightRight, Surveyed
<1>9. /\ Active' = Active /\ (\A j \in LinkJob : (Holds(j)' <=> Holds(j)) /\ (Seeds(j)' <=> Seeds(j)))
      /\ \A s : Current(s)' <=> Current(s)
  BY <1>1 DEF Active, Holds, Seeds, Current, SignalOf
<1>10. HoldsRight'
  <2>1. ASSUME NEW j \in LinkJob, Holds(j)
        PROVE  /\ link'[j[2][1]] = NoOpp
               /\ Seeds(j) \/ opp'[plan[j].opp] # Gone
               /\ ~NightDeletes(plan[j].opp)'
    <3>1. /\ link[j[2][1]] = NoOpp /\ (Seeds(j) \/ opp[plan[j].opp] # Gone)
          /\ ~NightDeletes(plan[j].opp) /\ j[2][1] \in Doc
      BY <1>2, <2>1, SignalRight DEF HoldsRight
    <3>2. plan[j].opp \in Opp
      BY <1>2, <2>1 DEF ActiveRight, Active, Holds
    <3>3. ~NightDeletes(plan[j].opp)'
      BY <1>7 DEF NightDeletes
    <3>. QED  BY <1>4, <1>5, <3>1, <3>2, <3>3
  <2>. QED  BY <1>1, <1>2, <1>9, <2>1 DEF HoldsRight
<1>11. ActiveRight'
  <2>1. \A k \in Active : k \in LinkJob
    BY DEF Active
  <2>2. \A k \in Active' : k \in Active /\ (Seeds(k)' <=> Seeds(k)) /\ (Current(k[2])' <=> Current(k[2]))
    BY <1>9, <2>1
  <2>. QED  BY <1>1, <1>2, <2>2 DEF ActiveRight
<1>12. OppRight'
  <2>. SUFFICES ASSUME NEW s \in Opp, opp'[s] # Gone
                PROVE  s[2] <= version[s[1]] /\ (Current(s) => link'[s[1]] = s)
    BY <1>1, <1>9 DEF OppRight
  <2>1. s[1] \in Doc /\ opp[s] # Gone /\ ~NightDeletes(s)
    BY <1>5, SignalRight DEF Opp
  <2>. QED  BY <1>2, <1>4, <2>1, NoOppIsNoOpp DEF OppRight
<1>13. UnreviewedUnlinked'
  BY <1>1, <1>4 DEF LinkInv, UnreviewedUnlinked
<1>14. AheadRight' /\ NumberLinks' /\ ReferencesDecide' /\ NumbersApart'
  <2>1. \A d \in Doc : link'[d] = NoOpp \/ (link'[d] = link[d] /\ method'[d] = method[d])
    BY <1>1, <1>4
  <2>. QED  BY <1>1, <1>9, <2>1, ActiveDoc, ReferencesKeep DEF LinkInv
<1>. QED  BY <1>1, <1>6, <1>8, <1>10, <1>11, <1>12, <1>13, <1>14 DEF LinkInv

-----------------------------------------------------------------------------
LEMMA LinkInit == Init => LinkInv
<1>. SUFFICES ASSUME Init  PROVE LinkInv
  OBVIOUS
<1>. USE DEF Init
<1>1. TypeOK
  <2>1. (\A d \in Doc : 0 <= MaxVersion[d]) /\ 0 \in 0 .. MaxTroubles
    BY LinkingAssumption
  <2>2. late \in BOOLEAN /\ overlapped \subseteq SUBSET Doc
    BY Zenon
  <2>. QED  BY <2>1, <2>2, NoPlanRight, ColumnsRight DEF TypeOK, Place
<1>2. Active = {} /\ \A j \in LinkJob : ~Holds(j)
  BY SignalRight DEF Active, Holds
<1>3. NightRight
  BY DEF NightRight, Surveyed, Idle
<1>4. HoldsRight /\ ActiveRight /\ AheadRight
  BY <1>2 DEF HoldsRight, ActiveRight, AheadRight
<1>5. OppRight /\ UnreviewedUnlinked /\ NumberLinks /\ ReferencesDecide /\ NumbersApart
  BY DEF OppRight, UnreviewedUnlinked, NumberLinks, ReferencesDecide, NumbersApart, Fellows
<1>. QED  BY <1>1, <1>3, <1>4, <1>5 DEF LinkInv

LEMMA StutterKeeps == LinkInv /\ UNCHANGED vars => LinkInv'
<1>. SUFFICES ASSUME LinkInv, UNCHANGED vars  PROVE LinkInv'
  OBVIOUS
<1>1. UNCHANGED <<refs, version, verdict, item, link, method, opp, at, plan, night, late, overlapped, troubles>>
  BY DEF vars
<1>2. TypeOK'
  BY <1>1 DEF LinkInv, TypeOK
<1>. QED  BY <1>1, <1>2, QuietStep

LEMMA LinkNext == LinkInv /\ [Next]_vars => LinkInv'
<1>. SUFFICES ASSUME LinkInv, [Next]_vars  PROVE LinkInv'
  OBVIOUS
<1>1. ASSUME NEW d \in Doc, Process(d) \/ Approve(d) \/ Reject(d)  PROVE LinkInv'
  BY <1>1, ProcessKeeps, ReviewKeeps
<1>2. ASSUME NEW j \in LinkJob, Decide(j) \/ NothingToLink(j) \/ LinkStep(j) \/ Dies(j)  PROVE LinkInv'
  BY <1>2, DecideKeeps, EndsKeeps, InsertKeeps, ComputeKeeps, CommitKeeps DEF LinkStep
<1>3. CASE NightStep
  BY <1>3, NightBeginsKeeps, NightCommitsKeeps, NightComputesKeeps, NightFlushesKeeps DEF NightStep
<1>. QED  BY <1>1, <1>2, <1>3, RelinkKeeps, NightDiesKeeps, TimePassesKeeps, StutterKeeps, Zenon
          DEF Next

\* The invariant of linking holds whatever jobs, reviewers and nights do
\* (link_signals, refresh_lifecycle, process_document).
THEOREM LinkInvariant == Spec => []LinkInv
BY LinkInit, LinkNext, PTL DEF Spec

\* The variables of linking have their types; a link is to an opportunity that
\* exists (the foreign key of OpportunitySignal, the DELETE of refresh_opportunity).
THEOREM LinkTypeCorrect == Spec => []TypeOK
<1>1. LinkInv => TypeOK
  BY DEF LinkInv
<1>. QED  BY <1>1, LinkInvariant, PTL

\* What waits for a reviewer is on no customer's list (link_signals, decide_review).
THEOREM NothingUnreviewedIsLinked == Spec => []UnreviewedUnlinked
<1>1. LinkInv => UnreviewedUnlinked
  BY DEF LinkInv
<1>. QED  BY <1>1, LinkInvariant, PTL

\* The look-ups decide in their order: the documents of one order plan are in one
\* opportunity, those of a prespec or a notice unless a number looked up before
\* leads one of them elsewhere, or two of them are linked at the same time
\* (_reference_match).
THEOREM OneNumberOneOpportunity == Spec => []NumberLinks
<1>1. LinkInv => NumberLinks
  BY DEF LinkInv
<1>. QED  BY <1>1, LinkInvariant, PTL

\* Likeness, or a new opportunity, parts no two documents that refer to each other,
\* unless they are linked at the same time (decide).
THEOREM ReferencesLink == Spec => []ReferencesDecide
<1>1. LinkInv => ReferencesDecide
  BY DEF LinkInv
<1>. QED  BY <1>1, LinkInvariant, PTL

\* Likeness joins no two plan or prespec numbers, unless they are linked at the same
\* time (_without_conflicting_numbers).
THEOREM TwoNumbersApart == Spec => []NumbersApart
<1>1. LinkInv => NumbersApart
  BY DEF LinkInv
<1>. QED  BY <1>1, LinkInvariant, PTL
=============================================================================
