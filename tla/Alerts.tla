------------------------------- MODULE Alerts -------------------------------
(***************************************************************************)
(* What one organisation is told about: link_signals, refresh_recommenda-  *)
(* tions and enqueue_alerts (worker/tasks.py, pipeline/recommend.py,       *)
(* notify/dispatch.py), the job ids between them, the digests of the cron, *)
(* and the customer's feedback and profile.  Every job is one transaction  *)
(* at READ COMMITTED; Delivery models what becomes of the notes.           *)
(***************************************************************************)
EXTENDS Naturals, Sequences, SequencesExt, FiniteSets

CONSTANTS Opp,         \* opportunities
          MaxStage,    \* stages are 1 to MaxStage, 0 is not open (or dormant)
          Channel,     \* alert channels that are on
          Modes,       \* modes of the alert rule, among "instant" and "daily"
          InstantCap,  \* notes that one instant job writes
          DigestCap,   \* opportunities that a digest lists
          Capacity,    \* recommendations of an organisation
          Buckets,     \* bound: half minutes, or days, with a job id of a kind
          MaxStageMoves,  \* bound: changes of a stage
          MaxAlertFaults  \* bound: jobs that die or raise

ASSUME AlertsAssumption ==
  /\ MaxStage \in Nat /\ Modes \subseteq {"instant", "daily"} /\ IsFiniteSet(Opp)
  /\ InstantCap \in Nat \ {0} /\ DigestCap \in Nat \ {0} /\ Capacity \in Nat
  /\ Buckets \in Nat /\ MaxStageMoves \in Nat /\ MaxAlertFaults \in Nat

VARIABLES
  mode,    \* alert_rules.mode
  stage,   \* of the opportunities
  linked,  \* a link_signals job has committed and not yet enqueued
  rec,     \* recommendations
  notes,   \* notifications
  at,      \* where each job is
  progress, \* what it has read and flushed
  moves,   \* stages changed so far
  faults

alertVars == <<mode, stage, linked, rec, notes, at, progress, moves, faults>>

Stage == 0 .. MaxStage
Feedback == {"none", "relevant", "irrelevant"}
TellCap == IF mode = "instant" THEN InstantCap ELSE DigestCap

\* A recommendation: the stage told (notified_stage), whether its score is above
\* the rule's threshold, the customer's feedback.
NoRec == [told |-> 0, fit |-> FALSE, feedback |-> "absent"]
Rec == {NoRec} \cup [told : Stage, fit : BOOLEAN, feedback : Feedback]
Recommended(o) == rec[o] # NoRec

Item == Opp \X (1 .. MaxStage)
\* A notification: what it lists, what it counts, its number among the
\* notifications of one key.
Note == [channel : Channel, items : Seq(Item), rest : SUBSET Item, copy : Nat]

\* dedupe_key.
KeyOf(n) == <<n.channel, n.items>>
SameKey(n) == {m \in notes : KeyOf(m) = KeyOf(n)}

\* Jobs are named by the half minute, or the day, they are enqueued in; those in
\* which nothing is enqueued are not counted.
Bucket == 1 .. Buckets
RecsJob == {"recs"} \X Bucket
AlertsJob == {"alerts"} \X Bucket
OrgJob == RecsJob \cup AlertsJob
Place == {"none", "queued", "ranked", "upserted", "committed", "chosen", "inserted", "kept"}

NoWork == [keep |-> {}, fit |-> {}, gone |-> {}, tell |-> <<>>, marks |-> {}]
Work == [keep : SUBSET Opp, fit : SUBSET Opp, gone : SUBSET Opp,
         tell : Seq(Item), marks : SUBSET Item]

AlertsInit ==
  /\ mode \in Modes
  /\ stage = [o \in Opp |-> 0]
  /\ linked = FALSE
  /\ rec = [o \in Opp |-> NoRec]
  /\ notes = {}
  /\ at = [j \in OrgJob |-> "none"]
  /\ progress = [j \in OrgJob |-> NoWork]
  /\ moves = 0
  /\ faults = 0

(***************************************************************************)
(* The queue.                                                              *)
(***************************************************************************)

\* Half minutes and days come in order.
Reached(kind, b) == \A e \in 1 .. b - 1 : at[<<kind, e>>] # "none"

\* Refused while arq has a key of the id, be it only of the kept result.
Enqueued(j) == at' = IF at[j] = "none" THEN [at EXCEPT ![j] = "queued"] ELSE at

FinishOrgJob(j, place) ==
  /\ at' = [at EXCEPT ![j] = place]
  /\ progress' = [progress EXCEPT ![j] = NoWork]

(***************************************************************************)
(* Linking, the cron of the digests, the customer.                         *)
(***************************************************************************)

\* link_signals and refresh_lifecycle: an opportunity moves to another stage,
\* or closes.
Link(o, s) ==
  /\ moves < MaxStageMoves /\ moves' = moves + 1
  /\ s # stage[o]
  /\ stage' = [stage EXCEPT ![o] = s]
  /\ linked' = TRUE
  /\ UNCHANGED <<mode, rec, notes, at, progress, faults>>

EnqueueRecs(b) ==
  /\ linked /\ linked' = FALSE
  /\ Reached("recs", b) /\ Enqueued(<<"recs", b>>)
  /\ UNCHANGED <<mode, stage, rec, notes, progress, moves, faults>>

\* put_profile: under an id that is not in use.
SaveProfile(b) ==
  /\ at[<<"recs", b>>] = "none"
  /\ Reached("recs", b) /\ Enqueued(<<"recs", b>>)
  /\ UNCHANGED <<mode, stage, linked, rec, notes, progress, moves, faults>>

\* daily_digest and weekly_digest: the job of a day is over before the next.
Digest(b) ==
  /\ mode # "instant"
  /\ \A k \in AlertsJob : at[k] \in {"none", "kept"}
  /\ at[<<"alerts", b>>] = "none"
  /\ Reached("alerts", b) /\ Enqueued(<<"alerts", b>>)
  /\ UNCHANGED <<mode, stage, linked, rec, notes, progress, moves, faults>>

(***************************************************************************)
(* Row locks of recommendations, held from the flush to the commit.        *)
(***************************************************************************)
Opps(items) == {i[1] : i \in items}
Touches(w) == w.keep \cup w.gone \cup Opps(w.marks)
RowsLocked(j, os) ==
  \E k \in OrgJob \ {j} : at[k] \in {"upserted", "inserted"} /\ Touches(progress[k]) \cap os # {}

\* The customer's feedback on a recommendation.
GiveFeedback(o, f) ==
  /\ Recommended(o) /\ rec[o].feedback # f
  /\ \A j \in OrgJob : at[j] \in {"upserted", "inserted"} => o \notin Touches(progress[j])
  /\ rec' = [rec EXCEPT ![o].feedback = f]
  /\ UNCHANGED <<mode, stage, linked, notes, at, progress, moves, faults>>

(***************************************************************************)
(* refresh_recommendations.                                                *)
(***************************************************************************)

\* The best of the open opportunities; scores depend on profile and day.
Rankings ==
  LET open == {o \in Opp : stage[o] # 0}
  IN {k \in SUBSET open :
        Cardinality(k) = IF Cardinality(open) < Capacity THEN Cardinality(open) ELSE Capacity}

RankOpen(j) ==
  /\ at[j] = "queued"
  /\ \E k \in Rankings : \E f \in SUBSET k :
       progress' = [progress EXCEPT ![j] = [NoWork EXCEPT !.keep = k, !.fit = f]]
  /\ at' = [at EXCEPT ![j] = "ranked"]
  /\ UNCHANGED <<mode, stage, linked, rec, notes, moves, faults>>

\* Whatever is not among the best and has no feedback is deleted, with what has
\* been told of it.
Upsert(j) ==
  LET gone == {o \in Opp \ progress[j].keep : Recommended(o) /\ rec[o].feedback = "none"}
  IN /\ at[j] = "ranked"
     /\ ~RowsLocked(j, gone \cup progress[j].keep)
     /\ progress' = [progress EXCEPT ![j].gone = gone]
     /\ at' = [at EXCEPT ![j] = "upserted"]
     /\ UNCHANGED <<mode, stage, linked, rec, notes, moves, faults>>

Upserted(w, o) ==
  IF o \in w.gone THEN NoRec
  ELSE IF o \notin w.keep THEN rec[o]
  ELSE IF Recommended(o) THEN [rec[o] EXCEPT !.fit = o \in w.fit]
  ELSE [told |-> 0, fit |-> o \in w.fit, feedback |-> "none"]

CommitRecs(j) ==
  /\ at[j] = "upserted"
  /\ rec' = [o \in Opp |-> Upserted(progress[j], o)]
  /\ FinishOrgJob(j, "committed")
  /\ UNCHANGED <<mode, stage, linked, notes, moves, faults>>

\* Instant alerts follow at once.
EnqueueNone(j) ==
  /\ at[j] = "committed" /\ mode # "instant"
  /\ FinishOrgJob(j, "kept")
  /\ UNCHANGED <<mode, stage, linked, rec, notes, moves, faults>>
EnqueueAlerts(j, b) ==
  /\ at[j] = "committed" /\ mode = "instant"
  /\ Reached("alerts", b)
  /\ at' = [k \in OrgJob |->
              IF k = j THEN "kept"
              ELSE IF k = <<"alerts", b>> /\ at[k] = "none" THEN "queued"
              ELSE at[k]]
  /\ UNCHANGED <<mode, stage, linked, rec, notes, progress, moves, faults>>

(***************************************************************************)
(* enqueue_alerts.                                                         *)
(***************************************************************************)

\* _stage_advanced, above the threshold, not waved off.
Fresh ==
  {<<o, stage[o]>> : o \in {p \in Opp : /\ stage[p] # 0 /\ Recommended(p) /\ rec[p].fit
                                         /\ rec[p].feedback # "irrelevant"
                                         /\ stage[p] > rec[p].told}}

\* mutant: no limit
FirstAll(s) == s
First(s) == SubSeq(s, 1, IF Len(s) < TellCap THEN Len(s) ELSE TellCap)

\* mutant: everything fresh is marked as told, as for a digest
MarkedAll(s) == ToSet(s)
\* What is marked as told: all of a digest's, an instant job's notes only.
Marked(s) == IF mode = "instant" THEN ToSet(First(s)) ELSE ToSet(s)

\* The fresh ones, best score first.
Choose(j) ==
  /\ at[j] = "queued" /\ Fresh # {}
  /\ \E s \in SetToSeqs(Fresh) :
       progress' = [progress EXCEPT ![j] = [NoWork EXCEPT !.tell = First(s), !.marks = Marked(s)]]
  /\ at' = [at EXCEPT ![j] = "chosen"]
  /\ UNCHANGED <<mode, stage, linked, rec, notes, moves, faults>>

NothingFresh(j) ==
  /\ at[j] = "queued" /\ Fresh = {}
  /\ FinishOrgJob(j, "kept")
  /\ UNCHANGED <<mode, stage, linked, rec, notes, moves, faults>>

Batches(w) == IF mode = "instant" THEN {<<i>> : i \in ToSet(w.tell)} ELSE {w.tell}
Drafts(j) ==
  {[channel |-> c, items |-> b, rest |-> progress[j].marks \ ToSet(progress[j].tell), copy |-> 0] :
     c \in Channel, b \in Batches(progress[j])}

\* An insert waits for the transaction that has inserted its key.
KeyAwaited(j) ==
  \E k \in AlertsJob \ {j} :
    /\ at[k] = "inserted"
    /\ \E m \in Drafts(j), n \in Drafts(k) : KeyOf(m) = KeyOf(n)

MayInsert(j) ==
  at[j] = "chosen" /\ ~KeyAwaited(j) /\ ~RowsLocked(j, Opps(progress[j].marks))

InsertNotes(j) ==
  /\ MayInsert(j)
  /\ \A o \in Opps(progress[j].marks) : Recommended(o)
  /\ at' = [at EXCEPT ![j] = "inserted"]
  /\ UNCHANGED <<mode, stage, linked, rec, notes, progress, moves, faults>>

\* A recommendation was deleted since it was read: the update of its row finds
\* none, and the job fails for good.
Stale(j) ==
  /\ MayInsert(j)
  /\ \E o \in Opps(progress[j].marks) : ~Recommended(o)
  /\ FinishOrgJob(j, "kept")
  /\ UNCHANGED <<mode, stage, linked, rec, notes, moves, faults>>

\* mutant: no unique index
InsertedAlways(d) == {[d EXCEPT !.copy = Cardinality(SameKey(d))]}
\* ON CONFLICT DO NOTHING.
Inserted(d) == IF SameKey(d) = {} THEN {d} ELSE {}

\* COMMIT: the notes and notified_stage.
CommitAlerts(j) ==
  /\ at[j] = "inserted"
  /\ notes' = notes \cup UNION {Inserted(d) : d \in Drafts(j)}
  /\ rec' = [o \in Opp |-> IF \E s \in Stage : <<o, s>> \in progress[j].marks
                           THEN [rec[o] EXCEPT !.told = CHOOSE s \in Stage : <<o, s>> \in progress[j].marks]
                           ELSE rec[o]]
  /\ FinishOrgJob(j, "kept")
  /\ UNCHANGED <<mode, stage, linked, moves, faults>>

\* The worker dies and arq runs the job again; or the job raises, being the
\* victim of a deadlock over these rows.
AbortOrgJob(j) ==
  /\ at[j] \in {"ranked", "upserted", "committed", "chosen", "inserted"}
  /\ \E place \in {"queued", "kept"} : FinishOrgJob(j, place)
  /\ faults < MaxAlertFaults /\ faults' = faults + 1
  /\ UNCHANGED <<mode, stage, linked, rec, notes, moves>>

AlertsNext ==
  \/ \E o \in Opp : (\E s \in Stage : Link(o, s)) \/ (\E f \in Feedback : GiveFeedback(o, f))
  \/ \E b \in Bucket : EnqueueRecs(b) \/ SaveProfile(b) \/ Digest(b)
  \/ \E j \in RecsJob :
       \/ RankOpen(j) \/ Upsert(j) \/ CommitRecs(j) \/ EnqueueNone(j) \/ AbortOrgJob(j)
       \/ \E b \in Bucket : EnqueueAlerts(j, b)
  \/ \E j \in AlertsJob :
       Choose(j) \/ NothingFresh(j) \/ InsertNotes(j) \/ Stale(j) \/ CommitAlerts(j) \/ AbortOrgJob(j)

AlertsSpec == AlertsInit /\ [][AlertsNext]_alertVars

-----------------------------------------------------------------------------
(***************************************************************************)
(* Properties.                                                             *)
(***************************************************************************)

AlertsTypeOK ==
  /\ mode \in Modes
  /\ stage \in [Opp -> Stage]
  /\ linked \in BOOLEAN
  /\ rec \in [Opp -> Rec]
  /\ notes \subseteq Note
  /\ at \in [OrgJob -> Place]
  /\ progress \in [OrgJob -> Work]
  /\ moves \in 0 .. MaxStageMoves /\ faults \in 0 .. MaxAlertFaults
  /\ \A j \in OrgJob : Len(progress[j].tell) <= TellCap

\* An opportunity at the same stage is not news again: in instant mode no two
\* notes of a channel name one opportunity at one stage, whichever jobs of two
\* half minutes overlap, and although refreshing the recommendations forgets
\* what has been told.
ToldOnce ==
  \A m, n \in notes :
    m.channel = n.channel /\ ToSet(m.items) \cap ToSet(n.items) # {} => m = n

InstantToldOnce == mode = "instant" => ToldOnce

\* What a recommendation is marked as told is in a note of every channel: an
\* opportunity beyond the limit of a job, or of a job that was rolled back, is not
\* taken for told. For digests only while one can list every opportunity; a
\* longer one that conflicts with an old note counts its rest nowhere.
AllListed == mode = "instant" \/ Cardinality(Opp) <= DigestCap
Told(c, o) == \E n \in notes : n.channel = c /\ <<o, rec[o].told>> \in ToSet(n.items)
MarkedIsTold ==
  AllListed => \A o \in Opp, c \in Channel : rec[o].told # 0 => Told(c, o)
=============================================================================
