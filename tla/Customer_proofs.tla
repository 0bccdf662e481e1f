--------------------------- MODULE Customer_proofs ---------------------------
(***************************************************************************)
(* Proofs about what a customer is told (Alerts), for any finite set of    *)
(* opportunities, any channels, limits and numbers of jobs, and about what *)
(* the feed shows (Feed), for any rows, page sizes, days and changes.      *)
(*                                                                         *)
(* That an opportunity is not told twice rests on the unique dedupe_key    *)
(* alone, whatever the recommendations have forgotten; that what is marked *)
(* has been told, on what a job has read and not yet committed (InHand).   *)
(* That the feed shows what stayed once rests on the cursor alone: the     *)
(* order is total, and what is not behind the cursor has been shown.       *)
(***************************************************************************)
EXTENDS Alerts, Feed, FiniteSetTheorems, FunctionTheorems, SequenceTheorems, TLAPS

\* A job marks what it lists, when it lists everything.
InHand == AllListed => \A j \in OrgJob : progress[j].marks = ToSet(progress[j].tell)

\* The unique index on notifications.dedupe_key.
KeysOnce == \A m, n \in notes : KeyOf(m) = KeyOf(n) => m = n

\* An instant note is about one opportunity at one stage.
Singles == mode = "instant" => \A n \in notes : \E i \in Item : n.items = <<i>>

\* The rows that an alert job has flushed are there until it commits: a refresh that
\* has deleted one, or is about to, waits for the job, or the job for the refresh.
RowsKept ==
  \A j \in AlertsJob : at[j] = "inserted" =>
    \A o \in Opps(progress[j].marks) :
      /\ Recommended(o)
      /\ \A k \in RecsJob : at[k] = "upserted" => o \notin progress[k].gone

AlertsInv == AlertsTypeOK /\ InHand /\ RowsKept /\ KeysOnce /\ Singles /\ MarkedIsTold

-----------------------------------------------------------------------------
(* Lists. *)

\* The limit of a job is positive.
LEMMA CapPositive == ASSUME mode \in Modes  PROVE TellCap \in Nat \ {0}
BY AlertsAssumption DEF TellCap

\* What is fresh are opportunities at a stage, no more than there are opportunities.
LEMMA FreshIsFinite ==
  ASSUME stage \in [Opp -> Stage]
  PROVE  Fresh \subseteq Item /\ IsFiniteSet(Fresh) /\ Cardinality(Fresh) <= Cardinality(Opp)
<1>. DEFINE News == {p \in Opp : /\ stage[p] # 0 /\ Recommended(p) /\ rec[p].fit
                                 /\ rec[p].feedback # "irrelevant" /\ stage[p] > rec[p].told}
            at_stage == [o \in News |-> <<o, stage[o]>>]
<1>1. Fresh = {<<o, stage[o]>> : o \in News}
  BY DEF Fresh
<1>2. \A o \in News : stage[o] \in 1 .. MaxStage
  BY AlertsAssumption DEF Stage
<1>3. Fresh \subseteq Item
  BY <1>1, <1>2 DEF Item
<1>4. IsFiniteSet(News) /\ Cardinality(News) <= Cardinality(Opp)
  BY AlertsAssumption, FS_Subset
<1>5. at_stage \in Surjection(News, Fresh)
  BY <1>1 DEF Surjection
<1>6. IsFiniteSet(Fresh) /\ Cardinality(Fresh) <= Cardinality(News)
  BY <1>4, <1>5, FS_Surjection
<1>7. Cardinality(Fresh) \in Nat /\ Cardinality(News) \in Nat /\ Cardinality(Opp) \in Nat
  BY <1>4, <1>6, FS_CardinalityType, AlertsAssumption
<1>. HIDE DEF News
<1>. QED  BY <1>3, <1>4, <1>6, <1>7

\* An order of the fresh ones is a sequence of as many items.
LEMMA OrderOfFresh ==
  ASSUME stage \in [Opp -> Stage], NEW s \in SetToSeqs(Fresh)
  PROVE  s \in Seq(Item) /\ Len(s) <= Cardinality(Opp) /\ Cardinality(Opp) \in Nat
<1>1. Cardinality(Fresh) \in Nat /\ Cardinality(Opp) \in Nat
  BY FreshIsFinite, FS_CardinalityType, AlertsAssumption
<1>2. s \in [1 .. Cardinality(Fresh) -> Fresh]
  BY DEF SetToSeqs
<1>3. s \in Seq(Fresh) /\ Len(s) = Cardinality(Fresh)
  BY <1>1, <1>2, IsASeq
<1>. QED  BY <1>1, <1>3, FreshIsFinite

\* The first of a list are in it, and no more than the limit.
LEMMA FirstOfList ==
  ASSUME mode \in Modes, NEW s \in Seq(Item)
  PROVE  /\ First(s) \in Seq(Item) /\ Len(First(s)) <= TellCap
         /\ ToSet(First(s)) \subseteq ToSet(s)
         /\ Len(s) <= TellCap => First(s) = s
<1>. DEFINE n == IF Len(s) < TellCap THEN Len(s) ELSE TellCap
<1>1. n \in Nat /\ n <= Len(s) /\ n <= TellCap /\ (Len(s) <= TellCap => n = Len(s))
  BY CapPositive, LenProperties
<1>. HIDE DEF n
<1>2. \A i \in 1 .. n : s[i] \in Item
  BY <1>1, ElementOfSeq
<1>3. /\ SubSeq(s, 1, n) \in Seq(Item) /\ Len(SubSeq(s, 1, n)) = n
      /\ \A i \in 1 .. n : SubSeq(s, 1, n)[i] = s[i]
  BY <1>1, <1>2, SubSeqProperties
<1>4. First(s) = SubSeq(s, 1, n)
  BY DEF First, n
<1>5. ToSet(First(s)) \subseteq ToSet(s)
  BY <1>1, <1>4 DEF ToSet
<1>6. Len(s) <= TellCap => First(s) = s
  BY <1>1, <1>4, SubSeqFull
<1>. QED  BY <1>1, <1>4, <1>5

LEMMA ItemsOfList == ASSUME NEW s \in Seq(Item)  PROVE ToSet(s) \subseteq Item
BY ElementOfSeq, LenProperties DEF ToSet

-----------------------------------------------------------------------------
(* Rows that a step leaves alone. *)

\* No job takes rows, and no recommendation goes.
LEMMA NoRowTaken ==
  ASSUME AlertsInv,
         \A j \in OrgJob : \/ at'[j] = at[j] /\ progress'[j] = progress[j]
                           \/ at'[j] \notin {"upserted", "inserted"},
         \A o \in Opp : rec[o] # NoRec => rec'[o] # NoRec
  PROVE  RowsKept'
<1>. SUFFICES ASSUME NEW j \in AlertsJob, at'[j] = "inserted", NEW o \in Opps(progress'[j].marks)
              PROVE  /\ rec'[o] # NoRec
                     /\ \A k \in RecsJob : at'[k] = "upserted" => o \notin progress'[k].gone
  BY DEF RowsKept, Recommended
<1>1. j \in OrgJob /\ RecsJob \subseteq OrgJob
  BY DEF OrgJob
<1>2. at[j] = "inserted" /\ progress'[j] = progress[j]
  BY <1>1
<1>3. rec[o] # NoRec /\ \A k \in RecsJob : at[k] = "upserted" => o \notin progress[k].gone
  BY <1>2 DEF AlertsInv, RowsKept, Recommended
<1>4. o \in Opp
  <2>1. progress[j].marks \subseteq Item
    BY <1>1 DEF AlertsInv, AlertsTypeOK, Work
  <2>. QED  BY <1>2, <2>1 DEF Opps, Item
<1>. QED  BY <1>1, <1>3, <1>4

\* A step that finishes jobs, or moves them on with nothing new in hand.
LEMMA QuietStep ==
  ASSUME AlertsInv, AlertsTypeOK', RowsKept', UNCHANGED <<mode, rec, notes>>,
         \A j \in OrgJob : \/ progress'[j] = progress[j] \/ progress'[j] = NoWork
                           \/ progress'[j].tell = <<>> /\ progress'[j].marks = {}
  PROVE  AlertsInv'
<1>1. AllListed' = AllListed
  BY DEF AllListed
<1>2. InHand'
  <2>. SUFFICES ASSUME AllListed, NEW j \in OrgJob
                PROVE  progress'[j].marks = ToSet(progress'[j].tell)
    BY <1>1 DEF InHand
  <2>1. progress[j].marks = ToSet(progress[j].tell)
    BY DEF AlertsInv, InHand
  <2>2. NoWork.marks = {} /\ NoWork.tell = <<>>
    BY DEF NoWork
  <2>3. ToSet(<<>>) = {}
    BY DEF ToSet
  <2>. QED  BY <2>1, <2>2, <2>3
<1>3. KeysOnce' /\ Singles'
  BY DEF AlertsInv, KeysOnce, Singles
<1>4. MarkedIsTold'
  BY <1>1 DEF AlertsInv, MarkedIsTold, Told
<1>. QED  BY <1>2, <1>3, <1>4 DEF AlertsInv

\* A step on the rows of recommendations that marks nothing.
LEMMA RecStep ==
  ASSUME AlertsInv, AlertsTypeOK', RowsKept', UNCHANGED <<mode, notes>>,
         \A j \in OrgJob : progress'[j] = progress[j] \/ progress'[j] = NoWork,
         \A o \in Opp : rec'[o].told \in {0, rec[o].told}
  PROVE  AlertsInv'
<1>1. AllListed' = AllListed
  BY DEF AllListed
<1>2. InHand'
  <2>. SUFFICES ASSUME AllListed, NEW j \in OrgJob
                PROVE  progress'[j].marks = ToSet(progress'[j].tell)
    BY <1>1 DEF InHand
  <2>1. progress[j].marks = ToSet(progress[j].tell)
    BY DEF AlertsInv, InHand
  <2>2. NoWork.marks = {} /\ NoWork.tell = <<>> /\ ToSet(<<>>) = {}
    BY DEF NoWork, ToSet
  <2>. QED  BY <2>1, <2>2
<1>3. KeysOnce' /\ Singles'
  BY DEF AlertsInv, KeysOnce, Singles
<1>4. MarkedIsTold'
  <2>. SUFFICES ASSUME AllListed, NEW o \in Opp, NEW c \in Channel, rec'[o].told # 0
                PROVE  Told(c, o)'
    BY <1>1 DEF MarkedIsTold
  <2>1. rec'[o].told = rec[o].told /\ Told(c, o)
    BY DEF AlertsInv, MarkedIsTold
  <2>. QED  BY <2>1 DEF Told
<1>. QED  BY <1>2, <1>3, <1>4 DEF AlertsInv

-----------------------------------------------------------------------------
(* Types. *)

LEMMA WorkTypes ==
  ASSUME NEW w \in Work
  PROVE  /\ w.keep \subseteq Opp /\ w.fit \subseteq Opp /\ w.gone \subseteq Opp
         /\ w.tell \in Seq(Item) /\ w.marks \subseteq Item
BY DEF Work

LEMMA NothingInHand ==
  mode \in Modes => NoWork \in Work /\ Len(NoWork.tell) <= TellCap
<1>1. NoWork \in Work
  BY DEF NoWork, Work
<1>2. Len(NoWork.tell) = 0
  BY DEF NoWork
<1>. QED  BY <1>1, <1>2, CapPositive

\* A recommendation is not the lack of one.
LEMMA RealRec ==
  ASSUME NEW r \in [told : Stage, fit : BOOLEAN, feedback : Feedback]
  PROVE  r \in Rec /\ r # NoRec
BY DEF Rec, NoRec, Feedback

LEMMA JobsAndPlaces ==
  /\ RecsJob \subseteq OrgJob /\ AlertsJob \subseteq OrgJob
  /\ \A j \in RecsJob, k \in AlertsJob : j # k
  /\ \A b \in Bucket : <<"recs", b>> \in RecsJob /\ <<"alerts", b>> \in AlertsJob
BY DEF OrgJob, RecsJob, AlertsJob

\* A job that ends.
LEMMA FinishTypes ==
  ASSUME AlertsTypeOK, NEW j \in OrgJob, NEW place \in Place, FinishOrgJob(j, place)
  PROVE  /\ at' \in [OrgJob -> Place] /\ progress' \in [OrgJob -> Work]
         /\ \A k \in OrgJob : progress'[k] = progress[k] \/ progress'[k] = NoWork
<1>1. at \in [OrgJob -> Place] /\ progress \in [OrgJob -> Work]
  BY DEF AlertsTypeOK
<1>2. at' = [at EXCEPT ![j] = place] /\ progress' = [progress EXCEPT ![j] = NoWork]
  BY DEF FinishOrgJob
<1>3. NoWork \in Work
  BY DEF NoWork, Work
<1>. QED  BY <1>1, <1>2, <1>3

\* The lengths of lists stay within the limit of the mode.
LEMMA ShortLists ==
  ASSUME AlertsTypeOK, mode' = mode,
         \A k \in OrgJob : progress'[k] = progress[k] \/ progress'[k].tell = <<>>
  PROVE  \A k \in OrgJob : Len(progress'[k].tell) <= TellCap'
<1>1. TellCap' = TellCap
  BY DEF TellCap
<1>2. TellCap \in Nat \ {0}
  BY CapPositive DEF AlertsTypeOK
<1>. SUFFICES ASSUME NEW k \in OrgJob  PROVE Len(progress'[k].tell) <= TellCap
  BY <1>1
<1>3. Len(progress[k].tell) <= TellCap
  BY DEF AlertsTypeOK
<1>4. Len(<<>>) = 0
  OBVIOUS
<1>. QED  BY <1>2, <1>3, <1>4

-----------------------------------------------------------------------------
(* The actions. *)

LEMMA AlertsInitRight == AlertsInit => AlertsInv
<1>. SUFFICES ASSUME AlertsInit  PROVE AlertsInv
  OBVIOUS
<1>1. /\ mode \in Modes /\ stage = [o \in Opp |-> 0] /\ linked = FALSE
      /\ rec = [o \in Opp |-> NoRec] /\ notes = {}
      /\ at = [j \in OrgJob |-> "none"] /\ progress = [j \in OrgJob |-> NoWork]
      /\ moves = 0 /\ faults = 0
  BY DEF AlertsInit
<1>2. NoWork \in Work /\ Len(NoWork.tell) <= TellCap
  BY <1>1, NothingInHand
<1>3. 0 \in Stage
  BY AlertsAssumption DEF Stage
<1>4. AlertsTypeOK
  <2>1. rec \in [Opp -> Rec] /\ at \in [OrgJob -> Place] /\ progress \in [OrgJob -> Work]
    BY <1>1, <1>2 DEF Rec, Place
  <2>2. \A j \in OrgJob : Len(progress[j].tell) <= TellCap
    BY <1>1, <1>2
  <2>3. stage \in [Opp -> Stage] /\ moves \in 0 .. MaxStageMoves /\ faults \in 0 .. MaxAlertFaults
    BY <1>1, <1>3, AlertsAssumption
  <2>. QED  BY <1>1, <2>1, <2>2, <2>3 DEF AlertsTypeOK
<1>5. NoWork.marks = ToSet(NoWork.tell)
  BY DEF NoWork, ToSet
<1>6. InHand
  BY <1>1, <1>5 DEF InHand
<1>7. \A o \in Opp : rec[o].told = 0
  BY <1>1 DEF NoRec
<1>8. RowsKept
  BY <1>1, JobsAndPlaces DEF RowsKept
<1>. QED  BY <1>1, <1>4, <1>6, <1>7, <1>8 DEF AlertsInv, KeysOnce, Singles, MarkedIsTold

\* The steps of the queue, of linking, and of the cron.
LEMMA QueueKeeps ==
  ASSUME AlertsInv, NEW b \in Bucket, EnqueueRecs(b) \/ SaveProfile(b) \/ Digest(b)
  PROVE  AlertsInv'
<1>1. AlertsTypeOK /\ at \in [OrgJob -> Place]
  BY DEF AlertsInv, AlertsTypeOK
<1>2. <<"recs", b>> \in OrgJob /\ <<"alerts", b>> \in OrgJob
  BY JobsAndPlaces
<1>3. UNCHANGED <<mode, stage, rec, notes, progress, moves, faults>> /\ linked' \in BOOLEAN
  BY <1>1 DEF EnqueueRecs, SaveProfile, Digest, AlertsTypeOK
<1>4. at' \in [OrgJob -> Place]
  BY <1>1 DEF EnqueueRecs, SaveProfile, Digest, Enqueued, Place
<1>5. AlertsTypeOK'
  BY <1>1, <1>3, <1>4, ShortLists DEF AlertsTypeOK
<1>6. RowsKept'
  <2>1. \A j \in OrgJob : at'[j] = at[j] \/ at'[j] = "queued"
    BY <1>1 DEF EnqueueRecs, SaveProfile, Digest, Enqueued
  <2>. QED  BY <1>3, <2>1, NoRowTaken
<1>. QED  BY <1>3, <1>5, <1>6, QuietStep

LEMMA LinkKeeps ==
  ASSUME AlertsInv, NEW o \in Opp, NEW s \in Stage, Link(o, s)
  PROVE  AlertsInv'
<1>1. AlertsTypeOK
  BY DEF AlertsInv
<1>2. /\ UNCHANGED <<mode, rec, notes, at, progress, faults>> /\ linked' = TRUE
      /\ stage' = [stage EXCEPT ![o] = s] /\ moves < MaxStageMoves /\ moves' = moves + 1
  BY DEF Link
<1>3. stage' \in [Opp -> Stage] /\ moves' \in 0 .. MaxStageMoves
  BY <1>1, <1>2, AlertsAssumption DEF AlertsTypeOK
<1>4. AlertsTypeOK'
  BY <1>1, <1>2, <1>3, ShortLists DEF AlertsTypeOK
<1>5. RowsKept'
  BY <1>2, NoRowTaken
<1>. QED  BY <1>2, <1>4, <1>5, QuietStep

LEMMA FeedbackKeeps ==
  ASSUME AlertsInv, NEW o \in Opp, NEW f \in Feedback, GiveFeedback(o, f)
  PROVE  AlertsInv'
<1>1. AlertsTypeOK /\ rec \in [Opp -> Rec]
  BY DEF AlertsInv, AlertsTypeOK
<1>2. /\ UNCHANGED <<mode, stage, linked, notes, at, progress, moves, faults>>
      /\ rec' = [rec EXCEPT ![o].feedback = f] /\ rec[o] # NoRec
  BY DEF GiveFeedback, Recommended
<1>3. rec[o] \in [told : Stage, fit : BOOLEAN, feedback : Feedback]
  BY <1>1, <1>2 DEF Rec
<1>4. [rec[o] EXCEPT !.feedback = f] \in [told : Stage, fit : BOOLEAN, feedback : Feedback]
  BY <1>3
<1>a. [rec[o] EXCEPT !.feedback = f] \in Rec /\ [rec[o] EXCEPT !.feedback = f] # NoRec
  BY <1>4, RealRec
<1>5. /\ rec' \in [Opp -> Rec] /\ \A p \in Opp : rec'[p].told = rec[p].told
      /\ \A p \in Opp : rec[p] # NoRec => rec'[p] # NoRec
  BY <1>1, <1>2, <1>3, <1>a
<1>6. AlertsTypeOK'
  BY <1>1, <1>2, <1>5, ShortLists DEF AlertsTypeOK
<1>7. RowsKept'
  BY <1>2, <1>5, NoRowTaken
<1>. QED  BY <1>2, <1>5, <1>6, <1>7, RecStep

\* The steps of refresh_recommendations before its commit.
LEMMA RankKeeps ==
  ASSUME AlertsInv, NEW j \in RecsJob, RankOpen(j)
  PROVE  AlertsInv'
<1>1. AlertsTypeOK /\ j \in OrgJob
  BY JobsAndPlaces DEF AlertsInv
<1>a. PICK k \in Rankings :
        \E f \in SUBSET k : progress' = [progress EXCEPT ![j] = [NoWork EXCEPT !.keep = k, !.fit = f]]
  BY DEF RankOpen
<1>2. PICK f \in SUBSET k : progress' = [progress EXCEPT ![j] = [NoWork EXCEPT !.keep = k, !.fit = f]]
  BY <1>a
<1>3. at' = [at EXCEPT ![j] = "ranked"] /\ UNCHANGED <<mode, stage, linked, rec, notes, moves, faults>>
  BY DEF RankOpen
<1>4. k \subseteq Opp
  BY DEF Rankings
<1>. DEFINE w == [NoWork EXCEPT !.keep = k, !.fit = f]
<1>5. w \in Work /\ w.tell = <<>> /\ w.marks = {}
  <2>1. f \subseteq Opp
    BY <1>4
  <2>2. NoWork \in Work
    BY DEF NoWork, Work
  <2>3. w \in Work /\ w.tell = NoWork.tell /\ w.marks = NoWork.marks
    BY <1>4, <2>1, <2>2 DEF Work
  <2>. QED  BY <2>3 DEF NoWork
<1>. HIDE DEF w
<1>6. /\ progress' \in [OrgJob -> Work] /\ at' \in [OrgJob -> Place]
      /\ progress'[j] = w /\ \A i \in OrgJob \ {j} : progress'[i] = progress[i]
  BY <1>1, <1>2, <1>3, <1>5 DEF AlertsTypeOK, Place, w
<1>7. AlertsTypeOK'
  BY <1>1, <1>3, <1>5, <1>6, ShortLists DEF AlertsTypeOK
<1>8. RowsKept'
  <2>1. \A i \in OrgJob : (at'[i] = at[i] /\ progress'[i] = progress[i]) \/ at'[i] = "ranked"
    BY <1>1, <1>3, <1>6 DEF AlertsTypeOK
  <2>. QED  BY <1>3, <2>1, NoRowTaken
<1>. QED  BY <1>3, <1>5, <1>6, <1>7, <1>8, QuietStep

LEMMA UpsertKeeps ==
  ASSUME AlertsInv, NEW j \in RecsJob, Upsert(j)
  PROVE  AlertsInv'
<1>1. AlertsTypeOK /\ j \in OrgJob
  BY JobsAndPlaces DEF AlertsInv
<1>2. PICK gone \in SUBSET Opp :
        progress' = [progress EXCEPT ![j].gone = gone] /\ ~RowsLocked(j, gone \cup progress[j].keep)
  BY DEF Upsert
<1>3. at' = [at EXCEPT ![j] = "upserted"] /\ UNCHANGED <<mode, stage, linked, rec, notes, moves, faults>>
  BY DEF Upsert
<1>4. progress[j] \in Work
  BY <1>1 DEF AlertsTypeOK
<1>5. /\ [progress[j] EXCEPT !.gone = gone] \in Work
      /\ [progress[j] EXCEPT !.gone = gone].tell = progress[j].tell
      /\ [progress[j] EXCEPT !.gone = gone].marks = progress[j].marks
  BY <1>4 DEF Work
<1>6. /\ progress' \in [OrgJob -> Work] /\ at' \in [OrgJob -> Place]
      /\ progress'[j] = [progress[j] EXCEPT !.gone = gone]
      /\ \A i \in OrgJob \ {j} : progress'[i] = progress[i]
  BY <1>1, <1>2, <1>3, <1>5 DEF AlertsTypeOK, Place
<1>7. \A i \in OrgJob : progress'[i].tell = progress[i].tell /\ progress'[i].marks = progress[i].marks
  BY <1>5, <1>6
<1>8. TellCap' = TellCap /\ AllListed' = AllListed
  BY <1>3 DEF TellCap, AllListed
<1>9. AlertsTypeOK'
  BY <1>1, <1>3, <1>6, <1>7, <1>8 DEF AlertsTypeOK
<1>10. InHand'
  BY <1>7, <1>8 DEF AlertsInv, InHand
<1>11. KeysOnce' /\ Singles'
  BY <1>3 DEF AlertsInv, KeysOnce, Singles, KeyOf
<1>12. MarkedIsTold'
  BY <1>3, <1>8 DEF AlertsInv, MarkedIsTold, Told
<1>13. RowsKept'
  <2>. SUFFICES ASSUME NEW i \in AlertsJob, at'[i] = "inserted", NEW o \in Opps(progress'[i].marks)
                PROVE  /\ rec'[o] # NoRec
                       /\ \A k \in RecsJob : at'[k] = "upserted" => o \notin progress'[k].gone
    BY DEF RowsKept, Recommended
  <2>1. i \in OrgJob /\ i # j /\ RecsJob \subseteq OrgJob
    BY JobsAndPlaces
  <2>2. at[i] = "inserted" /\ progress'[i] = progress[i]
    BY <1>1, <1>3, <1>6, <2>1 DEF AlertsTypeOK
  <2>3. rec[o] # NoRec /\ \A k \in RecsJob : at[k] = "upserted" => o \notin progress[k].gone
    BY <2>2 DEF AlertsInv, RowsKept, Recommended
  <2>4. o \notin gone
    BY <1>2, <2>1, <2>2 DEF RowsLocked, Touches
  <2>5. progress'[j].gone = gone
    BY <1>4, <1>6 DEF Work
  <2>. QED  BY <1>3, <1>6, <2>1, <2>3, <2>4, <2>5
<1>. QED  BY <1>9, <1>10, <1>11, <1>12, <1>13 DEF AlertsInv

\* A new score.
LEMMA FitSet ==
  ASSUME NEW r \in [told : Stage, fit : BOOLEAN, feedback : Feedback], NEW F, NEW o
  PROVE  LET q == [r EXCEPT !.fit = o \in F]
         IN q \in Rec /\ q # NoRec /\ q.told = r.told
<1>1. (o \in F) \in BOOLEAN
  OBVIOUS
<1>2. ASSUME NEW b \in BOOLEAN
      PROVE  /\ [r EXCEPT !.fit = b] \in [told : Stage, fit : BOOLEAN, feedback : Feedback]
             /\ [r EXCEPT !.fit = b].told = r.told
  OBVIOUS
<1>. QED  BY <1>1, <1>2, RealRec

\* What is told now.
LEMMA ToldSet ==
  ASSUME NEW r \in Rec, r # NoRec, NEW s \in Stage
  PROVE  [r EXCEPT !.told = s] \in Rec /\ [r EXCEPT !.told = s] # NoRec /\ [r EXCEPT !.told = s].told = s
<1>1. r \in [told : Stage, fit : BOOLEAN, feedback : Feedback]
  BY DEF Rec
<1>2. /\ [r EXCEPT !.told = s] \in [told : Stage, fit : BOOLEAN, feedback : Feedback]
      /\ [r EXCEPT !.told = s].told = s
  BY <1>1
<1>. QED  BY <1>2, RealRec

\* A refresh may forget what has been told; it invents nothing.
LEMMA CommitRecsKeeps ==
  ASSUME AlertsInv, NEW j \in RecsJob, CommitRecs(j)
  PROVE  AlertsInv'
<1>1. AlertsTypeOK /\ j \in OrgJob
  BY JobsAndPlaces DEF AlertsInv
<1>2. /\ FinishOrgJob(j, "committed") /\ UNCHANGED <<mode, stage, linked, notes, moves, faults>>
      /\ rec' = [o \in Opp |-> Upserted(progress[j], o)]
  BY DEF CommitRecs
<1>3. /\ at' \in [OrgJob -> Place] /\ progress' \in [OrgJob -> Work]
      /\ \A k \in OrgJob : progress'[k] = progress[k] \/ progress'[k] = NoWork
  BY <1>1, <1>2, FinishTypes DEF Place
<1>4. ASSUME NEW o \in Opp
      PROVE  /\ Upserted(progress[j], o) \in Rec
             /\ Upserted(progress[j], o).told \in {0, rec[o].told}
             /\ rec[o] # NoRec /\ o \notin progress[j].gone => Upserted(progress[j], o) # NoRec
  <2>. DEFINE w == progress[j]
  <2>1. rec[o] \in Rec /\ 0 \in Stage
    BY <1>1, AlertsAssumption DEF AlertsTypeOK, Stage
  <2>2. NoRec \in Rec /\ NoRec.told = 0
    BY DEF NoRec, Rec
  <2>3. [told |-> 0, fit |-> o \in w.fit, feedback |-> "none"] \in Rec
    BY <2>1 DEF Rec, Feedback
  <2>4. CASE Recommended(o)
    <3>1. rec[o] \in [told : Stage, fit : BOOLEAN, feedback : Feedback]
      BY <2>1, <2>4 DEF Rec, Recommended
    <3>2. /\ [rec[o] EXCEPT !.fit = o \in w.fit] \in Rec
          /\ [rec[o] EXCEPT !.fit = o \in w.fit] # NoRec
          /\ [rec[o] EXCEPT !.fit = o \in w.fit].told = rec[o].told
      BY <3>1, FitSet
    <3>. QED  BY <2>1, <2>2, <2>4, <3>2 DEF Upserted
  <2>. QED  BY <2>1, <2>2, <2>3, <2>4 DEF Upserted, Recommended
<1>5. rec' \in [Opp -> Rec] /\ \A o \in Opp : rec'[o].told \in {0, rec[o].told}
  BY <1>2, <1>4
<1>6. NoWork.tell = <<>>
  BY DEF NoWork
<1>7. AlertsTypeOK'
  BY <1>1, <1>2, <1>3, <1>5, <1>6, ShortLists DEF AlertsTypeOK
<1>8. RowsKept'
  <2>. SUFFICES ASSUME NEW i \in AlertsJob, at'[i] = "inserted", NEW o \in Opps(progress'[i].marks)
                PROVE  /\ rec'[o] # NoRec
                       /\ \A k \in RecsJob : at'[k] = "upserted" => o \notin progress'[k].gone
    BY DEF RowsKept, Recommended
  <2>1. i \in OrgJob /\ i # j /\ RecsJob \subseteq OrgJob
    BY JobsAndPlaces
  <2>2. /\ at' = [at EXCEPT ![j] = "committed"] /\ progress' = [progress EXCEPT ![j] = NoWork]
        /\ at \in [OrgJob -> Place] /\ progress \in [OrgJob -> Work] /\ at[j] = "upserted"
    BY <1>1, <1>2 DEF FinishOrgJob, AlertsTypeOK, CommitRecs
  <2>3. at[i] = "inserted" /\ progress'[i] = progress[i]
    BY <1>1, <2>1, <2>2
  <2>4. rec[o] # NoRec /\ \A k \in RecsJob : at[k] = "upserted" => o \notin progress[k].gone
    BY <2>3 DEF AlertsInv, RowsKept, Recommended
  <2>5. o \in Opp
    <3>1. progress[i].marks \subseteq Item
      BY <2>1, <2>2, WorkTypes
    <3>. QED  BY <2>3, <3>1 DEF Opps, Item
  <2>6. rec'[o] # NoRec
    BY <1>2, <1>4, <2>2, <2>4, <2>5
  <2>. QED  BY <1>1, <2>1, <2>2, <2>4, <2>6
<1>. QED  BY <1>2, <1>3, <1>5, <1>7, <1>8, RecStep

\* The jobs that end, die, or set another one going.
LEMMA EndsKeeps ==
  ASSUME AlertsInv, NEW j \in OrgJob,
         \/ EnqueueNone(j) \/ NothingFresh(j) \/ Stale(j) \/ AbortOrgJob(j) \/ InsertNotes(j)
         \/ \E b \in Bucket : EnqueueAlerts(j, b)
  PROVE  AlertsInv'
<1>1. AlertsTypeOK /\ at \in [OrgJob -> Place] /\ progress \in [OrgJob -> Work]
  BY DEF AlertsInv, AlertsTypeOK
<1>2. NoWork.tell = <<>>
  BY DEF NoWork
<1>3. UNCHANGED <<mode, stage, linked, rec, notes, moves>> /\ faults' \in 0 .. MaxAlertFaults
  BY <1>1, AlertsAssumption
  DEF EnqueueNone, NothingFresh, Stale, AbortOrgJob, InsertNotes, EnqueueAlerts, AlertsTypeOK
<1>4. /\ at' \in [OrgJob -> Place] /\ progress' \in [OrgJob -> Work]
      /\ \A k \in OrgJob : progress'[k] = progress[k] \/ progress'[k] = NoWork
  <2>1. CASE EnqueueNone(j) \/ NothingFresh(j) \/ Stale(j)
    BY <1>1, <2>1, FinishTypes DEF EnqueueNone, NothingFresh, Stale, Place
  <2>2. CASE AbortOrgJob(j)
    BY <1>1, <2>2, FinishTypes DEF AbortOrgJob, Place
  <2>3. CASE InsertNotes(j)
    BY <1>1, <2>3 DEF InsertNotes, Place
  <2>4. CASE \E b \in Bucket : EnqueueAlerts(j, b)
    BY <1>1, <2>4 DEF EnqueueAlerts, Place
  <2>. QED  BY <2>1, <2>2, <2>3, <2>4
<1>5. AlertsTypeOK'
  BY <1>1, <1>2, <1>3, <1>4, ShortLists DEF AlertsTypeOK
<1>6. CASE InsertNotes(j)
  <2>1. /\ at' = [at EXCEPT ![j] = "inserted"] /\ progress' = progress
        /\ \A o \in Opps(progress[j].marks) : Recommended(o)
        /\ ~RowsLocked(j, Opps(progress[j].marks)) /\ at[j] = "chosen"
    BY <1>6 DEF InsertNotes, MayInsert
  <2>2. RowsKept'
    <3>. SUFFICES ASSUME NEW i \in AlertsJob, at'[i] = "inserted", NEW o \in Opps(progress[i].marks)
                  PROVE  /\ rec[o] # NoRec
                         /\ \A k \in RecsJob : at'[k] = "upserted" => o \notin progress[k].gone
      BY <1>3, <2>1 DEF RowsKept, Recommended
    <3>1. ASSUME NEW k \in RecsJob, at'[k] = "upserted"  PROVE k \in OrgJob /\ k # j /\ at[k] = "upserted"
      BY <1>1, <2>1, <3>1, JobsAndPlaces
    <3>2. CASE i = j
      BY <2>1, <3>1, <3>2 DEF RowsLocked, Touches, Recommended
    <3>3. CASE i # j
      <4>1. at[i] = "inserted"
        BY <1>1, <2>1, <3>3, JobsAndPlaces
      <4>. QED  BY <3>1, <4>1 DEF AlertsInv, RowsKept, Recommended
    <3>. QED  BY <3>2, <3>3
  <2>. QED  BY <1>3, <1>4, <1>5, <2>2, QuietStep
<1>7. CASE ~InsertNotes(j)
  <2>1. \A i \in OrgJob : \/ at'[i] = at[i] /\ progress'[i] = progress[i]
                          \/ at'[i] \notin {"upserted", "inserted"}
    BY <1>1, <1>7 DEF EnqueueNone, NothingFresh, Stale, AbortOrgJob, EnqueueAlerts, FinishOrgJob
  <2>2. RowsKept'
    BY <1>3, <2>1, NoRowTaken
  <2>. QED  BY <1>3, <1>4, <1>5, <2>2, QuietStep
<1>. QED  BY <1>6, <1>7

\* What a job takes in hand it will mark, and nothing else, if it lists all.
LEMMA ChooseKeeps ==
  ASSUME AlertsInv, NEW j \in AlertsJob, Choose(j)
  PROVE  AlertsInv'
<1>1. AlertsTypeOK /\ j \in OrgJob /\ mode \in Modes
  BY JobsAndPlaces DEF AlertsInv, AlertsTypeOK
<1>2. PICK s \in SetToSeqs(Fresh) :
        progress' = [progress EXCEPT ![j] = [NoWork EXCEPT !.tell = First(s), !.marks = Marked(s)]]
  BY DEF Choose
<1>3. at' = [at EXCEPT ![j] = "chosen"] /\ UNCHANGED <<mode, stage, linked, rec, notes, moves, faults>>
  BY DEF Choose
<1>4. s \in Seq(Item) /\ Len(s) <= Cardinality(Opp) /\ Cardinality(Opp) \in Nat
  BY <1>1, OrderOfFresh DEF AlertsTypeOK
<1>5. /\ First(s) \in Seq(Item) /\ Len(First(s)) <= TellCap
      /\ Len(s) <= TellCap => First(s) = s
  BY <1>1, <1>4, FirstOfList
<1>6. Marked(s) \subseteq Item
  BY <1>4, <1>5, ItemsOfList DEF Marked
<1>7. AllListed => Marked(s) = ToSet(First(s))
  <2>1. CASE mode = "instant"
    BY <2>1 DEF Marked
  <2>2. CASE mode # "instant" /\ Cardinality(Opp) <= DigestCap
    <3>1. TellCap = DigestCap /\ DigestCap \in Nat /\ Len(s) \in Nat
      BY <2>2, <1>4, LenProperties, AlertsAssumption DEF TellCap
    <3>2. Len(s) <= TellCap
      BY <3>1, <2>2, <1>4
    <3>. QED  BY <3>2, <2>2, <1>5 DEF Marked
  <2>. QED  BY <2>1, <2>2 DEF AllListed
<1>. DEFINE w == [NoWork EXCEPT !.tell = First(s), !.marks = Marked(s)]
<1>8. w \in Work /\ w.tell = First(s) /\ w.marks = Marked(s)
  BY <1>5, <1>6 DEF NoWork, Work
<1>. HIDE DEF w
<1>9. /\ progress' \in [OrgJob -> Work] /\ at' \in [OrgJob -> Place]
      /\ progress'[j] = w /\ \A i \in OrgJob \ {j} : progress'[i] = progress[i]
  BY <1>1, <1>2, <1>3, <1>8 DEF AlertsTypeOK, Place, w
<1>10. TellCap' = TellCap /\ AllListed' = AllListed
  BY <1>3 DEF TellCap, AllListed
<1>11. AlertsTypeOK'
  BY <1>1, <1>3, <1>5, <1>8, <1>9, <1>10 DEF AlertsTypeOK
<1>12. InHand'
  BY <1>7, <1>8, <1>9, <1>10 DEF AlertsInv, InHand
<1>13. KeysOnce' /\ Singles'
  BY <1>3 DEF AlertsInv, KeysOnce, Singles, KeyOf
<1>14. MarkedIsTold'
  BY <1>3, <1>10 DEF AlertsInv, MarkedIsTold, Told
<1>15. RowsKept'
  <2>1. \A i \in OrgJob : (at'[i] = at[i] /\ progress'[i] = progress[i]) \/ at'[i] = "chosen"
    BY <1>1, <1>3, <1>9 DEF AlertsTypeOK
  <2>. QED  BY <1>3, <2>1, NoRowTaken
<1>. QED  BY <1>11, <1>12, <1>13, <1>14, <1>15 DEF AlertsInv

\* What one insert adds.
LEMMA InsertedNote ==
  ASSUME NEW d  PROVE Inserted(d) \subseteq {d} /\ (Inserted(d) = {} => SameKey(d) # {})
BY DEF Inserted

\* Every list is drafted for every channel.
LEMMA DraftOf ==
  ASSUME NEW j \in AlertsJob, NEW c \in Channel, NEW b \in Batches(progress[j])
  PROVE  \E d \in Drafts(j) : d.channel = c /\ d.items = b
<1>. DEFINE D(x, y) ==
       [channel |-> x, items |-> y, rest |-> progress[j].marks \ ToSet(progress[j].tell), copy |-> 0]
<1>1. D(c, b).channel = c /\ D(c, b).items = b
  OBVIOUS
<1>2. Drafts(j) = {D(x, y) : x \in Channel, y \in Batches(progress[j])}
  BY DEF Drafts
<1>. HIDE DEF D
<1>3. D(c, b) \in Drafts(j)
  BY <1>2
<1>. QED  BY <1>1, <1>3

\* The commit of the notes with the marks.
LEMMA CommitAlertsKeeps ==
  ASSUME AlertsInv, NEW j \in AlertsJob, CommitAlerts(j)
  PROVE  AlertsInv'
<1>1. AlertsTypeOK /\ j \in OrgJob /\ mode \in Modes
  BY JobsAndPlaces DEF AlertsInv, AlertsTypeOK
<1>. DEFINE w == progress[j]
            new == UNION {Inserted(d) : d \in Drafts(j)}
<1>2. /\ w \in Work /\ w.tell \in Seq(Item) /\ w.marks \subseteq Item /\ ToSet(w.tell) \subseteq Item
  BY <1>1, WorkTypes, ItemsOfList DEF AlertsTypeOK
<1>3. /\ FinishOrgJob(j, "kept") /\ UNCHANGED <<mode, stage, linked, moves, faults>>
      /\ notes' = notes \cup new
      /\ rec' = [o \in Opp |-> IF \E s \in Stage : <<o, s>> \in w.marks
                               THEN [rec[o] EXCEPT !.told = CHOOSE s \in Stage : <<o, s>> \in w.marks]
                               ELSE rec[o]]
  BY DEF CommitAlerts
<1>4. \A d \in Drafts(j) :
        d \in Note /\ d.channel \in Channel /\ d.items \in Batches(w)
        /\ d.rest = w.marks \ ToSet(w.tell) /\ d.copy = 0
  <2>1. ASSUME NEW b \in Batches(w)  PROVE b \in Seq(Item)
    <3>1. \A i \in Item : <<i>> \in Seq(Item)
      OBVIOUS
    <3>. QED  BY <1>2, <2>1, <3>1 DEF Batches
  <2>. QED  BY <1>2, <2>1 DEF Drafts, Note
<1>5. new \subseteq Drafts(j)
  BY InsertedNote
<1>6. \A d \in Drafts(j) : \E n \in notes' : KeyOf(n) = KeyOf(d)
  BY <1>3, InsertedNote DEF SameKey
<1>. HIDE DEF new
<1>7. /\ at' \in [OrgJob -> Place] /\ progress' \in [OrgJob -> Work]
      /\ \A k \in OrgJob : progress'[k] = progress[k] \/ progress'[k] = NoWork
  BY <1>1, <1>3, FinishTypes DEF Place
<1>8. NoWork.marks = {} /\ NoWork.tell = <<>> /\ ToSet(<<>>) = {} /\ NoWork.marks = ToSet(NoWork.tell)
  BY DEF NoWork, ToSet
<1>9. AllListed' = AllListed
  BY <1>3 DEF AllListed
<1>10. ASSUME NEW o \in Opp
       PROVE  /\ rec'[o] \in Rec
              /\ rec'[o].told = rec[o].told \/ <<o, rec'[o].told>> \in w.marks
              /\ rec[o] # NoRec => rec'[o] # NoRec
  <2>1. rec[o] \in Rec
    BY <1>1 DEF AlertsTypeOK
  <2>2. CASE \E s \in Stage : <<o, s>> \in w.marks
    <3>. DEFINE t == CHOOSE s \in Stage : <<o, s>> \in w.marks
    <3>1. t \in Stage /\ <<o, t>> \in w.marks
      BY <2>2
    <3>2. rec'[o] = [rec[o] EXCEPT !.told = t]
      BY <1>3, <2>2
    <3>3. rec[o] # NoRec
      <4>1. o \in Opps(w.marks)
        BY <3>1 DEF Opps
      <4>2. at[j] = "inserted"
        BY DEF CommitAlerts
      <4>. QED  BY <4>1, <4>2 DEF AlertsInv, RowsKept, Recommended
    <3>. HIDE DEF t
    <3>4. /\ [rec[o] EXCEPT !.told = t] \in Rec /\ [rec[o] EXCEPT !.told = t] # NoRec
          /\ [rec[o] EXCEPT !.told = t].told = t
      BY <2>1, <3>1, <3>3, ToldSet
    <3>. QED  BY <3>1, <3>2, <3>4
  <2>. QED  BY <1>3, <2>1, <2>2
<1>11. AlertsTypeOK'
  <2>1. rec' \in [Opp -> Rec] /\ notes' \subseteq Note
    BY <1>1, <1>3, <1>4, <1>5, <1>10 DEF AlertsTypeOK
  <2>. QED  BY <1>1, <1>3, <1>7, <1>8, <2>1, ShortLists DEF AlertsTypeOK
<1>12. InHand'
  BY <1>7, <1>8, <1>9 DEF AlertsInv, InHand
<1>13. KeysOnce'
  <2>. SUFFICES ASSUME NEW m \in notes', NEW n \in notes', KeyOf(m) = KeyOf(n)  PROVE m = n
    BY DEF KeysOnce, KeyOf
  <2>1. \A d \in new : d \in Drafts(j) /\ SameKey(d) = {}
    BY DEF new, Inserted
  <2>2. CASE m \in notes /\ n \in notes
    BY <2>2 DEF AlertsInv, KeysOnce
  <2>3. CASE m \in notes /\ n \in new
    BY <2>1, <2>3 DEF SameKey
  <2>4. CASE m \in new /\ n \in notes
    BY <2>1, <2>4 DEF SameKey
  <2>5. CASE m \in new /\ n \in new
    <3>1. m.channel = n.channel /\ m.items = n.items
      BY DEF KeyOf
    <3>2. m \in Drafts(j) /\ n \in Drafts(j)
      BY <2>1, <2>5
    <3>3. m \in Note /\ n \in Note /\ m.rest = n.rest /\ m.copy = n.copy
      BY <3>2, <1>4
    <3>. QED  BY <3>1, <3>3 DEF Note
  <2>. QED  BY <1>3, <2>2, <2>3, <2>4, <2>5
<1>14. Singles'
  <2>. SUFFICES ASSUME mode = "instant", NEW n \in notes'  PROVE \E i \in Item : n.items = <<i>>
    BY <1>3 DEF Singles
  <2>1. CASE n \in notes
    BY <2>1 DEF AlertsInv, Singles
  <2>2. CASE n \in new
    <3>1. n.items \in {<<i>> : i \in ToSet(w.tell)}
      BY <2>2, <1>4, <1>5 DEF Batches
    <3>. QED  BY <3>1, <1>2
  <2>. QED  BY <1>3, <2>1, <2>2
<1>15. MarkedIsTold'
  <2>. SUFFICES ASSUME AllListed, NEW o \in Opp, NEW c \in Channel, rec'[o].told # 0
                PROVE  Told(c, o)'
    BY <1>9 DEF MarkedIsTold
  <2>. DEFINE i == <<o, rec'[o].told>>
  <2>1. CASE rec'[o].told = rec[o].told
    <3>1. Told(c, o)
      BY <2>1 DEF AlertsInv, MarkedIsTold
    <3>. QED  BY <1>3, <2>1, <3>1 DEF Told
  <2>2. CASE i \in w.marks
    <3>1. i \in ToSet(w.tell)
      BY <1>1, <2>2 DEF AlertsInv, InHand
    <3>2. PICK b \in Batches(w) : i \in ToSet(b)
      <4>1. i \in ToSet(<<i>>)
        BY DEF ToSet
      <4>. QED  BY <3>1, <4>1 DEF Batches
    <3>3. PICK d \in Drafts(j) : d.channel = c /\ d.items = b
      BY DraftOf
    <3>4. PICK n \in notes' : KeyOf(n) = KeyOf(d)
      BY <1>6
    <3>5. n.channel = c /\ n.items = b
      BY <3>3, <3>4 DEF KeyOf
    <3>. QED  BY <3>2, <3>4, <3>5 DEF Told
  <2>. QED  BY <1>10, <2>1, <2>2
<1>16. RowsKept'
  <2>1. \A i \in OrgJob : (at'[i] = at[i] /\ progress'[i] = progress[i]) \/ at'[i] = "kept"
    BY <1>1, <1>3 DEF AlertsTypeOK, FinishOrgJob
  <2>2. \A o \in Opp : rec[o] # NoRec => rec'[o] # NoRec
    BY <1>10
  <2>. QED  BY <2>1, <2>2, NoRowTaken
<1>. QED  BY <1>11, <1>12, <1>13, <1>14, <1>15, <1>16 DEF AlertsInv

LEMMA AlertsStutter == AlertsInv /\ UNCHANGED alertVars => AlertsInv'
<1>. SUFFICES ASSUME AlertsInv, UNCHANGED alertVars  PROVE AlertsInv'
  OBVIOUS
<1>1. UNCHANGED <<mode, stage, linked, rec, notes, at, progress, moves, faults>>
  BY DEF alertVars
<1>2. AlertsTypeOK'
  BY <1>1 DEF AlertsInv, AlertsTypeOK, TellCap
<1>3. RowsKept'
  BY <1>1, NoRowTaken
<1>. QED  BY <1>1, <1>2, <1>3, QuietStep

LEMMA AlertsNextKeeps == AlertsInv /\ [AlertsNext]_alertVars => AlertsInv'
<1>. SUFFICES ASSUME AlertsInv, AlertsNext  PROVE AlertsInv'
  BY AlertsStutter
<1>1. ASSUME NEW o \in Opp, (\E s \in Stage : Link(o, s)) \/ (\E f \in Feedback : GiveFeedback(o, f))
      PROVE  AlertsInv'
  BY <1>1, LinkKeeps, FeedbackKeeps
<1>2. ASSUME NEW b \in Bucket, EnqueueRecs(b) \/ SaveProfile(b) \/ Digest(b)  PROVE AlertsInv'
  BY <1>2, QueueKeeps
<1>3. ASSUME NEW j \in RecsJob,
             \/ RankOpen(j) \/ Upsert(j) \/ CommitRecs(j) \/ EnqueueNone(j) \/ AbortOrgJob(j)
             \/ \E b \in Bucket : EnqueueAlerts(j, b)
      PROVE  AlertsInv'
  BY <1>3, JobsAndPlaces, RankKeeps, UpsertKeeps, CommitRecsKeeps, EndsKeeps
<1>4. ASSUME NEW j \in AlertsJob,
             Choose(j) \/ NothingFresh(j) \/ InsertNotes(j) \/ Stale(j) \/ CommitAlerts(j) \/ AbortOrgJob(j)
      PROVE  AlertsInv'
  BY <1>4, JobsAndPlaces, ChooseKeeps, CommitAlertsKeeps, EndsKeeps
<1>. QED  BY <1>1, <1>2, <1>3, <1>4, Zenon DEF AlertsNext

-----------------------------------------------------------------------------
(* The theorems. *)

\* The invariant of recommendations and alerts holds whatever jobs overlap,
\* die and come again (refresh_recommendations, enqueue_alerts).
THEOREM AlertsInvariant == AlertsSpec => []AlertsInv
BY AlertsInitRight, AlertsNextKeeps, PTL DEF AlertsSpec

\* The variables have their types; a job lists no more than its limit
\* (enqueue_alerts: 20 notes of an instant job, 15 opportunities of a digest).
THEOREM AlertsTypeCorrect == AlertsSpec => []AlertsTypeOK
<1>1. AlertsInv => AlertsTypeOK
  BY DEF AlertsInv
<1>. QED  BY <1>1, AlertsInvariant, PTL

\* In instant mode no opportunity is told twice at one stage on one channel,
\* although deleting its recommendation forgets that it was told
\* (Notification.dedupe_key, notify/dispatch.py:7-8).
THEOREM NotToldTwice == AlertsSpec => []InstantToldOnce
<1>1. ASSUME AlertsInv, mode = "instant", NEW m \in notes, NEW n \in notes,
             m.channel = n.channel, ToSet(m.items) \cap ToSet(n.items) # {}
      PROVE  m = n
  <2>1. PICK i \in Item, k \in Item : m.items = <<i>> /\ n.items = <<k>>
    BY <1>1 DEF AlertsInv, Singles
  <2>2. \A x : ToSet(<<x>>) = {x}
    BY DEF ToSet
  <2>3. i = k
    BY <1>1, <2>1, <2>2
  <2>. QED  BY <1>1, <2>1, <2>3 DEF AlertsInv, KeysOnce, KeyOf
<1>2. AlertsInv => InstantToldOnce
  BY <1>1 DEF InstantToldOnce, ToldOnce
<1>. QED  BY <1>2, AlertsInvariant, PTL

\* Nothing is taken for told that no note of every channel lists: not what is
\* beyond the limit of an instant job, nor what a job has lost
\* (enqueue_alerts, notify/dispatch.py:218).
THEOREM WhatIsMarkedWasTold == AlertsSpec => []MarkedIsTold
<1>1. AlertsInv => MarkedIsTold
  BY DEF AlertsInv
<1>. QED  BY <1>1, AlertsInvariant, PTL

-----------------------------------------------------------------------------
(* The feed. *)

\* Where a walk is: what stayed and is not behind the cursor has been shown, and
\* nothing that is behind it.
Walking ==
  /\ next.day <= feedDay /\ OneOrder(next.day)
  /\ \A n \in DOMAIN pages : pages[n] \in Still => ~IsBehind(pages[n], next, next.day)
  /\ \A o \in Still : rows[o].shown => o \in ToSet(pages) \/ IsBehind(o, next, next.day)

Walked ==
  /\ \E day \in 1 .. feedDay : OneOrder(day)
  /\ \A o \in Still : rows[o].shown => o \in ToSet(pages)

FeedInv ==
  /\ FeedTypeOK
  /\ next = FirstPage => pages = <<>> /\ moved = {}
  /\ next = NoMore => Walked
  /\ next \in Cursor => Walking

-----------------------------------------------------------------------------
(* The order of the list is total. *)

LEMMA FeedKeys ==
  ASSUME FeedTypeOK, NEW o \in Listed, NEW day \in 1 .. LastFeedDay
  PROVE  /\ SortKey(rows[o], day) \in Nat /\ rows[o].score \in Nat /\ o \in Nat
         /\ CursorAt(o, day) \in Cursor
<1>1. rows[o] \in Row /\ LastFeedDay \in Nat \ {0} /\ Scores \subseteq Nat /\ Listed \subseteq Nat
  BY FeedAssumption DEF FeedTypeOK
<1>2. rows[o].score \in Scores /\ rows[o].window \in Nat /\ rows[o].signal \in Nat /\ day \in Nat
  BY <1>1 DEF Row, FarAway
<1>3. SortKey(rows[o], day) \in Nat
  BY <1>1, <1>2 DEF SortKey, Later, FeedTypeOK
<1>. QED  BY <1>1, <1>2, <1>3 DEF CursorAt, Cursor

LEMMA CursorKeys ==
  ASSUME NEW c \in Cursor
  PROVE  /\ c.value \in Nat /\ c.score \in Nat /\ c.id \in Nat /\ c.day \in 1 .. LastFeedDay
         /\ c.day \in Nat \ {0} /\ c # FirstPage /\ c # NoMore
<1>1. c.value \in Nat /\ c.score \in Nat /\ c.id \in Nat /\ c.day \in 1 .. LastFeedDay
  BY FeedAssumption DEF Cursor
<1>2. c.day \in Nat \ {0}
  BY <1>1, FeedAssumption
<1>. QED  BY <1>1, <1>2 DEF FirstPage, NoMore

LEMMA EndsAreNoCursors == FirstPage \notin Cursor /\ NoMore \notin Cursor /\ FirstPage # NoMore
BY CursorKeys DEF FirstPage, NoMore

\* A row is not behind itself, and one that is not behind a cursor precedes one
\* that is.
LEMMA NotBehindItself ==
  ASSUME FeedTypeOK, NEW o \in Listed, NEW day \in 1 .. LastFeedDay
  PROVE  ~Precedes(o, o, day)
<1>1. SortKey(rows[o], day) \in Nat /\ rows[o].score \in Nat /\ o \in Nat
  BY FeedKeys
<1>. QED  BY <1>1 DEF Precedes, IsBehind, Behind, AfterTie, CursorAt

LEMMA BehindWhatIsNot ==
  ASSUME FeedTypeOK, NEW a \in Listed, NEW b \in Listed, NEW c \in Cursor,
         NEW day \in 1 .. LastFeedDay, ~IsBehind(a, c, day), IsBehind(b, c, day)
  PROVE  Precedes(a, b, day)
<1>1. SortKey(rows[a], day) \in Nat /\ rows[a].score \in Nat /\ a \in Nat
  BY FeedKeys
<1>2. SortKey(rows[b], day) \in Nat /\ rows[b].score \in Nat /\ b \in Nat
  BY FeedKeys
<1>3. c.value \in Nat /\ c.score \in Nat /\ c.id \in Nat
  BY CursorKeys
<1>. QED  BY <1>1, <1>2, <1>3 DEF Precedes, IsBehind, Behind, AfterTie, CursorAt

LEMMA BehindTransitive ==
  ASSUME FeedTypeOK, NEW a \in Listed, NEW b \in Listed, NEW c \in Listed,
         NEW day \in 1 .. LastFeedDay, Precedes(a, b, day), Precedes(b, c, day)
  PROVE  Precedes(a, c, day)
<1>1. SortKey(rows[a], day) \in Nat /\ rows[a].score \in Nat /\ a \in Nat
  BY FeedKeys
<1>2. SortKey(rows[b], day) \in Nat /\ rows[b].score \in Nat /\ b \in Nat
  BY FeedKeys
<1>3. SortKey(rows[c], day) \in Nat /\ rows[c].score \in Nat /\ c \in Nat
  BY FeedKeys
<1>. QED  BY <1>1, <1>2, <1>3 DEF Precedes, IsBehind, Behind, AfterTie, CursorAt

\* What does not move keeps its place.
LEMMA StaysBehind ==
  ASSUME NEW o, rows'[o] = rows[o], sort' = sort, NEW c, NEW day
  PROVE  /\ IsBehind(o, c, day)' <=> IsBehind(o, c, day)
         /\ \A p : rows'[p] = rows[p] => (Precedes(o, p, day)' <=> Precedes(o, p, day))
BY DEF Precedes, IsBehind, Behind, CursorAt, SortKey, Ascending

LEMMA StaysInOrder ==
  ASSUME FeedTypeOK, pages' = pages, sort' = sort, Still' \subseteq Still, NEW day,
         \A o \in Still' : rows'[o] = rows[o], OneOrder(day)
  PROVE  OneOrder(day)'
<1>. SUFFICES ASSUME NEW m \in DOMAIN pages, NEW n \in DOMAIN pages, m < n,
                     pages[m] \in Still', pages[n] \in Still'
              PROVE  pages[m] # pages[n] /\ Precedes(pages[m], pages[n], day)'
  BY DEF OneOrder
<1>1. pages[m] # pages[n] /\ Precedes(pages[m], pages[n], day)
  BY DEF OneOrder
<1>. QED  BY <1>1, StaysBehind

-----------------------------------------------------------------------------
(* A page. *)

LEMMA FoundIsFinite ==
  ASSUME NEW day
  PROVE  /\ Found(day) \subseteq Listed /\ IsFiniteSet(Found(day))
         /\ Cardinality(Found(day)) \in Nat
BY FeedAssumption, FS_Subset, FS_CardinalityType DEF Found

\* A page lists what is found in order, up to the limit; what it leaves is
\* behind its last row.
LEMMA PageTypes ==
  ASSUME FeedTypeOK, NEW day \in 1 .. LastFeedDay, NEW page \in Page(Found(day), day)
  PROVE  /\ page \in Seq(Listed) /\ ToSet(page) \subseteq Found(day)
         /\ \A n \in DOMAIN page : page[n] \in Found(day)
         /\ \A m, n \in DOMAIN page : m < n => Precedes(page[m], page[n], day)
         /\ Cardinality(Found(day)) > limit => DOMAIN page = 1 .. limit /\ limit \in DOMAIN page
         /\ ~Cardinality(Found(day)) > limit => DOMAIN page = 1 .. Cardinality(Found(day))
<1>. DEFINE found == Found(day)
            k == IF limit < Cardinality(found) THEN limit ELSE Cardinality(found)
<1>1. found \subseteq Listed /\ Cardinality(found) \in Nat
  BY FoundIsFinite
<1>2. limit \in Nat \ {0}
  BY FeedAssumption DEF FeedTypeOK
<1>3. page \in [1 .. k -> found] /\ k \in Nat /\ DOMAIN page = 1 .. k
  BY <1>1, <1>2 DEF Page
<1>4. page \in Seq(Listed)
  <2>1. page \in [1 .. k -> Listed]
    BY <1>1, <1>3
  <2>. QED  BY <1>3, <2>1, SeqDef
<1>5. ToSet(page) \subseteq found /\ \A n \in DOMAIN page : page[n] \in found
  BY <1>3 DEF ToSet
<1>6. \A m, n \in DOMAIN page : m < n => Precedes(page[m], page[n], day)
  <2>. SUFFICES ASSUME NEW m \in DOMAIN page, NEW n \in DOMAIN page, m < n
                PROVE  Precedes(page[m], page[n], day)
    OBVIOUS
  <2>1. m \in 1 .. n - 1
    BY <1>3
  <2>. QED  BY <2>1 DEF Page
<1>. QED  BY <1>1, <1>2, <1>3, <1>4, <1>5, <1>6

\* Without a next page everything found is on this one.
LEMMA LastPageIsAll ==
  ASSUME FeedTypeOK, NEW day \in 1 .. LastFeedDay, NEW page \in Page(Found(day), day),
         ~Cardinality(Found(day)) > limit
  PROVE  ToSet(page) = Found(day)
<1>. DEFINE found == Found(day)
            k == Cardinality(found)
<1>1. IsFiniteSet(found) /\ k \in Nat /\ found \subseteq Listed
  BY FoundIsFinite
<1>2. DOMAIN page = 1 .. k /\ page \in [1 .. k -> found]
  <2>1. DOMAIN page = 1 .. k /\ page \in Seq(Listed) /\ \A n \in DOMAIN page : page[n] \in found
    BY PageTypes
  <2>2. page = [n \in DOMAIN page |-> page[n]]
    BY <2>1, SeqDef
  <2>. QED  BY <2>1, <2>2
<1>3. \A m, n \in 1 .. k : page[m] = page[n] => m = n
  <2>. SUFFICES ASSUME NEW m \in 1 .. k, NEW n \in 1 .. k, page[m] = page[n], m < n
                PROVE  FALSE
    OBVIOUS
  <2>1. Precedes(page[m], page[n], day) /\ page[n] \in Listed
    BY <1>1, <1>2, PageTypes
  <2>. QED  BY <2>1, NotBehindItself
<1>4. page \in Injection(1 .. k, found)
  BY <1>2, <1>3 DEF Injection, IsInjective
<1>5. IsFiniteSet(1 .. k) /\ Cardinality(1 .. k) = k
  BY <1>1, FS_Interval, 1 \in Int
<1>6. page \in Surjection(1 .. k, found)
  BY <1>1, <1>4, <1>5, FS_Injection
<1>. QED  BY <1>2, <1>6 DEF Surjection, ToSet

\* What a page leaves is behind its last row, and it is not.
LEMMA BehindThePage ==
  ASSUME FeedTypeOK, NEW day \in 1 .. LastFeedDay, NEW page \in Page(Found(day), day),
         Cardinality(Found(day)) > limit, NEW c, c = CursorAt(page[limit], day)
  PROVE  /\ c \in Cursor /\ c.day = day
         /\ \A o \in ToSet(page) : ~IsBehind(o, c, day)
         /\ \A o \in Found(day) : o \in ToSet(page) \/ IsBehind(o, c, day)
<1>1. DOMAIN page = 1 .. limit /\ limit \in DOMAIN page /\ page[limit] \in Listed /\ limit \in Nat
  BY PageTypes, FoundIsFinite, FeedAssumption DEF FeedTypeOK
<1>2. c \in Cursor /\ c.day = day
  BY <1>1, FeedKeys DEF CursorAt
<1>3. ASSUME NEW n \in DOMAIN page  PROVE  ~IsBehind(page[n], c, day)
  <2>1. page[n] \in Listed
    BY PageTypes, FoundIsFinite
  <2>2. n = limit \/ Precedes(page[n], page[limit], day)
    BY <1>1, PageTypes
  <2>3. ~Precedes(page[n], page[n], day)
    BY <2>1, NotBehindItself
  <2>4. ~Precedes(page[limit], page[n], day)
    BY <1>1, <2>1, <2>2, <2>3, BehindTransitive
  <2>. QED  BY <2>4 DEF Precedes
<1>4. \A o \in ToSet(page) : ~IsBehind(o, c, day)
  BY <1>3 DEF ToSet
<1>5. \A o \in Found(day) \ ToSet(page) : IsBehind(o, c, day)
  BY <1>1 DEF Page, Precedes
<1>. QED  BY <1>2, <1>4, <1>5

\* Page after page, whether the walk has just begun or is behind a cursor.
LEMMA PagesGrow ==
  ASSUME FeedTypeOK, NEW day \in 1 .. LastFeedDay, NEW page \in Page(Found(day), day),
         pages' = pages \o page, UNCHANGED <<sort, rows, moved>>,
         pages = <<>> \/ OneOrder(day),
         \A m \in DOMAIN pages, o \in Found(day) : pages[m] \in Still => Precedes(pages[m], o, day)
  PROVE  /\ pages' \in Seq(Listed) /\ OneOrder(day)' /\ ToSet(pages)' = ToSet(pages) \cup ToSet(page)
         /\ \A n \in DOMAIN pages' : pages'[n] \in ToSet(pages) \cup ToSet(page)
<1>1. pages \in Seq(Listed) /\ page \in Seq(Listed) /\ \A n \in DOMAIN page : page[n] \in Found(day)
  BY PageTypes DEF FeedTypeOK
<1>2. /\ pages' \in Seq(Listed) /\ Len(pages') = Len(pages) + Len(page)
      /\ \A n \in 1 .. Len(pages) : pages'[n] = pages[n]
      /\ \A n \in 1 .. Len(page) : pages'[Len(pages) + n] = page[n]
      /\ Len(pages) \in Nat /\ Len(page) \in Nat
      /\ DOMAIN pages = 1 .. Len(pages) /\ DOMAIN page = 1 .. Len(page)
      /\ DOMAIN pages' = 1 .. Len(pages')
  BY <1>1
<1>3. ASSUME NEW n \in DOMAIN pages'
      PROVE  \/ n \in DOMAIN pages /\ pages'[n] = pages[n]
             \/ /\ n > Len(pages) /\ n - Len(pages) \in DOMAIN page
                /\ pages'[n] = page[n - Len(pages)]
  <2>1. CASE n <= Len(pages)
    BY <1>2, <2>1
  <2>2. CASE n > Len(pages)
    <3>1. n - Len(pages) \in 1 .. Len(page) /\ Len(pages) + (n - Len(pages)) = n
      BY <1>2, <2>2
    <3>. QED  BY <1>2, <2>2, <3>1
  <2>. QED  BY <1>2, <2>1, <2>2
<1>4. \A n \in DOMAIN pages' : pages'[n] \in ToSet(pages) \cup ToSet(page)
  BY <1>3 DEF ToSet
<1>5. ToSet(pages)' = ToSet(pages) \cup ToSet(page)
  <2>1. ToSet(pages)' = {pages'[n] : n \in DOMAIN pages'}
    BY DEF ToSet
  <2>2. \A n \in DOMAIN pages : n \in DOMAIN pages' /\ pages'[n] = pages[n]
    BY <1>2
  <2>3. \A n \in DOMAIN page : Len(pages) + n \in DOMAIN pages' /\ pages'[Len(pages) + n] = page[n]
    BY <1>2
  <2>4. \A o : o \in ToSet(pages) => o \in ToSet(pages)'
    BY <2>1, <2>2 DEF ToSet
  <2>5. \A o : o \in ToSet(page) => o \in ToSet(pages)'
    BY <2>1, <2>3 DEF ToSet
  <2>6. \A o : o \in ToSet(pages)' => o \in ToSet(pages) \cup ToSet(page)
    BY <1>4, <2>1
  <2>. QED  BY <2>4, <2>5, <2>6
<1>6. \A a, b : Precedes(a, b, day)' <=> Precedes(a, b, day)
  BY StaysBehind
<1>7. OneOrder(day)'
  <2>. SUFFICES ASSUME NEW m \in DOMAIN pages', NEW n \in DOMAIN pages', m < n,
                       pages'[m] \in Still, pages'[n] \in Still
                PROVE  pages'[m] # pages'[n] /\ Precedes(pages'[m], pages'[n], day)
    BY <1>6 DEF OneOrder, Still
  <2>1. Precedes(pages'[m], pages'[n], day)
    <3>1. CASE n \in DOMAIN pages /\ pages'[n] = pages[n]
      <4>1. m \in DOMAIN pages /\ pages'[m] = pages[m]
        BY <1>2, <3>1
      <4>. QED  BY <3>1, <4>1 DEF OneOrder
    <3>2. CASE n > Len(pages) /\ n - Len(pages) \in DOMAIN page /\ pages'[n] = page[n - Len(pages)]
      <4>1. CASE m \in DOMAIN pages /\ pages'[m] = pages[m]
        BY <1>1, <3>2, <4>1
      <4>2. CASE m > Len(pages) /\ m - Len(pages) \in DOMAIN page /\ pages'[m] = page[m - Len(pages)]
        <5>1. m - Len(pages) < n - Len(pages)
          BY <1>2
        <5>. QED  BY <3>2, <4>2, <5>1, PageTypes
      <4>. QED  BY <1>3, <4>1, <4>2
    <3>. QED  BY <1>3, <3>1, <3>2
  <2>2. pages'[m] \in Listed
    BY DEF Still
  <2>. QED  BY <2>1, <2>2, NotBehindItself
<1>. QED  BY <1>2, <1>4, <1>5, <1>7

-----------------------------------------------------------------------------
(* One lemma for each action. *)

LEMMA FeedInitRight == FeedInit => FeedInv
<1>. SUFFICES ASSUME FeedInit  PROVE FeedInv
  OBVIOUS
<1>1. FeedTypeOK
  BY FeedAssumption DEF FeedInit, FeedTypeOK
<1>2. next = FirstPage /\ next # NoMore /\ next \notin Cursor /\ pages = <<>> /\ moved = {}
  BY EndsAreNoCursors DEF FeedInit
<1>. QED  BY <1>1, <1>2 DEF FeedInv

LEMMA RequestKeeps == FeedInv /\ RequestPage => FeedInv'
<1>. SUFFICES ASSUME FeedInv, RequestPage  PROVE FeedInv'
  OBVIOUS
<1>0. PICK day : day = PinnedDay
  OBVIOUS
<1>1. FeedTypeOK /\ next # NoMore /\ UNCHANGED <<sort, limit, rows, feedDay, moved>>
  BY DEF FeedInv, RequestPage
<1>2. PICK page \in Page(Found(day), day) :
        /\ pages' = pages \o page
        /\ next' = IF Cardinality(Found(day)) > limit THEN CursorAt(page[limit], day) ELSE NoMore
  BY <1>0 DEF RequestPage
<1>3. feedDay \in Nat /\ feedDay \in 1 .. LastFeedDay /\ LastFeedDay \in Nat
  BY <1>1, FeedAssumption DEF FeedTypeOK
<1>4. next # FirstPage => next \in Cursor /\ day = next.day /\ Walking
  BY <1>0, <1>1 DEF FeedInv, FeedTypeOK, PinnedDay
<1>5. next = FirstPage => day = feedDay /\ pages = <<>>
  BY <1>0 DEF FeedInv, PinnedDay
<1>6. day \in 1 .. LastFeedDay /\ day <= feedDay /\ day \in 1 .. feedDay
  <2>1. CASE next = FirstPage
    BY <1>3, <1>5, <2>1
  <2>2. CASE next # FirstPage
    BY <1>3, <1>4, <2>2, CursorKeys DEF Walking
  <2>. QED  BY <2>1, <2>2
<1>7. pages = <<>> \/ OneOrder(day)
  BY <1>4, <1>5 DEF Walking
<1>8. \A m \in DOMAIN pages, o \in Found(day) : pages[m] \in Still => Precedes(pages[m], o, day)
  <2>. SUFFICES ASSUME NEW m \in DOMAIN pages, NEW o \in Found(day), pages[m] \in Still
                PROVE  Precedes(pages[m], o, day)
    OBVIOUS
  <2>1. next # FirstPage
    BY <1>5
  <2>2. o \in Listed /\ IsBehind(o, next, day)
    BY <2>1 DEF Found
  <2>3. ~IsBehind(pages[m], next, day)
    BY <1>4, <2>1 DEF Walking
  <2>. QED  BY <1>1, <1>4, <1>6, <2>1, <2>2, <2>3, BehindWhatIsNot DEF Still
<1>9. /\ pages' \in Seq(Listed) /\ OneOrder(day)' /\ ToSet(pages)' = ToSet(pages) \cup ToSet(page)
      /\ \A n \in DOMAIN pages' : pages'[n] \in ToSet(pages) \cup ToSet(page)
  BY <1>1, <1>2, <1>6, <1>7, <1>8, PagesGrow
<1>10. \A o \in Still : rows[o].shown => o \in ToSet(pages) \/ o \in Found(day)
  BY <1>4 DEF Walking, Found, Still
<1>11. \A o, c : IsBehind(o, c, day)' <=> IsBehind(o, c, day)
  BY <1>1, StaysBehind
<1>12. Still' = Still
  BY <1>1 DEF Still
<1>13. CASE Cardinality(Found(day)) > limit
  <2>0. PICK c : c = CursorAt(page[limit], day)
    OBVIOUS
  <2>1. /\ next' = c /\ c \in Cursor /\ c.day = day
        /\ \A o \in ToSet(page) : ~IsBehind(o, c, day)
        /\ \A o \in Found(day) : o \in ToSet(page) \/ IsBehind(o, c, day)
    BY <1>1, <1>2, <1>6, <1>13, <2>0, BehindThePage
  <2>2. page[limit] \in Found(day) /\ page[limit] \in Listed
    BY <1>1, <1>6, <1>13, PageTypes, FoundIsFinite
  <2>3. FeedTypeOK'
    BY <1>1, <1>9, <2>1 DEF FeedTypeOK
  <2>4. \A o \in ToSet(pages) \cap Still : ~IsBehind(o, c, day)
    <3>. SUFFICES ASSUME NEW m \in DOMAIN pages, pages[m] \in Still  PROVE ~IsBehind(pages[m], c, day)
      BY DEF ToSet
    <3>1. pages[m] \in Listed /\ Precedes(pages[m], page[limit], day)
      BY <1>8, <2>2 DEF Still
    <3>2. ~Precedes(page[limit], pages[m], day)
      BY <1>1, <1>6, <2>2, <3>1, BehindTransitive, NotBehindItself
    <3>. QED  BY <2>0, <3>2 DEF Precedes
  <2>5. Walking'
    BY <1>1, <1>6, <1>9, <1>10, <1>11, <1>12, <2>1, <2>4 DEF Walking
  <2>. QED  BY <2>1, <2>3, <2>5, EndsAreNoCursors DEF FeedInv
<1>14. CASE ~Cardinality(Found(day)) > limit
  <2>1. next' = NoMore /\ ToSet(page) = Found(day)
    BY <1>1, <1>2, <1>6, <1>14, LastPageIsAll
  <2>2. FeedTypeOK'
    BY <1>1, <1>9, <2>1 DEF FeedTypeOK, NoMore, FirstPage
  <2>3. Walked'
    BY <1>1, <1>6, <1>9, <1>10, <1>12, <2>1 DEF Walked
  <2>. QED  BY <2>1, <2>2, <2>3, EndsAreNoCursors DEF FeedInv
<1>. QED  BY <1>13, <1>14

\* What stays where it was keeps its place in the walk.
LEMMA RestStays ==
  ASSUME FeedInv, FeedTypeOK', UNCHANGED <<sort, next, pages>>, feedDay \in Nat, feedDay' \in Nat,
         feedDay <= feedDay', Still' \subseteq Still, \A o \in Still' : rows'[o] = rows[o],
         next = FirstPage => moved' = {}
  PROVE  FeedInv'
<1>1. \A day : OneOrder(day) => OneOrder(day)'
  BY StaysInOrder DEF FeedInv
<1>2. \A o \in Still' : \A c, day : IsBehind(o, c, day)' <=> IsBehind(o, c, day)
  BY StaysBehind
<1>3. CASE next = FirstPage
  BY <1>3, EndsAreNoCursors DEF FeedInv
<1>4. CASE next = NoMore
  <2>1. Walked
    BY <1>4 DEF FeedInv
  <2>2. Walked'
    BY <1>1, <2>1 DEF Walked, ToSet
  <2>. QED  BY <1>4, <2>2, EndsAreNoCursors DEF FeedInv
<1>5. CASE next # FirstPage /\ next # NoMore
  <2>1. Walking /\ next \in Cursor
    BY <1>5 DEF FeedInv, FeedTypeOK
  <2>2. next'.day <= feedDay' /\ OneOrder(next.day)'
    BY <1>1, <2>1, CursorKeys DEF Walking
  <2>3. Walking'
    BY <1>2, <2>1, <2>2 DEF Walking, ToSet
  <2>. QED  BY <1>5, <2>3 DEF FeedInv
<1>. QED  BY <1>3, <1>4, <1>5

LEMMA RowKeeps == ASSUME NEW o \in Listed  PROVE FeedInv /\ RowChanges(o) => FeedInv'
<1>. SUFFICES ASSUME FeedInv, RowChanges(o)  PROVE FeedInv'
  OBVIOUS
<1>1. FeedTypeOK /\ feedDay \in Nat
  BY FeedAssumption DEF FeedInv, FeedTypeOK
<1>2. PICK r \in Row : rows' = [rows EXCEPT ![o] = r]
  BY DEF RowChanges
<1>3. /\ UNCHANGED <<sort, limit, feedDay, next, pages>> /\ moved' = moved \cup {o}
      /\ next # FirstPage
  BY DEF RowChanges
<1>4. FeedTypeOK'
  BY <1>1, <1>2, <1>3 DEF FeedTypeOK
<1>5. Still' = Still \ {o} /\ \A p \in Still' : rows'[p] = rows[p]
  BY <1>1, <1>2, <1>3 DEF Still, FeedTypeOK
<1>. QED  BY <1>1, <1>3, <1>4, <1>5, RestStays

LEMMA MidnightKeeps == FeedInv /\ DayEnds => FeedInv'
<1>. SUFFICES ASSUME FeedInv, DayEnds  PROVE FeedInv'
  OBVIOUS
<1>1. FeedTypeOK /\ feedDay \in Nat /\ (next = FirstPage => moved = {})
  BY FeedAssumption DEF FeedInv, FeedTypeOK
<1>2. UNCHANGED <<sort, limit, rows, next, pages, moved>> /\ feedDay' = feedDay + 1
      /\ feedDay < LastFeedDay
  BY DEF DayEnds
<1>3. FeedTypeOK'
  BY <1>1, <1>2, FeedAssumption DEF FeedTypeOK
<1>4. Still' = Still
  BY <1>2 DEF Still
<1>. QED  BY <1>1, <1>2, <1>3, <1>4, RestStays

LEMMA FeedStutter == FeedInv /\ UNCHANGED feedVars => FeedInv'
<1>. SUFFICES ASSUME FeedInv, UNCHANGED feedVars  PROVE FeedInv'
  OBVIOUS
<1>1. /\ UNCHANGED <<sort, limit, rows, feedDay, next, pages, moved>> /\ Still' = Still
      /\ feedDay \in Nat /\ FeedTypeOK /\ (next = FirstPage => moved = {})
  BY FeedAssumption DEF feedVars, Still, FeedInv, FeedTypeOK
<1>2. FeedTypeOK'
  BY <1>1 DEF FeedTypeOK
<1>. QED  BY <1>1, <1>2, RestStays

THEOREM FeedInvariant == FeedSpec => []FeedInv
<1>1. FeedInv /\ [FeedNext]_feedVars => FeedInv'
  BY RequestKeeps, RowKeeps, MidnightKeeps, FeedStutter DEF FeedNext
<1>. QED  BY <1>1, FeedInitRight, PTL DEF FeedSpec

\* Whoever pages to the end has seen what stayed exactly once and in one order,
\* whatever else moved and however often midnight passed (feed).
THEOREM FeedShowsEachOnce == FeedSpec => []FeedExact
<1>1. ASSUME FeedInv  PROVE FeedExact
  <2>1. FeedTypeOK /\ feedDay \in Nat \ {0} /\ feedDay \in 1 .. feedDay /\ 0 = FirstPage.day /\ 0 = NoMore.day
    BY <1>1, FeedAssumption DEF FeedInv, FeedTypeOK, FirstPage, NoMore
  <2>2. CASE next = FirstPage
    <3>1. OneOrder(feedDay) /\ next # NoMore
      BY <1>1, <2>2 DEF FeedInv, OneOrder, FirstPage, NoMore
    <3>. QED  BY <2>1, <2>2, <3>1 DEF FeedExact
  <2>3. CASE next = NoMore
    <3>1. Walked
      BY <1>1, <2>3 DEF FeedInv
    <3>. QED  BY <2>1, <2>3, <3>1 DEF FeedExact, Walked
  <2>4. CASE next # FirstPage /\ next # NoMore
    <3>1. next \in Cursor /\ Walking
      BY <1>1, <2>4 DEF FeedInv, FeedTypeOK
    <3>2. next.day \in 1 .. feedDay
      BY <2>1, <3>1, CursorKeys DEF Walking
    <3>. QED  BY <2>4, <3>1, <3>2 DEF FeedExact, Walking
  <2>. QED  BY <2>2, <2>3, <2>4
<1>. QED  BY <1>1, FeedInvariant, PTL
=============================================================================
