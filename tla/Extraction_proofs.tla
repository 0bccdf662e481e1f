------------------------- MODULE Extraction_proofs -------------------------
(***************************************************************************)
(* Proofs about Extraction, for any finite sets of jobs and of requests    *)
(* for briefs, any documents, prices, cap and number of tries.             *)
(*                                                                         *)
(* The spend: a call that is on its way may cost MaxCost and is let        *)
(* through only below the cap; there are never more of them than jobs and  *)
(* requests.  So what is counted, and what the calls on their way may add  *)
(* to it, is bounded together (SpendRight).                                *)
(***************************************************************************)
EXTENDS Extraction, FiniteSetTheorems, NaturalsInduction, WellFoundedInduction, TLAPS

\* The calls that have passed the guard and are not recorded.
CallingJobs == {j \in DocJob : place[j] \in {"call", "record"}}
CallingBriefs == {b \in BriefRequest : briefs[b].at \in {"call", "record"}}
OnTheirWay == Cardinality(CallingJobs) + Cardinality(CallingBriefs)

SpendRight == spent + OnTheirWay * MaxCost <= Cap - LeastEstimate + Calling * MaxCost

\* A transaction counts a hit only of what is committed or its own.
HitsRight == \A j \in DocJob : \A k \in hit[j] : cache[k] # Nobody \/ k \in entry[j]

\* Only the model's answers are cached, and only they are accepted.
AcceptedByModel(answers) ==
  \A n \in 1 .. Len(answers) : answers[n].verdict = "accepted" => answers[n].by = "model"

AnswersRight ==
  /\ \A k \in Key : cache[k] \in {"model", Nobody}
  /\ \A j \in DocJob : AcceptedByModel(made[j])
  /\ \A j \in DocJob : signals[j] # NotParsed => AcceptedByModel(signals[j])

\* A job that waits for another try has one left, unless its worker died.
TriesRight ==
  /\ \A j \in DocJob : place[j] = "idle" /\ jobTry[j] = MaxJobTries => setbacks > 0
  /\ OnlyDeathsDrop

\* A call is about a chunk of the document.
AtChunk ==
  \A j \in DocJob : place[j] \in {"call", "record", "insert"} => chunk[j] <= Len(ChunksOf[j])

ExtractInv == ExtractTypeOK /\ AtChunk /\ HitsRight /\ SpendRight /\ AnswersRight /\ TriesRight

-----------------------------------------------------------------------------
(* Numbers and sets. *)

LEMMA TimesMonotone ==
  ASSUME NEW m \in Nat, NEW n \in Nat, NEW c \in Nat, m <= n
  PROVE  m * c <= n * c /\ m * c \in Nat /\ n * c \in Nat
BY SMT

LEMMA TimesOneLess ==
  ASSUME NEW m \in Nat, NEW n \in Nat, NEW c \in Nat, m + 1 <= n
  PROVE  m * c + c <= n * c
<1>1. (m + 1) * c <= n * c
  BY TimesMonotone
<1>2. (m + 1) * c = m * c + c
  BY SMT
<1>. QED  BY <1>1, <1>2

LEMMA LessOfBoth ==
  ASSUME NEW a \in Nat, NEW b \in Nat, NEW c \in Nat, NEW d \in Nat, NEW room \in Int,
         a + b <= room, c <= a, d <= b
  PROVE  c + d <= room
OBVIOUS

LEMMA BoundIsInt ==
  /\ Cap - LeastEstimate \in Int /\ Cap - LeastEstimate + MaxCost >= 0
  /\ Cap - Estimate <= Cap - LeastEstimate /\ Cap - BriefEstimate <= Cap - LeastEstimate
BY ExtractionAssumption DEF LeastEstimate

\* There are never more calls than there are jobs and requests.
LEMMA CallsAreFew ==
  /\ IsFiniteSet(CallingJobs) /\ IsFiniteSet(CallingBriefs)
  /\ OnTheirWay \in Nat /\ Calling \in Nat /\ Calling >= 1 /\ OnTheirWay <= Calling
<1>1. CallingJobs \subseteq DocJob /\ CallingBriefs \subseteq BriefRequest
  BY DEF CallingJobs, CallingBriefs
<1>2. /\ IsFiniteSet(CallingJobs) /\ Cardinality(CallingJobs) <= Cardinality(DocJob)
      /\ IsFiniteSet(CallingBriefs) /\ Cardinality(CallingBriefs) <= Cardinality(BriefRequest)
  BY <1>1, ExtractionAssumption, FS_Subset
<1>3. /\ Cardinality(CallingJobs) \in Nat /\ Cardinality(CallingBriefs) \in Nat
      /\ Cardinality(DocJob) \in Nat /\ Cardinality(BriefRequest) \in Nat
      /\ Cardinality(DocJob) # 0
  BY <1>2, ExtractionAssumption, FS_CardinalityType, FS_EmptySet
<1>. QED  BY <1>2, <1>3 DEF OnTheirWay, Calling

\* It is the same afterwards, whatever the step was.
LEMMA CallsAreFewNext ==
  /\ IsFiniteSet(CallingJobs') /\ IsFiniteSet(CallingBriefs')
  /\ OnTheirWay' \in Nat /\ OnTheirWay' <= Calling
<1>1. CallingJobs' \subseteq DocJob /\ CallingBriefs' \subseteq BriefRequest
  BY DEF CallingJobs, CallingBriefs
<1>2. /\ IsFiniteSet(CallingJobs') /\ Cardinality(CallingJobs') <= Cardinality(DocJob)
      /\ IsFiniteSet(CallingBriefs') /\ Cardinality(CallingBriefs') <= Cardinality(BriefRequest)
  BY <1>1, ExtractionAssumption, FS_Subset
<1>3. /\ Cardinality(CallingJobs') \in Nat /\ Cardinality(CallingBriefs') \in Nat
      /\ Cardinality(DocJob) \in Nat /\ Cardinality(BriefRequest) \in Nat
  BY <1>2, ExtractionAssumption, FS_CardinalityType
<1>. QED  BY <1>2, <1>3 DEF OnTheirWay, Calling

-----------------------------------------------------------------------------
(* The three things that may happen to the spend and the calls. *)

\* Nothing is added, and no call begins.
LEMMA NothingSpent ==
  ASSUME SpendRight, spent \in Nat, spent' \in Nat, spent' <= spent,
         CallingJobs' \subseteq CallingJobs, CallingBriefs' \subseteq CallingBriefs
  PROVE  SpendRight'
<1>1. /\ Cardinality(CallingJobs') <= Cardinality(CallingJobs)
      /\ Cardinality(CallingBriefs') <= Cardinality(CallingBriefs)
  BY CallsAreFew, FS_Subset
<1>2. /\ Cardinality(CallingJobs') \in Nat /\ Cardinality(CallingBriefs') \in Nat
      /\ Cardinality(CallingJobs) \in Nat /\ Cardinality(CallingBriefs) \in Nat
  BY CallsAreFew, CallsAreFewNext, FS_CardinalityType
<1>3. OnTheirWay' <= OnTheirWay
  BY <1>1, <1>2 DEF OnTheirWay
<1>4. /\ OnTheirWay' * MaxCost <= OnTheirWay * MaxCost
      /\ OnTheirWay' * MaxCost \in Nat /\ OnTheirWay * MaxCost \in Nat
  BY <1>3, CallsAreFew, CallsAreFewNext, TimesMonotone, ExtractionAssumption
<1>5. Calling * MaxCost \in Nat
  BY CallsAreFew, TimesMonotone, ExtractionAssumption
<1>. DEFINE before == OnTheirWay * MaxCost
            after == OnTheirWay' * MaxCost
            room == Cap - LeastEstimate + Calling * MaxCost
<1>6. before \in Nat /\ after \in Nat /\ after <= before /\ room \in Int /\ spent + before <= room
  BY <1>4, <1>5, BoundIsInt DEF SpendRight
<1>7. SpendRight' <=> spent' + after <= room
  BY DEF SpendRight, LeastEstimate, Calling
<1>. HIDE DEF before, after, room
<1>8. spent' + after <= room
  BY <1>6, LessOfBoth
<1>. QED  BY <1>7, <1>8

LEMMA SameSpend ==
  ASSUME SpendRight, spent \in Nat, spent' = spent,
         CallingJobs' \subseteq CallingJobs, CallingBriefs' \subseteq CallingBriefs
  PROVE  SpendRight'
<1>1. spent <= spent
  OBVIOUS
<1>. QED  BY <1>1, NothingSpent

LEMMA RoomForOne ==
  ASSUME NEW s \in Nat, ~(s + BriefEstimate > Cap)
  PROVE  s <= Cap - LeastEstimate
<1>1. s + BriefEstimate <= Cap
  BY ExtractionAssumption
<1>. QED  BY <1>1, BoundIsInt, ExtractionAssumption

\* A call that was on its way is recorded.
LEMMA CallRecorded ==
  ASSUME SpendRight, spent \in Nat, NEW cost \in 0 .. MaxCost, spent' = spent + cost,
         \/ /\ CallingBriefs' = CallingBriefs
            /\ \E j \in CallingJobs : CallingJobs' = CallingJobs \ {j}
         \/ /\ CallingJobs' = CallingJobs
            /\ \E b \in CallingBriefs : CallingBriefs' = CallingBriefs \ {b}
  PROVE  SpendRight'
<1>1. OnTheirWay' + 1 <= OnTheirWay
  <2>1. /\ Cardinality(CallingJobs') \in Nat /\ Cardinality(CallingBriefs') \in Nat
        /\ Cardinality(CallingJobs) \in Nat /\ Cardinality(CallingBriefs) \in Nat
    BY CallsAreFew, CallsAreFewNext, FS_CardinalityType
  <2>2. CASE CallingBriefs' = CallingBriefs /\ \E j \in CallingJobs : CallingJobs' = CallingJobs \ {j}
    <3>1. Cardinality(CallingJobs') = Cardinality(CallingJobs) - 1
      BY <2>2, CallsAreFew, FS_RemoveElement
    <3>. QED  BY <2>1, <2>2, <3>1 DEF OnTheirWay
  <2>3. CASE CallingJobs' = CallingJobs /\ \E b \in CallingBriefs : CallingBriefs' = CallingBriefs \ {b}
    <3>1. Cardinality(CallingBriefs') = Cardinality(CallingBriefs) - 1
      BY <2>3, CallsAreFew, FS_RemoveElement
    <3>. QED  BY <2>1, <2>3, <3>1 DEF OnTheirWay
  <2>. QED  BY <2>2, <2>3
<1>2. OnTheirWay' * MaxCost + MaxCost <= OnTheirWay * MaxCost
  BY <1>1, CallsAreFew, CallsAreFewNext, TimesOneLess, ExtractionAssumption
<1>3. /\ OnTheirWay' * MaxCost \in Nat /\ OnTheirWay * MaxCost \in Nat /\ Calling * MaxCost \in Nat
  BY CallsAreFew, CallsAreFewNext, TimesMonotone, ExtractionAssumption
<1>. DEFINE before == OnTheirWay * MaxCost
            after == OnTheirWay' * MaxCost
            room == Cap - LeastEstimate + Calling * MaxCost
<1>4. /\ before \in Nat /\ after \in Nat /\ after + MaxCost <= before
      /\ room \in Int /\ spent + before <= room
  BY <1>2, <1>3, BoundIsInt DEF SpendRight
<1>5. SpendRight' <=> spent' + after <= room
  BY DEF SpendRight, LeastEstimate, Calling
<1>. HIDE DEF before, after, room
<1>. QED  BY <1>4, <1>5, ExtractionAssumption

\* The spend is below the cap: whoever calls, all of them fit.
LEMMA BelowTheCap ==
  ASSUME spent \in Nat, spent <= Cap - LeastEstimate, spent' = spent
  PROVE  SpendRight'
<1>1. /\ OnTheirWay' * MaxCost <= Calling * MaxCost
      /\ OnTheirWay' * MaxCost \in Nat /\ Calling * MaxCost \in Nat
  BY CallsAreFew, CallsAreFewNext, TimesMonotone, ExtractionAssumption
<1>. DEFINE after == OnTheirWay' * MaxCost
            all == Calling * MaxCost
<1>2. after \in Nat /\ all \in Nat /\ after <= all
  BY <1>1
<1>3. SpendRight' <=> spent' + after <= Cap - LeastEstimate + all
  BY DEF SpendRight, LeastEstimate, Calling
<1>. HIDE DEF after, all
<1>. QED  BY <1>2, <1>3, BoundIsInt

LEMMA SpendInit == ExtractInit => SpendRight
<1>. SUFFICES ASSUME ExtractInit  PROVE SpendRight
  OBVIOUS
<1>1. CallingJobs = {} /\ CallingBriefs = {} /\ spent = 0
  BY DEF ExtractInit, CallingJobs, CallingBriefs
<1>2. OnTheirWay = 0
  BY <1>1, FS_EmptySet DEF OnTheirWay
<1>3. 0 * MaxCost = 0 /\ 1 * MaxCost = MaxCost
  BY ExtractionAssumption
<1>4. 1 * MaxCost <= Calling * MaxCost /\ Calling * MaxCost \in Nat
  BY CallsAreFew, TimesMonotone, ExtractionAssumption
<1>5. OnTheirWay * MaxCost = 0
  BY <1>2, <1>3
<1>. DEFINE all == Calling * MaxCost
            calls == OnTheirWay * MaxCost
<1>6. all \in Nat /\ MaxCost <= all /\ calls = 0
  BY <1>3, <1>4, <1>5
<1>7. SpendRight <=> spent + calls <= Cap - LeastEstimate + all
  BY DEF SpendRight
<1>. HIDE DEF all, calls
<1>. QED  BY <1>1, <1>6, <1>7, BoundIsInt, ExtractionAssumption

-----------------------------------------------------------------------------
(* What a step does to the calls on their way. *)

LEMMA JobMoves ==
  ASSUME place \in [DocJob -> {"idle", "extract", "call", "record", "insert", "done", "dropped", "failed"}],
         NEW j \in DocJob, UNCHANGED briefs
  PROVE  /\ \A to \in {"idle", "extract", "done", "dropped", "failed"} :
              MoveTo(j, to) => CallingJobs' \subseteq CallingJobs /\ CallingBriefs' = CallingBriefs
         /\ place[j] = "call" /\ MoveTo(j, "record") =>
              CallingJobs' \subseteq CallingJobs /\ CallingBriefs' = CallingBriefs
         /\ place[j] = "record" /\ MoveTo(j, "insert") =>
              /\ CallingBriefs' = CallingBriefs
              /\ j \in CallingJobs /\ CallingJobs' = CallingJobs \ {j}
BY DEF MoveTo, CallingJobs, CallingBriefs

LEMMA BriefMoves ==
  ASSUME NEW b \in BriefRequest, NEW cost \in 0 .. MaxCost,
         briefs \in [BriefRequest ->
           [at : {"asked", "call", "record", "by model", "by template"}, owes : 0 .. MaxCost]],
         UNCHANGED place
  PROVE  /\ \A to \in {"asked", "by template"} :
              BriefGoes(b, to) => CallingJobs' = CallingJobs /\ CallingBriefs' \subseteq CallingBriefs
         /\ briefs[b].at = "call" /\ briefs' = [briefs EXCEPT ![b] = [at |-> "record", owes |-> cost]] =>
              CallingJobs' = CallingJobs /\ CallingBriefs' \subseteq CallingBriefs
         /\ briefs[b].at = "record" /\ BriefGoes(b, "by model") =>
              /\ CallingJobs' = CallingJobs
              /\ b \in CallingBriefs /\ CallingBriefs' = CallingBriefs \ {b}
<1>1. CallingJobs' = CallingJobs
  BY DEF CallingJobs
<1>2. ASSUME NEW to \in {"asked", "by template"}, BriefGoes(b, to)
      PROVE  CallingBriefs' \subseteq CallingBriefs
  BY <1>2 DEF BriefGoes, CallingBriefs
<1>3. ASSUME briefs[b].at = "call", briefs' = [briefs EXCEPT ![b] = [at |-> "record", owes |-> cost]]
      PROVE  CallingBriefs' \subseteq CallingBriefs
  BY <1>3 DEF CallingBriefs
<1>4. ASSUME briefs[b].at = "record", BriefGoes(b, "by model")
      PROVE  b \in CallingBriefs /\ CallingBriefs' = CallingBriefs \ {b}
  <2>1. b \in CallingBriefs
    BY <1>4 DEF CallingBriefs
  <2>2. briefs'[b].at = "by model"
    BY <1>4 DEF BriefGoes
  <2>3. \A c \in BriefRequest \ {b} : briefs'[c] = briefs[c]
    BY <1>4 DEF BriefGoes
  <2>. QED  BY <2>1, <2>2, <2>3 DEF CallingBriefs
<1>. QED  BY <1>1, <1>2, <1>3, <1>4

-----------------------------------------------------------------------------
(* Answers. *)

\* An answer added to answers that are the model's where they are accepted.
LEMMA AnswerAdded ==
  ASSUME NEW answers \in Seq(Signal), AcceptedByModel(answers),
         NEW signal \in Signal, signal.verdict = "accepted" => signal.by = "model"
  PROVE  Append(answers, signal) \in Seq(Signal) /\ AcceptedByModel(Append(answers, signal))
<1>1. /\ Append(answers, signal) \in Seq(Signal)
      /\ Len(answers) \in Nat /\ Len(Append(answers, signal)) = Len(answers) + 1
      /\ \A n \in 1 .. Len(answers) : Append(answers, signal)[n] = answers[n]
      /\ Append(answers, signal)[Len(answers) + 1] = signal
  OBVIOUS
<1>2. ASSUME NEW n \in 1 .. Len(Append(answers, signal))  PROVE n \in 1 .. Len(answers) \/ n = Len(answers) + 1
  BY <1>1
<1>. QED  BY <1>1, <1>2 DEF AcceptedByModel

LEMMA NoAnswers == <<>> \in Seq(Signal) /\ AcceptedByModel(<<>>)
BY DEF AcceptedByModel

\* The prompt of the chunk that a job is at is a prompt.
LEMMA PromptIsKey ==
  ASSUME ExtractTypeOK, NEW j \in DocJob, chunk[j] <= Len(ChunksOf[j])
  PROVE  Prompt(j) \in Key
<1>1. ChunksOf[j] \in Seq(Key)
  BY ExtractionAssumption
<1>2. chunk[j] \in Nat \ {0}
  BY DEF ExtractTypeOK
<1>3. chunk[j] \in 1 .. Len(ChunksOf[j])
  BY <1>1, <1>2
<1>. QED  BY <1>1, <1>3 DEF Prompt

\* What an answer leaves behind: one more signal, and the job at its next chunk.
LEMMA AnswerEffect ==
  ASSUME ExtractInv, NEW j \in DocJob, NEW by \in Extractor, NEW degraded \in BOOLEAN,
         chunk[j] <= Len(ChunksOf[j]), degraded \/ by = "model", Answer(j, by, degraded)
  PROVE  /\ \A i \in DocJob : made'[i] \in Seq(Signal) /\ AcceptedByModel(made'[i])
         /\ made' \in [DocJob -> Seq(Signal)] /\ chunk' \in [DocJob -> Nat \ {0}]
         /\ \A i \in DocJob : chunk'[i] <= Len(ChunksOf[i]) + 1
         /\ MoveTo(j, "extract")
         /\ \A i \in DocJob \ {j} : chunk'[i] = chunk[i]
<1>. DEFINE signal == [by |-> by, verdict |-> VerdictOf(Prompt(j), degraded)]
<1>1. signal \in Signal /\ (signal.verdict = "accepted" => signal.by = "model")
  BY DEF Signal, VerdictOf
<1>2. /\ made' = [made EXCEPT ![j] = Append(@, signal)]
      /\ chunk' = [chunk EXCEPT ![j] = @ + 1]
      /\ MoveTo(j, "extract")
  BY DEF Answer
<1>. HIDE DEF signal
<1>3. \A i \in DocJob : made[i] \in Seq(Signal) /\ AcceptedByModel(made[i])
  BY DEF ExtractInv, ExtractTypeOK, AnswersRight
<1>4. ASSUME NEW i \in DocJob  PROVE made'[i] \in Seq(Signal) /\ AcceptedByModel(made'[i])
  <2>1. CASE i = j
    <3>1. made'[i] = Append(made[j], signal)
      BY <1>2, <2>1 DEF ExtractInv, ExtractTypeOK
    <3>. QED  BY <1>1, <1>3, <3>1, AnswerAdded
  <2>2. CASE i # j
    <3>1. made'[i] = made[i]
      BY <1>2, <2>2 DEF ExtractInv, ExtractTypeOK
    <3>. QED  BY <1>3, <3>1
  <2>. QED  BY <2>1, <2>2
<1>5. ASSUME NEW i \in DocJob  PROVE chunk'[i] \in Nat \ {0} /\ chunk'[i] <= Len(ChunksOf[i]) + 1
  <2>0. Len(ChunksOf[i]) \in Nat
    <3>1. ChunksOf[i] \in Seq(Key)
      BY ExtractionAssumption
    <3>. QED  BY <3>1
  <2>1. chunk[i] \in Nat \ {0} /\ chunk[i] <= Len(ChunksOf[i]) + 1
    BY DEF ExtractInv, ExtractTypeOK
  <2>2. chunk'[i] = IF i = j THEN chunk[i] + 1 ELSE chunk[i]
    BY <1>2 DEF ExtractInv, ExtractTypeOK
  <2>. QED  BY <2>0, <2>1, <2>2
<1>6. \A i \in DocJob \ {j} : chunk'[i] = chunk[i]
  BY <1>2 DEF ExtractInv, ExtractTypeOK
<1>7. DOMAIN made' = DocJob /\ DOMAIN chunk' = DocJob
  BY <1>2 DEF ExtractInv, ExtractTypeOK
<1>8. made' \in [DocJob -> Seq(Signal)]
  BY <1>2, <1>4, <1>7
<1>9. chunk' \in [DocJob -> Nat \ {0}]
  BY <1>2, <1>5, <1>7
<1>. QED  BY <1>2, <1>4, <1>5, <1>6, <1>8, <1>9

-----------------------------------------------------------------------------
(* What the helpers of the actions keep. *)

LEMMA NumbersRight ==
  /\ 0 \in 0 .. MaxCost /\ 1 .. MaxCost \subseteq 0 .. MaxCost
  /\ \A j \in DocJob : Len(ChunksOf[j]) \in Nat
  /\ \A n \in 0 .. MaxJobTries : n < MaxJobTries => n + 1 \in 0 .. MaxJobTries
  /\ \A n \in 0 .. MaxSetbacks : n < MaxSetbacks => n + 1 \in 0 .. MaxSetbacks /\ n + 1 > 0
<1>1. /\ 0 \in 0 .. MaxCost /\ 1 .. MaxCost \subseteq 0 .. MaxCost
      /\ \A n \in 0 .. MaxJobTries : n < MaxJobTries => n + 1 \in 0 .. MaxJobTries
      /\ \A n \in 0 .. MaxSetbacks : n < MaxSetbacks => n + 1 \in 0 .. MaxSetbacks /\ n + 1 > 0
  BY ExtractionAssumption
<1>2. ASSUME NEW j \in DocJob  PROVE Len(ChunksOf[j]) \in Nat
  <2>1. ChunksOf[j] \in Seq(Key)
    BY ExtractionAssumption
  <2>. QED  BY <2>1
<1>. QED  BY <1>1, <1>2

LEMMA NotFinal ==
  ASSUME NEW n \in 0 .. MaxJobTries, ~(n >= MaxJobTries)
  PROVE  n # MaxJobTries
BY ExtractionAssumption

LEMMA MoveType ==
  ASSUME place \in [DocJob -> {"idle", "extract", "call", "record", "insert", "done", "dropped", "failed"}],
         NEW j \in DocJob,
         NEW to \in {"idle", "extract", "call", "record", "insert", "done", "dropped", "failed"}, MoveTo(j, to)
  PROVE  /\ place' \in [DocJob -> {"idle", "extract", "call", "record", "insert", "done", "dropped", "failed"}]
         /\ \A i \in DocJob : place'[i] = IF i = j THEN to ELSE place[i]
BY DEF MoveTo

\* A transaction that is over holds nothing.
LEMMA RollBackKeeps ==
  ASSUME ExtractInv, NEW j \in DocJob, NEW to \in {"idle", "done", "failed"}, RollBack(j, to)
  PROVE  /\ entry' \in [DocJob -> SUBSET Key] /\ hit' \in [DocJob -> SUBSET Key]
         /\ \A i, k \in DocJob : i # k => (entry'[i] \cup hit'[i]) \cap (entry'[k] \cup hit'[k]) = {}
         /\ \A i \in DocJob \ {j} : entry'[i] = entry[i] /\ hit'[i] = hit[i]
         /\ entry'[j] = {} /\ hit'[j] = {}
         /\ chunk' \in [DocJob -> Nat \ {0}] /\ \A i \in DocJob : chunk'[i] <= Len(ChunksOf[i]) + 1
         /\ owes' \in [DocJob -> 0 .. MaxCost]
         /\ made' \in [DocJob -> Seq(Signal)] /\ \A i \in DocJob : AcceptedByModel(made'[i])
         /\ MoveTo(j, to)
         /\ AtChunk'
<1>0. ExtractTypeOK /\ AtChunk /\ AnswersRight
  BY DEF ExtractInv
<1>1. /\ entry' \in [DocJob -> SUBSET Key] /\ hit' \in [DocJob -> SUBSET Key]
      /\ \A i \in DocJob \ {j} : entry'[i] = entry[i] /\ hit'[i] = hit[i]
      /\ entry'[j] = {} /\ hit'[j] = {}
      /\ \A i, k \in DocJob : i # k => (entry[i] \cup hit[i]) \cap (entry[k] \cup hit[k]) = {}
  BY <1>0 DEF RollBack, ExtractTypeOK
<1>2. \A i, k \in DocJob : i # k => (entry'[i] \cup hit'[i]) \cap (entry'[k] \cup hit'[k]) = {}
  BY <1>1
<1>3. /\ chunk' \in [DocJob -> Nat \ {0}] /\ chunk'[j] = 1
      /\ \A i \in DocJob \ {j} : chunk'[i] = chunk[i]
      /\ \A i \in DocJob : chunk[i] <= Len(ChunksOf[i]) + 1
  <2>1. chunk' = [chunk EXCEPT ![j] = 1]
    BY DEF RollBack
  <2>2. chunk \in [DocJob -> Nat \ {0}] /\ \A i \in DocJob : chunk[i] <= Len(ChunksOf[i]) + 1
    BY <1>0 DEF ExtractTypeOK
  <2>. QED  BY <2>1, <2>2
<1>5. \A i \in DocJob : chunk'[i] <= Len(ChunksOf[i]) + 1
  BY <1>3, NumbersRight
<1>6. owes' \in [DocJob -> 0 .. MaxCost]
  BY <1>0, NumbersRight DEF RollBack, ExtractTypeOK
<1>7. /\ made' \in [DocJob -> Seq(Signal)] /\ made'[j] = <<>>
      /\ \A i \in DocJob \ {j} : made'[i] = made[i]
  BY <1>0, NoAnswers DEF RollBack, ExtractTypeOK
<1>8. \A i \in DocJob : AcceptedByModel(made'[i])
  <2>1. \A i \in DocJob : AcceptedByModel(made[i])
    BY <1>0 DEF AnswersRight
  <2>. QED  BY <1>7, <2>1, NoAnswers
<1>9. MoveTo(j, to)
  BY DEF RollBack
<1>10. AtChunk'
  <2>1. \A i \in DocJob : place'[i] = IF i = j THEN to ELSE place[i]
    BY <1>0, <1>9 DEF ExtractTypeOK, MoveTo
  <2>. QED  BY <1>0, <1>3, <2>1 DEF AtChunk
<1>. QED  BY <1>1, <1>3, <1>5, <1>6, <1>7, <1>8, <1>9, <1>10

-----------------------------------------------------------------------------
(* Every action keeps the invariant. *)

LEMMA StartExtractionKeeps ==
  ASSUME ExtractInv, NEW j \in DocJob, UNCHANGED briefs, StartExtraction(j)
  PROVE  ExtractInv'
<1>. USE DEF ExtractInv
<1>1. CallingJobs' \subseteq CallingJobs /\ CallingBriefs' \subseteq CallingBriefs
  BY JobMoves DEF ExtractTypeOK, StartExtraction
<1>2. spent \in Nat /\ spent' = spent
  BY DEF ExtractTypeOK, StartExtraction
<1>3. /\ place' \in [DocJob -> {"idle", "extract", "call", "record", "insert", "done", "dropped", "failed"}]
      /\ \A i \in DocJob : place'[i] = IF i = j THEN "extract" ELSE place[i]
  BY MoveType DEF ExtractTypeOK, StartExtraction
<1>4. jobTry' \in [DocJob -> 0 .. MaxJobTries]
  <2>1. jobTry[j] + 1 \in 0 .. MaxJobTries
    BY NumbersRight DEF ExtractTypeOK, StartExtraction
  <2>. QED  BY <2>1 DEF ExtractTypeOK, StartExtraction
<1>5. \A i \in DocJob : place'[i] = "idle" => jobTry'[i] = jobTry[i]
  BY <1>3 DEF ExtractTypeOK, StartExtraction
<1>6. ExtractTypeOK'
  BY <1>3, <1>4 DEF ExtractTypeOK, StartExtraction, transaction
<1>7. AtChunk'
  BY <1>3 DEF AtChunk, StartExtraction
<1>8. HitsRight'
  BY DEF HitsRight, StartExtraction, transaction
<1>9. SpendRight'
  BY <1>1, <1>2, <1>3, <1>4, <1>5, NothingSpent
<1>10. AnswersRight'
  BY DEF AnswersRight, StartExtraction
<1>11. TriesRight'
  BY <1>3 DEF TriesRight, OnlyDeathsDrop, StartExtraction
<1>. QED  BY <1>6, <1>7, <1>8, <1>9, <1>10, <1>11

LEMMA CommitKeeps ==
  ASSUME ExtractInv, NEW j \in DocJob, UNCHANGED briefs, Commit(j)
  PROVE  ExtractInv'
<1>. USE DEF ExtractInv
<1>1. CallingJobs' \subseteq CallingJobs /\ CallingBriefs' \subseteq CallingBriefs
  BY JobMoves DEF ExtractTypeOK, Commit, RollBack
<1>2. spent \in Nat /\ spent' = spent
  BY DEF ExtractTypeOK, Commit
<1>3. /\ entry' \in [DocJob -> SUBSET Key] /\ hit' \in [DocJob -> SUBSET Key]
      /\ \A i, k \in DocJob : i # k => (entry'[i] \cup hit'[i]) \cap (entry'[k] \cup hit'[k]) = {}
      /\ \A i \in DocJob \ {j} : entry'[i] = entry[i] /\ hit'[i] = hit[i]
      /\ entry'[j] = {} /\ hit'[j] = {}
      /\ chunk' \in [DocJob -> Nat \ {0}] /\ \A i \in DocJob : chunk'[i] <= Len(ChunksOf[i]) + 1
      /\ owes' \in [DocJob -> 0 .. MaxCost]
      /\ made' \in [DocJob -> Seq(Signal)] /\ \A i \in DocJob : AcceptedByModel(made'[i])
      /\ MoveTo(j, "done")
      /\ AtChunk'
  BY RollBackKeeps DEF Commit
<1>4. /\ place' \in [DocJob -> {"idle", "extract", "call", "record", "insert", "done", "dropped", "failed"}]
      /\ \A i \in DocJob : place'[i] = IF i = j THEN "done" ELSE place[i]
  BY <1>3, MoveType DEF ExtractTypeOK
<1>5. /\ cache' \in [Key -> Extractor \cup {Nobody}]
      /\ \A k \in Key : cache'[k] = IF k \in entry[j] THEN "model" ELSE cache[k]
  BY DEF ExtractTypeOK, Extractor, Commit
<1>6. signals' \in [DocJob -> Seq(Signal) \cup {NotParsed}]
  BY DEF ExtractTypeOK, Commit
<1>7. "model" # Nobody
  BY DEF Nobody
<1>8. ExtractTypeOK'
  BY <1>3, <1>4, <1>5 DEF ExtractTypeOK, Commit
<1>9. AtChunk'
  BY <1>3
<1>10. HitsRight'
  BY <1>3, <1>5, <1>7 DEF HitsRight
<1>11. SpendRight'
  BY <1>1, <1>2, NothingSpent
<1>12. AnswersRight'
  BY <1>3 DEF AnswersRight, Commit
<1>13. TriesRight'
  BY <1>1, <1>2, <1>4 DEF ExtractTypeOK, TriesRight, OnlyDeathsDrop, Commit
<1>. QED  BY <1>8, <1>9, <1>10, <1>11, <1>12, <1>13

LEMMA DropKeeps ==
  ASSUME ExtractInv, NEW j \in DocJob, UNCHANGED briefs, Drop(j)
  PROVE  ExtractInv'
<1>. USE DEF ExtractInv
<1>1. CallingJobs' \subseteq CallingJobs /\ CallingBriefs' \subseteq CallingBriefs
  BY JobMoves DEF ExtractTypeOK, Drop
<1>2. spent \in Nat /\ spent' = spent
  BY DEF ExtractTypeOK, Drop
<1>3. /\ place' \in [DocJob -> {"idle", "extract", "call", "record", "insert", "done", "dropped", "failed"}]
      /\ \A i \in DocJob : place'[i] = IF i = j THEN "dropped" ELSE place[i]
  BY MoveType DEF ExtractTypeOK, Drop
<1>4. ExtractTypeOK'
  BY <1>1, <1>2, <1>3 DEF ExtractTypeOK, Drop, transaction
<1>5. AtChunk'
  BY <1>3 DEF AtChunk, Drop
<1>6. HitsRight'
  BY DEF HitsRight, Drop, transaction
<1>7. SpendRight'
  BY <1>1, <1>2, <1>3, NothingSpent
<1>8. AnswersRight'
  BY DEF AnswersRight, Drop
<1>9. TriesRight'
  BY DEF TriesRight, OnlyDeathsDrop, Drop
<1>. QED  BY <1>4, <1>5, <1>6, <1>7, <1>8, <1>9

LEMMA WorkerDiesKeeps ==
  ASSUME ExtractInv, NEW j \in DocJob, UNCHANGED briefs, WorkerDies(j)
  PROVE  ExtractInv'
<1>. USE DEF ExtractInv
<1>1. CallingJobs' \subseteq CallingJobs /\ CallingBriefs' \subseteq CallingBriefs
  BY JobMoves DEF ExtractTypeOK, WorkerDies, RollBack
<1>2. spent \in Nat /\ spent' = spent
  BY DEF ExtractTypeOK, WorkerDies
<1>3. /\ entry' \in [DocJob -> SUBSET Key] /\ hit' \in [DocJob -> SUBSET Key]
      /\ \A i, k \in DocJob : i # k => (entry'[i] \cup hit'[i]) \cap (entry'[k] \cup hit'[k]) = {}
      /\ \A i \in DocJob \ {j} : entry'[i] = entry[i] /\ hit'[i] = hit[i]
      /\ entry'[j] = {} /\ hit'[j] = {}
      /\ chunk' \in [DocJob -> Nat \ {0}] /\ \A i \in DocJob : chunk'[i] <= Len(ChunksOf[i]) + 1
      /\ owes' \in [DocJob -> 0 .. MaxCost]
      /\ made' \in [DocJob -> Seq(Signal)] /\ \A i \in DocJob : AcceptedByModel(made'[i])
      /\ MoveTo(j, "idle")
      /\ AtChunk'
  BY RollBackKeeps DEF WorkerDies
<1>4. /\ place' \in [DocJob -> {"idle", "extract", "call", "record", "insert", "done", "dropped", "failed"}]
      /\ \A i \in DocJob : place'[i] = IF i = j THEN "idle" ELSE place[i]
  BY <1>3, MoveType DEF ExtractTypeOK
<1>5. setbacks' \in 0 .. MaxSetbacks /\ setbacks' > 0
  BY NumbersRight DEF ExtractTypeOK, WorkerDies
<1>6. ExtractTypeOK'
  BY <1>3, <1>4, <1>5 DEF ExtractTypeOK, WorkerDies
<1>7. AtChunk'
  BY <1>3
<1>8. HitsRight'
  BY <1>3 DEF HitsRight, WorkerDies
<1>9. SpendRight'
  BY <1>1, <1>2, <1>3, <1>4, <1>5, NothingSpent
<1>10. AnswersRight'
  BY <1>3 DEF AnswersRight, WorkerDies
<1>11. TriesRight'
  BY <1>5 DEF TriesRight, OnlyDeathsDrop
<1>. QED  BY <1>6, <1>7, <1>8, <1>9, <1>10, <1>11

LEMMA DeadlockVictimKeeps ==
  ASSUME ExtractInv, NEW j \in DocJob, UNCHANGED briefs, DeadlockVictim(j)
  PROVE  ExtractInv'
<1>. USE DEF ExtractInv
<1>1. CallingJobs' \subseteq CallingJobs /\ CallingBriefs' \subseteq CallingBriefs
  BY JobMoves DEF ExtractTypeOK, DeadlockVictim, RollBack
<1>2. spent \in Nat /\ spent' = spent
  BY DEF ExtractTypeOK, DeadlockVictim
<1>3. /\ entry' \in [DocJob -> SUBSET Key] /\ hit' \in [DocJob -> SUBSET Key]
      /\ \A i, k \in DocJob : i # k => (entry'[i] \cup hit'[i]) \cap (entry'[k] \cup hit'[k]) = {}
      /\ \A i \in DocJob \ {j} : entry'[i] = entry[i] /\ hit'[i] = hit[i]
      /\ entry'[j] = {} /\ hit'[j] = {}
      /\ chunk' \in [DocJob -> Nat \ {0}] /\ \A i \in DocJob : chunk'[i] <= Len(ChunksOf[i]) + 1
      /\ owes' \in [DocJob -> 0 .. MaxCost]
      /\ made' \in [DocJob -> Seq(Signal)] /\ \A i \in DocJob : AcceptedByModel(made'[i])
      /\ MoveTo(j, "failed")
      /\ AtChunk'
  BY RollBackKeeps DEF DeadlockVictim
<1>4. /\ place' \in [DocJob -> {"idle", "extract", "call", "record", "insert", "done", "dropped", "failed"}]
      /\ \A i \in DocJob : place'[i] = IF i = j THEN "failed" ELSE place[i]
  BY <1>3, MoveType DEF ExtractTypeOK
<1>5. ExtractTypeOK'
  BY <1>1, <1>2, <1>3, <1>4 DEF ExtractTypeOK, DeadlockVictim
<1>6. AtChunk'
  BY <1>3
<1>7. HitsRight'
  BY <1>3 DEF HitsRight, DeadlockVictim
<1>8. SpendRight'
  BY <1>1, <1>2, <1>3, <1>4, NothingSpent
<1>9. AnswersRight'
  BY <1>3 DEF AnswersRight, DeadlockVictim
<1>10. TriesRight'
  BY <1>4 DEF TriesRight, OnlyDeathsDrop, DeadlockVictim
<1>. QED  BY <1>5, <1>6, <1>7, <1>8, <1>9, <1>10

LEMMA ModelAnswersKeeps ==
  ASSUME ExtractInv, NEW j \in DocJob, UNCHANGED briefs, ModelAnswers(j)
  PROVE  ExtractInv'
<1>. USE DEF ExtractInv
<1>1. CallingJobs' \subseteq CallingJobs /\ CallingBriefs' \subseteq CallingBriefs
  BY JobMoves DEF ExtractTypeOK, ModelAnswers
<1>2. spent \in Nat /\ spent' = spent
  BY DEF ExtractTypeOK, ModelAnswers
<1>3. /\ place' \in [DocJob -> {"idle", "extract", "call", "record", "insert", "done", "dropped", "failed"}]
      /\ \A i \in DocJob : place'[i] = IF i = j THEN "record" ELSE place[i]
  BY MoveType DEF ExtractTypeOK, ModelAnswers
<1>4. owes' \in [DocJob -> 0 .. MaxCost]
  <2>1. PICK cost \in 1 .. MaxCost : owes' = [owes EXCEPT ![j] = cost]
    BY DEF ModelAnswers
  <2>2. cost \in 0 .. MaxCost
    BY NumbersRight
  <2>. QED  BY <2>1, <2>2 DEF ExtractTypeOK
<1>5. ExtractTypeOK'
  BY <1>3, <1>4 DEF ExtractTypeOK, ModelAnswers, transaction
<1>6. AtChunk'
  BY <1>3 DEF AtChunk, ModelAnswers
<1>7. HitsRight'
  BY DEF HitsRight, ModelAnswers, transaction
<1>8. SpendRight'
  BY <1>1, <1>2, <1>3, <1>4, NothingSpent
<1>9. AnswersRight'
  BY DEF AnswersRight, ModelAnswers
<1>10. TriesRight'
  BY <1>3 DEF TriesRight, OnlyDeathsDrop, ModelAnswers
<1>. QED  BY <1>5, <1>6, <1>7, <1>8, <1>9, <1>10

LEMMA RecordKeeps ==
  ASSUME ExtractInv, NEW j \in DocJob, UNCHANGED briefs, Record(j)
  PROVE  ExtractInv'
<1>. USE DEF ExtractInv
<1>1. /\ CallingBriefs' = CallingBriefs
      /\ j \in CallingJobs /\ CallingJobs' = CallingJobs \ {j}
  BY JobMoves DEF ExtractTypeOK, Record
<1>2. owes[j] \in 0 .. MaxCost /\ spent \in Nat /\ spent' = spent + owes[j]
  BY DEF ExtractTypeOK, Record
<1>3. /\ place' \in [DocJob -> {"idle", "extract", "call", "record", "insert", "done", "dropped", "failed"}]
      /\ \A i \in DocJob : place'[i] = IF i = j THEN "insert" ELSE place[i]
  BY MoveType DEF ExtractTypeOK, Record
<1>4. owes' \in [DocJob -> 0 .. MaxCost] /\ spent' \in Nat
  <2>1. owes' \in [DocJob -> 0 .. MaxCost]
    BY NumbersRight DEF ExtractTypeOK, Record
  <2>. QED  BY <1>2, <2>1
<1>5. ExtractTypeOK'
  BY <1>3, <1>4 DEF ExtractTypeOK, Record, transaction
<1>6. AtChunk'
  BY <1>3 DEF AtChunk, Record
<1>7. HitsRight'
  BY DEF HitsRight, Record, transaction
<1>8. SpendRight'
  BY <1>1, <1>2, <1>3, <1>4, CallRecorded
<1>9. AnswersRight'
  BY DEF AnswersRight, Record
<1>10. TriesRight'
  BY <1>3 DEF TriesRight, OnlyDeathsDrop, Record
<1>. QED  BY <1>5, <1>6, <1>7, <1>8, <1>9, <1>10

\* A transaction may take hold of an entry that no other one holds.
LEMMA HeldApart ==
  ASSUME NEW j \in DocJob, NEW k,
         \A i, l \in DocJob : i # l => (entry[i] \cup hit[i]) \cap (entry[l] \cup hit[l]) = {},
         \A i \in DocJob \ {j} : k \notin entry[i] \cup hit[i],
         entry'[j] \cup hit'[j] \subseteq (entry[j] \cup hit[j]) \cup {k},
         \A i \in DocJob \ {j} : entry'[i] \cup hit'[i] = entry[i] \cup hit[i]
  PROVE  \A i, l \in DocJob : i # l => (entry'[i] \cup hit'[i]) \cap (entry'[l] \cup hit'[l]) = {}
<1>. SUFFICES ASSUME NEW i \in DocJob, NEW l \in DocJob, i # l
              PROVE  (entry'[i] \cup hit'[i]) \cap (entry'[l] \cup hit'[l]) = {}
  OBVIOUS
<1>1. CASE i = j
  BY <1>1
<1>2. CASE l = j
  BY <1>2
<1>3. CASE i # j /\ l # j
  BY <1>3
<1>. QED  BY <1>1, <1>2, <1>3

LEMMA UseCacheKeeps ==
  ASSUME ExtractInv, NEW j \in DocJob, UNCHANGED briefs, UseCache(j)
  PROVE  ExtractInv'
<1>. USE DEF ExtractInv
<1>1. /\ Prompt(j) \in Key /\ chunk[j] <= Len(ChunksOf[j]) /\ Cached(j, Prompt(j))
      /\ \A i \in DocJob \ {j} : Prompt(j) \notin entry[i] \cup hit[i]
      /\ hit' = [hit EXCEPT ![j] = @ \cup {Prompt(j)}]
      /\ UNCHANGED <<spent, cache, entry, jobTry, owes, signals, setbacks>>
  BY PromptIsKey DEF UseCache, Locked
<1>2. /\ made' \in [DocJob -> Seq(Signal)] /\ \A i \in DocJob : AcceptedByModel(made'[i])
      /\ chunk' \in [DocJob -> Nat \ {0}] /\ \A i \in DocJob : chunk'[i] <= Len(ChunksOf[i]) + 1
      /\ \A i \in DocJob \ {j} : chunk'[i] = chunk[i]
      /\ MoveTo(j, "extract")
  <2>1. Answer(j, "model", FALSE)
    BY <1>1 DEF UseCache, AnswersRight
  <2>2. "model" \in Extractor /\ FALSE \in BOOLEAN
    BY DEF Extractor
  <2>. QED  BY <1>1, <2>1, <2>2, AnswerEffect
<1>3. /\ hit' \in [DocJob -> SUBSET Key]
      /\ hit'[j] = hit[j] \cup {Prompt(j)}
      /\ \A i \in DocJob \ {j} : hit'[i] = hit[i]
  BY <1>1 DEF ExtractTypeOK
<1>4. \A i, k \in DocJob : i # k => (entry'[i] \cup hit'[i]) \cap (entry'[k] \cup hit'[k]) = {}
  <2>1. entry'[j] \cup hit'[j] = (entry[j] \cup hit[j]) \cup {Prompt(j)}
    BY <1>1, <1>3
  <2>2. \A i \in DocJob \ {j} : entry'[i] \cup hit'[i] = entry[i] \cup hit[i]
    BY <1>1, <1>3
  <2>. QED  BY <1>1, <2>1, <2>2, HeldApart DEF ExtractTypeOK
<1>5. CallingJobs' \subseteq CallingJobs /\ CallingBriefs' \subseteq CallingBriefs
  BY <1>2, JobMoves DEF ExtractTypeOK
<1>6. spent \in Nat /\ spent' = spent
  BY <1>1 DEF ExtractTypeOK
<1>7. /\ place' \in [DocJob -> {"idle", "extract", "call", "record", "insert", "done", "dropped", "failed"}]
      /\ \A i \in DocJob : place'[i] = IF i = j THEN "extract" ELSE place[i]
  BY <1>2, MoveType DEF ExtractTypeOK
<1>8. ExtractTypeOK'
  BY <1>1, <1>2, <1>3, <1>4, <1>7 DEF ExtractTypeOK
<1>9. AtChunk'
  BY <1>2, <1>7 DEF AtChunk
<1>10. HitsRight'
  <2>. DEFINE key == Prompt(j)
  <2>1. cache' = cache /\ entry' = entry /\ (cache[key] # Nobody \/ key \in entry[j])
    BY <1>1 DEF Cached
  <2>2. hit'[j] = hit[j] \cup {key} /\ \A i \in DocJob \ {j} : hit'[i] = hit[i]
    BY <1>3
  <2>. HIDE DEF key
  <2>. QED  BY <2>1, <2>2 DEF HitsRight
<1>11. SpendRight'
  BY <1>5, <1>6, NothingSpent
<1>12. AnswersRight'
  BY <1>1, <1>2 DEF AnswersRight
<1>13. TriesRight'
  BY <1>1, <1>7 DEF TriesRight, OnlyDeathsDrop
<1>. QED  BY <1>8, <1>9, <1>10, <1>11, <1>12, <1>13

\* The rules answer: another signal, for a reviewer.
LEMMA FallBackEffect ==
  ASSUME ExtractInv, NEW j \in DocJob, chunk[j] <= Len(ChunksOf[j]), FallBack(j)
  PROVE  /\ made' \in [DocJob -> Seq(Signal)] /\ \A i \in DocJob : AcceptedByModel(made'[i])
         /\ chunk' \in [DocJob -> Nat \ {0}] /\ \A i \in DocJob : chunk'[i] <= Len(ChunksOf[i]) + 1
         /\ \A i \in DocJob \ {j} : chunk'[i] = chunk[i]
         /\ MoveTo(j, "extract")
<1>1. Answer(j, "heuristic", TRUE)
  BY DEF FallBack
<1>2. "heuristic" \in Extractor /\ TRUE \in BOOLEAN
  BY DEF Extractor
<1>. QED  BY <1>1, <1>2, AnswerEffect

LEMMA FallingBackKeeps ==
  ASSUME ExtractInv, NEW j \in DocJob, UNCHANGED briefs, chunk[j] <= Len(ChunksOf[j]), FallBack(j),
         UNCHANGED <<spent, cache, entry, hit, jobTry, owes, signals, setbacks>>
  PROVE  ExtractInv'
<1>. USE DEF ExtractInv
<1>1. /\ made' \in [DocJob -> Seq(Signal)] /\ \A i \in DocJob : AcceptedByModel(made'[i])
      /\ chunk' \in [DocJob -> Nat \ {0}] /\ \A i \in DocJob : chunk'[i] <= Len(ChunksOf[i]) + 1
      /\ \A i \in DocJob \ {j} : chunk'[i] = chunk[i]
      /\ MoveTo(j, "extract")
  BY FallBackEffect
<1>2. /\ place' \in [DocJob -> {"idle", "extract", "call", "record", "insert", "done", "dropped", "failed"}]
      /\ \A i \in DocJob : place'[i] = IF i = j THEN "extract" ELSE place[i]
  BY <1>1, MoveType DEF ExtractTypeOK
<1>3. CallingJobs' \subseteq CallingJobs /\ CallingBriefs' \subseteq CallingBriefs
  BY <1>1, JobMoves DEF ExtractTypeOK
<1>4. spent \in Nat /\ spent' = spent
  BY DEF ExtractTypeOK
<1>5. ExtractTypeOK'
  BY <1>1, <1>2, <1>3, <1>4 DEF ExtractTypeOK
<1>6. AtChunk'
  BY <1>1, <1>2, <1>3, <1>4 DEF ExtractTypeOK, AtChunk
<1>7. HitsRight'
  BY <1>1, <1>2, <1>3, <1>4 DEF ExtractTypeOK, HitsRight
<1>8. SpendRight'
  BY <1>1, <1>2, <1>3, <1>4, NothingSpent
<1>9. AnswersRight'
  BY <1>1, <1>2, <1>3, <1>4 DEF ExtractTypeOK, AnswersRight
<1>10. TriesRight'
  BY <1>2 DEF TriesRight, OnlyDeathsDrop
<1>. QED  BY <1>5, <1>6, <1>7, <1>8, <1>9, <1>10

LEMMA UselessKeeps ==
  ASSUME ExtractInv, NEW j \in DocJob, UNCHANGED briefs, Useless(j)
  PROVE  ExtractInv'
<1>1. /\ chunk[j] <= Len(ChunksOf[j]) /\ FallBack(j)
      /\ UNCHANGED <<spent, cache, entry, hit, jobTry, owes, signals, setbacks>>
  BY DEF Useless, ExtractInv, AtChunk, transaction
<1>. QED  BY <1>1, FallingBackKeeps

LEMMA AllowedKeeps ==
  ASSUME ExtractInv, NEW j \in DocJob, UNCHANGED briefs, place[j] = "extract", chunk[j] <= Len(ChunksOf[j]),
         ~OverBudget(spent), MoveTo(j, "call"),
         UNCHANGED <<spent, cache, entry, hit, chunk, made, jobTry, owes, signals, setbacks>>
  PROVE  ExtractInv'
<1>. USE DEF ExtractInv
<1>1. spent \in Nat /\ spent' = spent
  BY DEF ExtractTypeOK
<1>2. spent <= Cap - LeastEstimate
  <2>1. spent + Estimate <= Cap
    BY <1>1, ExtractionAssumption DEF OverBudget
  <2>. QED  BY <1>1, <2>1, BoundIsInt, ExtractionAssumption
<1>3. /\ place' \in [DocJob -> {"idle", "extract", "call", "record", "insert", "done", "dropped", "failed"}]
      /\ \A i \in DocJob : place'[i] = IF i = j THEN "call" ELSE place[i]
  BY MoveType DEF ExtractTypeOK
<1>4. ExtractTypeOK'
  BY <1>1, <1>2, <1>3 DEF ExtractTypeOK
<1>5. AtChunk'
  BY <1>1, <1>2, <1>3 DEF ExtractTypeOK, AtChunk
<1>6. HitsRight'
  BY <1>1, <1>2, <1>3 DEF ExtractTypeOK, HitsRight
<1>7. SpendRight'
  BY <1>1, <1>2, <1>3, BelowTheCap
<1>8. AnswersRight'
  BY <1>1, <1>2, <1>3 DEF ExtractTypeOK, AnswersRight
<1>9. TriesRight'
  BY <1>1, <1>2, <1>3 DEF ExtractTypeOK, TriesRight, OnlyDeathsDrop
<1>. QED  BY <1>4, <1>5, <1>6, <1>7, <1>8, <1>9

LEMMA CheckBudgetKeeps ==
  ASSUME ExtractInv, NEW j \in DocJob, UNCHANGED briefs, CheckBudget(j)
  PROVE  ExtractInv'
<1>1. /\ place[j] = "extract" /\ chunk[j] <= Len(ChunksOf[j])
      /\ UNCHANGED <<spent, cache, entry, hit, jobTry, owes, signals, setbacks>>
  BY DEF CheckBudget, transaction
<1>2. CASE FallBack(j)
  BY <1>1, <1>2, FallingBackKeeps
<1>3. CASE ~OverBudget(spent) /\ MoveTo(j, "call") /\ UNCHANGED <<chunk, made>>
  BY <1>1, <1>3, AllowedKeeps
<1>. QED  BY <1>2, <1>3 DEF CheckBudget

LEMMA TriedAgainKeeps ==
  ASSUME ExtractInv, NEW j \in DocJob, UNCHANGED briefs, place[j] = "call", ~FinalAttempt(j), RollBack(j, "idle"),
         UNCHANGED <<spent, cache, jobTry, signals, setbacks>>
  PROVE  ExtractInv'
<1>. USE DEF ExtractInv
<1>1. CallingJobs' \subseteq CallingJobs /\ CallingBriefs' \subseteq CallingBriefs
  BY JobMoves DEF ExtractTypeOK, RollBack
<1>2. spent \in Nat /\ spent' = spent
  BY DEF ExtractTypeOK
<1>3. /\ entry' \in [DocJob -> SUBSET Key] /\ hit' \in [DocJob -> SUBSET Key]
      /\ \A i, k \in DocJob : i # k => (entry'[i] \cup hit'[i]) \cap (entry'[k] \cup hit'[k]) = {}
      /\ \A i \in DocJob \ {j} : entry'[i] = entry[i] /\ hit'[i] = hit[i]
      /\ entry'[j] = {} /\ hit'[j] = {}
      /\ chunk' \in [DocJob -> Nat \ {0}] /\ \A i \in DocJob : chunk'[i] <= Len(ChunksOf[i]) + 1
      /\ owes' \in [DocJob -> 0 .. MaxCost]
      /\ made' \in [DocJob -> Seq(Signal)] /\ \A i \in DocJob : AcceptedByModel(made'[i])
      /\ MoveTo(j, "idle")
      /\ AtChunk'
  BY RollBackKeeps
<1>4. /\ place' \in [DocJob -> {"idle", "extract", "call", "record", "insert", "done", "dropped", "failed"}]
      /\ \A i \in DocJob : place'[i] = IF i = j THEN "idle" ELSE place[i]
  BY <1>3, MoveType DEF ExtractTypeOK
<1>5. jobTry[j] # MaxJobTries
  BY NotFinal DEF ExtractTypeOK, FinalAttempt
<1>6. ExtractTypeOK'
  BY <1>1, <1>2, <1>3, <1>4, <1>5 DEF ExtractTypeOK
<1>7. AtChunk'
  BY <1>3
<1>8. HitsRight'
  BY <1>3 DEF HitsRight
<1>9. SpendRight'
  BY <1>1, <1>2, <1>3, <1>4, <1>5, NothingSpent
<1>10. AnswersRight'
  BY <1>3 DEF AnswersRight
<1>11. TriesRight'
  BY <1>4, <1>5 DEF TriesRight, OnlyDeathsDrop
<1>. QED  BY <1>6, <1>7, <1>8, <1>9, <1>10, <1>11

LEMMA UnavailableKeeps ==
  ASSUME ExtractInv, NEW j \in DocJob, UNCHANGED briefs, Unavailable(j)
  PROVE  ExtractInv'
<1>1. /\ place[j] = "call" /\ chunk[j] <= Len(ChunksOf[j])
      /\ UNCHANGED <<spent, cache, jobTry, signals, setbacks>>
  BY DEF Unavailable, ExtractInv, AtChunk
<1>2. CASE FallBack(j) /\ UNCHANGED <<transaction, owes>>
  BY <1>1, <1>2, FallingBackKeeps DEF transaction
<1>3. CASE ~FinalAttempt(j) /\ RollBack(j, "idle")
  BY <1>1, <1>3, TriedAgainKeeps
<1>. QED  BY <1>2, <1>3 DEF Unavailable

LEMMA InsertEntryKeeps ==
  ASSUME ExtractInv, NEW j \in DocJob, UNCHANGED briefs, InsertEntry(j)
  PROVE  ExtractInv'
<1>. USE DEF ExtractInv
<1>1. /\ chunk[j] <= Len(ChunksOf[j]) /\ Prompt(j) \in Key
      /\ \A i \in DocJob \ {j} : Prompt(j) \notin entry[i]
      /\ entry' = [entry EXCEPT ![j] = IF cache[Prompt(j)] = Nobody THEN @ \cup {Prompt(j)} ELSE @]
      /\ Answer(j, "model", FALSE)
      /\ UNCHANGED <<spent, cache, hit, jobTry, owes, signals, setbacks>>
  BY PromptIsKey DEF InsertEntry, AtChunk
<1>2. /\ made' \in [DocJob -> Seq(Signal)] /\ \A i \in DocJob : AcceptedByModel(made'[i])
      /\ chunk' \in [DocJob -> Nat \ {0}] /\ \A i \in DocJob : chunk'[i] <= Len(ChunksOf[i]) + 1
      /\ \A i \in DocJob \ {j} : chunk'[i] = chunk[i]
      /\ MoveTo(j, "extract")
  <2>1. "model" \in Extractor /\ FALSE \in BOOLEAN
    BY DEF Extractor
  <2>. QED  BY <1>1, <2>1, AnswerEffect
<1>3. /\ entry' \in [DocJob -> SUBSET Key] /\ hit' = hit
      /\ entry[j] \subseteq entry'[j] /\ entry'[j] \subseteq entry[j] \cup {Prompt(j)}
      /\ Prompt(j) \in entry'[j] \ entry[j] => cache[Prompt(j)] = Nobody
      /\ \A i \in DocJob \ {j} : entry'[i] = entry[i]
  BY <1>1 DEF ExtractTypeOK
\* Nobody else has counted a hit of what was not there.
<1>4. ASSUME NEW i \in DocJob \ {j}, cache[Prompt(j)] = Nobody  PROVE Prompt(j) \notin hit[i]
  BY <1>1, <1>4 DEF HitsRight
<1>5. \A i, k \in DocJob : i # k => (entry'[i] \cup hit'[i]) \cap (entry'[k] \cup hit'[k]) = {}
  <2>1. \A i \in DocJob \ {j} : entry'[i] \cup hit'[i] = entry[i] \cup hit[i]
    BY <1>3
  <2>2. CASE cache[Prompt(j)] = Nobody
    <3>1. entry'[j] \cup hit'[j] \subseteq (entry[j] \cup hit[j]) \cup {Prompt(j)}
      BY <1>3
    <3>. QED  BY <1>1, <1>4, <2>1, <2>2, <3>1, HeldApart DEF ExtractTypeOK
  <2>3. CASE cache[Prompt(j)] # Nobody
    <3>1. entry'[j] \cup hit'[j] = entry[j] \cup hit[j]
      BY <1>3, <2>3
    <3>. QED  BY <2>1, <3>1 DEF ExtractTypeOK
  <2>. QED  BY <2>2, <2>3
<1>6. CallingJobs' \subseteq CallingJobs /\ CallingBriefs' \subseteq CallingBriefs
  BY <1>2, JobMoves DEF ExtractTypeOK
<1>7. spent \in Nat /\ spent' = spent
  BY <1>1 DEF ExtractTypeOK
<1>8. /\ place' \in [DocJob -> {"idle", "extract", "call", "record", "insert", "done", "dropped", "failed"}]
      /\ \A i \in DocJob : place'[i] = IF i = j THEN "extract" ELSE place[i]
  BY <1>2, MoveType DEF ExtractTypeOK
<1>9. ExtractTypeOK'
  BY <1>1, <1>2, <1>3, <1>5, <1>8 DEF ExtractTypeOK
<1>10. AtChunk'
  BY <1>2, <1>8 DEF AtChunk
<1>11. HitsRight'
  BY <1>1 DEF HitsRight
<1>12. SpendRight'
  BY <1>6, <1>7, NothingSpent
<1>13. AnswersRight'
  BY <1>1, <1>2 DEF AnswersRight
<1>14. TriesRight'
  BY <1>1, <1>8 DEF TriesRight, OnlyDeathsDrop
<1>. QED  BY <1>9, <1>10, <1>11, <1>12, <1>13, <1>14

-----------------------------------------------------------------------------
(* Requests for briefs, and days. *)

\* A step that leaves the jobs alone.
LEMMA JobsAlone ==
  ASSUME ExtractInv, UNCHANGED <<cache, transaction, work, signals>>,
         spent' \in Nat, SpendRight', setbacks' \in 0 .. MaxSetbacks, setbacks > 0 => setbacks' > 0,
         briefs' \in [BriefRequest ->
           [at : {"asked", "call", "record", "by model", "by template"}, owes : 0 .. MaxCost]]
  PROVE  ExtractInv'
<1>. USE DEF ExtractInv, transaction, work
<1>1. ExtractTypeOK'
  BY DEF ExtractTypeOK
<1>2. AtChunk' /\ HitsRight' /\ AnswersRight'
  BY DEF AtChunk, HitsRight, AnswersRight
<1>3. TriesRight'
  BY DEF TriesRight, OnlyDeathsDrop
<1>. QED  BY <1>1, <1>2, <1>3

LEMMA BriefGoesType ==
  ASSUME NEW b \in BriefRequest,
         NEW to \in {"asked", "call", "by model", "by template"}, BriefGoes(b, to),
         briefs \in [BriefRequest ->
           [at : {"asked", "call", "record", "by model", "by template"}, owes : 0 .. MaxCost]]
  PROVE  briefs' \in [BriefRequest ->
           [at : {"asked", "call", "record", "by model", "by template"}, owes : 0 .. MaxCost]]
BY NumbersRight DEF BriefGoes

LEMMA BriefStepKeeps ==
  ASSUME ExtractInv, NEW b \in BriefRequest, BriefStep(b)
  PROVE  ExtractInv'
<1>1. /\ UNCHANGED <<cache, transaction, work, signals, setbacks>> /\ place' = place
      /\ setbacks' \in 0 .. MaxSetbacks /\ (setbacks > 0 => setbacks' > 0)
  <2>1. UNCHANGED <<cache, transaction, work, signals, setbacks>>
    BY DEF BriefStep
  <2>2. setbacks \in 0 .. MaxSetbacks
    BY DEF ExtractInv, ExtractTypeOK
  <2>. QED  BY <2>1, <2>2 DEF work
<1>2. /\ briefs \in [BriefRequest ->
           [at : {"asked", "call", "record", "by model", "by template"}, owes : 0 .. MaxCost]]
      /\ 0 \in 0 .. MaxCost
  BY NumbersRight DEF ExtractInv, ExtractTypeOK
<1>3. spent \in Nat /\ SpendRight
  BY DEF ExtractInv, ExtractTypeOK
<1>4. CASE CheckBriefBudget(b)
  <2>1. CASE spent + BriefEstimate > Cap
    <3>1. BriefGoes(b, "by template") /\ spent' = spent
      BY <1>4, <2>1 DEF CheckBriefBudget
    <3>2. CallingJobs' = CallingJobs /\ CallingBriefs' \subseteq CallingBriefs
      BY <1>1, <1>2, <3>1, BriefMoves
    <3>3. SpendRight'
      BY <1>3, <3>1, <3>2, SameSpend
    <3>. QED  BY <1>1, <1>2, <1>3, <3>1, <3>3, BriefGoesType, JobsAlone
  <2>2. CASE ~(spent + BriefEstimate > Cap)
    <3>1. BriefGoes(b, "call") /\ spent' = spent
      BY <1>4, <2>2 DEF CheckBriefBudget
    <3>2. spent <= Cap - LeastEstimate
      BY <1>3, <2>2, RoomForOne
    <3>3. SpendRight'
      BY <1>3, <3>1, <3>2, BelowTheCap
    <3>. QED  BY <1>1, <1>2, <1>3, <3>1, <3>3, BriefGoesType, JobsAlone
  <2>. QED  BY <2>1, <2>2
<1>5. CASE ModelWrites(b)
  <2>1. PICK cost \in 0 .. MaxCost : briefs' = [briefs EXCEPT ![b] = [at |-> "record", owes |-> cost]]
    BY <1>5, NumbersRight DEF ModelWrites
  <2>2. briefs[b].at = "call" /\ spent' = spent
    BY <1>5 DEF ModelWrites
  <2>3. CallingJobs' = CallingJobs /\ CallingBriefs' \subseteq CallingBriefs
    BY <1>1, <1>2, <2>1, <2>2, BriefMoves
  <2>4. SpendRight'
    BY <1>3, <2>2, <2>3, SameSpend
  <2>5. briefs' \in [BriefRequest ->
          [at : {"asked", "call", "record", "by model", "by template"}, owes : 0 .. MaxCost]]
    BY <1>2, <2>1
  <2>. QED  BY <1>1, <1>3, <2>2, <2>4, <2>5, JobsAlone
<1>6. CASE ModelFails(b)
  <2>1. BriefGoes(b, "by template") /\ spent' = spent
    BY <1>6 DEF ModelFails
  <2>2. CallingJobs' = CallingJobs /\ CallingBriefs' \subseteq CallingBriefs
    BY <1>1, <1>2, <2>1, BriefMoves
  <2>3. SpendRight'
    BY <1>3, <2>1, <2>2, SameSpend
  <2>. QED  BY <1>1, <1>2, <1>3, <2>1, <2>3, BriefGoesType, JobsAlone
<1>7. CASE RecordBrief(b)
  <2>1. briefs[b].at = "record" /\ BriefGoes(b, "by model")
    BY <1>7 DEF RecordBrief
  <2>2. briefs[b].owes \in 0 .. MaxCost /\ spent' = spent + briefs[b].owes
    BY <1>2, <1>7 DEF RecordBrief
  <2>3. CallingJobs' = CallingJobs /\ b \in CallingBriefs /\ CallingBriefs' = CallingBriefs \ {b}
    BY <1>1, <1>2, <2>1, BriefMoves
  <2>4. SpendRight'
    BY <1>3, <2>2, <2>3, CallRecorded
  <2>5. spent' \in Nat
    BY <1>3, <2>2
  <2>. QED  BY <1>1, <1>2, <2>1, <2>4, <2>5, BriefGoesType, JobsAlone
<1>. QED  BY <1>4, <1>5, <1>6, <1>7 DEF BriefStep

LEMMA RequestDiesKeeps ==
  ASSUME ExtractInv, NEW b \in BriefRequest, RequestDies(b)
  PROVE  ExtractInv'
<1>1. /\ UNCHANGED <<cache, transaction, work, signals>> /\ place' = place
      /\ spent' = spent /\ BriefGoes(b, "asked")
  BY DEF RequestDies, work
<1>2. /\ briefs \in [BriefRequest ->
           [at : {"asked", "call", "record", "by model", "by template"}, owes : 0 .. MaxCost]]
      /\ 0 \in 0 .. MaxCost
  BY NumbersRight DEF ExtractInv, ExtractTypeOK
<1>3. spent \in Nat /\ SpendRight
  BY DEF ExtractInv, ExtractTypeOK
<1>4. setbacks' \in 0 .. MaxSetbacks /\ setbacks' > 0
  BY NumbersRight DEF RequestDies, ExtractInv, ExtractTypeOK
<1>5. CallingJobs' = CallingJobs /\ CallingBriefs' \subseteq CallingBriefs
  BY <1>1, <1>2, BriefMoves
<1>6. SpendRight'
  BY <1>1, <1>3, <1>5, SameSpend
<1>. QED  BY <1>1, <1>2, <1>3, <1>4, <1>6, BriefGoesType, JobsAlone

LEMMA NewDayKeeps ==
  ASSUME ExtractInv, NewDay
  PROVE  ExtractInv'
<1>1. UNCHANGED <<cache, transaction, work, signals, briefs>> /\ place' = place /\ spent' = 0
  BY DEF NewDay, work
<1>2. briefs' \in [BriefRequest ->
        [at : {"asked", "call", "record", "by model", "by template"}, owes : 0 .. MaxCost]]
  BY <1>1 DEF ExtractInv, ExtractTypeOK
<1>3. spent \in Nat /\ SpendRight
  BY DEF ExtractInv, ExtractTypeOK
<1>4. setbacks' \in 0 .. MaxSetbacks /\ setbacks' > 0
  BY NumbersRight DEF NewDay, ExtractInv, ExtractTypeOK
<1>5. CallingJobs' = CallingJobs /\ CallingBriefs' = CallingBriefs
  BY <1>1 DEF CallingJobs, CallingBriefs
<1>6. 0 \in Nat /\ 0 <= spent
  BY <1>3
<1>7. SpendRight'
  BY <1>1, <1>3, <1>5, <1>6, NothingSpent
<1>. QED  BY <1>1, <1>2, <1>4, <1>6, <1>7, JobsAlone

-----------------------------------------------------------------------------
LEMMA ExtractInitInv == ExtractInit => ExtractInv
<1>. SUFFICES ASSUME ExtractInit  PROVE ExtractInv
  OBVIOUS
<1>. USE DEF ExtractInit
<1>1. 0 \in 0 .. MaxJobTries /\ 0 \in 0 .. MaxSetbacks /\ 0 # MaxJobTries
  BY ExtractionAssumption
<1>2. ExtractTypeOK
  <2>1. chunk \in [DocJob -> Nat \ {0}] /\ \A j \in DocJob : chunk[j] <= Len(ChunksOf[j]) + 1
    BY NumbersRight
  <2>2. /\ owes \in [DocJob -> 0 .. MaxCost]
        /\ briefs \in [BriefRequest ->
             [at : {"asked", "call", "record", "by model", "by template"}, owes : 0 .. MaxCost]]
    BY NumbersRight
  <2>3. made \in [DocJob -> Seq(Signal)] /\ signals \in [DocJob -> Seq(Signal) \cup {NotParsed}]
    BY NoAnswers
  <2>4. /\ spent \in Nat /\ cache \in [Key -> Extractor \cup {Nobody}]
        /\ entry \in [DocJob -> SUBSET Key] /\ hit \in [DocJob -> SUBSET Key]
        /\ \A j, k \in DocJob : j # k => (entry[j] \cup hit[j]) \cap (entry[k] \cup hit[k]) = {}
        /\ place \in [DocJob -> {"idle", "extract", "call", "record", "insert", "done", "dropped", "failed"}]
        /\ jobTry \in [DocJob -> 0 .. MaxJobTries] /\ setbacks \in 0 .. MaxSetbacks
    BY <1>1
  <2>. QED  BY <2>1, <2>2, <2>3, <2>4 DEF ExtractTypeOK
<1>3. AtChunk /\ HitsRight /\ TriesRight
  BY <1>1 DEF AtChunk, HitsRight, TriesRight, OnlyDeathsDrop
<1>4. AnswersRight
  BY NoAnswers DEF AnswersRight
<1>. QED  BY <1>2, <1>3, <1>4, SpendInit DEF ExtractInv

LEMMA ExtractNextInv == ExtractInv /\ [ExtractNext]_extractVars => ExtractInv'
<1>. SUFFICES ASSUME ExtractInv, [ExtractNext]_extractVars  PROVE ExtractInv'
  OBVIOUS
<1>1. ASSUME NEW j \in DocJob, ExtractStep(j)  PROVE ExtractInv'
  BY <1>1, StartExtractionKeeps, CommitKeeps, DropKeeps, UseCacheKeeps, CheckBudgetKeeps,
     ModelAnswersKeeps, UselessKeeps, UnavailableKeeps, RecordKeeps, InsertEntryKeeps,
     DeadlockVictimKeeps, Zenon
  DEF ExtractStep, JobStep
<1>2. ASSUME NEW j \in DocJob, WorkerDies(j) /\ UNCHANGED briefs  PROVE ExtractInv'
  BY <1>2, WorkerDiesKeeps
<1>3. ASSUME NEW b \in BriefRequest, BriefStep(b) \/ RequestDies(b)  PROVE ExtractInv'
  BY <1>3, BriefStepKeeps, RequestDiesKeeps
<1>4. CASE UNCHANGED extractVars
  <2>1. /\ UNCHANGED <<spent, cache, transaction, work, signals, briefs, setbacks>>
        /\ UNCHANGED <<spent, setbacks, briefs>> /\ place' = place
    BY <1>4 DEF extractVars, work
  <2>2. CallingJobs' = CallingJobs /\ CallingBriefs' = CallingBriefs
    BY <2>1 DEF CallingJobs, CallingBriefs
  <2>3. spent \in Nat /\ SpendRight /\ setbacks \in 0 .. MaxSetbacks
    BY DEF ExtractInv, ExtractTypeOK
  <2>4. SpendRight'
    BY <2>1, <2>2, <2>3, SameSpend
  <2>5. briefs' \in [BriefRequest ->
          [at : {"asked", "call", "record", "by model", "by template"}, owes : 0 .. MaxCost]]
    BY <2>1 DEF ExtractInv, ExtractTypeOK
  <2>. QED  BY <2>1, <2>3, <2>4, <2>5, JobsAlone
<1>. QED  BY <1>1, <1>2, <1>3, <1>4, NewDayKeeps, Zenon DEF ExtractNext

\* The invariant of the answers and the spend holds whatever the workers, the
\* model, the requests and the deaths do (llm/service.py, llm/budget.py).
THEOREM ExtractInvariant == ExtractSpec => []ExtractInv
BY ExtractInitInv, ExtractNextInv, PTL DEF ExtractSpec

\* The variables of the extraction have their types; no two transactions hold
\* an entry of the cache (LLMService.extract).
THEOREM ExtractTypeCorrect == ExtractSpec => []ExtractTypeOK
<1>1. ExtractInv => ExtractTypeOK
  BY DEF ExtractInv
<1>. QED  BY <1>1, ExtractInvariant, PTL

\* The spend that is counted passes the cap by no more than one call of each job
\* and of each request, however many of them passed the guard at once
\* (RedisSpendGuard.check and record).
THEOREM SpendIsCapped == ExtractSpec => []SpendCapped
<1>1. ExtractInv => SpendCapped
  <2>. SUFFICES ASSUME ExtractInv  PROVE SpendCapped
    OBVIOUS
  <2>1. OnTheirWay * MaxCost \in Nat /\ Calling * MaxCost \in Nat
    BY CallsAreFew, TimesMonotone, ExtractionAssumption
  <2>. DEFINE calls == OnTheirWay * MaxCost
              all == Calling * MaxCost
  <2>2. spent \in Nat /\ calls \in Nat /\ all \in Nat /\ spent + calls <= Cap - LeastEstimate + all
    BY <2>1 DEF ExtractInv, ExtractTypeOK, SpendRight
  <2>3. SpendCapped <=> spent <= Cap - LeastEstimate + all
    BY DEF SpendCapped
  <2>. HIDE DEF calls, all
  <2>. QED  BY <2>2, <2>3, BoundIsInt
<1>. QED  BY <1>1, ExtractInvariant, PTL

\* No signal that the rules made, now or ever, is accepted without a reviewer
\* (_text_signal, the answer cache).
THEOREM OnlyTheModelIsAccepted == ExtractSpec => []AcceptedIsModels
<1>1. ExtractInv => AcceptedIsModels
  BY DEF ExtractInv, AnswersRight, AcceptedIsModels, AcceptedByModel
<1>. QED  BY <1>1, ExtractInvariant, PTL

\* However long the model is away, a document is dropped only where a worker or a
\* request died, or midnight passed: the last attempt takes the rules
\* (process_document of worker/tasks.py).
THEOREM ModelNeverDrops == ExtractSpec => []OnlyDeathsDrop
<1>1. ExtractInv => OnlyDeathsDrop
  BY DEF ExtractInv, TriesRight
<1>. QED  BY <1>1, ExtractInvariant, PTL

-----------------------------------------------------------------------------
(* Who waits for whom. *)

\* A job that is not at work holds nothing.
HoldsWhileAtWork ==
  \A j \in DocJob : place[j] \in {"idle", "done", "dropped", "failed"} => entry[j] = {} /\ hit[j] = {}

LEMMA HoldsInit == ExtractInit => HoldsWhileAtWork
BY DEF ExtractInit, HoldsWhileAtWork

LEMMA HoldsStep ==
  ASSUME ExtractTypeOK, HoldsWhileAtWork, [ExtractNext]_extractVars
  PROVE  HoldsWhileAtWork'
<1>. USE DEF HoldsWhileAtWork
<1>1. /\ place \in [DocJob -> {"idle", "extract", "call", "record", "insert", "done", "dropped", "failed"}]
      /\ entry \in [DocJob -> SUBSET Key] /\ hit \in [DocJob -> SUBSET Key]
  BY DEF ExtractTypeOK
<1>2. ASSUME NEW j \in DocJob, NEW to, RollBack(j, to)  PROVE HoldsWhileAtWork'
  BY <1>1, <1>2 DEF RollBack, MoveTo
<1>3. ASSUME NEW j \in DocJob, NEW to, MoveTo(j, to), UNCHANGED transaction,
             place[j] = "idle" \/ to \notin {"idle", "done", "dropped", "failed"}
      PROVE  HoldsWhileAtWork'
  BY <1>1, <1>3 DEF MoveTo, transaction
<1>4. ASSUME NEW j \in DocJob, MoveTo(j, "extract"),
             \A i \in DocJob \ {j} : entry'[i] = entry[i] /\ hit'[i] = hit[i]
      PROVE  HoldsWhileAtWork'
  BY <1>1, <1>4 DEF MoveTo
<1>5. ASSUME NEW j \in DocJob, ExtractStep(j)  PROVE HoldsWhileAtWork'
  <2>1. CASE StartExtraction(j) \/ Drop(j) \/ ModelAnswers(j) \/ Record(j)
    BY <1>3, <2>1 DEF StartExtraction, Drop, ModelAnswers, Record
  <2>2. CASE Commit(j) \/ DeadlockVictim(j)
    BY <1>2, <2>2 DEF Commit, DeadlockVictim
  <2>3. CASE CheckBudget(j) \/ Useless(j)
    BY <1>3, <2>3 DEF CheckBudget, Useless, FallBack, Answer
  <2>4. CASE Unavailable(j)
    BY <1>2, <1>3, <2>4 DEF Unavailable, FallBack, Answer
  <2>5. CASE UseCache(j)
    <3>1. MoveTo(j, "extract") /\ entry' = entry /\ \A i \in DocJob \ {j} : hit'[i] = hit[i]
      BY <1>1, <2>5 DEF UseCache, Answer
    <3>. QED  BY <1>4, <3>1
  <2>6. CASE InsertEntry(j)
    <3>1. MoveTo(j, "extract") /\ hit' = hit /\ \A i \in DocJob \ {j} : entry'[i] = entry[i]
      BY <1>1, <2>6 DEF InsertEntry, Answer
    <3>. QED  BY <1>4, <3>1
  <2>. QED  BY <1>5, <2>1, <2>2, <2>3, <2>4, <2>5, <2>6, Zenon DEF ExtractStep, JobStep
<1>6. ASSUME NEW j \in DocJob, WorkerDies(j)  PROVE HoldsWhileAtWork'
  BY <1>2, <1>6 DEF WorkerDies
<1>7. CASE NewDay \/ UNCHANGED extractVars \/ \E b \in BriefRequest : BriefStep(b) \/ RequestDies(b)
  BY <1>7 DEF NewDay, extractVars, BriefStep, RequestDies, transaction, work
<1>. QED  BY <1>5, <1>6, <1>7, Zenon DEF ExtractNext

\* Everyone in C waits for one of C.
AllWait(C) == C # {} /\ \A i \in C : \E k \in C : BlockedBy(i, k)

\* Where all wait for each other, some wait in a circle: those of the smallest set
\* that waits for itself, for one whom nobody of it waits for could be left out.
LEMMA CircleAmong ==
  ASSUME NEW U \in SUBSET DocJob, AllWait(U)
  PROVE  \E C \in SUBSET U : C # {} /\ Circle(C)
<1>. DEFINE Waiting == {C \in SUBSET DocJob : C \subseteq U /\ AllWait(C)}
            sizes == {Cardinality(C) : C \in Waiting}
<1>1. \A C \in SUBSET DocJob : IsFiniteSet(C) /\ Cardinality(C) \in Nat
  BY ExtractionAssumption, FS_Subset, FS_CardinalityType
<1>2. sizes \subseteq Nat /\ sizes # {}
  BY <1>1
<1>3. PICK n \in sizes : \A m \in sizes : ~(<<m, n>> \in OpToRel(<, Nat))
  BY <1>2, NatLessThanWellFounded, WFMin, Zenon
<1>4. \A m \in sizes : ~(m < n)
  BY <1>2, <1>3, Zenon DEF OpToRel
<1>5. PICK C \in Waiting : n = Cardinality(C)
  OBVIOUS
<1>6. ASSUME NEW k \in C, \A i \in C : ~BlockedBy(i, k)  PROVE FALSE
  <2>1. PICK l \in C : BlockedBy(k, l)
    BY DEF AllWait
  <2>2. l # k
    BY <2>1 DEF BlockedBy
  <2>3. C \ {k} \in Waiting
    BY <1>6, <2>2 DEF AllWait
  <2>4. Cardinality(C \ {k}) = n - 1 /\ n \in Nat
    BY <1>1, <1>5, FS_RemoveElement
  <2>5. n - 1 < n
    BY <2>4
  <2>. QED  BY <1>4, <2>3, <2>4, <2>5
<1>7. Circle(C) /\ C # {} /\ C \subseteq U
  BY <1>6 DEF Circle, AllWait
<1>. QED  BY <1>7

LEMMA NobodyWaitsInVain ==
  ASSUME ExtractTypeOK, HoldsWhileAtWork
  PROVE  NoJobsStuck
<1>. SUFFICES ASSUME Unfinished # {}, \A j \in Unfinished : ~JobCanGoOn(j)  PROVE FALSE
  BY DEF NoJobsStuck
<1>1. Unfinished \in SUBSET DocJob
  BY DEF Unfinished
<1>2. ASSUME NEW i \in Unfinished  PROVE \E k \in Unfinished : BlockedBy(i, k)
  <2>1. PICK k \in DocJob : BlockedBy(i, k)
    BY DEF JobCanGoOn
  <2>2. entry[k] \cup hit[k] # {}
    BY <2>1 DEF BlockedBy
  <2>3. place[k] \notin {"idle", "done", "dropped", "failed"}
    BY <2>2 DEF HoldsWhileAtWork
  <2>. QED  BY <2>1, <2>3 DEF Unfinished
<1>3. PICK C \in SUBSET Unfinished : C # {} /\ Circle(C)
  BY <1>1, <1>2, CircleAmong DEF AllWait
<1>4. PICK j \in C : InCircle(j)
  BY <1>1, <1>3 DEF InCircle
<1>5. j \in Unfinished
  OBVIOUS
<1>. QED  BY <1>4, <1>5 DEF JobCanGoOn

\* Whatever the prompts and the order of the chunks, the jobs never all wait for
\* each other: where they do, some of them do so in a circle, and the database
\* ends one of these (the rows of llm_cache in LLMService.extract).
THEOREM NoJobsAreStuck == ExtractSpec => []NoJobsStuck
<1>1. ExtractTypeOK /\ HoldsWhileAtWork /\ [ExtractNext]_extractVars => HoldsWhileAtWork'
  BY HoldsStep
<1>2. ExtractTypeOK /\ HoldsWhileAtWork => NoJobsStuck
  BY NobodyWaitsInVain
<1>. QED  BY <1>1, <1>2, HoldsInit, ExtractTypeCorrect, PTL DEF ExtractSpec

\* A document gets its signals in the end, unless a worker died, where the guards
\* say when a job has a step (extract of llm/service.py, the last try of arq).
THEOREM DocumentsDegrade == ExtractSpec => [](JobGuardsTell => DegradesInTheEnd)
<1>1. OnlyDeathsDrop /\ NoJobsStuck => (JobGuardsTell => DegradesInTheEnd)
  BY DEF DegradesInTheEnd
<1>. QED  BY <1>1, ModelNeverDrops, NoJobsAreStuck, PTL
=============================================================================
