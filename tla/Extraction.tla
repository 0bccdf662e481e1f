----------------------------- MODULE Extraction -----------------------------
(***************************************************************************)
(* The signals of a document made from its chunks by the language model    *)
(* (pipeline/process.py, llm/service.py): the answer cache in the job's    *)
(* transaction, the spend of the day in Redis, shared by all workers and   *)
(* by the requests for briefs (llm/budget.py), and the rules, or the       *)
(* template, that answer when the model does not.  Documents has the life  *)
(* of a document around it; here each job has a document of its own.       *)
(*                                                                         *)
(* Documents may share prompts: a book posted in two formats has the same  *)
(* title, date and texts twice.  A chunk gives one signal.  The llm_calls  *)
(* rows are left out: nothing reads them but the operators' page.          *)
(***************************************************************************)
EXTENDS Integers, Sequences, FiniteSets

CONSTANTS DocJob,      \* process_document jobs, one for each document
          Key,         \* cache keys: the prompts
          ChunksOf,    \* the prompts of each job's document, in order
          Doubtful,    \* prompts whose answer the verifier does not accept
          Cap,         \* llm_daily_budget_usd
          Estimate,    \* estimate_extract_cost
          BriefRequest,  \* requests for a brief
          BriefEstimate, \* the 0.05 of LLMService.brief
          MaxCost,     \* bound: the cost of a call
          MaxJobTries, \* MAX_TRIES of arq
          MaxSetbacks  \* bound: deaths of a worker, and midnights

ASSUME ExtractionAssumption ==
  /\ IsFiniteSet(DocJob) /\ DocJob # {} /\ ChunksOf \in [DocJob -> Seq(Key)] /\ Doubtful \subseteq Key
  /\ Cap \in Nat /\ Estimate \in Nat \ {0} /\ BriefEstimate \in Nat \ {0}
  /\ MaxCost \in Nat /\ MaxCost >= Estimate /\ MaxCost >= BriefEstimate /\ IsFiniteSet(BriefRequest)
  /\ MaxJobTries \in Nat \ {0} /\ MaxSetbacks \in Nat

VARIABLES
  spent,    \* app:llm:spend:<today>
  cache,    \* llm_cache, committed: who gave the answer
  entry,    \* the entries each transaction has inserted
  hit,      \* the entries each transaction has counted a hit of
  place,    \* where each job is
  chunk,    \* the chunk it is at
  jobTry,   \* job_try, 0 before its first try
  owes,     \* what its last call cost and is not recorded yet
  made,     \* the signals of its chunks
  signals,  \* the signals committed, or NotParsed
  briefs,   \* where each request is, and what its call cost and is not recorded
  setbacks  \* how many have happened

transaction == <<entry, hit>>
work == <<place, chunk, jobTry, owes, made>>
extractVars == <<spent, cache, transaction, work, signals, briefs, setbacks>>

Nobody == "nobody"
NotParsed == <<"not parsed">>
Extractor == {"model", "heuristic"}
Signal == [by : Extractor, verdict : {"accepted", "needs_review"}]

ExtractTypeOK ==
  /\ spent \in Nat
  /\ cache \in [Key -> Extractor \cup {Nobody}]
  /\ entry \in [DocJob -> SUBSET Key] /\ hit \in [DocJob -> SUBSET Key]
  /\ \A j, k \in DocJob : j # k => (entry[j] \cup hit[j]) \cap (entry[k] \cup hit[k]) = {}
  /\ place \in [DocJob -> {"idle", "extract", "call", "record", "insert", "done", "dropped", "failed"}]
  /\ chunk \in [DocJob -> Nat \ {0}] /\ \A j \in DocJob : chunk[j] <= Len(ChunksOf[j]) + 1
  /\ jobTry \in [DocJob -> 0 .. MaxJobTries]
  /\ owes \in [DocJob -> 0 .. MaxCost]
  /\ made \in [DocJob -> Seq(Signal)] /\ signals \in [DocJob -> Seq(Signal) \cup {NotParsed}]
  /\ briefs \in [BriefRequest ->
       [at : {"asked", "call", "record", "by model", "by template"}, owes : 0 .. MaxCost]]
  /\ setbacks \in 0 .. MaxSetbacks

ExtractInit ==
  /\ spent = 0
  /\ cache = [k \in Key |-> Nobody]
  /\ entry = [j \in DocJob |-> {}] /\ hit = [j \in DocJob |-> {}]
  /\ place = [j \in DocJob |-> "idle"]
  /\ chunk = [j \in DocJob |-> 1]
  /\ jobTry = [j \in DocJob |-> 0]
  /\ owes = [j \in DocJob |-> 0]
  /\ made = [j \in DocJob |-> <<>>]
  /\ signals = [j \in DocJob |-> NotParsed]
  /\ briefs = [b \in BriefRequest |-> [at |-> "asked", owes |-> 0]]
  /\ setbacks = 0

Prompt(j) == ChunksOf[j][chunk[j]]
MoveTo(j, to) == place' = [place EXCEPT ![j] = to]

(***************************************************************************)
(* The job.                                                                *)
(***************************************************************************)

StartExtraction(j) ==
  /\ place[j] = "idle" /\ jobTry[j] < MaxJobTries
  /\ MoveTo(j, "extract")
  /\ jobTry' = [jobTry EXCEPT ![j] = @ + 1]
  /\ UNCHANGED <<spent, cache, transaction, chunk, owes, made, signals, setbacks>>

\* The transaction rolls back; the spend in Redis stays.
RollBack(j, to) ==
  /\ entry' = [entry EXCEPT ![j] = {}] /\ hit' = [hit EXCEPT ![j] = {}]
  /\ chunk' = [chunk EXCEPT ![j] = 1]
  /\ owes' = [owes EXCEPT ![j] = 0]
  /\ made' = [made EXCEPT ![j] = <<>>]
  /\ MoveTo(j, to)

\* The signals of the document are replaced, and the cache entries kept.
Commit(j) ==
  /\ place[j] = "extract" /\ chunk[j] > Len(ChunksOf[j])
  /\ signals' = [signals EXCEPT ![j] = made[j]]
  /\ cache' = [k \in Key |-> IF k \in entry[j] THEN "model" ELSE cache[k]]
  /\ RollBack(j, "done")
  /\ UNCHANGED <<spent, jobTry, setbacks>>

Drop(j) ==
  /\ place[j] = "idle" /\ jobTry[j] = MaxJobTries
  /\ MoveTo(j, "dropped")
  /\ UNCHANGED <<spent, cache, transaction, chunk, jobTry, owes, made, signals, setbacks>>

WorkerDies(j) ==
  /\ place[j] \notin {"idle", "done", "dropped", "failed"}
  /\ setbacks < MaxSetbacks /\ setbacks' = setbacks + 1
  /\ RollBack(j, "idle")
  /\ UNCHANGED <<spent, cache, jobTry, signals>>

(***************************************************************************)
(* _text_signal: what becomes of an answer.                                *)
(***************************************************************************)

\* A signal that the model did not make is never accepted as it is.
VerdictOf(prompt, degraded) ==
  IF prompt \in Doubtful \/ degraded THEN "needs_review" ELSE "accepted"

Answer(j, by, degraded) ==
  /\ made' = [made EXCEPT ![j] = Append(@, [by |-> by, verdict |-> VerdictOf(Prompt(j), degraded)])]
  /\ chunk' = [chunk EXCEPT ![j] = @ + 1]
  /\ MoveTo(j, "extract")

\* mutant: the fallback's answer passes for the model's
NotMarked(j) == Answer(j, "heuristic", FALSE)
FallBack(j) == Answer(j, "heuristic", TRUE)

(***************************************************************************)
(* LLMService.extract.                                                     *)
(***************************************************************************)
Cached(j, k) == cache[k] # Nobody \/ k \in entry[j]
Locked(j, k) == \E i \in DocJob \ {j} : k \in entry[i] \cup hit[i]

\* A hit is counted on the row, which another transaction may have written.
UseCache(j) ==
  /\ place[j] = "extract" /\ chunk[j] <= Len(ChunksOf[j])
  /\ LET k == Prompt(j) IN
       /\ Cached(j, k) /\ ~Locked(j, k)
       /\ hit' = [hit EXCEPT ![j] = @ \cup {k}]
       /\ Answer(j, IF cache[k] # Nobody THEN cache[k] ELSE "model", FALSE)
  /\ UNCHANGED <<spent, cache, entry, jobTry, owes, signals, setbacks>>

\* SpendGuard.check, on the spend it has just read.

\* mutant: the spend of before, not the one projected
SpentAll(s) == s > Cap
OverBudget(s) == s + Estimate > Cap

CheckBudget(j) ==
  /\ place[j] = "extract" /\ chunk[j] <= Len(ChunksOf[j]) /\ ~Cached(j, Prompt(j))
  /\ \/ OverBudget(spent) /\ FallBack(j)
     \/ ~OverBudget(spent) /\ MoveTo(j, "call") /\ UNCHANGED <<chunk, made>>
  /\ UNCHANGED <<spent, cache, transaction, jobTry, owes, signals, setbacks>>

\* The model answers and the answer is valid.
ModelAnswers(j) ==
  /\ place[j] = "call"
  /\ \E cost \in 1 .. MaxCost : owes' = [owes EXCEPT ![j] = cost]
  /\ MoveTo(j, "record")
  /\ UNCHANGED <<spent, cache, transaction, chunk, jobTry, made, signals, setbacks>>

\* The request is rejected; or, paid and not recorded, it is refused, or its
\* answer is cut off or not valid.
Useless(j) ==
  /\ place[j] = "call"
  /\ FallBack(j)
  /\ UNCHANGED <<spent, cache, transaction, jobTry, owes, signals, setbacks>>

\* mutant: the last attempt is not known as such
NeverFinal(j) == FALSE
FinalAttempt(j) == jobTry[j] >= MaxJobTries

\* It is not available: the job is tried again, but for the last time.
Unavailable(j) ==
  /\ place[j] = "call"
  /\ \/ FinalAttempt(j) /\ FallBack(j) /\ UNCHANGED <<transaction, owes>>
     \/ ~FinalAttempt(j) /\ RollBack(j, "idle")
  /\ UNCHANGED <<spent, cache, jobTry, signals, setbacks>>

\* SpendGuard.record: INCRBYFLOAT.
Record(j) ==
  /\ place[j] = "record"
  /\ spent' = spent + owes[j]
  /\ owes' = [owes EXCEPT ![j] = 0]
  /\ MoveTo(j, "insert")
  /\ UNCHANGED <<cache, transaction, chunk, jobTry, made, signals, setbacks>>

\* INSERT ... ON CONFLICT DO NOTHING waits for whoever is inserting the same key.
InsertEntry(j) ==
  /\ place[j] = "insert"
  /\ LET k == Prompt(j) IN
       /\ \A i \in DocJob \ {j} : k \notin entry[i]
       /\ entry' = [entry EXCEPT ![j] = IF cache[k] = Nobody THEN @ \cup {k} ELSE @]
  /\ Answer(j, "model", FALSE)
  /\ UNCHANGED <<spent, cache, hit, jobTry, owes, signals, setbacks>>

\* Transactions that wait for each other in a circle: the database ends one of
\* them with an error that nobody tries again.
BlockedBy(j, i) ==
  /\ i # j /\ chunk[j] <= Len(ChunksOf[j])
  /\ \/ place[j] = "insert" /\ Prompt(j) \in entry[i]
     \/ place[j] = "extract" /\ Cached(j, Prompt(j)) /\ Prompt(j) \in entry[i] \cup hit[i]
Circle(C) == \A i \in C : (\E k \in C : BlockedBy(i, k)) /\ (\E k \in C : BlockedBy(k, i))
InCircle(j) == \E C \in SUBSET DocJob : j \in C /\ Circle(C)

DeadlockVictim(j) ==
  /\ InCircle(j)
  /\ RollBack(j, "failed")
  /\ UNCHANGED <<spent, cache, jobTry, signals, setbacks>>

NewDay ==
  /\ setbacks < MaxSetbacks /\ setbacks' = setbacks + 1
  /\ spent' = 0
  /\ UNCHANGED <<cache, transaction, work, signals, briefs>>

(***************************************************************************)
(* LLMService.brief, in the request of a customer who pays for it          *)
(* (CreditLedger): the same guard, no cache, no second try.                *)
(***************************************************************************)
BriefGoes(b, to) == briefs' = [briefs EXCEPT ![b] = [at |-> to, owes |-> 0]]

CheckBriefBudget(b) ==
  /\ briefs[b].at = "asked"
  /\ BriefGoes(b, IF spent + BriefEstimate > Cap THEN "by template" ELSE "call")
  /\ UNCHANGED spent

ModelWrites(b) ==
  /\ briefs[b].at = "call"
  /\ \E cost \in 1 .. MaxCost : briefs' = [briefs EXCEPT ![b] = [at |-> "record", owes |-> cost]]
  /\ UNCHANGED spent

\* Any LLMError: not available or rejected, or, paid and not recorded, a refusal
\* or an empty text.
ModelFails(b) ==
  /\ briefs[b].at = "call"
  /\ BriefGoes(b, "by template")
  /\ UNCHANGED spent

RecordBrief(b) ==
  /\ briefs[b].at = "record"
  /\ spent' = spent + briefs[b].owes
  /\ BriefGoes(b, "by model")

\* The process dies, and the customer asks again under the same key.
RequestDies(b) ==
  /\ briefs[b].at \in {"call", "record"}
  /\ setbacks < MaxSetbacks /\ setbacks' = setbacks + 1
  /\ BriefGoes(b, "asked")
  /\ UNCHANGED <<spent, cache, transaction, work, signals>>

BriefStep(b) ==
  /\ CheckBriefBudget(b) \/ ModelWrites(b) \/ ModelFails(b) \/ RecordBrief(b)
  /\ UNCHANGED <<cache, transaction, work, signals, setbacks>>

JobStep(j) ==
  \/ StartExtraction(j) \/ Commit(j) \/ Drop(j)
  \/ UseCache(j) \/ CheckBudget(j) \/ ModelAnswers(j) \/ Useless(j) \/ Unavailable(j)
  \/ Record(j) \/ InsertEntry(j) \/ DeadlockVictim(j)
ExtractStep(j) == JobStep(j) /\ UNCHANGED briefs

ExtractNext ==
  \/ \E j \in DocJob : ExtractStep(j) \/ (WorkerDies(j) /\ UNCHANGED briefs)
  \/ \E b \in BriefRequest : BriefStep(b) \/ RequestDies(b)
  \/ NewDay

\* arq runs its jobs, and a call ends: the client has a timeout.
ExtractSpec ==
  ExtractInit /\ [][ExtractNext]_extractVars /\ \A j \in DocJob : WF_extractVars(ExtractStep(j))

(***************************************************************************)
(* Properties.                                                             *)
(***************************************************************************)

\* What is counted of a day's spend passes the cap by no more than the calls
\* that were on their way when it was reached, one of each job and of each
\* request for a brief, although all check the spend before any of the others
\* records its own.
Calling == Cardinality(DocJob) + Cardinality(BriefRequest)
LeastEstimate == IF Estimate < BriefEstimate THEN Estimate ELSE BriefEstimate
SpendCapped == spent <= Cap - LeastEstimate + Calling * MaxCost

\* A signal that a customer sees without a reviewer was made by the model, now
\* or when its answer was cached, whatever was cached, lost, retried or degraded
\* on the way.
AcceptedIsModels ==
  \A j \in DocJob : signals[j] # NotParsed =>
    \A n \in 1 .. Len(signals[j]) : signals[j][n].verdict = "accepted" => signals[j][n].by = "model"

\* A job runs out of attempts only where a worker died.
OnlyDeathsDrop == (\E j \in DocJob : place[j] = "dropped") => setbacks > 0

\* Whatever the jobs wait for of each other, one of them can go on.
Unfinished == {j \in DocJob : place[j] \notin {"done", "dropped", "failed"}}
JobCanGoOn(j) == (\E i \in DocJob : BlockedBy(j, i)) => InCircle(j)
NoJobsStuck == Unfinished # {} => \E j \in Unfinished : JobCanGoOn(j)

\* The same of the steps of the jobs: JobCanGoOn says when a job has one.
JobGuardsTell == \A j \in DocJob : ENABLED ExtractStep(j) <=> j \in Unfinished /\ JobCanGoOn(j)

\* However long the model is away, a document gets its signals, unless a worker
\* died: only such a job runs out of attempts, and whatever the jobs wait for of
\* each other, one of them can go on.
DegradesInTheEnd == OnlyDeathsDrop /\ NoJobsStuck /\ JobGuardsTell
=============================================================================
