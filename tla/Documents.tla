----------------------------- MODULE Documents -----------------------------
(***************************************************************************)
(* A document on its way from the provider to its linked signals:          *)
(* ingest_source, process_document, sweep_pending_documents                *)
(* (worker/tasks.py, pipeline/ingest.py, pipeline/process.py) and the arq  *)
(* queue between them.  A content is its version at the provider; what a   *)
(* parser, a chunker or an extractor makes of it is named by that version. *)
(*                                                                         *)
(* Documents are numbered in the order of their publication.               *)
(***************************************************************************)
EXTENDS Naturals, FiniteSets

CONSTANTS Doc,         \* documents, a set of numbers
          Broken,      \* those that no parser can read
          Worker,      \* jobs that process documents at the same time
          Minute,      \* minutes in which ingest_source may enqueue
          MaxTries,    \* tries of a job
          SweepLimit,  \* documents that one sweep enqueues
          MaxVersion,  \* bound: contents that a provider publishes of a document
          MaxFaults    \* bound: processes that die, jobs that raise, restarts of
                       \* Redis that lose what it held

ASSUME DocumentsAssumption ==
  /\ Doc \subseteq Nat /\ IsFiniteSet(Doc) /\ Broken \subseteq Doc
  /\ MaxTries \in Nat \ {0} /\ SweepLimit \in Nat \ {0}
  /\ MaxVersion \in Nat \ {0} /\ MaxFaults \in Nat

VARIABLES
  published,  \* the provider's content of a document
  doc,        \* its row: the content stored, the content its text is of, the status
  signals,    \* the content its signals are of, who made them, whether they are linked
  linkJob,    \* a link_signals job about these signals is queued
  job,        \* arq's keys of the process_document jobs, and their tries
  ingest,     \* where ingest_source is with the document
  run,        \* where each worker is
  faults

vars == <<published, doc, signals, linkJob, job, ingest, run, faults>>
rows == <<published, doc, signals>>

Version == 0 .. MaxVersion
Status == {"absent", "pending", "parsed"}
Row == [hash : Version, text : Version, status : Status]
JobId == (Minute \cup {"sweep"}) \X Doc
JobState == {"none", "queued", "running", "kept"}
Nobody == "nobody"
Idle == [at |-> "idle"]
Run == {Idle} \cup [at : {"loaded", "derived", "committed"}, id : JobId, seen : Row]
Ingest == [at : {"idle", "fetched", "upserted", "committed"}, version : Version]
NoIngest == [at |-> "idle", version |-> 0]

Init ==
  /\ published = [d \in Doc |-> 0]
  /\ doc = [d \in Doc |-> [hash |-> 0, text |-> 0, status |-> "absent"]]
  /\ signals = [d \in Doc |-> [version |-> 0, by |-> Nobody, linked |-> FALSE]]
  /\ linkJob = [d \in Doc |-> FALSE]
  /\ job = [k \in JobId |-> [state |-> "none", tries |-> 0]]
  /\ ingest = [d \in Doc |-> NoIngest]
  /\ run = [w \in Worker |-> Idle]
  /\ faults = 0

(***************************************************************************)
(* arq.                                                                    *)
(***************************************************************************)

\* A job id that arq still has a key of is not enqueued again.
Enqueued(ids) ==
  job' = [k \in JobId |-> IF k \in ids /\ job[k].state = "none"
                          THEN [state |-> "queued", tries |-> 0] ELSE job[k]]

\* A job that has ended, well or not, leaves its result for an hour.
Ended(k) == job' = [job EXCEPT ![k] = [state |-> "kept", tries |-> 0]]

ResultExpires(k) ==
  /\ job[k].state = "kept"
  /\ job' = [job EXCEPT ![k].state = "none"]
  /\ UNCHANGED <<rows, linkJob, ingest, run, faults>>

GiveUp(k) ==
  /\ job[k].state = "queued" /\ job[k].tries = MaxTries
  /\ Ended(k)
  /\ UNCHANGED <<rows, linkJob, ingest, run, faults>>

LoseRedis ==
  /\ faults < MaxFaults /\ faults' = faults + 1
  /\ job' = [k \in JobId |-> [state |-> "none", tries |-> 0]]
  /\ linkJob' = [d \in Doc |-> FALSE]
  /\ UNCHANGED <<rows, ingest, run>>

(***************************************************************************)
(* ingest_source, and the provider.                                        *)
(***************************************************************************)

Publish(d) ==
  /\ published[d] < MaxVersion
  /\ published' = [published EXCEPT ![d] = @ + 1]
  /\ UNCHANGED <<doc, signals, linkJob, job, ingest, run, faults>>

Fetch(d) ==
  /\ ingest[d].at = "idle" /\ published[d] # 0
  /\ ingest' = [ingest EXCEPT ![d] = [at |-> "fetched", version |-> published[d]]]
  /\ UNCHANGED <<rows, linkJob, job, run, faults>>

\* The row of d is updated and not committed.
LockedByIngest(d) == ingest[d].at = "upserted"
Deriving(w, d) == run[w].at = "derived" /\ run[w].id[2] = d
LockedByWorker(d) == \E w \in Worker : Deriving(w, d) /\ run[w].seen.text = 0

Unchanged(d) ==
  /\ ingest[d].at = "fetched" /\ doc[d].hash = ingest[d].version
  /\ ingest' = [ingest EXCEPT ![d] = NoIngest]
  /\ UNCHANGED <<rows, linkJob, job, run, faults>>

Upsert(d) ==
  /\ ingest[d].at = "fetched" /\ doc[d].hash # ingest[d].version
  /\ ~LockedByWorker(d)
  /\ ingest' = [ingest EXCEPT ![d].at = "upserted"]
  /\ UNCHANGED <<rows, linkJob, job, run, faults>>

CommitIngest(d) ==
  /\ ingest[d].at = "upserted"
  /\ doc' = [doc EXCEPT ![d] = [hash |-> ingest[d].version, text |-> 0, status |-> "pending"]]
  /\ ingest' = [ingest EXCEPT ![d].at = "committed"]
  /\ UNCHANGED <<published, signals, linkJob, job, run, faults>>

EnqueueProcess(d, m) ==
  /\ ingest[d].at = "committed"
  /\ Enqueued({<<m, d>>})
  /\ ingest' = [ingest EXCEPT ![d] = NoIngest]
  /\ UNCHANGED <<rows, linkJob, run, faults>>

IngestDies(d) ==
  /\ ingest[d].at # "idle"
  /\ faults < MaxFaults /\ faults' = faults + 1
  /\ ingest' = [ingest EXCEPT ![d] = NoIngest]
  /\ UNCHANGED <<rows, linkJob, job, run>>

(***************************************************************************)
(* process_document.                                                       *)
(***************************************************************************)

\* The job reads the row; its text may be there already.
Start(w, k) ==
  /\ run[w] = Idle
  /\ job[k].state = "queued" /\ job[k].tries < MaxTries
  /\ job' = [job EXCEPT ![k] = [state |-> "running", tries |-> @.tries + 1]]
  /\ run' = [run EXCEPT ![w] = [at |-> "loaded", id |-> k, seen |-> doc[k[2]]]]
  /\ UNCHANGED <<rows, linkJob, ingest, faults>>

Leave(w) == run' = [run EXCEPT ![w] = Idle]

\* parse_status = "failed" is set and rolled back: the job raises.
ParseFails(w) ==
  /\ run[w].at = "loaded" /\ run[w].seen.text = 0 /\ run[w].id[2] \in Broken
  /\ Ended(run[w].id)
  /\ Leave(w)
  /\ UNCHANGED <<rows, linkJob, ingest, faults>>

\* Parsed; the new text is flushed and what was derived before deleted, once
\* nobody else holds these rows.
Derive(w) ==
  /\ run[w].at = "loaded"
  /\ LET d == run[w].id[2] IN
       /\ \A v \in Worker : ~Deriving(v, d)
       /\ run[w].seen.text = 0 => d \notin Broken /\ ~LockedByIngest(d)
  /\ run' = [run EXCEPT ![w].at = "derived"]
  /\ UNCHANGED <<rows, linkJob, job, ingest, faults>>

\* The model is not available: rolled back, and tried again later.
Unavailable(w) ==
  /\ run[w].at = "derived" /\ job[run[w].id].tries < MaxTries
  /\ job' = [job EXCEPT ![run[w].id].state = "queued"]
  /\ Leave(w)
  /\ UNCHANGED <<rows, linkJob, ingest, faults>>

\* Any other exception.
Fails(w) ==
  /\ run[w].at = "derived"
  /\ faults < MaxFaults /\ faults' = faults + 1
  /\ Ended(run[w].id)
  /\ Leave(w)
  /\ UNCHANGED <<rows, linkJob, ingest>>

\* What the job makes of the row: the columns that differ from what it read.
Processed(seen, now) ==
  [now EXCEPT !.text = IF seen.text = 0 THEN seen.hash ELSE @,
              !.status = IF seen.status = "parsed" THEN @ ELSE "parsed"]

Derived(seen) == IF seen.text = 0 THEN seen.hash ELSE seen.text

Commit(w) ==
  /\ run[w].at = "derived"
  /\ LET d == run[w].id[2] IN
       /\ ~LockedByIngest(d)
       /\ doc' = [doc EXCEPT ![d] = Processed(run[w].seen, @)]
       /\ signals' = [signals EXCEPT ![d] =
                        [version |-> Derived(run[w].seen), by |-> w, linked |-> FALSE]]
       /\ linkJob' = [linkJob EXCEPT ![d] = FALSE]
  /\ run' = [run EXCEPT ![w].at = "committed"]
  /\ UNCHANGED <<published, job, ingest, faults>>

\* Its link job is about these signals, unless another worker has replaced them.
EnqueueLink(w) ==
  /\ run[w].at = "committed"
  /\ linkJob' = [linkJob EXCEPT ![run[w].id[2]] = @ \/ signals[run[w].id[2]].by = w]
  /\ Ended(run[w].id)
  /\ Leave(w)
  /\ UNCHANGED <<rows, ingest, faults>>

\* arq runs the job again, if it still knows it.
Crash(w) ==
  /\ run[w] # Idle
  /\ faults < MaxFaults /\ faults' = faults + 1
  /\ job' = [job EXCEPT ![run[w].id].state = IF @ = "running" THEN "queued" ELSE @]
  /\ Leave(w)
  /\ UNCHANGED <<rows, linkJob, ingest>>

Link(d) ==
  /\ linkJob[d]
  /\ linkJob' = [linkJob EXCEPT ![d] = FALSE]
  /\ signals' = [signals EXCEPT ![d].linked = TRUE]
  /\ UNCHANGED <<published, doc, job, ingest, run, faults>>

(***************************************************************************)
(* sweep_pending_documents: the pending documents published first.         *)
(***************************************************************************)

Pending == {d \in Doc : doc[d].status = "pending"}
\* mutant: one document less than the limit
OldestButOne == {d \in Pending : Cardinality({e \in Pending : e <= d}) < SweepLimit}
Oldest == {d \in Pending : Cardinality({e \in Pending : e < d}) < SweepLimit}

Sweep ==
  /\ Pending # {}
  /\ Enqueued({"sweep"} \X Oldest)
  /\ UNCHANGED <<rows, linkJob, ingest, run, faults>>

IngestStep(d) ==
  Unchanged(d) \/ Upsert(d) \/ CommitIngest(d) \/ \E m \in Minute : EnqueueProcess(d, m)
ProcessStep(w) ==
  ParseFails(w) \/ Derive(w) \/ Unavailable(w) \/ Fails(w) \/ Commit(w) \/ EnqueueLink(w)

Next ==
  \/ \E d \in Doc : Publish(d) \/ Fetch(d) \/ IngestStep(d) \/ IngestDies(d) \/ Link(d)
  \/ \E w \in Worker : (\E k \in JobId : Start(w, k)) \/ ProcessStep(w) \/ Crash(w)
  \/ \E k \in JobId : ResultExpires(k) \/ GiveUp(k)
  \/ Sweep
  \/ LoseRedis

Spec == Init /\ [][Next]_vars

\* The cron job comes round and steps end.  For a document that can be parsed,
\* arq runs the queued jobs and forgets results, and the extraction succeeds if
\* it is tried often enough: the model is not away for ever.  Of a document that
\* cannot be parsed nothing is assumed.
DocumentFairness(d) ==
  /\ WF_vars(IngestStep(d))
  /\ SF_vars(\E w \in Worker, k \in JobId : k[2] = d /\ Start(w, k))
  /\ SF_vars(\E w \in Worker : run[w] # Idle /\ run[w].id[2] = d /\ Commit(w))
  /\ WF_vars(\E k \in JobId : k[2] = d /\ (ResultExpires(k) \/ GiveUp(k)))
Fairness ==
  /\ WF_vars(Sweep)
  /\ \A d \in Doc \ Broken : DocumentFairness(d)
  /\ \A w \in Worker : WF_vars(ProcessStep(w))
FairSpec == Spec /\ Fairness

-----------------------------------------------------------------------------
(***************************************************************************)
(* Properties.                                                             *)
(***************************************************************************)

TypeOK ==
  /\ published \in [Doc -> Version]
  /\ doc \in [Doc -> Row]
  /\ signals \in [Doc -> [version : Version, by : Worker \cup {Nobody}, linked : BOOLEAN]]
  /\ linkJob \in [Doc -> BOOLEAN]
  /\ job \in [JobId -> [state : JobState, tries : 0 .. MaxTries]]
  /\ ingest \in [Doc -> Ingest]
  /\ run \in [Worker -> Run]
  /\ faults \in 0 .. MaxFaults

\* The signals of a parsed document are derived from the content that is
\* stored, unless a job is still queued or at work on it: processing a document
\* whose content has changed replaces its signals.
SignalsAreCurrent ==
  \A d \in Doc :
    \/ doc[d].status # "parsed" \/ signals[d].version = doc[d].hash
    \/ \E k \in JobId : k[2] = d /\ job[k].state \in {"queued", "running"}
    \/ ingest[d].at = "committed"

\* Every pending document that can be parsed is parsed in the end, although
\* processes die between a commit and an enqueue, Redis loses jobs, and the
\* results of failed jobs keep their ids from being enqueued.
PendingIsProcessed ==
  \A d \in Doc \ Broken : doc[d].status = "pending" ~> doc[d].status = "parsed"
=============================================================================
