---------------------------- MODULE Jobs_proofs ----------------------------
(***************************************************************************)
(* Proofs about Documents and about Delivery, for any documents, workers,  *)
(* minutes, channels and notes, and any number of versions, tries, faults, *)
(* runs and attempts.                                                      *)
(*                                                                         *)
(* Documents: a version in a row, in a signal or in a worker's hands is    *)
(* one that was published (Genuine), and jobs and runs are about stored    *)
(* contents, a parsed one with its signals (AboutStored).                  *)
(*                                                                         *)
(* Delivery: a message is counted when it is out and its row written       *)
(* later, by a run that may die in between: the invariant bounds what has  *)
(* been delivered by the row that the run has not yet committed (Counted), *)
(* and says that only the run that holds a row has changed it (Drafted).   *)
(***************************************************************************)
EXTENDS MCJobs, TLAPS

-----------------------------------------------------------------------------
(* The documents. *)

\* Every version in the system is one that the provider has published.
Genuine ==
  /\ \A d \in Doc : /\ doc[d].hash <= published[d] /\ doc[d].text <= published[d]
                    /\ signals[d].version <= published[d] /\ ingest[d].version <= published[d]
  /\ \A w \in Worker : run[w] # Idle => /\ run[w].seen.hash <= published[run[w].id[2]]
                                        /\ run[w].seen.text <= published[run[w].id[2]]

\* Jobs and runs are about stored contents, and what is parsed has signals.
AboutStored ==
  /\ \A d \in Doc : /\ doc[d].status # "absent" => doc[d].hash >= 1
                    /\ doc[d].status = "parsed" => signals[d].version >= 1
                    /\ ingest[d].at # "idle" => ingest[d].version >= 1
                    /\ ingest[d].at = "committed" => doc[d].status # "absent"
  /\ \A k \in JobId : job[k].state # "none" => doc[k[2]].status # "absent"
  /\ \A w \in Worker : run[w] # Idle => run[w].seen.hash >= 1 /\ doc[run[w].id[2]].status # "absent"

DocumentsInv == TypeOK /\ Genuine /\ AboutStored

-----------------------------------------------------------------------------
SignalSet == [version : Version, by : Worker \cup {Nobody}, linked : BOOLEAN]

LEMMA VersionsAreNumbers ==
  /\ Version \subseteq Nat /\ 0 \in Version
  /\ \A k \in JobId : k[2] \in Doc
BY DocumentsAssumption DEF Version, JobId

LEMMA RunTypes ==
  ASSUME NEW r \in Run, r # Idle
  PROVE  /\ r.at \in {"loaded", "derived", "committed"}
         /\ r.id \in JobId /\ r.id[2] \in Doc /\ r.seen \in Row
         /\ r.seen.hash \in Version /\ r.seen.text \in Version /\ r.seen.status \in Status
BY VersionsAreNumbers DEF Run, Row

LEMMA NotIdle == Idle \in Run /\ Idle.at = "idle"
BY DEF Idle, Run

LEMMA DocumentsInitRight == Init => DocumentsInv
<1>. SUFFICES ASSUME Init  PROVE DocumentsInv
  OBVIOUS
<1>1. /\ 0 \in Version /\ 0 \in 0 .. MaxTries /\ 0 \in 0 .. MaxFaults
  BY DocumentsAssumption DEF Version
<1>. DEFINE r0 == [hash |-> 0, text |-> 0, status |-> "absent"]
            s0 == [version |-> 0, by |-> Nobody, linked |-> FALSE]
            j0 == [state |-> "none", tries |-> 0]
<1>2. r0 \in Row /\ r0.hash = 0 /\ r0.text = 0 /\ r0.status = "absent"
  BY <1>1 DEF Row, Status
<1>3. s0 \in SignalSet /\ s0.version = 0
  BY <1>1 DEF SignalSet
<1>4. j0 \in [state : JobState, tries : 0 .. MaxTries] /\ j0.state = "none"
  BY <1>1 DEF JobState
<1>5. NoIngest \in Ingest /\ NoIngest.at = "idle" /\ NoIngest.version = 0
  BY <1>1 DEF NoIngest, Ingest
<1>6. /\ published = [d \in Doc |-> 0] /\ doc = [d \in Doc |-> r0] /\ signals = [d \in Doc |-> s0]
      /\ linkJob = [d \in Doc |-> FALSE] /\ job = [k \in JobId |-> j0]
      /\ ingest = [d \in Doc |-> NoIngest] /\ run = [w \in Worker |-> Idle] /\ faults = 0
  BY DEF Init
<1>. HIDE DEF r0, s0, j0
<1>7. TypeOK
  BY <1>1, <1>2, <1>3, <1>4, <1>5, <1>6, NotIdle DEF TypeOK, SignalSet
<1>8. Genuine
  BY <1>2, <1>3, <1>5, <1>6 DEF Genuine
<1>9. AboutStored
  BY <1>2, <1>4, <1>5, <1>6 DEF AboutStored
<1>. QED  BY <1>7, <1>8, <1>9 DEF DocumentsInv

-----------------------------------------------------------------------------
(* Steps that leave the rows alone. *)

\* New jobs are about stored documents.
JobsRight ==
  /\ job' \in [JobId -> [state : JobState, tries : 0 .. MaxTries]]
  /\ \A k \in JobId : job'[k].state # "none" =>
       job[k].state # "none" \/ doc[k[2]].status # "absent"

IngestRight(i, d) ==
  /\ i.version <= published[d]
  /\ i.at # "idle" => i.version >= 1
  /\ i.at = "committed" => doc[d].status # "absent"

RunRight(r) ==
  r # Idle => /\ r.seen.hash \in 1 .. published[r.id[2]]
              /\ r.seen.text <= published[r.id[2]]
              /\ doc[r.id[2]].status # "absent"

LEMMA RowsAlone ==
  ASSUME DocumentsInv, JobsRight, linkJob' \in [Doc -> BOOLEAN], faults' \in 0 .. MaxFaults,
         UNCHANGED rows,
         ingest' \in [Doc -> Ingest],
         \A d \in Doc : ingest'[d] = ingest[d] \/ IngestRight(ingest'[d], d),
         run' \in [Worker -> Run],
         \A w \in Worker : run'[w] = run[w] \/ RunRight(run'[w])
  PROVE  DocumentsInv'
<1>1. published' = published /\ doc' = doc /\ signals' = signals
  BY DEF rows
<1>2. TypeOK'
  BY <1>1 DEF DocumentsInv, TypeOK, JobsRight
<1>3. \A d \in Doc : published[d] \in Nat
  BY VersionsAreNumbers DEF DocumentsInv, TypeOK
<1>4. \A w \in Worker : run'[w] # Idle => /\ run'[w].id[2] \in Doc
                                          /\ run'[w].seen.hash \in Nat
  BY RunTypes, VersionsAreNumbers
<1>5. Genuine'
  BY <1>1 DEF DocumentsInv, Genuine, IngestRight, RunRight
<1>6. AboutStored'
  BY <1>1 DEF DocumentsInv, AboutStored, IngestRight, RunRight, JobsRight
<1>. QED  BY <1>2, <1>5, <1>6 DEF DocumentsInv

\* Those that leave the ingest and the workers alone too.
LEMMA QueueAlone ==
  ASSUME DocumentsInv, JobsRight, linkJob' \in [Doc -> BOOLEAN], faults' \in 0 .. MaxFaults,
         UNCHANGED <<rows, ingest, run>>
  PROVE  DocumentsInv'
<1>1. ingest' = ingest /\ run' = run /\ ingest \in [Doc -> Ingest] /\ run \in [Worker -> Run]
  BY DEF DocumentsInv, TypeOK
<1>. QED  BY <1>1, RowsAlone

\* Those of the ingest of one document.
LEMMA IngestAlone ==
  ASSUME DocumentsInv, JobsRight, faults' \in 0 .. MaxFaults, UNCHANGED <<rows, linkJob, run>>,
         NEW d \in Doc, NEW i \in Ingest, IngestRight(i, d), ingest' = [ingest EXCEPT ![d] = i]
  PROVE  DocumentsInv'
<1>1. /\ ingest \in [Doc -> Ingest] /\ run' = run /\ run \in [Worker -> Run]
      /\ linkJob' \in [Doc -> BOOLEAN]
  BY DEF DocumentsInv, TypeOK
<1>2. ingest' \in [Doc -> Ingest] /\ \A e \in Doc : ingest'[e] = ingest[e] \/ IngestRight(ingest'[e], e)
  BY <1>1
<1>. QED  BY <1>1, <1>2, RowsAlone

\* Those of one worker.
LEMMA WorkerAlone ==
  ASSUME DocumentsInv, JobsRight, linkJob' \in [Doc -> BOOLEAN], faults' \in 0 .. MaxFaults,
         UNCHANGED <<rows, ingest>>,
         NEW w \in Worker, NEW r \in Run, RunRight(r), run' = [run EXCEPT ![w] = r]
  PROVE  DocumentsInv'
<1>1. ingest' = ingest /\ ingest \in [Doc -> Ingest] /\ run \in [Worker -> Run]
  BY DEF DocumentsInv, TypeOK
<1>2. run' \in [Worker -> Run] /\ \A v \in Worker : run'[v] = run[v] \/ RunRight(run'[v])
  BY <1>1
<1>. QED  BY <1>1, <1>2, RowsAlone

-----------------------------------------------------------------------------
(* The queue. *)

LEMMA JobsAlone == ASSUME DocumentsInv, UNCHANGED job  PROVE JobsRight
BY DEF DocumentsInv, TypeOK, JobsRight

LEMMA EnqueuedRight ==
  ASSUME DocumentsInv, NEW ids, Enqueued(ids), \A k \in JobId : k \in ids => doc[k[2]].status # "absent"
  PROVE  JobsRight
<1>. DEFINE new == [state |-> "queued", tries |-> 0]
<1>1. new \in [state : JobState, tries : 0 .. MaxTries]
  BY DocumentsAssumption DEF JobState
<1>2. job \in [JobId -> [state : JobState, tries : 0 .. MaxTries]]
  BY DEF DocumentsInv, TypeOK
<1>3. job' = [k \in JobId |-> IF k \in ids /\ job[k].state = "none" THEN new ELSE job[k]]
  BY DEF Enqueued
<1>. HIDE DEF new
<1>. QED  BY <1>1, <1>2, <1>3 DEF JobsRight

LEMMA EndedRight ==
  ASSUME DocumentsInv, NEW k \in JobId, doc[k[2]].status # "absent", Ended(k)
  PROVE  JobsRight
<1>1. [state |-> "kept", tries |-> 0] \in [state : JobState, tries : 0 .. MaxTries]
  BY DocumentsAssumption DEF JobState
<1>2. job \in [JobId -> [state : JobState, tries : 0 .. MaxTries]]
  BY DEF DocumentsInv, TypeOK
<1>. QED  BY <1>1, <1>2 DEF Ended, JobsRight

\* A job whose state changes, and which had a key before.
LEMMA StateRight ==
  ASSUME DocumentsInv, NEW k \in JobId, NEW s \in JobState,
         job[k].state # "none" \/ s = "none" \/ doc[k[2]].status # "absent",
         job' = [job EXCEPT ![k].state = s]
  PROVE  JobsRight
<1>1. job \in [JobId -> [state : JobState, tries : 0 .. MaxTries]]
  BY DEF DocumentsInv, TypeOK
<1>2. /\ [job[k] EXCEPT !.state = s] \in [state : JobState, tries : 0 .. MaxTries]
      /\ [job[k] EXCEPT !.state = s].state = s
  BY <1>1
<1>3. job' = [job EXCEPT ![k] = [job[k] EXCEPT !.state = s]]
  BY <1>1
<1>. QED  BY <1>1, <1>2, <1>3 DEF JobsRight

LEMMA ResultExpiresKeeps ==
  ASSUME DocumentsInv, NEW k \in JobId, ResultExpires(k)
  PROVE  DocumentsInv'
<1>1. "none" \in JobState /\ job' = [job EXCEPT ![k].state = "none"]
  BY DEF ResultExpires, JobState
<1>2. linkJob' \in [Doc -> BOOLEAN] /\ faults' \in 0 .. MaxFaults /\ UNCHANGED <<rows, ingest, run>>
  BY DEF ResultExpires, DocumentsInv, TypeOK
<1>. QED  BY <1>1, <1>2, StateRight, QueueAlone

LEMMA GiveUpKeeps ==
  ASSUME DocumentsInv, NEW k \in JobId, GiveUp(k)
  PROVE  DocumentsInv'
<1>1. Ended(k) /\ doc[k[2]].status # "absent"
  BY DEF GiveUp, DocumentsInv, AboutStored
<1>2. linkJob' \in [Doc -> BOOLEAN] /\ faults' \in 0 .. MaxFaults /\ UNCHANGED <<rows, ingest, run>>
  BY DEF GiveUp, DocumentsInv, TypeOK
<1>. QED  BY <1>1, <1>2, EndedRight, QueueAlone

LEMMA LoseRedisKeeps ==
  ASSUME DocumentsInv, LoseRedis
  PROVE  DocumentsInv'
<1>1. [state |-> "none", tries |-> 0] \in [state : JobState, tries : 0 .. MaxTries]
  BY DocumentsAssumption DEF JobState
<1>2. /\ job' \in [JobId -> [state : JobState, tries : 0 .. MaxTries]]
      /\ \A k \in JobId : job'[k].state = "none"
  BY <1>1 DEF LoseRedis
<1>3. linkJob' \in [Doc -> BOOLEAN]
  BY DEF LoseRedis
<1>4. faults' \in 0 .. MaxFaults
  BY DocumentsAssumption DEF LoseRedis, DocumentsInv, TypeOK
<1>5. UNCHANGED <<rows, ingest, run>>
  BY DEF LoseRedis
<1>6. JobsRight
  BY <1>2 DEF JobsRight
<1>. QED  BY <1>3, <1>4, <1>5, <1>6, QueueAlone

LEMMA SweepKeeps ==
  ASSUME DocumentsInv, Sweep
  PROVE  DocumentsInv'
<1>1. \A k \in JobId : k \in {"sweep"} \X Oldest => doc[k[2]].status # "absent"
  BY DEF Oldest, Pending
<1>2. linkJob' \in [Doc -> BOOLEAN] /\ faults' \in 0 .. MaxFaults /\ UNCHANGED <<rows, ingest, run>>
  BY DEF Sweep, DocumentsInv, TypeOK
<1>3. Enqueued({"sweep"} \X Oldest)
  BY DEF Sweep
<1>. QED  BY <1>1, <1>2, <1>3, EnqueuedRight, QueueAlone

-----------------------------------------------------------------------------
(* The ingest. *)

LEMMA NoIngestRight ==
  NoIngest \in Ingest /\ NoIngest.at = "idle" /\ NoIngest.version = 0
BY VersionsAreNumbers DEF NoIngest, Ingest

LEMMA ForgetRight == ASSUME DocumentsInv, NEW d \in Doc  PROVE IngestRight(NoIngest, d)
<1>1. published[d] \in Nat
  BY VersionsAreNumbers DEF DocumentsInv, TypeOK
<1>. QED  BY <1>1, NoIngestRight DEF IngestRight

LEMMA PublishKeeps ==
  ASSUME DocumentsInv, NEW d \in Doc, Publish(d)
  PROVE  DocumentsInv'
<1>1. published[d] + 1 \in Version /\ published \in [Doc -> Version]
  BY DocumentsAssumption DEF Publish, DocumentsInv, TypeOK, Version
<1>2. /\ published' \in [Doc -> Version]
      /\ \A e \in Doc : published[e] \in Nat /\ published'[e] \in Nat /\ published[e] <= published'[e]
  <2>1. published' = [published EXCEPT ![d] = published[d] + 1]
    BY <1>1 DEF Publish
  <2>2. \A e \in Doc : published[e] \in Nat
    BY <1>1, VersionsAreNumbers
  <2>3. published' \in [Doc -> Version]
    BY <1>1, <2>1
  <2>4. published'[d] = published[d] + 1 /\ \A e \in Doc \ {d} : published'[e] = published[e]
    BY <1>1, <2>1
  <2>5. \A e \in Doc : published'[e] \in Nat /\ published[e] <= published'[e]
    BY <2>2, <2>4
  <2>. QED  BY <2>2, <2>3, <2>5
<1>3. UNCHANGED <<doc, signals, linkJob, job, ingest, run, faults>>
  BY DEF Publish
<1>4. TypeOK'
  BY <1>2, <1>3 DEF DocumentsInv, TypeOK
<1>5. \A e \in Doc : /\ doc[e].hash \in Nat /\ doc[e].text \in Nat /\ signals[e].version \in Nat
                     /\ ingest[e].version \in Nat
  BY VersionsAreNumbers DEF DocumentsInv, TypeOK, Row, Ingest
<1>6. \A w \in Worker : run[w] # Idle => /\ run[w].id[2] \in Doc /\ run[w].seen.hash \in Nat
                                         /\ run[w].seen.text \in Nat
  BY RunTypes, VersionsAreNumbers DEF DocumentsInv, TypeOK
<1>7. \A e \in Doc : \A x \in Nat : x <= published[e] => x <= published'[e]
  BY <1>2
<1>8. Genuine'
  BY <1>3, <1>5, <1>6, <1>7 DEF DocumentsInv, Genuine
<1>9. AboutStored'
  BY <1>3 DEF DocumentsInv, AboutStored
<1>. QED  BY <1>4, <1>8, <1>9 DEF DocumentsInv

LEMMA FetchKeeps ==
  ASSUME DocumentsInv, NEW d \in Doc, Fetch(d)
  PROVE  DocumentsInv'
<1>. DEFINE i == [at |-> "fetched", version |-> published[d]]
<1>1. published[d] \in Version /\ published[d] \in Nat /\ published[d] # 0
  BY VersionsAreNumbers DEF Fetch, DocumentsInv, TypeOK
<1>2. i \in Ingest /\ IngestRight(i, d)
  BY <1>1 DEF Ingest, IngestRight
<1>3. ingest' = [ingest EXCEPT ![d] = i] /\ faults' \in 0 .. MaxFaults /\ UNCHANGED <<rows, linkJob, job, run>>
  BY DEF Fetch, DocumentsInv, TypeOK
<1>. QED  BY <1>2, <1>3, JobsAlone, IngestAlone

LEMMA UnchangedKeeps ==
  ASSUME DocumentsInv, NEW d \in Doc, Unchanged(d)
  PROVE  DocumentsInv'
<1>1. /\ ingest' = [ingest EXCEPT ![d] = NoIngest] /\ faults' \in 0 .. MaxFaults
      /\ UNCHANGED <<rows, linkJob, job, run>>
  BY DEF Unchanged, DocumentsInv, TypeOK
<1>. QED  BY <1>1, NoIngestRight, ForgetRight, JobsAlone, IngestAlone

LEMMA UpsertKeeps ==
  ASSUME DocumentsInv, NEW d \in Doc, Upsert(d)
  PROVE  DocumentsInv'
<1>. DEFINE i == [ingest[d] EXCEPT !.at = "upserted"]
<1>1. ingest \in [Doc -> Ingest] /\ ingest[d].at = "fetched"
  BY DEF Upsert, DocumentsInv, TypeOK
<1>2. i \in Ingest /\ i.version = ingest[d].version /\ i.at = "upserted"
  BY <1>1 DEF Ingest
<1>3. IngestRight(i, d)
  BY <1>1, <1>2 DEF IngestRight, DocumentsInv, Genuine, AboutStored
<1>4. /\ ingest' = [ingest EXCEPT ![d] = i] /\ faults' \in 0 .. MaxFaults
      /\ UNCHANGED <<rows, linkJob, job, run>>
  BY DEF Upsert, DocumentsInv, TypeOK
<1>. QED  BY <1>2, <1>3, <1>4, JobsAlone, IngestAlone

LEMMA EnqueueProcessKeeps ==
  ASSUME DocumentsInv, NEW d \in Doc, NEW m \in Minute, EnqueueProcess(d, m)
  PROVE  DocumentsInv'
<1>1. \A k \in JobId : k \in {<<m, d>>} => doc[k[2]].status # "absent"
  BY DEF EnqueueProcess, DocumentsInv, AboutStored
<1>2. /\ Enqueued({<<m, d>>}) /\ ingest' = [ingest EXCEPT ![d] = NoIngest]
      /\ faults' \in 0 .. MaxFaults /\ UNCHANGED <<rows, linkJob, run>>
  BY DEF EnqueueProcess, DocumentsInv, TypeOK
<1>. QED  BY <1>1, <1>2, NoIngestRight, ForgetRight, EnqueuedRight, IngestAlone

LEMMA MoreFaults == ASSUME DocumentsInv, faults < MaxFaults  PROVE faults + 1 \in 0 .. MaxFaults
BY DocumentsAssumption DEF DocumentsInv, TypeOK

LEMMA IngestDiesKeeps ==
  ASSUME DocumentsInv, NEW d \in Doc, IngestDies(d)
  PROVE  DocumentsInv'
<1>1. /\ ingest' = [ingest EXCEPT ![d] = NoIngest] /\ faults' \in 0 .. MaxFaults
      /\ UNCHANGED <<rows, linkJob, job, run>>
  BY MoreFaults DEF IngestDies
<1>. QED  BY <1>1, NoIngestRight, ForgetRight, JobsAlone, IngestAlone

\* A row with a new content is pending, and has no text.
LEMMA CommitIngestKeeps ==
  ASSUME DocumentsInv, NEW d \in Doc, CommitIngest(d)
  PROVE  DocumentsInv'
<1>. DEFINE i == [ingest[d] EXCEPT !.at = "committed"]
            r == [hash |-> ingest[d].version, text |-> 0, status |-> "pending"]
<1>1. /\ ingest \in [Doc -> Ingest] /\ doc \in [Doc -> Row] /\ ingest[d].at = "upserted"
      /\ published[d] \in Nat
  BY VersionsAreNumbers DEF CommitIngest, DocumentsInv, TypeOK
<1>2. i \in Ingest /\ i.version = ingest[d].version /\ i.at = "committed"
  BY <1>1 DEF Ingest
<1>3. /\ r \in Row /\ r.hash = ingest[d].version /\ r.text = 0 /\ r.status = "pending"
      /\ ingest[d].version \in Nat
  BY <1>1, VersionsAreNumbers DEF Row, Status, Ingest
<1>4. ingest[d].version >= 1 /\ ingest[d].version <= published[d]
  BY <1>1 DEF DocumentsInv, Genuine, AboutStored
<1>5. /\ doc' = [doc EXCEPT ![d] = r] /\ ingest' = [ingest EXCEPT ![d] = i]
      /\ UNCHANGED <<published, signals, linkJob, job, run, faults>>
  BY <1>1 DEF CommitIngest
<1>. HIDE DEF i, r
<1>6. /\ doc'[d] = r /\ ingest'[d] = i
      /\ \A e \in Doc \ {d} : doc'[e] = doc[e] /\ ingest'[e] = ingest[e]
  BY <1>1, <1>5
<1>7. TypeOK'
  BY <1>1, <1>2, <1>3, <1>5 DEF DocumentsInv, TypeOK
<1>8. \A e \in Doc : doc[e].status # "absent" => doc'[e].status # "absent"
  BY <1>3, <1>6
<1>9. Genuine'
  BY <1>1, <1>2, <1>3, <1>5 DEF DocumentsInv, Genuine
<1>10. AboutStored'
  <2>1. \A e \in Doc : /\ doc'[e].status # "absent" => doc'[e].hash >= 1
                       /\ doc'[e].status = "parsed" => signals'[e].version >= 1
                       /\ ingest'[e].at # "idle" => ingest'[e].version >= 1
                       /\ ingest'[e].at = "committed" => doc'[e].status # "absent"
    BY <1>2, <1>3, <1>4, <1>5, <1>6 DEF DocumentsInv, AboutStored
  <2>2. \A k \in JobId : job'[k].state # "none" => doc'[k[2]].status # "absent"
    BY <1>5, <1>8, VersionsAreNumbers DEF DocumentsInv, AboutStored
  <2>3. \A w \in Worker : run'[w] # Idle => /\ run'[w].seen.hash >= 1
                                            /\ doc'[run'[w].id[2]].status # "absent"
    BY <1>5, <1>8, RunTypes DEF DocumentsInv, TypeOK, AboutStored
  <2>. QED  BY <2>1, <2>2, <2>3 DEF AboutStored
<1>. QED  BY <1>7, <1>9, <1>10 DEF DocumentsInv

-----------------------------------------------------------------------------
(* The workers. *)

LEMMA AtWork ==
  ASSUME DocumentsInv, NEW w \in Worker, run[w] # Idle
  PROVE  /\ run[w] \in Run /\ run[w].id \in JobId /\ run[w].id[2] \in Doc
         /\ run[w].seen.hash \in 1 .. published[run[w].id[2]]
         /\ run[w].seen.text \in 0 .. published[run[w].id[2]]
         /\ doc[run[w].id[2]].status # "absent"
<1>1. run[w] \in Run
  BY DEF DocumentsInv, TypeOK
<1>2. run[w].id[2] \in Doc /\ run[w].seen.hash \in Nat /\ run[w].seen.text \in Nat
  BY <1>1, RunTypes, VersionsAreNumbers
<1>3. published[run[w].id[2]] \in Nat
  BY <1>2, VersionsAreNumbers DEF DocumentsInv, TypeOK
<1>. QED  BY <1>1, <1>2, RunTypes DEF DocumentsInv, Genuine, AboutStored

LEMMA MovedOn ==
  ASSUME DocumentsInv, NEW w \in Worker, run[w] # Idle, NEW at \in {"loaded", "derived", "committed"}
  PROVE  /\ [run[w] EXCEPT !.at = at] \in Run /\ [run[w] EXCEPT !.at = at] # Idle
         /\ [run[w] EXCEPT !.at = at].id = run[w].id /\ [run[w] EXCEPT !.at = at].seen = run[w].seen
         /\ RunRight([run[w] EXCEPT !.at = at])
<1>1. run[w] \in [at : {"loaded", "derived", "committed"}, id : JobId, seen : Row]
  BY AtWork DEF Run
<1>. DEFINE r == [run[w] EXCEPT !.at = at]
<1>2. r \in Run /\ r.at = at /\ r.id = run[w].id /\ r.seen = run[w].seen
  BY <1>1 DEF Run
<1>3. r # Idle
  BY <1>2, NotIdle
<1>. HIDE DEF r
<1>4. RunRight(r)
  BY <1>2, AtWork DEF RunRight
<1>. QED  BY <1>2, <1>3, <1>4 DEF r

LEMMA StartKeeps ==
  ASSUME DocumentsInv, NEW w \in Worker, NEW k \in JobId, Start(w, k)
  PROVE  DocumentsInv'
<1>1. k[2] \in Doc /\ doc[k[2]] \in Row /\ doc[k[2]].status # "absent"
  BY VersionsAreNumbers DEF Start, DocumentsInv, TypeOK, AboutStored
<1>2. /\ doc[k[2]].hash \in Nat /\ doc[k[2]].text \in Nat /\ published[k[2]] \in Nat
      /\ doc[k[2]].hash >= 1 /\ doc[k[2]].hash <= published[k[2]] /\ doc[k[2]].text <= published[k[2]]
  BY <1>1, VersionsAreNumbers DEF DocumentsInv, TypeOK, Genuine, AboutStored, Row
<1>. DEFINE r == [at |-> "loaded", id |-> k, seen |-> doc[k[2]]]
            j == [state |-> "running", tries |-> job[k].tries + 1]
<1>3. r \in Run /\ r.id = k /\ r.seen = doc[k[2]]
  BY <1>1 DEF Run
<1>4. RunRight(r)
  BY <1>1, <1>2, <1>3 DEF RunRight
<1>5. job \in [JobId -> [state : JobState, tries : 0 .. MaxTries]]
  BY DEF DocumentsInv, TypeOK
<1>6. job[k].tries + 1 \in 0 .. MaxTries
  BY <1>5, DocumentsAssumption DEF Start
<1>7. j \in [state : JobState, tries : 0 .. MaxTries]
  BY <1>6 DEF JobState
<1>8. job' = [job EXCEPT ![k] = j] /\ run' = [run EXCEPT ![w] = r]
  BY DEF Start
<1>9. JobsRight
  BY <1>1, <1>5, <1>7, <1>8 DEF JobsRight
<1>10. linkJob' \in [Doc -> BOOLEAN] /\ faults' \in 0 .. MaxFaults /\ UNCHANGED <<rows, ingest>>
  BY DEF Start, DocumentsInv, TypeOK
<1>. QED  BY <1>3, <1>4, <1>8, <1>9, <1>10, WorkerAlone

LEMMA LeaveRight == RunRight(Idle) /\ Idle \in Run
BY NotIdle DEF RunRight

LEMMA LeavingKeeps ==
  ASSUME DocumentsInv, NEW w \in Worker, JobsRight, Leave(w), linkJob' \in [Doc -> BOOLEAN],
         faults' \in 0 .. MaxFaults, UNCHANGED <<rows, ingest>>
  PROVE  DocumentsInv'
BY LeaveRight, WorkerAlone DEF Leave

LEMMA ParseFailsKeeps ==
  ASSUME DocumentsInv, NEW w \in Worker, ParseFails(w)
  PROVE  DocumentsInv'
<1>1. run[w] # Idle /\ Ended(run[w].id) /\ Leave(w)
  BY NotIdle DEF ParseFails
<1>2. linkJob' \in [Doc -> BOOLEAN] /\ faults' \in 0 .. MaxFaults /\ UNCHANGED <<rows, ingest>>
  BY DEF ParseFails, DocumentsInv, TypeOK
<1>. QED  BY <1>1, <1>2, AtWork, EndedRight, LeavingKeeps

LEMMA DeriveKeeps ==
  ASSUME DocumentsInv, NEW w \in Worker, Derive(w)
  PROVE  DocumentsInv'
<1>1. run[w] # Idle
  BY NotIdle DEF Derive
<1>2. /\ run \in [Worker -> Run] /\ linkJob' \in [Doc -> BOOLEAN] /\ faults' \in 0 .. MaxFaults
      /\ UNCHANGED <<rows, ingest, job>>
  BY DEF Derive, DocumentsInv, TypeOK
<1>3. run' = [run EXCEPT ![w] = [run[w] EXCEPT !.at = "derived"]]
  BY <1>2 DEF Derive
<1>. QED  BY <1>1, <1>2, <1>3, MovedOn, JobsAlone, WorkerAlone

LEMMA UnavailableKeeps ==
  ASSUME DocumentsInv, NEW w \in Worker, Unavailable(w)
  PROVE  DocumentsInv'
<1>1. run[w] # Idle /\ Leave(w)
  BY NotIdle DEF Unavailable
<1>2. linkJob' \in [Doc -> BOOLEAN] /\ faults' \in 0 .. MaxFaults /\ UNCHANGED <<rows, ingest>>
  BY DEF Unavailable, DocumentsInv, TypeOK
<1>3. "queued" \in JobState /\ job' = [job EXCEPT ![run[w].id].state = "queued"]
  BY DEF Unavailable, JobState
<1>. QED  BY <1>1, <1>2, <1>3, AtWork, StateRight, LeavingKeeps

LEMMA FailsKeeps ==
  ASSUME DocumentsInv, NEW w \in Worker, Fails(w)
  PROVE  DocumentsInv'
<1>1. run[w] # Idle /\ Ended(run[w].id) /\ Leave(w)
  BY NotIdle DEF Fails
<1>2. faults' \in 0 .. MaxFaults
  BY MoreFaults DEF Fails
<1>3. linkJob' \in [Doc -> BOOLEAN] /\ UNCHANGED <<rows, ingest>>
  BY DEF Fails, DocumentsInv, TypeOK
<1>. QED  BY <1>1, <1>2, <1>3, AtWork, EndedRight, LeavingKeeps

LEMMA CrashKeeps ==
  ASSUME DocumentsInv, NEW w \in Worker, Crash(w)
  PROVE  DocumentsInv'
<1>1. run[w] # Idle /\ Leave(w)
  BY DEF Crash
<1>2. faults' \in 0 .. MaxFaults
  BY MoreFaults DEF Crash
<1>3. linkJob' \in [Doc -> BOOLEAN] /\ UNCHANGED <<rows, ingest>>
  BY DEF Crash, DocumentsInv, TypeOK
<1>4. PICK s \in JobState : /\ job' = [job EXCEPT ![run[w].id].state = s]
                            /\ job[run[w].id].state # "none" \/ s = "none"
  <2>1. job[run[w].id].state \in JobState /\ "queued" \in JobState
    BY <1>1, AtWork DEF DocumentsInv, TypeOK, JobState
  <2>2. CASE job[run[w].id].state = "running"
    <3>1. job' = [job EXCEPT ![run[w].id].state = "queued"]
      BY <2>2 DEF Crash
    <3>. QED  BY <2>1, <2>2, <3>1
  <2>3. CASE job[run[w].id].state # "running"
    <3>1. job' = [job EXCEPT ![run[w].id].state = job[run[w].id].state]
      BY <2>3 DEF Crash
    <3>. QED  BY <2>1, <3>1
  <2>. QED  BY <2>2, <2>3
<1>. QED  BY <1>1, <1>2, <1>3, <1>4, AtWork, StateRight, LeavingKeeps

LEMMA EnqueueLinkKeeps ==
  ASSUME DocumentsInv, NEW w \in Worker, EnqueueLink(w)
  PROVE  DocumentsInv'
<1>1. run[w] # Idle /\ Ended(run[w].id) /\ Leave(w)
  BY NotIdle DEF EnqueueLink
<1>2. faults' \in 0 .. MaxFaults /\ UNCHANGED <<rows, ingest>>
  BY DEF EnqueueLink, DocumentsInv, TypeOK
<1>3. linkJob' \in [Doc -> BOOLEAN]
  <2>1. PICK b \in BOOLEAN : b = (linkJob[run[w].id[2]] \/ signals[run[w].id[2]].by = w)
    BY Zenon
  <2>2. linkJob' = [linkJob EXCEPT ![run[w].id[2]] = b]
    BY <2>1, Zenon DEF EnqueueLink
  <2>3. linkJob \in [Doc -> BOOLEAN]
    BY DEF DocumentsInv, TypeOK
  <2>. QED  BY <2>2, <2>3, Zenon
<1>. QED  BY <1>1, <1>2, <1>3, AtWork, EndedRight, LeavingKeeps

\* What a job writes is of a content that was published and is stored.
LEMMA CommitKeeps ==
  ASSUME DocumentsInv, NEW w \in Worker, Commit(w)
  PROVE  DocumentsInv'
<1>. DEFINE d == run[w].id[2]
            seen == run[w].seen
            new == Processed(seen, doc[d])
            s == [version |-> Derived(seen), by |-> w, linked |-> FALSE]
            r == [run[w] EXCEPT !.at = "committed"]
<1>1. run[w] # Idle /\ d \in Doc /\ doc[d].status # "absent"
  BY NotIdle, AtWork DEF Commit
<1>2. /\ doc \in [Doc -> Row] /\ run \in [Worker -> Run] /\ signals \in [Doc -> SignalSet]
      /\ published[d] \in Nat
  BY <1>1, VersionsAreNumbers DEF DocumentsInv, TypeOK, SignalSet
<1>3. /\ seen.hash \in Version /\ seen.text \in Version /\ seen.status \in Status
      /\ seen.hash \in 1 .. published[d] /\ seen.text \in 0 .. published[d]
  BY <1>1, <1>2, RunTypes, AtWork
<1>4. Derived(seen) \in Version /\ Derived(seen) \in 1 .. published[d]
  BY <1>2, <1>3 DEF Derived
<1>5. s \in SignalSet /\ s.version = Derived(seen)
  BY <1>4 DEF SignalSet
<1>6. /\ doc[d] \in Row /\ doc[d].hash \in Version /\ doc[d].text \in Version
      /\ doc[d].status \in Status /\ doc[d].text <= published[d]
      /\ doc[d].hash <= published[d] /\ doc[d].hash >= 1
  BY <1>1, <1>2 DEF DocumentsInv, Genuine, AboutStored, Row
<1>7. /\ new \in Row /\ new.hash = doc[d].hash /\ new.status \in {doc[d].status, "parsed"}
      /\ new.text \in {doc[d].text, seen.hash}
  BY <1>3, <1>6 DEF Processed, Row, Status
<1>8. /\ doc' = [doc EXCEPT ![d] = new] /\ signals' = [signals EXCEPT ![d] = s]
      /\ linkJob' = [linkJob EXCEPT ![d] = FALSE] /\ run' = [run EXCEPT ![w] = r]
      /\ UNCHANGED <<published, job, ingest, faults>>
  BY <1>2 DEF Commit
<1>9. r \in Run /\ r # Idle /\ r.id = run[w].id /\ r.seen = seen
  BY <1>1, MovedOn
<1>. HIDE DEF new, s, r
<1>10. /\ doc'[d] = new /\ signals'[d] = s
       /\ \A e \in Doc \ {d} : doc'[e] = doc[e] /\ signals'[e] = signals[e]
       /\ run'[w] = r /\ \A v \in Worker \ {w} : run'[v] = run[v]
  BY <1>1, <1>2, <1>8
<1>11. linkJob' \in [Doc -> BOOLEAN]
  BY <1>8 DEF DocumentsInv, TypeOK
<1>12. TypeOK'
  BY <1>5, <1>7, <1>8, <1>9 DEF DocumentsInv, TypeOK, SignalSet
<1>13. \A e \in Doc : doc[e].status # "absent" => doc'[e].status # "absent"
  BY <1>1, <1>7, <1>10
<1>14. \A v \in Worker : run'[v] # Idle =>
         /\ run[v] # Idle /\ run'[v].id = run[v].id /\ run'[v].seen = run[v].seen
  BY <1>1, <1>9, <1>10
<1>15. Genuine'
  <2>1. \A e \in Doc : /\ doc'[e].hash <= published[e] /\ doc'[e].text <= published[e]
                       /\ signals'[e].version <= published[e] /\ ingest[e].version <= published[e]
    <3>1. new.text <= published[d] /\ s.version <= published[d]
      BY <1>2, <1>3, <1>4, <1>5, <1>6, <1>7
    <3>. QED  BY <1>6, <1>7, <1>10, <3>1 DEF DocumentsInv, Genuine
  <2>. QED  BY <1>8, <1>14, <2>1 DEF DocumentsInv, Genuine
<1>16. AboutStored'
  <2>1. \A e \in Doc : /\ doc'[e].status # "absent" => doc'[e].hash >= 1
                       /\ doc'[e].status = "parsed" => signals'[e].version >= 1
                       /\ ingest[e].at # "idle" => ingest[e].version >= 1
                       /\ ingest[e].at = "committed" => doc'[e].status # "absent"
    <3>1. new.hash >= 1 /\ s.version >= 1
      BY <1>2, <1>4, <1>5, <1>6, <1>7
    <3>. QED  BY <1>10, <1>13, <3>1 DEF DocumentsInv, AboutStored
  <2>2. \A k \in JobId : job[k].state # "none" => doc'[k[2]].status # "absent"
    BY <1>13, VersionsAreNumbers DEF DocumentsInv, AboutStored
  <2>3. \A v \in Worker : run'[v] # Idle => /\ run'[v].seen.hash >= 1
                                            /\ doc'[run'[v].id[2]].status # "absent"
    BY <1>13, <1>14, AtWork DEF DocumentsInv, AboutStored
  <2>. QED  BY <1>8, <2>1, <2>2, <2>3 DEF AboutStored
<1>. QED  BY <1>12, <1>15, <1>16 DEF DocumentsInv

LEMMA LinkKeeps ==
  ASSUME DocumentsInv, NEW d \in Doc, Link(d)
  PROVE  DocumentsInv'
<1>1. /\ signals \in [Doc -> SignalSet] /\ linkJob \in [Doc -> BOOLEAN]
      /\ UNCHANGED <<published, doc, job, ingest, run, faults>>
  BY DEF Link, DocumentsInv, TypeOK, SignalSet
<1>. DEFINE s == [signals[d] EXCEPT !.linked = TRUE]
<1>2. s \in SignalSet /\ s.version = signals[d].version
  BY <1>1 DEF SignalSet
<1>3. signals' = [signals EXCEPT ![d] = s] /\ linkJob' = [linkJob EXCEPT ![d] = FALSE]
  BY <1>1 DEF Link
<1>. HIDE DEF s
<1>4. signals' \in [Doc -> SignalSet] /\ \A e \in Doc : signals'[e].version = signals[e].version
  BY <1>1, <1>2, <1>3
<1>5. linkJob' \in [Doc -> BOOLEAN]
  BY <1>1, <1>3
<1>6. TypeOK'
  BY <1>1, <1>4, <1>5 DEF DocumentsInv, TypeOK, SignalSet
<1>7. Genuine' /\ AboutStored'
  BY <1>1, <1>4 DEF DocumentsInv, Genuine, AboutStored
<1>. QED  BY <1>6, <1>7 DEF DocumentsInv

-----------------------------------------------------------------------------
LEMMA DocumentsStep == DocumentsInv /\ [Next]_vars => DocumentsInv'
<1>. SUFFICES ASSUME DocumentsInv, [Next]_vars  PROVE DocumentsInv'
  OBVIOUS
<1>1. ASSUME NEW d \in Doc, Publish(d) \/ Fetch(d) \/ IngestStep(d) \/ IngestDies(d) \/ Link(d)
      PROVE  DocumentsInv'
  <2>1. CASE IngestStep(d)
    BY <2>1, UnchangedKeeps, UpsertKeeps, CommitIngestKeeps, EnqueueProcessKeeps, Zenon
    DEF IngestStep
  <2>. QED  BY <1>1, <2>1, PublishKeeps, FetchKeeps, IngestDiesKeeps, LinkKeeps, Zenon
<1>2. ASSUME NEW w \in Worker, NEW k \in JobId, Start(w, k)  PROVE DocumentsInv'
  BY <1>2, StartKeeps
<1>3. ASSUME NEW w \in Worker, ProcessStep(w) \/ Crash(w)  PROVE DocumentsInv'
  BY <1>3, ParseFailsKeeps, DeriveKeeps, UnavailableKeeps, FailsKeeps, CommitKeeps,
     EnqueueLinkKeeps, CrashKeeps, Zenon
  DEF ProcessStep
<1>4. ASSUME NEW k \in JobId, ResultExpires(k) \/ GiveUp(k)  PROVE DocumentsInv'
  BY <1>4, ResultExpiresKeeps, GiveUpKeeps, Zenon
<1>5. CASE Sweep \/ LoseRedis
  BY <1>5, SweepKeeps, LoseRedisKeeps, Zenon
<1>6. CASE UNCHANGED vars
  BY <1>6 DEF vars, DocumentsInv, TypeOK, Genuine, AboutStored
<1>. QED  BY <1>1, <1>2, <1>3, <1>4, <1>5, <1>6, Zenon DEF Next

\* The versions of rows, signals and runs are the provider's, and jobs are about
\* stored documents (worker/tasks.py, pipeline/process.py).
THEOREM DocumentsInvariant == Spec => []DocumentsInv
BY DocumentsInitRight, DocumentsStep, PTL DEF Spec

\* The variables of Documents keep their types.
THEOREM DocumentsTypeCorrect == Spec => []TypeOK
<1>1. DocumentsInv => TypeOK
  BY DEF DocumentsInv
<1>. QED  BY <1>1, DocumentsInvariant, PTL

\* The signals of a parsed document are of a content that the provider has
\* published, of the stored one as long as there has been no other.
OnePublished ==
  \A d \in Doc : doc[d].status = "parsed" =>
    /\ signals[d].version \in 1 .. published[d]
    /\ published[d] = 1 => signals[d].version = doc[d].hash

LEMMA OneIsCurrent == DocumentsInv => OnePublished
<1>. SUFFICES ASSUME DocumentsInv, NEW d \in Doc, doc[d].status = "parsed"
              PROVE  /\ signals[d].version \in 1 .. published[d]
                     /\ published[d] = 1 => signals[d].version = doc[d].hash
  BY DEF OnePublished
<1>1. signals[d].version \in Nat /\ doc[d].hash \in Nat /\ published[d] \in Nat
  BY VersionsAreNumbers DEF DocumentsInv, TypeOK, Row
<1>2. /\ signals[d].version >= 1 /\ signals[d].version <= published[d]
      /\ doc[d].hash >= 1 /\ doc[d].hash <= published[d]
  BY DEF DocumentsInv, Genuine, AboutStored
<1>. QED  BY <1>1, <1>2

\* So they are, whatever is published, crashes, is swept or is tried again.
THEOREM SignalsArePublished == Spec => []OnePublished
BY OneIsCurrent, DocumentsInvariant, PTL

-----------------------------------------------------------------------------
(* The messages. *)

\* Only a run that is under way holds rows, and only pending ones; it has not
\* touched those it has still to do, and nobody touches a row that is free.
Drafted ==
  /\ \A n \in Note : holder[n] = Unheld => draft[n] = row[n]
  /\ \A n \in Note : holder[n] # Unheld => row[n].status = "pending" /\ round[holder[n]].active
  /\ \A r \in Round : \A n \in round[r].todo : holder[n] = r /\ draft[n] = row[n]

\* What is to be sent may be tried once more.
Open(stored) == stored.status \in {"none", "pending"}
AttemptLeft ==
  \A n \in Note : /\ Open(row[n]) => row[n].attempts < MaxAttempts
                  /\ Open(draft[n]) => draft[n].attempts < MaxAttempts

\* A message that is out and not noted as sent is a mishap's.
Once(stored) == IF stored.status = "sent" THEN 1 ELSE 0
Counted == \A n \in Note : delivered[n] <= mishaps + Once(draft[n])

\* What is noted as sent is out.
Arrived ==
  \A n \in Note : row[n].status = "sent" \/ draft[n].status = "sent" => delivered[n] >= 1

DeliveryInv == DeliveryTypeOK /\ Drafted /\ AttemptLeft /\ Counted /\ Arrived

-----------------------------------------------------------------------------
LEMMA StoredTypes ==
  ASSUME NEW s \in StoredNote
  PROVE  s.status \in NoteStatus /\ s.attempts \in 0 .. MaxAttempts /\ s.when \in When
BY DEF StoredNote

LEMMA DeliveryInitRight == DeliveryInit => DeliveryInv
<1>. SUFFICES ASSUME DeliveryInit  PROVE DeliveryInv
  OBVIOUS
<1>. DEFINE new == [status |-> "none", attempts |-> 0, when |-> "now"]
<1>1. /\ row = [n \in Note |-> new] /\ draft = row /\ holder = [n \in Note |-> Unheld]
      /\ ahead = [n \in Note |-> {}] /\ enabled = Channel /\ round = [r \in Round |-> NoRun]
      /\ quiet = FALSE /\ delivered = [n \in Note |-> 0] /\ mishaps = 0
  BY DEF DeliveryInit
<1>2. 0 \in 0 .. MaxAttempts /\ 0 \in 0 .. MaxMishaps /\ 0 < MaxAttempts
  BY DeliveryAssumption
<1>3. new \in StoredNote /\ new.status = "none" /\ new.attempts = 0
  BY <1>2 DEF StoredNote, NoteStatus, When
<1>4. NoRun \in RunState /\ NoRun.todo = {}
  BY DEF NoRun, RunState, Known
<1>. HIDE DEF new
<1>5. DeliveryTypeOK
  BY <1>1, <1>2, <1>3, <1>4 DEF DeliveryTypeOK
<1>6. Drafted
  BY <1>1, <1>4 DEF Drafted
<1>7. AttemptLeft /\ Arrived
  BY <1>1, <1>2, <1>3 DEF AttemptLeft, Arrived
<1>8. Counted
  <2>1. \A n \in Note : delivered[n] = 0 /\ draft[n].status = "none" /\ mishaps = 0
    BY <1>1, <1>3
  <2>. QED  BY <2>1 DEF Counted, Once
<1>. QED  BY <1>5, <1>6, <1>7, <1>8 DEF DeliveryInv

-----------------------------------------------------------------------------
(* New notes, and time. *)

\* A free row is written by one who holds no lock: it stays free, open, and has
\* an attempt left.
LEMMA FreeRowKeeps ==
  ASSUME DeliveryInv, NEW n \in Note, NEW new \in StoredNote, holder[n] = Unheld,
         Open(row[n]), Open(new), new.attempts = row[n].attempts,
         row' = [row EXCEPT ![n] = new], draft' = [draft EXCEPT ![n] = new],
         ahead' \in [Note -> SUBSET Note], enabled' \subseteq Channel,
         UNCHANGED <<holder, round, quiet, delivered, mishaps>>
  PROVE  DeliveryInv'
<1>1. DeliveryTypeOK /\ row \in [Note -> StoredNote] /\ draft \in [Note -> StoredNote]
  BY DEF DeliveryInv, DeliveryTypeOK
<1>2. /\ row'[n] = new /\ draft'[n] = new
      /\ \A m \in Note \ {n} : row'[m] = row[m] /\ draft'[m] = draft[m]
  BY <1>1
<1>3. DeliveryTypeOK'
  BY <1>1 DEF DeliveryTypeOK
<1>4. Drafted'
  <2>1. \A r \in Round : n \notin round[r].todo
    <3>1. Unheld \notin Round
      BY DeliveryAssumption
    <3>. QED  BY <3>1 DEF DeliveryInv, Drafted
  <2>2. \A r \in Round : round[r].todo \subseteq Note
    BY <1>1 DEF DeliveryTypeOK, RunState
  <2>. QED  BY <1>2, <2>1, <2>2 DEF DeliveryInv, Drafted
<1>5. AttemptLeft'
  BY <1>2 DEF DeliveryInv, AttemptLeft
<1>6. Counted'
  <2>1. draft[n].status # "sent" /\ new.status # "sent"
    BY DEF DeliveryInv, Drafted, Open
  <2>2. \A m \in Note : Once(draft'[m]) = Once(draft[m])
    BY <1>2, <2>1 DEF Once
  <2>. QED  BY <2>2 DEF DeliveryInv, Counted, Once
<1>7. Arrived'
  BY <1>2 DEF DeliveryInv, Arrived, Open
<1>. QED  BY <1>3, <1>4, <1>5, <1>6, <1>7 DEF DeliveryInv

LEMMA PendKeeps ==
  ASSUME DeliveryInv, NEW n \in Note, Pend(n), enabled' \subseteq Channel,
         UNCHANGED <<holder, round, quiet, delivered, mishaps>>
  PROVE  DeliveryInv'
<1>1. row[n] \in StoredNote /\ ahead \in [Note -> SUBSET Note] /\ row[n].status = "none"
  BY DEF DeliveryInv, DeliveryTypeOK, Pend
<1>2. holder[n] = Unheld /\ draft[n] = row[n]
  BY <1>1 DEF DeliveryInv, Drafted
<1>. DEFINE new == [row[n] EXCEPT !.status = "pending"]
<1>3. new \in StoredNote /\ new.status = "pending" /\ new.attempts = row[n].attempts
  BY <1>1 DEF StoredNote, NoteStatus
<1>4. row' = [row EXCEPT ![n] = new] /\ draft' = [draft EXCEPT ![n] = new]
  BY <1>2 DEF Pend
<1>5. ahead' \in [Note -> SUBSET Note]
  BY <1>1 DEF Pend, LineUp
<1>. HIDE DEF new
<1>. QED  BY <1>1, <1>2, <1>3, <1>4, <1>5, FreeRowKeeps DEF Open

LEMMA NewNoteKeeps ==
  ASSUME DeliveryInv, NEW n \in Note, Enqueue(n) \/ TestChannel(n)  PROVE DeliveryInv'
<1>1. n[1] \in Channel /\ enabled \subseteq Channel
  BY DEF Note, DeliveryInv, DeliveryTypeOK
<1>2. /\ Pend(n) /\ enabled' \subseteq Channel
      /\ UNCHANGED <<holder, round, quiet, delivered, mishaps>>
  BY <1>1 DEF Enqueue, TestChannel
<1>. QED  BY <1>2, PendKeeps

LEMMA DueKeeps ==
  ASSUME DeliveryInv, NEW n \in Note, BecomesDue(n)  PROVE DeliveryInv'
<1>1. /\ row[n] \in StoredNote /\ ahead \in [Note -> SUBSET Note] /\ enabled \subseteq Channel
      /\ row[n].status = "pending" /\ holder[n] = Unheld
  BY DEF DeliveryInv, DeliveryTypeOK, BecomesDue
<1>2. draft[n] = row[n]
  BY <1>1 DEF DeliveryInv, Drafted
<1>. DEFINE new == [row[n] EXCEPT !.when = "now"]
<1>3. new \in StoredNote /\ new.status = "pending" /\ new.attempts = row[n].attempts
  BY <1>1 DEF StoredNote, When
<1>4. row' = [row EXCEPT ![n] = new] /\ draft' = [draft EXCEPT ![n] = new]
  BY <1>2 DEF BecomesDue
<1>5. /\ ahead' \in [Note -> SUBSET Note] /\ enabled' \subseteq Channel
      /\ UNCHANGED <<holder, round, quiet, delivered, mishaps>>
  BY <1>1 DEF BecomesDue, LineUp
<1>. HIDE DEF new
<1>. QED  BY <1>1, <1>3, <1>4, <1>5, FreeRowKeeps DEF Open

LEMMA TimeKeeps == ASSUME DeliveryInv, Evening \/ Morning  PROVE DeliveryInv'
<1>1. UNCHANGED <<row, draft, holder, ahead, enabled, round, delivered, mishaps>> /\ quiet' \in BOOLEAN
  BY DEF Evening, Morning
<1>. QED  BY <1>1 DEF DeliveryInv, DeliveryTypeOK, Drafted, AttemptLeft, Counted, Arrived

LEMMA DeliveryStutter == DeliveryInv /\ UNCHANGED deliveryVars => DeliveryInv'
<1>. SUFFICES ASSUME DeliveryInv, UNCHANGED deliveryVars  PROVE DeliveryInv'
  OBVIOUS
<1>1. UNCHANGED <<row, draft, holder, ahead, enabled, round, quiet, delivered, mishaps>>
  BY DEF deliveryVars
<1>. QED  BY <1>1 DEF DeliveryInv, DeliveryTypeOK, Drafted, AttemptLeft, Counted, Arrived

-----------------------------------------------------------------------------
(* A run. *)

\* The batch of a run is due and free.
LEMMA BatchRight ==
  Batch \subseteq Note /\ \A n \in Batch : row[n].status = "pending" /\ holder[n] = Unheld
BY DEF Batch, Waiting, Due, Free

LEMMA DeliveryStartKeeps ==
  ASSUME DeliveryInv, NEW r \in Round, StartRound(r)  PROVE DeliveryInv'
<1>1. /\ DeliveryTypeOK /\ holder \in [Note -> Round \cup {Unheld}]
      /\ round \in [Round -> RunState] /\ quiet \in BOOLEAN
  BY DEF DeliveryInv, DeliveryTypeOK
<1>. DEFINE begun == [NoRun EXCEPT !.todo = Batch, !.active = TRUE, !.night = quiet]
<1>2. /\ holder' = [n \in Note |-> IF n \in Batch THEN r ELSE holder[n]]
      /\ round' = [round EXCEPT ![r] = begun] /\ ~round[r].active
      /\ UNCHANGED <<row, draft, ahead, enabled, quiet, delivered, mishaps>>
  BY DEF StartRound
<1>3. begun \in RunState /\ begun.todo = Batch /\ begun.active = TRUE
  <2>1. NoRun \in RunState
    BY DEF NoRun, RunState, Known
  <2>. QED  BY <1>1, <2>1, BatchRight DEF RunState
<1>. HIDE DEF begun
<1>4. round'[r] = begun /\ \A q \in Round \ {r} : round'[q] = round[q]
  BY <1>1, <1>2
<1>5. DeliveryTypeOK'
  BY <1>1, <1>2, <1>3 DEF DeliveryTypeOK
<1>6. Drafted'
  <2>1. r # Unheld
    BY DeliveryAssumption
  <2>2. \A n \in Note : /\ n \in Batch => holder'[n] = r
                        /\ n \notin Batch => holder'[n] = holder[n] /\ holder[n] # r
    BY <1>2, <2>1 DEF DeliveryInv, Drafted
  <2>3. \A n \in Note : holder'[n] = Unheld => draft[n] = row[n]
    BY <2>1, <2>2 DEF DeliveryInv, Drafted
  <2>4. \A n \in Note : holder'[n] # Unheld => row[n].status = "pending" /\ round'[holder'[n]].active
    <3>. SUFFICES ASSUME NEW n \in Note, holder'[n] # Unheld
                  PROVE  row[n].status = "pending" /\ round'[holder'[n]].active
      OBVIOUS
    <3>1. CASE n \in Batch
      BY <3>1, <2>2, <1>3, <1>4, BatchRight
    <3>2. CASE n \notin Batch
      BY <3>2, <1>1, <2>2, <1>4 DEF DeliveryInv, Drafted
    <3>. QED  BY <3>1, <3>2
  <2>5. \A q \in Round : \A n \in round'[q].todo : holder'[n] = q /\ draft[n] = row[n]
    <3>. SUFFICES ASSUME NEW q \in Round, NEW n \in round'[q].todo
                  PROVE  holder'[n] = q /\ draft[n] = row[n]
      OBVIOUS
    <3>1. CASE q = r
      <4>1. n \in Batch
        BY <3>1, <1>3, <1>4
      <4>. QED  BY <3>1, <4>1, <2>2, BatchRight DEF DeliveryInv, Drafted
    <3>2. CASE q # r
      <4>1. n \in round[q].todo /\ n \in Note
        BY <3>2, <1>1, <1>4 DEF RunState
      <4>2. holder[n] = q /\ draft[n] = row[n]
        BY <4>1 DEF DeliveryInv, Drafted
      <4>3. n \notin Batch
        BY <4>2, BatchRight, DeliveryAssumption
      <4>. QED  BY <4>1, <4>2, <4>3, <2>2
    <3>. QED  BY <3>1, <3>2
  <2>. QED  BY <1>2, <2>3, <2>4, <2>5 DEF Drafted
<1>7. AttemptLeft' /\ Counted' /\ Arrived'
  BY <1>2 DEF DeliveryInv, AttemptLeft, Counted, Arrived
<1>. QED  BY <1>5, <1>6, <1>7 DEF DeliveryInv

\* The note that a begun has come to is pending, and nothing of it is out but by a
\* mishap.
LEMMA AtRight ==
  ASSUME DeliveryInv, NEW r \in Round, NEW n \in Note, At(r, n)
  PROVE  /\ holder[n] = r /\ draft[n] = row[n] /\ row[n].status = "pending"
         /\ draft[n].attempts \in 0 .. MaxAttempts /\ draft[n].attempts < MaxAttempts
         /\ delivered[n] \in Nat /\ delivered[n] <= mishaps
<1>1. n \in round[r].todo /\ DeliveryTypeOK
  BY DEF At, DeliveryInv
<1>2. holder[n] = r /\ draft[n] = row[n]
  BY <1>1 DEF DeliveryInv, Drafted
<1>3. row[n].status = "pending"
  BY <1>2, DeliveryAssumption DEF DeliveryInv, Drafted
<1>4. draft[n].attempts \in 0 .. MaxAttempts /\ delivered[n] \in Nat /\ mishaps \in Nat
  BY <1>1, StoredTypes DEF DeliveryTypeOK
<1>5. draft[n].attempts < MaxAttempts
  BY <1>2, <1>3 DEF DeliveryInv, AttemptLeft, Open
<1>6. delivered[n] <= mishaps + 0
  BY <1>2, <1>3 DEF DeliveryInv, Counted, Once
<1>. QED  BY <1>2, <1>3, <1>4, <1>5, <1>6

\* A run is done with a note.
LEMMA DoneKeeps ==
  ASSUME DeliveryInv, NEW r \in Round, NEW n \in Note, At(r, n),
         NEW status \in {"pending", "sent", "failed", "skipped"},
         NEW attempts \in 0 .. MaxAttempts, NEW when \in When, NEW sees \in Known,
         status = "pending" => attempts < MaxAttempts,
         Done(r, n, status, attempts, when, sees),
         mishaps' \in 0 .. MaxMishaps, mishaps <= mishaps',
         delivered' \in [Note -> Nat], \A m \in Note \ {n} : delivered'[m] = delivered[m],
         delivered'[n] <= mishaps' + (IF status = "sent" THEN 1 ELSE 0),
         status = "sent" => delivered'[n] >= 1
  PROVE  DeliveryInv'
<1>1. /\ DeliveryTypeOK /\ draft \in [Note -> StoredNote] /\ round \in [Round -> RunState]
      /\ mishaps \in Nat /\ delivered \in [Note -> Nat]
  BY DEF DeliveryInv, DeliveryTypeOK
<1>. DEFINE new == [status |-> status, attempts |-> attempts, when |-> when]
            ran == [round[r] EXCEPT !.todo = @ \ {n}, !.knows[n[1]] = sees]
<1>2. /\ draft' = [draft EXCEPT ![n] = new] /\ round' = [round EXCEPT ![r] = ran]
      /\ UNCHANGED <<row, holder, ahead, enabled, quiet>>
  BY <1>1 DEF Done
<1>3. new \in StoredNote /\ new.status = status /\ new.attempts = attempts
  BY DEF StoredNote, NoteStatus
<1>4. ran \in RunState /\ ran.todo = round[r].todo \ {n} /\ ran.active = round[r].active
  <2>1. round[r] \in RunState /\ n[1] \in Channel
    BY <1>1 DEF Note
  <2>. QED  BY <2>1 DEF RunState
<1>. HIDE DEF new, ran
<1>5. /\ draft'[n] = new /\ \A m \in Note \ {n} : draft'[m] = draft[m]
      /\ round'[r] = ran /\ \A q \in Round \ {r} : round'[q] = round[q]
  BY <1>1, <1>2
<1>6. holder[n] = r /\ draft[n] = row[n] /\ row[n].status = "pending" /\ r # Unheld
  BY AtRight, DeliveryAssumption
<1>7. DeliveryTypeOK'
  BY <1>1, <1>2, <1>3, <1>4 DEF DeliveryTypeOK
<1>8. Drafted'
  <2>1. \A m \in Note : holder[m] = Unheld => draft'[m] = row[m]
    BY <1>5, <1>6 DEF DeliveryInv, Drafted
  <2>2. \A m \in Note : holder[m] # Unheld => row[m].status = "pending" /\ round'[holder[m]].active
    BY <1>1, <1>4, <1>5 DEF DeliveryInv, Drafted, DeliveryTypeOK
  <2>3. \A q \in Round : \A m \in round'[q].todo : holder[m] = q /\ draft'[m] = row[m]
    <3>. SUFFICES ASSUME NEW q \in Round, NEW m \in round'[q].todo
                  PROVE  holder[m] = q /\ draft'[m] = row[m]
      OBVIOUS
    <3>1. m \in round[q].todo /\ (q = r => m # n)
      BY <1>4, <1>5
    <3>2. holder[m] = q /\ draft[m] = row[m] /\ m \in Note
      BY <1>1, <3>1 DEF DeliveryInv, Drafted, RunState
    <3>3. m # n
      BY <1>6, <3>1, <3>2
    <3>. QED  BY <1>5, <3>2, <3>3
  <2>. QED  BY <1>2, <2>1, <2>2, <2>3 DEF Drafted
<1>9. AttemptLeft'
  BY <1>2, <1>3, <1>5 DEF DeliveryInv, AttemptLeft, Open
<1>10. Counted'
  <2>. SUFFICES ASSUME NEW m \in Note  PROVE delivered'[m] <= mishaps' + Once(draft'[m])
    BY DEF Counted, Once
  <2>1. CASE m = n
    BY <2>1, <1>3, <1>5 DEF Once
  <2>2. CASE m # n
    <3>1. delivered'[m] = delivered[m] /\ draft'[m] = draft[m] /\ delivered[m] <= mishaps + Once(draft[m])
      BY <2>2, <1>5 DEF DeliveryInv, Counted
    <3>2. Once(draft[m]) \in Nat /\ delivered[m] \in Nat
      BY <1>1 DEF Once
    <3>. QED  BY <3>1, <3>2, <1>1
  <2>. QED  BY <2>1, <2>2
<1>11. Arrived'
  BY <1>2, <1>3, <1>5, <1>6 DEF DeliveryInv, Arrived
<1>. QED  BY <1>7, <1>8, <1>9, <1>10, <1>11 DEF DeliveryInv

\* Nothing is sent: skipped, deferred, refused, or the service is down.
LEMMA UnsentKeeps ==
  ASSUME DeliveryInv, NEW r \in Round, NEW n \in Note, At(r, n),
         NEW status \in {"pending", "failed", "skipped"},
         NEW attempts \in 0 .. MaxAttempts, NEW when \in When, NEW sees \in Known,
         status = "pending" => attempts < MaxAttempts,
         Done(r, n, status, attempts, when, sees), UNCHANGED <<delivered, mishaps>>
  PROVE  DeliveryInv'
<1>1. mishaps \in 0 .. MaxMishaps /\ delivered \in [Note -> Nat]
  BY DEF DeliveryInv, DeliveryTypeOK
<1>2. delivered[n] \in Nat /\ delivered[n] <= mishaps
  BY AtRight
<1>3. mishaps' = mishaps /\ delivered' = delivered
  OBVIOUS
<1>4. /\ mishaps' \in 0 .. MaxMishaps /\ mishaps <= mishaps' /\ delivered' \in [Note -> Nat]
      /\ \A m \in Note \ {n} : delivered'[m] = delivered[m]
      /\ delivered'[n] <= mishaps' + (IF status = "sent" THEN 1 ELSE 0)
      /\ status # "sent"
  BY <1>1, <1>2, <1>3
<1>. QED  BY <1>4, DoneKeeps

\* The state that a run knows a channel in.
LEMMA SeesKnown ==
  ASSUME DeliveryTypeOK, NEW r \in Round, NEW c \in Channel  PROVE Sees(r, c) \in Known
<1>1. round[r].knows[c] \in Known
  BY DEF DeliveryTypeOK, RunState
<1>. QED  BY <1>1 DEF Sees, Known

\* One more attempt, and the verdict on it.
LEMMA RetryDone ==
  ASSUME NEW r \in Round, NEW n \in Note, Retry(r, n),
         draft[n].attempts \in 0 .. MaxAttempts, draft[n].attempts < MaxAttempts
  PROVE  \E status \in {"pending", "failed"}, when \in When :
           /\ Done(r, n, status, draft[n].attempts + 1, when, "on")
           /\ draft[n].attempts + 1 \in 0 .. MaxAttempts
           /\ status = "pending" => draft[n].attempts + 1 < MaxAttempts
<1>. DEFINE a == draft[n].attempts + 1
<1>1. a \in 0 .. MaxAttempts /\ MaxAttempts \in Nat
  BY DeliveryAssumption
<1>2. \/ a >= MaxAttempts /\ Done(r, n, "failed", a, "now", "on")
      \/ ~(a >= MaxAttempts) /\ Done(r, n, "pending", a, "backoff", "on")
  BY DEF Retry
<1>3. "now" \in When /\ "backoff" \in When
  BY DEF When
<1>. HIDE DEF a
<1>4. ~(a >= MaxAttempts) => a < MaxAttempts
  BY <1>1
<1>5. CASE a >= MaxAttempts /\ Done(r, n, "failed", a, "now", "on")
  BY <1>1, <1>3, <1>5 DEF a
<1>6. CASE ~(a >= MaxAttempts) /\ Done(r, n, "pending", a, "backoff", "on")
  BY <1>1, <1>3, <1>4, <1>6 DEF a
<1>. QED  BY <1>2, <1>5, <1>6

LEMMA NoteKeeps ==
  ASSUME DeliveryInv, NEW r \in Round, NEW n \in Note,
         \/ Skip(r, n) \/ Defer(r, n) \/ Accepted(r, n)
         \/ ServiceDown(r, n) \/ AnswerLost(r, n) \/ Refused(r, n)
  PROVE  DeliveryInv'
<1>1. At(r, n)
  BY DEF Skip, Defer, Accepted, ServiceDown, AnswerLost, Refused, MaySend
<1>2. /\ draft[n].attempts \in 0 .. MaxAttempts /\ draft[n].attempts < MaxAttempts
      /\ delivered[n] \in Nat /\ delivered[n] <= mishaps
  BY <1>1, AtRight
<1>3. draft[n].attempts + 1 \in 0 .. MaxAttempts
  BY <1>2, DeliveryAssumption
<1>4. Sees(r, n[1]) \in Known /\ "on" \in Known /\ "turned off" \in Known
  BY SeesKnown DEF Note, Known, DeliveryInv
<1>5. "now" \in When /\ "morning" \in When
  BY DEF When
<1>6. /\ mishaps \in 0 .. MaxMishaps /\ delivered \in [Note -> Nat] /\ MaxMishaps \in Nat
  BY DeliveryAssumption DEF DeliveryInv, DeliveryTypeOK
<1>7. CASE Skip(r, n)
  <2>1. Done(r, n, "skipped", draft[n].attempts, "now", Sees(r, n[1])) /\ UNCHANGED <<delivered, mishaps>>
    BY <1>7 DEF Skip
  <2>. QED  BY <1>1, <1>2, <1>4, <1>5, <2>1, UnsentKeeps
<1>8. CASE Defer(r, n)
  <2>1. Done(r, n, "pending", draft[n].attempts, "morning", "on") /\ UNCHANGED <<delivered, mishaps>>
    BY <1>8 DEF Defer
  <2>. QED  BY <1>1, <1>2, <1>4, <1>5, <2>1, UnsentKeeps
<1>9. CASE Refused(r, n)
  <2>1. /\ Done(r, n, "failed", draft[n].attempts + 1, "now", "turned off")
        /\ UNCHANGED <<delivered, mishaps>>
    BY <1>9 DEF Refused
  <2>. QED  BY <1>1, <1>3, <1>4, <1>5, <2>1, UnsentKeeps
<1>10. CASE ServiceDown(r, n)
  <2>1. Retry(r, n) /\ UNCHANGED <<delivered, mishaps>>
    BY <1>10 DEF ServiceDown
  <2>2. PICK status \in {"pending", "failed"}, when \in When :
           /\ Done(r, n, status, draft[n].attempts + 1, when, "on")
           /\ status = "pending" => draft[n].attempts + 1 < MaxAttempts
    BY <1>2, <2>1, RetryDone
  <2>. QED  BY <1>1, <1>3, <1>4, <2>1, <2>2, UnsentKeeps
<1>11. CASE AnswerLost(r, n)
  <2>1. /\ Retry(r, n) /\ mishaps < MaxMishaps /\ mishaps' = mishaps + 1
        /\ delivered' = [delivered EXCEPT ![n] = @ + 1]
    BY <1>11 DEF AnswerLost
  <2>2. PICK status \in {"pending", "failed"}, when \in When :
           /\ Done(r, n, status, draft[n].attempts + 1, when, "on")
           /\ status = "pending" => draft[n].attempts + 1 < MaxAttempts
    BY <1>2, <2>1, RetryDone
  <2>3. /\ delivered' \in [Note -> Nat] /\ delivered'[n] = delivered[n] + 1
        /\ \A m \in Note \ {n} : delivered'[m] = delivered[m]
    BY <1>6, <2>1
  <2>4. mishaps' \in 0 .. MaxMishaps /\ mishaps <= mishaps'
    BY <1>6, <2>1
  <2>5. status # "sent" /\ delivered'[n] <= mishaps' + (IF status = "sent" THEN 1 ELSE 0)
    BY <1>2, <1>6, <2>1, <2>3
  <2>6. status \in {"pending", "sent", "failed", "skipped"} /\ (status = "sent" => delivered'[n] >= 1)
    BY <2>5
  <2>7. ASSUME NEW a \in 0 .. MaxAttempts, a = draft[n].attempts + 1  PROVE DeliveryInv'
    BY <1>1, <1>4, <2>2, <2>3, <2>4, <2>5, <2>6, <2>7, DoneKeeps
  <2>. QED  BY <1>3, <2>7
<1>12. CASE Accepted(r, n)
  <2>1. /\ Done(r, n, "sent", draft[n].attempts + 1, "now", "on") /\ mishaps' = mishaps
        /\ delivered' = [delivered EXCEPT ![n] = @ + 1]
    BY <1>12 DEF Accepted
  <2>2. /\ delivered' \in [Note -> Nat] /\ delivered'[n] = delivered[n] + 1
        /\ \A m \in Note \ {n} : delivered'[m] = delivered[m]
    BY <1>6, <2>1
  <2>3. mishaps' \in 0 .. MaxMishaps /\ mishaps <= mishaps'
    BY <1>6, <2>1
  <2>4. delivered'[n] <= mishaps' + 1 /\ delivered'[n] >= 1
    BY <1>2, <1>6, <2>1, <2>2
  <2>. QED  BY <1>1, <1>3, <1>4, <1>5, <2>1, <2>2, <2>3, <2>4, DoneKeeps
<1>. QED  BY <1>7, <1>8, <1>9, <1>10, <1>11, <1>12

\* A run that ends holds nothing, and leaves the others what they hold.
LEMMA EndReleases ==
  ASSUME DeliveryInv, NEW r \in Round, EndRound(r)
  PROVE  /\ holder' \in [Note -> Round \cup {Unheld}] /\ round' \in [Round -> RunState]
         /\ \A n \in Note : /\ holder[n] = r => holder'[n] = Unheld
                            /\ holder[n] # r => holder'[n] = holder[n]
         /\ round'[r].todo = {}
         /\ \A q \in Round \ {r} : round'[q] = round[q]
<1>1. holder \in [Note -> Round \cup {Unheld}] /\ round \in [Round -> RunState]
  BY DEF DeliveryInv, DeliveryTypeOK
<1>2. NoRun \in RunState /\ NoRun.todo = {}
  BY DEF NoRun, RunState, Known
<1>. QED  BY <1>1, <1>2 DEF EndRound

\* Rows of notes that nobody holds any more agree with their drafts.
LEMMA EndDrafted ==
  ASSUME DeliveryInv, NEW r \in Round, EndRound(r),
         \A n \in Held(r) : draft'[n] = row'[n],
         \A n \in Note \ Held(r) : draft'[n] = draft[n] /\ row'[n] = row[n]
  PROVE  Drafted'
<1>1. /\ \A n \in Note : /\ holder[n] = r => holder'[n] = Unheld
                         /\ holder[n] # r => holder'[n] = holder[n]
      /\ round'[r].todo = {}
      /\ \A q \in Round \ {r} : round'[q] = round[q]
  BY EndReleases
<1>2. /\ holder \in [Note -> Round \cup {Unheld}] /\ \A q \in Round : round[q].todo \subseteq Note
      /\ Unheld \notin Round
  BY DeliveryAssumption DEF DeliveryInv, DeliveryTypeOK, RunState
<1>3. \A n \in Note : holder'[n] = Unheld => draft'[n] = row'[n]
  BY <1>1, <1>2 DEF DeliveryInv, Drafted, Held
<1>4. \A n \in Note : holder'[n] # Unheld => row'[n].status = "pending" /\ round'[holder'[n]].active
  <2>. SUFFICES ASSUME NEW n \in Note, holder'[n] # Unheld
                PROVE  row'[n].status = "pending" /\ round'[holder'[n]].active
    OBVIOUS
  <2>1. holder[n] # r /\ holder'[n] = holder[n] /\ holder[n] \in Round \ {r}
    BY <1>1, <1>2
  <2>2. row'[n] = row[n]
    BY <2>1 DEF Held
  <2>. QED  BY <1>1, <2>1, <2>2 DEF DeliveryInv, Drafted
<1>5. \A q \in Round : \A n \in round'[q].todo : holder'[n] = q /\ draft'[n] = row'[n]
  <2>. SUFFICES ASSUME NEW q \in Round, NEW n \in round'[q].todo
                PROVE  holder'[n] = q /\ draft'[n] = row'[n]
    OBVIOUS
  <2>1. q # r /\ n \in round[q].todo /\ n \in Note
    BY <1>1, <1>2
  <2>2. holder[n] = q /\ draft[n] = row[n]
    BY <2>1 DEF DeliveryInv, Drafted
  <2>. QED  BY <1>1, <2>1, <2>2 DEF Held
<1>. QED  BY <1>3, <1>4, <1>5 DEF Drafted

LEMMA DeliveryCommitKeeps ==
  ASSUME DeliveryInv, NEW r \in Round, CommitRound(r)  PROVE DeliveryInv'
<1>1. /\ row \in [Note -> StoredNote] /\ draft \in [Note -> StoredNote] /\ ahead \in [Note -> SUBSET Note]
      /\ enabled \subseteq Channel /\ quiet \in BOOLEAN /\ delivered \in [Note -> Nat]
      /\ mishaps \in 0 .. MaxMishaps
  BY DEF DeliveryInv, DeliveryTypeOK
<1>2. /\ row' = Written(r) /\ EndRound(r) /\ UNCHANGED <<quiet, delivered, mishaps>>
      /\ draft' = [n \in Note |-> IF n \in Held(r) THEN row'[n] ELSE draft[n]]
      /\ ahead' \in [Note -> SUBSET Note] /\ enabled' \subseteq Channel
  BY <1>1 DEF CommitRound
<1>3. /\ row' \in [Note -> StoredNote]
      /\ \A n \in Held(r) : row'[n] = draft[n]
      /\ \A n \in Note \ Held(r) : row'[n] = row[n]
  BY <1>1, <1>2 DEF Written, Held
<1>4. draft' \in [Note -> StoredNote] /\ \A n \in Note : draft'[n] = draft[n]
  BY <1>1, <1>2, <1>3
<1>5. DeliveryTypeOK'
  BY <1>1, <1>2, <1>3, <1>4, EndReleases DEF DeliveryTypeOK
<1>6. Drafted'
  BY <1>2, <1>3, <1>4, EndDrafted DEF Held
<1>7. AttemptLeft'
  BY <1>3, <1>4 DEF DeliveryInv, AttemptLeft
<1>8. Counted'
  BY <1>2, <1>4 DEF DeliveryInv, Counted
<1>9. Arrived'
  BY <1>2, <1>3, <1>4 DEF DeliveryInv, Arrived
<1>. QED  BY <1>5, <1>6, <1>7, <1>8, <1>9 DEF DeliveryInv

\* A run that dies leaves the messages that are out; their number was the mishaps
\* so far and one.
LEMMA DiesKeeps ==
  ASSUME DeliveryInv, NEW r \in Round, Dies(r)  PROVE DeliveryInv'
<1>1. /\ row \in [Note -> StoredNote] /\ draft \in [Note -> StoredNote]
      /\ delivered \in [Note -> Nat] /\ mishaps \in 0 .. MaxMishaps /\ MaxMishaps \in Nat
  BY DeliveryAssumption DEF DeliveryInv, DeliveryTypeOK
<1>2. /\ mishaps < MaxMishaps /\ mishaps' = mishaps + 1 /\ EndRound(r)
      /\ draft' = [n \in Note |-> IF n \in Held(r) THEN row[n] ELSE draft[n]]
      /\ UNCHANGED <<row, ahead, enabled, quiet, delivered>>
  BY DEF Dies
<1>3. /\ draft' \in [Note -> StoredNote]
      /\ \A n \in Held(r) : draft'[n] = row[n]
      /\ \A n \in Note \ Held(r) : draft'[n] = draft[n]
  BY <1>1, <1>2 DEF Held
<1>4. mishaps' \in 0 .. MaxMishaps
  BY <1>1, <1>2
<1>5. DeliveryTypeOK'
  BY <1>2, <1>3, <1>4, EndReleases DEF DeliveryTypeOK, DeliveryInv
<1>6. Drafted'
  BY <1>2, <1>3, EndDrafted DEF Held
<1>7. AttemptLeft'
  BY <1>2, <1>3 DEF DeliveryInv, AttemptLeft
<1>8. Counted'
  <2>. SUFFICES ASSUME NEW n \in Note  PROVE delivered[n] <= mishaps' + Once(draft'[n])
    BY <1>2 DEF Counted, Once
  <2>1. delivered[n] <= mishaps + Once(draft[n]) /\ delivered[n] \in Nat /\ mishaps \in Nat
    BY <1>1 DEF DeliveryInv, Counted
  <2>2. Once(draft[n]) \in 0 .. 1 /\ Once(draft'[n]) \in 0 .. 1
    BY DEF Once
  <2>. QED  BY <1>2, <2>1, <2>2
<1>9. Arrived'
  BY <1>2, <1>3 DEF DeliveryInv, Arrived
<1>. QED  BY <1>5, <1>6, <1>7, <1>8, <1>9 DEF DeliveryInv

LEMMA DeliveryNextKeeps == DeliveryInv /\ [DeliveryNext]_deliveryVars => DeliveryInv'
<1>. SUFFICES ASSUME DeliveryInv, DeliveryNext  PROVE DeliveryInv'
  BY DeliveryStutter
<1>1. ASSUME NEW n \in Note, Enqueue(n) \/ TestChannel(n) \/ BecomesDue(n)  PROVE DeliveryInv'
  BY <1>1, NewNoteKeeps, DueKeeps
<1>2. ASSUME NEW r \in Round, StartRound(r) \/ Step(r) \/ Dies(r)  PROVE DeliveryInv'
  BY <1>2, DeliveryStartKeeps, NoteKeeps, DeliveryCommitKeeps, DiesKeeps DEF Step
<1>. QED  BY <1>1, <1>2, TimeKeeps, Zenon DEF DeliveryNext

-----------------------------------------------------------------------------
(* The theorems. *)

\* The invariant of the outbox holds whatever runs overlap, die and come again
\* (deliver_pending).
THEOREM DeliveryInvariant == DeliverySpec => []DeliveryInv
BY DeliveryInitRight, DeliveryNextKeeps, PTL DEF DeliverySpec

\* The variables have their types; no note is tried more than MAX_ATTEMPTS times.
THEOREM DeliveryTypeCorrect == DeliverySpec => []DeliveryTypeOK
<1>1. DeliveryInv => DeliveryTypeOK
  BY DEF DeliveryInv
<1>. QED  BY <1>1, DeliveryInvariant, PTL

\* A customer gets a message once, and once more for each run that died or answer
\* that was lost (the rows that deliver_pending locks, and its one commit).
THEOREM NothingSentTwice == DeliverySpec => []SentOnce
<1>1. ASSUME DeliveryInv, NEW n \in Note  PROVE delivered[n] <= 1 + mishaps
  <2>1. /\ delivered[n] <= mishaps + Once(draft[n]) /\ Once(draft[n]) \in 0 .. 1
        /\ delivered[n] \in Nat /\ mishaps \in Nat
    BY <1>1 DEF DeliveryInv, DeliveryTypeOK, Counted, Once
  <2>. QED  BY <2>1
<1>2. DeliveryInv => SentOnce
  BY <1>1 DEF SentOnce
<1>. QED  BY <1>2, DeliveryInvariant, PTL

\* The status that the customer is shown is what happened (Notification.status).
THEOREM StatusAlwaysTrue == DeliverySpec => []StatusIsTrue
<1>1. ASSUME DeliveryInv, NEW n \in Note, row[n].status # "sent", holder[n] = Unheld
      PROVE  delivered[n] <= mishaps
  <2>1. draft[n].status # "sent" /\ mishaps \in Nat
    BY <1>1 DEF DeliveryInv, DeliveryTypeOK, Drafted
  <2>2. delivered[n] <= mishaps + 0
    BY <1>1, <2>1 DEF DeliveryInv, Counted, Once
  <2>. QED  BY <2>1, <2>2
<1>2. DeliveryInv => StatusIsTrue
  BY <1>1 DEF StatusIsTrue, DeliveryInv, Arrived
<1>. QED  BY <1>2, DeliveryInvariant, PTL

-----------------------------------------------------------------------------
(* Both parts. *)

\* A behaviour of one part leaves the other in its initial state.
LEMMA JobsStep ==
  ASSUME DocumentsInv, DeliveryInv, [JobsNext]_jobVars
  PROVE  DocumentsInv' /\ DeliveryInv'
<1>1. [Next]_vars /\ [DeliveryNext]_deliveryVars
  BY DEF JobsNext, jobVars
<1>. QED  BY <1>1, DocumentsStep, DeliveryNextKeeps

\* The types of the documents' and of the deliveries' state.
THEOREM JobsTypeCorrect == JobsSpec => []JobsTypeOK
<1>1. JobsInit => DocumentsInv /\ DeliveryInv
  BY DocumentsInitRight, DeliveryInitRight DEF JobsInit
<1>2. DocumentsInv /\ DeliveryInv => JobsTypeOK
  BY DEF DocumentsInv, DeliveryInv, JobsTypeOK
<1>. QED  BY <1>1, <1>2, JobsStep, PTL DEF JobsSpec
=============================================================================
