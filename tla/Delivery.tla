------------------------------ MODULE Delivery ------------------------------
(***************************************************************************)
(* The outbox of the notifications: deliver_pending (notify/dispatch.py),  *)
(* which the cron job deliver_notifications runs every minute whether or   *)
(* not the run of a minute ago has ended, and the services that accept,    *)
(* refuse or lose a message.                                               *)
(*                                                                         *)
(* A run is one transaction: it locks a batch, sends note after note, and  *)
(* commits what became of them at the end.  Messages that are out stay out *)
(* when it rolls back.                                                     *)
(***************************************************************************)
EXTENDS Naturals, FiniteSets

CONSTANTS Channel,      \* the alert channels of one organisation
          Alert,        \* what enqueue_alerts has to say on every channel
          Test,         \* a customer's tests of a channel
          Round,        \* runs of deliver_pending at the same time
          Limit,        \* notes that a run takes
          MaxAttempts,  \* attempts after which a note has failed
          MaxMishaps    \* bound: runs that die, answers that are lost

Unheld == "nobody"

ASSUME DeliveryAssumption ==
  /\ Alert \cap Test = {} /\ Unheld \notin Round
  /\ Limit \in Nat \ {0} /\ MaxAttempts \in Nat \ {0} /\ MaxMishaps \in Nat

VARIABLES
  row,        \* the committed row of a note
  draft,      \* the row as the run that holds it has changed it
  holder,     \* the run that has locked the row
  ahead,      \* of a note that is due, the due notes with an earlier scheduled_at
  enabled,    \* the channels that are switched on
  round,      \* where each run is
  quiet,      \* the quiet hours of the alert rule
  delivered,  \* messages of a note that have reached the customer
  mishaps

deliveryVars == <<row, draft, holder, ahead, enabled, round, quiet, delivered, mishaps>>

\* A note is an alert or a test on a channel.
Note == Channel \X (Alert \cup Test)
IsTest(n) == n[2] \in Test

NoteStatus == {"none", "pending", "sent", "failed", "skipped"}
\* When a pending note is to be sent: now, after a pause, at the end of the
\* quiet hours.
When == {"now", "backoff", "morning"}
StoredNote == [status : NoteStatus, attempts : 0 .. MaxAttempts, when : When]
Due(n) == row[n].status = "pending" /\ row[n].when = "now"
\* What a run knows of a channel; it reads each once.
Known == {"unread", "on", "off", "turned off"}
RunState == [todo : SUBSET Note, active : BOOLEAN, night : BOOLEAN, knows : [Channel -> Known]]
NoRun == [todo |-> {}, active |-> FALSE, night |-> FALSE, knows |-> [c \in Channel |-> "unread"]]

DeliveryInit ==
  /\ row = [n \in Note |-> [status |-> "none", attempts |-> 0, when |-> "now"]]
  /\ draft = row
  /\ holder = [n \in Note |-> Unheld]
  /\ ahead = [n \in Note |-> {}]
  /\ enabled = Channel
  /\ round = [r \in Round |-> NoRun]
  /\ quiet = FALSE
  /\ delivered = [n \in Note |-> 0]
  /\ mishaps = 0

(***************************************************************************)
(* New notes, and time.                                                    *)
(***************************************************************************)

\* scheduled_at is now: after that of whatever is due.
LineUp(n) == ahead' = [ahead EXCEPT ![n] = {m \in Note : Due(m)}]

Pend(n) ==
  /\ row[n].status = "none"
  /\ row' = [row EXCEPT ![n].status = "pending"]
  /\ draft' = [draft EXCEPT ![n].status = "pending"]
  /\ LineUp(n)

\* enqueue_alerts: for channels that are on.
Enqueue(n) ==
  /\ ~IsTest(n) /\ n[1] \in enabled
  /\ Pend(n)
  /\ UNCHANGED <<holder, enabled, round, quiet, delivered, mishaps>>

\* test_channel: switches the channel on.
TestChannel(n) ==
  /\ IsTest(n)
  /\ Pend(n)
  /\ enabled' = enabled \cup {n[1]}
  /\ UNCHANGED <<holder, round, quiet, delivered, mishaps>>

\* scheduled_at is reached.
BecomesDue(n) ==
  /\ holder[n] = Unheld
  /\ row[n].status = "pending" /\ row[n].when # "now"
  /\ row[n].when = "morning" => ~quiet
  /\ row' = [row EXCEPT ![n].when = "now"]
  /\ draft' = [draft EXCEPT ![n].when = "now"]
  /\ LineUp(n)
  /\ UNCHANGED <<holder, enabled, round, quiet, delivered, mishaps>>

Evening == ~quiet /\ quiet' = TRUE /\ UNCHANGED <<row, draft, holder, ahead, enabled, round, delivered, mishaps>>
Morning == quiet /\ quiet' = FALSE /\ UNCHANGED <<row, draft, holder, ahead, enabled, round, delivered, mishaps>>

(***************************************************************************)
(* A run.                                                                  *)
(***************************************************************************)

\* FOR UPDATE SKIP LOCKED, oldest first.
\* mutant: the rows are read without a lock
FreeAlways(n) == n \in Note
Free(n) == holder[n] = Unheld
Waiting == {n \in Note : Due(n) /\ Free(n)}
Batch == {n \in Waiting : Cardinality(ahead[n] \cap Waiting) < Limit}

StartRound(r) ==
  /\ ~round[r].active
  /\ Batch # {}
  /\ holder' = [n \in Note |-> IF n \in Batch THEN r ELSE holder[n]]
  /\ round' = [round EXCEPT ![r] = [NoRun EXCEPT !.todo = Batch, !.active = TRUE, !.night = quiet]]
  /\ UNCHANGED <<row, draft, ahead, enabled, quiet, delivered, mishaps>>

\* The run has come to a note.
At(r, n) == round[r].active /\ n \in round[r].todo /\ ahead[n] \cap round[r].todo = {}

\* session.get: the identity map's channel, or the row of now.
Sees(r, c) ==
  LET known == round[r].knows[c]
  IN IF known # "unread" THEN known ELSE IF c \in enabled THEN "on" ELSE "off"

\* On to the next note, with a new row for this one.
Done(r, n, status, attempts, when, sees) ==
  /\ draft' = [draft EXCEPT ![n] = [status |-> status, attempts |-> attempts, when |-> when]]
  /\ round' = [round EXCEPT ![r].todo = @ \ {n}, ![r].knows[n[1]] = sees]
  /\ UNCHANGED <<row, holder, ahead, enabled, quiet>>

Skip(r, n) ==
  /\ At(r, n) /\ Sees(r, n[1]) # "on"
  /\ Done(r, n, "skipped", draft[n].attempts, "now", Sees(r, n[1]))
  /\ UNCHANGED <<delivered, mishaps>>

Defers(r, n) == round[r].night /\ ~IsTest(n)
Defer(r, n) ==
  /\ At(r, n) /\ Sees(r, n[1]) = "on" /\ Defers(r, n)
  /\ Done(r, n, "pending", draft[n].attempts, "morning", "on")
  /\ UNCHANGED <<delivered, mishaps>>

MaySend(r, n) == At(r, n) /\ Sees(r, n[1]) = "on" /\ ~Defers(r, n)

Accepted(r, n) ==
  /\ MaySend(r, n)
  /\ Done(r, n, "sent", draft[n].attempts + 1, "now", "on")
  /\ delivered' = [delivered EXCEPT ![n] = @ + 1]
  /\ UNCHANGED mishaps

\* mutant: the attempt is not counted
RetryUncounted(r, n) == Done(r, n, "pending", draft[n].attempts, "backoff", "on")
\* mutant: > in the place of >=
RetryOnceMore(r, n) ==
  LET attempts == draft[n].attempts + 1
  IN IF attempts > MaxAttempts
     THEN Done(r, n, "failed", attempts, "now", "on")
     ELSE Done(r, n, "pending", attempts, "backoff", "on")
\* TransientDeliveryError.
Retry(r, n) ==
  LET attempts == draft[n].attempts + 1
  IN IF attempts >= MaxAttempts
     THEN Done(r, n, "failed", attempts, "now", "on")
     ELSE Done(r, n, "pending", attempts, "backoff", "on")

ServiceDown(r, n) ==
  /\ MaySend(r, n)
  /\ Retry(r, n)
  /\ UNCHANGED <<delivered, mishaps>>

\* The service took the message, and its answer is lost.
AnswerLost(r, n) ==
  /\ MaySend(r, n)
  /\ Retry(r, n)
  /\ mishaps < MaxMishaps /\ mishaps' = mishaps + 1
  /\ delivered' = [delivered EXCEPT ![n] = @ + 1]

\* PermanentDeliveryError: the channel is switched off.
Refused(r, n) ==
  /\ MaySend(r, n)
  /\ Done(r, n, "failed", draft[n].attempts + 1, "now", "turned off")
  /\ UNCHANGED <<delivered, mishaps>>

Held(r) == {n \in Note : holder[n] = r}
EndRound(r) ==
  /\ holder' = [n \in Note |-> IF holder[n] = r THEN Unheld ELSE holder[n]]
  /\ round' = [round EXCEPT ![r] = NoRun]

\* mutant: only notes that are put off or have failed are written back
WrittenIfUnsent(r) ==
  [n \in Note |-> IF n \in Held(r) /\ draft[n].status # "sent" THEN draft[n] ELSE row[n]]
Written(r) == [n \in Note |-> IF n \in Held(r) THEN draft[n] ELSE row[n]]

CommitRound(r) ==
  /\ round[r].active /\ round[r].todo = {}
  /\ row' = Written(r)
  /\ draft' = [n \in Note |-> IF n \in Held(r) THEN row'[n] ELSE draft[n]]
  /\ ahead' = [n \in Note |-> IF Due(n)' THEN {m \in ahead[n] : Due(m)'} ELSE {}]
  /\ enabled' = enabled \ {c \in Channel : round[r].knows[c] = "turned off"}
  /\ EndRound(r)
  /\ UNCHANGED <<quiet, delivered, mishaps>>

\* The worker dies, or the job runs into its timeout: all is rolled back.
Dies(r) ==
  /\ round[r].active
  /\ mishaps < MaxMishaps /\ mishaps' = mishaps + 1
  /\ draft' = [n \in Note |-> IF n \in Held(r) THEN row[n] ELSE draft[n]]
  /\ EndRound(r)
  /\ UNCHANGED <<row, ahead, enabled, quiet, delivered>>

Step(r) ==
  \/ \E n \in Note :
       \/ Skip(r, n) \/ Defer(r, n)
       \/ Accepted(r, n) \/ ServiceDown(r, n) \/ AnswerLost(r, n) \/ Refused(r, n)
  \/ CommitRound(r)

DeliveryNext ==
  \/ \E n \in Note : Enqueue(n) \/ TestChannel(n) \/ BecomesDue(n)
  \/ Evening \/ Morning
  \/ \E r \in Round : StartRound(r) \/ Step(r) \/ Dies(r)

DeliverySpec == DeliveryInit /\ [][DeliveryNext]_deliveryVars

\* Time passes, a run that has begun goes on, and the cron job comes round in
\* the daytime, which is longer than a minute.
DeliveryFairness ==
  /\ WF_deliveryVars(Morning)
  /\ \A n \in Note : SF_deliveryVars(BecomesDue(n))
  /\ \A r \in Round : WF_deliveryVars(Step(r))
  /\ SF_deliveryVars(~quiet /\ \E r \in Round : StartRound(r))
FairDelivery == DeliverySpec /\ DeliveryFairness

-----------------------------------------------------------------------------
(***************************************************************************)
(* Properties.                                                             *)
(***************************************************************************)

DeliveryTypeOK ==
  /\ row \in [Note -> StoredNote]
  /\ draft \in [Note -> StoredNote]
  /\ holder \in [Note -> Round \cup {Unheld}]
  /\ ahead \in [Note -> SUBSET Note]
  /\ enabled \subseteq Channel
  /\ round \in [Round -> RunState]
  /\ quiet \in BOOLEAN
  /\ delivered \in [Note -> Nat]
  /\ mishaps \in 0 .. MaxMishaps

\* Runs of two minutes overlap, and still no customer gets a message twice,
\* unless a run died before it committed or the answer to a send was lost.
SentOnce == \A n \in Note : delivered[n] <= 1 + mishaps

\* What the customer's list of notifications shows is what happened: a note that
\* is sent has arrived; one that is pending, failed or skipped, and at which no
\* run is working, has not, unless a run died or an answer was lost.
StatusIsTrue ==
  \A n \in Note :
    /\ row[n].status = "sent" => delivered[n] >= 1
    /\ row[n].status # "sent" /\ holder[n] = Unheld => delivered[n] <= mishaps

\* No note waits for ever: neither the quiet hours, nor a service that is down,
\* nor a channel switched off, nor older notes keep it pending.
Settles == \A n \in Note : row[n].status = "pending" ~> row[n].status \in {"sent", "failed", "skipped"}
=============================================================================
