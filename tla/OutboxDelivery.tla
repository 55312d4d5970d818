-------------------------- MODULE OutboxDelivery ---------------------------
(***************************************************************************)
(* The transactional outbox of the identity service: the rows of           *)
(* public.outbox_messages, the workers of packages/go/outbox (one per      *)
(* replica) that claim and publish them, and the Kafka producer that hands *)
(* them to the topic.                                                      *)
(*                                                                         *)
(* A worker claims a batch in one statement (FOR UPDATE SKIP LOCKED),      *)
(* publishes its entries one by one in the order RETURNING gave them,      *)
(* which is unspecified, and marks the acknowledged ones at the end.  A    *)
(* record the producer was given may reach the topic after Publish gave    *)
(* up on it.  The worker's context is the one SIGTERM cancels; Shutdown    *)
(* only closes drainCh.                                                    *)
(***************************************************************************)
EXTENDS Naturals, FiniteSets, Sequences

CONSTANTS
  Workers,      \* service replicas, one outbox worker each
  Messages,     \* outbox rows, numbered in the order of (occurred_at, id)
  BatchSize,    \* cfg.BatchSize
  MaxAttempts,  \* bound: a publish fails only on an earlier attempt than this
  Faults,       \* what may go wrong in this instance
  None          \* no message

FaultKinds == {"publish", "late", "database", "drain", "signal", "crash"}

ASSUME MessageAssumption == Messages \subseteq Nat /\ None \notin Messages
ASSUME BoundAssumption == BatchSize \in Nat \ {0} /\ MaxAttempts \in Nat \ {0}
ASSUME FaultAssumption == Faults \subseteq FaultKinds

VARIABLES
  status,    \* outbox_messages.status ("none": not inserted)
  attempts,  \* outbox_messages.attempts
  due,       \* next_attempt_at is NULL or in the past
  topic,     \* the Kafka topic, oldest record first
  late,      \* per message: records the producer still holds after Publish returned
  pc,        \* per worker: where it is in Start / process
  todo,      \* per worker: claimed entries not yet published
  acked,     \* per worker: the slice `published`
  failing,   \* per worker: the entry being marked failed
  full,      \* per worker: finalized && len(entries) == BatchSize
  cancelled, \* per worker: ctx.Err() != nil
  draining   \* per worker: drainCh is closed

rowVars    == << status, attempts, due >>
kafkaVars  == << topic, late >>
batchVars  == << todo, acked, failing, full >>
stopVars   == << cancelled, draining >>
workerVars == << pc, batchVars, stopVars >>
outboxVars == << rowVars, kafkaVars, workerVars >>

Statuses == {"none", "PENDING", "PROCESSING", "FAILED", "PUBLISHED"}
WorkerSteps == {"stopped", "poll", "publish", "markFailed", "wait"}

Init ==
  /\ status = [m \in Messages |-> "none"]
  /\ attempts = [m \in Messages |-> 0]
  /\ due = [m \in Messages |-> TRUE]
  /\ topic = << >>
  /\ late = [m \in Messages |-> 0]
  /\ pc = [w \in Workers |-> "poll"]
  /\ todo = [w \in Workers |-> {}]
  /\ acked = [w \in Workers |-> {}]
  /\ failing = [w \in Workers |-> None]
  /\ full = [w \in Workers |-> FALSE]
  /\ cancelled = [w \in Workers |-> FALSE]
  /\ draining = [w \in Workers |-> FALSE]

\* A record the producer was given although Publish returned an error.
HandedOver(m, handed) ==
  /\ handed = 0 \/ "late" \in Faults
  /\ late' = [late EXCEPT ![m] = @ + handed]

Held(w) == todo[w] \cup acked[w] \cup ({failing[w]} \ {None})
Stopping(w) == cancelled[w] \/ draining[w]
Mark(batch, to) ==
  status' = [m \in Messages |-> IF m \in batch /\ status[m] = "PROCESSING" THEN to ELSE status[m]]

\* Mistakes: rows in processing are claimed too; every row is; failed rows are not.
ClaimableInProcessing == {m \in Messages : status[m] \in {"PENDING", "PROCESSING", "FAILED"} /\ due[m]}
ClaimableAnyStatus == {m \in Messages : status[m] # "none" /\ due[m]}
ClaimablePending == {m \in Messages : status[m] = "PENDING" /\ due[m]}

\* What the claim statement selects: the oldest rows that are due, up to the limit.
Claimable == {m \in Messages : status[m] \in {"PENDING", "FAILED"} /\ due[m]}
Oldest == {m \in Claimable : Cardinality({k \in Claimable : k < m}) < BatchSize}

ClaimRows(batch) ==
  /\ status' = [m \in Messages |-> IF m \in batch THEN "PROCESSING" ELSE status[m]]
  /\ attempts' = [m \in Messages |-> IF m \in batch THEN attempts[m] + 1 ELSE attempts[m]]

\* process returns: the batch is forgotten, and Start stops, goes on or waits.
Return(w, again) ==
  /\ pc' = [pc EXCEPT ![w] = IF Stopping(w) THEN "stopped" ELSE IF again THEN "poll" ELSE "wait"]
  /\ todo' = [todo EXCEPT ![w] = {}]
  /\ acked' = [acked EXCEPT ![w] = {}]
  /\ failing' = [failing EXCEPT ![w] = None]
  /\ full' = [full EXCEPT ![w] = FALSE]

----------------------------------------------------------------------------
(* A usecase commits: its event is inserted in the same transaction. *)
Create(m) ==
  /\ status[m] = "none"
  /\ status' = [status EXCEPT ![m] = "PENDING"]
  /\ UNCHANGED << attempts, due, kafkaVars, workerVars >>

RetryDue(m) ==
  /\ status[m] = "FAILED" /\ ~due[m]
  /\ due' = [due EXCEPT ![m] = TRUE]
  /\ UNCHANGED << status, attempts, kafkaVars, workerVars >>

----------------------------------------------------------------------------
(* The worker: Start and process. *)

Stop(w) ==
  /\ pc[w] \in {"poll", "wait"}
  /\ Stopping(w)
  /\ pc' = [pc EXCEPT ![w] = "stopped"]
  /\ UNCHANGED << rowVars, kafkaVars, batchVars, stopVars >>

Wake(w) ==
  /\ pc[w] = "wait"
  /\ ~Stopping(w)
  /\ pc' = [pc EXCEPT ![w] = "poll"]
  /\ UNCHANGED << rowVars, kafkaVars, batchVars, stopVars >>

Claim(w) ==
  /\ pc[w] = "poll"
  /\ ~Stopping(w)
  /\ Oldest # {}
  /\ ClaimRows(Oldest)
  /\ todo' = [todo EXCEPT ![w] = Oldest]
  /\ full' = [full EXCEPT ![w] = Cardinality(Oldest) = BatchSize]
  /\ pc' = [pc EXCEPT ![w] = "publish"]
  /\ UNCHANGED << due, kafkaVars, acked, failing, stopVars >>

NothingToClaim(w) ==
  /\ pc[w] = "poll"
  /\ ~Stopping(w)
  /\ Oldest = {}
  /\ Return(w, FALSE)
  /\ UNCHANGED << rowVars, kafkaVars, stopVars >>

\* The statement failed, or it was committed and its rows never read: connection
\* lost, context cancelled, or a row that does not convert (toDomain).
ClaimFails(w) ==
  /\ pc[w] = "poll"
  /\ "database" \in Faults \/ cancelled[w]
  /\ \/ ClaimRows(Oldest)
     \/ UNCHANGED << status, attempts >>
  /\ Return(w, FALSE)
  /\ UNCHANGED << due, kafkaVars, stopVars >>

\* Mistake: the entry is published again after its acknowledgement.
PublishRepeated(w, m) ==
  /\ pc[w] = "publish"
  /\ m \in todo[w]
  /\ ~cancelled[w]
  /\ topic' = Append(topic, m)
  /\ acked' = [acked EXCEPT ![w] = @ \cup {m}]
  /\ UNCHANGED << rowVars, late, pc, todo, failing, full, stopVars >>

PublishAcked(w, m) ==
  /\ pc[w] = "publish"
  /\ m \in todo[w]
  /\ ~cancelled[w]
  /\ topic' = Append(topic, m)
  /\ todo' = [todo EXCEPT ![w] = @ \ {m}]
  /\ acked' = [acked EXCEPT ![w] = @ \cup {m}]
  /\ UNCHANGED << rowVars, late, pc, failing, full, stopVars >>

\* Mistake: a failed entry is appended to `published`.
PublishFailureIgnored(w, m, handed) ==
  /\ pc[w] = "publish"
  /\ m \in todo[w]
  /\ ~cancelled[w]
  /\ "publish" \in Faults
  /\ attempts[m] < MaxAttempts
  /\ HandedOver(m, handed)
  /\ todo' = [todo EXCEPT ![w] = @ \ {m}]
  /\ acked' = [acked EXCEPT ![w] = @ \cup {m}]
  /\ UNCHANGED << rowVars, topic, pc, failing, full, stopVars >>

\* An error of the broker, or PublishTimeout with the record already handed over.
PublishFails(w, m, handed) ==
  /\ pc[w] = "publish"
  /\ m \in todo[w]
  /\ ~cancelled[w]
  /\ "publish" \in Faults
  /\ attempts[m] < MaxAttempts
  /\ HandedOver(m, handed)
  /\ todo' = [todo EXCEPT ![w] = @ \ {m}]
  /\ failing' = [failing EXCEPT ![w] = m]
  /\ pc' = [pc EXCEPT ![w] = "markFailed"]
  /\ UNCHANGED << rowVars, topic, acked, full, stopVars >>

\* Mistake: drainCh is read between two entries.
AbandonOnDrain(w, m, handed) ==
  /\ pc[w] = "publish"
  /\ m \in todo[w]
  /\ Stopping(w)
  /\ HandedOver(m, handed)
  /\ Return(w, FALSE)
  /\ UNCHANGED << rowVars, topic, stopVars >>

\* The context ends before or during a Publish: process returns at once.
Abandon(w, m, handed) ==
  /\ pc[w] = "publish"
  /\ m \in todo[w]
  /\ cancelled[w]
  /\ HandedOver(m, handed)
  /\ Return(w, FALSE)
  /\ UNCHANGED << rowVars, topic, stopVars >>

MarkFailed(w) ==
  /\ pc[w] = "markFailed"
  /\ ~cancelled[w]
  /\ Mark({failing[w]}, "FAILED")
  /\ due' = [due EXCEPT ![failing[w]] = FALSE]
  /\ failing' = [failing EXCEPT ![w] = None]
  /\ pc' = [pc EXCEPT ![w] = "publish"]
  /\ UNCHANGED << attempts, kafkaVars, todo, acked, full, stopVars >>

\* finalized = false, and the row stays PROCESSING; or the context has ended.
MarkFailedFails(w) ==
  /\ pc[w] = "markFailed"
  /\ IF cancelled[w]
       THEN Return(w, FALSE)
       ELSE /\ "database" \in Faults
            /\ full' = [full EXCEPT ![w] = FALSE]
            /\ failing' = [failing EXCEPT ![w] = None]
            /\ pc' = [pc EXCEPT ![w] = "publish"]
            /\ UNCHANGED << todo, acked >>
  /\ UNCHANGED << rowVars, kafkaVars, stopVars >>

\* The end of the loop; MarkPublished is not called for an empty slice.
MarkPublished(w) ==
  /\ pc[w] = "publish"
  /\ todo[w] = {}
  /\ acked[w] = {} \/ ~cancelled[w]
  /\ Mark(acked[w], "PUBLISHED")
  /\ Return(w, full[w])
  /\ UNCHANGED << attempts, due, kafkaVars, stopVars >>

MarkPublishedFails(w) ==
  /\ pc[w] = "publish"
  /\ todo[w] = {}
  /\ acked[w] # {}
  /\ "database" \in Faults \/ cancelled[w]
  /\ Return(w, FALSE)
  /\ UNCHANGED << rowVars, kafkaVars, stopVars >>

----------------------------------------------------------------------------
(* The producer's queue and the process around the worker. *)

DeliverLate(m) ==
  /\ late[m] > 0
  /\ late' = [late EXCEPT ![m] = @ - 1]
  /\ topic' = Append(topic, m)
  /\ UNCHANGED << rowVars, workerVars >>

\* Mistake: a delivery is completed that nobody waits for.
DropAnything(m) ==
  /\ late' = [late EXCEPT ![m] = @ - 1]
  /\ UNCHANGED << rowVars, topic, workerVars >>

DropLate(m) ==
  /\ late[m] > 0
  /\ late' = [late EXCEPT ![m] = @ - 1]
  /\ UNCHANGED << rowVars, topic, workerVars >>

\* SIGTERM: signal.NotifyContext cancels the context of every component.
Signal(w) ==
  /\ "signal" \in Faults
  /\ pc[w] # "stopped"
  /\ cancelled' = [cancelled EXCEPT ![w] = TRUE]
  /\ UNCHANGED << rowVars, kafkaVars, pc, batchVars, draining >>

\* Shutdown after another component of the process has exited.  (After Signal it
\* tells a worker whose context has ended nothing new.)
Drain(w) ==
  /\ "drain" \in Faults
  /\ pc[w] # "stopped"
  /\ draining' = [draining EXCEPT ![w] = TRUE]
  /\ UNCHANGED << rowVars, kafkaVars, pc, batchVars, cancelled >>

\* The process dies, or exits because shutdown.Run ran out of time.
Crash(w) ==
  /\ "crash" \in Faults
  /\ pc[w] # "stopped"
  /\ pc' = [pc EXCEPT ![w] = "stopped"]
  /\ todo' = [todo EXCEPT ![w] = {}]
  /\ acked' = [acked EXCEPT ![w] = {}]
  /\ failing' = [failing EXCEPT ![w] = None]
  /\ full' = [full EXCEPT ![w] = FALSE]
  /\ UNCHANGED << rowVars, kafkaVars, stopVars >>

\* A new process takes the place of the one that stopped.
Restart(w) ==
  /\ pc[w] = "stopped"
  /\ pc' = [pc EXCEPT ![w] = "poll"]
  /\ cancelled' = [cancelled EXCEPT ![w] = FALSE]
  /\ draining' = [draining EXCEPT ![w] = FALSE]
  /\ UNCHANGED << rowVars, kafkaVars, batchVars >>

Process(w) ==
  \/ Stop(w)
  \/ Wake(w)
  \/ Claim(w)
  \/ NothingToClaim(w)
  \/ ClaimFails(w)
  \/ \E m \in Messages : \/ PublishAcked(w, m)
                         \/ \E handed \in {0, 1} : PublishFails(w, m, handed) \/ Abandon(w, m, handed)
  \/ MarkFailed(w)
  \/ MarkFailedFails(w)
  \/ MarkPublished(w)
  \/ MarkPublishedFails(w)

OutboxNext ==
  \/ \E m \in Messages : Create(m) \/ RetryDue(m) \/ DeliverLate(m) \/ DropLate(m)
  \/ \E w \in Workers : Process(w) \/ Signal(w) \/ Drain(w) \/ Crash(w) \/ Restart(w)

Spec == Init /\ [][OutboxNext]_outboxVars

(* The goroutine of a worker runs on, its timer fires, retry delays pass, and *)
(* a stopped replica is replaced.  Signal, Drain and Crash are never required. *)
OutboxFairness ==
  /\ \A w \in Workers : WF_outboxVars(Process(w)) /\ WF_outboxVars(Restart(w))
  /\ \A m \in Messages : WF_outboxVars(RetryDue(m))

FairSpec == Spec /\ OutboxFairness

----------------------------------------------------------------------------
Deliveries(m) == Cardinality({i \in DOMAIN topic : topic[i] = m})

(* Type correctness of the rows, the topic and the worker's locals. *)
TypeOK ==
  /\ status \in [Messages -> Statuses]
  /\ attempts \in [Messages -> Nat]
  /\ due \in [Messages -> BOOLEAN]
  /\ topic \in Seq(Messages)
  /\ late \in [Messages -> Nat]
  /\ pc \in [Workers -> WorkerSteps]
  /\ todo \in [Workers -> SUBSET Messages]
  /\ acked \in [Workers -> SUBSET Messages]
  /\ failing \in [Workers -> Messages \cup {None}]
  /\ full \in [Workers -> BOOLEAN]
  /\ cancelled \in [Workers -> BOOLEAN]
  /\ draining \in [Workers -> BOOLEAN]

(* A row marked PUBLISHED is in the topic: the worker marks only what the      *)
(* producer acknowledged, through every failed, abandoned or repeated attempt. *)
PublishedWasDelivered ==
  \A m \in Messages : status[m] = "PUBLISHED" => Deliveries(m) > 0

(* SKIP LOCKED and the status together make a claim exclusive: an entry is in  *)
(* the hands of at most one worker, whose row is PROCESSING, although the      *)
(* ClaimToken of an entry is only its ID and the Mark statements check only    *)
(* the status (claim.go, mark_published.go, mark_failed.go).                   *)
ClaimIsExclusive ==
  \A w \in Workers :
    /\ todo[w] \cap acked[w] = {}
    /\ failing[w] \notin todo[w] \cup acked[w]
    /\ \A m \in Held(w) : /\ status[m] = "PROCESSING"
                          /\ \A v \in Workers \ {w} : m \notin Held(v)

(* Each attempt puts a message in the topic at most once, late records         *)
(* included: the topic never holds more copies than there were claims.         *)
CopiesWithinAttempts ==
  \A m \in Messages : Deliveries(m) + late[m] <= attempts[m]

(* A published row is never claimed, failed or published again. *)
PublishedIsFinal ==
  [][\A m \in Messages : status[m] = "PUBLISHED" =>
       status'[m] = "PUBLISHED" /\ attempts'[m] = attempts[m]]_outboxVars

\* From some time on no replica is told to stop.
LeftAlone == \A w \in Workers : <>[]~Stopping(w)

(* "The worker publishes with the guarantee at-least-once": every committed     *)
(* event reaches the topic, also when a replica is replaced after a SIGTERM.    *)
CommittedEventIsDelivered ==
  LeftAlone => \A m \in Messages : status[m] = "PENDING" ~> Deliveries(m) > 0
============================================================================
