------------------------- MODULE ReplicaLifecycle --------------------------
(***************************************************************************)
(* The process around the outbox worker: app.Run of the identity service   *)
(* with the runtime group, shutdown.Run and the closer.                    *)
(*                                                                         *)
(* The main goroutine waits for SIGTERM or for the first component to      *)
(* end, shuts the components down in reverse order under one deadline, and *)
(* then closes what they share.  Meanwhile the worker goes on with its     *)
(* batch and the requests in progress with their transactions: the steps   *)
(* of OutboxDelivery, each under the condition that the producer or the    *)
(* database it needs is still open.  A statement may fail at any time, and *)
(* the pool closes in two steps: it refuses new connections at once, and   *)
(* waits for the ones in use as long as it takes.                          *)
(***************************************************************************)
EXTENDS OutboxDelivery

ASSUME ReplicaFaultAssumption == {"database", "drain", "signal", "crash"} \subseteq Faults

VARIABLES
  main,      \* per replica: where Run is
  left,      \* per replica: components shutdown.Run has not dealt with yet
  expired,   \* per replica: the deadline of shutdown.Run has passed
  listening, \* per replica: the servers whose Start has not returned
  busy,      \* per replica: whether a request is in progress, and holds a connection
  open       \* per replica: what the closer has not begun to close

replicaVars == << main, left, expired, listening, busy, open >>
vars == << outboxVars, replicaVars >>

Components == << "metrics", "outbox", "grpc" >>
Listeners == {"metrics", "grpc"}
Resources == {"postgres", "producer"}
MainSteps == {"waiting", "loop", "called", "closing", "exited"}
RequestSteps == {"none", "running", "holding"}

LifecycleInit ==
  /\ Init
  /\ main = [w \in Workers |-> "waiting"]
  /\ left = [w \in Workers |-> Len(Components)]
  /\ expired = [w \in Workers |-> FALSE]
  /\ listening = [w \in Workers |-> Listeners]
  /\ busy = [w \in Workers |-> "none"]
  /\ open = [w \in Workers |-> Resources]

Goto(w, s) == main' = [main EXCEPT ![w] = s]
Component(w) == Components[left[w]]
Has(w, resource) == resource \in open[w]

\* A component has ended: its result is in the channel of the group.
SomethingEnded(w) == listening[w] # Listeners \/ pc[w] = "stopped"

\* Shutdown of the current component has what it waits for.
Ended(w) ==
  CASE Component(w) = "grpc" -> busy[w] = "none"
    [] Component(w) = "outbox" -> pc[w] = "stopped"
    [] Component(w) = "metrics" -> TRUE

----------------------------------------------------------------------------
(* What goes on in the process. *)

RequestGoes(w, from, to) ==
  /\ busy[w] = from
  /\ busy' = [busy EXCEPT ![w] = to]
  /\ UNCHANGED << main, left, expired, listening, open >>

Receive(w) ==
  /\ "grpc" \in listening[w]
  /\ RequestGoes(w, "none", "running")
  /\ UNCHANGED outboxVars

\* The request takes a connection from the pool: Begin.
Acquire(w) ==
  /\ Has(w, "postgres")
  /\ RequestGoes(w, "running", "holding")
  /\ UNCHANGED outboxVars

\* The request's transaction commits with its event, or it ends without one; a
\* pool that is closing lets it end.
Release(w) ==
  /\ (\E m \in Messages : Create(m)) \/ UNCHANGED outboxVars
  /\ RequestGoes(w, "holding", "running")

Finish(w) ==
  /\ RequestGoes(w, "running", "none")
  /\ UNCHANGED outboxVars

\* Serve or ListenAndServe returns an error.
ListenerFails(w) ==
  /\ main[w] = "waiting"
  /\ \E l \in listening[w] : listening' = [listening EXCEPT ![w] = @ \ {l}]
  /\ UNCHANGED << outboxVars, main, left, expired, busy, open >>

Sigterm(w) ==
  /\ main[w] # "exited"
  /\ Signal(w)
  /\ UNCHANGED replicaVars

\* The claim statement succeeds, and its connection with it.
ClaimServed(w) ==
  /\ main[w] # "exited"
  /\ Has(w, "postgres")
  /\ Claim(w)
  /\ UNCHANGED replicaVars

\* The other steps of the worker.  Statements succeed on an open pool only, but
\* may fail on any; from a closed one nothing reaches the rows.
Work(w) ==
  \/ ClaimServed(w)
  \/ /\ main[w] # "exited"
     /\ \/ Stop(w)
        \/ Wake(w)
        \/ \E m \in Messages, handed \in {0, 1} :
             Abandon(w, m, handed) \/ (PublishFails(w, m, handed) /\ (Has(w, "producer") \/ handed = 0))
        \/ Has(w, "producer") /\ \E m \in Messages : PublishAcked(w, m)
        \/ Has(w, "postgres") /\ (NothingToClaim(w) \/ MarkFailed(w))
        \/ (Has(w, "postgres") \/ acked[w] = {}) /\ MarkPublished(w)
        \/ MarkFailedFails(w)
        \/ MarkPublishedFails(w)
        \/ (Has(w, "postgres") \/ UNCHANGED rowVars) /\ ClaimFails(w)
     /\ UNCHANGED replicaVars

----------------------------------------------------------------------------
(* Run, shutdown.Run and the closer. *)

\* waitForRuntime returns, by the context or by the first result.
StopWaiting(w) ==
  /\ main[w] = "waiting"
  /\ cancelled[w] \/ SomethingEnded(w)
  /\ Goto(w, "loop")
  /\ UNCHANGED << outboxVars, left, expired, listening, busy, open >>

Deadline(w) ==
  /\ main[w] \in {"loop", "called"}
  /\ ~expired[w]
  /\ expired' = [expired EXCEPT ![w] = TRUE]
  /\ UNCHANGED << outboxVars, main, left, listening, busy, open >>

\* Shutdown of the last component not dealt with: a server stops listening, the
\* worker is told to drain (of which a worker that has ended takes no notice).
CallShutdown(w) ==
  /\ main[w] = "loop"
  /\ left[w] > 0
  /\ ~expired[w]
  /\ IF Component(w) = "outbox" /\ pc[w] # "stopped" THEN Drain(w) ELSE UNCHANGED outboxVars
  /\ listening' = [listening EXCEPT ![w] = @ \ {Component(w)}]
  /\ Goto(w, "called")
  /\ UNCHANGED << left, expired, busy, open >>

\* Mistakes: Shutdown returns at once; it does not listen to the deadline.
ReturnAtOnce(w) ==
  /\ main[w] = "called"
  /\ left' = [left EXCEPT ![w] = @ - 1]
  /\ Goto(w, "loop")
  /\ UNCHANGED << outboxVars, expired, listening, busy, open >>
ReturnWhenEnded(w) ==
  /\ main[w] = "called"
  /\ Ended(w)
  /\ left' = [left EXCEPT ![w] = @ - 1]
  /\ Goto(w, "loop")
  /\ UNCHANGED << outboxVars, expired, listening, busy, open >>

ShutdownReturns(w) ==
  /\ main[w] = "called"
  /\ Ended(w) \/ expired[w]
  /\ left' = [left EXCEPT ![w] = @ - 1]
  /\ Goto(w, "loop")
  /\ UNCHANGED << outboxVars, expired, listening, busy, open >>

\* All components have had their turn, or the deadline ends the loop early.
LeaveLoop(w) ==
  /\ main[w] = "loop"
  /\ left[w] = 0 \/ expired[w]
  /\ Goto(w, "closing")
  /\ UNCHANGED << outboxVars, left, expired, listening, busy, open >>

\* The closer goes backwards: the producer was added after the database.  Close
\* of the pool refuses further connections, and returns with Exit.
CloseResource(w) ==
  /\ main[w] = "closing"
  /\ open[w] # {}
  /\ open' = [open EXCEPT ![w] = IF "producer" \in @ THEN @ \ {"producer"} ELSE {}]
  /\ UNCHANGED << outboxVars, main, left, expired, listening, busy >>

\* Close of the pool returns: it has all its connections back.
PoolClosed(w) == open[w] = {} /\ busy[w] # "holding"

\* main returns, and what still runs ends with it.
Exit(w) ==
  /\ main[w] = "closing"
  /\ PoolClosed(w)
  /\ IF pc[w] = "stopped" THEN UNCHANGED outboxVars ELSE Crash(w)
  /\ Goto(w, "exited")
  /\ busy' = [busy EXCEPT ![w] = "none"]
  /\ listening' = [listening EXCEPT ![w] = {}]
  /\ UNCHANGED << left, expired, open >>

\* The orchestrator starts a new process.
Replace(w) ==
  /\ main[w] = "exited"
  /\ Restart(w)
  /\ Goto(w, "waiting")
  /\ left' = [left EXCEPT ![w] = Len(Components)]
  /\ expired' = [expired EXCEPT ![w] = FALSE]
  /\ listening' = [listening EXCEPT ![w] = Listeners]
  /\ open' = [open EXCEPT ![w] = Resources]
  /\ UNCHANGED busy

Run(w) ==
  \/ StopWaiting(w)
  \/ CallShutdown(w)
  \/ ShutdownReturns(w)
  \/ LeaveLoop(w)
  \/ CloseResource(w)
  \/ Exit(w)

Replica(w) ==
  \/ Receive(w) \/ Acquire(w) \/ Release(w) \/ Finish(w)
  \/ ListenerFails(w)
  \/ Sigterm(w)
  \/ Work(w)
  \/ Run(w)
  \/ Deadline(w)
  \/ Replace(w)

Around(m) == (RetryDue(m) \/ DeliverLate(m) \/ DropLate(m)) /\ UNCHANGED replicaVars

LifecycleNext == (\E w \in Workers : Replica(w)) \/ (\E m \in Messages : Around(m))

LifecycleSpec == LifecycleInit /\ [][LifecycleNext]_vars

(* The goroutines of main and of the worker run on, the worker's own statements *)
(* return, with or without an error, the deadline's timer fires, a process that *)
(* ended is replaced, and retry delays pass.  Errors of the                     *)
(* database pass as well: a claim that is tried again and again succeeds once   *)
(* (strong fairness of ClaimServed).  A request need not end, nor need          *)
(* anything fail.                                                               *)
LifecycleFairness ==
  /\ \A w \in Workers : /\ WF_vars(Work(w)) /\ SF_vars(ClaimServed(w)) /\ WF_vars(Run(w))
                        /\ WF_vars(Deadline(w)) /\ WF_vars(Replace(w))
  /\ \A m \in Messages : WF_vars(RetryDue(m) /\ UNCHANGED replicaVars)

FairLifecycle == LifecycleSpec /\ LifecycleFairness

----------------------------------------------------------------------------
(* Type correctness of what Run, the shutdown and the closer keep. *)
LifecycleTypeOK ==
  /\ main \in [Workers -> MainSteps]
  /\ left \in [Workers -> 0 .. Len(Components)]
  /\ expired \in [Workers -> BOOLEAN]
  /\ listening \in [Workers -> SUBSET Listeners]
  /\ busy \in [Workers -> RequestSteps]
  /\ open \in [Workers -> SUBSET Resources]

(* What the components share is closed under nobody's feet: before the deadline  *)
(* the database and the producer close only after the last request has ended and *)
(* the worker has finished its batch (Run: the closer runs after shutdown.Run).   *)
ResourcesOutliveUsers ==
  \A w \in Workers :
    open[w] # Resources /\ ~expired[w] => busy[w] = "none" /\ pc[w] = "stopped" /\ listening[w] = {}

Stranded == {m \in Messages : status[m] = "PROCESSING" /\ \A w \in Workers : m \notin Held(w)}

(* The rows that the worker's next statement is about. *)
AskedFor(w) ==
  CASE pc[w] = "poll"                     -> Oldest
    [] pc[w] = "markFailed"               -> {failing[w]}
    [] pc[w] = "publish" /\ todo[w] = {} -> acked[w]
    [] OTHER                              -> {}

(* That step lets go of row m although it stays in PROCESSING: a statement about  *)
(* m has failed, or the process that held m is cut off.                           *)
StrandedBy(w, m) ==
  \/ m \in AskedFor(w) /\ pc'[w] # pc[w] /\ main'[w] = main[w]
  \/ m \in Held(w) /\ (cancelled[w] \/ (expired[w] /\ main'[w] = "exited"))

(* A row is left in PROCESSING by a failed statement about this very row, or by a *)
(* process that held it and was cut off: its context ended, or it exited after    *)
(* its deadline.  A failure costs no other row of the batch, and neither a drain, *)
(* in the middle of a batch or not, nor an end in order costs any (worker.go:     *)
(* 93-103, 112-147, 150-160; shutdown.Run waits for doneCh before the closer).    *)
StrandingHasCause ==
  [][\A m \in Stranded' \ Stranded : \E w \in Workers : StrandedBy(w, m)]_vars

(* A replica that was told to end, or one of whose components has ended, does     *)
(* exit, whatever hangs in it, unless a request keeps its connection for ever:    *)
(* the pool's Close waits for that one without a deadline                         *)
(* (packages/go/postgres/client.go:60-69).  The worker's statements do return.    *)
BrokenReplicaExits ==
  \A w \in Workers :
    []<>(busy[w] # "holding") => (cancelled[w] \/ SomethingEnded(w) ~> main[w] = "exited")

(* An event whose row is not stranded is published in the end, through errors of  *)
(* broker and database, failed marks and claims, drains, deadlines and replaced   *)
(* processes, if from some time on the replicas keep running.                     *)
EventsOutliveReplicas ==
  \A m \in Messages :
    /\ [](m \notin Stranded)
    /\ \A w \in Workers : <>[](main[w] = "waiting")
    => (status[m] = "PENDING" ~> status[m] = "PUBLISHED")
============================================================================
