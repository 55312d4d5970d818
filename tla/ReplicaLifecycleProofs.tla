---------------------- MODULE ReplicaLifecycleProofs -----------------------
(***************************************************************************)
(* What holds of ReplicaLifecycle for any number of replicas and events.   *)
(* A replica only does what OutboxDelivery allows, so all that is proved   *)
(* of the outbox holds here as well; what the order of the shutdown adds   *)
(* is proved from one invariant about the progress of the main goroutine.  *)
(***************************************************************************)
EXTENDS ReplicaLifecycle, OutboxDeliveryProofs

(* How far the main goroutine is, and what has ended by then.  Up to the     *)
(* deadline each component that had its turn has ended; the closer starts    *)
(* when all had it.                                                          *)
Progress(w) ==
  /\ main[w] = "waiting" => left[w] = 3 /\ open[w] = Resources
  /\ main[w] = "called" => left[w] > 0 /\ Component(w) \notin listening[w]
  /\ main[w] \in {"loop", "called"} => open[w] = Resources
  /\ main[w] \in {"closing", "exited"} => left[w] = 0 \/ expired[w]
  /\ left[w] < 3 => "grpc" \notin listening[w] /\ (busy[w] # "none" => expired[w])
  /\ left[w] < 2 => pc[w] = "stopped" \/ expired[w]
  /\ left[w] < 1 => "metrics" \notin listening[w]
  /\ main[w] = "exited" => pc[w] = "stopped" /\ busy[w] = "none" /\ listening[w] = {} /\ open[w] = {}

ProgressKnown == \A w \in Workers : Progress(w)

LInv == LifecycleTypeOK /\ ProgressKnown

----------------------------------------------------------------------------
(* Every step of a replica is one of the outbox, or leaves the outbox alone.  *)

\* What the requests of a replica do.
Requests(w) == Receive(w) \/ Acquire(w) \/ Release(w) \/ Finish(w)

LEMMA RequestsLeaveRun ==
  ASSUME NEW w, Requests(w)
  PROVE  UNCHANGED << main, left, expired, listening, open, workerVars >>
BY DEF Requests, Receive, Acquire, Release, Finish, RequestGoes, Create, outboxVars, workerVars

LEMMA WorkIsProcess ==
  ASSUME NEW w \in Workers, Work(w)
  PROVE  Process(w)
<1>1. \/ Stop(w) \/ Wake(w) \/ Claim(w) \/ NothingToClaim(w) \/ ClaimFails(w)
      \/ MarkFailed(w) \/ MarkFailedFails(w) \/ MarkPublished(w) \/ MarkPublishedFails(w)
      \/ \E m \in Messages, handed \in {0, 1} : Abandon(w, m, handed) \/ PublishFails(w, m, handed)
      \/ \E m \in Messages : PublishAcked(w, m)
  BY Zenon DEF Work, ClaimServed
<1> QED
  BY <1>1, Zenon DEF Process

LEMMA StepImplementsOutbox ==
  ASSUME [LifecycleNext]_vars
  PROVE  [OutboxNext]_outboxVars
<1>1. CASE UNCHANGED vars
  BY <1>1, Zenon DEF vars
<1>2. ASSUME NEW m \in Messages, Around(m)
      PROVE  OutboxNext
  BY <1>2, Zenon DEF Around, OutboxNext
<1>3. ASSUME NEW w \in Workers, Replica(w)
      PROVE  [OutboxNext]_outboxVars
  <2>1. CASE Receive(w) \/ Acquire(w) \/ Finish(w) \/ ListenerFails(w) \/ Deadline(w)
    BY <2>1, Zenon DEF Receive, Acquire, Finish, ListenerFails, Deadline
  <2>2. CASE Release(w)
    BY <2>2, Zenon DEF Release, OutboxNext
  <2>3. CASE Sigterm(w)
    BY <2>3, Zenon DEF Sigterm, OutboxNext
  <2>4. CASE Work(w)
    BY <2>4, WorkIsProcess, Zenon DEF OutboxNext
  <2>5. CASE Run(w)
    <3>1. Drain(w) \/ Crash(w) \/ UNCHANGED outboxVars
      BY <2>5, Zenon DEF Run, StopWaiting, CallShutdown, ShutdownReturns, LeaveLoop, CloseResource, Exit
    <3> QED
      BY <3>1, Zenon DEF OutboxNext
  <2>6. CASE Replace(w)
    BY <2>6, Zenon DEF Replace, OutboxNext
  <2> QED
    BY <1>3, <2>1, <2>2, <2>3, <2>4, <2>5, <2>6, Zenon DEF Replica
<1> QED
  BY <1>1, <1>2, <1>3, Zenon DEF LifecycleNext

(* The replicas implement the outbox: each behaviour of processes that start,   *)
(* serve, end and are replaced is one of OutboxDelivery, where SIGTERM, drain   *)
(* and crash come at any time.                                                  *)
THEOREM ReplicasImplementOutbox == LifecycleSpec => Spec
<1>1. LifecycleInit => Init
  BY DEF LifecycleInit
<1>2. [LifecycleNext]_vars => [OutboxNext]_outboxVars
  BY StepImplementsOutbox
<1> QED
  BY <1>1, <1>2, PTL DEF LifecycleSpec, Spec

----------------------------------------------------------------------------
(* Types.  (The lengths and elements of Components, spelled out once.)        *)

LEMMA ComponentsAre ==
  /\ Len(Components) = 3
  /\ Components[3] = "grpc" /\ Components[2] = "outbox" /\ Components[1] = "metrics"
BY DEF Components

LEMMA StepKeepsLifecycleTypes ==
  ASSUME LifecycleTypeOK, ProgressKnown, [LifecycleNext]_vars
  PROVE  LifecycleTypeOK'
<1> USE ComponentsAre DEF LifecycleTypeOK, MainSteps, RequestSteps, replicaVars
<1>1. CASE UNCHANGED vars
  BY <1>1 DEF vars
<1>2. ASSUME NEW m \in Messages, Around(m)
      PROVE  LifecycleTypeOK'
  BY <1>2 DEF Around
<1>3. ASSUME NEW w \in Workers, Replica(w)
      PROVE  LifecycleTypeOK'
  <2>1. CASE Receive(w) \/ Acquire(w)
    BY <2>1 DEF Receive, Acquire, RequestGoes
  <2>2. CASE Release(w) \/ Finish(w)
    BY <2>2 DEF Release, Finish, RequestGoes
  <2>3. CASE ListenerFails(w)
    BY <2>3 DEF ListenerFails
  <2>4. CASE Sigterm(w) \/ Work(w)
    BY <2>4 DEF Sigterm, Work, ClaimServed
  <2>5. CASE StopWaiting(w) \/ LeaveLoop(w)
    BY <2>5 DEF StopWaiting, LeaveLoop, Goto
  <2>6. CASE CallShutdown(w)
    BY <2>6 DEF CallShutdown, Goto
  <2>7. CASE ShutdownReturns(w)
    <3>1. left[w] - 1 \in 0 .. 3
      BY <2>7 DEF ShutdownReturns, ProgressKnown, Progress
    <3> QED
      BY <2>7, <3>1 DEF ShutdownReturns, Goto
  <2>8. CASE CloseResource(w)
    BY <2>8 DEF CloseResource
  <2>9. CASE Exit(w)
    BY <2>9 DEF Exit, Goto
  <2>10. CASE Deadline(w)
    BY <2>10 DEF Deadline
  <2>11. CASE Replace(w)
    BY <2>11 DEF Replace, Goto
  <2> QED
    BY <1>3, <2>1, <2>2, <2>3, <2>4, <2>5, <2>6, <2>7, <2>8, <2>9, <2>10, <2>11, Zenon DEF Replica, Run
<1> QED
  BY <1>1, <1>2, <1>3, Zenon DEF LifecycleNext

----------------------------------------------------------------------------
(* Where a worker is changes in its own steps only; one that has stopped stays *)
(* so until its process is replaced.                                           *)

LEMMA StoppedUntilReplaced ==
  ASSUME TypeOK, NEW w \in Workers, Replica(w), NEW v \in Workers, ~Replace(w) \/ v # w, pc[v] = "stopped"
  PROVE  pc'[v] = "stopped"
<1> USE DEF TypeOK
<1>1. CASE UNCHANGED pc
  BY <1>1
<1>2. CASE Work(w)
  <2>1. Process(w)
    BY <1>2, WorkIsProcess
  <2>2. pc[w] # "stopped"
    BY <2>1 DEF Process, Stop, Wake, Claim, NothingToClaim, ClaimFails, PublishAcked, PublishFails, Abandon,
                MarkFailed, MarkFailedFails, MarkPublished, MarkPublishedFails
  <2>3. v # w
    BY <2>2
  <2>4. pc'[v] = pc[v]
    BY <2>1, <2>3 DEF Process, Stop, Wake, Claim, NothingToClaim, ClaimFails, PublishAcked, PublishFails, Abandon,
                MarkFailed, MarkFailedFails, MarkPublished, MarkPublishedFails, Return
  <2> QED
    BY <2>4
<1>3. CASE Exit(w)
  BY <1>3 DEF Exit, Crash, outboxVars, workerVars
<1>4. CASE Replace(w)
  BY <1>4 DEF Replace, Restart
<1>5. CASE Requests(w) \/ ListenerFails(w) \/ Sigterm(w) \/ Deadline(w)
  <2>1. UNCHANGED pc
    BY <1>5, RequestsLeaveRun DEF ListenerFails, Sigterm, Deadline, Signal, outboxVars, workerVars
  <2> QED
    BY <1>1, <2>1
<1>6. CASE StopWaiting(w) \/ CallShutdown(w) \/ ShutdownReturns(w) \/ LeaveLoop(w) \/ CloseResource(w)
  <2>1. UNCHANGED pc
    BY <1>6 DEF StopWaiting, CallShutdown, ShutdownReturns, LeaveLoop, CloseResource, Drain, outboxVars, workerVars
  <2> QED
    BY <1>1, <2>1
<1> QED
  BY <1>2, <1>3, <1>4, <1>5, <1>6, Zenon DEF Replica, Run, Requests

----------------------------------------------------------------------------
(* The progress of the main goroutine.                                       *)

(* What one replica does leaves the processes of the others as they were.    *)
LEMMA OthersKeepProcess ==
  ASSUME LifecycleTypeOK, NEW w \in Workers, Replica(w), NEW v \in Workers \ {w}
  PROVE  /\ main'[v] = main[v] /\ left'[v] = left[v] /\ expired'[v] = expired[v]
         /\ listening'[v] = listening[v] /\ busy'[v] = busy[v] /\ open'[v] = open[v]
<1>1. CASE Requests(w) \/ ListenerFails(w) \/ Deadline(w)
  BY <1>1 DEF LifecycleTypeOK, Requests, Receive, Acquire, Release, Finish, RequestGoes, ListenerFails, Deadline
<1>2. CASE Sigterm(w) \/ Work(w)
  BY <1>2 DEF Sigterm, Work, ClaimServed, replicaVars
<1>3. CASE StopWaiting(w) \/ CallShutdown(w) \/ ShutdownReturns(w)
  BY <1>3 DEF LifecycleTypeOK, StopWaiting, CallShutdown, ShutdownReturns, Goto
<1>4. CASE LeaveLoop(w) \/ CloseResource(w) \/ Exit(w) \/ Replace(w)
  BY <1>4 DEF LifecycleTypeOK, LeaveLoop, CloseResource, Exit, Replace, Goto
<1> QED
  BY <1>1, <1>2, <1>3, <1>4, Zenon DEF Replica, Run, Requests

LEMMA OthersKeepProgress ==
  ASSUME LifecycleTypeOK, TypeOK, NEW w \in Workers, Replica(w), NEW v \in Workers \ {w}, Progress(v)
  PROVE  Progress(v)'
<1>1. pc[v] = "stopped" => pc'[v] = "stopped"
  BY StoppedUntilReplaced
<1> QED
  BY <1>1, OthersKeepProcess DEF Progress, Component

LEMMA ReplicaKeepsProgress ==
  ASSUME LifecycleTypeOK, TypeOK, NEW w \in Workers, Replica(w), Progress(w)
  PROVE  Progress(w)'
<1> USE ComponentsAre DEF LifecycleTypeOK, MainSteps, Progress, Component
<1>1. ~Replace(w) => (pc[w] = "stopped" => pc'[w] = "stopped")
  BY StoppedUntilReplaced
<1>2. CASE Receive(w)
  BY <1>2 DEF Receive, RequestGoes, outboxVars, workerVars
<1>3. CASE Acquire(w) \/ Release(w) \/ Finish(w)
  <2>1. UNCHANGED << pc, main, left, expired, listening, open >> /\ busy[w] # "none"
    BY <1>3 DEF Acquire, Release, Finish, RequestGoes, Create, outboxVars, workerVars
  <2> QED
    BY <2>1
<1>4. CASE ListenerFails(w)
  BY <1>4 DEF ListenerFails, outboxVars, workerVars
<1>5. CASE Sigterm(w)
  BY <1>5 DEF Sigterm, Signal, replicaVars
<1>6. CASE Work(w)
  <2>1. ~Replace(w)
    BY <1>6 DEF Work, ClaimServed, Replace
  <2> QED
    BY <1>1, <1>6, <2>1 DEF Work, ClaimServed, replicaVars
<1>7. CASE StopWaiting(w) \/ Deadline(w)
  BY <1>7 DEF StopWaiting, Deadline, Goto, outboxVars, workerVars
<1>8. CASE CallShutdown(w)
  <2>1. UNCHANGED << pc, left, expired, busy, open >> /\ main' = [main EXCEPT ![w] = "called"]
    BY <1>8 DEF CallShutdown, Goto, Drain, outboxVars, workerVars
  <2>2. /\ main[w] = "loop" /\ left[w] > 0
        /\ listening'[w] = listening[w] \ {Components[left[w]]}
    BY <1>8 DEF CallShutdown
  <2> QED
    BY <2>1, <2>2
<1>9. CASE ShutdownReturns(w)
  <2>1. /\ main[w] = "called" /\ main'[w] = "loop" /\ left'[w] = left[w] - 1
        /\ UNCHANGED << pc, expired, listening, busy, open >>
    BY <1>9 DEF ShutdownReturns, Goto, outboxVars, workerVars
  <2>2. left[w] = 3 => "grpc" \notin listening[w] /\ (busy[w] # "none" => expired[w])
    BY <1>9, <2>1 DEF ShutdownReturns, Ended
  <2>3. left[w] = 2 => pc[w] = "stopped" \/ expired[w]
    BY <1>9, <2>1 DEF ShutdownReturns, Ended
  <2>4. left[w] = 1 => "metrics" \notin listening[w]
    BY <1>9, <2>1 DEF ShutdownReturns
  <2>5. left[w] \in 1 .. 3
    BY <2>1
  <2> HIDE DEF Component
  <2> QED
    BY <2>1, <2>2, <2>3, <2>4, <2>5
<1>10. CASE LeaveLoop(w) \/ CloseResource(w)
  BY <1>10 DEF LeaveLoop, CloseResource, Goto, outboxVars, workerVars
<1>11. CASE Exit(w)
  <2>1. pc'[w] = "stopped"
    BY <1>11 DEF Exit, Crash, outboxVars, workerVars, TypeOK
  <2> QED
    BY <1>11, <2>1 DEF Exit, PoolClosed, Goto
<1>12. CASE Replace(w)
  <2>1. main'[w] = "waiting" /\ left'[w] = 3 /\ open'[w] = Resources
    BY <1>12 DEF Replace, Goto
  <2> QED
    BY <2>1
<1> QED
  BY <1>2, <1>3, <1>4, <1>5, <1>6, <1>7, <1>8, <1>9, <1>10, <1>11, <1>12, Zenon DEF Replica, Run

LEMMA StepKeepsProgress ==
  ASSUME LifecycleTypeOK, TypeOK, ProgressKnown, [LifecycleNext]_vars
  PROVE  ProgressKnown'
<1>1. CASE UNCHANGED << replicaVars, pc >>
  BY <1>1 DEF ProgressKnown, Progress, Component, replicaVars
<1>2. CASE UNCHANGED vars
  BY <1>1, <1>2 DEF vars, outboxVars, workerVars
<1>3. ASSUME NEW m \in Messages, Around(m)
      PROVE  ProgressKnown'
  BY <1>1, <1>3 DEF Around, RetryDue, DeliverLate, DropLate, workerVars
<1>4. ASSUME NEW w \in Workers, Replica(w)
      PROVE  ProgressKnown'
  BY <1>4, OthersKeepProgress, ReplicaKeepsProgress DEF ProgressKnown
<1> QED
  BY <1>2, <1>3, <1>4, Zenon DEF LifecycleNext

(* The components and resources are in the states that the progress of Run allows. *)
THEOREM LifecycleInvariant == LifecycleSpec => [](LInv /\ IInv)
<1>1. LifecycleInit => LInv
  BY ComponentsAre DEF LifecycleInit, LInv, LifecycleTypeOK, ProgressKnown, Progress, MainSteps, RequestSteps,
                       Listeners, Resources
<1>2. TypeOK /\ LInv /\ [LifecycleNext]_vars => LInv'
  BY StepKeepsLifecycleTypes, StepKeepsProgress DEF LInv
<1>3. IInv => TypeOK
  BY DEF IInv
<1> QED
  BY <1>1, <1>2, <1>3, ReplicasImplementOutbox, InductiveInvariant, PTL DEF LifecycleSpec

(* Replicas keep the types of what Run, the shutdown and the closer hold. *)
THEOREM ReplicaTypeCorrect == LifecycleSpec => []LifecycleTypeOK
<1>1. LInv => LifecycleTypeOK
  BY DEF LInv
<1> QED
  BY <1>1, LifecycleInvariant, PTL

(* Before the deadline the closer finds nobody who still uses what it closes. *)
THEOREM NothingClosedInUse == LifecycleSpec => []ResourcesOutliveUsers
<1>1. LInv => ResourcesOutliveUsers
  <2> SUFFICES ASSUME LInv, NEW w \in Workers, open[w] # Resources, ~expired[w]
               PROVE  busy[w] = "none" /\ pc[w] = "stopped" /\ listening[w] = {}
    BY DEF ResourcesOutliveUsers
  <2>1. main[w] \in {"closing", "exited"}
    BY DEF LInv, LifecycleTypeOK, MainSteps, ProgressKnown, Progress
  <2>2. left[w] = 0
    BY <2>1 DEF LInv, ProgressKnown, Progress
  <2> QED
    BY <2>2 DEF LInv, LifecycleTypeOK, ProgressKnown, Progress, Listeners
<1> QED
  BY <1>1, LifecycleInvariant, PTL

----------------------------------------------------------------------------
(* Nothing is stranded without a cause: every other step keeps each row in   *)
(* PROCESSING in the hands of a worker.                                      *)

LEMMA ReturningEmptyKeepsBatch ==
  ASSUME TypeOK, NEW w \in Workers, NEW again, Return(w, again), Held(w) = {}
  PROVE  \A v \in Workers : Held(v)' = Held(v)
BY DEF TypeOK, Return, Held

(* A row that is newly in PROCESSING or newly let go is in the worker's hands, *)
(* or its next statement is about it.                                          *)
LEMMA WorkStrandsWithCause ==
  ASSUME IInv, NEW w \in Workers, Work(w), NEW m \in Messages, m \notin Stranded, m \in Stranded'
  PROVE  StrandedBy(w, m)
<1> USE DEF TypeOK
<1>1. TypeOK /\ BatchMatchesStep /\ ClaimIsExclusive
  BY DEF IInv
<1>2. main'[w] = main[w]
  BY DEF Work, ClaimServed, replicaVars
<1>3. status'[m] = "PROCESSING" /\ \A v \in Workers : m \notin Held(v)'
  BY DEF Stranded, Held
<1>4. status[m] = "PROCESSING" => \E v \in Workers : m \in Held(v)
  BY DEF Stranded
<1>5. CASE Stop(w) \/ Wake(w)
  BY <1>3, <1>4, <1>5 DEF Stop, Wake, Held, rowVars, batchVars
<1>6. CASE \E k \in Messages : PublishAcked(w, k)
  <2>1. PICK k \in Messages : PublishAcked(w, k)
    BY <1>6
  <2>2. \A v \in Workers : Held(v) \subseteq Held(v)'
    BY <1>1, <2>1 DEF PublishAcked, Held
  <2>3. UNCHANGED status
    BY <2>1 DEF PublishAcked, rowVars
  <2> QED
    BY <1>3, <1>4, <2>2, <2>3
<1>7. CASE \E k \in Messages, handed \in {0, 1} : PublishFails(w, k, handed)
  <2>1. PICK k \in Messages, handed \in {0, 1} : PublishFails(w, k, handed)
    BY <1>7
  <2>2. failing[w] = None
    BY <1>1, <2>1 DEF BatchMatchesStep, PublishFails
  <2>3. k # None
    BY MessageAssumption
  <2>4. \A v \in Workers : Held(v) \subseteq Held(v)'
    BY <1>1, <2>1, <2>2, <2>3 DEF PublishFails, Held
  <2>5. UNCHANGED status
    BY <2>1 DEF PublishFails, rowVars
  <2> QED
    BY <1>3, <1>4, <2>4, <2>5
<1>8. CASE Claim(w)
  <2>1. Held(w) = {}
    BY <1>1, <1>8 DEF Claim, BatchMatchesStep, Held
  <2>2. \A v \in Workers \ {w} : Held(v)' = Held(v)
    BY <1>8 DEF Claim, Held
  <2>3. Oldest \subseteq Held(w)'
    BY <1>1, <1>8 DEF Claim, Held
  <2>4. m \notin Oldest => status'[m] = status[m]
    BY <1>8 DEF Claim, ClaimRows
  <2> QED
    BY <1>3, <1>4, <2>1, <2>2, <2>3, <2>4
<1>9. CASE NothingToClaim(w)
  <2>1. Held(w) = {}
    BY <1>1, <1>9 DEF NothingToClaim, BatchMatchesStep, Held
  <2>2. \A v \in Workers : Held(v)' = Held(v)
    BY <1>1, <1>9, <2>1, ReturningEmptyKeepsBatch DEF NothingToClaim
  <2>3. UNCHANGED status
    BY <1>9 DEF NothingToClaim, rowVars
  <2> QED
    BY <1>3, <1>4, <2>2, <2>3
<1>10. CASE MarkFailed(w)
  <2>1. failing[w] \in Messages /\ failing[w] \in Held(w)
    BY <1>1, <1>10 DEF MarkFailed, BatchMatchesStep, Held
  <2>2. status[failing[w]] = "PROCESSING"
    BY <1>1, <2>1 DEF ClaimIsExclusive
  <2>3. m # failing[w] /\ status[m] = "PROCESSING"
    BY <1>3, <1>10, <2>1, <2>2 DEF MarkFailed, Mark
  <2>4. \A v \in Workers : Held(v) \ {failing[w]} \subseteq Held(v)'
    BY <1>1, <1>10 DEF MarkFailed, Held
  <2> QED
    BY <1>3, <1>4, <2>3, <2>4
<1>11. CASE MarkPublished(w)
  <2>1. Held(w) = acked[w]
    BY <1>1, <1>11 DEF MarkPublished, BatchMatchesStep, Held
  <2>2. status[m] = "PROCESSING" /\ m \notin acked[w]
    BY <1>3, <1>11 DEF MarkPublished, Mark
  <2>3. \A v \in Workers \ {w} : Held(v)' = Held(v)
    BY <1>11 DEF MarkPublished, Return, Held
  <2> QED
    BY <1>3, <1>4, <2>1, <2>2, <2>3
<1>12. CASE ClaimFails(w)
  <2>1. Held(w) = {}
    BY <1>1, <1>12 DEF ClaimFails, BatchMatchesStep, Held
  <2>2. \A v \in Workers : Held(v)' = Held(v)
    BY <1>1, <1>12, <2>1, ReturningEmptyKeepsBatch DEF ClaimFails
  <2>3. m \notin Oldest => status'[m] = status[m]
    BY <1>12 DEF ClaimFails, ClaimRows
  <2>4. m \in Oldest
    BY <1>3, <1>4, <2>2, <2>3
  <2>5. pc[w] = "poll" /\ pc'[w] # "poll"
    BY <1>1, <1>12 DEF ClaimFails, Return
  <2> QED
    BY <1>2, <2>4, <2>5 DEF StrandedBy, AskedFor
<1>13. ASSUME UNCHANGED status, \A v \in Workers \ {w} : Held(v)' = Held(v)
       PROVE  m \in Held(w)
  BY <1>3, <1>4, <1>13
<1>14. CASE MarkFailedFails(w)
  <2>1. UNCHANGED status /\ \A v \in Workers \ {w} : Held(v)' = Held(v)
    BY <1>1, <1>14 DEF MarkFailedFails, Return, Held, rowVars
  <2>2. m \in Held(w)
    BY <1>13, <2>1
  <2>3. CASE cancelled[w]
    BY <2>2, <2>3 DEF StrandedBy
  <2>4. CASE ~cancelled[w]
    <3>1. Held(w) \ {failing[w]} \subseteq Held(w)'
      BY <1>1, <1>14, <2>4 DEF MarkFailedFails, Held
    <3>2. m = failing[w]
      BY <1>3, <2>2, <3>1
    <3>3. pc[w] = "markFailed" /\ pc'[w] # "markFailed"
      BY <1>1, <1>14, <2>4 DEF MarkFailedFails
    <3> QED
      BY <1>2, <3>2, <3>3 DEF StrandedBy, AskedFor
  <2> QED
    BY <2>3, <2>4
<1>15. CASE MarkPublishedFails(w)
  <2>1. UNCHANGED status /\ \A v \in Workers \ {w} : Held(v)' = Held(v)
    BY <1>1, <1>15 DEF MarkPublishedFails, Return, Held, rowVars
  <2>2. Held(w) = acked[w]
    BY <1>1, <1>15 DEF MarkPublishedFails, BatchMatchesStep, Held
  <2>3. m \in acked[w]
    BY <1>13, <2>1, <2>2
  <2>4. pc[w] = "publish" /\ todo[w] = {} /\ pc'[w] # "publish"
    BY <1>1, <1>15 DEF MarkPublishedFails, Return
  <2> QED
    BY <1>2, <2>3, <2>4 DEF StrandedBy, AskedFor
<1>16. CASE \E k \in Messages, handed \in {0, 1} : Abandon(w, k, handed)
  <2>1. PICK k \in Messages, handed \in {0, 1} : Abandon(w, k, handed)
    BY <1>16
  <2>2. UNCHANGED status /\ \A v \in Workers \ {w} : Held(v)' = Held(v)
    BY <1>1, <2>1 DEF Abandon, Return, Held, rowVars
  <2>3. cancelled[w]
    BY <2>1 DEF Abandon
  <2> QED
    BY <1>13, <2>2, <2>3 DEF StrandedBy
<1> QED
  BY <1>5, <1>6, <1>7, <1>8, <1>9, <1>10, <1>11, <1>12, <1>14, <1>15, <1>16, Zenon DEF Work, ClaimServed

LEMMA ExitStrandsWithCause ==
  ASSUME IInv, LInv, NEW w \in Workers, Exit(w), NEW m \in Messages, m \notin Stranded, m \in Stranded'
  PROVE  StrandedBy(w, m)
<1> USE DEF TypeOK
<1>1. TypeOK
  BY DEF IInv
<1>2. main[w] = "closing" /\ main'[w] = "exited"
  BY DEF Exit, Goto, LInv, LifecycleTypeOK
<1>3. CASE pc[w] = "stopped"
  <2>1. UNCHANGED outboxVars
    BY <1>3 DEF Exit
  <2> QED
    BY <2>1 DEF Stranded, Held, outboxVars, rowVars, workerVars, batchVars
<1>4. CASE pc[w] # "stopped"
  <2>1. Crash(w)
    BY <1>4 DEF Exit
  <2>2. UNCHANGED status /\ \A v \in Workers \ {w} : Held(v)' = Held(v)
    BY <1>1, <2>1 DEF Crash, Held, rowVars
  <2>3. m \in Held(w)
    BY <2>2 DEF Stranded
  <2>4. expired[w]
    BY <1>2, <1>4 DEF LInv, LifecycleTypeOK, ProgressKnown, Progress
  <2> QED
    BY <1>2, <2>3, <2>4 DEF StrandedBy
<1> QED
  BY <1>3, <1>4

LEMMA StepStrandsWithCause ==
  ASSUME IInv, LInv, [LifecycleNext]_vars, NEW m \in Messages, m \notin Stranded, m \in Stranded'
  PROVE  \E w \in Workers : StrandedBy(w, m)
<1> USE DEF TypeOK
<1>1. TypeOK
  BY DEF IInv
<1>2. ~(UNCHANGED << todo, acked, failing >> /\ (status'[m] = "PROCESSING" => status[m] = "PROCESSING"))
  BY DEF Stranded, Held
<1>3. ~UNCHANGED outboxVars
  BY <1>2 DEF outboxVars, workerVars, batchVars, rowVars
<1>4. ASSUME NEW k \in Messages, Around(k)
      PROVE  FALSE
  BY <1>2, <1>4 DEF Around, RetryDue, DeliverLate, DropLate, workerVars, batchVars, rowVars
<1>5. ASSUME NEW w \in Workers, Replica(w)
      PROVE  StrandedBy(w, m)
  <2>1. CASE Receive(w) \/ Acquire(w) \/ Finish(w) \/ ListenerFails(w) \/ Deadline(w)
    BY <1>3, <2>1 DEF Receive, Acquire, Finish, ListenerFails, Deadline
  <2>2. CASE Release(w)
    BY <1>1, <1>2, <1>3, <2>2 DEF Release, Create, workerVars, batchVars
  <2>3. CASE Sigterm(w)
    BY <1>2, <2>3 DEF Sigterm, Signal, batchVars, rowVars
  <2>4. CASE Work(w)
    BY <2>4, WorkStrandsWithCause
  <2>5. CASE StopWaiting(w) \/ ShutdownReturns(w) \/ LeaveLoop(w) \/ CloseResource(w)
    BY <1>3, <2>5 DEF StopWaiting, ShutdownReturns, LeaveLoop, CloseResource
  <2>6. CASE CallShutdown(w)
    BY <1>2, <1>3, <2>6 DEF CallShutdown, Drain, batchVars, rowVars
  <2>7. CASE Exit(w)
    BY <2>7, ExitStrandsWithCause
  <2>8. CASE Replace(w)
    BY <1>2, <2>8 DEF Replace, Restart, batchVars, rowVars
  <2> QED
    BY <1>5, <2>1, <2>2, <2>3, <2>4, <2>5, <2>6, <2>7, <2>8, Zenon DEF Replica, Run
<1>6. ~UNCHANGED vars
  BY <1>3 DEF vars
<1> QED
  BY <1>4, <1>5, <1>6, Zenon DEF LifecycleNext

(* Every row that is left in PROCESSING was let go by a worker whose statement      *)
(* about it failed, whose context had ended, or whose process exited past its       *)
(* deadline; the errors of one row, drains and ends in order cost no other.         *)
THEOREM StrandingIsExplained == LifecycleSpec => StrandingHasCause
<1>1. IInv /\ LInv /\ [LifecycleNext]_vars
        => [\A m \in Stranded' \ Stranded : \E w \in Workers : StrandedBy(w, m)]_vars
  <2> SUFFICES ASSUME IInv, LInv, [LifecycleNext]_vars, NEW m \in Stranded' \ Stranded
               PROVE  \E w \in Workers : StrandedBy(w, m)
    OBVIOUS
  <2>1. m \in Messages
    BY DEF Stranded
  <2> QED
    BY <2>1, StepStrandsWithCause
<1> QED
  BY <1>1, LifecycleInvariant, PTL DEF LifecycleSpec, StrandingHasCause

----------------------------------------------------------------------------
(* The end of a replica, without the fairness that brings it about: what is  *)
(* broken stays so, and every step of Run leads towards the exit.            *)

Broken(w) == cancelled[w] \/ SomethingEnded(w)

(* How many steps Run has before it, at most.                                *)
StepsToExit(w) ==
  CASE main[w] = "waiting" -> 11
    [] main[w] = "loop"    -> 2 * left[w] + 4
    [] main[w] = "called"  -> 2 * left[w] + 3
    [] main[w] = "closing" -> IF "producer" \in open[w] THEN 3 ELSE IF open[w] # {} THEN 2 ELSE 1
    [] main[w] = "exited"  -> 0

RunStays(w) == main'[w] = main[w] /\ left'[w] = left[w] /\ open'[w] = open[w]

Closer(w) ==
  \/ main'[w] = "exited"
  \/ Broken(w)' /\ (RunStays(w) \/ StepsToExit(w)' < StepsToExit(w))

(* A replica that was told to end, or that lost a component, never goes back to    *)
(* waiting, and Run has fewer steps before it after each of its steps.             *)
BrokenComesCloser ==
  \A w \in Workers : Broken(w) /\ main[w] # "exited" => Closer(w)

\* What a replica's own step does to the position of Run.
LEMMA RunComesCloser ==
  ASSUME LInv, NEW w \in Workers, Replica(w), ~Replace(w)
  PROVE  main'[w] = "exited" \/ RunStays(w) \/ StepsToExit(w)' < StepsToExit(w)
<1> USE DEF LInv, LifecycleTypeOK, ProgressKnown, Progress
<1>1. CASE Requests(w) \/ ListenerFails(w) \/ Sigterm(w) \/ Work(w) \/ Deadline(w)
  BY <1>1, RequestsLeaveRun DEF ListenerFails, Sigterm, Work, ClaimServed, Deadline, replicaVars, RunStays
<1>2. CASE StopWaiting(w)
  <2>1. main[w] = "waiting" /\ main'[w] = "loop" /\ left[w] = 3 /\ left'[w] = 3
    BY <1>2 DEF StopWaiting, Goto
  <2> QED
    BY <2>1 DEF StepsToExit
<1>3. CASE CallShutdown(w)
  <2>1. main[w] = "loop" /\ main'[w] = "called" /\ left'[w] = left[w] /\ left[w] \in Nat
    BY <1>3, ComponentsAre DEF CallShutdown, Goto
  <2> QED
    BY <2>1 DEF StepsToExit
<1>4. CASE ShutdownReturns(w)
  <2>1. main[w] = "called" /\ main'[w] = "loop" /\ left'[w] = left[w] - 1 /\ left[w] \in Nat
    BY <1>4, ComponentsAre DEF ShutdownReturns, Goto
  <2> QED
    BY <2>1 DEF StepsToExit
<1>5. CASE LeaveLoop(w)
  <2>1. main[w] = "loop" /\ main'[w] = "closing" /\ left[w] \in Nat
    BY <1>5, ComponentsAre DEF LeaveLoop, Goto
  <2>2. StepsToExit(w)' <= 3 /\ StepsToExit(w) >= 4
    BY <2>1 DEF StepsToExit
  <2> QED
    BY <2>1, <2>2 DEF StepsToExit
<1>6. CASE CloseResource(w)
  <2>1. /\ main[w] = "closing" /\ main'[w] = "closing" /\ open[w] # {}
        /\ open'[w] = IF "producer" \in open[w] THEN open[w] \ {"producer"} ELSE {}
    BY <1>6 DEF CloseResource
  <2> QED
    BY <2>1 DEF StepsToExit
<1>7. CASE Exit(w)
  BY <1>7 DEF Exit, Goto, MainSteps
<1> QED
  BY <1>1, <1>2, <1>3, <1>4, <1>5, <1>6, <1>7, Zenon DEF Replica, Run, Requests

\* Nothing but its replacement mends a replica.
LEMMA BrokenUntilReplaced ==
  ASSUME TypeOK, LInv, NEW w \in Workers, Replica(w), NEW v \in Workers, ~Replace(w) \/ v # w, Broken(v)
  PROVE  Broken(v)' \/ main'[v] = "exited"
<1> USE DEF TypeOK, LInv, LifecycleTypeOK
<1>1. pc[v] = "stopped" => pc'[v] = "stopped"
  BY StoppedUntilReplaced
<1>2. cancelled[v] => cancelled'[v]
  <2>1. CASE Requests(w) \/ ListenerFails(w) \/ Deadline(w)
    BY <2>1, RequestsLeaveRun DEF ListenerFails, Deadline, outboxVars, workerVars, stopVars
  <2>2. CASE Sigterm(w)
    BY <2>2 DEF Sigterm, Signal
  <2>3. CASE Work(w)
    <3>1. Process(w)
      BY <2>3, WorkIsProcess
    <3> QED
      BY <3>1 DEF Process, Stop, Wake, Claim, NothingToClaim, ClaimFails, PublishAcked, PublishFails, Abandon,
                  MarkFailed, MarkFailedFails, MarkPublished, MarkPublishedFails, Return, stopVars
  <2>4. CASE StopWaiting(w) \/ CallShutdown(w) \/ ShutdownReturns(w) \/ LeaveLoop(w) \/ CloseResource(w)
    BY <2>4 DEF StopWaiting, CallShutdown, ShutdownReturns, LeaveLoop, CloseResource, Drain,
                outboxVars, workerVars, stopVars
  <2>5. CASE Exit(w)
    BY <2>5 DEF Exit, Crash, outboxVars, workerVars, stopVars
  <2>6. CASE Replace(w)
    BY <2>6 DEF Replace, Restart
  <2> QED
    BY <2>1, <2>2, <2>3, <2>4, <2>5, <2>6, Zenon DEF Replica, Run, Requests
<1>3. listening[v] # Listeners => listening'[v] # Listeners
  <2>1. listening'[v] \subseteq listening[v]
    <3>1. CASE UNCHANGED listening
      BY <3>1
    <3>2. CASE ListenerFails(w) \/ CallShutdown(w)
      BY <3>2 DEF ListenerFails, CallShutdown
    <3>3. CASE Exit(w) \/ Replace(w)
      BY <3>3 DEF Exit, Replace
    <3>4. CASE Requests(w) \/ Sigterm(w) \/ Work(w) \/ Deadline(w)
               \/ StopWaiting(w) \/ ShutdownReturns(w) \/ LeaveLoop(w) \/ CloseResource(w)
      BY <3>1, <3>4, RequestsLeaveRun DEF Sigterm, Work, ClaimServed, Deadline, StopWaiting, ShutdownReturns,
                        LeaveLoop, CloseResource, replicaVars
    <3> QED
      BY <3>2, <3>3, <3>4, Zenon DEF Replica, Run, Requests
  <2>2. listening[v] \subseteq Listeners
    OBVIOUS
  <2> HIDE DEF TypeOK, LInv, LifecycleTypeOK
  <2> QED
    BY <2>1, <2>2, Zenon
<1> QED
  BY <1>1, <1>2, <1>3 DEF Broken, SomethingEnded

(* A replica that must end comes closer to its exit with each step of Run, at most *)
(* eleven of them, and no step of any replica takes it back.  That Run takes its   *)
(* steps is not said: it waits for a component until the deadline, and in the      *)
(* pool's Close until no request holds a connection.                               *)
THEOREM EndsAreFinal == LifecycleSpec => [][BrokenComesCloser]_vars
<1>1. ASSUME IInv, LInv, LifecycleNext, NEW v \in Workers, Broken(v), main[v] # "exited"
      PROVE  Closer(v)
  <2>1. TypeOK
    BY <1>1 DEF IInv
  <2>2. ASSUME NEW m \in Messages, Around(m)
        PROVE  Closer(v)
    <3>1. UNCHANGED << replicaVars, workerVars >>
      BY <2>2 DEF Around, RetryDue, DeliverLate, DropLate
    <3> QED
      BY <1>1, <3>1 DEF Closer, Broken, SomethingEnded, RunStays, replicaVars, workerVars, stopVars
  <2>3. ASSUME NEW w \in Workers, Replica(w)
        PROVE  Closer(v)
    <3>1. ~Replace(w) \/ v # w
      BY <1>1 DEF Replace
    <3>2. Broken(v)' \/ main'[v] = "exited"
      BY <1>1, <2>1, <2>3, <3>1, BrokenUntilReplaced
    <3>3. CASE v = w
      BY <1>1, <2>3, <3>1, <3>2, <3>3, RunComesCloser DEF Closer
    <3>4. CASE v # w
      BY <1>1, <2>1, <2>3, <3>2, <3>4, OthersKeepProcess DEF Closer, RunStays, LInv
    <3> QED
      BY <3>3, <3>4
  <2> QED
    BY <1>1, <2>2, <2>3 DEF LifecycleNext
<1>2. IInv /\ LInv /\ [LifecycleNext]_vars => [BrokenComesCloser]_vars
  BY <1>1 DEF BrokenComesCloser
<1> QED
  BY <1>2, LifecycleInvariant, PTL DEF LifecycleSpec
============================================================================
