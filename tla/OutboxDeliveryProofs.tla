----------------------- MODULE OutboxDeliveryProofs -----------------------
(***************************************************************************)
(* What holds of OutboxDelivery for any number of workers, events and      *)
(* attempts, any batch size, and with every fault allowed.                 *)
(***************************************************************************)
EXTENDS OutboxDelivery, FiniteSetTheorems, TLAPS

(* Between two calls of process a worker remembers nothing, and it has an    *)
(* entry to mark failed exactly while it marks one.                          *)
BatchMatchesStep ==
  \A w \in Workers :
    /\ pc[w] \notin {"publish", "markFailed"} => todo[w] = {} /\ acked[w] = {}
    /\ failing[w] # None <=> pc[w] = "markFailed"

(* What a worker will mark PUBLISHED is in the topic, as what is marked is.   *)
AckedWasDelivered ==
  \A w \in Workers : \A m \in acked[w] : Deliveries(m) > 0

(* The attempt of an entry still to be published has left no copy yet.        *)
AttemptUnused ==
  \A w \in Workers : \A m \in todo[w] : Deliveries(m) + late[m] < attempts[m]

IInv ==
  /\ TypeOK
  /\ BatchMatchesStep
  /\ ClaimIsExclusive
  /\ AckedWasDelivered /\ PublishedWasDelivered
  /\ AttemptUnused /\ CopiesWithinAttempts

----------------------------------------------------------------------------
(* A record appended to a sequence adds one to the count of its own value and *)
(* leaves the others: what the topic gains from one delivery.                 *)
Copies(s, m) == Cardinality({i \in DOMAIN s : s[i] = m})

LEMMA CopiesAreCounted ==
  ASSUME NEW s \in Seq(Messages), NEW m
  PROVE  Copies(s, m) \in Nat /\ IsFiniteSet({i \in DOMAIN s : s[i] = m})
<1>1. IsFiniteSet(1 .. Len(s))
  BY FS_Interval
<1>2. {i \in DOMAIN s : s[i] = m} \subseteq 1 .. Len(s)
  OBVIOUS
<1> QED
  BY <1>1, <1>2, FS_Subset, FS_CardinalityType DEF Copies

LEMMA CopiesAfterAppend ==
  ASSUME NEW s \in Seq(Messages), NEW m \in Messages, NEW k \in Messages
  PROVE  Copies(Append(s, m), k) = Copies(s, k) + IF k = m THEN 1 ELSE 0
<1> DEFINE Old == {i \in DOMAIN s : s[i] = k}
           New == {i \in DOMAIN Append(s, m) : Append(s, m)[i] = k}
<1>1. CASE k = m
  <2>1. New = Old \cup {Len(s) + 1}
    BY <1>1
  <2>2. Len(s) + 1 \notin Old
    OBVIOUS
  <2>3. IsFiniteSet(Old)
    BY CopiesAreCounted
  <2> QED
    BY <1>1, <2>1, <2>2, <2>3, FS_AddElement DEF Copies
<1>2. CASE k # m
  <2>1. New = Old
    BY <1>2
  <2>2. Copies(Append(s, m), k) = Copies(s, k)
    BY <2>1 DEF Copies
  <2>3. Copies(s, k) \in Nat
    BY CopiesAreCounted
  <2> QED
    BY <1>2, <2>2, <2>3
<1> QED
  BY <1>1, <1>2

(* One delivery, early or late, counts for its own message only.              *)
LEMMA DeliveryCounts ==
  ASSUME TypeOK, NEW m \in Messages, topic' = Append(topic, m)
  PROVE  /\ \A k \in Messages : Deliveries(k) \in Nat
         /\ \A k \in Messages \ {m} : Deliveries(k)' = Deliveries(k)
         /\ Deliveries(m)' = Deliveries(m) + 1
<1>1. \A k \in Messages : Deliveries(k) = Copies(topic, k) /\ Deliveries(k)' = Copies(Append(topic, m), k)
  BY DEF Deliveries, Copies
<1>2. topic \in Seq(Messages)
  BY DEF TypeOK
<1>3. \A k \in Messages : Copies(topic, k) \in Nat
  BY <1>2, CopiesAreCounted
<1>4. \A k \in Messages : Copies(Append(topic, m), k) = Copies(topic, k) + IF k = m THEN 1 ELSE 0
  BY <1>2, CopiesAfterAppend
<1> QED
  BY <1>1, <1>3, <1>4

LEMMA NothingDelivered ==
  ASSUME TypeOK, topic' = topic
  PROVE  \A k \in Messages : Deliveries(k) \in Nat /\ Deliveries(k)' = Deliveries(k)
<1>1. \A k \in Messages : Deliveries(k) = Copies(topic, k) /\ Deliveries(k)' = Deliveries(k)
  BY DEF Deliveries, Copies
<1>2. topic \in Seq(Messages)
  BY DEF TypeOK
<1> QED
  BY <1>1, <1>2, CopiesAreCounted

(* The claim statement takes rows that are in nobody's hands.                 *)
LEMMA OldestAreFree ==
  Oldest \subseteq {m \in Messages : status[m] \in {"PENDING", "FAILED"}}
BY DEF Oldest, Claimable

----------------------------------------------------------------------------
(* Type correctness.                                                         *)

LEMMA WorkerStepKeepsTypes ==
  ASSUME TypeOK, BatchMatchesStep, NEW w \in Workers, Process(w)
  PROVE  TypeOK'
<1> USE DEF TypeOK, Statuses, WorkerSteps, rowVars, kafkaVars, batchVars, stopVars
<1>1. CASE Stop(w) \/ Wake(w)
  BY <1>1 DEF Stop, Wake
<1>2. CASE Claim(w)
  BY <1>2, OldestAreFree DEF Claim, ClaimRows
<1>3. CASE NothingToClaim(w) \/ ClaimFails(w)
  <2>1. CASE NothingToClaim(w)
    BY <2>1 DEF NothingToClaim, Return
  <2>2. CASE ClaimFails(w)
    BY <2>2 DEF ClaimFails, ClaimRows, Return
  <2> QED
    BY <1>3, <2>1, <2>2
<1>4. CASE \E m \in Messages : PublishAcked(w, m)
  BY <1>4 DEF PublishAcked
<1>5. CASE \E m \in Messages, handed \in {0, 1} : PublishFails(w, m, handed)
  BY <1>5 DEF PublishFails, HandedOver
<1>6. CASE \E m \in Messages, handed \in {0, 1} : Abandon(w, m, handed)
  BY <1>6 DEF Abandon, HandedOver, Return
<1>7. CASE MarkFailed(w)
  BY <1>7 DEF MarkFailed, Mark
<1>8. CASE MarkFailedFails(w)
  BY <1>8 DEF MarkFailedFails, Return
<1>9. CASE MarkPublished(w)
  <2>1. status' \in [Messages -> Statuses]
    BY <1>9 DEF MarkPublished, Mark
  <2> QED
    BY <1>9, <2>1 DEF MarkPublished, Return
<1>10. CASE MarkPublishedFails(w)
  BY <1>10 DEF MarkPublishedFails, Return
<1> QED
  BY <1>1, <1>2, <1>3, <1>4, <1>5, <1>6, <1>7, <1>8, <1>9, <1>10 DEF Process

LEMMA StepKeepsTypes ==
  ASSUME TypeOK, BatchMatchesStep, OutboxNext
  PROVE  TypeOK'
<1> USE DEF TypeOK, Statuses, WorkerSteps, rowVars, kafkaVars, batchVars, stopVars, workerVars
<1>1. CASE \E m \in Messages : Create(m) \/ RetryDue(m)
  BY <1>1 DEF Create, RetryDue
<1>2. CASE \E m \in Messages : DeliverLate(m) \/ DropLate(m)
  <2>1. CASE \E m \in Messages : DeliverLate(m)
    BY <2>1 DEF DeliverLate
  <2>2. CASE \E m \in Messages : DropLate(m)
    BY <2>2 DEF DropLate
  <2> QED
    BY <1>2, <2>1, <2>2
<1>3. CASE \E w \in Workers : Process(w)
  BY <1>3, WorkerStepKeepsTypes
<1>4. CASE \E w \in Workers : Signal(w) \/ Drain(w) \/ Crash(w) \/ Restart(w)
  <2>1. CASE \E w \in Workers : Signal(w) \/ Drain(w)
    BY <2>1 DEF Signal, Drain
  <2>2. CASE \E w \in Workers : Crash(w)
    BY <2>2 DEF Crash
  <2>3. CASE \E w \in Workers : Restart(w)
    BY <2>3 DEF Restart
  <2> QED
    BY <1>4, <2>1, <2>2, <2>3
<1> QED
  BY <1>1, <1>2, <1>3, <1>4 DEF OutboxNext

----------------------------------------------------------------------------
(* The batch of a worker and its step.                                       *)

LEMMA WorkerStepKeepsBatch ==
  ASSUME TypeOK, BatchMatchesStep, NEW w \in Workers, Process(w)
  PROVE  BatchMatchesStep'
<1> USE MessageAssumption DEF TypeOK, BatchMatchesStep, rowVars, kafkaVars, batchVars, stopVars
<1>1. CASE Stop(w)
  BY <1>1 DEF Stop
<1>2. CASE Wake(w)
  BY <1>2 DEF Wake
<1>3. CASE Claim(w)
  BY <1>3 DEF Claim
<1>4. CASE NothingToClaim(w)
  BY <1>4 DEF NothingToClaim, Return
<1>5. CASE ClaimFails(w)
  BY <1>5 DEF ClaimFails, Return
<1>6. CASE \E m \in Messages : PublishAcked(w, m)
  BY <1>6 DEF PublishAcked
<1>7. CASE \E m \in Messages, handed \in {0, 1} : PublishFails(w, m, handed)
  BY <1>7 DEF PublishFails, HandedOver
<1>8. CASE \E m \in Messages, handed \in {0, 1} : Abandon(w, m, handed)
  BY <1>8 DEF Abandon, HandedOver, Return
<1>9. CASE MarkFailed(w)
  BY <1>9 DEF MarkFailed
<1>10. CASE MarkFailedFails(w)
  BY <1>10 DEF MarkFailedFails, Return
<1>11. CASE MarkPublished(w)
  BY <1>11 DEF MarkPublished, Return
<1>12. CASE MarkPublishedFails(w)
  BY <1>12 DEF MarkPublishedFails, Return
<1> QED
  BY <1>1, <1>2, <1>3, <1>4, <1>5, <1>6, <1>7, <1>8, <1>9, <1>10, <1>11, <1>12 DEF Process

LEMMA StepKeepsBatch ==
  ASSUME TypeOK, BatchMatchesStep, OutboxNext
  PROVE  BatchMatchesStep'
<1> USE MessageAssumption DEF TypeOK, BatchMatchesStep, batchVars, workerVars
<1>1. CASE \E m \in Messages : Create(m) \/ RetryDue(m) \/ DeliverLate(m) \/ DropLate(m)
  BY <1>1 DEF Create, RetryDue, DeliverLate, DropLate
<1>2. CASE \E w \in Workers : Process(w)
  BY <1>2, WorkerStepKeepsBatch
<1>3. CASE \E w \in Workers : Signal(w) \/ Drain(w)
  BY <1>3 DEF Signal, Drain
<1>4. CASE \E w \in Workers : Crash(w)
  BY <1>4 DEF Crash
<1>5. CASE \E w \in Workers : Restart(w)
  BY <1>5 DEF Restart
<1> QED
  BY <1>1, <1>2, <1>3, <1>4, <1>5 DEF OutboxNext

----------------------------------------------------------------------------
(* Claims are exclusive.                                                     *)

(* What a worker forgets it does not get back, and others forget nothing.     *)
LEMMA ReturnForgets ==
  ASSUME TypeOK, NEW w \in Workers, NEW again, Return(w, again)
  PROVE  \A v \in Workers : /\ todo'[v] \subseteq todo[v]
                            /\ acked'[v] \subseteq acked[v]
                            /\ failing'[v] \in {failing[v], None}
BY DEF TypeOK, Return

(* A claim survives every step that gives nobody an entry it did not hold and *)
(* leaves the rows of the entries still held in PROCESSING.                    *)
LEMMA HoldingLessKeepsClaims ==
  ASSUME ClaimIsExclusive,
         \A v \in Workers : Held(v)' \subseteq Held(v),
         \A v \in Workers : \A m \in Held(v)' : status'[m] = "PROCESSING",
         \A v \in Workers : /\ todo'[v] \cap acked'[v] = {}
                            /\ failing'[v] \notin todo'[v] \cup acked'[v]
  PROVE  ClaimIsExclusive'
BY DEF ClaimIsExclusive

LEMMA ForgettingKeepsClaims ==
  ASSUME TypeOK, ClaimIsExclusive,
         \A m \in Messages : status[m] = "PROCESSING" => status'[m] = "PROCESSING",
         \A v \in Workers : /\ todo'[v] \subseteq todo[v]
                            /\ acked'[v] \subseteq acked[v]
                            /\ failing'[v] \in {failing[v], None}
  PROVE  ClaimIsExclusive'
<1>1. \A v \in Workers : Held(v)' \subseteq Held(v)
  BY DEF Held
<1>2. \A v \in Workers : \A m \in Held(v) : m \in Messages /\ status[m] = "PROCESSING"
  BY DEF Held, TypeOK, ClaimIsExclusive
<1>3. \A v \in Workers : \A m \in Held(v)' : status'[m] = "PROCESSING"
  BY <1>1, <1>2
<1>4. \A v \in Workers : todo'[v] \cap acked'[v] = {} /\ failing'[v] \notin todo'[v] \cup acked'[v]
  BY MessageAssumption DEF TypeOK, ClaimIsExclusive
<1> QED
  BY <1>1, <1>3, <1>4, HoldingLessKeepsClaims

LEMMA ClaimKeepsClaims ==
  ASSUME TypeOK, BatchMatchesStep, ClaimIsExclusive, NEW w \in Workers, Claim(w)
  PROVE  ClaimIsExclusive'
<1>1. todo'[w] = Oldest /\ acked'[w] = {} /\ failing'[w] = None
  BY DEF Claim, TypeOK, BatchMatchesStep
<1>2. \A v \in Workers \ {w} : todo'[v] = todo[v] /\ acked'[v] = acked[v] /\ failing'[v] = failing[v]
  BY DEF Claim, TypeOK
<1>3. \A m \in Messages : status'[m] = "PROCESSING" <=> status[m] = "PROCESSING" \/ m \in Oldest
  BY DEF Claim, ClaimRows, TypeOK
<1>4. Oldest \subseteq Messages /\ \A m \in Oldest : status[m] # "PROCESSING"
  BY OldestAreFree
<1>5. Held(w)' = Oldest /\ \A v \in Workers \ {w} : Held(v)' = Held(v)
  BY <1>1, <1>2 DEF Held
<1>6. \A v \in Workers : \A m \in Held(v) :
        m \in Messages /\ status[m] = "PROCESSING" /\ \A u \in Workers \ {v} : m \notin Held(u)
  BY DEF Held, TypeOK, ClaimIsExclusive
<1>7. \A v \in Workers : Held(v) \cap Oldest = {}
  BY <1>4, <1>6
<1>8. \A v \in Workers : todo'[v] \cap acked'[v] = {} /\ failing'[v] \notin todo'[v] \cup acked'[v]
  <2>1. failing'[w] \notin todo'[w]
    BY <1>1, <1>4, MessageAssumption
  <2>2. \A v \in Workers \ {w} : todo'[v] \cap acked'[v] = {} /\ failing'[v] \notin todo'[v] \cup acked'[v]
    BY <1>2 DEF ClaimIsExclusive
  <2> QED
    BY <1>1, <2>1, <2>2
<1>9. ASSUME NEW v \in Workers, NEW m, m \in Held(v)'
      PROVE  status'[m] = "PROCESSING" /\ \A u \in Workers \ {v} : m \notin Held(u)'
  <2>1. CASE v = w
    <3>1. m \in Oldest
      BY <1>5, <1>9, <2>1
    <3>2. \A u \in Workers \ {w} : m \notin Held(u)'
      BY <1>5, <1>7, <3>1
    <3> QED
      BY <1>3, <1>4, <2>1, <3>1, <3>2
  <2>2. CASE v # w
    <3>1. m \in Held(v)
      BY <1>5, <1>9, <2>2
    <3>2. m \in Messages /\ status[m] = "PROCESSING" /\ m \notin Oldest
      BY <1>6, <1>7, <3>1
    <3>3. \A u \in Workers \ {v} : m \notin Held(u)'
      BY <1>5, <1>6, <3>1, <3>2
    <3> QED
      BY <1>3, <3>2, <3>3
  <2> QED
    BY <2>1, <2>2
<1> QED
  BY <1>8, <1>9 DEF ClaimIsExclusive

LEMMA PublishKeepsClaims ==
  ASSUME TypeOK, BatchMatchesStep, ClaimIsExclusive, NEW w \in Workers, NEW m \in Messages,
         PublishAcked(w, m) \/ \E handed \in {0, 1} : PublishFails(w, m, handed)
  PROVE  ClaimIsExclusive'
<1>1. status' = status /\ m \in todo[w] /\ todo'[w] = todo[w] \ {m} /\ failing[w] = None
  BY DEF PublishAcked, PublishFails, HandedOver, rowVars, TypeOK, BatchMatchesStep
<1>2. \A v \in Workers \ {w} : todo'[v] = todo[v] /\ acked'[v] = acked[v] /\ failing'[v] = failing[v]
  BY DEF PublishAcked, PublishFails, HandedOver, TypeOK
<1>3. \/ acked'[w] = acked[w] \cup {m} /\ failing'[w] = None
      \/ acked'[w] = acked[w] /\ failing'[w] = m
  BY <1>1 DEF PublishAcked, PublishFails, HandedOver, TypeOK
<1>4. \A v \in Workers : Held(v)' \subseteq Held(v)
  <2>1. Held(w)' \subseteq Held(w)
    BY <1>1, <1>3 DEF Held
  <2>2. \A v \in Workers \ {w} : Held(v)' \subseteq Held(v)
    BY <1>2 DEF Held
  <2> QED
    BY <2>1, <2>2
<1>5. \A v \in Workers : \A k \in Held(v)' : status'[k] = "PROCESSING"
  BY <1>1, <1>4 DEF ClaimIsExclusive
<1>6. \A v \in Workers : todo'[v] \cap acked'[v] = {} /\ failing'[v] \notin todo'[v] \cup acked'[v]
  <2>1. m \notin acked[w] /\ None \notin todo[w] \cup acked[w] /\ m # None
    BY <1>1, MessageAssumption DEF ClaimIsExclusive, TypeOK
  <2>2. todo[w] \cap acked[w] = {}
    BY DEF ClaimIsExclusive
  <2>3. todo'[w] \cap acked'[w] = {} /\ failing'[w] \notin todo'[w] \cup acked'[w]
    BY <1>1, <1>3, <2>1, <2>2
  <2>4. \A v \in Workers \ {w} : todo'[v] \cap acked'[v] = {} /\ failing'[v] \notin todo'[v] \cup acked'[v]
    BY <1>2 DEF ClaimIsExclusive
  <2> QED
    BY <2>3, <2>4
<1> QED
  BY <1>4, <1>5, <1>6, HoldingLessKeepsClaims

(* MarkFailed and MarkPublished let go of exactly the rows they change.        *)
LEMMA MarkKeepsClaims ==
  ASSUME TypeOK, BatchMatchesStep, ClaimIsExclusive, NEW w \in Workers,
         MarkFailed(w) \/ MarkPublished(w)
  PROVE  ClaimIsExclusive'
<1> DEFINE marked == IF MarkFailed(w) THEN {failing[w]} ELSE acked[w]
<1>1. \A v \in Workers : /\ todo'[v] \subseteq todo[v]
                         /\ acked'[v] \subseteq acked[v]
                         /\ failing'[v] \in {failing[v], None}
  <2>1. CASE MarkFailed(w)
    BY <2>1 DEF MarkFailed, TypeOK
  <2>2. CASE MarkPublished(w)
    BY <2>2, ReturnForgets DEF MarkPublished
  <2> QED
    BY <2>1, <2>2
<1>2. marked \subseteq Held(w) /\ marked \cap Held(w)' = {}
  <2>1. CASE MarkFailed(w)
    <3>1. failing[w] # None /\ failing'[w] = None /\ todo' = todo /\ acked' = acked
      BY <2>1 DEF MarkFailed, BatchMatchesStep, TypeOK
    <3>2. failing[w] \notin todo[w] \cup acked[w]
      BY DEF ClaimIsExclusive
    <3> QED
      BY <2>1, <3>1, <3>2 DEF Held
  <2>2. CASE ~MarkFailed(w)
    <3>1. todo'[w] = {} /\ acked'[w] = {} /\ failing'[w] = None
      BY <2>2 DEF MarkPublished, Return, TypeOK
    <3> QED
      BY <2>2, <3>1 DEF Held
  <2> QED
    BY <2>1, <2>2
<1>3. \A m \in Messages \ marked : status'[m] = status[m]
  <2>1. CASE MarkFailed(w)
    BY <2>1 DEF MarkFailed, Mark
  <2>2. CASE ~MarkFailed(w)
    BY <2>2 DEF MarkPublished, Mark
  <2> QED
    BY <2>1, <2>2
<1> HIDE DEF marked
<1>4. \A v \in Workers : Held(v)' \subseteq Held(v)
  BY <1>1 DEF Held
<1>5. \A v \in Workers : \A m \in Held(v) :
        m \in Messages /\ status[m] = "PROCESSING" /\ \A u \in Workers \ {v} : m \notin Held(u)
  BY DEF Held, TypeOK, ClaimIsExclusive
<1>6. \A v \in Workers : \A m \in Held(v)' : m \notin marked
  <2>1. \A v \in Workers \ {w} : \A m \in Held(v)' : m \notin marked
    BY <1>2, <1>4, <1>5
  <2> QED
    BY <1>2, <2>1
<1>7. \A v \in Workers : \A m \in Held(v)' : status'[m] = "PROCESSING"
  BY <1>3, <1>4, <1>5, <1>6
<1>8. \A v \in Workers : todo'[v] \cap acked'[v] = {} /\ failing'[v] \notin todo'[v] \cup acked'[v]
  BY <1>1, MessageAssumption DEF TypeOK, ClaimIsExclusive
<1> QED
  BY <1>4, <1>7, <1>8, HoldingLessKeepsClaims

LEMMA WorkerStepKeepsClaims ==
  ASSUME TypeOK, BatchMatchesStep, ClaimIsExclusive, NEW w \in Workers, Process(w)
  PROVE  ClaimIsExclusive'
<1>1. CASE Stop(w) \/ Wake(w)
  <2>1. status' = status /\ todo' = todo /\ acked' = acked /\ failing' = failing
    BY <1>1 DEF Stop, Wake, rowVars, batchVars
  <2> QED
    BY <2>1, ForgettingKeepsClaims
<1>2. CASE Claim(w)
  BY <1>2, ClaimKeepsClaims
<1>3. CASE ClaimFails(w)
  <2>1. \A m \in Messages : status[m] = "PROCESSING" => status'[m] = "PROCESSING"
    BY <1>3 DEF ClaimFails, ClaimRows
  <2> QED
    BY <1>3, <2>1, ReturnForgets, ForgettingKeepsClaims DEF ClaimFails
<1>4. CASE \/ NothingToClaim(w) \/ MarkPublishedFails(w)
           \/ \E m \in Messages, handed \in {0, 1} : Abandon(w, m, handed)
  <2>1. status' = status /\ Return(w, FALSE)
    BY <1>4 DEF NothingToClaim, MarkPublishedFails, Abandon, HandedOver, rowVars
  <2> QED
    BY <2>1, ReturnForgets, ForgettingKeepsClaims
<1>5. CASE \E m \in Messages : PublishAcked(w, m) \/ \E handed \in {0, 1} : PublishFails(w, m, handed)
  BY <1>5, PublishKeepsClaims
<1>6. CASE MarkFailed(w) \/ MarkPublished(w)
  BY <1>6, MarkKeepsClaims
<1>7. CASE MarkFailedFails(w)
  <2>1. status' = status
    BY <1>7 DEF MarkFailedFails, rowVars
  <2>2. CASE Return(w, FALSE)
    BY <2>1, <2>2, ReturnForgets, ForgettingKeepsClaims
  <2>3. CASE todo' = todo /\ acked' = acked /\ failing' = [failing EXCEPT ![w] = None]
    <3>1. \A v \in Workers : failing'[v] \in {failing[v], None}
      BY <2>3 DEF TypeOK
    <3> QED
      BY <2>1, <2>3, <3>1, ForgettingKeepsClaims
  <2> QED
    BY <1>7, <2>2, <2>3 DEF MarkFailedFails
<1> QED
  BY <1>1, <1>2, <1>3, <1>4, <1>5, <1>6, <1>7 DEF Process

LEMMA StepKeepsClaims ==
  ASSUME TypeOK, BatchMatchesStep, ClaimIsExclusive, OutboxNext
  PROVE  ClaimIsExclusive'
<1> USE MessageAssumption DEF TypeOK, ClaimIsExclusive, Held, batchVars, workerVars
<1>1. CASE \E m \in Messages : Create(m)
  BY <1>1 DEF Create
<1>2. CASE \E m \in Messages : RetryDue(m) \/ DeliverLate(m) \/ DropLate(m)
  BY <1>2 DEF RetryDue, DeliverLate, DropLate, rowVars
<1>3. CASE \E w \in Workers : Process(w)
  BY <1>3, WorkerStepKeepsClaims
<1>4. CASE \E w \in Workers : Signal(w) \/ Drain(w) \/ Restart(w)
  BY <1>4 DEF Signal, Drain, Restart, rowVars
<1>5. CASE \E w \in Workers : Crash(w)
  BY <1>5 DEF Crash, rowVars
<1> QED
  BY <1>1, <1>2, <1>3, <1>4, <1>5 DEF OutboxNext

----------------------------------------------------------------------------
(* What is marked published was delivered.                                   *)

LEMMA TopicGrows ==
  ASSUME OutboxNext
  PROVE  topic' = topic \/ \E m \in Messages : topic' = Append(topic, m)
<1> USE DEF kafkaVars
<1>1. CASE \E m \in Messages : Create(m) \/ RetryDue(m) \/ DeliverLate(m) \/ DropLate(m)
  BY <1>1 DEF Create, RetryDue, DeliverLate, DropLate
<1>2. CASE \E w \in Workers : Signal(w) \/ Drain(w) \/ Crash(w) \/ Restart(w)
  BY <1>2 DEF Signal, Drain, Crash, Restart
<1>3. CASE \E w \in Workers : Process(w)
  BY <1>3 DEF Process, Stop, Wake, Claim, NothingToClaim, ClaimFails, PublishAcked, PublishFails, HandedOver,
              Abandon, MarkFailed, MarkFailedFails, MarkPublished, MarkPublishedFails
<1> QED
  BY <1>1, <1>2, <1>3 DEF OutboxNext

(* A record is never taken back from the topic.                               *)
LEMMA DeliveredStays ==
  ASSUME TypeOK, OutboxNext
  PROVE  \A k \in Messages : /\ Deliveries(k) \in Nat /\ Deliveries(k)' \in Nat
                             /\ Deliveries(k)' >= Deliveries(k)
<1>1. CASE topic' = topic
  BY <1>1, NothingDelivered
<1>2. CASE \E m \in Messages : topic' = Append(topic, m)
  <2>1. PICK m \in Messages : topic' = Append(topic, m)
    BY <1>2
  <2> QED
    BY <2>1, DeliveryCounts
<1> QED
  BY <1>1, <1>2, TopicGrows

(* Only an acknowledged entry joins `published`.                              *)
LEMMA AckedGrowsByDelivery ==
  ASSUME TypeOK, OutboxNext, NEW v \in Workers, NEW m \in acked'[v]
  PROVE  m \in acked[v] \/ (m \in Messages /\ Deliveries(m)' > 0)
<1> USE DEF TypeOK, batchVars, workerVars
<1>1. CASE \E k \in Messages : Create(k) \/ RetryDue(k) \/ DeliverLate(k) \/ DropLate(k)
  BY <1>1 DEF Create, RetryDue, DeliverLate, DropLate
<1>2. CASE \E w \in Workers : Signal(w) \/ Drain(w) \/ Crash(w) \/ Restart(w)
  BY <1>2 DEF Signal, Drain, Crash, Restart
<1>3. CASE \E w \in Workers, k \in Messages : PublishAcked(w, k)
  <2>1. PICK w \in Workers, k \in Messages : PublishAcked(w, k)
    BY <1>3
  <2>2. Deliveries(k)' > 0
    BY <2>1, DeliveryCounts DEF PublishAcked
  <2>3. m \in acked[v] \/ m = k
    BY <2>1 DEF PublishAcked
  <2> QED
    BY <2>2, <2>3
<1>4. CASE \E w \in Workers : \/ Stop(w) \/ Wake(w) \/ Claim(w) \/ MarkFailed(w)
                              \/ \E k \in Messages, h \in {0, 1} : PublishFails(w, k, h)
  BY <1>4 DEF Stop, Wake, Claim, MarkFailed, PublishFails, HandedOver
<1>5. CASE \E w \in Workers : \/ NothingToClaim(w) \/ ClaimFails(w)
                              \/ \E k \in Messages, h \in {0, 1} : Abandon(w, k, h)
                              \/ MarkPublished(w) \/ MarkPublishedFails(w)
  BY <1>5 DEF NothingToClaim, ClaimFails, Abandon, HandedOver, MarkPublished, MarkPublishedFails, Return
<1>6. CASE \E w \in Workers : MarkFailedFails(w)
  BY <1>6 DEF MarkFailedFails, Return
<1> QED
  BY <1>1, <1>2, <1>3, <1>4, <1>5, <1>6 DEF OutboxNext, Process

(* Only an entry of `published` is marked.                                    *)
LEMMA MarkedWasAcked ==
  ASSUME TypeOK, OutboxNext, NEW m \in Messages, status'[m] = "PUBLISHED"
  PROVE  status[m] = "PUBLISHED" \/ \E w \in Workers : m \in acked[w]
<1> USE DEF TypeOK, rowVars
<1>1. CASE \E k \in Messages : Create(k) \/ RetryDue(k) \/ DeliverLate(k) \/ DropLate(k)
  BY <1>1 DEF Create, RetryDue, DeliverLate, DropLate
<1>2. CASE \E w \in Workers : Signal(w) \/ Drain(w) \/ Crash(w) \/ Restart(w)
  BY <1>2 DEF Signal, Drain, Crash, Restart
<1>3. CASE \E w \in Workers : MarkPublished(w)
  BY <1>3 DEF MarkPublished, Mark
<1>4. CASE \E w \in Workers : MarkFailed(w)
  BY <1>4 DEF MarkFailed, Mark
<1>5. CASE \E w \in Workers : Claim(w) \/ ClaimFails(w)
  BY <1>5 DEF Claim, ClaimFails, ClaimRows
<1>6. CASE \E w \in Workers : \/ Stop(w) \/ Wake(w) \/ NothingToClaim(w)
                              \/ \E k \in Messages : PublishAcked(w, k)
                              \/ \E k \in Messages, h \in {0, 1} : PublishFails(w, k, h) \/ Abandon(w, k, h)
                              \/ MarkFailedFails(w) \/ MarkPublishedFails(w)
  BY <1>6 DEF Stop, Wake, NothingToClaim, PublishAcked, PublishFails, HandedOver, Abandon,
              MarkFailedFails, MarkPublishedFails
<1> QED
  BY <1>1, <1>2, <1>3, <1>4, <1>5, <1>6 DEF OutboxNext, Process

LEMMA StepKeepsDelivered ==
  ASSUME TypeOK, AckedWasDelivered, PublishedWasDelivered, OutboxNext
  PROVE  AckedWasDelivered' /\ PublishedWasDelivered'
<1>1. ASSUME NEW v \in Workers, NEW m \in acked'[v]
      PROVE  Deliveries(m)' > 0
  <2>1. CASE m \in acked[v]
    BY <2>1, DeliveredStays DEF AckedWasDelivered, TypeOK
  <2> QED
    BY <2>1, AckedGrowsByDelivery
<1>2. ASSUME NEW m \in Messages, status'[m] = "PUBLISHED"
      PROVE  Deliveries(m)' > 0
  <2>1. Deliveries(m) > 0
    BY <1>2, MarkedWasAcked DEF AckedWasDelivered, PublishedWasDelivered
  <2> QED
    BY <2>1, DeliveredStays
<1> QED
  BY <1>1, <1>2 DEF AckedWasDelivered, PublishedWasDelivered

----------------------------------------------------------------------------
(* No attempt leaves two copies.                                             *)

(* Of an entry still to be published a step may spend the one copy its attempt *)
(* has, if it then drops the entry from the batch; entries join a batch only   *)
(* with a new attempt; for the rest copies and late records do not increase.   *)
LEMMA CopiesBudget ==
  ASSUME TypeOK, TypeOK', OutboxNext, AttemptUnused, CopiesWithinAttempts,
         NEW spent \in SUBSET Messages,
         \A k \in spent : \E v \in Workers : k \in todo[v],
         \A k \in Messages :
           /\ Deliveries(k)' + late'[k] <= Deliveries(k) + late[k] + IF k \in spent THEN 1 ELSE 0
           /\ attempts'[k] >= attempts[k],
         \A v \in Workers : \A k \in todo'[v] :
           k \in todo[v] \ spent \/ attempts'[k] > attempts[k]
  PROVE  AttemptUnused' /\ CopiesWithinAttempts'
<1>1. \A k \in Messages : /\ Deliveries(k) \in Nat /\ Deliveries(k)' \in Nat
                          /\ late[k] \in Nat /\ late'[k] \in Nat
                          /\ attempts[k] \in Nat /\ attempts'[k] \in Nat
  BY DeliveredStays DEF TypeOK
<1>2. ASSUME NEW k \in Messages
      PROVE  Deliveries(k)' + late'[k] <= attempts[k]
  <2>1. CASE k \in spent
    <3>1. Deliveries(k) + late[k] < attempts[k]
      BY <2>1 DEF AttemptUnused
    <3> QED
      BY <1>1, <2>1, <3>1
  <2>2. CASE k \notin spent
    <3>1. Deliveries(k) + late[k] <= attempts[k]
      BY DEF CopiesWithinAttempts
    <3> QED
      BY <1>1, <2>2, <3>1
  <2> QED
    BY <2>1, <2>2
<1>3. CopiesWithinAttempts'
  <2>1. \A k \in Messages : Deliveries(k)' + late'[k] <= attempts'[k]
    BY <1>1, <1>2
  <2> QED
    BY <2>1 DEF CopiesWithinAttempts
<1>4. ASSUME NEW v \in Workers, NEW k \in todo'[v]
      PROVE  Deliveries(k)' + late'[k] < attempts'[k]
  <2>1. k \in Messages
    BY DEF TypeOK
  <2>2. CASE attempts'[k] > attempts[k]
    BY <1>1, <1>2, <2>1, <2>2
  <2>3. CASE k \in todo[v] \ spent
    <3>1. Deliveries(k) + late[k] < attempts[k]
      BY <2>3 DEF AttemptUnused
    <3> QED
      BY <1>1, <2>1, <2>3, <3>1
  <2> QED
    BY <2>2, <2>3
<1> QED
  BY <1>3, <1>4 DEF AttemptUnused

(* A step that delivers nothing, hands nothing over and publishes nothing.     *)
LEMMA QuietStepKeepsCopies ==
  ASSUME TypeOK, TypeOK', OutboxNext, AttemptUnused, CopiesWithinAttempts,
         topic' = topic,
         \A k \in Messages : late'[k] <= late[k] /\ attempts'[k] >= attempts[k],
         \A v \in Workers : \A k \in todo'[v] : k \in todo[v] \/ attempts'[k] > attempts[k]
  PROVE  AttemptUnused' /\ CopiesWithinAttempts'
<1> DEFINE none == {}
<1>1. none \in SUBSET Messages /\ \A k : k \notin none
  OBVIOUS
<1> HIDE DEF none
<1>2. \A k \in Messages : late[k] \in Nat /\ late'[k] \in Nat
  BY DEF TypeOK
<1>3. \A k \in Messages :
        /\ Deliveries(k)' + late'[k] <= Deliveries(k) + late[k] + IF k \in none THEN 1 ELSE 0
        /\ attempts'[k] >= attempts[k]
  BY <1>1, <1>2, NothingDelivered
<1> QED
  BY <1>1, <1>3, CopiesBudget

(* A step that spends the attempt of one claimed entry and lets go of it.      *)
LEMMA SpendingStepKeepsCopies ==
  ASSUME TypeOK, TypeOK', OutboxNext, AttemptUnused, CopiesWithinAttempts, ClaimIsExclusive,
         NEW w \in Workers, NEW m \in todo[w],
         \A k \in Messages :
           Deliveries(k)' + late'[k] <= Deliveries(k) + late[k] + IF k = m THEN 1 ELSE 0,
         attempts' = attempts,
         \A v \in Workers : todo'[v] \subseteq todo[v],
         m \notin todo'[w]
  PROVE  AttemptUnused' /\ CopiesWithinAttempts'
<1>1. m \in Messages
  BY DEF TypeOK
<1>2. \A v \in Workers : m \notin todo'[v]
  <2>1. \A v \in Workers \ {w} : m \notin todo[v]
    BY DEF ClaimIsExclusive, Held
  <2> QED
    BY <2>1
<1>3. \A k \in Messages :
        /\ Deliveries(k)' + late'[k] <= Deliveries(k) + late[k] + IF k \in {m} THEN 1 ELSE 0
        /\ attempts'[k] >= attempts[k]
  BY DEF TypeOK
<1>4. \A v \in Workers : \A k \in todo'[v] : k \in todo[v] \ {m} \/ attempts'[k] > attempts[k]
  BY <1>2
<1> QED
  BY <1>1, <1>3, <1>4, CopiesBudget

LEMMA StepKeepsCopies ==
  ASSUME IInv, OutboxNext, TypeOK'
  PROVE  AttemptUnused' /\ CopiesWithinAttempts'
<1> USE DEF IInv
<1>1. CASE \E m \in Messages : Create(m) \/ RetryDue(m) \/ DropLate(m)
  <2>1. topic' = topic /\ todo' = todo /\ attempts' = attempts
    BY <1>1 DEF Create, RetryDue, DropLate, rowVars, kafkaVars, workerVars, batchVars
  <2>2. \A k \in Messages : late'[k] <= late[k] /\ attempts'[k] >= attempts[k]
    BY <1>1, <2>1 DEF Create, RetryDue, DropLate, kafkaVars, TypeOK
  <2> QED
    BY <2>1, <2>2, QuietStepKeepsCopies
<1>2. CASE \E m \in Messages : DeliverLate(m)
  <2>1. PICK m \in Messages : DeliverLate(m)
    BY <1>2
  <2>2. topic' = Append(topic, m) /\ todo' = todo /\ attempts' = attempts
    BY <2>1 DEF DeliverLate, rowVars, workerVars, batchVars
  <2>3. late'[m] = late[m] - 1 /\ \A k \in Messages \ {m} : late'[k] = late[k]
    BY <2>1 DEF DeliverLate, TypeOK
  <2> DEFINE none == {}
  <2>4. none \in SUBSET Messages /\ \A k : k \notin none
    OBVIOUS
  <2> HIDE DEF none
  <2>5. \A k \in Messages : late[k] \in Nat /\ late'[k] \in Nat
    BY DEF TypeOK
  <2>6. \A k \in Messages : Deliveries(k) \in Nat /\ Deliveries(k)' + late'[k] = Deliveries(k) + late[k]
    <3>1. /\ \A k \in Messages : Deliveries(k) \in Nat
          /\ \A k \in Messages \ {m} : Deliveries(k)' = Deliveries(k)
          /\ Deliveries(m)' = Deliveries(m) + 1
      BY <2>2, DeliveryCounts
    <3>2. \A k \in Messages \ {m} : Deliveries(k)' + late'[k] = Deliveries(k) + late[k]
      BY <2>3, <3>1
    <3>3. Deliveries(m)' + late'[m] = Deliveries(m) + late[m]
      BY <2>3, <2>5, <3>1
    <3> QED
      BY <3>1, <3>2, <3>3
  <2>7. \A k \in Messages :
          /\ Deliveries(k)' + late'[k] <= Deliveries(k) + late[k] + IF k \in none THEN 1 ELSE 0
          /\ attempts'[k] >= attempts[k]
    BY <2>2, <2>4, <2>5, <2>6 DEF TypeOK
  <2> QED
    BY <2>2, <2>4, <2>7, CopiesBudget
<1>3. CASE \E w \in Workers : Signal(w) \/ Drain(w) \/ Crash(w) \/ Restart(w)
  <2>1. topic' = topic /\ late' = late /\ attempts' = attempts
    BY <1>3 DEF Signal, Drain, Crash, Restart, rowVars, kafkaVars
  <2>2. \A v \in Workers : todo'[v] \subseteq todo[v]
    BY <1>3 DEF Signal, Drain, Crash, Restart, batchVars, TypeOK
  <2> QED
    BY <2>1, <2>2, QuietStepKeepsCopies DEF TypeOK
<1>4. CASE \E w \in Workers : Claim(w)
  <2>1. topic' = topic /\ late' = late
    BY <1>4 DEF Claim, kafkaVars
  <2>2. \A k \in Messages : attempts'[k] = attempts[k] + IF k \in Oldest THEN 1 ELSE 0
    BY <1>4 DEF Claim, ClaimRows, TypeOK
  <2>3. \A v \in Workers : todo'[v] \in {todo[v], Oldest}
    BY <1>4 DEF Claim, TypeOK
  <2>4. Oldest \subseteq Messages
    BY OldestAreFree
  <2>5. \A k \in Messages : attempts'[k] >= attempts[k] /\ (k \in Oldest => attempts'[k] > attempts[k])
    BY <2>2 DEF TypeOK
  <2>6. \A k \in Messages : late'[k] <= late[k]
    BY <2>1 DEF TypeOK
  <2> QED
    BY <2>1, <2>3, <2>4, <2>5, <2>6, QuietStepKeepsCopies
<1>5. CASE \E w \in Workers : ClaimFails(w)
  <2>1. topic' = topic /\ late' = late
    BY <1>5 DEF ClaimFails, kafkaVars
  <2>2. \A k \in Messages : attempts'[k] >= attempts[k]
    <3>1. CASE attempts' = attempts
      BY <3>1 DEF TypeOK
    <3>2. CASE ClaimRows(Oldest)
      BY <3>2 DEF ClaimRows, TypeOK
    <3> QED
      BY <1>5, <3>1, <3>2 DEF ClaimFails
  <2>3. \A v \in Workers : todo'[v] \subseteq todo[v]
    BY <1>5 DEF ClaimFails, Return, TypeOK
  <2> QED
    BY <2>1, <2>2, <2>3, QuietStepKeepsCopies DEF TypeOK
<1>6. CASE \E w \in Workers, m \in Messages : PublishAcked(w, m)
  <2>1. PICK w \in Workers, m \in Messages : PublishAcked(w, m)
    BY <1>6
  <2>2. m \in todo[w] /\ topic' = Append(topic, m) /\ late' = late /\ attempts' = attempts
    BY <2>1 DEF PublishAcked, rowVars
  <2>3. m \notin todo'[w] /\ \A v \in Workers : todo'[v] \subseteq todo[v]
    BY <2>1 DEF PublishAcked, TypeOK
  <2>4. \A k \in Messages :
          Deliveries(k)' + late'[k] <= Deliveries(k) + late[k] + IF k = m THEN 1 ELSE 0
    BY <2>2, DeliveryCounts DEF TypeOK
  <2> QED
    BY <2>2, <2>3, <2>4, SpendingStepKeepsCopies
<1>7. CASE \E w \in Workers, m \in Messages, handed \in {0, 1} : PublishFails(w, m, handed) \/ Abandon(w, m, handed)
  <2>1. PICK w \in Workers, m \in Messages, handed \in {0, 1} : PublishFails(w, m, handed) \/ Abandon(w, m, handed)
    BY <1>7
  <2>2. m \in todo[w] /\ topic' = topic /\ attempts' = attempts
    BY <2>1 DEF PublishFails, HandedOver, Abandon, rowVars
  <2>3. late' = [late EXCEPT ![m] = @ + handed]
    BY <2>1 DEF PublishFails, HandedOver, Abandon
  <2>4. m \notin todo'[w] /\ \A v \in Workers : todo'[v] \subseteq todo[v]
    <3>1. CASE PublishFails(w, m, handed)
      BY <3>1 DEF PublishFails, HandedOver, TypeOK
    <3>2. CASE Abandon(w, m, handed)
      BY <3>2 DEF Abandon, HandedOver, Return, TypeOK
    <3> QED
      BY <2>1, <3>1, <3>2
  <2>5. \A k \in Messages :
          Deliveries(k)' + late'[k] <= Deliveries(k) + late[k] + IF k = m THEN 1 ELSE 0
    BY <2>2, <2>3, NothingDelivered DEF TypeOK
  <2> QED
    BY <2>2, <2>4, <2>5, SpendingStepKeepsCopies
<1>8. CASE \E w \in Workers : \/ Stop(w) \/ Wake(w) \/ NothingToClaim(w) \/ MarkFailed(w)
                              \/ MarkFailedFails(w) \/ MarkPublished(w) \/ MarkPublishedFails(w)
  <2>1. topic' = topic /\ late' = late /\ attempts' = attempts
    BY <1>8 DEF Stop, Wake, NothingToClaim, MarkFailed, MarkFailedFails, MarkPublished,
                MarkPublishedFails, rowVars, kafkaVars
  <2>2. \A v \in Workers : todo'[v] \subseteq todo[v]
    <3>1. CASE \E w \in Workers, again \in BOOLEAN : Return(w, again)
      BY <3>1, ReturnForgets
    <3>2. CASE todo' = todo
      BY <3>2
    <3> QED
      BY <1>8, <3>1, <3>2 DEF Stop, Wake, NothingToClaim, MarkFailed, MarkFailedFails,
         MarkPublished, MarkPublishedFails, batchVars, TypeOK
  <2> QED
    BY <2>1, <2>2, QuietStepKeepsCopies DEF TypeOK
<1> QED
  BY <1>1, <1>2, <1>3, <1>4, <1>5, <1>6, <1>7, <1>8 DEF OutboxNext, Process

----------------------------------------------------------------------------
(* The invariant, and what follows from it for every behaviour.              *)

LEMMA InitEstablishes ==
  ASSUME Init
  PROVE  IInv
<1>1. TypeOK
  BY DEF Init, TypeOK, Statuses, WorkerSteps
<1>2. \A m \in Messages : Deliveries(m) = 0
  <2>1. \A m \in Messages : {i \in DOMAIN topic : topic[i] = m} = {}
    BY DEF Init
  <2> QED
    BY <2>1, FS_EmptySet DEF Deliveries
<1>3. BatchMatchesStep /\ ClaimIsExclusive /\ AckedWasDelivered /\ PublishedWasDelivered
  BY DEF Init, BatchMatchesStep, ClaimIsExclusive, Held, AckedWasDelivered, PublishedWasDelivered
<1>4. AttemptUnused /\ CopiesWithinAttempts
  BY <1>2 DEF Init, AttemptUnused, CopiesWithinAttempts
<1> QED
  BY <1>1, <1>3, <1>4 DEF IInv

LEMMA StepPreserves ==
  ASSUME IInv, [OutboxNext]_outboxVars
  PROVE  IInv'
<1>1. CASE OutboxNext
  <2>1. TypeOK' /\ BatchMatchesStep'
    BY <1>1, StepKeepsTypes, StepKeepsBatch DEF IInv
  <2>2. ClaimIsExclusive'
    BY <1>1, StepKeepsClaims DEF IInv
  <2>3. AckedWasDelivered' /\ PublishedWasDelivered'
    BY <1>1, StepKeepsDelivered DEF IInv
  <2>4. AttemptUnused' /\ CopiesWithinAttempts'
    BY <1>1, <2>1, StepKeepsCopies
  <2> QED
    BY <2>1, <2>2, <2>3, <2>4 DEF IInv
<1>2. CASE UNCHANGED outboxVars
  BY <1>2 DEF outboxVars, rowVars, kafkaVars, workerVars, batchVars, stopVars, IInv, TypeOK,
              BatchMatchesStep, ClaimIsExclusive, Held, AckedWasDelivered, PublishedWasDelivered,
              AttemptUnused, CopiesWithinAttempts, Deliveries
<1> QED
  BY <1>1, <1>2

THEOREM InductiveInvariant == Spec => []IInv
BY InitEstablishes, StepPreserves, PTL DEF Spec

(* Rows, topic and locals keep their types in every behaviour of the workers. *)
THEOREM TypeCorrect == Spec => []TypeOK
<1>1. IInv => TypeOK
  BY DEF IInv
<1> QED
  BY <1>1, InductiveInvariant, PTL

(* Whatever crashes, drains and broker errors do, no two workers hold one entry, *)
(* although a claim carries no owner (claim.go, FOR UPDATE SKIP LOCKED).         *)
THEOREM ClaimsAreExclusive == Spec => []ClaimIsExclusive
<1>1. IInv => ClaimIsExclusive
  BY DEF IInv
<1> QED
  BY <1>1, InductiveInvariant, PTL

(* PUBLISHED is never written for an event that the topic does not hold.      *)
THEOREM PublishedMeansDelivered == Spec => []PublishedWasDelivered
<1>1. IInv => PublishedWasDelivered
  BY DEF IInv
<1> QED
  BY <1>1, InductiveInvariant, PTL

(* Duplicates are paid for: an event is in the topic, or with the producer, at *)
(* most once per claim of its row.                                             *)
THEOREM DuplicatesAreBounded == Spec => []CopiesWithinAttempts
<1>1. IInv => CopiesWithinAttempts
  BY DEF IInv
<1> QED
  BY <1>1, InductiveInvariant, PTL

(* The Mark statements ask for PROCESSING, the claim for PENDING or FAILED.    *)
LEMMA PublishedRowIsLeftAlone ==
  ASSUME TypeOK, OutboxNext, NEW m \in Messages, status[m] = "PUBLISHED"
  PROVE  status'[m] = "PUBLISHED" /\ attempts'[m] = attempts[m]
<1> USE DEF TypeOK, rowVars
<1>1. CASE \E k \in Messages : Create(k) \/ RetryDue(k) \/ DeliverLate(k) \/ DropLate(k)
  BY <1>1 DEF Create, RetryDue, DeliverLate, DropLate
<1>2. CASE \E w \in Workers : Signal(w) \/ Drain(w) \/ Crash(w) \/ Restart(w)
  BY <1>2 DEF Signal, Drain, Crash, Restart
<1>3. CASE \E w \in Workers : MarkPublished(w) \/ MarkFailed(w)
  BY <1>3 DEF MarkPublished, MarkFailed, Mark
<1>4. CASE \E w \in Workers : Claim(w) \/ ClaimFails(w)
  <2>1. m \notin Oldest
    BY OldestAreFree
  <2>2. CASE ClaimRows(Oldest)
    BY <2>1, <2>2 DEF ClaimRows
  <2>3. CASE UNCHANGED << status, attempts >>
    BY <2>3
  <2> QED
    BY <1>4, <2>2, <2>3 DEF Claim, ClaimFails
<1>5. CASE \E w \in Workers : \/ Stop(w) \/ Wake(w) \/ NothingToClaim(w)
                              \/ \E k \in Messages : PublishAcked(w, k)
                              \/ \E k \in Messages, h \in {0, 1} : PublishFails(w, k, h) \/ Abandon(w, k, h)
                              \/ MarkFailedFails(w) \/ MarkPublishedFails(w)
  BY <1>5 DEF Stop, Wake, NothingToClaim, PublishAcked, PublishFails, HandedOver, Abandon,
              MarkFailedFails, MarkPublishedFails
<1> QED
  BY <1>1, <1>2, <1>3, <1>4, <1>5 DEF OutboxNext, Process

(* No late Mark of a worker that lost its claim, and no other worker, ever    *)
(* takes a published row out of its final state.                              *)
THEOREM PublishedForGood == Spec => PublishedIsFinal
<1>1. ASSUME TypeOK, [OutboxNext]_outboxVars
      PROVE  [\A m \in Messages : status[m] = "PUBLISHED" =>
                status'[m] = "PUBLISHED" /\ attempts'[m] = attempts[m]]_outboxVars
  BY <1>1, PublishedRowIsLeftAlone
<1> QED
  BY <1>1, TypeCorrect, PTL DEF Spec, PublishedIsFinal
============================================================================
