----------------------- MODULE EventPipelineProofs ------------------------
(***************************************************************************)
(* What holds of EventPipeline for any number of workers, members and      *)
(* events and with every fault on both sides, and that it implements       *)
(* EventDelivery: no event takes effect twice, or before it is committed.  *)
(***************************************************************************)
EXTENDS EventPipeline, OutboxDeliveryProofs

Busy == {"insert", "handle", "mark"}

(* What was never committed to the outbox has left no trace.                 *)
NoneIsUntouched ==
  \A m \in Messages : status[m] = "none" =>
    late[m] = 0 /\ \A i \in DOMAIN topic : topic[i] # m

(* The inbox row and the effect are one.                                     *)
RowIsEffect ==
  \A m \in Messages : applied[m] = IF m \in inbox THEN 1 ELSE 0

InboxIsCommitted == \A m \in inbox : status[m] # "none"

(* A member works on the record at its position, which stays where it is.    *)
HandlesItsPosition ==
  \A c \in Members : step[c] \in Busy =>
    position[c] \in DOMAIN topic /\ handling[c] = topic[position[c]]

(* Inside the handler's transaction the row is not in the inbox; after it, it is.  *)
RowFollowsStep ==
  \A c \in Members :
    /\ step[c] = "handle" => handling[c] \notin inbox
    /\ step[c] = "mark" => handling[c] \in inbox

(* No two members are in a transaction for one event.                         *)
KeyIsUnique ==
  \A c, d \in Members :
    c # d /\ step[c] = "handle" /\ step[d] = "handle" => handling[c] # handling[d]

(* All that lies before a position, or before the offset, is in the inbox.    *)
BeforeIsDone(bound) ==
  bound \in 1 .. Len(topic) + 1 /\ \A i \in DOMAIN topic : i < bound => topic[i] \in inbox

PassedIsDone == BeforeIsDone(offset) /\ \A c \in Members : BeforeIsDone(position[c])

ConsumerTypeOK ==
  /\ assigned \in Members \cup {None}
  /\ offset \in Nat
  /\ position \in [Members -> Nat]
  /\ live \in [Members -> BOOLEAN]
  /\ step \in [Members -> MemberSteps]
  /\ handling \in [Members -> Messages \cup {None}]
  /\ inbox \subseteq Messages
  /\ applied \in [Messages -> Nat]
  /\ failures \in [Messages -> Nat]

PInv ==
  /\ ConsumerTypeOK
  /\ NoneIsUntouched /\ InboxIsCommitted
  /\ RowIsEffect
  /\ HandlesItsPosition /\ RowFollowsStep /\ KeyIsUnique
  /\ PassedIsDone

----------------------------------------------------------------------------
(* The outbox goes on under the pipeline as it does alone.                   *)

LEMMA ConsumerLeavesOutbox ==
  ASSUME ConsumerNext
  PROVE  UNCHANGED outboxVars
BY Zenon DEF ConsumerNext, Assign, Revoke, CommitOffset, MemberCrash, MemberRestart, HandlerFails,
             Consume, Receive, InsertRow, AlreadyInserted, CommitEffect, MarkMessage

(* Whatever the consumers do, workers and topic behave as in OutboxDelivery.  *)
THEOREM PipelineKeepsOutbox == PipelineSpec => Spec
<1>1. PipelineInit => Init
  BY DEF PipelineInit
<1>2. [PipelineNext]_vars => [OutboxNext]_outboxVars
  BY ConsumerLeavesOutbox, Zenon DEF PipelineNext, vars
<1> QED
  BY <1>1, <1>2, PTL DEF PipelineSpec, Spec

----------------------------------------------------------------------------
(* A step of the outbox creates one row, or makes no row and loses none.     *)

SameRows == \A m \in Messages : status'[m] = "none" <=> status[m] = "none"

LEMMA WorkerKeepsRows ==
  ASSUME TypeOK, NEW w \in Workers, Process(w)
  PROVE  SameRows
<1> USE DEF TypeOK, SameRows
<1>1. CASE UNCHANGED status
  BY <1>1
<1>2. CASE ClaimRows(Oldest)
  BY <1>2 DEF ClaimRows, Oldest, Claimable
<1>3. ASSUME NEW batch, NEW to \in {"FAILED", "PUBLISHED"}, Mark(batch, to)
      PROVE  SameRows
  BY <1>3 DEF Mark
<1>4. CASE Stop(w) \/ Wake(w) \/ NothingToClaim(w)
  BY <1>1, <1>4 DEF Stop, Wake, NothingToClaim, rowVars
<1>5. CASE Claim(w) \/ ClaimFails(w)
  BY <1>1, <1>2, <1>5 DEF Claim, ClaimFails
<1>6. ASSUME NEW m \in Messages,
             PublishAcked(w, m) \/ \E handed \in {0, 1} : PublishFails(w, m, handed) \/ Abandon(w, m, handed)
      PROVE  SameRows
  BY <1>1, <1>6 DEF PublishAcked, PublishFails, HandedOver, Abandon, rowVars
<1>7. CASE MarkFailed(w) \/ MarkPublished(w)
  BY <1>3, <1>7 DEF MarkFailed, MarkPublished
<1>8. CASE MarkFailedFails(w) \/ MarkPublishedFails(w)
  BY <1>1, <1>8 DEF MarkFailedFails, MarkPublishedFails, rowVars
<1> QED
  BY <1>4, <1>5, <1>6, <1>7, <1>8, Zenon DEF Process

LEMMA OutboxRows ==
  ASSUME TypeOK, OutboxNext
  PROVE  SameRows \/ \E m \in Messages : Create(m)
<1>1. CASE UNCHANGED status
  BY <1>1 DEF SameRows
<1>2. ASSUME NEW m \in Messages, Create(m) \/ RetryDue(m) \/ DeliverLate(m) \/ DropLate(m)
      PROVE  SameRows \/ \E k \in Messages : Create(k)
  BY <1>1, <1>2 DEF RetryDue, DeliverLate, DropLate, rowVars
<1>3. ASSUME NEW w \in Workers, Signal(w) \/ Drain(w) \/ Crash(w) \/ Restart(w)
      PROVE  SameRows
  BY <1>3 DEF SameRows, Signal, Drain, Crash, Restart, rowVars
<1> QED
  BY <1>2, <1>3, WorkerKeepsRows DEF OutboxNext

(* What the topic and the producer gain was claimed, so its row exists.        *)
LEMMA TopicGainsRows ==
  ASSUME IInv, NoneIsUntouched, OutboxNext
  PROVE  \/ UNCHANGED topic
         \/ \E m \in Messages : topic' = Append(topic, m) /\ status[m] # "none"
<1>1. ASSUME NEW w \in Workers, NEW m \in Messages, PublishAcked(w, m)
      PROVE  topic' = Append(topic, m) /\ status[m] # "none"
  BY <1>1 DEF IInv, ClaimIsExclusive, Held, PublishAcked
<1>2. ASSUME NEW m \in Messages, DeliverLate(m)
      PROVE  topic' = Append(topic, m) /\ status[m] # "none"
  BY <1>2 DEF NoneIsUntouched, DeliverLate
<1>3. ASSUME NEW w \in Workers, Process(w), ~ \E m \in Messages : PublishAcked(w, m)
      PROVE  UNCHANGED topic
  <2>1. CASE \E m \in Messages, handed \in {0, 1} : PublishFails(w, m, handed) \/ Abandon(w, m, handed)
    BY <2>1 DEF PublishFails, HandedOver, Abandon
  <2>2. CASE UNCHANGED kafkaVars
    BY <2>2 DEF kafkaVars
  <2> QED
    BY <1>3, <2>1, <2>2, Zenon DEF Process, Stop, Wake, Claim, NothingToClaim, ClaimFails, MarkFailed,
                                   MarkFailedFails, MarkPublished, MarkPublishedFails
<1>4. ASSUME NEW m \in Messages, Create(m) \/ RetryDue(m) \/ DropLate(m)
      PROVE  UNCHANGED topic
  BY <1>4 DEF Create, RetryDue, DropLate, kafkaVars
<1>5. ASSUME NEW w \in Workers, Signal(w) \/ Drain(w) \/ Crash(w) \/ Restart(w)
      PROVE  UNCHANGED topic
  BY <1>5 DEF Signal, Drain, Crash, Restart, kafkaVars
<1> QED
  BY <1>1, <1>2, <1>3, <1>4, <1>5 DEF OutboxNext

LEMMA LateGainsRows ==
  ASSUME IInv, NoneIsUntouched, OutboxNext, NEW m \in Messages, status[m] = "none"
  PROVE  late'[m] = 0
<1> USE DEF TypeOK
<1>1. TypeOK /\ late[m] = 0
  BY DEF IInv, NoneIsUntouched
<1>2. CASE UNCHANGED late
  BY <1>1, <1>2
<1>3. \A w \in Workers : m \notin todo[w]
  BY DEF IInv, ClaimIsExclusive, Held
<1>4. ASSUME NEW w \in Workers, Process(w)
      PROVE  late'[m] = 0
  <2>1. ASSUME NEW k \in Messages, NEW handed \in {0, 1}, PublishFails(w, k, handed) \/ Abandon(w, k, handed)
        PROVE  late'[m] = 0
    BY <1>1, <1>3, <2>1 DEF PublishFails, HandedOver, Abandon
  <2>2. CASE \E k \in Messages : PublishAcked(w, k)
    BY <1>2, <2>2 DEF PublishAcked
  <2>3. CASE UNCHANGED kafkaVars
    BY <1>2, <2>3 DEF kafkaVars
  <2> QED
    BY <1>4, <2>1, <2>2, <2>3, Zenon DEF Process, Stop, Wake, Claim, NothingToClaim, ClaimFails, MarkFailed,
                                         MarkFailedFails, MarkPublished, MarkPublishedFails
<1>5. ASSUME NEW k \in Messages, Create(k) \/ RetryDue(k) \/ DeliverLate(k) \/ DropLate(k)
      PROVE  late'[m] = 0
  BY <1>1, <1>2, <1>5 DEF Create, RetryDue, DeliverLate, DropLate, kafkaVars
<1>6. ASSUME NEW w \in Workers, Signal(w) \/ Drain(w) \/ Crash(w) \/ Restart(w)
      PROVE  late'[m] = 0
  BY <1>2, <1>6 DEF Signal, Drain, Crash, Restart, kafkaVars
<1> QED
  BY <1>4, <1>5, <1>6 DEF OutboxNext

LEMMA OutboxKeepsNone ==
  ASSUME IInv, NoneIsUntouched, OutboxNext
  PROVE  NoneIsUntouched'
<1> SUFFICES ASSUME NEW m \in Messages, status'[m] = "none"
             PROVE  late'[m] = 0 /\ \A i \in DOMAIN topic' : topic'[i] # m
  BY DEF NoneIsUntouched
<1> USE DEF TypeOK
<1>1. TypeOK
  BY DEF IInv
<1>2. status[m] = "none"
  <2>1. CASE SameRows
    BY <2>1 DEF SameRows
  <2>2. CASE \E k \in Messages : Create(k)
    BY <1>1, <2>2 DEF Create
  <2> QED
    BY <1>1, <2>1, <2>2, OutboxRows
<1>3. late'[m] = 0
  BY <1>2, LateGainsRows
<1>4. \A i \in DOMAIN topic : topic[i] # m
  BY <1>2 DEF NoneIsUntouched
<1>5. \A i \in DOMAIN topic' : topic'[i] # m
  <2>1. CASE UNCHANGED topic
    BY <1>4, <2>1
  <2>2. ASSUME NEW k \in Messages, topic' = Append(topic, k), status[k] # "none"
        PROVE  \A i \in DOMAIN topic' : topic'[i] # m
    BY <1>1, <1>2, <1>4, <2>2
  <2> QED
    BY <2>1, <2>2, TopicGainsRows
<1> QED
  BY <1>3, <1>5

(* The topic only grows at its end: what a member has read stays where it was. *)
LEMMA TopicKeepsRecords ==
  ASSUME IInv, NoneIsUntouched, OutboxNext
  PROVE  /\ topic \in Seq(Messages) /\ topic' \in Seq(Messages)
         /\ Len(topic) <= Len(topic') /\ \A i \in DOMAIN topic : topic'[i] = topic[i]
         /\ DOMAIN topic \subseteq DOMAIN topic'
         /\ \A b \in 1 .. Len(topic) + 1 : \A i \in DOMAIN topic' : i < b => i \in DOMAIN topic
<1>1. topic \in Seq(Messages)
  BY DEF IInv, TypeOK
<1>2. CASE UNCHANGED topic
  BY <1>1, <1>2
<1>3. ASSUME NEW m \in Messages, topic' = Append(topic, m)
      PROVE  /\ topic' \in Seq(Messages)
             /\ Len(topic) <= Len(topic') /\ \A i \in DOMAIN topic : topic'[i] = topic[i]
             /\ DOMAIN topic \subseteq DOMAIN topic'
             /\ \A b \in 1 .. Len(topic) + 1 : \A i \in DOMAIN topic' : i < b => i \in DOMAIN topic
  BY <1>1, <1>3
<1> QED
  BY <1>1, <1>2, <1>3, TopicGainsRows

LEMMA OutboxKeepsPipeline ==
  ASSUME IInv, PInv, OutboxNext, UNCHANGED consumerVars
  PROVE  PInv'
<1> USE DEF PInv, consumerVars, sessionVars, effectVars
<1>1. NoneIsUntouched'
  BY OutboxKeepsNone
<1>2. ConsumerTypeOK' /\ RowIsEffect' /\ RowFollowsStep' /\ KeyIsUnique'
  BY DEF ConsumerTypeOK, RowIsEffect, RowFollowsStep, KeyIsUnique
<1>3. InboxIsCommitted'
  <2>1. ASSUME NEW m \in Messages, status[m] # "none"
        PROVE  status'[m] # "none"
    <3>1. CASE \E k \in Messages : Create(k)
      BY <2>1, <3>1 DEF Create, IInv, TypeOK
    <3> QED
      BY <2>1, <3>1, OutboxRows DEF SameRows, IInv
  <2> QED
    BY <2>1 DEF InboxIsCommitted, ConsumerTypeOK
<1>4. HandlesItsPosition'
  BY TopicKeepsRecords DEF HandlesItsPosition
<1>5. ASSUME NEW b, BeforeIsDone(b)
      PROVE  b \in 1 .. Len(topic') + 1 /\ \A i \in DOMAIN topic' : i < b => topic'[i] \in inbox'
  BY <1>5, TopicKeepsRecords DEF BeforeIsDone
<1>6. PassedIsDone'
  BY <1>5 DEF PassedIsDone, BeforeIsDone
<1> QED
  BY <1>1, <1>2, <1>4, <1>6, <1>3

----------------------------------------------------------------------------
(* The consumers: one step per action.                                       *)

LEMMA BusyMemberHasMessage ==
  ASSUME TypeOK, PInv, NEW c \in Members, step[c] \in Busy
  PROVE  handling[c] \in Messages /\ status[handling[c]] # "none"
<1>1. position[c] \in DOMAIN topic /\ handling[c] = topic[position[c]]
  BY DEF PInv, HandlesItsPosition
<1>2. topic \in Seq(Messages)
  BY DEF TypeOK
<1>3. handling[c] \in Messages
  BY <1>1, <1>2
<1>4. status[handling[c]] # "none"
  BY <1>1, <1>3 DEF PInv, NoneIsUntouched
<1> QED
  BY <1>3, <1>4

LEMMA ConsumerKeepsTypes ==
  ASSUME TypeOK, PInv, ConsumerNext
  PROVE  ConsumerTypeOK'
<1> USE DEF ConsumerTypeOK, MemberSteps, At, PutDown, sessionVars, effectVars
<1> SUFFICES ASSUME NEW c \in Members, Assign(c) \/ Revoke(c) \/ CommitOffset(c) \/ MemberCrash(c)
                      \/ MemberRestart(c) \/ HandlerFails(c) \/ Consume(c)
             PROVE  ConsumerTypeOK'
  BY Zenon DEF ConsumerNext
<1>1. ConsumerTypeOK
  BY DEF PInv
<1>2. step[c] \in Busy => handling[c] \in Messages
  BY BusyMemberHasMessage
<1>3. CASE Assign(c)
  BY <1>1, <1>3 DEF Assign
<1>4. CASE Revoke(c)
  BY <1>1, <1>4 DEF Revoke
<1>5. CASE CommitOffset(c)
  <2>1. position[c] \in Nat /\ offset' = position[c]
    BY <1>1, <1>5 DEF CommitOffset
  <2> QED
    BY <1>1, <1>5, <2>1 DEF CommitOffset
<1>6. CASE MemberCrash(c) \/ MemberRestart(c)
  BY <1>1, <1>6 DEF MemberCrash, MemberRestart
<1>7. CASE HandlerFails(c)
  BY <1>1, <1>2, <1>7 DEF HandlerFails, Busy
<1>8. CASE Receive(c)
  <2>1. topic[position[c]] \in Messages
    BY <1>8 DEF Receive, TypeOK
  <2> QED
    BY <1>1, <1>8, <2>1 DEF Receive
<1>9. CASE InsertRow(c) \/ AlreadyInserted(c)
  BY <1>1, <1>9 DEF InsertRow, AlreadyInserted
<1>10. CASE CommitEffect(c)
  BY <1>1, <1>2, <1>10 DEF CommitEffect, Busy
<1>11. CASE MarkMessage(c)
  BY <1>1, <1>11 DEF MarkMessage
<1> QED
  BY <1>3, <1>4, <1>5, <1>6, <1>7, <1>8, <1>9, <1>10, <1>11, Zenon DEF Consume

LEMMA ConsumerKeepsRows ==
  ASSUME TypeOK, PInv, ConsumerNext
  PROVE  RowIsEffect' /\ InboxIsCommitted' /\ inbox \subseteq inbox'
<1> USE DEF ConsumerTypeOK, RowIsEffect, InboxIsCommitted, RowFollowsStep, PInv
<1>1. UNCHANGED status
  BY ConsumerLeavesOutbox DEF outboxVars, rowVars
<1>2. CASE UNCHANGED << inbox, applied >>
  BY <1>1, <1>2
<1>3. ASSUME NEW c \in Members, CommitEffect(c)
      PROVE  RowIsEffect' /\ InboxIsCommitted' /\ inbox \subseteq inbox'
  BY <1>1, <1>3, BusyMemberHasMessage DEF CommitEffect, Busy
<1>4. ASSUME NEW c \in Members, Assign(c) \/ Revoke(c) \/ CommitOffset(c) \/ MemberCrash(c) \/ MemberRestart(c)
               \/ HandlerFails(c) \/ Receive(c) \/ InsertRow(c) \/ AlreadyInserted(c) \/ MarkMessage(c)
      PROVE  UNCHANGED << inbox, applied >>
  BY <1>4 DEF Assign, Revoke, CommitOffset, MemberCrash, MemberRestart, HandlerFails, Receive,
              InsertRow, AlreadyInserted, MarkMessage, effectVars
<1> QED
  BY <1>2, <1>3, <1>4, Zenon DEF ConsumerNext, Consume

(* Only Receive takes a record in hand, and only MarkMessage and Assign move a  *)
(* position, of a member whose hands are empty afterwards.                      *)
LEMMA ConsumerKeepsPosition ==
  ASSUME TypeOK, PInv, ConsumerNext
  PROVE  HandlesItsPosition'
<1> USE DEF ConsumerTypeOK, PInv, HandlesItsPosition, Busy, At, PutDown, sessionVars
<1>1. UNCHANGED topic
  BY ConsumerLeavesOutbox DEF outboxVars, kafkaVars
<1>2. ASSUME NEW c \in Members, Assign(c) \/ Revoke(c) \/ CommitOffset(c)
      PROVE  HandlesItsPosition'
  BY <1>1, <1>2 DEF Assign, Revoke, CommitOffset
<1>3. ASSUME NEW c \in Members, MemberCrash(c) \/ MemberRestart(c) \/ HandlerFails(c)
      PROVE  HandlesItsPosition'
  BY <1>1, <1>3 DEF MemberCrash, MemberRestart, HandlerFails
<1>4. ASSUME NEW c \in Members, Receive(c)
      PROVE  HandlesItsPosition'
  BY <1>1, <1>4 DEF Receive
<1>5. ASSUME NEW c \in Members, InsertRow(c) \/ AlreadyInserted(c) \/ CommitEffect(c)
      PROVE  HandlesItsPosition'
  BY <1>1, <1>5 DEF InsertRow, AlreadyInserted, CommitEffect
<1>6. ASSUME NEW c \in Members, MarkMessage(c)
      PROVE  HandlesItsPosition'
  BY <1>1, <1>6 DEF MarkMessage
<1> QED
  BY <1>2, <1>3, <1>4, <1>5, <1>6, Zenon DEF ConsumerNext, Consume

LEMMA ConsumerKeepsKey ==
  ASSUME TypeOK, PInv, ConsumerNext
  PROVE  RowFollowsStep' /\ KeyIsUnique'
<1> USE DEF ConsumerTypeOK, PInv, RowFollowsStep, KeyIsUnique, At, PutDown, sessionVars, effectVars
<1>1. ASSUME NEW c \in Members, Assign(c) \/ Revoke(c) \/ CommitOffset(c)
      PROVE  RowFollowsStep' /\ KeyIsUnique'
  BY <1>1 DEF Assign, Revoke, CommitOffset
<1>2. ASSUME NEW c \in Members, MemberCrash(c) \/ MemberRestart(c) \/ HandlerFails(c) \/ MarkMessage(c)
      PROVE  RowFollowsStep' /\ KeyIsUnique'
  BY <1>2 DEF MemberCrash, MemberRestart, HandlerFails, MarkMessage
<1>3. ASSUME NEW c \in Members, Receive(c)
      PROVE  RowFollowsStep' /\ KeyIsUnique'
  BY <1>3 DEF Receive
<1>4. ASSUME NEW c \in Members, InsertRow(c)
      PROVE  RowFollowsStep' /\ KeyIsUnique'
  BY <1>4 DEF InsertRow, InsertBlocked
<1>5. ASSUME NEW c \in Members, AlreadyInserted(c)
      PROVE  RowFollowsStep' /\ KeyIsUnique'
  BY <1>5 DEF AlreadyInserted
<1>6. ASSUME NEW c \in Members, CommitEffect(c)
      PROVE  RowFollowsStep' /\ KeyIsUnique'
  BY <1>6 DEF CommitEffect
<1> QED
  BY <1>1, <1>2, <1>3, <1>4, <1>5, <1>6, Zenon DEF ConsumerNext, Consume

LEMMA ConsumerKeepsPassed ==
  ASSUME TypeOK, PInv, ConsumerNext
  PROVE  PassedIsDone'
<1> USE DEF ConsumerTypeOK, PInv, PassedIsDone, BeforeIsDone
<1>1. UNCHANGED topic /\ inbox \subseteq inbox'
  BY ConsumerLeavesOutbox, ConsumerKeepsRows DEF outboxVars, kafkaVars
<1>2. CASE UNCHANGED << offset, position >>
  BY <1>1, <1>2
<1>3. ASSUME NEW c \in Members, Assign(c)
      PROVE  PassedIsDone'
  BY <1>1, <1>3 DEF Assign
<1>4. ASSUME NEW c \in Members, CommitOffset(c)
      PROVE  PassedIsDone'
  BY <1>1, <1>4 DEF CommitOffset
<1>5. ASSUME NEW c \in Members, MarkMessage(c)
      PROVE  PassedIsDone'
  <2>1. CASE ~live[c]
    BY <1>2, <1>5, <2>1 DEF MarkMessage
  <2>2. CASE live[c]
    <3>1. /\ position[c] \in DOMAIN topic /\ topic[position[c]] \in inbox
          /\ position' = [position EXCEPT ![c] = position[c] + 1] /\ UNCHANGED offset
      BY <1>5, <2>2 DEF MarkMessage, HandlesItsPosition, RowFollowsStep, Busy
    <3>2. topic \in Seq(Messages)
      BY DEF TypeOK
    <3>3. BeforeIsDone(position[c])
      OBVIOUS
    <3> DEFINE n == position[c]
    <3>4. n \in 1 .. Len(topic) /\ DOMAIN topic = 1 .. Len(topic) /\ Len(topic) \in Nat
      BY <3>1, <3>2
    <3>5. n + 1 \in 1 .. Len(topic) + 1
      BY <3>4
    <3>6. ASSUME NEW i \in DOMAIN topic, i < n + 1
          PROVE  topic[i] \in inbox
      <4>1. i < n \/ i = n
        BY <3>4, <3>6
      <4> QED
        BY <3>1, <3>3, <4>1 DEF n
    <3>7. BeforeIsDone(position[c] + 1)
      BY <3>5, <3>6
    <3> QED
      BY <1>1, <3>1, <3>7
  <2> QED
    BY <2>1, <2>2
<1>6. ASSUME NEW c \in Members, Revoke(c) \/ MemberCrash(c) \/ MemberRestart(c) \/ HandlerFails(c)
               \/ Receive(c) \/ InsertRow(c) \/ AlreadyInserted(c) \/ CommitEffect(c)
      PROVE  UNCHANGED << offset, position >>
  BY <1>6 DEF Revoke, MemberCrash, MemberRestart, HandlerFails, Receive, InsertRow, AlreadyInserted,
              CommitEffect, sessionVars
<1> QED
  BY <1>2, <1>3, <1>4, <1>5, <1>6, Zenon DEF ConsumerNext, Consume

----------------------------------------------------------------------------
(* The invariant, and what follows from it.                                  *)

LEMMA PipelineInitEstablishes ==
  ASSUME PipelineInit
  PROVE  PInv
<1> USE DEF PipelineInit, Init
<1>1. topic = << >> /\ Len(topic) = 0 /\ DOMAIN topic = {}
  OBVIOUS
<1>2. ConsumerTypeOK
  BY DEF ConsumerTypeOK, MemberSteps
<1>3. NoneIsUntouched /\ InboxIsCommitted /\ RowIsEffect
  BY <1>1 DEF NoneIsUntouched, InboxIsCommitted, RowIsEffect
<1>4. HandlesItsPosition /\ RowFollowsStep /\ KeyIsUnique
  BY DEF HandlesItsPosition, RowFollowsStep, KeyIsUnique, Busy
<1>5. PassedIsDone
  BY <1>1 DEF PassedIsDone, BeforeIsDone
<1> QED
  BY <1>2, <1>3, <1>4, <1>5 DEF PInv

LEMMA PipelineStepPreserves ==
  ASSUME IInv, PInv, [PipelineNext]_vars
  PROVE  PInv'
<1>1. TypeOK
  BY DEF IInv
<1>2. CASE ConsumerNext
  <2>1. NoneIsUntouched'
    BY <1>2, ConsumerLeavesOutbox DEF PInv, NoneIsUntouched, outboxVars, rowVars, kafkaVars
  <2> QED
    BY <1>1, <1>2, <2>1, ConsumerKeepsTypes, ConsumerKeepsRows, ConsumerKeepsPosition, ConsumerKeepsKey,
       ConsumerKeepsPassed DEF PInv
<1>3. CASE OutboxNext /\ UNCHANGED consumerVars
  BY <1>3, OutboxKeepsPipeline
<1>4. CASE UNCHANGED vars
  BY <1>4 DEF vars, outboxVars, rowVars, kafkaVars, consumerVars, sessionVars, effectVars, PInv, ConsumerTypeOK,
              NoneIsUntouched, InboxIsCommitted, RowIsEffect, HandlesItsPosition, RowFollowsStep, KeyIsUnique, PassedIsDone, BeforeIsDone
<1> QED
  BY <1>2, <1>3, <1>4 DEF PipelineNext

(* Positions, steps, inbox rows and effects fit together in every state. *)
THEOREM PipelineInvariant == PipelineSpec => [](IInv /\ PInv)
BY PipelineKeepsOutbox, InductiveInvariant, PipelineInitEstablishes, PipelineStepPreserves, PTL DEF PipelineSpec

(* Outbox and consumers keep their types. *)
THEOREM PipelineTypeCorrect == PipelineSpec => []PipelineTypeOK
<1>1. IInv /\ PInv => PipelineTypeOK
  BY DEF IInv, PInv, ConsumerTypeOK, PipelineTypeOK
<1> QED
  BY <1>1, PipelineInvariant, PTL

(* The offset of the group never passes an event that had no effect. *)
THEOREM NothingIsSkipped == PipelineSpec => []OffsetSkipsNothing
<1>1. IInv /\ PInv => OffsetSkipsNothing
  BY DEF IInv, TypeOK, PInv, PassedIsDone, BeforeIsDone, RowIsEffect, OffsetSkipsNothing
<1> QED
  BY <1>1, PipelineInvariant, PTL

\* What was delivered stands somewhere in the topic.
LEMMA DeliveredIsInTopic ==
  ASSUME NEW m \in Messages, Deliveries(m) > 0
  PROVE  \E i \in DOMAIN topic : topic[i] = m
<1>1. SUFFICES ASSUME ~ \E i \in DOMAIN topic : topic[i] = m
               PROVE  FALSE
  OBVIOUS
<1>2. {i \in DOMAIN topic : topic[i] = m} = {}
  BY <1>1
<1>3. Deliveries(m) = 0
  BY <1>2, FS_EmptySet DEF Deliveries
<1> QED
  BY <1>3

(* A published event has taken effect, or lies ahead of the offset and of      *)
(* every member: worker, producer, broker and group together lose none.        *)
THEOREM PublishedAreNotLost == PipelineSpec => []PublishedIsNotLost
<1>1. ASSUME IInv, PInv, NEW m \in Messages, status[m] = "PUBLISHED", applied[m] = 0
      PROVE  \E i \in DOMAIN topic : /\ topic[i] = m
                                     /\ offset <= i
                                     /\ \A c \in Members : position[c] <= i
  <2>1. PICK i \in DOMAIN topic : topic[i] = m
    BY <1>1, DeliveredIsInTopic DEF IInv, PublishedWasDelivered
  <2>2. i \in Nat /\ topic[i] \notin inbox
    BY <1>1, <2>1 DEF PInv, RowIsEffect, IInv, TypeOK
  <2>3. offset <= i
    BY <1>1, <2>1, <2>2 DEF PInv, ConsumerTypeOK, PassedIsDone, BeforeIsDone
  <2>4. \A c \in Members : position[c] <= i
    BY <1>1, <2>1, <2>2 DEF PInv, ConsumerTypeOK, PassedIsDone, BeforeIsDone
  <2> QED
    BY <2>1, <2>3, <2>4
<1>2. IInv /\ PInv => PublishedIsNotLost
  BY <1>1 DEF PublishedIsNotLost
<1> QED
  BY <1>2, PipelineInvariant, PTL

(* No two members apply one event, and none applies it again. *)
THEOREM TransactionsExclude == PipelineSpec => []OneTransactionPerEvent
<1>1. IInv /\ PInv => OneTransactionPerEvent
  <2> SUFFICES ASSUME IInv, PInv, NEW c \in Members, step[c] = "handle"
               PROVE  /\ applied[handling[c]] = 0
                      /\ \A d \in Members \ {c} : step[d] = "handle" => handling[d] # handling[c]
    BY DEF OneTransactionPerEvent
  <2>1. handling[c] \in Messages
    BY BusyMemberHasMessage DEF Busy, IInv
  <2> QED
    BY <2>1 DEF PInv, RowFollowsStep, RowIsEffect, KeyIsUnique
<1> QED
  BY <1>1, PipelineInvariant, PTL

----------------------------------------------------------------------------
(* The refinement: commit and effect are the two steps of EventDelivery.     *)

events == [m \in Messages |-> Effect(m)]

LEMMA EffectOf ==
  ASSUME PInv, NEW m \in Messages
  PROVE  Effect(m) = IF status[m] = "none" THEN "none" ELSE IF m \in inbox THEN "applied" ELSE "committed"
BY DEF PInv, RowIsEffect, InboxIsCommitted, Effect

LEMMA OutboxStepMaps ==
  ASSUME IInv, PInv, PInv', OutboxNext, UNCHANGED consumerVars
  PROVE  [Promise!Next]_events
<1>1. inbox' = inbox
  BY DEF consumerVars, effectVars
<1>2. \A m \in Messages : Effect(m)' =
        IF status'[m] = "none" THEN "none" ELSE IF m \in inbox' THEN "applied" ELSE "committed"
  BY DEF PInv, RowIsEffect, InboxIsCommitted, Effect
<1>3. CASE SameRows
  BY <1>1, <1>2, <1>3, EffectOf DEF SameRows, events
<1>4. ASSUME NEW k \in Messages, Create(k)
      PROVE  Promise!Commit(k)
  <2>1. status[k] = "none" /\ k \notin inbox /\ \A m \in Messages \ {k} : status'[m] = status[m]
    BY <1>4 DEF Create, IInv, TypeOK, PInv, InboxIsCommitted
  <2>2. status'[k] # "none"
    BY <1>4 DEF Create, IInv, TypeOK
  <2>3. events[k] = "none" /\ events' = [events EXCEPT ![k] = "committed"]
    BY <1>1, <1>2, <2>1, <2>2, EffectOf DEF events
  <2> QED
    BY <2>3 DEF Promise!Commit, events
<1> QED
  BY <1>3, <1>4, OutboxRows DEF IInv, Promise!Next

LEMMA ConsumerStepMaps ==
  ASSUME IInv, PInv, PInv', ConsumerNext
  PROVE  [Promise!Next]_events
<1>1. UNCHANGED status
  BY ConsumerLeavesOutbox DEF outboxVars, rowVars
<1>2. \A m \in Messages : Effect(m)' =
        IF status'[m] = "none" THEN "none" ELSE IF m \in inbox' THEN "applied" ELSE "committed"
  BY DEF PInv, RowIsEffect, InboxIsCommitted, Effect
<1>3. CASE UNCHANGED inbox
  BY <1>1, <1>2, <1>3, EffectOf DEF events
<1>4. ASSUME NEW c \in Members, CommitEffect(c)
      PROVE  Promise!Apply(handling[c])
  <2>1. handling[c] \in Messages /\ status[handling[c]] # "none" /\ handling[c] \notin inbox
        /\ inbox' = inbox \cup {handling[c]}
    BY <1>4, BusyMemberHasMessage DEF CommitEffect, Busy, PInv, RowFollowsStep, IInv
  <2>2. events[handling[c]] = "committed" /\ events' = [events EXCEPT ![handling[c]] = "applied"]
    BY <1>1, <1>2, <2>1, EffectOf DEF events
  <2> QED
    BY <2>2 DEF Promise!Apply, events
<1>5. ASSUME NEW c \in Members, Assign(c) \/ Revoke(c) \/ CommitOffset(c) \/ MemberCrash(c) \/ MemberRestart(c)
               \/ HandlerFails(c) \/ Receive(c) \/ InsertRow(c) \/ AlreadyInserted(c) \/ MarkMessage(c)
      PROVE  UNCHANGED inbox
  BY <1>5 DEF Assign, Revoke, CommitOffset, MemberCrash, MemberRestart, HandlerFails, Receive,
              InsertRow, AlreadyInserted, MarkMessage, effectVars
<1>6. ASSUME NEW c \in Members, CommitEffect(c)
      PROVE  Promise!Next
  BY <1>4, <1>6, BusyMemberHasMessage DEF Promise!Next, CommitEffect, Busy, IInv
<1> QED
  BY <1>3, <1>5, <1>6, Zenon DEF ConsumerNext, Consume

(* The pipeline implements EventDelivery: an event takes effect at most once, and  *)
(* never one that was not committed, whatever is resent or redelivered.            *)
THEOREM EffectsAreSingle == PipelineSpec => EffectAtMostOnce
<1>1. PipelineInit => Promise!Init
  BY DEF PipelineInit, Init, Promise!Init, Effect
<1>2. IInv /\ PInv /\ (IInv /\ PInv)' /\ [PipelineNext]_vars => [Promise!Next]_events
  <2>1. CASE UNCHANGED vars
    BY <2>1 DEF vars, outboxVars, rowVars, consumerVars, effectVars, events, Effect
  <2> QED
    BY <2>1, OutboxStepMaps, ConsumerStepMaps DEF PipelineNext
<1> QED
  BY <1>1, <1>2, PipelineInvariant, PTL DEF PipelineSpec, EffectAtMostOnce, Promise!Spec, events
============================================================================
