--------------------------- MODULE EventPipeline ---------------------------
(***************************************************************************)
(* From the outbox to the effect: OutboxDelivery composed with a consumer  *)
(* group of packages/go/kafka whose handler runs in packages/go/inbox.     *)
(*                                                                         *)
(* The topic has one partition, assigned to one member at a time.  A       *)
(* member that lost it may still be inside its handler: only the unique    *)
(* key of the inbox row keeps two members from applying one event twice.   *)
(* MarkMessage is only local; the offset reaches the broker later.         *)
(***************************************************************************)
EXTENDS OutboxDelivery

CONSTANTS
  Members,        \* consumer processes of the group
  ConsumerFaults, \* what may go wrong on this side
  MaxFailures     \* bound: how often the handler of one message fails

ASSUME ConsumerFaultAssumption == ConsumerFaults \subseteq {"handler", "rebalance", "crash"}
ASSUME ConsumerBoundAssumption == MaxFailures \in Nat /\ None \notin Members

VARIABLES
  assigned,  \* the member that owns the partition in the current generation
  offset,    \* the offset committed for the group
  position,  \* per member: the next record of its claim, all before it marked
  live,      \* per member: session.Context() has not ended
  step,      \* per member: where ConsumeClaim and WithInbox are
  handling,  \* per member: the message in hand
  inbox,     \* committed inbox rows
  applied,   \* per message: how often its effect was committed
  failures   \* per message: how often its handler failed

sessionVars == << assigned, offset, position, live >>
effectVars  == << inbox, applied, failures >>
consumerVars == << sessionVars, step, handling, effectVars >>
vars == << outboxVars, consumerVars >>

MemberSteps == {"off", "idle", "insert", "handle", "mark"}

PipelineInit ==
  /\ Init
  /\ assigned = None
  /\ offset = 1
  /\ position = [c \in Members |-> 1]
  /\ live = [c \in Members |-> FALSE]
  /\ step = [c \in Members |-> "idle"]
  /\ handling = [c \in Members |-> None]
  /\ inbox = {}
  /\ applied = [m \in Messages |-> 0]
  /\ failures = [m \in Messages |-> 0]

At(c, s) == step' = [step EXCEPT ![c] = s]
PutDown(c, s) == At(c, s) /\ handling' = [handling EXCEPT ![c] = None]

\* Mistake: no unique key on the inbox.
NeverBlocked(c, m) == FALSE

\* Another transaction holds the unique inbox key of m, uncommitted.
InsertBlocked(c, m) == \E d \in Members \ {c} : step[d] = "handle" /\ handling[d] = m

----------------------------------------------------------------------------
(* Consumer.Start and the group protocol. *)

\* Mistake: a claim starts at the newest record.
AssignAtNewest(c) ==
  /\ assigned = None
  /\ step[c] = "idle"
  /\ ~live[c]
  /\ assigned' = c
  /\ live' = [live EXCEPT ![c] = TRUE]
  /\ position' = [position EXCEPT ![c] = Len(topic) + 1]
  /\ UNCHANGED << outboxVars, offset, step, handling, effectVars >>

\* Consume joins the group; a claim starts at the committed offset.
Assign(c) ==
  /\ assigned = None
  /\ step[c] = "idle"
  /\ ~live[c]
  /\ assigned' = c
  /\ live' = [live EXCEPT ![c] = TRUE]
  /\ position' = [position EXCEPT ![c] = offset]
  /\ UNCHANGED << outboxVars, offset, step, handling, effectVars >>

\* A rebalance, or the broker gives up on a member that left or died.
Revoke(c) ==
  /\ assigned = c
  /\ "rebalance" \in ConsumerFaults \/ ~live[c]
  /\ assigned' = None
  /\ live' = [live EXCEPT ![c] = FALSE]
  /\ UNCHANGED << outboxVars, offset, position, step, handling, effectVars >>

\* The offset manager of the client flushes what was marked.
CommitOffset(c) ==
  /\ assigned = c
  /\ live[c]
  /\ offset # position[c]
  /\ offset' = position[c]
  /\ UNCHANGED << outboxVars, assigned, position, live, step, handling, effectVars >>

\* Memory and the open transaction are lost; the broker does not know yet.  (A member
\* that Shutdown ends flushes first what it marked: CommitOffset, then this step.)
MemberCrash(c) ==
  /\ "crash" \in ConsumerFaults
  /\ step[c] # "off"
  /\ PutDown(c, "off")
  /\ live' = [live EXCEPT ![c] = FALSE]
  /\ UNCHANGED << outboxVars, assigned, offset, position, effectVars >>

MemberRestart(c) ==
  /\ step[c] = "off"
  /\ At(c, "idle")
  /\ UNCHANGED << outboxVars, sessionVars, handling, effectVars >>

----------------------------------------------------------------------------
(* ConsumeClaim and WithInbox. *)

Receive(c) ==
  /\ step[c] = "idle"
  /\ live[c]
  /\ position[c] \in DOMAIN topic
  /\ handling' = [handling EXCEPT ![c] = topic[position[c]]]
  /\ At(c, "insert")
  /\ UNCHANGED << outboxVars, sessionVars, effectVars >>

\* Mistake: `inserted` is not looked at.
InsertAlways(c) ==
  /\ step[c] = "insert"
  /\ ~InsertBlocked(c, handling[c])
  /\ At(c, "handle")
  /\ UNCHANGED << outboxVars, sessionVars, handling, effectVars >>

InsertRow(c) ==
  /\ step[c] = "insert"
  /\ handling[c] \notin inbox
  /\ ~InsertBlocked(c, handling[c])
  /\ At(c, "handle")
  /\ UNCHANGED << outboxVars, sessionVars, handling, effectVars >>

AlreadyInserted(c) ==
  /\ step[c] = "insert"
  /\ handling[c] \in inbox
  /\ At(c, "mark")
  /\ UNCHANGED << outboxVars, sessionVars, handling, effectVars >>

\* The handler's writes and the inbox row commit together.
CommitEffect(c) ==
  /\ step[c] = "handle"
  /\ inbox' = inbox \cup {handling[c]}
  /\ applied' = [applied EXCEPT ![handling[c]] = @ + 1]
  /\ At(c, "mark")
  /\ UNCHANGED << outboxVars, sessionVars, handling, failures >>

\* Mistake: the message is marked although its handler failed.
HandlerFailureMarked(c) ==
  /\ step[c] \in {"insert", "handle"}
  /\ "handler" \in ConsumerFaults
  /\ failures[handling[c]] < MaxFailures
  /\ failures' = [failures EXCEPT ![handling[c]] = @ + 1]
  /\ At(c, "mark")
  /\ UNCHANGED << outboxVars, sessionVars, handling, inbox, applied >>

\* The handler failed and was rolled back, or the time of the Timeout middleware was
\* over when it returned, whatever it had committed.  In a live session the error
\* ends Start, and with it the process.
HandlerFails(c) ==
  /\ step[c] \in {"insert", "handle", "mark"}
  /\ "handler" \in ConsumerFaults
  /\ failures[handling[c]] < MaxFailures
  /\ failures' = [failures EXCEPT ![handling[c]] = @ + 1]
  /\ PutDown(c, IF live[c] THEN "off" ELSE "idle")
  /\ live' = [live EXCEPT ![c] = FALSE]
  /\ UNCHANGED << outboxVars, assigned, offset, position, inbox, applied >>

\* MarkMessage, unless the session ended while the handler ran.
MarkMessage(c) ==
  /\ step[c] = "mark"
  /\ position' = IF live[c] THEN [position EXCEPT ![c] = @ + 1] ELSE position
  /\ PutDown(c, "idle")
  /\ UNCHANGED << outboxVars, assigned, offset, live, effectVars >>

Consume(c) ==
  \/ Receive(c)
  \/ InsertRow(c)
  \/ AlreadyInserted(c)
  \/ CommitEffect(c)
  \/ MarkMessage(c)

ConsumerNext ==
  \E c \in Members :
    \/ Assign(c)
    \/ Revoke(c)
    \/ CommitOffset(c)
    \/ MemberCrash(c)
    \/ MemberRestart(c)
    \/ HandlerFails(c)
    \/ Consume(c)

PipelineNext ==
  \/ OutboxNext /\ UNCHANGED consumerVars
  \/ ConsumerNext

PipelineSpec == PipelineInit /\ [][PipelineNext]_vars

(* The workers as in OutboxDelivery.  A member's goroutine runs on, a dead     *)
(* member is replaced and noticed, and the free partition is assigned.         *)
PipelineFairness ==
  /\ OutboxFairness
  /\ \A c \in Members : /\ WF_vars(Consume(c))
                        /\ WF_vars(MemberRestart(c))
                        /\ WF_vars(~live[c] /\ Revoke(c))
  /\ WF_vars(\E c \in Members : Assign(c))

FairPipelineSpec == PipelineSpec /\ PipelineFairness

----------------------------------------------------------------------------
(* Type correctness of the consumer side. *)
PipelineTypeOK ==
  /\ TypeOK
  /\ assigned \in Members \cup {None}
  /\ offset \in Nat
  /\ position \in [Members -> Nat]
  /\ live \in [Members -> BOOLEAN]
  /\ step \in [Members -> MemberSteps]
  /\ handling \in [Members -> Messages \cup {None}]
  /\ inbox \subseteq Messages
  /\ applied \in [Messages -> Nat]
  /\ failures \in [Messages -> Nat]

(* The group's offset never passes an event whose effect is not committed: no *)
(* failure, rebalance or crash makes the group skip one (consumer.go marks     *)
(* after the handler, inbox.go commits row and effect together).               *)
OffsetSkipsNothing ==
  \A i \in DOMAIN topic : i < offset => applied[topic[i]] > 0

(* An event whose row the worker marked PUBLISHED, which it never sends again, *)
(* has taken effect or still lies ahead of the group: in the topic, at or past *)
(* the offset and the position of every member, whatever failed in between.    *)
PublishedIsNotLost ==
  \A m \in Messages : status[m] = "PUBLISHED" /\ applied[m] = 0 =>
    \E i \in DOMAIN topic :
      /\ topic[i] = m
      /\ offset <= i
      /\ \A c \in Members : position[c] <= i

(* Where a member is inside the handler's transaction, no other is for the     *)
(* same event, although both may have received it in different generations.    *)
OneTransactionPerEvent ==
  \A c \in Members : step[c] = "handle" =>
    /\ applied[handling[c]] = 0
    /\ \A d \in Members \ {c} : step[d] = "handle" => handling[d] # handling[c]

Effect(m) ==
  IF status[m] = "none" THEN "none"
  ELSE IF applied[m] = 0 THEN "committed"
  ELSE IF applied[m] = 1 THEN "applied" ELSE "repeated"

Promise == INSTANCE EventDelivery WITH event <- [m \in Messages |-> Effect(m)]

(* The pipeline implements EventDelivery: an event takes effect at most once,  *)
(* and only after its commit, although workers resend and members redeliver.   *)
EffectAtMostOnce == Promise!Spec

(* Without crashes, database errors and SIGTERM, every committed event takes   *)
(* effect, through broker errors and failing handlers.                         *)
EffectExactlyOnce == Promise!FairSpec
============================================================================
