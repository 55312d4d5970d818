--------------------------- MODULE HiringPipeline --------------------------
(***************************************************************************)
(* One application of a candidate to a vacancy in the hiring service, with *)
(* its interviews and offers: the usecases application, interview and      *)
(* offer of services/hiring/internal/usecase over their aggregates.        *)
(*                                                                         *)
(* A request reads aggregates one after the other outside any transaction, *)
(* applies domain methods to its copies and writes whole aggregates back   *)
(* in one transaction (txManager.Do) together with its outbox event.       *)
(* Between reading and writing other requests run.                         *)
(*                                                                         *)
(* src has no implementation of the repositories.  What is assumed of them *)
(* is WritesCurrent: Update refuses an aggregate whose stored version is   *)
(* not the one that was read, as the L3 description demands, and Create    *)
(* refuses a second row.                                                   *)
(***************************************************************************)
EXTENDS Naturals, FiniteSets, HiringStages

CONSTANTS
  Procs,       \* requests in flight at once
  Offers,      \* offer identifiers
  Interviews,  \* interview identifiers
  MaxVersion,  \* bound on the application's transitions
  None         \* nothing read, nothing to write

ASSUME BoundAssumption == MaxVersion \in Nat

VARIABLES
  application, \* the JobApplication
  offers,      \* the JobOffers
  lapsed,      \* per offer: now is at or after ExpiresAt
  interviews,  \* the Interviews
  rooms,       \* per interview: its LiveKit room
  pc, target,  \* per request: its step, the offer or interview it is about
  appWrite, offerWrite, interviewWrite  \* per request: its changed copies

aggregates == << application, offers, lapsed, interviews, rooms >>
writes == << appWrite, offerWrite, interviewWrite >>
vars == << aggregates, pc, target, writes >>

\* An absent row has version 0.
Application == [stage : Stages \cup {Absent}, version : Nat]
Offer       == [status : OfferStatuses \cup {Absent}, version : Nat]
Interview   == [status : InterviewStatuses \cup {Absent}, feedback : BOOLEAN, version : Nat]

ASSUME NoneAssumption ==
  None \notin Offers \cup Interviews \cup Application \cup Offer \cup Interview

Advance(app, to) == [stage |-> to, version |-> app.version + 1]
SetOffer(offer, to) == [status |-> to, version |-> offer.version + 1]
SetInterview(it, to) == [it EXCEPT !.status = to, !.version = @ + 1]

\* OfferEligibilityPolicy, once the stage is INTERVIEW.
Eligible == \E i \in Interviews : interviews[i].status = "COMPLETED" /\ interviews[i].feedback

----------------------------------------------------------------------------
Init ==
  /\ application = [stage |-> Absent, version |-> 0]
  /\ offers = [o \in Offers |-> [status |-> Absent, version |-> 0]]
  /\ lapsed = [o \in Offers |-> FALSE]
  /\ interviews = [i \in Interviews |-> [status |-> Absent, feedback |-> FALSE, version |-> 0]]
  /\ rooms = [i \in Interviews |-> "none"]
  /\ pc = [p \in Procs |-> "idle"]
  /\ target = [p \in Procs |-> None]
  /\ appWrite = [p \in Procs |-> None]
  /\ offerWrite = [p \in Procs |-> None]
  /\ interviewWrite = [p \in Procs |-> None]

At(p, step) == pc' = [pc EXCEPT ![p] = step]
For(p, x) == target' = [target EXCEPT ![p] = x]
WriteApp(p, app) == appWrite' = [appWrite EXCEPT ![p] = app]
WriteOffer(p, offer) == offerWrite' = [offerWrite EXCEPT ![p] = offer]
WriteInterview(p, it) == interviewWrite' = [interviewWrite EXCEPT ![p] = it]

Finish(p) ==
  /\ At(p, "idle")
  /\ For(p, None)
  /\ WriteApp(p, None) /\ WriteOffer(p, None) /\ WriteInterview(p, None)

\* An identifier that idGen has not given out yet.
Fresh(x) == \A q \in Procs : target[q] # x

----------------------------------------------------------------------------
(* The repositories and the transaction. *)

\* Mistakes: the version of one kind of aggregate is not compared.
ApplicationUnchecked(p) ==
  /\ offerWrite[p] # None => offerWrite[p].version = offers[target[p]].version + 1
  /\ interviewWrite[p] # None => interviewWrite[p].version = interviews[target[p]].version + 1

OfferUnchecked(p) ==
  /\ appWrite[p] # None => appWrite[p].version = application.version + 1
  /\ interviewWrite[p] # None => interviewWrite[p].version = interviews[target[p]].version + 1

InterviewUnchecked(p) ==
  /\ appWrite[p] # None => appWrite[p].version = application.version + 1
  /\ offerWrite[p] # None => offerWrite[p].version = offers[target[p]].version + 1

WritesCurrent(p) ==
  /\ appWrite[p] # None => appWrite[p].version = application.version + 1
  /\ offerWrite[p] # None => offerWrite[p].version = offers[target[p]].version + 1
  /\ interviewWrite[p] # None => interviewWrite[p].version = interviews[target[p]].version + 1

Commit(p) ==
  /\ pc[p] = "commit"
  /\ WritesCurrent(p)
  /\ application' = IF appWrite[p] = None THEN application ELSE appWrite[p]
  /\ offers' = IF offerWrite[p] = None THEN offers
               ELSE [offers EXCEPT ![target[p]] = offerWrite[p]]
  /\ interviews' = IF interviewWrite[p] = None THEN interviews
                   ELSE [interviews EXCEPT ![target[p]] = interviewWrite[p]]
  /\ Finish(p)
  /\ UNCHANGED << lapsed, rooms >>

\* A domain error, a version conflict, a database error or a crash.
Abort(p) ==
  /\ pc[p] # "idle"
  /\ Finish(p)
  /\ UNCHANGED aggregates

----------------------------------------------------------------------------
(* usecase/application *)

ApplyVacancy(p) ==
  /\ pc[p] = "idle"
  /\ application.stage = Absent
  /\ WriteApp(p, [stage |-> "APPLIED", version |-> 1])
  /\ At(p, "commit")
  /\ UNCHANGED << aggregates, target, offerWrite, interviewWrite >>

\* The application is read, and ChangeStage applied to the copy.
PlanStage(p, to) ==
  /\ pc[p] = "idle"
  /\ CanTransition(application.stage, to)
  /\ application.version < MaxVersion
  /\ WriteApp(p, Advance(application, to))
  /\ UNCHANGED << aggregates, target, offerWrite, interviewWrite >>

\* PromoteToInterview is ChangeStage to INTERVIEW.
ChangeStage(p, to) == to # "OFFER_PENDING" /\ PlanStage(p, to) /\ At(p, "commit")

\* The application is read first, its interviews afterwards.
InitiateOffer(p) == PlanStage(p, "OFFER_PENDING") /\ At(p, "eligibility")

CheckEligibility(p) ==
  /\ pc[p] = "eligibility"
  /\ Eligible
  /\ At(p, "commit")
  /\ UNCHANGED << aggregates, target, writes >>

RejectApplication(p) == PlanStage(p, "REJECTED") /\ At(p, "commit")
WithdrawApplication(p) == PlanStage(p, "WITHDRAWN") /\ At(p, "commit")

HandleAssessmentResult(p, passed) ==
  /\ application.stage = "TECH_ASSESSMENT"
  /\ PlanStage(p, IF passed THEN "INTERVIEW" ELSE "REJECTED")
  /\ At(p, "commit")

----------------------------------------------------------------------------
(* usecase/offer *)

CreateOffer(p, o) ==
  /\ pc[p] = "idle"
  /\ offers[o].status = Absent /\ Fresh(o)
  /\ \/ /\ application.stage = "INTERVIEW"
        /\ application.version < MaxVersion
        /\ WriteApp(p, Advance(application, "OFFER_PENDING"))
     \/ /\ application.stage = "OFFER_PENDING"
        /\ UNCHANGED appWrite
  /\ WriteOffer(p, [status |-> "DRAFT", version |-> 1])
  /\ For(p, o)
  /\ At(p, "commit")
  /\ UNCHANGED << aggregates, interviewWrite >>

\* Send and Expire read the offer only.
PlanOffer(p, o, to) ==
  /\ pc[p] = "idle"
  /\ WriteOffer(p, SetOffer(offers[o], to))
  /\ For(p, o)
  /\ At(p, "commit")
  /\ UNCHANGED << aggregates, appWrite, interviewWrite >>

SendOffer(p, o) == offers[o].status = "DRAFT" /\ ~lapsed[o] /\ PlanOffer(p, o, "SENT")
ExpireOffer(p, o) == offers[o].status = "SENT" /\ lapsed[o] /\ PlanOffer(p, o, "EXPIRED")

\* Accept, Decline and Revoke read the offer first, the application afterwards.
Answers == {"accept", "decline", "revoke"}

LoadOffer(p, o, answer) ==
  /\ pc[p] = "idle"
  /\ offers[o].status # Absent
  /\ WriteOffer(p, offers[o])
  /\ For(p, o)
  /\ At(p, answer)
  /\ UNCHANGED << aggregates, appWrite, interviewWrite >>

\* Both copies change, and one transaction writes both.
Answer(p, to, stage) ==
  /\ CanTransition(application.stage, stage)
  /\ application.version < MaxVersion
  /\ WriteOffer(p, SetOffer(offerWrite[p], to))
  /\ WriteApp(p, Advance(application, stage))
  /\ At(p, "commit")
  /\ UNCHANGED << aggregates, target, interviewWrite >>

AcceptOffer(p) ==
  /\ pc[p] = "accept"
  /\ offerWrite[p].status = "SENT"
  /\ ~lapsed[target[p]]
  /\ Answer(p, "ACCEPTED", "OFFER_ACCEPTED")

DeclineOffer(p) ==
  /\ pc[p] = "decline"
  /\ offerWrite[p].status = "SENT"
  /\ Answer(p, "DECLINED", "INTERVIEW")

RevokeOffer(p) ==
  /\ pc[p] = "revoke"
  /\ offerWrite[p].status \in {"DRAFT", "SENT"}
  /\ Answer(p, "REVOKED", "INTERVIEW")

\* ExpiresAt is reached, 24 hours or more after the creation.
OfferLapses(o) ==
  /\ offers[o].status # Absent
  /\ ~lapsed[o]
  /\ lapsed' = [lapsed EXCEPT ![o] = TRUE]
  /\ UNCHANGED << application, offers, interviews, rooms, pc, target, writes >>

----------------------------------------------------------------------------
(* usecase/interview *)

\* Only the stage is read, and never looked at again.
ScheduleInterview(p, i) ==
  /\ pc[p] = "idle"
  /\ interviews[i].status = Absent /\ rooms[i] = "none" /\ Fresh(i)
  /\ application.stage \in {"INTERVIEW", "SCREENING"}
  /\ For(p, i)
  /\ At(p, "provision")
  /\ UNCHANGED << aggregates, writes >>

\* Mistake: the room is provisioned once the interview is stored.
ProvisionLater(p) ==
  /\ pc[p] = "provision"
  /\ WriteInterview(p, [status |-> "SCHEDULED", feedback |-> FALSE, version |-> 1])
  /\ At(p, "commit")
  /\ UNCHANGED << aggregates, target, appWrite, offerWrite >>

\* The room exists before the transaction, and before the other arguments are checked.
ProvisionRoom(p) ==
  /\ pc[p] = "provision"
  /\ rooms' = [rooms EXCEPT ![target[p]] = "open"]
  /\ WriteInterview(p, [status |-> "SCHEDULED", feedback |-> FALSE, version |-> 1])
  /\ At(p, "commit")
  /\ UNCHANGED << application, offers, lapsed, interviews, target, appWrite, offerWrite >>

PlanInterview(p, i, it) ==
  /\ pc[p] = "idle"
  /\ WriteInterview(p, it)
  /\ For(p, i)
  /\ At(p, "commit")
  /\ UNCHANGED << application, offers, lapsed, interviews, appWrite, offerWrite >>

CompleteInterview(p, i) ==
  /\ interviews[i].status = "SCHEDULED"
  /\ PlanInterview(p, i, SetInterview(interviews[i], "COMPLETED"))
  /\ UNCHANGED rooms

\* Mistake: a completed interview can be cancelled.
CancelCompleted(p, i) ==
  /\ interviews[i].status \in {"SCHEDULED", "COMPLETED"}
  /\ PlanInterview(p, i, SetInterview(interviews[i], "CANCELLED"))
  /\ \/ rooms' = [rooms EXCEPT ![i] = "closed"]
     \/ UNCHANGED rooms

\* Teardown comes before the transaction; its error is ignored.
CancelInterview(p, i) ==
  /\ interviews[i].status = "SCHEDULED"
  /\ PlanInterview(p, i, SetInterview(interviews[i], "CANCELLED"))
  /\ \/ rooms' = [rooms EXCEPT ![i] = "closed"]
     \/ UNCHANGED rooms

\* The feedback of the one interviewer.
SubmitFeedback(p, i) ==
  /\ interviews[i].status \in {"SCHEDULED", "COMPLETED"}
  /\ ~interviews[i].feedback
  /\ PlanInterview(p, i, [interviews[i] EXCEPT !.feedback = TRUE, !.version = @ + 1])
  /\ UNCHANGED rooms

----------------------------------------------------------------------------
Request(p) ==
  \/ ApplyVacancy(p)
  \/ \E to \in Stages : ChangeStage(p, to)
  \/ InitiateOffer(p)
  \/ CheckEligibility(p)
  \/ RejectApplication(p)
  \/ WithdrawApplication(p)
  \/ \E passed \in BOOLEAN : HandleAssessmentResult(p, passed)
  \/ \E o \in Offers : \/ CreateOffer(p, o)
                       \/ SendOffer(p, o)
                       \/ ExpireOffer(p, o)
                       \/ \E answer \in Answers : LoadOffer(p, o, answer)
  \/ AcceptOffer(p)
  \/ DeclineOffer(p)
  \/ RevokeOffer(p)
  \/ \E i \in Interviews : \/ ScheduleInterview(p, i)
                           \/ CompleteInterview(p, i)
                           \/ CancelInterview(p, i)
                           \/ SubmitFeedback(p, i)
  \/ ProvisionRoom(p)
  \/ Commit(p)
  \/ Abort(p)

Next ==
  \/ \E p \in Procs : Request(p)
  \/ \E o \in Offers : OfferLapses(o)

Spec == Init /\ [][Next]_vars

----------------------------------------------------------------------------
(* Type correctness of the aggregates and of what requests hold. *)
TypeOK ==
  /\ application \in Application
  /\ offers \in [Offers -> Offer]
  /\ lapsed \in [Offers -> BOOLEAN]
  /\ interviews \in [Interviews -> Interview]
  /\ rooms \in [Interviews -> {"none", "open", "closed"}]
  /\ pc \in [Procs -> {"idle", "commit", "eligibility", "provision"} \cup Answers]
  /\ target \in [Procs -> Offers \cup Interviews \cup {None}]
  /\ appWrite \in [Procs -> Application \cup {None}]
  /\ offerWrite \in [Procs -> Offer \cup {None}]
  /\ interviewWrite \in [Procs -> Interview \cup {None}]

(* An application has at most one accepted offer, although it may have several *)
(* that were sent: two AcceptOffer of different offers touch no common offer,  *)
(* only the version of the application separates them (accept.go).             *)
OneAcceptedOffer ==
  Cardinality({o \in Offers : offers[o].status = "ACCEPTED"}) <= 1

(* An accepted offer never stands beside an application that went back to the  *)
(* negotiation: no decline or revocation of another offer, and no stale stage  *)
(* change, takes OFFER_ACCEPTED back (decline.go, revoke.go, change_stage.go). *)
AcceptedOfferHoldsStage ==
  (\E o \in Offers : offers[o].status = "ACCEPTED") =>
    application.stage = "OFFER_ACCEPTED" \/ IsTerminal(application.stage)

OfferView == [o \in Offers |-> offers[o].status]
InterviewView == [i \in Interviews |-> [status |-> interviews[i].status,
                                        feedback |-> interviews[i].feedback]]

Process == INSTANCE HiringProcess
             WITH progress <- application.stage, offer <- OfferView, interview <- InterviewView

(* However the reads and the commits of concurrent commands interleave, every  *)
(* commit is one command of HiringProcess applied to what is stored: no answer *)
(* is split from its stage change, no command undoes another (the usecases     *)
(* read outside the transaction; versions decide at the commit).               *)
CommandsAreAtomic == Process!Spec

(* What is written is a legal transition of what is stored, not only of the    *)
(* copy that was read: the losing command of a race does not overwrite the     *)
(* winner's result, and a terminal stage is final.                             *)
StoredTransitionsAreLegal ==
  [][application.stage # Absent /\ application' # application =>
       /\ CanTransition(application.stage, application'.stage)
       /\ application'.version = application.version + 1]_vars

(* An offer that was answered, revoked or expired keeps its status, whichever  *)
(* of AcceptOffer, RevokeOffer, DeclineOffer and ExpireOffer raced for it.     *)
ClosedOfferIsFinal ==
  [][\A o \in Offers : offers[o].status \notin {Absent, "DRAFT", "SENT"} =>
       offers'[o] = offers[o]]_vars

(* A cancelled interview is never held and gets no feedback, and a completed   *)
(* one is not cancelled, when Cancel, Complete and SubmitFeedback race.        *)
ClosedInterviewIsFinal ==
  [][\A i \in Interviews :
       /\ interviews[i].status = "CANCELLED" => interviews'[i] = interviews[i]
       /\ interviews[i].status = "COMPLETED" => interviews'[i].status = "COMPLETED"
       /\ interviews[i].feedback => interviews'[i].feedback]_vars

(* ChangeStage to OFFER_PENDING still has its completed interview with         *)
(* feedback when it commits, although the interviews were read before the      *)
(* transaction and their versions are not part of it.                          *)
EligibilityHoldsAtCommit ==
  \A p \in Procs :
    pc[p] = "commit" /\ appWrite[p] # None /\ offerWrite[p] = None =>
      (appWrite[p].stage = "OFFER_PENDING" => Eligible)

(* Rooms live outside the transactions, yet no interview is stored without one *)
(* and no room is torn down before its interview was stored: schedule.go        *)
(* provisions before it commits, cancel.go tears down what it has read.         *)
RoomsPrecedeInterviews ==
  \A i \in Interviews :
    /\ interviews[i].status # Absent => rooms[i] # "none"
    /\ rooms[i] = "closed" => interviews[i].status # Absent

(* "Before the transition from INTERVIEW to the offer the policy checks that   *)
(* at least one completed interview with feedback exists", on every path.      *)
OfferStageRequiresInterview ==
  [][application'.stage = "OFFER_PENDING" /\ application.stage = "INTERVIEW" => Eligible]_vars
============================================================================
