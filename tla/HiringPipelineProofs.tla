----------------------- MODULE HiringPipelineProofs ------------------------
(***************************************************************************)
(* What holds of HiringPipeline for any number of requests, offers and     *)
(* interviews.                                                             *)
(*                                                                         *)
(* A version is given out once, so a copy whose version follows the stored *)
(* one was made from what is stored: the invariant says of every copy what *)
(* its version, if the transaction accepts it, tells about the row.        *)
(***************************************************************************)
EXTENDS HiringPipeline, FiniteSetTheorems, TLAPS

\* A stage that a command may write over the stored one.
Legal(from, to) == (from = Absent /\ to = "APPLIED") \/ CanTransition(from, to)

\* A row was written at least once exactly when it exists.
VersionsMarkRows ==
  /\ application.stage = Absent <=> application.version = 0
  /\ \A o \in Offers : offers[o].status = Absent <=> offers[o].version = 0
  /\ \A i \in Interviews : /\ interviews[i].status = Absent <=> interviews[i].version = 0
                           /\ interviews[i].status = Absent => ~interviews[i].feedback

\* What a request holds at each of its steps.
Shape(p) ==
  /\ pc[p] = "idle" =>
       target[p] = None /\ appWrite[p] = None /\ offerWrite[p] = None /\ interviewWrite[p] = None
  /\ pc[p] = "eligibility" =>
       /\ appWrite[p] # None /\ appWrite[p].stage = "OFFER_PENDING"
       /\ offerWrite[p] = None /\ interviewWrite[p] = None
  /\ pc[p] = "provision" =>
       /\ target[p] \in Interviews
       /\ appWrite[p] = None /\ offerWrite[p] = None /\ interviewWrite[p] = None
  /\ pc[p] \in Answers => offerWrite[p] # None /\ appWrite[p] = None
  /\ offerWrite[p] # None => target[p] \in Offers /\ interviewWrite[p] = None
  /\ interviewWrite[p] # None => target[p] \in Interviews /\ appWrite[p] = None

ApplicationCopy(p) ==
  appWrite[p] # None =>
    /\ appWrite[p].stage \in Stages
    /\ appWrite[p].version <= application.version + 1
    /\ appWrite[p].version = application.version + 1 =>
         Legal(application.stage, appWrite[p].stage)

OfferRead(p) ==
  pc[p] \in Answers =>
    /\ offerWrite[p].version <= offers[target[p]].version
    /\ offerWrite[p].version = offers[target[p]].version => offerWrite[p] = offers[target[p]]

OpenOffer == {Absent, "DRAFT", "SENT"}

\* The status a command may write over the stored one.
OfferFollows(from, to) ==
  \/ from = Absent /\ to = "DRAFT"
  \/ from = "DRAFT" /\ to = "SENT"
  \/ from = "SENT" /\ to \in {"ACCEPTED", "DECLINED", "EXPIRED"}
  \/ from \in {"DRAFT", "SENT"} /\ to = "REVOKED"

\* What a transaction writes of the application beside an offer.
GoesWith(app, status) ==
  /\ status = "DRAFT" => app = None \/ app.stage = "OFFER_PENDING"
  /\ status \in {"SENT", "EXPIRED"} => app = None
  /\ status = "ACCEPTED" => app # None /\ app.stage = "OFFER_ACCEPTED"
  /\ status \in {"DECLINED", "REVOKED"} => app # None /\ app.stage = "INTERVIEW"

OfferCopy(p) ==
  pc[p] = "commit" /\ offerWrite[p] # None =>
    /\ offerWrite[p].status \in OfferStatuses
    /\ GoesWith(appWrite[p], offerWrite[p].status)
    /\ offerWrite[p].version <= offers[target[p]].version + 1
    /\ offerWrite[p].version = offers[target[p]].version + 1 =>
         OfferFollows(offers[target[p]].status, offerWrite[p].status)

\* What has happened in the interview it is not taken back by its successor.
Keeps(it, next) ==
  /\ it.status # "CANCELLED"
  /\ it.status = "COMPLETED" => next.status = "COMPLETED"
  /\ it.feedback => next.feedback

\* What a command may write over the stored interview.
InterviewFollows(it, next) ==
  \/ it.status = Absent /\ next.status = "SCHEDULED" /\ ~next.feedback
  \/ /\ it.status = "SCHEDULED" /\ next.status \in {"COMPLETED", "CANCELLED"}
     /\ next.feedback = it.feedback
  \/ /\ it.status \in {"SCHEDULED", "COMPLETED"} /\ next.status = it.status
     /\ ~it.feedback /\ next.feedback

InterviewCopy(p) ==
  interviewWrite[p] # None =>
    /\ interviewWrite[p].status \in InterviewStatuses
    /\ rooms[target[p]] # "none"
    /\ interviewWrite[p].version <= interviews[target[p]].version + 1
    /\ interviewWrite[p].version = interviews[target[p]].version + 1 =>
         /\ Keeps(interviews[target[p]], interviewWrite[p])
         /\ InterviewFollows(interviews[target[p]], interviewWrite[p])

EligibleCopy(p) ==
  pc[p] = "commit" /\ appWrite[p] # None /\ offerWrite[p] = None =>
    (appWrite[p].stage = "OFFER_PENDING" => Eligible)

\* Applications that have offers are past the interview, for good, and those that
\* have interviews are past the application.
OfferStages     == Stages \ {"APPLIED", "SCREENING", "TECH_ASSESSMENT"}
InterviewStages == Stages \ {"APPLIED"}

Reached(p) ==
  /\ offerWrite[p] # None => application.stage \in OfferStages
  /\ pc[p] = "provision" \/ interviewWrite[p] # None => application.stage \in InterviewStages

RowsReached ==
  /\ \A o \in Offers : offers[o].status # Absent => application.stage \in OfferStages
  /\ \A i \in Interviews : interviews[i].status # Absent => application.stage \in InterviewStages

RequestOK(p) ==
  /\ Shape(p)
  /\ ApplicationCopy(p)
  /\ OfferRead(p)
  /\ OfferCopy(p)
  /\ InterviewCopy(p)
  /\ EligibleCopy(p)
  /\ Reached(p)

AtMostOneAccepted ==
  \A o, r \in Offers :
    offers[o].status = "ACCEPTED" /\ offers[r].status = "ACCEPTED" => o = r

IInv ==
  /\ TypeOK
  /\ VersionsMarkRows
  /\ RowsReached
  /\ \A p \in Procs : RequestOK(p)
  /\ AtMostOneAccepted
  /\ AcceptedOfferHoldsStage
  /\ RoomsPrecedeInterviews

\* A step of p before its commit: the rows stay, and no room is taken away.
Plans(p) ==
  /\ UNCHANGED << application, offers, interviews >>
  /\ \A i \in Interviews : rooms[i] # "none" => rooms'[i] # "none"
  /\ \A q \in Procs \ {p} : /\ pc'[q] = pc[q] /\ target'[q] = target[q]
                            /\ appWrite'[q] = appWrite[q] /\ offerWrite'[q] = offerWrite[q]
                            /\ interviewWrite'[q] = interviewWrite[q]

----------------------------------------------------------------------------
(* Stages *)

LEMMA OnwardStages ==
  ASSUME NEW from, NEW to, CanTransition(from, to)
  PROVE  from \in Stages /\ ~IsTerminal(from) /\ to \in Stages
  BY DEF CanTransition, Onward, Stages, IsTerminal

LEMMA AcceptedOnward ==
  ASSUME NEW from, NEW to, Legal(from, to)
  PROVE  /\ to = "OFFER_ACCEPTED" => from = "OFFER_PENDING"
         /\ from = "OFFER_ACCEPTED" => IsTerminal(to)
         /\ ~IsTerminal(from)
         /\ to \in Stages
         /\ from \in OfferStages => to \in OfferStages
         /\ from \in InterviewStages => to \in InterviewStages
  BY DEF OfferStages, InterviewStages, Legal, CanTransition, Onward, Stages, IsTerminal, Absent

----------------------------------------------------------------------------
(* Steps before the commit *)

LEMMA OthersKeep ==
  ASSUME NEW p \in Procs, NEW q \in Procs \ {p}, TypeOK, Plans(p), RequestOK(q)
  PROVE  RequestOK(q)'
  <1>. USE DEF Plans
  <1>1. Shape(q)'
    BY DEF RequestOK, Shape
  <1>2. ApplicationCopy(q)'
    BY DEF RequestOK, ApplicationCopy
  <1>3. OfferRead(q)'
    BY DEF RequestOK, OfferRead
  <1>4. OfferCopy(q)'
    BY DEF RequestOK, OfferCopy
  <1>5. InterviewCopy(q)'
    BY DEF RequestOK, Shape, InterviewCopy
  <1>6. EligibleCopy(q)'
    BY DEF RequestOK, EligibleCopy, Eligible
  <1>7. Reached(q)'
    BY DEF RequestOK, Reached
  <1>. QED BY <1>1, <1>2, <1>3, <1>4, <1>5, <1>6, <1>7 DEF RequestOK

LEMMA PlanPreserves ==
  ASSUME IInv, NEW p \in Procs, Plans(p), TypeOK', RequestOK(p)', RoomsPrecedeInterviews'
  PROVE  IInv'
  <1>1. VersionsMarkRows' /\ RowsReached'
    BY DEF IInv, VersionsMarkRows, RowsReached, Plans
  <1>2. \A q \in Procs : RequestOK(q)'
    BY OthersKeep DEF IInv
  <1>3. AtMostOneAccepted'
    BY DEF IInv, AtMostOneAccepted, Plans
  <1>4. AcceptedOfferHoldsStage'
    BY DEF IInv, AcceptedOfferHoldsStage, Plans
  <1>. QED BY <1>1, <1>2, <1>3, <1>4 DEF IInv

\* The steps that change nothing but what p holds.
LEMMA QuietPlanPreserves ==
  ASSUME IInv, NEW p \in Procs, Plans(p), UNCHANGED << lapsed, rooms >>,
         pc' \in [Procs -> {"idle", "commit", "eligibility", "provision"} \cup Answers],
         target' \in [Procs -> Offers \cup Interviews \cup {None}],
         appWrite' \in [Procs -> Application \cup {None}],
         offerWrite' \in [Procs -> Offer \cup {None}],
         interviewWrite' \in [Procs -> Interview \cup {None}],
         RequestOK(p)'
  PROVE  IInv'
  <1>1. TypeOK'
    BY DEF IInv, TypeOK, Plans
  <1>2. RoomsPrecedeInterviews'
    BY DEF IInv, RoomsPrecedeInterviews, Plans
  <1>. QED BY <1>1, <1>2, PlanPreserves

LEMMA ApplyPreserves ==
  ASSUME IInv, NEW p \in Procs, ApplyVacancy(p)
  PROVE  IInv'
  <1>. USE DEF ApplyVacancy, At, WriteApp, aggregates, IInv, TypeOK
  <1>1. Plans(p)
    BY DEF Plans
  <1>2. [stage |-> "APPLIED", version |-> 1] \in Application
    BY DEF Application, Stages
  <1>3. RequestOK(p)'
    BY <1>2, NoneAssumption
       DEF RequestOK, Shape, ApplicationCopy, OfferRead, OfferCopy, InterviewCopy, EligibleCopy, Reached,
           VersionsMarkRows, Answers, Legal, Stages
  <1>. QED BY <1>1, <1>2, <1>3, QuietPlanPreserves

\* All commands that change the stage, with their next step.
LEMMA StagePreserves ==
  ASSUME IInv, NEW p \in Procs, NEW to, PlanStage(p, to), NEW step, At(p, step),
         \/ step = "commit" /\ to # "OFFER_PENDING"
         \/ step = "eligibility" /\ to = "OFFER_PENDING"
  PROVE  IInv'
  <1>. USE DEF PlanStage, At, WriteApp, aggregates, IInv, TypeOK
  <1>1. Plans(p)
    BY DEF Plans
  <1>2. /\ Advance(application, to) \in Application
        /\ Advance(application, to).stage = to
        /\ Advance(application, to).version = application.version + 1
        /\ to \in Stages
    BY OnwardStages DEF Application, Advance
  <1>3. RequestOK(p)'
    BY <1>2, NoneAssumption
       DEF RequestOK, Shape, ApplicationCopy, OfferRead, OfferCopy, InterviewCopy, EligibleCopy, Reached,
           Application, Answers, Legal
  <1>. QED BY <1>1, <1>2, <1>3, QuietPlanPreserves

LEMMA EligibilityPreserves ==
  ASSUME IInv, NEW p \in Procs, CheckEligibility(p)
  PROVE  IInv'
  <1>. USE DEF CheckEligibility, At, aggregates, writes, IInv, TypeOK
  <1>1. Plans(p)
    BY DEF Plans
  <1>2. Shape(p)' /\ ApplicationCopy(p)' /\ OfferRead(p)' /\ OfferCopy(p)' /\ InterviewCopy(p)'
        /\ Reached(p)'
    BY DEF RequestOK, Shape, ApplicationCopy, OfferRead, OfferCopy, InterviewCopy, Reached, Answers
  <1>3. EligibleCopy(p)'
    BY DEF EligibleCopy, Eligible
  <1>. QED BY <1>1, <1>2, <1>3, QuietPlanPreserves DEF RequestOK

LEMMA CreateOfferPreserves ==
  ASSUME IInv, NEW p \in Procs, NEW o \in Offers, CreateOffer(p, o)
  PROVE  IInv'
  <1>. DEFINE draft == [status |-> "DRAFT", version |-> 1]
  <1>. USE DEF CreateOffer, At, For, WriteApp, WriteOffer, aggregates, IInv, TypeOK
  <1>1. Plans(p)
    BY DEF Plans
  <1>2. /\ draft \in Offer /\ draft # None
        /\ draft.status = "DRAFT" /\ draft.version = 1
    BY NoneAssumption DEF Offer, OfferStatuses
  <1>3. appWrite[p] = None /\ interviewWrite[p] = None
    BY DEF RequestOK, Shape
  <1>4. appWrite' \in [Procs -> Application \cup {None}] /\ ApplicationCopy(p)'
    <2>1. CASE UNCHANGED appWrite
      BY <2>1, <1>3 DEF ApplicationCopy
    <2>2. CASE /\ application.stage = "INTERVIEW"
               /\ WriteApp(p, Advance(application, "OFFER_PENDING"))
      <3>1. /\ Advance(application, "OFFER_PENDING") \in Application
            /\ Advance(application, "OFFER_PENDING").stage = "OFFER_PENDING"
            /\ Advance(application, "OFFER_PENDING").version = application.version + 1
        BY DEF Application, Advance, Stages
      <3>2. Legal("INTERVIEW", "OFFER_PENDING") /\ "OFFER_PENDING" \in Stages
        BY DEF Legal, CanTransition, Onward, IsTerminal, Stages
      <3>. QED BY <2>2, <3>1, <3>2 DEF ApplicationCopy, Application
    <2>. QED BY <2>1, <2>2
  <1>5. Shape(p)' /\ OfferRead(p)' /\ InterviewCopy(p)' /\ EligibleCopy(p)' /\ Reached(p)'
    BY <1>2, <1>3
       DEF Shape, OfferRead, InterviewCopy, EligibleCopy, Reached, OfferStages, Stages, Answers
  <1>6. OfferCopy(p)'
    <2>1. appWrite'[p] = None \/ appWrite'[p].stage = "OFFER_PENDING"
      BY <1>3 DEF Advance
    <2>2. /\ offerWrite'[p] = draft /\ target'[p] = o /\ UNCHANGED offers
          /\ offers[o].status = Absent /\ offers[o].version = 0
      BY DEF VersionsMarkRows
    <2>3. GoesWith(appWrite'[p], "DRAFT") /\ OfferFollows(Absent, "DRAFT") /\ "DRAFT" \in OfferStatuses
      BY <2>1 DEF GoesWith, OfferFollows, OfferStatuses
    <2>. QED BY <1>2, <2>2, <2>3 DEF OfferCopy
  <1>. HIDE DEF draft
  <1>7. offerWrite' \in [Procs -> Offer \cup {None}]
    BY <1>2 DEF draft
  <1>. QED BY <1>1, <1>4, <1>5, <1>6, <1>7, QuietPlanPreserves DEF RequestOK

\* SendOffer and ExpireOffer.
LEMMA OfferPreserves ==
  ASSUME IInv, NEW p \in Procs, NEW o \in Offers, NEW to \in {"SENT", "EXPIRED"},
         OfferFollows(offers[o].status, to), offers[o].status # Absent, PlanOffer(p, o, to)
  PROVE  IInv'
  <1>. USE DEF PlanOffer, At, For, WriteOffer, aggregates, IInv, TypeOK
  <1>1. Plans(p)
    BY DEF Plans
  <1>2. /\ SetOffer(offers[o], to) \in Offer /\ SetOffer(offers[o], to) # None
        /\ SetOffer(offers[o], to).status = to
        /\ SetOffer(offers[o], to).version = offers[o].version + 1
    BY NoneAssumption DEF SetOffer, Offer, OfferStatuses
  <1>3. appWrite[p] = None /\ interviewWrite[p] = None
    BY DEF RequestOK, Shape
  <1>4. /\ pc'[p] = "commit" /\ target'[p] = o
        /\ appWrite'[p] = None /\ interviewWrite'[p] = None
        /\ offerWrite'[p] = SetOffer(offers[o], to)
        /\ UNCHANGED << application, offers, interviews >>
    BY <1>3
  <1>5. RequestOK(p)'
    BY <1>2, <1>4
       DEF RequestOK, Shape, ApplicationCopy, OfferRead, OfferCopy, InterviewCopy, EligibleCopy, Reached,
           Answers, OfferStatuses, Offer, GoesWith, RowsReached
  <1>. QED BY <1>1, <1>2, <1>5, QuietPlanPreserves

LEMMA LoadPreserves ==
  ASSUME IInv, NEW p \in Procs, NEW o \in Offers, NEW answer \in Answers, LoadOffer(p, o, answer)
  PROVE  IInv'
  <1>. USE DEF LoadOffer, At, For, WriteOffer, aggregates, IInv, TypeOK
  <1>1. Plans(p)
    BY DEF Plans
  <1>2. offers[o] \in Offer /\ offers[o] # None
    BY NoneAssumption
  <1>3. appWrite[p] = None /\ interviewWrite[p] = None
    BY DEF RequestOK, Shape
  <1>4. RequestOK(p)'
    BY <1>2, <1>3
       DEF RequestOK, Shape, ApplicationCopy, OfferRead, OfferCopy, InterviewCopy, EligibleCopy, Reached,
           Answers, Offer, RowsReached
  <1>. QED BY <1>1, <1>2, <1>4, QuietPlanPreserves

\* AcceptOffer, DeclineOffer and RevokeOffer.
LEMMA AnswerPreserves ==
  ASSUME IInv, NEW p \in Procs, pc[p] \in Answers, NEW to \in OfferStatuses, NEW stage,
         OfferFollows(offerWrite[p].status, to), to \in {"ACCEPTED", "DECLINED", "REVOKED"},
         stage = IF to = "ACCEPTED" THEN "OFFER_ACCEPTED" ELSE "INTERVIEW",
         Answer(p, to, stage)
  PROVE  IInv'
  <1>. USE DEF Answer, At, WriteApp, WriteOffer, aggregates, IInv, TypeOK
  <1>1. Plans(p)
    BY DEF Plans
  <1>2. /\ offerWrite[p] \in Offer /\ target[p] \in Offers
        /\ appWrite[p] = None /\ interviewWrite[p] = None
        /\ offerWrite[p].version <= offers[target[p]].version
        /\ offerWrite[p].version = offers[target[p]].version => offerWrite[p] = offers[target[p]]
    BY DEF RequestOK, Shape, OfferRead
  <1>3. /\ SetOffer(offerWrite[p], to) \in Offer /\ SetOffer(offerWrite[p], to) # None
        /\ SetOffer(offerWrite[p], to).status = to
        /\ SetOffer(offerWrite[p], to).version = offerWrite[p].version + 1
    BY <1>2, NoneAssumption DEF SetOffer, Offer
  <1>4. /\ Advance(application, stage) \in Application /\ Advance(application, stage) # None
        /\ Advance(application, stage).stage = stage
        /\ Advance(application, stage).version = application.version + 1
        /\ stage \in Stages
    BY OnwardStages, NoneAssumption DEF Application, Advance
  <1>5. /\ pc'[p] = "commit" /\ target'[p] = target[p]
        /\ appWrite'[p] = Advance(application, stage)
        /\ offerWrite'[p] = SetOffer(offerWrite[p], to)
        /\ interviewWrite'[p] = None
        /\ UNCHANGED << application, offers, interviews >>
    BY <1>2
  <1>6. Shape(p)' /\ OfferRead(p)' /\ InterviewCopy(p)' /\ EligibleCopy(p)' /\ Reached(p)'
    BY <1>2, <1>3, <1>4, <1>5
       DEF RequestOK, Shape, OfferRead, InterviewCopy, EligibleCopy, Reached, Answers
  <1>7. ApplicationCopy(p)'
    BY <1>4, <1>5 DEF ApplicationCopy, Legal, Application
  <1>8. OfferCopy(p)'
    <2>1. offerWrite[p].version \in Nat /\ offers[target[p]].version \in Nat
      BY <1>2 DEF Offer
    <2>2. /\ offerWrite'[p].status = to /\ offerWrite'[p].version = offerWrite[p].version + 1
          /\ appWrite'[p] # None /\ appWrite'[p].stage = stage
      BY <1>3, <1>4, <1>5
    <2>3. /\ offerWrite'[p].version <= offers[target[p]].version + 1
          /\ offerWrite'[p].version = offers[target[p]].version + 1 =>
               OfferFollows(offers[target[p]].status, to)
      BY <1>2, <2>1, <2>2
    <2>4. GoesWith(appWrite'[p], to)
      BY <2>2 DEF GoesWith
    <2>. QED BY <1>5, <2>2, <2>3, <2>4 DEF OfferCopy
  <1>. QED BY <1>1, <1>3, <1>4, <1>6, <1>7, <1>8, QuietPlanPreserves DEF RequestOK

LEMMA SchedulePreserves ==
  ASSUME IInv, NEW p \in Procs, NEW i \in Interviews, ScheduleInterview(p, i)
  PROVE  IInv'
  <1>. USE DEF ScheduleInterview, At, For, aggregates, writes, IInv, TypeOK
  <1>1. Plans(p)
    BY DEF Plans
  <1>2. RequestOK(p)'
    BY DEF RequestOK, Shape, ApplicationCopy, OfferRead, OfferCopy, InterviewCopy, EligibleCopy, Reached,
           InterviewStages, Stages, Answers
  <1>. QED BY <1>1, <1>2, QuietPlanPreserves

\* The new version is the first, so nothing of the row can be taken back.
LEMMA ProvisionPreserves ==
  ASSUME IInv, NEW p \in Procs, ProvisionRoom(p)
  PROVE  IInv'
  <1>. DEFINE new == [status |-> "SCHEDULED", feedback |-> FALSE, version |-> 1]
  <1>. USE DEF ProvisionRoom, At, WriteInterview, IInv, TypeOK
  <1>1. Plans(p)
    BY DEF Plans
  <1>2. /\ new \in Interview /\ new # None
        /\ new.status = "SCHEDULED" /\ new.version = 1 /\ ~new.feedback
    <2>1. new \in Interview
      BY DEF Interview, InterviewStatuses
    <2>. QED BY <2>1, NoneAssumption
  <1>3. target[p] \in Interviews /\ appWrite[p] = None /\ offerWrite[p] = None
    BY DEF RequestOK, Shape
  <1>4. /\ pc'[p] = "commit" /\ target'[p] = target[p]
        /\ appWrite'[p] = None /\ offerWrite'[p] = None /\ interviewWrite'[p] = new
        /\ rooms' = [rooms EXCEPT ![target[p]] = "open"]
        /\ UNCHANGED << application, offers, interviews, lapsed, target, appWrite, offerWrite >>
    BY <1>3
  <1>5. interviewWrite' \in [Procs -> Interview \cup {None}]
    BY <1>2
  <1>. HIDE DEF new
  <1>6. RequestOK(p)'
    <2>1. Shape(p)' /\ ApplicationCopy(p)' /\ OfferRead(p)' /\ OfferCopy(p)' /\ EligibleCopy(p)'
          /\ Reached(p)'
      BY <1>3, <1>4
         DEF RequestOK, Shape, ApplicationCopy, OfferRead, OfferCopy, EligibleCopy, Reached, Answers
    <2>2. InterviewCopy(p)'
      BY <1>2, <1>3, <1>4
         DEF InterviewCopy, Keeps, InterviewFollows, VersionsMarkRows, Interview,
             InterviewStatuses, Absent
    <2>. QED BY <2>1, <2>2 DEF RequestOK
  <1>7. TypeOK'
    BY <1>1, <1>4, <1>5
  <1>8. RoomsPrecedeInterviews'
    BY <1>3, <1>4 DEF RoomsPrecedeInterviews
  <1>. QED BY <1>1, <1>6, <1>7, <1>8, PlanPreserves

\* CompleteInterview, CancelInterview and SubmitFeedback.
LEMMA InterviewPreserves ==
  ASSUME IInv, NEW p \in Procs, NEW i \in Interviews, NEW it \in Interview,
         interviews[i].status # Absent, it.status \in InterviewStatuses,
         it.version = interviews[i].version + 1,
         Keeps(interviews[i], it), InterviewFollows(interviews[i], it),
         PlanInterview(p, i, it),
         rooms' = rooms \/ rooms' = [rooms EXCEPT ![i] = "closed"]
  PROVE  IInv'
  <1>. USE DEF PlanInterview, At, For, WriteInterview, IInv, TypeOK
  <1>1. Plans(p)
    BY DEF Plans
  <1>2. /\ it # None
        /\ appWrite[p] = None /\ offerWrite[p] = None
        /\ rooms[i] # "none"
    BY NoneAssumption DEF RequestOK, Shape, RoomsPrecedeInterviews
  <1>3. /\ pc'[p] = "commit" /\ target'[p] = i
        /\ appWrite'[p] = None /\ offerWrite'[p] = None /\ interviewWrite'[p] = it
        /\ rooms'[i] # "none"
        /\ UNCHANGED << application, offers, interviews >>
    BY <1>2
  <1>4. RequestOK(p)'
    <2>1. Shape(p)' /\ ApplicationCopy(p)' /\ OfferRead(p)' /\ OfferCopy(p)' /\ EligibleCopy(p)'
          /\ Reached(p)'
      BY <1>2, <1>3
         DEF Shape, ApplicationCopy, OfferRead, OfferCopy, EligibleCopy, Reached, RowsReached, Answers
    <2>2. InterviewCopy(p)'
      BY <1>2, <1>3 DEF InterviewCopy, Interview
    <2>. QED BY <2>1, <2>2 DEF RequestOK
  <1>5. TypeOK'
    BY <1>1 DEF Answers
  <1>6. RoomsPrecedeInterviews'
    BY <1>2 DEF RoomsPrecedeInterviews
  <1>. QED BY <1>1, <1>4, <1>5, <1>6, PlanPreserves

LEMMA NextInterview ==
  ASSUME NEW it \in Interview, NEW to \in InterviewStatuses
  PROVE  /\ SetInterview(it, to) \in Interview
         /\ SetInterview(it, to).status = to
         /\ SetInterview(it, to).version = it.version + 1
         /\ SetInterview(it, to).feedback = it.feedback
  <1>1. it.version + 1 \in Nat
    BY DEF Interview
  <1>2. SetInterview(it, to) \in Interview
    BY <1>1 DEF SetInterview, Interview
  <1>3. SetInterview(it, to).status = to /\ SetInterview(it, to).feedback = it.feedback
    BY DEF SetInterview, Interview
  <1>4. SetInterview(it, to).version = it.version + 1
    BY DEF SetInterview, Interview
  <1>. QED BY <1>2, <1>3, <1>4

LEMMA WithFeedback ==
  ASSUME NEW it \in Interview
  PROVE  LET next == [it EXCEPT !.feedback = TRUE, !.version = @ + 1]
         IN  /\ next \in Interview /\ next.status = it.status
             /\ next.version = it.version + 1 /\ next.feedback = TRUE
  <1>. DEFINE next == [it EXCEPT !.feedback = TRUE, !.version = @ + 1]
  <1>1. it.version + 1 \in Nat
    BY DEF Interview
  <1>2. next \in Interview
    BY <1>1 DEF Interview
  <1>3. next.status = it.status /\ next.feedback = TRUE
    BY DEF Interview
  <1>4. next.version = it.version + 1
    BY DEF Interview
  <1>. HIDE DEF next
  <1>5. next \in Interview /\ next.status = it.status
        /\ next.version = it.version + 1 /\ next.feedback = TRUE
    BY <1>2, <1>3, <1>4
  <1>. QED BY <1>5 DEF next

LEMMA CompletePreserves ==
  ASSUME IInv, NEW p \in Procs, NEW i \in Interviews, CompleteInterview(p, i)
  PROVE  IInv'
  <1>. DEFINE it == SetInterview(interviews[i], "COMPLETED")
  <1>1. interviews[i] \in Interview /\ interviews[i].status = "SCHEDULED"
    BY DEF CompleteInterview, IInv, TypeOK
  <1>2. /\ it \in Interview /\ it.status = "COMPLETED"
        /\ it.version = interviews[i].version + 1 /\ it.feedback = interviews[i].feedback
    BY <1>1, NextInterview DEF InterviewStatuses
  <1>3. PlanInterview(p, i, it) /\ rooms' = rooms
    BY DEF CompleteInterview
  <1>. HIDE DEF it
  <1>. QED BY <1>1, <1>2, <1>3, InterviewPreserves
          DEF Keeps, InterviewFollows, InterviewStatuses, Absent

LEMMA CancelPreserves ==
  ASSUME IInv, NEW p \in Procs, NEW i \in Interviews, CancelInterview(p, i)
  PROVE  IInv'
  <1>. DEFINE it == SetInterview(interviews[i], "CANCELLED")
  <1>1. interviews[i] \in Interview /\ interviews[i].status = "SCHEDULED"
    BY DEF CancelInterview, IInv, TypeOK
  <1>2. /\ it \in Interview /\ it.status = "CANCELLED"
        /\ it.version = interviews[i].version + 1 /\ it.feedback = interviews[i].feedback
    BY <1>1, NextInterview DEF InterviewStatuses
  <1>3. /\ PlanInterview(p, i, it)
        /\ rooms' = rooms \/ rooms' = [rooms EXCEPT ![i] = "closed"]
    BY DEF CancelInterview
  <1>. HIDE DEF it
  <1>. QED BY <1>1, <1>2, <1>3, InterviewPreserves
          DEF Keeps, InterviewFollows, InterviewStatuses, Absent

LEMMA FeedbackPreserves ==
  ASSUME IInv, NEW p \in Procs, NEW i \in Interviews, SubmitFeedback(p, i)
  PROVE  IInv'
  <1>. DEFINE it == [interviews[i] EXCEPT !.feedback = TRUE, !.version = @ + 1]
  <1>1. /\ interviews[i] \in Interview /\ interviews[i].status \in {"SCHEDULED", "COMPLETED"}
        /\ ~interviews[i].feedback
    BY DEF SubmitFeedback, IInv, TypeOK
  <1>2. /\ it \in Interview /\ it.status = interviews[i].status
        /\ it.version = interviews[i].version + 1 /\ it.feedback = TRUE
    BY <1>1, WithFeedback
  <1>3. PlanInterview(p, i, it) /\ rooms' = rooms
    BY DEF SubmitFeedback
  <1>. HIDE DEF it
  <1>. QED BY <1>1, <1>2, <1>3, InterviewPreserves
          DEF Keeps, InterviewFollows, InterviewStatuses, Absent

LEMMA AbortPreserves ==
  ASSUME IInv, NEW p \in Procs, Abort(p)
  PROVE  IInv'
  <1>. USE DEF Abort, Finish, At, For, WriteApp, WriteOffer, WriteInterview, aggregates,
              IInv, TypeOK
  <1>1. Plans(p)
    BY DEF Plans
  <1>2. RequestOK(p)'
    BY DEF RequestOK, Shape, ApplicationCopy, OfferRead, OfferCopy, InterviewCopy, EligibleCopy, Reached,
           Answers
  <1>. QED BY <1>1, <1>2, QuietPlanPreserves

LEMMA LapsePreserves ==
  ASSUME IInv, NEW o \in Offers, OfferLapses(o)
  PROVE  IInv'
  <1>. USE DEF OfferLapses, writes, IInv
  <1>1. TypeOK'
    BY DEF TypeOK
  <1>2. /\ VersionsMarkRows' /\ RowsReached' /\ AtMostOneAccepted'
        /\ AcceptedOfferHoldsStage' /\ RoomsPrecedeInterviews'
    BY DEF VersionsMarkRows, RowsReached, AtMostOneAccepted, AcceptedOfferHoldsStage, RoomsPrecedeInterviews
  <1>3. \A p \in Procs : RequestOK(p)'
    BY DEF RequestOK, Shape, ApplicationCopy, OfferRead, OfferCopy, InterviewCopy, EligibleCopy, Reached,
           Eligible
  <1>. QED BY <1>1, <1>2, <1>3

----------------------------------------------------------------------------
(* The commit *)

\* What a commit may do to the rows.
ApplicationMoves ==
  \/ application' = application
  \/ /\ application' \in Application
     /\ application'.version = application.version + 1
     /\ Legal(application.stage, application'.stage)

OfferMoves(o) ==
  \/ offers'[o] = offers[o]
  \/ /\ offers'[o] \in Offer
     /\ offers'[o].version = offers[o].version + 1
     /\ offers[o].status \in OpenOffer
     /\ offers'[o].status \in OfferStatuses
     /\ offers'[o].status = "ACCEPTED" =>
          /\ application'.stage = "OFFER_ACCEPTED"
          /\ application' # application

InterviewMoves(i) ==
  \/ interviews'[i] = interviews[i]
  \/ /\ interviews'[i] \in Interview
     /\ interviews'[i].version = interviews[i].version + 1
     /\ interviews'[i].status \in InterviewStatuses
     /\ Keeps(interviews[i], interviews'[i])
     /\ rooms[i] # "none"

LEMMA CommitMoves ==
  ASSUME IInv, NEW p \in Procs, Commit(p)
  PROVE  /\ ApplicationMoves
         /\ \A o \in Offers : OfferMoves(o) /\ (o # target[p] => offers'[o] = offers[o])
         /\ \A i \in Interviews : InterviewMoves(i)
  <1>. USE DEF IInv, TypeOK
  <1>1. RequestOK(p) /\ WritesCurrent(p) /\ pc[p] = "commit"
    BY DEF Commit
  <1>2. appWrite[p] # None =>
          /\ application' = appWrite[p] /\ appWrite[p] \in Application
          /\ appWrite[p].version = application.version + 1
          /\ Legal(application.stage, appWrite[p].stage)
    BY <1>1 DEF Commit, WritesCurrent, RequestOK, ApplicationCopy
  <1>3. appWrite[p] # None => application' # application
    BY <1>2 DEF Application
  <1>4. ApplicationMoves
    BY <1>2 DEF ApplicationMoves, Commit
  <1>5. ASSUME NEW o \in Offers
        PROVE  OfferMoves(o) /\ (o # target[p] => offers'[o] = offers[o])
    <2>1. offers'[o] = IF offerWrite[p] # None /\ o = target[p] THEN offerWrite[p] ELSE offers[o]
      BY DEF Commit
    <2>2. offerWrite[p] # None =>
            /\ offerWrite[p] \in Offer /\ target[p] \in Offers
            /\ offerWrite[p].version = offers[target[p]].version + 1
      BY <1>1 DEF WritesCurrent, RequestOK, Shape
    <2>3. offerWrite[p] # None =>
            /\ offerWrite[p].status \in OfferStatuses
            /\ offers[target[p]].status \in OpenOffer
            /\ offerWrite[p].status = "ACCEPTED" =>
                 appWrite[p] # None /\ appWrite[p].stage = "OFFER_ACCEPTED"
      BY <1>1, <2>2 DEF RequestOK, OfferCopy, OfferFollows, GoesWith, OpenOffer
    <2>. QED BY <1>2, <1>3, <2>1, <2>2, <2>3 DEF OfferMoves
  <1>6. ASSUME NEW i \in Interviews
        PROVE  InterviewMoves(i)
    <2>1. interviews'[i] = IF interviewWrite[p] # None /\ i = target[p]
                           THEN interviewWrite[p] ELSE interviews[i]
      BY DEF Commit
    <2>2. interviewWrite[p] # None =>
            /\ interviewWrite[p] \in Interview /\ target[p] \in Interviews
            /\ interviewWrite[p].version = interviews[target[p]].version + 1
      BY <1>1 DEF WritesCurrent, RequestOK, Shape
    <2>3. interviewWrite[p] # None =>
            /\ interviewWrite[p].status \in InterviewStatuses
            /\ rooms[target[p]] # "none"
            /\ Keeps(interviews[target[p]], interviewWrite[p])
      BY <1>1, <2>2 DEF RequestOK, InterviewCopy
    <2>. QED BY <2>1, <2>2, <2>3 DEF InterviewMoves
  <1>. QED BY <1>4, <1>5, <1>6

\* A completed interview with feedback stays one.
LEMMA EligibleStays ==
  ASSUME IInv, NEW p \in Procs, Commit(p), Eligible
  PROVE  Eligible'
  <1>1. PICK i \in Interviews : interviews[i].status = "COMPLETED" /\ interviews[i].feedback
    BY DEF Eligible
  <1>2. interviews'[i].status = "COMPLETED" /\ interviews'[i].feedback
    BY <1>1, CommitMoves DEF InterviewMoves, Keeps
  <1>. QED BY <1>2 DEF Eligible

\* The copies of the others are as true as before, or too old to be accepted.
LEMMA CommitOthersKeep ==
  ASSUME IInv, NEW p \in Procs, Commit(p), NEW q \in Procs \ {p}
  PROVE  RequestOK(q)'
  <1>1. /\ pc'[q] = pc[q] /\ target'[q] = target[q]
        /\ appWrite'[q] = appWrite[q] /\ offerWrite'[q] = offerWrite[q]
        /\ interviewWrite'[q] = interviewWrite[q]
        /\ rooms' = rooms
    BY DEF IInv, TypeOK, Commit, Finish, At, For, WriteApp, WriteOffer, WriteInterview
  <1>2. RequestOK(q)
    BY DEF IInv
  <1>3. Shape(q)'
    BY <1>1, <1>2 DEF RequestOK, Shape
  <1>4. ApplicationCopy(q)'
    <2>1. appWrite[q] # None => appWrite[q].version \in Nat
      BY DEF IInv, TypeOK, Application
    <2>2. /\ application.version \in Nat
          /\ \/ application' = application
             \/ application'.version = application.version + 1
      BY CommitMoves DEF ApplicationMoves, IInv, TypeOK, Application
    <2>. QED BY <1>1, <1>2, <2>1, <2>2 DEF RequestOK, ApplicationCopy
  <1>5. OfferRead(q)' /\ OfferCopy(q)'
    <2>1. CASE offerWrite[q] = None
      BY <1>1, <1>2, <2>1 DEF RequestOK, Shape, OfferRead, OfferCopy
    <2>2. CASE offerWrite[q] # None
      <3>. DEFINE o == target[q]
      <3>1. o \in Offers /\ offerWrite[q].version \in Nat /\ offers[o].version \in Nat
        BY <1>2, <2>2 DEF IInv, TypeOK, Offer, RequestOK, Shape
      <3>2. offers'[o] = offers[o] \/ offers'[o].version = offers[o].version + 1
        BY <3>1, CommitMoves DEF OfferMoves
      <3>. QED BY <1>1, <1>2, <3>1, <3>2 DEF RequestOK, OfferRead, OfferCopy
    <2>. QED BY <2>1, <2>2
  <1>6. InterviewCopy(q)'
    <2>1. CASE interviewWrite[q] = None
      BY <1>1, <2>1 DEF InterviewCopy
    <2>2. CASE interviewWrite[q] # None
      <3>. DEFINE i == target[q]
      <3>1. i \in Interviews /\ interviewWrite[q].version \in Nat /\ interviews[i].version \in Nat
        BY <1>2, <2>2 DEF IInv, TypeOK, Interview, RequestOK, Shape
      <3>2. interviews'[i] = interviews[i] \/ interviews'[i].version = interviews[i].version + 1
        BY <3>1, CommitMoves DEF InterviewMoves
      <3>. QED BY <1>1, <1>2, <3>1, <3>2 DEF RequestOK, InterviewCopy
    <2>. QED BY <2>1, <2>2
  <1>7. EligibleCopy(q)'
    BY <1>1, <1>2, EligibleStays DEF RequestOK, EligibleCopy
  <1>8. Reached(q)'
    BY <1>1, <1>2, CommitMoves, AcceptedOnward DEF ApplicationMoves, RequestOK, Reached
  <1>. QED BY <1>3, <1>4, <1>5, <1>6, <1>7, <1>8 DEF RequestOK

LEMMA CommitPreserves ==
  ASSUME IInv, NEW p \in Procs, Commit(p)
  PROVE  IInv'
  <1>1. TypeOK'
    <2>1. application' \in Application
      BY CommitMoves DEF ApplicationMoves, IInv, TypeOK
    <2>2. offers' \in [Offers -> Offer] /\ interviews' \in [Interviews -> Interview]
      BY DEF IInv, TypeOK, Commit
    <2>3. /\ lapsed' = lapsed /\ rooms' = rooms
          /\ pc' = [pc EXCEPT ![p] = "idle"] /\ target' = [target EXCEPT ![p] = None]
          /\ appWrite' = [appWrite EXCEPT ![p] = None]
          /\ offerWrite' = [offerWrite EXCEPT ![p] = None]
          /\ interviewWrite' = [interviewWrite EXCEPT ![p] = None]
      BY DEF Commit, Finish, At, For, WriteApp, WriteOffer, WriteInterview
    <2>. QED BY <2>1, <2>2, <2>3 DEF IInv, TypeOK
  <1>2. VersionsMarkRows'
    <2>1. application'.stage = Absent <=> application'.version = 0
      BY CommitMoves, AcceptedOnward
         DEF ApplicationMoves, IInv, TypeOK, VersionsMarkRows, Application, Stages, Absent
    <2>2. ASSUME NEW o \in Offers PROVE offers'[o].status = Absent <=> offers'[o].version = 0
      BY CommitMoves DEF OfferMoves, IInv, TypeOK, VersionsMarkRows, Offer, OfferStatuses, Absent
    <2>3. ASSUME NEW i \in Interviews
          PROVE  /\ interviews'[i].status = Absent <=> interviews'[i].version = 0
                 /\ interviews'[i].status = Absent => ~interviews'[i].feedback
      BY CommitMoves
         DEF InterviewMoves, IInv, TypeOK, VersionsMarkRows, Interview, InterviewStatuses, Absent
    <2>. QED BY <2>1, <2>2, <2>3 DEF VersionsMarkRows
  <1>3. RequestOK(p)'
    BY DEF Commit, Finish, At, For, WriteApp, WriteOffer, WriteInterview, IInv, TypeOK, RequestOK,
           Shape, ApplicationCopy, OfferRead, OfferCopy, InterviewCopy, EligibleCopy, Reached, Answers
  <1>4. \A q \in Procs : RequestOK(q)'
    BY <1>3, CommitOthersKeep
  \* An offer can only become accepted while there is none.
  <1>5. ASSUME NEW o \in Offers, offers'[o].status = "ACCEPTED", offers'[o] # offers[o]
        PROVE  /\ \A r \in Offers : offers[r].status # "ACCEPTED"
               /\ o = target[p]
               /\ application'.stage = "OFFER_ACCEPTED"
    <2>1. /\ o = target[p] /\ application' # application
          /\ application'.stage = "OFFER_ACCEPTED"
      BY <1>5, CommitMoves DEF OfferMoves
    <2>2. application.stage = "OFFER_PENDING"
      BY <2>1, CommitMoves, AcceptedOnward DEF ApplicationMoves
    <2>. QED BY <2>1, <2>2 DEF IInv, AcceptedOfferHoldsStage, IsTerminal
  <1>6. AtMostOneAccepted'
    <2>. SUFFICES ASSUME NEW o \in Offers, NEW r \in Offers,
                         offers'[o].status = "ACCEPTED", offers'[r].status = "ACCEPTED"
                  PROVE  o = r
      BY DEF AtMostOneAccepted
    <2>. QED BY <1>5 DEF IInv, AtMostOneAccepted
  <1>7. AcceptedOfferHoldsStage'
    <2>. SUFFICES ASSUME NEW o \in Offers, offers'[o].status = "ACCEPTED"
                  PROVE  application'.stage = "OFFER_ACCEPTED" \/ IsTerminal(application'.stage)
      BY DEF AcceptedOfferHoldsStage
    <2>1. CASE offers'[o] # offers[o]
      BY <1>5, <2>1
    <2>2. CASE offers'[o] = offers[o]
      <3>1. application.stage = "OFFER_ACCEPTED" \/ IsTerminal(application.stage)
        BY <2>2 DEF IInv, AcceptedOfferHoldsStage
      <3>. QED BY <3>1, CommitMoves, AcceptedOnward DEF ApplicationMoves
    <2>. QED BY <2>1, <2>2
  <1>8. RoomsPrecedeInterviews'
    <2>1. rooms' = rooms
      BY DEF Commit
    <2>. QED BY <2>1, CommitMoves
            DEF InterviewMoves, IInv, RoomsPrecedeInterviews, InterviewStatuses, Absent
  <1>9. RowsReached'
    <2>1. /\ application.stage \in OfferStages => application'.stage \in OfferStages
          /\ application.stage \in InterviewStages => application'.stage \in InterviewStages
      BY CommitMoves, AcceptedOnward DEF ApplicationMoves
    <2>2. ASSUME NEW o \in Offers, offers'[o].status # Absent
          PROVE  application.stage \in OfferStages
      <3>1. CASE offers'[o] = offers[o]
        BY <2>2, <3>1 DEF IInv, RowsReached
      <3>2. CASE offers'[o] # offers[o]
        BY <3>2 DEF Commit, IInv, TypeOK, RequestOK, Reached
      <3>. QED BY <3>1, <3>2
    <2>3. ASSUME NEW i \in Interviews, interviews'[i].status # Absent
          PROVE  application.stage \in InterviewStages
      <3>1. CASE interviews'[i] = interviews[i]
        BY <2>3, <3>1 DEF IInv, RowsReached
      <3>2. CASE interviews'[i] # interviews[i]
        BY <3>2 DEF Commit, IInv, TypeOK, RequestOK, Reached
      <3>. QED BY <3>1, <3>2
    <2>. QED BY <2>1, <2>2, <2>3 DEF RowsReached
  <1>. QED BY <1>1, <1>2, <1>4, <1>6, <1>7, <1>8, <1>9 DEF IInv

----------------------------------------------------------------------------
(* Every step *)

LEMMA InitEstablishes == Init => IInv
  <1>. SUFFICES ASSUME Init PROVE IInv
    OBVIOUS
  <1>. USE DEF Init
  <1>1. TypeOK
    BY DEF TypeOK, Application, Offer, Interview
  <1>2. VersionsMarkRows /\ RowsReached
    BY DEF VersionsMarkRows, RowsReached
  <1>3. \A p \in Procs : RequestOK(p)
    BY DEF RequestOK, Shape, ApplicationCopy, OfferRead, OfferCopy, InterviewCopy, EligibleCopy, Reached,
           Answers
  <1>4. AtMostOneAccepted /\ AcceptedOfferHoldsStage
    BY DEF AtMostOneAccepted, AcceptedOfferHoldsStage, Absent
  <1>5. RoomsPrecedeInterviews
    BY DEF RoomsPrecedeInterviews
  <1>. QED BY <1>1, <1>2, <1>3, <1>4, <1>5 DEF IInv

LEMMA RequestPreserves ==
  ASSUME IInv, NEW p \in Procs, Request(p)
  PROVE  IInv'
  <1>1. CASE ApplyVacancy(p)
    BY <1>1, ApplyPreserves
  <1>2. ASSUME NEW to \in Stages, ChangeStage(p, to) PROVE IInv'
    BY <1>2, StagePreserves DEF ChangeStage
  <1>3. CASE InitiateOffer(p)
    BY <1>3, StagePreserves DEF InitiateOffer
  <1>4. CASE CheckEligibility(p)
    BY <1>4, EligibilityPreserves
  <1>5. CASE RejectApplication(p)
    BY <1>5, StagePreserves DEF RejectApplication
  <1>6. CASE WithdrawApplication(p)
    BY <1>6, StagePreserves DEF WithdrawApplication
  <1>7. ASSUME NEW passed \in BOOLEAN, HandleAssessmentResult(p, passed) PROVE IInv'
    <2>. DEFINE to == IF passed THEN "INTERVIEW" ELSE "REJECTED"
    <2>1. PlanStage(p, to) /\ At(p, "commit")
      BY <1>7 DEF HandleAssessmentResult
    <2>2. to # "OFFER_PENDING"
      OBVIOUS
    <2>. HIDE DEF to
    <2>. QED BY <2>1, <2>2, StagePreserves
  <1>8. ASSUME NEW o \in Offers, CreateOffer(p, o) PROVE IInv'
    BY <1>8, CreateOfferPreserves
  <1>9. ASSUME NEW o \in Offers, SendOffer(p, o) PROVE IInv'
    BY <1>9, OfferPreserves DEF SendOffer, OfferFollows, Absent
  <1>10. ASSUME NEW o \in Offers, ExpireOffer(p, o) PROVE IInv'
    BY <1>10, OfferPreserves DEF ExpireOffer, OfferFollows, Absent
  <1>11. ASSUME NEW o \in Offers, NEW answer \in Answers, LoadOffer(p, o, answer) PROVE IInv'
    BY <1>11, LoadPreserves
  <1>12. CASE AcceptOffer(p)
    BY <1>12, AnswerPreserves DEF AcceptOffer, OfferFollows, Answers, OfferStatuses
  <1>13. CASE DeclineOffer(p)
    BY <1>13, AnswerPreserves DEF DeclineOffer, OfferFollows, Answers, OfferStatuses
  <1>14. CASE RevokeOffer(p)
    BY <1>14, AnswerPreserves DEF RevokeOffer, OfferFollows, Answers, OfferStatuses
  <1>15. ASSUME NEW i \in Interviews, ScheduleInterview(p, i) PROVE IInv'
    BY <1>15, SchedulePreserves
  <1>16. ASSUME NEW i \in Interviews, CompleteInterview(p, i) PROVE IInv'
    BY <1>16, CompletePreserves
  <1>17. ASSUME NEW i \in Interviews, CancelInterview(p, i) PROVE IInv'
    BY <1>17, CancelPreserves
  <1>18. ASSUME NEW i \in Interviews, SubmitFeedback(p, i) PROVE IInv'
    BY <1>18, FeedbackPreserves
  <1>19. CASE ProvisionRoom(p)
    BY <1>19, ProvisionPreserves
  <1>20. CASE Commit(p)
    BY <1>20, CommitPreserves
  <1>21. CASE Abort(p)
    BY <1>21, AbortPreserves
  <1>. QED BY <1>1, <1>2, <1>3, <1>4, <1>5, <1>6, <1>7, <1>8, <1>9, <1>10, <1>11, <1>12, <1>13,
              <1>14, <1>15, <1>16, <1>17, <1>18, <1>19, <1>20, <1>21 DEF Request

LEMMA NextPreserves == IInv /\ [Next]_vars => IInv'
  <1>. SUFFICES ASSUME IInv, [Next]_vars PROVE IInv'
    OBVIOUS
  <1>1. ASSUME NEW p \in Procs, Request(p) PROVE IInv'
    BY <1>1, RequestPreserves
  <1>2. ASSUME NEW o \in Offers, OfferLapses(o) PROVE IInv'
    BY <1>2, LapsePreserves
  <1>3. CASE UNCHANGED vars
    BY <1>3
       DEF vars, aggregates, writes, IInv, TypeOK, VersionsMarkRows, RowsReached, AtMostOneAccepted,
           AcceptedOfferHoldsStage, RoomsPrecedeInterviews, RequestOK, Shape, ApplicationCopy,
           OfferRead, OfferCopy, InterviewCopy, EligibleCopy, Reached, Eligible
  <1>. QED BY <1>1, <1>2, <1>3 DEF Next

\* The rows change in commits only.
LEMMA CommitsWrite ==
  ASSUME [Next]_vars
  PROVE  UNCHANGED << application, offers, interviews >> \/ \E p \in Procs : Commit(p)
  <1>1. CASE UNCHANGED vars
    BY <1>1 DEF vars, aggregates
  <1>2. ASSUME NEW o \in Offers, OfferLapses(o)
        PROVE  UNCHANGED << application, offers, interviews >>
    BY <1>2 DEF OfferLapses
  <1>3. ASSUME NEW p \in Procs, Request(p), ~Commit(p)
        PROVE  UNCHANGED << application, offers, interviews >>
    BY <1>3
       DEF Request, ApplyVacancy, ChangeStage, InitiateOffer, CheckEligibility,
           RejectApplication, WithdrawApplication, HandleAssessmentResult, PlanStage,
           CreateOffer, SendOffer, ExpireOffer, PlanOffer, LoadOffer, AcceptOffer, DeclineOffer,
           RevokeOffer, Answer, ScheduleInterview, CompleteInterview, CancelInterview,
           SubmitFeedback, PlanInterview, ProvisionRoom, Abort, aggregates
  <1>. QED BY <1>1, <1>2, <1>3 DEF Next

LEMMA RowsMove ==
  ASSUME IInv, [Next]_vars
  PROVE  /\ ApplicationMoves
         /\ \A o \in Offers : OfferMoves(o)
         /\ \A i \in Interviews : InterviewMoves(i)
  <1>1. CASE UNCHANGED << application, offers, interviews >>
    BY <1>1 DEF ApplicationMoves, OfferMoves, InterviewMoves
  <1>. QED BY <1>1, CommitMoves, CommitsWrite

(* IInv holds in every reachable state.                                     *)
THEOREM Invariant == Spec => []IInv
  <1>. QED BY InitEstablishes, NextPreserves, PTL DEF Spec

----------------------------------------------------------------------------
(* What the service may rely on *)

(* The rows and the copies of the requests keep their types.                *)
THEOREM TypeCorrect == Spec => []TypeOK
  <1>1. IInv => TypeOK
    BY DEF IInv
  <1>. QED BY <1>1, Invariant, PTL

(* Two offers of one application are never both accepted: accept.go writes  *)
(* the offer and the application, whose version the other one has used up.  *)
THEOREM AcceptancesExclude == Spec => []OneAcceptedOffer
  <1>1. IInv => OneAcceptedOffer
    <2>. SUFFICES ASSUME IInv PROVE OneAcceptedOffer
      OBVIOUS
    <2>. DEFINE accepted == {o \in Offers : offers[o].status = "ACCEPTED"}
    <2>1. accepted = {} \/ \E o \in Offers : accepted = {o}
      BY DEF IInv, AtMostOneAccepted
    <2>2. Cardinality(accepted) = 0 \/ Cardinality(accepted) = 1
      BY <2>1, FS_EmptySet, FS_Singleton
    <2>. QED BY <2>2 DEF OneAcceptedOffer
  <1>. QED BY <1>1, Invariant, PTL

(* No decline, revocation or stage change takes an acceptance back:         *)
(* decline.go, revoke.go, change_stage.go.                                  *)
THEOREM AcceptanceHolds == Spec => []AcceptedOfferHoldsStage
  <1>1. IInv => AcceptedOfferHoldsStage
    BY DEF IInv
  <1>. QED BY <1>1, Invariant, PTL

(* The eligibility that change_stage.go read before its transaction still   *)
(* holds when it commits: completed interviews keep status and feedback.    *)
THEOREM EligibilityKept == Spec => []EligibilityHoldsAtCommit
  <1>1. IInv => EligibilityHoldsAtCommit
    BY DEF IInv, RequestOK, EligibleCopy, EligibilityHoldsAtCommit
  <1>. QED BY <1>1, Invariant, PTL

(* schedule.go provisions before it stores, cancel.go tears down what it    *)
(* has read.                                                                *)
THEOREM RoomsFirst == Spec => []RoomsPrecedeInterviews
  <1>1. IInv => RoomsPrecedeInterviews
    BY DEF IInv
  <1>. QED BY <1>1, Invariant, PTL

(* Every write is a transition of the stage that is stored: stage.go.       *)
THEOREM TransitionsAreLegal == Spec => StoredTransitionsAreLegal
  <1>1. IInv /\ [Next]_vars =>
          [application.stage # Absent /\ application' # application =>
             /\ CanTransition(application.stage, application'.stage)
             /\ application'.version = application.version + 1]_vars
    BY RowsMove DEF ApplicationMoves, Legal
  <1>. QED BY <1>1, Invariant, PTL DEF Spec, StoredTransitionsAreLegal

(* Answers, revocations and expiries exclude each other: offer.go.          *)
THEOREM ClosedOffersStay == Spec => ClosedOfferIsFinal
  <1>1. IInv /\ [Next]_vars =>
          [\A o \in Offers : offers[o].status \notin {Absent, "DRAFT", "SENT"} =>
             offers'[o] = offers[o]]_vars
    BY RowsMove DEF OfferMoves, OpenOffer
  <1>. QED BY <1>1, Invariant, PTL DEF Spec, ClosedOfferIsFinal

(* Cancellation, completion and feedback do not overwrite each other:       *)
(* interview.go.                                                            *)
THEOREM ClosedInterviewsStay == Spec => ClosedInterviewIsFinal
  <1>1. IInv /\ [Next]_vars =>
          [\A i \in Interviews :
             /\ interviews[i].status = "CANCELLED" => interviews'[i] = interviews[i]
             /\ interviews[i].status = "COMPLETED" => interviews'[i].status = "COMPLETED"
             /\ interviews[i].feedback => interviews'[i].feedback]_vars
    BY RowsMove DEF InterviewMoves, Keeps
  <1>. QED BY <1>1, Invariant, PTL DEF Spec, ClosedInterviewIsFinal

----------------------------------------------------------------------------
(* The refinement of HiringProcess: a commit is one of its commands, every  *)
(* other step leaves what is stored.                                        *)

LEMMA SameTransitions ==
  ASSUME NEW from, NEW to
  PROVE  /\ CanTransition(from, to) => Process!CanTransition(from, to)
         /\ from \in OfferStages => from \in Process!Offered
         /\ from \in InterviewStages => from \in Process!Met
         /\ to \in Stages => to \in Process!Stages
  BY DEF CanTransition, IsTerminal, Onward, Stages, OfferStages, InterviewStages,
         Process!CanTransition, Process!IsTerminal, Process!Onward, Process!Stages,
         Process!Offered, Process!Met

\* A change of the feedback leaves the status of an interview.
LEMMA Rated ==
  ASSUME NEW s, NEW f, NEW g
  PROVE  [[status |-> s, feedback |-> f] EXCEPT !.feedback = g] = [status |-> s, feedback |-> g]
  OBVIOUS

\* A transaction with an interview writes nothing else.
LEMMA InterviewCommand ==
  ASSUME IInv, NEW p \in Procs, Commit(p), interviewWrite[p] # None,
         NEW x, x = target[p], NEW new, new = interviewWrite[p]
  PROVE  Process!Next
  <1>. USE DEF IInv, TypeOK
  <1>. DEFINE it   == [status |-> new.status, feedback |-> new.feedback]
              view == [status |-> interviews[x].status, feedback |-> interviews[x].feedback]
  <1>1. /\ pc[p] = "commit" /\ x \in Interviews /\ appWrite[p] = None /\ offerWrite[p] = None
        /\ new \in Interview /\ new.version = interviews[x].version + 1
    BY DEF Commit, WritesCurrent, RequestOK, Shape
  <1>2. InterviewFollows(interviews[x], new) /\ application.stage \in InterviewStages
    BY <1>1 DEF RequestOK, InterviewCopy, Reached
  <1>3. /\ interviews' = [interviews EXCEPT ![x] = new]
        /\ application' = application /\ OfferView' = OfferView
    BY <1>1 DEF Commit, OfferView
  <1>4. InterviewView' = [InterviewView EXCEPT ![x] = it] /\ InterviewView[x] = view
    BY <1>1, <1>3 DEF InterviewView
  <1>5. interviews[x].feedback \in {TRUE, FALSE} /\ new.feedback \in {TRUE, FALSE}
    BY <1>1 DEF Interview
  <1>. HIDE DEF IInv, TypeOK
  <1>6. Process!SetInterview(x, it)
    BY <1>3, <1>4 DEF Process!SetInterview, OfferView, InterviewView
  <1>7. CASE interviews[x].status = Absent /\ new.status = "SCHEDULED" /\ ~new.feedback
    <2>1. it = [status |-> "SCHEDULED", feedback |-> FALSE]
      BY <1>5, <1>7
    <2>2. Process!Schedule(x)
      BY <1>2, <1>4, <1>6, <1>7, <2>1, SameTransitions DEF Process!Schedule, Process!Absent, Absent
    <2>. QED BY <1>1, <2>2 DEF Process!Next
  <1>8. CASE /\ interviews[x].status = "SCHEDULED" /\ new.status \in {"COMPLETED", "CANCELLED"}
             /\ new.feedback = interviews[x].feedback
    <2>1. it = [view EXCEPT !.status = new.status]
      BY <1>8
    <2>2. Process!Close(x, new.status)
      BY <1>1, <1>4, <1>6, <1>8, <2>1 DEF Process!Close
    <2>. QED BY <1>1, <1>8, <2>2 DEF Process!Next
  <1>9. CASE /\ interviews[x].status \in {"SCHEDULED", "COMPLETED"}
             /\ new.status = interviews[x].status
             /\ ~interviews[x].feedback /\ new.feedback
    <2>1. it = [view EXCEPT !.feedback = TRUE]
      <3>1. new.feedback = TRUE
        BY <1>5, <1>9
      <3>2. new.status = interviews[x].status
        BY <1>9
      <3>3. it = [status |-> interviews[x].status, feedback |-> TRUE]
        BY <3>1, <3>2, Zenon
      <3>4. [[status |-> interviews[x].status, feedback |-> interviews[x].feedback]
               EXCEPT !.feedback = TRUE] = [status |-> interviews[x].status, feedback |-> TRUE]
        BY Rated, Zenon
      <3>. QED BY <3>3, <3>4, Zenon
    <2>2. Process!Rate(x)
      BY <1>1, <1>4, <1>6, <1>9, <2>1 DEF Process!Rate
    <2>. QED BY <1>1, <2>2 DEF Process!Next
  <1>. QED BY <1>2, <1>7, <1>8, <1>9 DEF InterviewFollows

\* A transaction with an offer writes the stage that goes with its status.
LEMMA OfferCommand ==
  ASSUME IInv, NEW p \in Procs, Commit(p), offerWrite[p] # None,
         NEW x, x = target[p], NEW next, next = offerWrite[p].status
  PROVE  Process!Next
  <1>. USE DEF IInv, TypeOK
  <1>1. /\ pc[p] = "commit" /\ x \in Offers /\ interviewWrite[p] = None
        /\ offerWrite[p] \in Offer /\ offerWrite[p].version = offers[x].version + 1
    BY DEF Commit, WritesCurrent, RequestOK, Shape
  <1>2. /\ OfferFollows(offers[x].status, next) /\ GoesWith(appWrite[p], next)
        /\ application.stage \in OfferStages
    BY <1>1 DEF RequestOK, OfferCopy, Reached
  <1>3. /\ OfferView' = [OfferView EXCEPT ![x] = next] /\ OfferView[x] = offers[x].status
        /\ InterviewView' = InterviewView
        /\ appWrite[p] = None => application' = application
        /\ appWrite[p] # None => application' = appWrite[p]
    BY <1>1 DEF Commit, OfferView, InterviewView
  <1>4. appWrite[p] # None => Legal(application.stage, appWrite[p].stage)
    BY DEF Commit, WritesCurrent, RequestOK, ApplicationCopy
  <1>5. /\ appWrite[p] # None /\ appWrite[p].stage = "OFFER_PENDING" => application.stage = "INTERVIEW"
        /\ appWrite[p] # None /\ appWrite[p].stage = "OFFER_ACCEPTED" => application.stage = "OFFER_PENDING"
        /\ appWrite[p] # None /\ appWrite[p].stage = "INTERVIEW" => application.stage = "OFFER_PENDING"
    BY <1>2, <1>4 DEF Legal, CanTransition, Onward, Stages, OfferStages, IsTerminal
  <1>. HIDE DEF IInv, TypeOK
  <1>6. ASSUME NEW from, offers[x].status \in from
        PROVE  Process!SetStatus(x, from, next)
    BY <1>3, <1>6 DEF Process!SetStatus, OfferView, InterviewView
  <1>7. CASE offers[x].status = Absent /\ next = "DRAFT"
    <2>1. Process!SetStatus(x, {Process!Absent}, "DRAFT")
      BY <1>6, <1>7 DEF Process!Absent, Absent
    <2>2. \/ application.stage = "INTERVIEW" /\ application'.stage = "OFFER_PENDING"
          \/ application.stage \in Process!Offered /\ UNCHANGED application
      BY <1>2, <1>3, <1>5, <1>7, SameTransitions DEF GoesWith
    <2>3. Process!Draft(x)
      BY <2>1, <2>2 DEF Process!Draft
    <2>. QED BY <1>1, <2>3 DEF Process!Next
  <1>8. CASE offers[x].status = "DRAFT" /\ next = "SENT"
    <2>1. Process!Send(x)
      BY <1>2, <1>3, <1>6, <1>8 DEF Process!Send, GoesWith
    <2>. QED BY <1>1, <2>1 DEF Process!Next
  <1>9. CASE offers[x].status = "SENT" /\ next = "EXPIRED"
    <2>1. Process!Expire(x)
      BY <1>2, <1>3, <1>6, <1>9 DEF Process!Expire, GoesWith
    <2>. QED BY <1>1, <2>1 DEF Process!Next
  <1>10. CASE offers[x].status = "SENT" /\ next = "ACCEPTED"
    <2>1. Process!Accept(x)
      BY <1>2, <1>3, <1>5, <1>6, <1>10 DEF Process!Accept, Process!Answer, GoesWith
    <2>. QED BY <1>1, <2>1 DEF Process!Next
  <1>11. CASE offers[x].status = "SENT" /\ next = "DECLINED"
    <2>1. Process!Decline(x)
      BY <1>2, <1>3, <1>5, <1>6, <1>11 DEF Process!Decline, Process!Answer, GoesWith
    <2>. QED BY <1>1, <2>1 DEF Process!Next
  <1>12. CASE offers[x].status \in {"DRAFT", "SENT"} /\ next = "REVOKED"
    <2>1. Process!Revoke(x)
      BY <1>2, <1>3, <1>5, <1>6, <1>12 DEF Process!Revoke, Process!Answer, GoesWith
    <2>. QED BY <1>1, <2>1 DEF Process!Next
  <1>. QED BY <1>2, <1>7, <1>8, <1>9, <1>10, <1>11, <1>12 DEF OfferFollows

\* A transaction with the application alone.
LEMMA StageCommand ==
  ASSUME IInv, NEW p \in Procs, Commit(p),
         appWrite[p] # None, offerWrite[p] = None, interviewWrite[p] = None,
         NEW to, to = appWrite[p].stage
  PROVE  Process!Next
  <1>. USE DEF IInv, TypeOK
  <1>1. /\ application'.stage = to /\ Legal(application.stage, to)
        /\ to = "OFFER_PENDING" => Eligible
    BY DEF Commit, WritesCurrent, RequestOK, ApplicationCopy, EligibleCopy
  <1>2. OfferView' = OfferView /\ InterviewView' = InterviewView
    BY DEF Commit, OfferView, InterviewView
  <1>3. Eligible => \E i \in Interviews :
                      InterviewView[i] = [status |-> "COMPLETED", feedback |-> TRUE]
    BY DEF Eligible, InterviewView, Interview
  <1>. HIDE DEF IInv, TypeOK
  <1>4. CASE application.stage = Absent /\ to = "APPLIED"
    <2>1. Process!Apply
      BY <1>1, <1>2, <1>4 DEF Process!Apply, OfferView, InterviewView, Absent, Process!Absent
    <2>. QED BY <2>1 DEF Process!Next
  <1>5. CASE CanTransition(application.stage, to)
    <2>1. Process!CanTransition(application.stage, to) /\ to \in Process!Stages
      BY <1>5, OnwardStages, SameTransitions
    <2>2. Process!ChangeStage(to)
      BY <1>1, <1>2, <1>3, <2>1 DEF Process!ChangeStage, OfferView, InterviewView
    <2>. QED BY <2>1, <2>2 DEF Process!Next
  <1>. QED BY <1>1, <1>4, <1>5 DEF Legal

LEMMA ProcessStep ==
  ASSUME IInv, [Next]_vars
  PROVE  [Process!Next]_<< application.stage, OfferView, InterviewView >>
  <1>1. ASSUME UNCHANGED << application, offers, interviews >>
        PROVE  UNCHANGED << application.stage, OfferView, InterviewView >>
    BY <1>1 DEF OfferView, InterviewView
  <1>2. ASSUME NEW p \in Procs, Commit(p), UNCHANGED << application, offers, interviews >> => FALSE
        PROVE  Process!Next
    <2>1. appWrite[p] # None \/ offerWrite[p] # None \/ interviewWrite[p] # None
      BY <1>2 DEF Commit
    <2>. QED BY <1>2, <2>1, InterviewCommand, OfferCommand, StageCommand
  <1>. QED BY <1>1, <1>2, CommitsWrite

(* Every command is atomic although it reads outside its transaction: what  *)
(* is stored moves as HiringProcess says, for any number of requests.       *)
THEOREM ImplementsProcess == Spec => CommandsAreAtomic
  <1>. DEFINE abs == << application.stage, OfferView, InterviewView >>
  <1>1. Init => Process!Init
    BY DEF Init, OfferView, InterviewView, Process!Init, Process!Absent, Absent
  <1>2. IInv /\ [Next]_vars => [Process!Next]_abs
    BY ProcessStep
  <1>. HIDE DEF abs
  <1>3. Spec => Process!Init /\ [][Process!Next]_abs
    BY <1>1, <1>2, Invariant, PTL DEF Spec
  <1>. QED BY <1>3 DEF abs, CommandsAreAtomic, Process!Spec

============================================================================
