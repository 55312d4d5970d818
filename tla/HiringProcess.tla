---------------------------- MODULE HiringProcess ---------------------------
(***************************************************************************)
(* What the hiring service promises of one application: every command acts *)
(* at once on the stage, the offers and the interviews that are stored,    *)
(* without requests, copies, versions or transactions.                     *)
(***************************************************************************)
EXTENDS HiringStages

CONSTANTS Offers, Interviews
VARIABLES
  progress,  \* the stage of the application
  offer,     \* per offer: its status
  interview  \* per interview: its status, and whether feedback was given

Init ==
  /\ progress = Absent
  /\ offer = [o \in Offers |-> Absent]
  /\ interview = [i \in Interviews |-> [status |-> Absent, feedback |-> FALSE]]

\* Stages of an application that may have offers, and that may have interviews.
Offered == Stages \ {"APPLIED", "SCREENING", "TECH_ASSESSMENT"}
Met     == Stages \ {"APPLIED"}

Apply ==
  /\ progress = Absent
  /\ progress' = "APPLIED"
  /\ UNCHANGED << offer, interview >>

\* An offer is only initiated for a candidate who was interviewed and rated.
ChangeStage(to) ==
  /\ CanTransition(progress, to)
  /\ to = "OFFER_PENDING" =>
       \E i \in Interviews : interview[i] = [status |-> "COMPLETED", feedback |-> TRUE]
  /\ progress' = to
  /\ UNCHANGED << offer, interview >>

SetStatus(o, from, to) ==
  /\ offer[o] \in from
  /\ offer' = [offer EXCEPT ![o] = to]
  /\ UNCHANGED interview

\* The first offer moves the application on, a further one leaves it where it is.
Draft(o) ==
  /\ SetStatus(o, {Absent}, "DRAFT")
  /\ \/ progress = "INTERVIEW" /\ progress' = "OFFER_PENDING"
     \/ progress \in Offered /\ UNCHANGED progress

Send(o)   == SetStatus(o, {"DRAFT"}, "SENT") /\ UNCHANGED progress
Expire(o) == SetStatus(o, {"SENT"}, "EXPIRED") /\ UNCHANGED progress

\* An answer closes the offer and moves the application together.
Answer(o, from, to, stage) ==
  /\ SetStatus(o, from, to)
  /\ progress = "OFFER_PENDING"
  /\ progress' = stage

Accept(o)  == Answer(o, {"SENT"}, "ACCEPTED", "OFFER_ACCEPTED")
Decline(o) == Answer(o, {"SENT"}, "DECLINED", "INTERVIEW")
Revoke(o)  == Answer(o, {"DRAFT", "SENT"}, "REVOKED", "INTERVIEW")

SetInterview(i, it) ==
  /\ interview' = [interview EXCEPT ![i] = it]
  /\ UNCHANGED << progress, offer >>

Schedule(i) ==
  /\ interview[i].status = Absent
  /\ progress \in Met
  /\ SetInterview(i, [status |-> "SCHEDULED", feedback |-> FALSE])

Close(i, to) ==
  /\ interview[i].status = "SCHEDULED"
  /\ SetInterview(i, [interview[i] EXCEPT !.status = to])

Rate(i) ==
  /\ interview[i].status \in {"SCHEDULED", "COMPLETED"}
  /\ ~interview[i].feedback
  /\ SetInterview(i, [interview[i] EXCEPT !.feedback = TRUE])

Next ==
  \/ Apply
  \/ \E to \in Stages : ChangeStage(to)
  \/ \E o \in Offers : Draft(o) \/ Send(o) \/ Expire(o) \/ Accept(o) \/ Decline(o) \/ Revoke(o)
  \/ \E i \in Interviews : \/ Schedule(i) \/ Rate(i)
                           \/ \E to \in {"COMPLETED", "CANCELLED"} : Close(i, to)

Spec == Init /\ [][Next]_<< progress, offer, interview >>
============================================================================
