---------------------------- MODULE HiringStages ----------------------------
(***************************************************************************)
(* The stages of an application and the statuses of its offers and         *)
(* interviews: the value types of services/hiring/internal/domain.         *)
(***************************************************************************)

Stages == {"APPLIED", "SCREENING", "TECH_ASSESSMENT", "INTERVIEW", "OFFER_PENDING",
           "OFFER_ACCEPTED", "HIRED", "REJECTED", "WITHDRAWN"}
OfferStatuses == {"DRAFT", "SENT", "ACCEPTED", "DECLINED", "EXPIRED", "REVOKED"}
InterviewStatuses == {"SCHEDULED", "COMPLETED", "CANCELLED"}
Absent == "absent"   \* the row does not exist

IsTerminal(stage) == stage \in {"HIRED", "REJECTED", "WITHDRAWN"}

Onward(stage) ==
  CASE stage = "APPLIED"         -> {"SCREENING"}
    [] stage = "SCREENING"       -> {"TECH_ASSESSMENT", "INTERVIEW"}
    [] stage = "TECH_ASSESSMENT" -> {"INTERVIEW"}
    [] stage = "INTERVIEW"       -> {"OFFER_PENDING"}
    [] stage = "OFFER_PENDING"   -> {"OFFER_ACCEPTED", "INTERVIEW"}
    [] stage = "OFFER_ACCEPTED"  -> {"HIRED"}
    [] OTHER                     -> {}

CanTransition(from, to) ==
  /\ from \in Stages
  /\ ~IsTerminal(from)
  /\ to \in Onward(from) \cup {"REJECTED", "WITHDRAWN"}
============================================================================
