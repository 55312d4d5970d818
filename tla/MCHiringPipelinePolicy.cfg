SPECIFICATION Spec
CHECK_DEADLOCK FALSE
CONSTANTS
  Procs = {p1, p2}
  Offers = {o1, o2}
  Interviews = {i1}
  MaxVersion = 6
  None = None
SYMMETRY Symmetry
PROPERTIES OfferStageRequiresInterview
