CONSTANTS
  Node <- MCNode
  KeyOf <- MCKeyOf
  Probe <- MCProbe
  Comp <- MCComp
  NULL = NULL
  HEAD = HEAD
  AllowDups = TRUE
SPECIFICATION Spec
INVARIANTS WellFormed LookupsAgree SubnetsContiguous AddressesSurvive
PROPERTY KeepsOrder
