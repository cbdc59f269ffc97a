\* Three parties, protocols of three rounds, up to two of them failing.
\* The program stops when main returns, or waits for a reply that never comes.
SPECIFICATION Spec
CONSTANTS
  N = 3
  AuxPlan <- TwoBroadcastsThenP2P
  KeygenPlan <- ThreeBroadcasts
  MaxFailures = 2
INVARIANTS
  TypeOK
  PhasesNeverOverlap
  NetworksDrained
  InboxesStaySmall
PROPERTIES
  MainEnds
CHECK_DEADLOCK FALSE
