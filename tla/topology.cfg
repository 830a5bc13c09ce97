CONSTANTS
  Names <- MCNames
  Types <- MCTypes
  Scripts <- MCScripts
SPECIFICATION Spec
INVARIANTS
  TypeOK
  StartConnectsAll
  RightsFollowThePlan
  StopReachesEveryNode

