SPECIFICATION Spec
CONSTANTS
  Contents = {v1, v2, v3}
INVARIANT TypeOK
INVARIANT PlanIsThreeWayMerge
INVARIANT BaselineWasShared
PROPERTY NoUnpublishedOverwrite
PROPERTY NoUnseenSupersede
PROPERTY SyncSettles
