\* Two new pods and one of the image before; two faults.
SPECIFICATION FairSpec
CONSTANTS
  old = old
  new1 = new1
  new2 = new2
  Pods = {old, new1, new2}
  Embedded <- Rollout
  Last = 3
  MaxFaults = 2
CHECK_DEADLOCK FALSE
INVARIANTS
  RunsOnce
  ServesMigrated
  MigrationInv
PROPERTIES
  EveryPodServes
