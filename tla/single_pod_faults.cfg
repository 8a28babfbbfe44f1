\* One pod, two workers, three uploads, two faults of any kind.
SPECIFICATION Spec
CONSTANTS
  u1 = u1
  u2 = u2
  u3 = u3
  alice = alice
  bob = bob
  podA = podA
  podB = podB
  wA1 = wA1
  wA2 = wA2
  wB1 = wB1
  NoUpload = NoUpload
  Uploads = {u1, u2, u3}
  Users = {alice}
  Owner <- AllToAlice
  Replicas = {podA}
  Workers = {wA1, wA2}
  Home <- HomeOfWorker
  QueueCap = 1
  Faults = {"crash", "stop", "database", "bucket"}
  MaxFaults = 2
SYMMETRY UploadsAndWorkers
INVARIANTS
  PostedOnce
  UnfinishedIsStaged
PROPERTIES
  LifecycleSpec
