\* A second pod starts while the first one works; nothing fails.
SPECIFICATION Spec
CONSTANTS
  u1 = u1
  u2 = u2
  u3 = u3
  alice = alice
  bob = bob
  podA = podA
  podB = podB
  wA1 = wA1
  wA2 = wA2
  wB1 = wB1
  NoUpload = NoUpload
  Uploads = {u1, u2}
  Users = {alice, bob}
  Owner <- TwoOwners
  Replicas = {podA, podB}
  Workers = {wA1, wB1}
  Home <- HomeOfWorker
  QueueCap = 2
  Faults = {}
  MaxFaults = 0
INVARIANTS
  LedgerAccurate
