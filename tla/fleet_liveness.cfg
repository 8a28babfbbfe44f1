\* Two pods with room for one job each, two uploads, one fault of any kind; a
\* pod that goes down need not start again.
SPECIFICATION FairSpec
CONSTANTS
  u1 = u1
  u2 = u2
  u3 = u3
  alice = alice
  bob = bob
  podA = podA
  podB = podB
  wA1 = wA1
  wA2 = wA2
  wB1 = wB1
  NoUpload = NoUpload
  Uploads = {u1, u2}
  Users = {alice}
  Owner <- AllToAlice
  Replicas = {podA, podB}
  Workers = {wA1, wB1}
  Home <- HomeOfWorker
  QueueCap = 1
  Faults = {"crash", "stop", "database", "bucket"}
  MaxFaults = 1
ACTION_CONSTRAINT UsersInTurn
PROPERTIES
  EveryUploadSettles
  StartSettlesOldest
  ShutdownEnds
