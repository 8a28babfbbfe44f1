\* Three logins, one to an account older than the flag, two deletions.
SPECIFICATION FairSpec
CONSTANTS
  l1 = l1
  l2 = l2
  l3 = l3
  s1 = s1
  alice = alice
  bob = bob
  carol = carol
  Nobody = Nobody
  Logins = {l1, l2, l3}
  Seeded = {s1}
  Emails = {alice, bob}
  EmailOf <- TwoOfAlice
  AllowList = {bob}
  Requests = {d1, d2}
CHECK_DEADLOCK FALSE
INVARIANTS
  AtMostOneAdmin
  WinnerHoldsSeat
  SeatIsTaken
  DeletedOnce
  SeatInv
PROPERTIES
  SeatChangesHands
  LoginsAnswered
