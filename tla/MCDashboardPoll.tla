--------------------------- MODULE MCDashboardPoll ---------------------------
(* Constants of the small instances of DashboardPoll.                      *)
EXTENDS DashboardPoll, TLC

CONSTANTS u1, u2

\* Both properties hold for good once the page is disturbed, and it stays so.
Undisturbed == ~disturbed

=============================================================================
