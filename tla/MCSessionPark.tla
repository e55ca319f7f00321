--------------------------- MODULE MCSessionPark ---------------------------
(***************************************************************************)
(* Instances of SessionPark for TLC: one or two tabs of one player       *)
(* behind one address, and the requests those tabs send.                   *)
(***************************************************************************)
EXTENDS SessionPark, TLC

CONSTANTS c1, c2, i1, u1

OneTab    == {c1}
TwoTabs   == {c1, c2}

OneUser        == {u1}
OneAddress     == {i1}
FromOneAddress == [c \in Conn |-> i1]

\* The tabs are interchangeable: they share their address (safety runs only).
Tabs == Permutations(Conn)

ResumeRequests == {"CONNECT_DIRECTORY", "LOGIN_WORLD", "SELECT_COMPANY", "RESUME_SESSION"}
WorldRequests  == ResumeRequests \cup {"SWITCH_COMPANY"}
OtherRequests == WorldRequests \cup {"OTHER"}
=============================================================================
