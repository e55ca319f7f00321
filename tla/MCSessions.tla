----------------------------- MODULE MCSessions -----------------------------
(* A session towards the browser and towards the game, for TLC: the gateway's closure with every kind of    *)
(* request, and the world link.  They share no state: the initial state picks the one that moves, and the   *)
(* other stays where it starts.                                                                             *)
EXTENDS SessionPark, WorldLink, TLC

CONSTANTS Side, c1, c2, i1, u1

TwoTabs        == {c1, c2}
OneUser        == {u1}
OneAddress     == {i1}
FromOneAddress == [c \in Conn |-> i1]

AllRequests ==
    {"CONNECT_DIRECTORY", "LOGIN_WORLD", "SELECT_COMPANY", "RESUME_SESSION", "SWITCH_COMPANY", "LOGOUT", "OTHER"}
WithCompanies == {"login", "select", "game", "logout", "switchCompany"}

VARIABLE side

SidesInit == side \in Side /\ Init /\ LinkInit

SidesNext ==
    \/ side = "gateway" /\ Next /\ UNCHANGED <<side, linkVars>>
    \/ side = "link" /\ LinkNext /\ UNCHANGED <<side, vars>>

SidesSpec == SidesInit /\ [][SidesNext]_<<side, vars, linkVars>>

Alike == Permutations(Sock) \cup Permutations(Body) \cup Permutations(Conn)
=============================================================================
