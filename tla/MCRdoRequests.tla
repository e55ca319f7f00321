--------------------------- MODULE MCRdoRequests ---------------------------
(* Instances of RdoRequests for TLC. *)
EXTENDS RdoRequests

CONSTANTS set, ask, get

\* A mutation of the world, a CALL to the map service, a read of the world.
SetAndAsk == {set, ask}
OnlySet   == {set}
OnlyGet   == {get}
NoReads   == {}
============================================================================
