-------------------------- MODULE MCConnectionPool --------------------------
(* Instances of ConnectionPool for TLC. *)
EXTENDS ConnectionPool, TLC

Alike == Permutations(Call) \cup Permutations(Conn) \cup Permutations(Pool)

\* What a connection nothing refers to remembers does not matter.
Kept(c, v, none) == IF Garbage(c) THEN none ELSE v[c]
Referenced ==
    <<worldPool, connections, closed, checking, closing, job, status, on, releaser, crossed, linkVars,
      [c \in Conn |-> Kept(c, socket, "none")], [c \in Conn |-> Kept(c, owner, None)],
      [c \in Conn |-> Kept(c, activeRequests, 0)], [c \in Conn |-> Kept(c, consecutiveTimeouts, 0)],
      [c \in Conn |-> Kept(c, replacing, FALSE)]>>
============================================================================
