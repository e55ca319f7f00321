---------------------------- MODULE SessionLease ----------------------------
(***************************************************************************)
(* What session parking promises, without WebSockets, queues, slots and    *)
(* timers: a lease on a game session.  A session is held by one tab, or by *)
(* none while its tab is away; it is handed to another tab only against    *)
(* its current key, which the hand-over replaces; the tab that takes it    *)
(* gives up the session it came with; once over, a session never returns.  *)
(* SessionPark implements this specification (its property LeaseSpec).     *)
(***************************************************************************)
EXTENDS Naturals

CONSTANTS Session,  \* sessions; the tab a session was opened for has its name
          Null

VARIABLES
    status,   \* "unborn", "running" or "over"
    holder,   \* the tab that holds a running session, or Null while it is left
    key,      \* the key of a running session, 0 when it has none
    issued    \* keys are numbered in the order they are made

leaseVars == <<status, holder, key, issued>>

Running(s) == status[s] = "running"

Init ==
    /\ status = [s \in Session |-> "unborn"]
    /\ holder = [s \in Session |-> Null]
    /\ key = [s \in Session |-> 0]
    /\ issued = 0

\* A tab arrives and opens a session of its own.
Open(s) ==
    /\ status[s] = "unborn"
    /\ status' = [status EXCEPT ![s] = "running"]
    /\ holder' = [holder EXCEPT ![s] = s]
    /\ UNCHANGED <<key, issued>>

\* The tab goes away; only a session with a key may be left running.
Leave(s) ==
    /\ Running(s) /\ holder[s] # Null /\ key[s] # 0
    /\ holder' = [holder EXCEPT ![s] = Null]
    /\ UNCHANGED <<status, key, issued>>

\* A session gets a key no session had before.
Rekey(s) ==
    /\ Running(s)
    /\ issued' = issued + 1
    /\ key' = [key EXCEPT ![s] = issued + 1]
    /\ UNCHANGED <<status, holder>>

\* A key is made and given to no session.
Burn == issued' = issued + 1 /\ UNCHANGED <<status, holder, key>>

\* Tab c presents the key of s: it holds s under a new key, and its own session is over.
TakeOver(s, c) ==
    /\ Running(s) /\ key[s] # 0
    /\ s # c /\ Running(c) /\ holder[c] = c /\ key[c] = 0
    /\ issued' = issued + 1
    /\ key' = [key EXCEPT ![s] = issued + 1]
    /\ holder' = [holder EXCEPT ![s] = c, ![c] = Null]
    /\ status' = [status EXCEPT ![c] = "over"]

\* The sessions of E are over, and those of F forget their key (a new login).
Finish(E, F) ==
    /\ \A s \in E : Running(s)
    /\ status' = [s \in Session |-> IF s \in E THEN "over" ELSE status[s]]
    /\ holder' = [s \in Session |-> IF s \in E THEN Null ELSE holder[s]]
    /\ key' = [s \in Session |-> IF s \in E \cup F THEN 0 ELSE key[s]]
    /\ UNCHANGED issued

Next ==
    \/ \E s \in Session : Open(s) \/ Leave(s) \/ Rekey(s)
    \/ Burn
    \/ \E s, c \in Session : TakeOver(s, c)
    \/ \E E, F \in SUBSET Session : Finish(E, F)

Spec == Init /\ [][Next]_leaseVars

=============================================================================
