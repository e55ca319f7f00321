------------------------- MODULE SessionLeaseProofs -------------------------
(***************************************************************************)
(* What TLAPS proves about the sessions SessionPark keeps running: that    *)
(* the shutdown drain tracks each of them, that no resume reaches a dying  *)
(* one, that slots and limits are accounted for, and that the gateway      *)
(* implements SessionLease.                                                *)
(***************************************************************************)
EXTENDS SessionParkProofs

----------------------------------------------------------------------------
(* The invariant *)

\* A session is born when its WebSocket is accepted.
Born == \A c \in Conn : life[c] = "unborn" => sock[c] = "none"

\* The session of a tab that has not been heard yet is nobody else's: it has no entry and no
\* view, and while its WebSocket is there it is bound to it.  A shutdown finds no such tab with
\* a message waiting, so none resumes a session any more.
FreshTabs ==
    \A c \in Conn : ~processed[c] =>
        /\ entries[c] = Null
        /\ view[c] = Null
        /\ \A d \in Conn \ {c} : handle[d] # c
        /\ draining => rdoQueue[c] = <<>>
        /\ sock[c] \in Attached => handle[c] = c /\ binding[c] = c

\* A resume leaves the former WebSocket of the session dead: one that is still served is the
\* one its session is bound to.  Until the shutdown the session a WebSocket holds is live.
Held ==
    \A c \in Conn :
        /\ sock[c] \in {"open", "closing"} => binding[handle[c]] = c
        /\ sock[c] \in Attached /\ binding[handle[c]] = c /\ ~draining => life[handle[c]] = "live"

\* The drain tracks a session under the WebSocket it is bound to, or under its last one, which
\* is closed, once it has none.
Tracking ==
    \A c \in Conn : connections[c] # Null =>
        /\ handle[c] = connections[c]
        /\ sock[c] # "none"
        /\ binding[connections[c]] = IF sock[c] = "closed" THEN Null ELSE c

\* A token some tab received belongs to a live session; when that has no tab, it is parked.
TokensInForce ==
    ~draining => \A s \in Conn : entries[s] # Null /\ entries[s].token \in delivered =>
        /\ life[s] = "live"
        /\ binding[s] = Null => IsParked(s)

\* What the invariants of the drain and of the entries rest on.
TieInv  == Born /\ FreshTabs /\ Held /\ Tracking /\ DrainCovers
HoldInv == TieInv /\ ParkedIsIntact /\ TokensInForce

----------------------------------------------------------------------------
(* Steps that move no session *)

\* Sessions stay with their tabs; a WebSocket may begin to close, a session without a tab to
\* end.  What a tab that is not heard yet has, does not change.
Steady ==
    /\ UNCHANGED <<handle, binding, connections, draining>>
    /\ \A c \in Conn : \/ sock'[c] = sock[c]
                       \/ sock[c] \in {"open", "closing"} /\ sock'[c] \in {"closing", "dead"}
    /\ \A s \in Conn : \/ life'[s] = life[s]
                       \/ binding[s] = Null /\ life[s] = "live" /\ life'[s] = "ending"
    /\ \A c \in Conn : ~processed'[c] =>
        /\ ~processed[c]
        /\ entries[c] = Null => entries'[c] = Null
        /\ view[c] = Null => view'[c] = Null
        /\ draining /\ rdoQueue[c] = <<>> => rdoQueue'[c] = <<>>

LEMMA SteadyTies ==
    ASSUME TypeOK, TieInv, Steady
    PROVE  TieInv'
<1>1. Born'
  BY DEF TieInv, Born, Steady
<1>2. FreshTabs'
  BY DEF TieInv, FreshTabs, Steady, Attached
<1>3. Held'
  BY SessionParkAssumption DEF TieInv, Held, Steady, Attached, TypeOK
<1>4. Tracking'
  BY DEF TieInv, Tracking, Steady
<1>5. DrainCovers'
  <2>1. \A s \in Conn : Alive(s)' <=> Alive(s)
    BY DEF Steady, Alive
  <2> QED
    BY <2>1 DEF TieInv, DrainCovers, Steady, TypeOK
<1> QED
  BY <1>1, <1>2, <1>3, <1>4, <1>5 DEF TieInv

\* Entries only go, and the entry of a session that begins to end does.
EntriesGo ==
    /\ UNCHANGED delivered
    /\ \A s \in Conn : entries'[s] = Null \/ (entries'[s] = entries[s] /\ life'[s] = life[s])

LEMMA SteadyHold ==
    ASSUME TypeOK, HoldInv, Steady, EntriesGo
    PROVE  HoldInv'
<1>1. TieInv'
  BY SteadyTies DEF HoldInv
<1>2. \A s \in Conn : IsParked(s)' => IsParked(s) /\ entries'[s] = entries[s] /\ life'[s] = life[s]
  BY DEF EntriesGo, IsParked
<1>3. ParkedIsIntact'
  <2> SUFFICES ASSUME NEW s \in Conn, IsParked(s)'
               PROVE  /\ life'[s] = "live" /\ binding'[s] = Null
                      /\ entries'[s].token # 0
                      /\ \E c \in Conn : /\ connections'[c] = s /\ sock'[c] = "closed"
                                         /\ IpOf[c] = entries'[s].ip
    BY DEF ParkedIsIntact, Parked
  <2>1. /\ life[s] = "live" /\ binding[s] = Null
        /\ entries[s].token # 0
        /\ \E c \in Conn : connections[c] = s /\ sock[c] = "closed" /\ IpOf[c] = entries[s].ip
    BY <1>2 DEF HoldInv, ParkedIsIntact, Parked
  <2> QED
    BY <1>2, <2>1 DEF Steady
<1>4. TokensInForce'
  <2> SUFFICES ASSUME ~draining', NEW s \in Conn, entries'[s] # Null,
                      entries'[s].token \in delivered'
               PROVE  life'[s] = "live" /\ (binding'[s] = Null => IsParked(s)')
    BY DEF TokensInForce
  <2>1. entries'[s] = entries[s] /\ life'[s] = life[s]
    BY DEF EntriesGo
  <2> QED
    BY <2>1 DEF HoldInv, TokensInForce, Steady, EntriesGo, IsParked
<1> QED
  BY <1>1, <1>3, <1>4 DEF HoldInv

\* The entry a company request leaves: with a new token, parked if it was.
LEMMA WorldEnteredEntry ==
    ASSUME TypeOK, NEW s \in Conn, NEW c \in Conn, WorldEntered(s, c),
           loginUser[s] # Null, phase'[s] = "WORLD_CONNECTED"
    PROVE  /\ \A t \in Conn \ {s} : entries'[t] = entries[t]
           /\ entries'[s] # Null /\ entries'[s].token = nextToken + 1
           /\ entries'[s].ip = IF entries[s] = Null THEN Null ELSE entries[s].ip
           /\ nextToken' = nextToken + 1
           /\ delivered' = IF sock[c] = "open" THEN delivered \cup {nextToken + 1} ELSE delivered
<1> DEFINE new  == [key |-> loginUser[s], token |-> nextToken + 1, ip |-> Null]
           next == [entries[s] EXCEPT !.token = nextToken + 1]
<1>1. nextToken + 1 \in Nat /\ loginUser[s] \in User
  BY DEF TypeOK
<1>2. new \in ResumeEntry /\ new.token = nextToken + 1 /\ new.ip = Null
  BY <1>1 DEF ResumeEntry
<1>3. entries[s] # Null =>
        next \in ResumeEntry /\ next.token = nextToken + 1 /\ next.ip = entries[s].ip
  <2>1. entries[s] # Null => entries[s] \in ResumeEntry
    BY DEF TypeOK
  <2> QED
    BY <1>1, <2>1 DEF ResumeEntry
<1>4. entries' = [entries EXCEPT ![s] = IF entries[s] = Null THEN new ELSE next]
  BY DEF WorldEntered
<1>5. entries'[s] = IF entries[s] = Null THEN new ELSE next
  BY <1>4 DEF TypeOK
<1>6. /\ \A t \in Conn \ {s} : entries'[t] = entries[t]
      /\ nextToken' = nextToken + 1
      /\ delivered' = IF sock[c] = "open" THEN delivered \cup {nextToken + 1} ELSE delivered
  BY DEF WorldEntered, TypeOK
<1> HIDE DEF new, next
<1>7. entries'[s] # Null /\ entries'[s].token = nextToken + 1
  BY <1>2, <1>3, <1>5, ResumeEntryAssumption
<1>8. entries'[s].ip = IF entries[s] = Null THEN Null ELSE entries[s].ip
  BY <1>2, <1>3, <1>5
<1> QED
  BY <1>6, <1>7, <1>8

\* The token a company request rotates in reaches a tab only when the session is its own.
LEMMA WorldEnteredHold ==
    ASSUME TypeOK, TokenInv, HoldInv, Steady, UNCHANGED life,
           NEW c \in Conn, WorldEntered(handle[c], c)
    PROVE  HoldInv'
<1> DEFINE s == handle[c]
<1>0. s \in Conn
  BY DEF TypeOK
<1>1. CASE loginUser[s] # Null /\ phase'[s] = "WORLD_CONNECTED"
  <2>1. /\ \A t \in Conn \ {s} : entries'[t] = entries[t]
        /\ entries'[s] # Null /\ entries'[s].token = nextToken + 1
        /\ entries'[s].ip = IF entries[s] = Null THEN Null ELSE entries[s].ip
        /\ delivered' = IF sock[c] = "open" THEN delivered \cup {nextToken + 1} ELSE delivered
    BY <1>0, <1>1, WorldEnteredEntry
  <2>2. TieInv'
    BY SteadyTies DEF HoldInv
  <2>3. nextToken \in Nat /\ nextToken + 1 \notin delivered
    BY DEF TypeOK, TokenInv
  <2>4. ParkedIsIntact'
    <3> SUFFICES ASSUME NEW t \in Conn, IsParked(t)'
                 PROVE  /\ life'[t] = "live" /\ binding'[t] = Null
                        /\ entries'[t].token # 0
                        /\ \E d \in Conn : /\ connections'[d] = t /\ sock'[d] = "closed"
                                           /\ IpOf[d] = entries'[t].ip
      BY DEF ParkedIsIntact, Parked
    <3>1. IsParked(t) /\ entries'[t].ip = entries[t].ip
      BY <2>1 DEF IsParked
    <3>2. /\ life[t] = "live" /\ binding[t] = Null
          /\ entries[t].token # 0
          /\ \E d \in Conn : connections[d] = t /\ sock[d] = "closed" /\ IpOf[d] = entries[t].ip
      BY <3>1 DEF HoldInv, ParkedIsIntact, Parked
    <3>3. entries'[t].token # 0
      BY <2>1, <2>3, <3>2
    <3> QED
      BY <3>1, <3>2, <3>3 DEF Steady
  <2>5. TokensInForce'
    <3> SUFFICES ASSUME ~draining', NEW t \in Conn, entries'[t] # Null,
                        entries'[t].token \in delivered'
                 PROVE  life'[t] = "live" /\ (binding'[t] = Null => IsParked(t)')
      BY DEF TokensInForce
    <3>1. ~draining /\ binding' = binding /\ life'[t] = life[t]
      BY DEF Steady
    <3>2. CASE t = s
      <4>1. sock[c] = "open"
        BY <2>1, <2>3, <3>2
      <4> QED
        BY <3>1, <3>2, <4>1, SessionParkAssumption DEF HoldInv, TieInv, Held, Attached
    <3>3. CASE t # s
      <4>1. entries'[t] = entries[t] /\ (IsParked(t) => IsParked(t)')
        BY <2>1, <3>3 DEF IsParked
      <4>2. entries[t].token \in delivered
        <5>1. entries[t].token \in 1..nextToken
          BY <4>1 DEF TokenInv
        <5> QED
          BY <2>1, <2>3, <4>1, <5>1
      <4> QED
        BY <3>1, <4>1, <4>2 DEF HoldInv, TokensInForce
    <3> QED
      BY <3>2, <3>3
  <2> QED
    BY <2>2, <2>4, <2>5 DEF HoldInv
<1>2. CASE ~(loginUser[s] # Null /\ phase'[s] = "WORLD_CONNECTED")
  <2>1. EntriesGo
    BY <1>2 DEF WorldEntered, EntriesGo, tokenVars
  <2> QED
    BY <2>1, SteadyHold
<1> QED
  BY <1>1, <1>2

----------------------------------------------------------------------------
(* What a handler touches *)

\* A message is served for a tab that has been heard by then, and changes no other lane.
LEMMA ServedTab ==
    ASSUME TypeOK, NEW c \in Conn, NEW type, Dequeue(c, type)
    PROVE  /\ processed'[c]
           /\ \A d \in Conn \ {c} : processed'[d] = processed[d] /\ rdoQueue'[d] = rdoQueue[d]
BY DEF Dequeue, TypeOK

\* A suspended handler works for the session of a tab that has been heard.
LEMMA WorksForHeard ==
    ASSUME TypeOK, LinkInv, TieInv, NEW c \in Conn, running[c] # Idle
    PROVE  \A d \in Conn : ~processed[d] => handle[c] # d
BY DEF LinkInv, TieInv, FreshTabs

\* The session a WebSocket that is still there is bound to is tracked under it.
LEMMA TrackedUnder ==
    ASSUME TypeOK, TieInv, NEW c \in Conn, NEW s \in Conn, binding[s] = c, Alive(s)
    PROVE  connections[c] = s
<1>1. PICK d \in Conn : connections[d] = s
  BY DEF TieInv, DrainCovers
<1>2. d = c
  BY <1>1, SessionParkAssumption DEF TieInv, Tracking
<1> QED
  BY <1>1, <1>2

\* The close of a WebSocket its session was taken from finds nothing to stop tracking.
LEMMA SupersededUntracked ==
    ASSUME TypeOK, TieInv, NEW c \in Conn, Superseded(c), sock[c] \in Attached
    PROVE  connections[c] = Null
BY DEF TieInv, Tracking, Superseded, Attached, TypeOK

\* A resume reaches a live session, for a tab that is there with its own, empty session, and
\* before the shutdown.
LEMMA ResumeFacts ==
    ASSUME TypeOK, TokenInv, LinkInv, HoldInv, NEW c \in Conn, ResumeSession(c)
    PROVE  \E s \in Conn :
        /\ ~draining /\ life[s] = "live" /\ s # c /\ processed[s]
        /\ entries[s] # Null /\ entries[s].token \in 1..nextToken
        /\ binding[s] = Null => IsParked(s)
        /\ ~processed[c] /\ handle[c] = c /\ binding[c] = c /\ life[c] = "live"
        /\ sock[c] \in Attached /\ entries[c] = Null /\ view[c] = Null /\ connections[c] = c
        /\ nextToken' = nextToken + 1
        /\ delivered' \subseteq delivered \cup {nextToken + 1}
        /\ entries'[s] # Null /\ entries'[s].token = nextToken + 1 /\ entries'[s].ip = Null
        /\ \A t \in Conn \ {s} : entries'[t] = entries[t]
        /\ wsConnectionsPerIp' = IF IsParked(s) THEN ReleaseSlot(entries[s].ip)
                                 ELSE wsConnectionsPerIp
        /\ binding' = [binding EXCEPT ![s] = c]
        /\ handle' = [handle EXCEPT ![c] = s]
        /\ life' = [life EXCEPT ![c] = "destroyed"]
        /\ connections' = Retracked(c, s)
        /\ sock' = IF binding[s] \in Conn \ {c} /\ sock[binding[s]] # "closed"
                   THEN [sock EXCEPT ![binding[s]] = "dead"] ELSE sock
<1>1. PICK s \in Conn :
        /\ Claims(s, Head(rdoQueue[c]))
        /\ nextToken' = nextToken + 1
        /\ delivered' = IF sock[c] = "open" THEN delivered \cup {nextToken + 1} ELSE delivered
        /\ entries' = Reattached(s)
        /\ wsConnectionsPerIp' = IF IsParked(s) THEN ReleaseSlot(entries[s].ip)
                                 ELSE wsConnectionsPerIp
        /\ binding' = [binding EXCEPT ![s] = c]
        /\ handle' = [handle EXCEPT ![c] = s]
        /\ life' = [life EXCEPT ![c] = "destroyed"]
        /\ connections' = Retracked(c, s)
        /\ sock' = IF binding[s] \in Conn \ {c} /\ sock[binding[s]] # "closed"
                   THEN [sock EXCEPT ![binding[s]] = "dead"] ELSE sock
  BY DEF ResumeSession
<1>2. /\ Dequeue(c, "RESUME_SESSION") /\ Head(rdoQueue[c]).type = "RESUME_SESSION"
      /\ rdoQueue[c] # <<>> /\ ~processed[c] /\ handle[c] = c
  BY DEF ResumeSession, Dequeue
<1>3. entries[s] # Null /\ entries[s].token = Head(rdoQueue[c]).token
  BY <1>1 DEF Claims
<1>4. /\ ~draining /\ sock[c] \in Attached /\ binding[c] = c
      /\ entries[c] = Null /\ view[c] = Null
  BY <1>2 DEF LinkInv, HoldInv, TieInv, FreshTabs
<1>5. life[c] = "live"
  BY <1>2, <1>4 DEF HoldInv, TieInv, Held
<1>6. connections[c] = c
  BY <1>4, <1>5, TrackedUnder DEF HoldInv, Alive
<1>7. s # c /\ processed[s]
  BY <1>3, <1>4 DEF HoldInv, TieInv, FreshTabs
<1>8. entries[s].token \in delivered /\ entries[s].token \in 1..nextToken
  <2>1. delivered \subseteq delivered'
    BY <1>1
  <2> QED
    BY <1>2, <1>3, <2>1, DequeueKnown DEF KnownMessage, TokenInv
<1>9. life[s] = "live" /\ (binding[s] = Null => IsParked(s))
  BY <1>3, <1>4, <1>8 DEF HoldInv, TokensInForce
<1>10. /\ entries'[s] # Null /\ entries'[s].token = nextToken + 1 /\ entries'[s].ip = Null
       /\ \A t \in Conn \ {s} : entries'[t] = entries[t]
  <2> DEFINE e == [entries[s] EXCEPT !.token = nextToken + 1, !.ip = Null]
  <2>1. entries[s] \in ResumeEntry /\ nextToken + 1 \in Nat
    BY <1>3 DEF TypeOK
  <2>2. e \in ResumeEntry /\ e.token = nextToken + 1 /\ e.ip = Null
    BY <2>1 DEF ResumeEntry
  <2>3. entries' = [entries EXCEPT ![s] = e]
    BY <1>1 DEF Reattached, TypeOK
  <2> HIDE DEF e
  <2> QED
    BY <2>2, <2>3, ResumeEntryAssumption DEF TypeOK
<1>11. delivered' \subseteq delivered \cup {nextToken + 1}
  BY <1>1
<1> QED
  BY <1>1, <1>2, <1>3, <1>4, <1>5, <1>6, <1>7, <1>8, <1>9, <1>10, <1>11

----------------------------------------------------------------------------
(* Every step keeps the invariant *)

LEMMA AcceptHold ==
    ASSUME TypeOK, LinkInv, HoldInv, NEW c \in Conn, Accept(c)
    PROVE  HoldInv'
<1>1. /\ sock[c] = "none" /\ ~draining
      /\ sock' = [sock EXCEPT ![c] = "open"] /\ life' = [life EXCEPT ![c] = "live"]
      /\ binding' = [binding EXCEPT ![c] = c] /\ connections' = [connections EXCEPT ![c] = c]
      /\ UNCHANGED <<rdoQueue, handle, processed, view, entries, draining, delivered>>
  BY DEF Accept, tokenVars
<1>2. /\ ~processed[c] /\ handle[c] = c /\ life[c] = "unborn" /\ entries[c] = Null
      /\ \A d \in Conn \ {c} : handle[d] # c
  BY <1>1 DEF LinkInv, HoldInv, TieInv, FreshTabs
<1>3. connections[c] = Null /\ \A d \in Conn : connections[d] # c
  BY <1>1, <1>2, SessionParkAssumption DEF HoldInv, TieInv, Tracking, DrainCovers, Alive
<1>4. Born'
  BY <1>1 DEF HoldInv, TieInv, Born, TypeOK
<1>5. FreshTabs'
  BY <1>1, <1>2 DEF HoldInv, TieInv, FreshTabs, Attached, TypeOK
<1>6. Held'
  BY <1>1, <1>2 DEF HoldInv, TieInv, Held, Attached, TypeOK
<1>7. Tracking'
  BY <1>1, <1>2, <1>3 DEF HoldInv, TieInv, Tracking, TypeOK
<1>8. DrainCovers'
  <2>1. \A s \in Conn : Alive(s)' <=> Alive(s) \/ s = c
    BY <1>1, <1>2 DEF Alive, TypeOK
  <2>2. \A d \in Conn : connections'[d] = IF d = c THEN c ELSE connections[d]
    BY <1>1 DEF TypeOK
  <2>3. \A s \in Conn : Alive(s)' => \E d \in Conn : connections'[d] = s
    BY <1>3, <2>1, <2>2, SessionParkAssumption DEF HoldInv, TieInv, DrainCovers
  <2>4. \A d \in Conn : connections'[d] # Null => Alive(connections[d])'
    BY <1>1, <1>3, <2>2 DEF HoldInv, TieInv, DrainCovers, Alive, TypeOK
  <2>5. \A d, e \in Conn : connections'[d] # Null /\ connections'[d] = connections'[e] => d = e
    BY <1>3, <2>2 DEF HoldInv, TieInv, DrainCovers
  <2> QED
    BY <2>3, <2>4, <2>5 DEF DrainCovers
<1>9. ParkedIsIntact'
  <2> SUFFICES ASSUME NEW s \in Conn, IsParked(s)'
               PROVE  /\ life'[s] = "live" /\ binding'[s] = Null
                      /\ entries'[s].token # 0
                      /\ \E d \in Conn : /\ connections'[d] = s /\ sock'[d] = "closed"
                                         /\ IpOf[d] = entries'[s].ip
    BY DEF ParkedIsIntact, Parked
  <2>1. IsParked(s) /\ s # c
    BY <1>1, <1>2 DEF IsParked
  <2> QED
    BY <1>1, <2>1 DEF HoldInv, ParkedIsIntact, Parked, TypeOK
<1>10. TokensInForce'
  BY <1>1, <1>2 DEF HoldInv, TokensInForce, IsParked, TypeOK
<1> QED
  BY <1>4, <1>5, <1>6, <1>7, <1>8, <1>9, <1>10 DEF HoldInv, TieInv

\* Closing a WebSocket its session is bound to detaches the session.
LEMMA DetachTies ==
    ASSUME TypeOK, LinkInv, HoldInv, NEW c \in Conn, sock[c] \in Attached,
           ~Superseded(c), ~processed[c] => rdoQueue[c] = <<>>,
           sock' = [sock EXCEPT ![c] = "closed"],
           binding' = Detached(handle[c]),
           life' = life \/ life' = StartTeardown({handle[c]}),
           UNCHANGED <<rdoQueue, handle, processed, view, connections, draining>>,
           \A t \in Conn : entries[t] = Null => entries'[t] = Null
    PROVE  TieInv'
<1> DEFINE s == handle[c]
<1>1. s \in Conn /\ binding[s] = c /\ binding' = [binding EXCEPT ![s] = Null]
  BY DEF Superseded, Detached, TypeOK
<1>2. \A t \in Conn : life'[t] = life[t] \/ (t = s /\ life[t] = "live" /\ life'[t] = "ending")
  BY DEF StartTeardown, TypeOK
<1>3. Born'
  BY <1>2 DEF HoldInv, TieInv, Born, Attached, TypeOK
<1>4. FreshTabs'
  <2> SUFFICES ASSUME NEW d \in Conn, ~processed[d]
               PROVE  /\ entries'[d] = Null /\ view[d] = Null
                      /\ \A e \in Conn \ {d} : handle[e] # d
                      /\ draining => rdoQueue[d] = <<>>
                      /\ sock'[d] \in Attached => handle[d] = d /\ binding'[d] = d
    BY DEF FreshTabs
  <2>1. /\ entries'[d] = Null /\ view[d] = Null
        /\ \A e \in Conn \ {d} : handle[e] # d
        /\ draining => rdoQueue[d] = <<>>
    BY DEF HoldInv, TieInv, FreshTabs
  <2>2. ASSUME sock'[d] \in Attached
        PROVE  handle[d] = d /\ binding'[d] = d
    <3>1. d # c /\ sock[d] \in Attached
      BY <2>2 DEF Attached, TypeOK
    <3>2. handle[d] = d /\ binding[d] = d /\ s # d
      BY <3>1, <2>1 DEF HoldInv, TieInv, FreshTabs
    <3> QED
      BY <1>1, <3>2 DEF TypeOK
  <2> QED
    BY <2>1, <2>2
<1>5. Held'
  <2> SUFFICES ASSUME NEW d \in Conn
               PROVE  /\ sock'[d] \in {"open", "closing"} => binding'[handle[d]] = d
                      /\ sock'[d] \in Attached /\ binding'[handle[d]] = d /\ ~draining
                            => life'[handle[d]] = "live"
    BY DEF Held
  <2>1. sock'[d] \in Attached => d # c /\ sock'[d] = sock[d]
    BY DEF Attached, TypeOK
  <2>2. sock[d] \in {"open", "closing"} /\ d # c => handle[d] # s
    BY <1>1 DEF HoldInv, TieInv, Held
  <2>3. handle[d] \in Conn /\ binding'[s] # d
    <3>1. binding'[s] = Null /\ d # Null
      BY <1>1, SessionParkAssumption DEF TypeOK
    <3> QED
      BY <3>1 DEF TypeOK
  <2>4. handle[d] # s => binding'[handle[d]] = binding[handle[d]] /\ life'[handle[d]] = life[handle[d]]
    BY <1>1, <1>2, <2>3 DEF TypeOK
  <2>5. sock'[d] \in {"open", "closing"} => binding'[handle[d]] = d
    BY <2>1, <2>2, <2>4 DEF HoldInv, TieInv, Held, Attached
  <2>6. sock'[d] \in Attached /\ binding'[handle[d]] = d /\ ~draining => life'[handle[d]] = "live"
    BY <2>1, <2>3, <2>4 DEF HoldInv, TieInv, Held
  <2> QED
    BY <2>5, <2>6
<1>6. Tracking'
  <2> SUFFICES ASSUME NEW d \in Conn, connections[d] # Null
               PROVE  /\ handle[d] = connections[d]
                      /\ sock'[d] # "none"
                      /\ binding'[connections[d]] = IF sock'[d] = "closed" THEN Null ELSE d
    BY DEF Tracking
  <2>1. /\ handle[d] = connections[d] /\ sock[d] # "none"
        /\ binding[connections[d]] = IF sock[d] = "closed" THEN Null ELSE d
        /\ connections[d] \in Conn
    BY DEF HoldInv, TieInv, Tracking, TypeOK
  <2>2. CASE d = c
    BY <1>1, <2>1, <2>2 DEF TypeOK
  <2>3. CASE d # c
    <3>1. connections[d] # s
      BY <1>1, <2>1, <2>3, SessionParkAssumption
    <3> QED
      BY <1>1, <2>1, <2>3, <3>1 DEF TypeOK
  <2> QED
    BY <2>2, <2>3
<1>7. DrainCovers'
  <2>1. \A t \in Conn : Alive(t)' <=> Alive(t)
    BY <1>2 DEF Alive
  <2> QED
    BY <2>1 DEF HoldInv, TieInv, DrainCovers, TypeOK
<1> QED
  BY <1>3, <1>4, <1>5, <1>6, <1>7 DEF TieInv

LEMMA CloseParkHold ==
    ASSUME TypeOK, TokenInv, LinkInv, HoldInv, NEW c \in Conn, ClosePark(c), ~processed[c] => rdoQueue[c] = <<>>
    PROVE  HoldInv' /\ connections' = connections /\ life[handle[c]] = "live"
<1> DEFINE s == handle[c]
<1>1. /\ sock[c] \in Attached /\ ~Superseded(c) /\ ~draining
      /\ sock' = [sock EXCEPT ![c] = "closed"] /\ binding' = Detached(s)
      /\ entries' = [entries EXCEPT ![s].ip = IpOf[c]]
      /\ connections' = [connections EXCEPT ![c] = s]
      /\ UNCHANGED <<life, rdoQueue, handle, processed, view, draining, delivered>>
      /\ entries[s] # Null
  BY DEF ClosePark, Closing, MayPark, Attached, tokenVars
<1>2. s \in Conn /\ binding[s] = c /\ binding' = [binding EXCEPT ![s] = Null]
  BY <1>1 DEF Superseded, Detached, TypeOK
<1>3. life[s] = "live"
  BY <1>1, <1>2 DEF HoldInv, TieInv, Held
<1>4. connections[c] = s
  BY <1>2, <1>3, TrackedUnder DEF HoldInv, Alive
<1>5. connections' = connections
  BY <1>1, <1>4 DEF TypeOK
<1>6. /\ entries'[s] # Null /\ entries'[s].token = entries[s].token /\ entries'[s].ip = IpOf[c]
      /\ \A t \in Conn \ {s} : entries'[t] = entries[t]
  <2> DEFINE e == [entries[s] EXCEPT !.ip = IpOf[c]]
  <2>1. entries[s] \in ResumeEntry /\ IpOf[c] \in Ip
    BY <1>1, <1>2, SessionParkAssumption DEF TypeOK
  <2>2. e \in ResumeEntry /\ e.token = entries[s].token /\ e.ip = IpOf[c]
    BY <2>1 DEF ResumeEntry
  <2>3. entries' = [entries EXCEPT ![s] = e]
    BY <1>1
  <2> HIDE DEF e
  <2> QED
    BY <1>2, <2>2, <2>3, ResumeEntryAssumption DEF TypeOK
<1>7. TieInv'
  BY <1>1, <1>2, <1>5, <1>6, DetachTies
<1>8. ParkedIsIntact'
  <2> SUFFICES ASSUME NEW t \in Conn, IsParked(t)'
               PROVE  /\ life'[t] = "live" /\ binding'[t] = Null
                      /\ entries'[t].token # 0
                      /\ \E d \in Conn : /\ connections'[d] = t /\ sock'[d] = "closed"
                                         /\ IpOf[d] = entries'[t].ip
    BY DEF ParkedIsIntact, Parked
  <2>1. CASE t = s
    <3>1. entries[s].token \in 1..nextToken
      BY <1>1, <1>2 DEF TokenInv
    <3> QED
      BY <1>1, <1>2, <1>3, <1>4, <1>5, <1>6, <2>1, <3>1 DEF TypeOK
  <2>2. CASE t # s
    <3>1. IsParked(t) /\ entries'[t] = entries[t]
      BY <1>6, <2>2 DEF IsParked
    <3>2. /\ life[t] = "live" /\ binding[t] = Null
          /\ entries[t].token # 0
          /\ \E d \in Conn : connections[d] = t /\ sock[d] = "closed" /\ IpOf[d] = entries[t].ip
      BY <3>1 DEF HoldInv, ParkedIsIntact, Parked
    <3> QED
      BY <1>1, <1>2, <1>5, <2>2, <3>1, <3>2 DEF TypeOK
  <2> QED
    BY <2>1, <2>2
<1>9. TokensInForce'
  <2> SUFFICES ASSUME NEW t \in Conn, entries'[t] # Null, entries'[t].token \in delivered'
               PROVE  life'[t] = "live" /\ (binding'[t] = Null => IsParked(t)')
    BY DEF TokensInForce
  <2>1. CASE t = s
    BY <1>1, <1>3, <1>6, <2>1, SessionParkAssumption DEF IsParked
  <2>2. CASE t # s
    <3>1. entries'[t] = entries[t] /\ (IsParked(t) => IsParked(t)') /\ binding'[t] = binding[t]
      BY <1>2, <1>6, <2>2 DEF IsParked, TypeOK
    <3> QED
      BY <1>1, <3>1 DEF HoldInv, TokensInForce
  <2> QED
    BY <2>1, <2>2
<1> QED
  BY <1>3, <1>5, <1>7, <1>8, <1>9 DEF HoldInv

LEMMA CloseEndHold ==
    ASSUME TypeOK, LinkInv, HoldInv, NEW c \in Conn, CloseEnd(c), ~processed[c] => rdoQueue[c] = <<>>
    PROVE  HoldInv'
<1> DEFINE s == handle[c]
<1>1. /\ sock[c] \in Attached /\ ~Superseded(c)
      /\ sock' = [sock EXCEPT ![c] = "closed"] /\ binding' = Detached(s)
      /\ entries' = EndEntries({s}) /\ life' = StartTeardown({s})
      /\ UNCHANGED <<connections, rdoQueue, handle, processed, view, draining, delivered>>
  BY DEF CloseEnd, Closing, Attached, tokenVars
<1>2. s \in Conn /\ binding[s] = c /\ binding' = [binding EXCEPT ![s] = Null]
  BY <1>1 DEF Superseded, Detached, TypeOK
<1>3. /\ entries'[s] = Null
      /\ \A t \in Conn \ {s} : /\ entries'[t] = entries[t] /\ life'[t] = life[t]
                               /\ binding'[t] = binding[t]
  BY <1>1, <1>2 DEF EndEntries, StartTeardown, TypeOK
<1>4. TieInv'
  <2>1. \A t \in Conn : entries[t] = Null => entries'[t] = Null
    BY <1>3
  <2> QED
    BY <1>1, <2>1, DetachTies
<1>5. ParkedIsIntact'
  <2> SUFFICES ASSUME NEW t \in Conn, IsParked(t)'
               PROVE  /\ life'[t] = "live" /\ binding'[t] = Null
                      /\ entries'[t].token # 0
                      /\ \E d \in Conn : /\ connections'[d] = t /\ sock'[d] = "closed"
                                         /\ IpOf[d] = entries'[t].ip
    BY DEF ParkedIsIntact, Parked
  <2>1. t # s /\ IsParked(t)
    BY <1>3 DEF IsParked
  <2>2. /\ life[t] = "live" /\ binding[t] = Null
        /\ entries[t].token # 0
        /\ \E d \in Conn : connections[d] = t /\ sock[d] = "closed" /\ IpOf[d] = entries[t].ip
    BY <2>1 DEF HoldInv, ParkedIsIntact, Parked
  <2> QED
    BY <1>1, <1>3, <2>1, <2>2 DEF TypeOK
<1>6. TokensInForce'
  <2> SUFFICES ASSUME ~draining', NEW t \in Conn, entries'[t] # Null,
                      entries'[t].token \in delivered'
               PROVE  life'[t] = "live" /\ (binding'[t] = Null => IsParked(t)')
    BY DEF TokensInForce
  <2>1. t # s
    BY <1>3
  <2>2. entries'[t] = entries[t] /\ (IsParked(t) => IsParked(t)')
    BY <1>3, <2>1 DEF IsParked
  <2> QED
    BY <1>1, <1>3, <2>1, <2>2 DEF HoldInv, TokensInForce
<1> QED
  BY <1>4, <1>5, <1>6 DEF HoldInv

LEMMA CloseSupersededHold ==
    ASSUME TypeOK, LinkInv, HoldInv, NEW c \in Conn, CloseSuperseded(c), ~processed[c] => rdoQueue[c] = <<>>
    PROVE  HoldInv' /\ UNCHANGED <<handle, binding, life, entries, connections, draining>>
<1>1. /\ sock[c] \in Attached /\ Superseded(c)
      /\ sock' = [sock EXCEPT ![c] = "closed"]
      /\ connections' = [connections EXCEPT ![c] = Null]
      /\ UNCHANGED <<life, binding, entries, rdoQueue, handle, processed, view, draining, delivered>>
  BY DEF CloseSuperseded, Closing, Attached, tokenVars
<1>2. connections[c] = Null
  BY <1>1, SupersededUntracked DEF HoldInv
<1>3. connections' = connections
  BY <1>1, <1>2 DEF TypeOK
<1>4. \A d \in Conn : /\ d # c => sock'[d] = sock[d]
                      /\ d = c => sock'[d] = "closed"
  BY <1>1 DEF TypeOK
<1>5. Born' /\ FreshTabs'
  BY <1>1, <1>4 DEF HoldInv, TieInv, Born, FreshTabs, Attached
<1>6. Held' /\ Tracking'
  BY <1>1, <1>2, <1>3, <1>4 DEF HoldInv, TieInv, Held, Tracking, Attached
<1>7. DrainCovers'
  BY <1>1, <1>3 DEF HoldInv, TieInv, DrainCovers, Alive
<1>8. ParkedIsIntact' /\ TokensInForce'
  <2>1. \A d \in Conn : sock[d] = "closed" => sock'[d] = "closed"
    BY <1>4
  <2>2. ParkedIsIntact'
    BY <1>1, <1>3, <2>1 DEF HoldInv, ParkedIsIntact, Parked, IsParked
  <2>3. TokensInForce'
    BY <1>1 DEF HoldInv, TokensInForce, IsParked
  <2> QED
    BY <2>2, <2>3
<1> QED
  BY <1>1, <1>3, <1>5, <1>6, <1>7, <1>8 DEF HoldInv, TieInv

LEMMA TeardownDoneHold ==
    ASSUME TypeOK, HoldInv, NEW s \in Conn, TeardownDone(s)
    PROVE  HoldInv'
<1>1. /\ life[s] = "ending" /\ life' = [life EXCEPT ![s] = "destroyed"]
      /\ view' = [view EXCEPT ![s] = Null]
      /\ connections' = [c \in Conn |-> IF connections[c] = s THEN Null ELSE connections[c]]
      /\ UNCHANGED <<sock, rdoQueue, handle, processed, binding, entries, draining, delivered>>
  BY DEF TeardownDone, sockVars, tokenVars
<1>2. /\ life'[s] = "destroyed" /\ view'[s] = Null
      /\ \A t \in Conn \ {s} : life'[t] = life[t] /\ view'[t] = view[t]
      /\ \A c \in Conn : connections'[c] # Null =>
            connections'[c] = connections[c] /\ connections[c] # s
      /\ \A c \in Conn : connections[c] # s => connections'[c] = connections[c]
  BY <1>1 DEF TypeOK
<1>3. Born' /\ FreshTabs'
  BY <1>1, <1>2 DEF HoldInv, TieInv, Born, FreshTabs
<1>4. Held'
  <2> SUFFICES ASSUME NEW c \in Conn
               PROVE  /\ sock[c] \in {"open", "closing"} => binding[handle[c]] = c
                      /\ sock[c] \in Attached /\ binding[handle[c]] = c /\ ~draining
                            => life'[handle[c]] = "live"
    BY <1>1 DEF Held
  <2>1. handle[c] \in Conn
    BY DEF TypeOK
  <2> QED
    BY <1>1, <1>2, <2>1 DEF HoldInv, TieInv, Held
<1>5. Tracking'
  BY <1>1, <1>2 DEF HoldInv, TieInv, Tracking
<1>6. DrainCovers'
  <2>1. \A t \in Conn : Alive(t)' <=> Alive(t) /\ t # s
    BY <1>1, <1>2 DEF Alive
  <2>2. \A t \in Conn : Alive(t)' => \E c \in Conn : connections'[c] = t
    BY <1>2, <2>1 DEF HoldInv, TieInv, DrainCovers
  <2>3. \A c \in Conn : connections'[c] # Null => Alive(connections[c])'
    BY <1>2 DEF HoldInv, TieInv, DrainCovers, Alive, TypeOK
  <2>4. \A c, d \in Conn : connections'[c] # Null /\ connections'[c] = connections'[d] => c = d
    BY <1>2 DEF HoldInv, TieInv, DrainCovers
  <2> QED
    BY <2>2, <2>3, <2>4 DEF DrainCovers
<1>7. ParkedIsIntact'
  <2> SUFFICES ASSUME NEW t \in Conn, IsParked(t)'
               PROVE  /\ life'[t] = "live" /\ binding'[t] = Null
                      /\ entries'[t].token # 0
                      /\ \E d \in Conn : /\ connections'[d] = t /\ sock'[d] = "closed"
                                         /\ IpOf[d] = entries'[t].ip
    BY DEF ParkedIsIntact, Parked
  <2>1. /\ life[t] = "live" /\ binding[t] = Null
        /\ entries[t].token # 0
        /\ \E d \in Conn : connections[d] = t /\ sock[d] = "closed" /\ IpOf[d] = entries[t].ip
    BY <1>1 DEF HoldInv, ParkedIsIntact, Parked, IsParked
  <2>2. t # s
    BY <1>1, <2>1
  <2> QED
    BY <1>1, <1>2, <2>1, <2>2
<1>8. TokensInForce'
  BY <1>1, <1>2 DEF HoldInv, TokensInForce, IsParked
<1> QED
  BY <1>3, <1>4, <1>5, <1>6, <1>7, <1>8 DEF HoldInv, TieInv

LEMMA ResumeHold ==
    ASSUME TypeOK, TokenInv, LinkInv, HoldInv, NEW c \in Conn, ResumeSession(c)
    PROVE  HoldInv'
<1>1. PICK s \in Conn :
        /\ ~draining /\ life[s] = "live" /\ s # c /\ processed[s]
        /\ ~processed[c] /\ handle[c] = c /\ binding[c] = c
        /\ sock[c] \in Attached /\ entries[c] = Null /\ connections[c] = c
        /\ delivered' \subseteq delivered \cup {nextToken + 1}
        /\ entries'[s] # Null /\ entries'[s].token = nextToken + 1 /\ entries'[s].ip = Null
        /\ \A t \in Conn \ {s} : entries'[t] = entries[t]
        /\ binding' = [binding EXCEPT ![s] = c]
        /\ handle' = [handle EXCEPT ![c] = s]
        /\ life' = [life EXCEPT ![c] = "destroyed"]
        /\ connections' = Retracked(c, s)
        /\ sock' = IF binding[s] \in Conn \ {c} /\ sock[binding[s]] # "closed"
                   THEN [sock EXCEPT ![binding[s]] = "dead"] ELSE sock
  BY ResumeFacts
<1>2. /\ UNCHANGED <<view, draining>> /\ processed'[c]
      /\ \A d \in Conn \ {c} : processed'[d] = processed[d] /\ rdoQueue'[d] = rdoQueue[d]
  BY ServedTab DEF ResumeSession
\* What moves: the WebSocket c takes the session s, its own session ends, and the former
\* WebSocket of s is dead.
<1>3. /\ binding'[s] = c /\ \A t \in Conn \ {s} : binding'[t] = binding[t]
      /\ handle'[c] = s /\ \A d \in Conn \ {c} : handle'[d] = handle[d]
      /\ life'[c] = "destroyed" /\ \A t \in Conn \ {c} : life'[t] = life[t]
      /\ connections'[c] = s
      /\ \A d \in Conn \ {c} : connections'[d] = IF connections[d] = s THEN Null ELSE connections[d]
  BY <1>1 DEF Retracked, TypeOK
<1>4. binding[s] # Null => handle[binding[s]] = s /\ sock[binding[s]] \in Attached
  BY <1>1 DEF LinkInv, OneTabPerSession, Alive, Attached
<1>5. /\ \A d \in Conn : \/ sock'[d] = sock[d]
                         \/ d = binding[s] /\ sock[d] \in Attached /\ sock'[d] = "dead"
      /\ \A d \in Conn : d = binding[s] /\ d # c => sock'[d] = "dead"
  BY <1>1, <1>4, SessionParkAssumption DEF Attached, TypeOK
<1>6. sock'[c] \in Attached /\ sock'[c] # "none" /\ sock'[c] # "closed"
  BY <1>1, <1>5 DEF Attached
<1>7. \A d \in Conn \ {c} : handle[d] # c
  BY <1>1 DEF HoldInv, TieInv, FreshTabs
<1>8. Born'
  BY <1>3, <1>5, <1>6 DEF HoldInv, TieInv, Born, Attached
<1>9. FreshTabs'
  <2> SUFFICES ASSUME NEW d \in Conn, ~processed'[d]
               PROVE  /\ entries'[d] = Null /\ view'[d] = Null
                      /\ \A e \in Conn \ {d} : handle'[e] # d
                      /\ draining' => rdoQueue'[d] = <<>>
                      /\ sock'[d] \in Attached => handle'[d] = d /\ binding'[d] = d
    BY DEF FreshTabs
  <2>1. d # c /\ ~processed[d] /\ d # s
    BY <1>1, <1>2
  <2>2. /\ entries[d] = Null /\ view[d] = Null
        /\ \A e \in Conn \ {d} : handle[e] # d
        /\ sock[d] \in Attached => handle[d] = d /\ binding[d] = d
    BY <2>1 DEF HoldInv, TieInv, FreshTabs
  <2>3. \A e \in Conn \ {d} : handle'[e] # d
    BY <1>3, <2>1, <2>2
  <2>4. sock'[d] \in Attached => handle'[d] = d /\ binding'[d] = d
    BY <1>3, <1>5, <2>1, <2>2
  <2> QED
    BY <1>1, <1>2, <2>1, <2>2, <2>3, <2>4
<1>10. Held'
  <2> SUFFICES ASSUME NEW d \in Conn
               PROVE  /\ sock'[d] \in {"open", "closing"} => binding'[handle'[d]] = d
                      /\ sock'[d] \in Attached /\ binding'[handle'[d]] = d => life'[handle'[d]] = "live"
    BY DEF Held
  <2>1. CASE d = c
    BY <1>1, <1>3, <2>1
  <2>2. CASE d # c
    <3>1. handle'[d] = handle[d] /\ handle[d] # c /\ handle[d] \in Conn
      BY <1>3, <1>7, <2>2 DEF TypeOK
    <3>2. CASE handle[d] = s
      <4>1. binding'[handle'[d]] # d
        BY <1>3, <2>2, <3>1, <3>2
      <4>2. sock'[d] \notin {"open", "closing"}
        <5>1. sock[d] \in {"open", "closing"} => binding[s] = d
          BY <3>2 DEF HoldInv, TieInv, Held
        <5> QED
          BY <1>5, <2>2, <5>1
      <4> QED
        BY <4>1, <4>2
    <3>3. CASE handle[d] # s
      <4>1. binding'[handle[d]] = binding[handle[d]] /\ life'[handle[d]] = life[handle[d]]
        BY <1>3, <3>1, <3>3
      <4>2. /\ sock'[d] \in {"open", "closing"} => sock[d] \in {"open", "closing"}
            /\ sock'[d] \in Attached => sock[d] \in Attached
        BY <1>5
      <4> QED
        BY <1>1, <3>1, <4>1, <4>2 DEF HoldInv, TieInv, Held
    <3> QED
      BY <3>2, <3>3
  <2> QED
    BY <2>1, <2>2
<1>11. Tracking'
  <2> SUFFICES ASSUME NEW d \in Conn, connections'[d] # Null
               PROVE  /\ handle'[d] = connections'[d]
                      /\ sock'[d] # "none"
                      /\ binding'[connections'[d]] = IF sock'[d] = "closed" THEN Null ELSE d
    BY DEF Tracking
  <2>1. CASE d = c
    BY <1>3, <1>6, <2>1
  <2>2. CASE d # c
    <3>1. connections'[d] = connections[d] /\ connections[d] # s /\ connections[d] \in Conn
      BY <1>3, <2>2 DEF TypeOK
    <3>2. /\ handle[d] = connections[d] /\ sock[d] # "none"
          /\ binding[connections[d]] = IF sock[d] = "closed" THEN Null ELSE d
      BY <3>1, SessionParkAssumption DEF HoldInv, TieInv, Tracking
    <3>3. sock'[d] # "none" /\ (sock'[d] = "closed" <=> sock[d] = "closed")
      BY <1>5, <3>2 DEF Attached
    <3> QED
      BY <1>3, <2>2, <3>1, <3>2, <3>3
  <2> QED
    BY <2>1, <2>2
<1>12. DrainCovers'
  <2>1. \A t \in Conn : Alive(t)' <=> Alive(t) /\ t # c
    BY <1>3 DEF Alive
  <2>2. \A t \in Conn : Alive(t)' => \E d \in Conn : connections'[d] = t
    BY <1>1, <1>3, <2>1 DEF HoldInv, TieInv, DrainCovers
  <2>3. \A d \in Conn \ {c} : connections'[d] # Null =>
          connections'[d] = connections[d] /\ connections[d] # s /\ connections[d] # c
    BY <1>1, <1>3, SessionParkAssumption DEF HoldInv, TieInv, DrainCovers
  <2>4. \A d \in Conn : connections'[d] # Null => Alive(connections[d])'
    <3> SUFFICES ASSUME NEW d \in Conn, connections'[d] # Null
                 PROVE  life'[connections'[d]] \in {"live", "ending"}
      BY DEF Alive
    <3>1. CASE d = c
      BY <1>1, <1>3, <3>1
    <3>2. CASE d # c
      BY <1>3, <2>3, <3>2 DEF HoldInv, TieInv, DrainCovers, Alive, TypeOK
    <3> QED
      BY <3>1, <3>2
  <2>5. \A d, e \in Conn : connections'[d] # Null /\ connections'[d] = connections'[e] => d = e
    BY <1>3, <2>3 DEF HoldInv, TieInv, DrainCovers
  <2> QED
    BY <2>2, <2>4, <2>5 DEF DrainCovers
<1>13. ParkedIsIntact'
  <2> SUFFICES ASSUME NEW t \in Conn, IsParked(t)'
               PROVE  /\ life'[t] = "live" /\ binding'[t] = Null
                      /\ entries'[t].token # 0
                      /\ \E d \in Conn : /\ connections'[d] = t /\ sock'[d] = "closed"
                                         /\ IpOf[d] = entries'[t].ip
    BY DEF ParkedIsIntact, Parked
  <2>1. t # s
    BY <1>1 DEF IsParked
  <2>2. IsParked(t) /\ entries'[t] = entries[t] /\ t # c
    BY <1>1, <2>1 DEF IsParked
  <2>3. life[t] = "live" /\ binding[t] = Null /\ entries[t].token # 0
    BY <2>2 DEF HoldInv, ParkedIsIntact, Parked
  <2>4. PICK d \in Conn : connections[d] = t /\ sock[d] = "closed" /\ IpOf[d] = entries[t].ip
    BY <2>2 DEF HoldInv, ParkedIsIntact, Parked
  <2>5. d # c /\ sock'[d] = "closed"
    BY <1>1, <1>5, <2>4 DEF Attached
  <2>6. connections'[d] = t
    BY <1>3, <2>1, <2>4, <2>5
  <2> QED
    BY <1>3, <2>1, <2>2, <2>3, <2>4, <2>5, <2>6
<1>14. TokensInForce'
  <2> SUFFICES ASSUME NEW t \in Conn, entries'[t] # Null, entries'[t].token \in delivered'
               PROVE  life'[t] = "live" /\ (binding'[t] = Null => IsParked(t)')
    BY DEF TokensInForce
  <2>1. CASE t = s
    BY <1>1, <1>3, <2>1, SessionParkAssumption
  <2>2. CASE t # s
    <3>1. entries'[t] = entries[t] /\ t # c /\ (IsParked(t) => IsParked(t)')
      BY <1>1, <2>2 DEF IsParked
    <3>2. entries[t].token \in delivered
      <4>1. entries[t].token \in 1..nextToken /\ nextToken \in Nat
        BY <3>1 DEF TokenInv, TypeOK
      <4> QED
        BY <1>1, <3>1, <4>1
    <3> QED
      BY <1>1, <1>3, <2>2, <3>1, <3>2 DEF HoldInv, TokensInForce
  <2> QED
    BY <2>1, <2>2
<1> QED
  BY <1>8, <1>9, <1>10, <1>11, <1>12, <1>13, <1>14 DEF HoldInv, TieInv

\* The drain ends every tracked session, that is every session there is.
LEMMA DrainHold ==
    ASSUME TypeOK, LinkInv, HoldInv, Drain, Settled
    PROVE  HoldInv'
<1> DEFINE tracked == {connections[c] : c \in Conn} \ {Null}
           parked  == {s \in tracked : binding[s] = Null}
<1>1. /\ draining'
      /\ sock' = CloseHandshake({c \in Conn : connections[c] # Null})
      /\ entries' = EndEntries(parked) /\ life' = StartTeardown(tracked)
      /\ UNCHANGED <<rdoQueue, handle, processed, view, binding, connections, running>>
  BY DEF Drain
<1>2. \A c \in Conn : \/ sock'[c] = sock[c]
                      \/ sock[c] = "open" /\ sock'[c] = "closing"
  BY <1>1 DEF CloseHandshake, TypeOK
<1>3. \A s \in Conn : \/ life'[s] = life[s]
                      \/ life[s] = "live" /\ life'[s] = "ending"
  BY <1>1 DEF StartTeardown, TypeOK
<1>4. \A s \in Conn : entries'[s] = IF s \in parked THEN Null ELSE entries[s]
  BY <1>1 DEF EndEntries
<1>5. Born'
  BY <1>2, <1>3 DEF HoldInv, TieInv, Born
<1>6. FreshTabs'
  <2>1. \A c \in Conn : ~processed[c] => rdoQueue[c] = <<>>
    BY DEF Settled, Runnable, LinkInv
  <2> QED
    BY <1>1, <1>2, <1>4, <2>1 DEF HoldInv, TieInv, FreshTabs, Attached
<1>7. Held'
  BY <1>1, <1>2 DEF HoldInv, TieInv, Held
<1>8. Tracking'
  BY <1>1, <1>2 DEF HoldInv, TieInv, Tracking
<1>9. DrainCovers'
  <2>1. \A s \in Conn : Alive(s)' <=> Alive(s)
    BY <1>3 DEF Alive
  <2> QED
    BY <1>1, <2>1 DEF HoldInv, TieInv, DrainCovers, TypeOK
<1>10. \A s \in Conn : ~IsParked(s)'
  <2> SUFFICES ASSUME NEW s \in Conn, IsParked(s)'
               PROVE  FALSE
    OBVIOUS
  <2>1. IsParked(s) /\ s \notin parked
    BY <1>4 DEF IsParked
  <2>2. binding[s] = Null /\ \E c \in Conn : connections[c] = s
    BY <2>1 DEF HoldInv, ParkedIsIntact, Parked
  <2> QED
    BY <2>1, <2>2, SessionParkAssumption
<1>11. ParkedIsIntact' /\ TokensInForce'
  BY <1>1, <1>10 DEF ParkedIsIntact, Parked, TokensInForce
<1> QED
  BY <1>5, <1>6, <1>7, <1>8, <1>9, <1>11 DEF HoldInv, TieInv

LEMMA HoldStep == TypeOK /\ TokenInv /\ LinkInv /\ HoldInv /\ [Next]_vars => HoldInv'
<1> SUFFICES ASSUME TypeOK, TokenInv, LinkInv, HoldInv, [Next]_vars
             PROVE  HoldInv'
  OBVIOUS
<1>1. ASSUME NEW c \in Conn,
             \/ Refuse(c) \/ ConnectDirectory(c) \/ OtherRequest(c)
             \/ LoginRefused(c) \/ LoginServerFull(c) \/ SelectCompany(c) \/ SwitchCompany(c)
      PROVE  HoldInv'
  <2>1. PICK type : Dequeue(c, type)
    BY Zenon, <1>1 DEF Refuse, ConnectDirectory, OtherRequest, LoginRefused, LoginServerFull,
                LoginPreamble, SelectCompany, SwitchCompany, Take
  <2>2. /\ UNCHANGED <<life, handle, binding, connections, draining, delivered>>
        /\ entries' = entries \/ entries' = EndEntries({handle[c]})
        /\ sock' = sock \/ sock' = CloseHandshake({c})
        /\ view' = view \/ view' = [view EXCEPT ![handle[c]] = Null]
    BY Zenon, <1>1 DEF Refuse, ConnectDirectory, OtherRequest, LoginRefused, LoginServerFull,
                LoginPreamble, SelectCompany, SwitchCompany, Take, sessionVars, gateVars, tokenVars
  <2>3. EntriesGo
    BY <2>2 DEF EntriesGo, EndEntries
  <2>4. Steady
    <3>1. \A d \in Conn : sock'[d] = sock[d] \/ (sock[d] = "open" /\ sock'[d] = "closing")
      BY <2>2 DEF CloseHandshake, TypeOK
    <3>2. \A d \in Conn : view[d] = Null => view'[d] = Null
      BY <2>2 DEF TypeOK
    <3>3. \A d \in Conn : ~processed'[d] => ~processed[d] /\ rdoQueue'[d] = rdoQueue[d]
      BY <2>1, ServedTab
    <3>4. \A d \in Conn : entries[d] = Null => entries'[d] = Null
      BY <2>3 DEF EntriesGo
    <3> QED
      BY <2>2, <3>1, <3>2, <3>3, <3>4 DEF Steady
  <2> QED
    BY <2>3, <2>4, SteadyHold
<1>2. ASSUME NEW c \in Conn, LoginEvict(c)
      PROVE  HoldInv'
  <2> DEFINE own == OwnParked(handle[c], Head(rdoQueue[c]).user)
  <2>1. /\ Dequeue(c, "LOGIN_WORLD")
        /\ entries' = EndEntries(own \cup {handle[c]}) /\ life' = StartTeardown(own)
        /\ UNCHANGED <<sock, handle, binding, connections, draining, delivered, view>>
    BY Zenon, <1>2 DEF LoginEvict, LoginPreamble, Take, tokenVars
  <2>2. \A s \in own : s \in Conn /\ binding[s] = Null
    BY DEF OwnParked, HoldInv, ParkedIsIntact, Parked
  <2>3. EntriesGo
    BY <2>1 DEF EntriesGo, EndEntries, StartTeardown
  <2>4. Steady
    BY <2>1, <2>2, <2>3, ServedTab DEF Steady, EntriesGo, StartTeardown
  <2> QED
    BY <2>3, <2>4, SteadyHold
<1>3. ASSUME NEW c \in Conn,
             \/ LoginCleanup(c) \/ LoginUnknownWorld(c) \/ LoginWorld(c) \/ AccountStatus(c)
             \/ LogonOk(c) \/ LogonFail(c) \/ OtherDone(c) \/ LogoutDone(c)
             \/ SelectOk(c) \/ SwitchOk(c) \/ CompanyFails(c)
      PROVE  HoldInv'
  <2>1. running[c] # Idle
    BY <1>3 DEF LoginCleanup, LoginUnknownWorld, LoginWorld, LoginGoesOn, EvictionOver, AccountStatus,
                LogonOk, LogonFail, OtherDone, LogoutDone, SelectOk, SwitchOk, CompanyFails, Idle
  <2>2. /\ UNCHANGED <<handle, binding, life, processed, rdoQueue, connections, draining>>
        /\ sock' = sock \/ sock' = CloseHandshake({c})
    BY Zenon, <1>3 DEF LoginCleanup, LoginUnknownWorld, LoginWorld, AccountStatus, LogonOk, LogonFail,
                OtherDone, LogoutDone, SelectOk, SwitchOk, CompanyFails, HandlerVars, sessionVars,
                gateVars
  <2>3. \A d \in Conn \ {handle[c]} : view'[d] = view[d]
    BY <1>3 DEF LoginCleanup, LoginUnknownWorld, LoginWorld, AccountStatus, LogonOk, LogonFail,
                OtherDone, LogoutDone, SelectOk, SwitchOk, CompanyFails, sessionVars, TypeOK
  <2>4. UNCHANGED <<entries, delivered>> \/ WorldEntered(handle[c], c)
    BY Zenon, <1>3 DEF LoginCleanup, LoginUnknownWorld, LoginWorld, AccountStatus, LogonOk, LogonFail,
                OtherDone, LogoutDone, SelectOk, SwitchOk, CompanyFails, sessionVars, tokenVars
  <2>5. \A d \in Conn \ {handle[c]} : entries'[d] = entries[d]
    BY <2>4, HandlerFields DEF WorldEntered, TypeOK
  <2>6. \A d \in Conn : ~processed[d] => handle[c] # d
    BY <2>1, WorksForHeard DEF HoldInv
  <2>7. Steady
    BY <2>2, <2>3, <2>5, <2>6 DEF Steady, CloseHandshake, TypeOK
  <2>8. CASE UNCHANGED <<entries, delivered>>
    BY <2>2, <2>7, <2>8, SteadyHold DEF EntriesGo
  <2>9. CASE WorldEntered(handle[c], c)
    BY <2>2, <2>7, <2>9, WorldEnteredHold
  <2> QED
    BY <2>4, <2>8, <2>9
<1>4. ASSUME NEW c \in Conn,
             \/ \E m \in Message : Receive(c, m)
             \/ CloseByGuard(c) \/ WorldLost(c) \/ WorldBack(c)
      PROVE  HoldInv'
  <2>1. UNCHANGED <<handle, binding, life, processed, connections, draining, delivered, entries, view>>
    BY Zenon, <1>4 DEF Receive, CloseByGuard, WorldLost, WorldBack, vars, sockVars, sessionVars,
                       gateVars, tokenVars
  <2>2. /\ \A d \in Conn : \/ sock'[d] = sock[d]
                           \/ sock[d] \in {"open", "closing"} /\ sock'[d] = "dead"
        /\ \A d \in Conn : draining /\ rdoQueue[d] = <<>> => rdoQueue'[d] = <<>>
    BY <1>4 DEF Receive, CloseByGuard, WorldLost, WorldBack, vars, sockVars, sessionVars, gateVars,
                TypeOK
  <2> QED
    BY <2>1, <2>2, SteadyHold DEF Steady, EntriesGo
<1>5. ASSUME NEW s \in Conn, Expire(s)
      PROVE  HoldInv'
  <2>1. /\ IsParked(s) /\ entries' = EndEntries({s}) /\ life' = StartTeardown({s})
        /\ UNCHANGED <<sock, rdoQueue, handle, processed, binding, connections, draining, delivered,
                       view>>
    BY <1>5 DEF Expire, EndParked, sockVars, tokenVars
  <2>2. binding[s] = Null
    BY <2>1 DEF HoldInv, ParkedIsIntact, Parked
  <2> QED
    BY <2>1, <2>2, SteadyHold DEF Steady, EntriesGo, EndEntries, StartTeardown
<1>6. ASSUME NEW c \in Conn, Settled, CloseSuperseded(c) \/ ClosePark(c) \/ CloseEnd(c)
      PROVE  HoldInv'
  <2>1. ~processed[c] => rdoQueue[c] = <<>>
    BY <1>6 DEF Settled, Runnable, LinkInv
  <2> QED
    BY <1>6, <2>1, CloseSupersededHold, CloseParkHold, CloseEndHold
<1>7. ASSUME Settled, Drain
      PROVE  HoldInv'
  BY <1>7, DrainHold
<1>8. ASSUME NEW c \in Conn, Accept(c) \/ ResumeSession(c) \/ TeardownDone(c)
      PROVE  HoldInv'
  BY <1>8, AcceptHold, ResumeHold, TeardownDoneHold
<1>9. CASE UNCHANGED vars
  BY <1>9, SteadyHold DEF vars, sockVars, sessionVars, gateVars, tokenVars, Steady, EntriesGo
<1> QED
  BY Zenon, Steps, <1>1, <1>2, <1>3, <1>4, <1>5, <1>6, <1>7, <1>8, <1>9

LEMMA HoldInit == Init => HoldInv
BY SessionParkAssumption
DEF Init, HoldInv, TieInv, Born, FreshTabs, Held, Tracking, DrainCovers, ParkedIsIntact, Parked,
    IsParked, TokensInForce, Alive, Attached

\* What a step of a behaviour of the gateway starts from.
ParkInv == TypeOK /\ TokenInv /\ LinkInv /\ HoldInv

LEMMA ParkInvHolds == Spec => []ParkInv
<1>1. Init => TokenInv /\ LinkInv
  BY DEF Init, TokenInv, TokensSingleUse, LinkInv, OneTabPerSession, Alive
<1> QED
  BY <1>1, HoldInit, HoldStep, TokenStep, LinkStep, TypeCorrect, PTL DEF Spec, ParkInv

\* A parked session is alive, without a tab, reachable with its token and tracked under the
\* closed WebSocket whose address keeps its slot, whatever closes, late messages, takeovers,
\* timers and logins come in between (ws.on('close'), SessionParkRegistry.park).
THEOREM ParkedIntact == Spec => []ParkedIsIntact
<1>1. ParkInv => ParkedIsIntact
  BY DEF ParkInv, HoldInv
<1> QED
  BY <1>1, ParkInvHolds, PTL

\* Every session that is not destroyed is tracked for the shutdown under exactly one WebSocket,
\* wherever resumes moved it (ConnectionDrain).
THEOREM EverySessionTracked == Spec => []DrainCovers
<1>1. ParkInv => DrainCovers
  BY DEF ParkInv, HoldInv, TieInv
<1> QED
  BY <1>1, ParkInvHolds, PTL

\* No tab holds a token that would resume a session being torn down: an entry registered by a
\* request that outlived its WebSocket carries a token nobody received (server.ts, the end of a
\* company request).
THEOREM DeadNotResumed == Spec => []NoResumeOfTheDead
<1>1. ParkInv => NoResumeOfTheDead
  BY DEF ParkInv, HoldInv, TokensInForce, NoResumeOfTheDead
<1> QED
  BY <1>1, ParkInvHolds, PTL

----------------------------------------------------------------------------
(* Logins *)

\* What has no session any more has no view, and a login past its evictions waits for none.
EvictInv ==
    /\ \A s \in Conn : life[s] = "destroyed" => view[s] = Null
    /\ \A c \in Conn : running[c].at \in {"cleaning", "connecting", "logon"} =>
        \A s \in running[c].wait : life[s] = "destroyed"

\* A destroyed session stays so.
LEMMA DestroyedForGood ==
    ASSUME TypeOK, LinkInv, [Next]_vars
    PROVE  \A s \in Conn : life[s] = "destroyed" => life'[s] = "destroyed"
<1> DEFINE Ends == \A s \in Conn : life[s] = "destroyed" => life'[s] = "destroyed"
<1>1. ASSUME NEW c \in Conn, Accept(c)
      PROVE  Ends
  BY <1>1 DEF Accept, LinkInv, TypeOK
<1>2. ASSUME NEW t \in Conn, life' = [life EXCEPT ![t] = "destroyed"]
      PROVE  Ends
  BY <1>2 DEF TypeOK
<1>3. ASSUME NEW S, life' = StartTeardown(S)
      PROVE  Ends
  BY <1>3 DEF StartTeardown
<1>4. ASSUME UNCHANGED life
      PROVE  Ends
  BY <1>4
<1>5. \/ \E c \in Conn : Accept(c)
      \/ \E t \in Conn : life' = [life EXCEPT ![t] = "destroyed"]
      \/ \E S : life' = StartTeardown(S)
      \/ UNCHANGED life
  BY Zenon, Steps
  DEF Refuse, ConnectDirectory, OtherRequest, LoginRefused, LoginServerFull, LoginEvict,
      SelectCompany, SwitchCompany, ResumeSession, LoginCleanup, LoginUnknownWorld, LoginWorld,
      AccountStatus, LogonOk, LogonFail, OtherDone, LogoutDone, SelectOk, SwitchOk, CompanyFails,
      Receive, CloseByGuard, CloseSuperseded, ClosePark, CloseEnd, Closing, Expire, EndParked,
      TeardownDone, WorldLost, WorldBack, Drain, HandlerVars, sessionVars, vars
<1> QED
  BY <1>1, <1>2, <1>3, <1>4, <1>5

LEMMA EvictStep == TypeOK /\ TokenInv /\ LinkInv /\ HoldInv /\ EvictInv /\ [Next]_vars => EvictInv'
<1> SUFFICES ASSUME TypeOK, TokenInv, LinkInv, HoldInv, EvictInv, [Next]_vars
             PROVE  EvictInv'
  OBVIOUS
<1> DEFINE Past == {"cleaning", "connecting", "logon"}
           Gone == \A s \in Conn : life'[s] = "destroyed" => view'[s] = Null
           Done == \A c \in Conn : running'[c].at \in Past =>
                      /\ running[c].at \in Past \/ EvictionOver(c)
                      /\ running'[c].wait = running[c].wait
<1>1. Gone /\ Done => EvictInv'
  BY DestroyedForGood DEF EvictInv, EvictionOver, TypeOK, Handler
<1>2. ASSUME NEW c \in Conn,
             \/ Refuse(c) \/ ConnectDirectory(c) \/ OtherRequest(c)
             \/ LoginRefused(c) \/ LoginServerFull(c) \/ LoginEvict(c)
             \/ SelectCompany(c) \/ SwitchCompany(c)
      PROVE  EvictInv'
  <2>1. /\ \E S : life' = StartTeardown(S) \/ life' = life
        /\ view' = view \/ view' = [view EXCEPT ![handle[c]] = Null]
    BY Zenon, <1>2 DEF Refuse, ConnectDirectory, OtherRequest, LoginRefused, LoginServerFull,
                LoginEvict, SelectCompany, SwitchCompany, sessionVars
  <2>2. Gone
    BY <2>1 DEF EvictInv, StartTeardown, TypeOK
  <2>3. Done
    <3>1. \/ UNCHANGED running
          \/ \E user, wait : \/ Suspend(c, "other", user, wait) \/ Suspend(c, "logout", user, wait)
                             \/ Suspend(c, "evicting", user, wait) \/ Suspend(c, "select", user, wait)
                             \/ Suspend(c, "switch", user, wait)
      BY Zenon, <1>2 DEF Refuse, ConnectDirectory, OtherRequest, LoginRefused,
                LoginServerFull, LoginEvict, SelectCompany, SwitchCompany
    <3>2. \A d \in Conn : running'[d] = running[d] \/ running'[d].at \notin Past
      BY <3>1 DEF Suspend, At, TypeOK
    <3> QED
      BY <3>2
  <2> QED
    BY <1>1, <2>2, <2>3
<1>3. ASSUME NEW c \in Conn,
             \/ LoginCleanup(c) \/ LoginUnknownWorld(c) \/ LoginWorld(c) \/ AccountStatus(c)
             \/ LogonOk(c) \/ LogonFail(c) \/ OtherDone(c) \/ LogoutDone(c)
             \/ SelectOk(c) \/ SwitchOk(c) \/ CompanyFails(c)
      PROVE  EvictInv'
  <2>1. /\ UNCHANGED life
        /\ \A d \in Conn \ {handle[c]} : view'[d] = view[d]
        /\ \/ view'[handle[c]] \in {Null, view[handle[c]]}
           \/ life[handle[c]] # "destroyed"
    BY <1>3, HandlerFields
    DEF LoginCleanup, LoginUnknownWorld, LoginWorld, ViewLeft, AccountStatus, LogonOk, LogonFail,
        OtherDone, LogoutDone, SelectOk, SwitchOk, CompanyFails, HandlerVars, sessionVars, TypeOK
  <2>2. Gone
    BY <2>1 DEF EvictInv
  <2>3. Done
    <3>1. \A d \in Conn \ {c} : running'[d] = running[d]
      BY <1>3 DEF LoginCleanup, LoginUnknownWorld, LoginWorld, AccountStatus, LogonOk, LogonFail,
                  OtherDone, LogoutDone, SelectOk, SwitchOk, CompanyFails, Suspend, Return, TypeOK
    <3>2. ASSUME LoginCleanup(c) \/ LoginWorld(c) \/ AccountStatus(c)
          PROVE  /\ running[c].at \in Past \/ EvictionOver(c)
                 /\ running'[c].wait = running[c].wait
      BY <3>2 DEF LoginCleanup, LoginWorld, LoginGoesOn, AccountStatus, Suspend, At, TypeOK
    <3>3. ASSUME \/ LoginUnknownWorld(c) \/ LogonOk(c) \/ LogonFail(c) \/ OtherDone(c)
                 \/ LogoutDone(c) \/ SelectOk(c) \/ SwitchOk(c) \/ CompanyFails(c)
          PROVE  running'[c].at \notin Past
      BY <3>3 DEF LoginUnknownWorld, LogonOk, LogonFail, OtherDone, LogoutDone, SelectOk, SwitchOk,
                  CompanyFails, Return, Idle, TypeOK
    <3> QED
      BY <1>3, <3>1, <3>2, <3>3
  <2> QED
    BY <1>1, <2>2, <2>3
<1>4. ASSUME NEW c \in Conn, ResumeSession(c)
      PROVE  EvictInv'
  <2>1. /\ life' = [life EXCEPT ![c] = "destroyed"] /\ view[c] = Null
        /\ UNCHANGED <<running, view>>
    BY <1>4, ResumeFacts DEF ResumeSession
  <2> QED
    BY <1>1, <2>1 DEF EvictInv, TypeOK
<1>5. ASSUME NEW s \in Conn, TeardownDone(s)
      PROVE  EvictInv'
  BY <1>1, <1>5 DEF TeardownDone, sockVars, EvictInv, TypeOK
<1>6. ASSUME NEW c \in Conn, Accept(c)
      PROVE  EvictInv'
  BY <1>1, <1>6 DEF Accept, EvictInv, TypeOK
<1>7. ASSUME /\ UNCHANGED <<running, view>>
             /\ life' = life \/ \E S : life' = StartTeardown(S)
      PROVE  EvictInv'
  BY <1>1, <1>7 DEF EvictInv, StartTeardown
<1>8. ASSUME \/ \E c \in Conn :
                  \/ CloseSuperseded(c) \/ ClosePark(c) \/ CloseEnd(c) \/ CloseByGuard(c)
                  \/ \E m \in Message : Receive(c, m)
                  \/ Expire(c) \/ WorldLost(c) \/ WorldBack(c)
             \/ Drain
             \/ UNCHANGED vars
      PROVE  EvictInv'
  BY Zenon, <1>7, <1>8
  DEF CloseSuperseded, ClosePark, CloseEnd, Closing, CloseByGuard, Receive, Expire, EndParked,
      WorldLost, WorldBack, Drain, vars, sockVars, sessionVars
<1> QED
  BY Zenon, Steps, <1>2, <1>3, <1>4, <1>5, <1>6, <1>8

\* AccountStatus only goes out when every session the login evicted is destroyed and has no
\* view, although other logins, timers and the shutdown end the same sessions, and requests of
\* the evicted player are answered meanwhile (handleLoginWorld).
THEOREM EvictedGone == Spec => []EvictedAreGone
<1>1. Init => EvictInv
  BY DEF Init, EvictInv, Idle
<1>2. TypeOK /\ EvictInv => EvictedAreGone
  BY DEF EvictInv, EvictedAreGone, TypeOK, Handler
<1>3. ParkInv => TypeOK /\ TokenInv /\ LinkInv /\ HoldInv
  BY DEF ParkInv
<1> QED
  BY <1>1, <1>2, <1>3, EvictStep, ParkInvHolds, PTL DEF Spec

----------------------------------------------------------------------------
(* The lease *)

\* A session is running, held and keyed as long as it is live.
LEMMA LeaseView ==
    ASSUME TypeOK, NEW s \in Conn
    PROVE  /\ life[s] = "unborn" => LeaseStatus[s] = "unborn"
           /\ life[s] = "live" => /\ LeaseStatus[s] = "running" /\ LeaseHolder[s] = binding[s]
                                  /\ LeaseKey[s] = IF entries[s] = Null THEN 0 ELSE entries[s].token
           /\ life[s] \in {"ending", "destroyed"} => LeaseStatus[s] = "over"
           /\ life[s] # "live" => LeaseHolder[s] = Null /\ LeaseKey[s] = 0
BY DEF TypeOK, LeaseStatus, LeaseHolder, LeaseKey

\* The three are functions on the sessions: equal when equal for each of them.
LEMMA LeaseFunctions ==
    /\ LeaseStatus = [s \in Conn |-> LeaseStatus[s]] /\ LeaseStatus' = [s \in Conn |-> LeaseStatus'[s]]
    /\ LeaseHolder = [s \in Conn |-> LeaseHolder[s]] /\ LeaseHolder' = [s \in Conn |-> LeaseHolder'[s]]
    /\ LeaseKey = [s \in Conn |-> LeaseKey[s]] /\ LeaseKey' = [s \in Conn |-> LeaseKey'[s]]
BY DEF LeaseStatus, LeaseHolder, LeaseKey

\* A session whose part in the lease is over or has not begun may change otherwise.
LeaseSame(s) ==
    /\ life'[s] = "unborn" <=> life[s] = "unborn"
    /\ life'[s] = "live" <=> life[s] = "live"
    /\ life[s] = "live" => binding'[s] = binding[s] /\ entries'[s] = entries[s]

LEMMA SameLease ==
    ASSUME NEW s \in Conn, LeaseSame(s)
    PROVE  /\ LeaseStatus'[s] = LeaseStatus[s] /\ LeaseHolder'[s] = LeaseHolder[s]
           /\ LeaseKey'[s] = LeaseKey[s]
BY DEF LeaseSame, LeaseStatus, LeaseHolder, LeaseKey

LEMMA LeaseStutters ==
    ASSUME \A s \in Conn : LeaseSame(s), UNCHANGED nextToken
    PROVE  UNCHANGED Lease!leaseVars
<1>1. \A s \in Conn : /\ LeaseStatus'[s] = LeaseStatus[s] /\ LeaseHolder'[s] = LeaseHolder[s]
                      /\ LeaseKey'[s] = LeaseKey[s]
  BY SameLease
<1> QED
  BY <1>1, LeaseFunctions DEF Lease!leaseVars

\* Sessions that begin to end, and entries that go.
LEMMA LeaseFinishes ==
    ASSUME TypeOK, TypeOK', NEW E \in SUBSET Conn, NEW F \in SUBSET Conn, UNCHANGED nextToken,
           \A s \in E : life[s] = "live" /\ life'[s] = "ending",
           \A s \in Conn \ E :
              /\ life'[s] = life[s]
              /\ life[s] = "live" => /\ binding'[s] = binding[s]
                                     /\ entries'[s] = IF s \in F THEN Null ELSE entries[s]
    PROVE  Lease!Finish(E, F)
<1>1. \A s \in Conn : /\ LeaseStatus'[s] = IF s \in E THEN "over" ELSE LeaseStatus[s]
                      /\ LeaseHolder'[s] = IF s \in E THEN Null ELSE LeaseHolder[s]
                      /\ LeaseKey'[s] = IF s \in E \cup F THEN 0 ELSE LeaseKey[s]
  BY DEF LeaseStatus, LeaseHolder, LeaseKey
<1>2. \A s \in E : LeaseStatus[s] = "running"
  BY LeaseView
<1> QED
  BY <1>1, <1>2, LeaseFunctions DEF Lease!Finish, Lease!Running

\* A company request gives its session a new token, or makes one nobody needs any more.
LEMMA LeaseRekeys ==
    ASSUME TypeOK, NEW s \in Conn, NEW c \in Conn, WorldEntered(s, c), UNCHANGED <<life, binding>>
    PROVE  Lease!Rekey(s) \/ Lease!Burn \/ UNCHANGED Lease!leaseVars
<1>1. CASE loginUser[s] # Null /\ phase'[s] = "WORLD_CONNECTED"
  <2>1. /\ \A t \in Conn \ {s} : entries'[t] = entries[t]
        /\ entries'[s] # Null /\ entries'[s].token = nextToken + 1
        /\ nextToken' = nextToken + 1
    BY <1>1, WorldEnteredEntry
  <2>2. \A t \in Conn \ {s} : LeaseKey'[t] = LeaseKey[t]
    BY <2>1, SameLease DEF LeaseSame
  <2>3. UNCHANGED <<LeaseStatus, LeaseHolder>>
    BY DEF LeaseStatus, LeaseHolder
  <2>4. CASE life[s] = "live"
    <3>1. LeaseKey'[s] = nextToken + 1
      BY <2>1, <2>4 DEF LeaseKey
    <3>2. LeaseKey' = [LeaseKey EXCEPT ![s] = nextToken + 1]
      BY <2>2, <3>1, LeaseFunctions
    <3> QED
      BY <2>1, <2>3, <2>4, <3>2, LeaseView DEF Lease!Rekey, Lease!Running
  <2>5. CASE life[s] # "live"
    <3>1. LeaseKey'[s] = LeaseKey[s]
      BY <2>5 DEF LeaseKey
    <3>2. LeaseKey' = LeaseKey
      BY <2>2, <3>1, LeaseFunctions
    <3> QED
      BY <2>1, <2>3, <3>2 DEF Lease!Burn
  <2> QED
    BY <2>4, <2>5
<1>2. CASE ~(loginUser[s] # Null /\ phase'[s] = "WORLD_CONNECTED")
  BY <1>2, LeaseStutters DEF WorldEntered, LeaseSame, tokenVars
<1> QED
  BY <1>1, <1>2

LEMMA LeaseOpens ==
    ASSUME TypeOK, LinkInv, HoldInv, NEW c \in Conn, Accept(c)
    PROVE  Lease!Open(c)
<1>1. /\ life[c] = "unborn" /\ entries[c] = Null /\ life' = [life EXCEPT ![c] = "live"]
      /\ binding' = [binding EXCEPT ![c] = c] /\ UNCHANGED <<entries, nextToken>>
  BY DEF Accept, tokenVars, LinkInv, HoldInv, TieInv, FreshTabs
<1>2. \A t \in Conn \ {c} : /\ LeaseStatus'[t] = LeaseStatus[t] /\ LeaseHolder'[t] = LeaseHolder[t]
                            /\ LeaseKey'[t] = LeaseKey[t]
  <2>1. \A t \in Conn \ {c} : LeaseSame(t)
    BY <1>1 DEF LeaseSame, TypeOK
  <2> QED
    BY <2>1, SameLease
<1>3. /\ LeaseStatus[c] = "unborn" /\ LeaseStatus'[c] = "running"
      /\ LeaseHolder'[c] = c /\ LeaseKey[c] = 0 /\ LeaseKey'[c] = 0
  BY <1>1 DEF TypeOK, LeaseStatus, LeaseHolder, LeaseKey
<1>4. /\ LeaseStatus' = [LeaseStatus EXCEPT ![c] = "running"]
      /\ LeaseHolder' = [LeaseHolder EXCEPT ![c] = c]
      /\ LeaseKey' = LeaseKey
  BY <1>2, <1>3, LeaseFunctions
<1> QED
  BY <1>1, <1>3, <1>4 DEF Lease!Open

LEMMA LeaseLeft ==
    ASSUME TypeOK, TokenInv, LinkInv, HoldInv, Settled, NEW c \in Conn, ClosePark(c)
    PROVE  Lease!Leave(handle[c])
<1> DEFINE s == handle[c]
<1>1. /\ s \in Conn /\ binding[s] = c /\ binding' = [binding EXCEPT ![s] = Null]
      /\ entries[s] # Null /\ UNCHANGED <<life, nextToken>>
      /\ entries' = [entries EXCEPT ![s].ip = IpOf[c]]
  BY DEF ClosePark, Closing, MayPark, Superseded, Detached, TypeOK, tokenVars
<1>2. life[s] = "live"
  <2>1. ~processed[c] => rdoQueue[c] = <<>>
    BY DEF Settled, Runnable, LinkInv
  <2> QED
    BY <2>1, CloseParkHold
<1>3. entries'[s] # Null /\ entries'[s].token = entries[s].token
  <2> DEFINE e == [entries[s] EXCEPT !.ip = IpOf[c]]
  <2>1. entries[s] \in ResumeEntry /\ IpOf[c] \in Ip
    BY <1>1, SessionParkAssumption DEF TypeOK
  <2>2. e \in ResumeEntry /\ e.token = entries[s].token
    BY <2>1 DEF ResumeEntry
  <2>3. entries' = [entries EXCEPT ![s] = e]
    BY <1>1
  <2> HIDE DEF e
  <2> QED
    BY <1>1, <2>2, <2>3, ResumeEntryAssumption DEF TypeOK
<1>4. \A t \in Conn \ {s} : LeaseSame(t)
  BY <1>1 DEF LeaseSame, TypeOK
<1>5. \A t \in Conn \ {s} : LeaseHolder'[t] = LeaseHolder[t] /\ LeaseKey'[t] = LeaseKey[t]
  BY <1>4, SameLease
<1>6. /\ LeaseStatus[s] = "running" /\ LeaseHolder[s] = c /\ LeaseKey[s] = entries[s].token
      /\ LeaseHolder'[s] = Null /\ LeaseKey'[s] = LeaseKey[s]
  BY <1>1, <1>2, <1>3 DEF LeaseStatus, LeaseHolder, LeaseKey, TypeOK
<1>7. entries[s].token # 0 /\ c # Null
  BY <1>1, SessionParkAssumption DEF TokenInv
<1>8. /\ LeaseStatus' = LeaseStatus
      /\ LeaseHolder' = [LeaseHolder EXCEPT ![s] = Null]
      /\ LeaseKey' = LeaseKey
  <2>1. LeaseStatus' = LeaseStatus
    BY <1>1 DEF LeaseStatus
  <2> QED
    BY <1>5, <1>6, <2>1, LeaseFunctions
<1> QED
  BY <1>1, <1>6, <1>7, <1>8 DEF Lease!Leave, Lease!Running

LEMMA LeaseTakenOver ==
    ASSUME TypeOK, TokenInv, LinkInv, HoldInv, NEW c \in Conn, ResumeSession(c)
    PROVE  \E s \in Conn : Lease!TakeOver(s, c)
<1>1. PICK s \in Conn :
        /\ life[s] = "live" /\ s # c
        /\ entries[s] # Null /\ entries[s].token \in 1..nextToken
        /\ binding[c] = c /\ life[c] = "live" /\ entries[c] = Null
        /\ nextToken' = nextToken + 1
        /\ entries'[s] # Null /\ entries'[s].token = nextToken + 1
        /\ \A t \in Conn \ {s} : entries'[t] = entries[t]
        /\ binding' = [binding EXCEPT ![s] = c]
        /\ life' = [life EXCEPT ![c] = "destroyed"]
  BY ResumeFacts
<1>2. \A t \in Conn \ {s, c} : LeaseSame(t)
  BY <1>1 DEF LeaseSame, TypeOK
<1>3. \A t \in Conn \ {s, c} : /\ LeaseStatus'[t] = LeaseStatus[t] /\ LeaseHolder'[t] = LeaseHolder[t]
                               /\ LeaseKey'[t] = LeaseKey[t]
  BY <1>2, SameLease
<1>4. /\ LeaseStatus[s] = "running" /\ LeaseStatus[c] = "running" /\ LeaseHolder[c] = c
      /\ LeaseKey[s] # 0 /\ LeaseKey[c] = 0
  BY <1>1 DEF LeaseStatus, LeaseHolder, LeaseKey
<1>5. /\ LeaseStatus'[s] = "running" /\ LeaseHolder'[s] = c /\ LeaseKey'[s] = nextToken + 1
      /\ LeaseStatus'[c] = "over" /\ LeaseHolder'[c] = Null /\ LeaseKey'[c] = 0
  BY <1>1 DEF LeaseStatus, LeaseHolder, LeaseKey, TypeOK
<1>6. LeaseKey' = [LeaseKey EXCEPT ![s] = nextToken + 1]
  BY <1>1, <1>3, <1>4, <1>5, LeaseFunctions
<1>7. LeaseHolder' = [LeaseHolder EXCEPT ![s] = c, ![c] = Null]
  BY <1>1, <1>3, <1>5, LeaseFunctions
<1>8. LeaseStatus' = [LeaseStatus EXCEPT ![c] = "over"]
  BY <1>1, <1>3, <1>4, <1>5, LeaseFunctions
<1> QED
  BY <1>1, <1>4, <1>6, <1>7, <1>8 DEF Lease!TakeOver, Lease!Running

LEMMA LeaseStep ==
    TypeOK /\ TypeOK' /\ TokenInv /\ LinkInv /\ HoldInv /\ [Next]_vars
      => [Lease!Next]_(Lease!leaseVars)
<1> SUFFICES ASSUME TypeOK, TypeOK', TokenInv, LinkInv, HoldInv, [Next]_vars
             PROVE  Lease!Next \/ UNCHANGED Lease!leaseVars
  OBVIOUS
<1>1. ASSUME UNCHANGED <<life, binding, entries, nextToken>>
      PROVE  UNCHANGED Lease!leaseVars
  BY <1>1, LeaseStutters DEF LeaseSame
<1>2. ASSUME \/ \E c \in Conn :
                  \/ Refuse(c) \/ ConnectDirectory(c) \/ OtherRequest(c)
                  \/ SelectCompany(c) \/ SwitchCompany(c)
                  \/ LoginCleanup(c) \/ LoginUnknownWorld(c) \/ LoginWorld(c) \/ AccountStatus(c)
                  \/ LogonOk(c) \/ LogonFail(c) \/ OtherDone(c) \/ LogoutDone(c)
                  \/ CloseSuperseded(c) \/ CloseByGuard(c) \/ \E m \in Message : Receive(c, m)
                  \/ WorldLost(c) \/ WorldBack(c)
             \/ UNCHANGED vars
      PROVE  UNCHANGED Lease!leaseVars
  <2>1. UNCHANGED <<life, binding, entries, nextToken>>
    BY <1>2
    DEF Refuse, ConnectDirectory, OtherRequest, SelectCompany, SwitchCompany, LoginCleanup,
        LoginUnknownWorld, LoginWorld, AccountStatus, LogonOk, LogonFail, OtherDone, LogoutDone,
        CloseSuperseded, Closing, CloseByGuard, Receive, WorldLost, WorldBack, HandlerVars,
        sessionVars, tokenVars, vars
  <2> QED
    BY <1>1, <2>1
<1>3. ASSUME NEW s \in Conn, TeardownDone(s)
      PROVE  UNCHANGED Lease!leaseVars
  BY <1>3, LeaseStutters DEF TeardownDone, LeaseSame, tokenVars, TypeOK
<1>4. ASSUME NEW c \in Conn, LoginRefused(c) \/ LoginServerFull(c)
      PROVE  Lease!Finish({}, {handle[c]})
  <2>1. /\ UNCHANGED <<life, binding, nextToken>> /\ entries' = EndEntries({handle[c]})
    BY Zenon, <1>4 DEF LoginRefused, LoginServerFull, tokenVars
  <2> QED
    BY <2>1, LeaseFinishes, HandlerFields DEF EndEntries
<1>5. ASSUME NEW c \in Conn, LoginEvict(c)
      PROVE  \E E, F \in SUBSET Conn : Lease!Finish(E, F)
  <2> DEFINE own == OwnParked(handle[c], Head(rdoQueue[c]).user)
  <2>1. /\ entries' = EndEntries(own \cup {handle[c]}) /\ life' = StartTeardown(own)
        /\ UNCHANGED <<binding, nextToken>>
    BY Zenon, <1>5 DEF LoginEvict, tokenVars
  <2>2. own \in SUBSET Conn /\ \A s \in own : life[s] = "live"
    BY DEF OwnParked, HoldInv, ParkedIsIntact, Parked
  <2> HIDE DEF own
  <2>3. \A s \in own : life'[s] = "ending"
    BY <2>1, <2>2 DEF StartTeardown
  <2>4. \A s \in Conn \ own :
              /\ life'[s] = life[s]
              /\ life[s] = "live" => /\ binding'[s] = binding[s]
                                     /\ entries'[s] = IF s \in {handle[c]} THEN Null ELSE entries[s]
    BY <2>1 DEF StartTeardown, EndEntries
  <2>5. {handle[c]} \in SUBSET Conn
    BY HandlerFields
  <2>6. Lease!Finish(own, {handle[c]})
    BY <2>1, <2>2, <2>3, <2>4, <2>5, LeaseFinishes
  <2> QED
    BY <2>2, <2>5, <2>6
<1>6. ASSUME NEW c \in Conn, CloseEnd(c)
      PROVE  \E E \in SUBSET Conn : Lease!Finish(E, {})
  <2> DEFINE s == handle[c]
             E == {t \in {s} : life[t] = "live"}
  <2>1. /\ binding' = [binding EXCEPT ![s] = Null] /\ entries' = EndEntries({s})
        /\ life' = StartTeardown({s}) /\ UNCHANGED nextToken
    BY <1>6 DEF CloseEnd, Closing, Detached, tokenVars
  <2>2. E \in SUBSET Conn /\ \A t \in E : life[t] = "live" /\ life'[t] = "ending"
    BY <2>1, HandlerFields DEF StartTeardown
  <2>3. \A t \in Conn \ E :
              /\ life'[t] = life[t]
              /\ life[t] = "live" => /\ binding'[t] = binding[t]
                                     /\ entries'[t] = IF t \in {} THEN Null ELSE entries[t]
    BY <2>1 DEF StartTeardown, EndEntries, TypeOK
  <2> QED
    BY <2>1, <2>2, <2>3, LeaseFinishes
<1>7. ASSUME NEW s \in Conn, Expire(s)
      PROVE  Lease!Finish({s}, {})
  <2>1. life[s] = "live"
    BY <1>7 DEF Expire, HoldInv, ParkedIsIntact, Parked
  <2> QED
    BY <1>7, <2>1, LeaseFinishes DEF Expire, EndParked, EndEntries, StartTeardown, tokenVars
<1>8. ASSUME Drain
      PROVE  \E E \in SUBSET Conn : Lease!Finish(E, {})
  <2> DEFINE tracked == {connections[c] : c \in Conn} \ {Null}
             parked  == {s \in tracked : binding[s] = Null}
             E       == {s \in tracked : life[s] = "live"}
  <2>1. /\ entries' = EndEntries(parked) /\ life' = StartTeardown(tracked)
        /\ UNCHANGED <<binding, nextToken>>
    BY Zenon, <1>8 DEF Drain, tokenVars
  <2>2. tracked \in SUBSET Conn
    BY DEF TypeOK
  <2> HIDE DEF tracked
  <2>3. E \in SUBSET Conn /\ \A s \in E : life[s] = "live" /\ life'[s] = "ending"
    BY <2>1, <2>2 DEF StartTeardown
  <2>4. ASSUME NEW s \in Conn \ E
        PROVE  /\ life'[s] = life[s]
               /\ life[s] = "live" => /\ binding'[s] = binding[s]
                                      /\ entries'[s] = IF s \in {} THEN Null ELSE entries[s]
    <3>1. life'[s] = IF s \in tracked /\ life[s] = "live" THEN "ending" ELSE life[s]
      BY <2>1 DEF StartTeardown
    <3>2. entries'[s] = IF s \in parked THEN Null ELSE entries[s]
      BY <2>1 DEF EndEntries
    <3> QED
      BY <2>1, <3>1, <3>2
  <2> HIDE DEF E
  <2>5. Lease!Finish(E, {})
    BY <2>1, <2>3, <2>4, LeaseFinishes
  <2> QED
    BY <2>3, <2>5
<1>9. ASSUME NEW c \in Conn, SelectOk(c) \/ SwitchOk(c) \/ CompanyFails(c)
      PROVE  Lease!Rekey(handle[c]) \/ Lease!Burn \/ UNCHANGED Lease!leaseVars
  <2>1. WorldEntered(handle[c], c) /\ UNCHANGED <<life, binding>>
    BY Zenon, <1>9 DEF SelectOk, SwitchOk, CompanyFails, HandlerVars
  <2> QED
    BY <2>1, LeaseRekeys, HandlerFields
<1>10. {} \in SUBSET Conn /\ \A c \in Conn : handle[c] \in Conn /\ {handle[c]} \in SUBSET Conn /\ {c} \in SUBSET Conn
  BY HandlerFields
<1>11. ASSUME \E c \in Conn :
                \/ LoginRefused(c) \/ LoginServerFull(c) \/ LoginEvict(c) \/ CloseEnd(c) \/ Expire(c)
       PROVE  Lease!Next
  BY <1>4, <1>5, <1>6, <1>7, <1>10, <1>11 DEF Lease!Next
<1>12. ASSUME Drain
       PROVE  Lease!Next
  BY <1>8, <1>10, <1>12 DEF Lease!Next
<1>13. ASSUME NEW c \in Conn, SelectOk(c) \/ SwitchOk(c) \/ CompanyFails(c)
       PROVE  Lease!Next \/ UNCHANGED Lease!leaseVars
  BY <1>9, <1>10, <1>13 DEF Lease!Next
<1>14. ASSUME NEW c \in Conn, Accept(c) \/ (Settled /\ ClosePark(c)) \/ ResumeSession(c)
       PROVE  Lease!Next
  BY <1>10, <1>14, LeaseOpens, LeaseLeft, LeaseTakenOver DEF Lease!Next
<1> QED
  BY Zenon, Steps, <1>2, <1>3, <1>11, <1>12, <1>13, <1>14

\* The gateway implements the lease: a session changes hands only against its current key,
\* which the hand-over replaces, only one with a key is left running, and none comes back once
\* it is over.
THEOREM ImplementsLease == Spec => LeaseSpec
<1>1. Init => Lease!Init
  <2> SUFFICES ASSUME Init
               PROVE  Lease!Init
    OBVIOUS
  <2> QED
    BY DEF Init, Lease!Init, LeaseStatus, LeaseHolder, LeaseKey
<1>2. ParkInv => TypeOK /\ TokenInv /\ LinkInv /\ HoldInv
  BY DEF ParkInv
<1> QED
  BY <1>1, <1>2, LeaseStep, ParkInvHolds, PTL DEF Spec, LeaseSpec, Lease!Spec

----------------------------------------------------------------------------
(* Limits *)

\* A step that starts, ends, parks and tracks no session, and takes and returns no slot.
Inner ==
    /\ UNCHANGED <<life, binding, connections, wsConnectionsPerIp, draining>>
    /\ admitted' \subseteq admitted
    /\ Parked' \subseteq Parked
    /\ \A c \in Conn : sock'[c] \in Attached <=> sock[c] \in Attached

\* The steps that are not.
LEMMA StepKinds ==
    ASSUME TypeOK, [Next]_vars
    PROVE  \/ Inner
           \/ \E c \in Conn :
                \/ LoginEvict(c) \/ ResumeSession(c) \/ Accept(c)
                \/ Settled /\ (CloseSuperseded(c) \/ ClosePark(c) \/ CloseEnd(c))
                \/ Expire(c) \/ TeardownDone(c)
           \/ Settled /\ Drain
<1>1. ASSUME UNCHANGED entries \/ \E S : entries' = EndEntries(S)
      PROVE  Parked' \subseteq Parked
  BY <1>1 DEF EndEntries, Parked, IsParked
<1>2. ASSUME NEW c \in Conn, WorldEntered(handle[c], c)
      PROVE  Parked' \subseteq Parked
  <2>1. CASE loginUser[handle[c]] # Null /\ phase'[handle[c]] = "WORLD_CONNECTED"
    BY <1>2, <2>1, WorldEnteredEntry, HandlerFields DEF Parked, IsParked
  <2>2. CASE ~(loginUser[handle[c]] # Null /\ phase'[handle[c]] = "WORLD_CONNECTED")
    BY <1>1, <1>2, <2>2 DEF WorldEntered
  <2> QED
    BY <2>1, <2>2
<1>3. ASSUME sock' = sock \/ (\E C : sock' = CloseHandshake(C))
      PROVE  \A c \in Conn : sock'[c] \in Attached <=> sock[c] \in Attached
  BY <1>3 DEF CloseHandshake, Attached, TypeOK
<1>4. ASSUME NEW c \in Conn,
             \/ Refuse(c) \/ ConnectDirectory(c) \/ OtherRequest(c)
             \/ LoginRefused(c) \/ LoginServerFull(c) \/ SelectCompany(c) \/ SwitchCompany(c)
             \/ LoginCleanup(c) \/ LoginUnknownWorld(c) \/ LoginWorld(c) \/ AccountStatus(c)
             \/ LogonOk(c) \/ LogonFail(c) \/ OtherDone(c) \/ LogoutDone(c)
             \/ SelectOk(c) \/ SwitchOk(c) \/ CompanyFails(c)
             \/ \E m \in Message : Receive(c, m)
             \/ WorldLost(c) \/ WorldBack(c)
      PROVE  Inner
  <2>1. UNCHANGED <<life, binding, connections, wsConnectionsPerIp, draining>>
    BY Zenon, <1>4
    DEF Refuse, ConnectDirectory, OtherRequest, LoginRefused, LoginServerFull,
        SelectCompany, SwitchCompany, LoginCleanup, LoginUnknownWorld, LoginWorld, AccountStatus,
        LogonOk, LogonFail, OtherDone, LogoutDone, SelectOk, SwitchOk, CompanyFails, Receive,
        WorldLost, WorldBack, HandlerVars, sessionVars, gateVars
  <2>2. admitted' = admitted \/ \E s : admitted' = admitted \ {s}
    BY Zenon, <1>4
    DEF Refuse, ConnectDirectory, OtherRequest, LoginRefused, LoginServerFull,
        SelectCompany, SwitchCompany, LoginCleanup, LoginUnknownWorld, LoginWorld, AccountStatus,
        LogonOk, LogonFail, OtherDone, LogoutDone, SelectOk, SwitchOk, CompanyFails, Receive,
        WorldLost, WorldBack, gateVars
  <2>3. \/ UNCHANGED entries \/ \E S : entries' = EndEntries(S)
        \/ WorldEntered(handle[c], c)
    BY Zenon, <1>4
    DEF Refuse, ConnectDirectory, OtherRequest, LoginRefused, LoginServerFull,
        SelectCompany, SwitchCompany, LoginCleanup, LoginUnknownWorld, LoginWorld, AccountStatus,
        LogonOk, LogonFail, OtherDone, LogoutDone, SelectOk, SwitchOk, CompanyFails, Receive,
        WorldLost, WorldBack, sessionVars
  <2>4. sock' = sock \/ (\E C : sock' = CloseHandshake(C))
    BY Zenon, <1>4
    DEF Refuse, ConnectDirectory, OtherRequest, LoginRefused, LoginServerFull,
        SelectCompany, SwitchCompany, LoginCleanup, LoginUnknownWorld, LoginWorld, AccountStatus,
        LogonOk, LogonFail, OtherDone, LogoutDone, SelectOk, SwitchOk, CompanyFails, Receive,
        WorldLost, WorldBack, HandlerVars, sockVars
  <2> QED
    BY <1>1, <1>2, <1>3, <2>1, <2>2, <2>3, <2>4 DEF Inner
<1>5. ASSUME NEW c \in Conn, CloseByGuard(c)
      PROVE  Inner
  BY <1>1, <1>5 DEF CloseByGuard, Inner, Attached, sessionVars, gateVars, TypeOK
<1>6. CASE UNCHANGED vars
  BY <1>1, <1>6 DEF vars, sockVars, sessionVars, gateVars, Inner
<1> QED
  BY Zenon, Steps, <1>4, <1>5, <1>6

\* A slot of the cap is taken by a session that was born.
LimitInv ==
    /\ \A s \in admitted : life[s] # "unborn"
    /\ LimitsHold

LEMMA LimitStep ==
    TypeOK /\ TokenInv /\ LinkInv /\ HoldInv /\ LimitInv /\ [Next]_vars => LimitInv'
<1> SUFFICES ASSUME TypeOK, TokenInv, LinkInv, HoldInv, LimitInv, [Next]_vars
             PROVE  LimitInv'
  OBVIOUS
<1> DEFINE Runs == {s \in admitted : life[s] = "live"}
<1>1. /\ IsFiniteSet(admitted) /\ IsFiniteSet(Runs) /\ IsFiniteSet(Parked)
      /\ Cardinality(Runs) \in Nat /\ Cardinality(Runs) <= MaxSessions
      /\ Cardinality(Parked) \in Nat /\ Cardinality(Parked) <= MaxParked
  <2>1. Runs \in SUBSET Conn /\ Parked \in SUBSET Conn /\ admitted \in SUBSET Conn
    BY DEF TypeOK, Parked
  <2>2. IsFiniteSet(admitted) /\ IsFiniteSet(Runs) /\ IsFiniteSet(Parked)
    BY <2>1, FS_Subset, SessionParkAssumption
  <2> QED
    BY <2>2, FS_CardinalityType DEF LimitInv, LimitsHold
<1>2. ASSUME Parked' \subseteq Parked
      PROVE  Cardinality(Parked)' <= MaxParked
  <2>1. Cardinality(Parked') <= Cardinality(Parked) /\ Cardinality(Parked') \in Nat
    BY <1>1, <1>2, FS_Subset, FS_CardinalityType
  <2> QED
    BY <1>1, <2>1, SessionParkAssumption
<1>3. ASSUME Runs' \subseteq Runs
      PROVE  Cardinality(Runs)' <= MaxSessions
  <2>1. Cardinality(Runs') <= Cardinality(Runs) /\ Cardinality(Runs') \in Nat
    BY <1>1, <1>3, FS_Subset, FS_CardinalityType
  <2> QED
    BY <1>1, <2>1, SessionParkAssumption
<1>4. ASSUME /\ \A s \in admitted' : life'[s] # "unborn"
             /\ Parked' \subseteq Parked /\ Runs' \subseteq Runs
      PROVE  LimitInv'
  BY <1>2, <1>3, <1>4 DEF LimitInv, LimitsHold
<1>5. CASE Inner
  BY <1>4, <1>5 DEF Inner, LimitInv
<1>6. ASSUME NEW c \in Conn, Accept(c)
      PROVE  LimitInv'
  <2>1. /\ life[c] = "unborn" /\ life' = [life EXCEPT ![c] = "live"] /\ UNCHANGED <<entries, admitted>>
    BY <1>6 DEF Accept, LinkInv
  <2> QED
    BY <1>4, <2>1 DEF LimitInv, Parked, IsParked, TypeOK
<1>7. ASSUME NEW c \in Conn, ResumeSession(c)
      PROVE  LimitInv'
  <2>1. PICK s \in Conn : /\ entries'[s].ip = Null /\ \A t \in Conn \ {s} : entries'[t] = entries[t]
                          /\ life' = [life EXCEPT ![c] = "destroyed"]
    BY <1>7, ResumeFacts
  <2>2. UNCHANGED admitted
    BY <1>7 DEF ResumeSession
  <2> QED
    BY <1>4, <2>1, <2>2 DEF LimitInv, Parked, IsParked, TypeOK
<1>8. ASSUME Drain \/ \E c \in Conn : CloseSuperseded(c) \/ CloseEnd(c) \/ Expire(c)
      PROVE  LimitInv'
  <2>1. /\ UNCHANGED admitted
        /\ UNCHANGED entries \/ \E S : entries' = EndEntries(S)
        /\ UNCHANGED life \/ \E S : life' = StartTeardown(S)
    BY Zenon, <1>8 DEF CloseSuperseded, CloseEnd, Closing, Expire, EndParked, Drain
  <2>2. Parked' \subseteq Parked
    BY <2>1 DEF EndEntries, Parked, IsParked
  <2>3. \A s \in admitted : life'[s] = life[s] \/ (life[s] = "live" /\ life'[s] = "ending")
    BY <2>1 DEF StartTeardown, TypeOK
  <2> QED
    BY <1>4, <2>1, <2>2, <2>3 DEF LimitInv
<1>9. ASSUME NEW s \in Conn, TeardownDone(s)
      PROVE  LimitInv'
  BY <1>4, <1>9 DEF TeardownDone, LimitInv, Parked, IsParked, TypeOK
<1>10. ASSUME NEW c \in Conn, ClosePark(c)
       PROVE  LimitInv'
  <2>1. /\ UNCHANGED <<life, admitted>>
        /\ \A t \in Conn \ {handle[c]} : entries'[t] = entries[t]
        /\ Cardinality(Parked) < MaxParked
    BY <1>10 DEF ClosePark, Closing, MayPark, TypeOK
  <2>2. /\ IsFiniteSet(Parked \cup {handle[c]})
        /\ Cardinality(Parked \cup {handle[c]}) <= Cardinality(Parked) + 1
        /\ Cardinality(Parked \cup {handle[c]}) \in Nat
    <3> HIDE DEF Runs
    <3>1. /\ IsFiniteSet(Parked \cup {handle[c]})
          /\ Cardinality(Parked \cup {handle[c]}) = IF handle[c] \in Parked THEN Cardinality(Parked)
                                                    ELSE Cardinality(Parked) + 1
      BY <1>1, FS_AddElement
    <3> QED
      BY <1>1, <3>1
  <2>3. Parked' \subseteq Parked \cup {handle[c]}
    BY <2>1 DEF Parked, IsParked
  <2>4. Cardinality(Parked') <= Cardinality(Parked \cup {handle[c]}) /\ Cardinality(Parked') \in Nat
    BY <2>2, <2>3, FS_Subset, FS_CardinalityType
  <2>5. Cardinality(Parked') <= MaxParked
    BY <1>1, <2>1, <2>2, <2>4, SessionParkAssumption
  <2>6. Cardinality(Runs') <= MaxSessions
    BY <1>3, <2>1
  <2> QED
    BY <2>1, <2>5, <2>6 DEF LimitInv, LimitsHold
\* A login makes room before it takes its place: the sessions it evicts are admitted ones
\* that were counted, and none of them runs any more.
<1>11. ASSUME NEW c \in Conn, LoginEvict(c)
       PROVE  LimitInv'
  <2> DEFINE s   == handle[c]
             own == OwnParked(s, Head(rdoQueue[c]).user)
  <2>1. /\ MayAdmit(s, own) /\ admitted' = admitted \cup {s}
        /\ entries' = EndEntries(own \cup {s}) /\ life' = StartTeardown(own)
    BY <1>11 DEF LoginEvict
  <2>2. s \in Conn /\ own \in SUBSET Conn /\ s \notin own /\ \A t \in own : life[t] = "live"
    BY HandlerFields DEF OwnParked, HoldInv, ParkedIsIntact, Parked
  <2>3. life[s] # "unborn"
    <3>1. rdoQueue[c] # <<>>
      BY <1>11 DEF LoginEvict, LoginPreamble, Take, Dequeue
    <3>2. sock[c] # "none"
      BY <3>1 DEF LinkInv
    <3>3. s # c => processed[s]
      BY <2>2 DEF HoldInv, TieInv, FreshTabs
    <3>4. sock[s] # "none"
      BY <2>2, <3>2, <3>3 DEF LinkInv
    <3> QED
      BY <2>2, <3>4 DEF HoldInv, TieInv, Born
  <2> HIDE DEF own, s
  <2>4. \A t \in Conn : life'[t] = IF t \in own THEN "ending" ELSE life[t]
    BY <2>1, <2>2 DEF StartTeardown
  <2>5. Parked' \subseteq Parked
    BY <2>1 DEF EndEntries, Parked, IsParked
  <2>6. \A t \in admitted' : life'[t] # "unborn"
    BY <2>1, <2>2, <2>3, <2>4 DEF LimitInv, TypeOK
  <2>7. CASE s \in admitted
    <3>1. Runs' \subseteq Runs
      BY <2>1, <2>2, <2>4, <2>7 DEF TypeOK
    <3> QED
      BY <1>4, <2>5, <2>6, <3>1
  <2>8. CASE s \notin admitted
    <3> DEFINE left == admitted \ own
    <3>1. Runs' \subseteq left \cup {s}
      BY <2>1, <2>2, <2>4 DEF TypeOK
    <3>2. /\ IsFiniteSet(left) /\ Cardinality(left) = Cardinality(admitted) - Cardinality(admitted \cap own)
          /\ Cardinality(left) \in Nat
      BY <1>1, FS_Difference, FS_CardinalityType
    <3>3. /\ IsFiniteSet(left \cup {s}) /\ Cardinality(left \cup {s}) = Cardinality(left) + 1
      BY <2>8, <3>2, FS_AddElement
    <3>4. Cardinality(Runs') <= Cardinality(left \cup {s}) /\ Cardinality(Runs') \in Nat
      BY <3>1, <3>3, FS_Subset, FS_CardinalityType
    <3>5. Cardinality(admitted) < MaxSessions + Cardinality(own \cap admitted)
      BY <2>1, <2>8 DEF MayAdmit
    <3>6. own \cap admitted = admitted \cap own
      OBVIOUS
    <3>7. Cardinality(admitted) \in Nat /\ Cardinality(admitted \cap own) \in Nat
      BY <1>1, FS_Intersection, FS_CardinalityType
    <3>8. Cardinality(Runs') <= MaxSessions
      BY <3>2, <3>3, <3>4, <3>5, <3>6, <3>7, SessionParkAssumption
    <3> QED
      BY <1>2, <2>5, <2>6, <3>8 DEF LimitInv, LimitsHold
  <2> QED
    BY <2>7, <2>8
<1> QED
  BY Zenon, StepKinds, <1>5, <1>6, <1>7, <1>8, <1>9, <1>10, <1>11

\* The sessions that run stay within SPO_MAX_SESSIONS although a login discounts the ones it
\* evicts, the parked ones within SPO_MAX_PARKED_SESSIONS (tryAdmit, park).
THEOREM WithinLimits == Spec => []LimitsHold
<1>1. Init => LimitInv
  <2> SUFFICES ASSUME Init
               PROVE  LimitInv
    OBVIOUS
  <2>1. Parked = {} /\ {s \in admitted : life[s] = "live"} = {} /\ admitted = {}
    BY DEF Init, Parked, IsParked
  <2> QED
    BY <2>1, FS_EmptySet, SessionParkAssumption DEF LimitInv, LimitsHold
<1>2. LimitInv => LimitsHold
  BY DEF LimitInv
<1>3. ParkInv => TypeOK /\ TokenInv /\ LinkInv /\ HoldInv
  BY DEF ParkInv
<1> QED
  BY <1>1, <1>2, <1>3, LimitStep, ParkInvHolds, PTL DEF Spec

----------------------------------------------------------------------------
(* Slots *)

\* The WebSockets that account for a slot of their address: those that are there, and the
\* closed ones under which the drain tracks a session without a tab.
Occupied ==
    {c \in Conn : \/ sock[c] \in Attached
                  \/ connections[c] # Null /\ DetachedSession(connections[c])}
Slots(i) == {c \in Occupied : IpOf[c] = i}

SlotInv == ~draining => \A i \in Ip : wsConnectionsPerIp[i] = Cardinality(Slots(i))

\* The two kinds are apart: what the drain tracks under a WebSocket that is there has a tab.
LEMMA SlotsAreAccounted ==
    ASSUME TypeOK, HoldInv, SlotInv
    PROVE  IpSlotsAccounted
<1> SUFFICES ASSUME ~draining, NEW i \in Ip
             PROVE  wsConnectionsPerIp[i] =
                      Cardinality({c \in Conn : IpOf[c] = i /\ sock[c] \in Attached})
                    + Cardinality({c \in Conn : /\ IpOf[c] = i /\ connections[c] # Null
                                                /\ DetachedSession(connections[c])})
  BY DEF IpSlotsAccounted, Attached
<1> DEFINE A == {c \in Conn : IpOf[c] = i /\ sock[c] \in Attached}
           D == {c \in Conn : /\ IpOf[c] = i /\ connections[c] # Null
                              /\ DetachedSession(connections[c])}
<1>1. Slots(i) = A \cup D
  BY DEF Slots, Occupied
<1>2. A \cap D = {}
  BY SessionParkAssumption DEF HoldInv, TieInv, Tracking, DetachedSession, Attached
<1>3. IsFiniteSet(A) /\ IsFiniteSet(D)
  BY FS_Subset, SessionParkAssumption
<1> HIDE DEF A, D
<1>4. Cardinality(A) \in Nat /\ Cardinality(D) \in Nat
  BY <1>3, FS_CardinalityType
<1>5. Cardinality(A \cup D) = Cardinality(A) + Cardinality(D) - Cardinality({})
  BY <1>2, <1>3, FS_Union
<1>6. Cardinality(A \cup D) = Cardinality(A) + Cardinality(D)
  BY <1>4, <1>5, FS_EmptySet
<1> QED
  BY <1>1, <1>6 DEF SlotInv, A, D

\* Slots given back are those of the WebSockets that account for none any more.
LEMMA SlotsGivenBack ==
    ASSUME TypeOK, SlotInv, ~draining, NEW n \in [Ip -> Nat], NEW R \in SUBSET Occupied,
           wsConnectionsPerIp' = ReleaseSlots(n),
           \A i \in Ip : n[i] = Cardinality({c \in R : IpOf[c] = i}),
           Occupied' = Occupied \ R
    PROVE  SlotInv'
<1> SUFFICES ASSUME NEW i \in Ip
             PROVE  wsConnectionsPerIp'[i] = Cardinality(Slots(i)')
  BY DEF SlotInv
<1> DEFINE T == {c \in R : IpOf[c] = i}
<1>1. IsFiniteSet(Slots(i)) /\ T \subseteq Slots(i) /\ Slots(i)' = Slots(i) \ T
  <2>1. Slots(i) \in SUBSET Conn
    BY DEF Slots, Occupied
  <2>2. T \subseteq Slots(i) /\ Slots(i)' = Slots(i) \ T
    BY DEF Slots
  <2> QED
    BY <2>1, <2>2, FS_Subset, SessionParkAssumption
<1> HIDE DEF T
<1>2. Slots(i) \cap T = T
  BY <1>1
<1>3. Cardinality(Slots(i) \ T) = Cardinality(Slots(i)) - Cardinality(T)
  <2>1. IsFiniteSet(Slots(i))
    BY <1>1
  <2>2. Cardinality(Slots(i) \ T) = Cardinality(Slots(i)) - Cardinality(Slots(i) \cap T)
    BY <2>1, FS_Difference
  <2> QED
    BY <1>2, <2>2, Zenon
<1>4. /\ Cardinality(Slots(i)) \in Nat /\ Cardinality(T) \in Nat
      /\ Cardinality(T) <= Cardinality(Slots(i))
  BY <1>1, FS_Subset, FS_CardinalityType
<1>5. wsConnectionsPerIp[i] = Cardinality(Slots(i)) /\ n[i] = Cardinality(T)
  BY DEF SlotInv, T
<1>6. wsConnectionsPerIp'[i] = IF wsConnectionsPerIp[i] <= n[i] THEN 0 ELSE wsConnectionsPerIp[i] - n[i]
  BY DEF ReleaseSlots
<1> QED
  BY <1>1, <1>3, <1>4, <1>5, <1>6

\* One WebSocket that gives its slot back.
LEMMA SlotGivenBack ==
    ASSUME TypeOK, SlotInv, ~draining, NEW c \in Occupied,
           wsConnectionsPerIp' = ReleaseSlot(IpOf[c]), Occupied' = Occupied \ {c}
    PROVE  SlotInv'
<1> DEFINE n == [i \in Ip |-> IF i = IpOf[c] THEN 1 ELSE 0]
<1>1. n \in [Ip -> Nat]
  OBVIOUS
<1>2. ASSUME NEW i \in Ip
      PROVE  n[i] = Cardinality({d \in {c} : IpOf[d] = i})
  <2>1. CASE IpOf[c] = i
    <3>1. {d \in {c} : IpOf[d] = i} = {c}
      BY <2>1
    <3> QED
      BY <2>1, <3>1, FS_Singleton
  <2>2. CASE IpOf[c] # i
    <3>1. {d \in {c} : IpOf[d] = i} = {}
      BY <2>2
    <3> QED
      BY <2>2, <3>1, FS_EmptySet
  <2> QED
    BY <2>1, <2>2
<1>3. wsConnectionsPerIp' = ReleaseSlots(n)
  BY DEF ReleaseSlot
<1> HIDE DEF n
<1> QED
  BY <1>1, <1>2, <1>3, SlotsGivenBack

\* Parks that end, each with the slot of the WebSocket its session is tracked under.
LEMMA ParkSlotsGivenBack ==
    ASSUME TypeOK, HoldInv, SlotInv, ~draining, NEW S \in SUBSET Parked,
           wsConnectionsPerIp' = ReleaseParks(S), life' = StartTeardown(S),
           UNCHANGED <<sock, connections, binding>>
    PROVE  SlotInv'
<1> DEFINE R == {c \in Conn : connections[c] \in S}
           n == [i \in Ip |-> Cardinality({s \in S : IsParked(s) /\ entries[s].ip = i})]
<1>1. \A s \in S : s \in Conn /\ IsParked(s) /\ life[s] = "live" /\ binding[s] = Null
  BY DEF Parked, HoldInv, ParkedIsIntact
<1>2. \A c \in R : /\ connections[c] # Null /\ sock[c] = "closed"
                   /\ IpOf[c] = entries[connections[c]].ip
  <2> TAKE c \in R
  <2>1. connections[c] \in Parked /\ connections[c] # Null
    BY SessionParkAssumption DEF Parked
  <2>2. PICK d \in Conn : /\ connections[d] = connections[c] /\ sock[d] = "closed"
                          /\ IpOf[d] = entries[connections[c]].ip
    BY <2>1 DEF HoldInv, ParkedIsIntact
  <2>3. c = d
    BY <2>1, <2>2 DEF HoldInv, TieInv, DrainCovers
  <2> QED
    BY <2>1, <2>2, <2>3
<1>3. R \in SUBSET Occupied
  BY <1>1, <1>2 DEF Occupied, DetachedSession
<1>4. Occupied' = Occupied \ R
  <2>1. \A s \in Conn : life'[s] = "live" <=> life[s] = "live" /\ s \notin S
    BY <1>1 DEF StartTeardown
  <2>2. \A c \in Conn : connections[c] # Null => connections[c] \in Conn
    BY DEF TypeOK
  <2>3. \A c \in R : sock[c] \notin Attached
    BY <1>2 DEF Attached
  <2> QED
    BY <2>1, <2>2, <2>3 DEF Occupied, DetachedSession
<1>5. ASSUME NEW i \in Ip
      PROVE  n[i] = Cardinality({c \in R : IpOf[c] = i})
  <2> DEFINE A == {c \in R : IpOf[c] = i}
             B == {s \in S : IsParked(s) /\ entries[s].ip = i}
             f == [c \in A |-> connections[c]]
  <2>1. f \in [A -> B]
    BY <1>1, <1>2
  <2>2. \A c, d \in A : f[c] = f[d] => c = d
    BY <1>2 DEF HoldInv, TieInv, DrainCovers
  <2>3. \A s \in B : \E c \in A : f[c] = s
    <3> TAKE s \in B
    <3>1. PICK c \in Conn : connections[c] = s /\ IpOf[c] = entries[s].ip
      BY DEF HoldInv, ParkedIsIntact
    <3> QED
      BY <3>1
  <2>4. f \in Bijection(A, B)
    BY <2>1, <2>2, <2>3 DEF Bijection, Injection, Surjection, IsInjective
  <2>5. IsFiniteSet(A)
    BY FS_Subset, SessionParkAssumption
  <2> HIDE DEF A, B, f
  <2>6. Cardinality(B) = Cardinality(A)
    BY <2>4, <2>5, FS_Bijection DEF ExistsBijection
  <2> QED
    BY <2>6 DEF A, B
<1>6. n \in [Ip -> Nat]
  <2>1. \A i \in Ip : IsFiniteSet({c \in R : IpOf[c] = i})
    BY FS_Subset, SessionParkAssumption
  <2>2. \A i \in Ip : Cardinality({c \in R : IpOf[c] = i}) \in Nat
    BY <2>1, FS_CardinalityType
  <2> QED
    BY <1>5, <2>2
<1>7. wsConnectionsPerIp' = ReleaseSlots(n)
  BY DEF ReleaseParks
<1> HIDE DEF n, R
<1> QED
  BY <1>3, <1>4, <1>5, <1>6, <1>7, SlotsGivenBack

LEMMA AcceptSlots ==
    ASSUME TypeOK, LinkInv, HoldInv, SlotInv, NEW c \in Conn, Accept(c)
    PROVE  SlotInv'
<1>1. /\ ~draining /\ sock[c] = "none" /\ life[c] = "unborn"
      /\ wsConnectionsPerIp' = [wsConnectionsPerIp EXCEPT ![IpOf[c]] = wsConnectionsPerIp[IpOf[c]] + 1]
      /\ sock' = [sock EXCEPT ![c] = "open"] /\ life' = [life EXCEPT ![c] = "live"]
      /\ binding' = [binding EXCEPT ![c] = c] /\ connections' = [connections EXCEPT ![c] = c]
  BY DEF Accept, LinkInv
<1>2. \A d \in Conn : connections[d] # Null => connections[d] \in Conn /\ connections[d] # c
  BY <1>1 DEF HoldInv, TieInv, DrainCovers, Alive, TypeOK
<1>3. c \notin Occupied
  BY <1>1 DEF Occupied, Attached, HoldInv, TieInv, Tracking
<1>4. Occupied' = Occupied \cup {c}
  <2> SUFFICES ASSUME NEW d \in Conn
               PROVE  d \in Occupied' <=> d \in Occupied \/ d = c
    BY DEF Occupied
  <2>1. CASE d = c
    BY <1>1, <2>1 DEF Occupied, Attached, TypeOK
  <2>2. CASE d # c
    <3>1. sock'[d] = sock[d] /\ connections'[d] = connections[d]
      BY <1>1, <2>2 DEF TypeOK
    <3>2. connections[d] # Null =>
            life'[connections[d]] = life[connections[d]] /\ binding'[connections[d]] = binding[connections[d]]
      BY <1>1, <1>2 DEF TypeOK
    <3> QED
      BY <2>2, <3>1, <3>2 DEF Occupied, DetachedSession
  <2> QED
    BY <2>1, <2>2
<1> SUFFICES ASSUME NEW i \in Ip
             PROVE  wsConnectionsPerIp'[i] = Cardinality(Slots(i)')
  BY DEF SlotInv
<1>5. IsFiniteSet(Slots(i)) /\ c \notin Slots(i)
  <2>1. Slots(i) \in SUBSET Conn
    BY DEF Slots, Occupied
  <2> QED
    BY <1>3, <2>1, FS_Subset, SessionParkAssumption DEF Slots
<1>6. wsConnectionsPerIp[i] = Cardinality(Slots(i))
  BY <1>1 DEF SlotInv
<1>7. CASE IpOf[c] = i
  <2>1. Slots(i)' = Slots(i) \cup {c}
    BY <1>4, <1>7 DEF Slots
  <2>2. Cardinality(Slots(i) \cup {c}) = Cardinality(Slots(i)) + 1
    BY <1>5, FS_AddElement
  <2>3. wsConnectionsPerIp'[i] = wsConnectionsPerIp[i] + 1
    BY <1>1, <1>7 DEF TypeOK
  <2> QED
    BY <1>6, <2>1, <2>2, <2>3
<1>8. CASE IpOf[c] # i
  <2>1. Slots(i)' = Slots(i)
    BY <1>4, <1>8 DEF Slots
  <2>2. wsConnectionsPerIp'[i] = wsConnectionsPerIp[i]
    BY <1>1, <1>8, SessionParkAssumption DEF TypeOK
  <2> QED
    BY <1>6, <2>1, <2>2
<1> QED
  BY <1>7, <1>8

\* Only the close of a WebSocket that leaves no session running gives its slot back.
LEMMA CloseSlots ==
    ASSUME TypeOK, TokenInv, LinkInv, HoldInv, SlotInv, Settled, ~draining, NEW c \in Conn,
           CloseSuperseded(c) \/ ClosePark(c) \/ CloseEnd(c)
    PROVE  SlotInv'
<1> DEFINE s == handle[c]
<1>1. /\ sock[c] \in Attached /\ sock' = [sock EXCEPT ![c] = "closed"] /\ s \in Conn
      /\ ~processed[c] => rdoQueue[c] = <<>>
  BY DEF CloseSuperseded, ClosePark, CloseEnd, Closing, Attached, Settled, Runnable, LinkInv, TypeOK
<1>2. c \in Occupied /\ \A d \in Conn \ {c} : sock'[d] = sock[d]
  BY <1>1 DEF Occupied, TypeOK
<1>3. \A d \in Conn : connections[d] # Null => connections[d] \in Conn
  BY DEF TypeOK
<1>4. CASE CloseSuperseded(c)
  <2>1. /\ UNCHANGED <<binding, life, connections>> /\ connections[c] = Null
        /\ wsConnectionsPerIp' = ReleaseSlot(IpOf[c])
    BY <1>1, <1>4, CloseSupersededHold, SupersededUntracked DEF CloseSuperseded, HoldInv
  <2>2. Occupied' = Occupied \ {c}
    BY <1>1, <1>2, <2>1 DEF Occupied, DetachedSession, Attached, TypeOK
  <2> QED
    BY <1>2, <2>1, <2>2, SlotGivenBack
<1>5. CASE ClosePark(c) \/ CloseEnd(c)
  <2>1. binding[s] = c /\ binding' = [binding EXCEPT ![s] = Null] /\ binding'[s] = Null
    BY <1>1, <1>5 DEF ClosePark, CloseEnd, Superseded, Detached, TypeOK
  <2>2. \A d \in Conn \ {c} : connections[d] # s
    BY <1>1, <2>1, SessionParkAssumption DEF HoldInv, TieInv, Tracking
  <2>3. \A d \in Conn \ {c} : connections[d] # Null => binding'[connections[d]] = binding[connections[d]]
    BY <1>3, <2>1, <2>2 DEF TypeOK
  <2>4. CASE ClosePark(c)
    <3>1. UNCHANGED <<life, connections, wsConnectionsPerIp>> /\ life[s] = "live"
      BY <1>1, <2>4, CloseParkHold DEF ClosePark
    <3>2. connections[c] = s
      BY <1>1, <2>1, <3>1, TrackedUnder DEF HoldInv, Alive
    <3>3. c \in Occupied'
      BY <1>1, <2>1, <3>1, <3>2, SessionParkAssumption DEF Occupied, DetachedSession
    <3>4. \A d \in Conn \ {c} : d \in Occupied' <=> d \in Occupied
      BY <1>2, <2>3, <3>1 DEF Occupied, DetachedSession
    <3>5. Occupied' = Occupied
      BY <1>2, <3>3, <3>4 DEF Occupied
    <3>6. UNCHANGED draining
      BY <2>4 DEF ClosePark, Closing
    <3> QED
      BY <3>1, <3>5, <3>6 DEF SlotInv, Slots
  <2>5. CASE CloseEnd(c)
    <3>1. /\ life' = StartTeardown({s}) /\ UNCHANGED connections
          /\ wsConnectionsPerIp' = ReleaseSlot(IpOf[c])
      BY <2>5 DEF CloseEnd
    <3>2. /\ life'[s] # "live"
          /\ \A t \in Conn \ {s} : life'[t] = life[t]
      BY <1>1, <3>1 DEF StartTeardown
    <3>3. c \notin Occupied'
      <4>1. sock'[c] \notin Attached
        BY <1>1 DEF Attached, TypeOK
      <4>2. connections[c] # Null => connections[c] = s
        BY DEF HoldInv, TieInv, Tracking
      <4> QED
        BY <3>1, <3>2, <4>1, <4>2 DEF Occupied, DetachedSession
    <3>4. \A d \in Conn \ {c} : d \in Occupied' <=> d \in Occupied
      BY <1>2, <1>3, <2>2, <2>3, <3>1, <3>2 DEF Occupied, DetachedSession
    <3>5. Occupied' = Occupied \ {c}
      BY <3>3, <3>4 DEF Occupied
    <3> QED
      BY <1>2, <3>1, <3>5, SlotGivenBack
  <2> QED
    BY <1>5, <2>4, <2>5
<1> QED
  BY <1>4, <1>5

\* A resume gives back the slot of the park it ends; the WebSocket it takes the session from
\* keeps its own until it closes.
LEMMA ResumeSlots ==
    ASSUME TypeOK, TokenInv, LinkInv, HoldInv, SlotInv, NEW c \in Conn, ResumeSession(c)
    PROVE  SlotInv'
<1>1. PICK s \in Conn :
        /\ ~draining /\ life[s] = "live" /\ s # c
        /\ binding[s] = Null => IsParked(s)
        /\ sock[c] \in Attached /\ connections[c] = c
        /\ wsConnectionsPerIp' = IF IsParked(s) THEN ReleaseSlot(entries[s].ip)
                                 ELSE wsConnectionsPerIp
        /\ binding' = [binding EXCEPT ![s] = c]
        /\ life' = [life EXCEPT ![c] = "destroyed"]
        /\ connections' = Retracked(c, s)
        /\ sock' = IF binding[s] \in Conn \ {c} /\ sock[binding[s]] # "closed"
                   THEN [sock EXCEPT ![binding[s]] = "dead"] ELSE sock
  BY ResumeFacts
<1>2. binding[s] # Null => sock[binding[s]] \in Attached
  BY <1>1 DEF LinkInv, OneTabPerSession, Alive, Attached
<1>3. \A d \in Conn : sock'[d] \in Attached <=> sock[d] \in Attached
  BY <1>1, <1>2, SessionParkAssumption DEF Attached, TypeOK
<1>4. /\ connections'[c] = s
      /\ \A d \in Conn \ {c} : connections'[d] = IF connections[d] = s THEN Null ELSE connections[d]
  BY <1>1 DEF Retracked
<1>5. c \in Occupied /\ c \in Occupied'
  BY <1>1, <1>3 DEF Occupied
<1>6. \A d \in Conn \ {c} : connections[d] # Null /\ connections[d] # s =>
        /\ life'[connections[d]] = life[connections[d]]
        /\ binding'[connections[d]] = binding[connections[d]]
  <2> SUFFICES ASSUME NEW d \in Conn \ {c}, connections[d] # Null, connections[d] # s
               PROVE  /\ life'[connections[d]] = life[connections[d]]
                      /\ binding'[connections[d]] = binding[connections[d]]
    OBVIOUS
  <2>1. connections[d] \in Conn /\ connections[d] # c
    BY <1>1, SessionParkAssumption DEF HoldInv, TieInv, DrainCovers, TypeOK
  <2> QED
    BY <1>1, <2>1 DEF TypeOK
<1>7. \A d \in Conn \ {c} : connections[d] # s => (d \in Occupied' <=> d \in Occupied)
  BY <1>3, <1>4, <1>6 DEF Occupied, DetachedSession
<1>8. CASE IsParked(s)
  <2>1. PICK d \in Conn : connections[d] = s /\ sock[d] = "closed" /\ IpOf[d] = entries[s].ip
    BY <1>8 DEF HoldInv, ParkedIsIntact, Parked
  <2>2. binding[s] = Null
    BY <1>8 DEF HoldInv, ParkedIsIntact, Parked
  <2>3. d # c /\ d \in Occupied
    BY <1>1, <2>1, <2>2, SessionParkAssumption DEF Occupied, DetachedSession, Attached
  <2>4. d \notin Occupied'
    BY <1>3, <1>4, <2>1, <2>3 DEF Occupied, Attached
  <2>5. \A e \in Conn \ {d} : connections[e] # s
    BY <2>1, SessionParkAssumption DEF HoldInv, TieInv, DrainCovers
  <2>6. \A e \in Conn \ {d} : e \in Occupied' <=> e \in Occupied
    BY <1>5, <1>7, <2>5
  <2>7. Occupied' = Occupied \ {d}
    BY <2>3, <2>4, <2>6 DEF Occupied
  <2>8. wsConnectionsPerIp' = ReleaseSlot(IpOf[d])
    BY <1>1, <1>8, <2>1
  <2> QED
    BY <1>1, <2>3, <2>7, <2>8, SlotGivenBack
<1>9. CASE ~IsParked(s)
  <2>1. binding[s] \in Conn /\ sock[binding[s]] \in Attached
    BY <1>1, <1>2, <1>9 DEF TypeOK
  <2>2. \A d \in Conn : connections[d] = s => d = binding[s]
    BY <1>1, <2>1, SessionParkAssumption DEF HoldInv, TieInv, Tracking
  <2>3. \A d \in Conn : connections[d] = s => d \in Occupied /\ d \in Occupied'
    BY <1>3, <2>1, <2>2 DEF Occupied
  <2>4. \A d \in Conn : d \in Occupied' <=> d \in Occupied
    BY <1>5, <1>7, <2>3
  <2>5. Occupied' = Occupied
    BY <2>4 DEF Occupied
  <2>6. UNCHANGED <<wsConnectionsPerIp, draining>>
    BY <1>1, <1>9 DEF ResumeSession
  <2> QED
    BY <2>5, <2>6 DEF SlotInv, Slots
<1> QED
  BY <1>8, <1>9

LEMMA SlotStep ==
    TypeOK /\ TokenInv /\ LinkInv /\ HoldInv /\ SlotInv /\ [Next]_vars => SlotInv'
<1> SUFFICES ASSUME TypeOK, TokenInv, LinkInv, HoldInv, SlotInv, [Next]_vars
             PROVE  SlotInv'
  OBVIOUS
<1>1. CASE Inner
  <2>1. Occupied' = Occupied
    BY <1>1 DEF Inner, Occupied, DetachedSession
  <2> QED
    BY <1>1, <2>1 DEF Inner, SlotInv, Slots
<1>2. ASSUME NEW c \in Conn, LoginEvict(c)
      PROVE  SlotInv'
  <2> DEFINE own == OwnParked(handle[c], Head(rdoQueue[c]).user)
  <2>1. /\ wsConnectionsPerIp' = ReleaseParks(own) /\ life' = StartTeardown(own)
        /\ UNCHANGED <<sock, connections, binding, draining>>
    BY Zenon, <1>2 DEF LoginEvict
  <2>2. own \in SUBSET Parked
    BY DEF OwnParked
  <2> HIDE DEF own
  <2>3. CASE draining
    BY <2>1, <2>3 DEF SlotInv
  <2>4. CASE ~draining
    BY <2>1, <2>2, <2>4, ParkSlotsGivenBack
  <2> QED
    BY <2>3, <2>4
<1>3. ASSUME NEW s \in Conn, Expire(s)
      PROVE  SlotInv'
  <2>1. /\ wsConnectionsPerIp' = ReleaseParks({s}) /\ life' = StartTeardown({s})
        /\ {s} \in SUBSET Parked
        /\ UNCHANGED <<sock, connections, binding, draining>>
    BY <1>3 DEF Expire, EndParked, Parked, sockVars
  <2>2. CASE draining
    BY <2>1, <2>2 DEF SlotInv
  <2>3. CASE ~draining
    BY <2>1, <2>3, ParkSlotsGivenBack
  <2> QED
    BY <2>2, <2>3
<1>4. ASSUME NEW s \in Conn, TeardownDone(s)
      PROVE  SlotInv'
  <2>1. /\ life[s] = "ending" /\ life' = [life EXCEPT ![s] = "destroyed"]
        /\ connections' = [c \in Conn |-> IF connections[c] = s THEN Null ELSE connections[c]]
        /\ UNCHANGED <<sock, binding, wsConnectionsPerIp, draining>>
    BY <1>4 DEF TeardownDone, sockVars
  <2>2. \A c \in Conn : c \in Occupied' <=> c \in Occupied
    <3> TAKE c \in Conn
    <3>1. CASE connections[c] = s
      BY <2>1, <3>1 DEF Occupied, DetachedSession
    <3>2. CASE connections[c] # s
      <4>1. connections'[c] = connections[c]
        BY <2>1, <3>2
      <4>2. connections[c] # Null => life'[connections[c]] = life[connections[c]]
        BY <2>1, <3>2 DEF TypeOK
      <4> QED
        BY <2>1, <4>1, <4>2 DEF Occupied, DetachedSession
    <3> QED
      BY <3>1, <3>2
  <2>3. Occupied' = Occupied
    BY <2>2 DEF Occupied
  <2> QED
    BY <2>1, <2>3 DEF SlotInv, Slots
<1>5. ASSUME NEW c \in Conn, Settled, CloseSuperseded(c) \/ ClosePark(c) \/ CloseEnd(c)
      PROVE  SlotInv'
  <2>1. CASE draining
    BY <1>5, <2>1 DEF SlotInv, CloseSuperseded, ClosePark, CloseEnd, Closing
  <2>2. CASE ~draining
    BY <1>5, <2>2, CloseSlots
  <2> QED
    BY <2>1, <2>2
<1>6. ASSUME Drain
      PROVE  SlotInv'
  BY <1>6 DEF Drain, SlotInv
<1>7. ASSUME NEW c \in Conn, Accept(c) \/ ResumeSession(c)
      PROVE  SlotInv'
  BY <1>7, AcceptSlots, ResumeSlots
<1> QED
  BY Zenon, StepKinds, <1>1, <1>2, <1>3, <1>4, <1>5, <1>6, <1>7

\* No slot of an address is lost or given back twice: its count is its open WebSockets plus the
\* sessions without a tab that are tracked under one of its closed ones, over closes, parks,
\* takeovers, expiries and evictions (releaseWsSlot's five call sites).
THEOREM SlotsAccounted == Spec => []IpSlotsAccounted
<1>1. Init => SlotInv
  <2> SUFFICES ASSUME Init, NEW i \in Ip
               PROVE  wsConnectionsPerIp[i] = Cardinality(Slots(i))
    BY DEF SlotInv
  <2>1. Slots(i) = {} /\ wsConnectionsPerIp[i] = 0
    BY DEF Init, Slots, Occupied, Attached
  <2> QED
    BY <2>1, FS_EmptySet
<1>2. ParkInv => TypeOK /\ TokenInv /\ LinkInv /\ HoldInv
  BY DEF ParkInv
<1>3. ParkInv /\ SlotInv => IpSlotsAccounted
  BY <1>2, SlotsAreAccounted
<1> QED
  BY <1>1, <1>2, <1>3, SlotStep, ParkInvHolds, PTL DEF Spec
=============================================================================
