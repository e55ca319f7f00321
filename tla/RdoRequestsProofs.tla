------------------------- MODULE RdoRequestsProofs -------------------------
(***************************************************************************)
(* Theorems about RdoRequests, for any calls, attempts, id space and       *)
(* limits.                                                                 *)
(*                                                                         *)
(* IInv is inductive.  Its parts: the deadlines and the pending entries    *)
(* are the same set (TableInv); an open call, or the poll, has one entry   *)
(* and is on the wire when it has it (OwnInv); what a waiting call may     *)
(* still send (CallInv); and the buffer's agreement with the calls         *)
(* (BufferInv).                                                            *)
(***************************************************************************)
EXTENDS RdoRequests, WellFoundedInduction, TLAPS

(* A set of naturals that is not empty has a least element. *)
LEMMA Least ==
    ASSUME NEW T, T \subseteq Nat, T # {}
    PROVE  \E n \in T : \A m \in T : m \in Nat /\ n \in Nat /\ ~(m < n)
<1> DEFINE R == {p \in Nat \X Nat : p[1] < p[2]}
<1>1. IsWellFoundedOn(R, Nat)
  BY NatLessThanWellFounded DEF OpToRel
<1>2. PICK n \in T : \A m \in T : ~(<<m, n>> \in R)
  <2> HIDE DEF R
  <2> QED BY <1>1, WFMin
<1>3. \A m \in T : m \in Nat /\ n \in Nat /\ ~(m < n)
  <2> TAKE m \in T
  <2>1. m \in Nat /\ n \in Nat
    OBVIOUS
  <2>2. <<m, n>> \notin R
    BY <1>2
  <2> QED BY <2>1, <2>2
<1> QED BY <1>3

(***************************************************************************)
(* The filter                                                              *)
(***************************************************************************)

KeptUpTo(g, s, R, m) ==
    [n \in 0 .. m |-> IF n = 0 THEN <<>>
                      ELSE IF s[n] \in R THEN g[n - 1] ELSE Append(g[n - 1], s[n])]

(* The recursive function of Without exists. *)
LEMMA KeptExists ==
    ASSUME NEW S, NEW s \in Seq(S), NEW R
    PROVE  \E g : g = KeptUpTo(g, s, R, Len(s))
<1> DEFINE Bad == {m \in 0 .. Len(s) : \A g : g # KeptUpTo(g, s, R, m)}
<1>1. Bad = {}
  <2> SUFFICES ASSUME Bad # {} PROVE FALSE
    OBVIOUS
  <2>1. PICK x \in Bad : \A y \in Bad : y \in Nat /\ x \in Nat /\ ~(y < x)
    <3>1. Bad \subseteq Nat
      OBVIOUS
    <3> HIDE DEF Bad
    <3> QED BY Least, <3>1
  <2>2. CASE x = 0
    <3>1. [n \in 0 .. 0 |-> <<>>] = KeptUpTo([n \in 0 .. 0 |-> <<>>], s, R, 0)
      BY DEF KeptUpTo
    <3> QED BY <3>1, <2>2
  <2>3. CASE x # 0
    <3>1. x - 1 \in 0 .. Len(s) /\ x - 1 \notin Bad
      <4>1. x \in Nat /\ x - 1 \in 0 .. Len(s) /\ x - 1 < x
        BY <2>3
      <4> HIDE DEF Bad
      <4> QED BY <4>1, <2>1
    <3>2. PICK g : g = KeptUpTo(g, s, R, x - 1)
      BY <3>1
    <3> DEFINE h == [n \in 0 .. x |->
                       IF n = x THEN IF s[n] \in R THEN g[n - 1] ELSE Append(g[n - 1], s[n])
                       ELSE g[n]]
    <3>3. \A n \in 0 .. x - 1 : h[n] = g[n]
      BY <3>1
    <3>4. ASSUME NEW n \in 0 .. x
          PROVE  h[n] = KeptUpTo(h, s, R, x)[n]
      <4>1. CASE n = x
        <5>1. h[n] = IF s[n] \in R THEN g[n - 1] ELSE Append(g[n - 1], s[n])
          BY <4>1
        <5>2. h[n - 1] = g[n - 1]
          BY <4>1, <3>3, <2>3
        <5> QED BY <5>1, <5>2, <4>1, <2>3 DEF KeptUpTo
      <4>2. CASE n # x
        <5>1. n \in 0 .. x - 1 /\ (n # 0 => n - 1 \in 0 .. x - 1)
          BY <4>2, <2>3
        <5>2. h[n] = KeptUpTo(g, s, R, x - 1)[n]
          BY <5>1, <3>2, <3>3
        <5> QED BY <5>1, <5>2, <3>3 DEF KeptUpTo
      <4> QED BY <4>1, <4>2
    <3>5. h = KeptUpTo(h, s, R, x)
      BY <3>4 DEF KeptUpTo
    <3> QED BY <3>5
  <2> QED BY <2>2, <2>3
<1>2. Len(s) \in 0 .. Len(s)
  OBVIOUS
<1>3. ~(\A g : g # KeptUpTo(g, s, R, Len(s)))
  BY <1>1, <1>2
<1> QED BY <1>3, Zenon

Injective(s) == \A j, k \in DOMAIN s : s[j] = s[k] => j = k

(* Filtering keeps a sequence a sequence, drops exactly the elements of R, and brings no
   element in twice. *)
LEMMA WithoutFilters ==
    ASSUME NEW S, NEW s \in Seq(S), NEW R, Injective(s)
    PROVE  /\ Without(s, R) \in Seq(S)
           /\ ElementsOf(Without(s, R)) = ElementsOf(s) \ R
           /\ Injective(Without(s, R))
<1> DEFINE f == CHOOSE g : g = KeptUpTo(g, s, R, Len(s))
<1>0. f = KeptUpTo(f, s, R, Len(s))
  BY KeptExists, Zenon
<1>a. Without(s, R) = f[Len(s)]
  BY Zenon DEF Without, KeptUpTo
<1>1. PICK g : g = KeptUpTo(g, s, R, Len(s)) /\ Without(s, R) = g[Len(s)]
  BY <1>0, <1>a, Zenon
<1>b. \A n \in 0 .. Len(s) :
        g[n] = IF n = 0 THEN <<>> ELSE IF s[n] \in R THEN g[n - 1] ELSE Append(g[n - 1], s[n])
  BY <1>1, Zenon DEF KeptUpTo
<1> DEFINE Good(m) == /\ g[m] \in Seq(S)
                      /\ ElementsOf(g[m]) = {s[k] : k \in 1 .. m} \ R
                      /\ Injective(g[m])
           Bad == {m \in 0 .. Len(s) : ~Good(m)}
<1>2. Bad = {}
  <2> SUFFICES ASSUME Bad # {} PROVE FALSE
    OBVIOUS
  <2>1. PICK x \in Bad : \A y \in Bad : y \in Nat /\ x \in Nat /\ ~(y < x)
    <3>1. Bad \subseteq Nat
      OBVIOUS
    <3> HIDE DEF Bad
    <3> QED BY Least, <3>1
  <2>2. x # 0
    <3>1. g[0] = <<>>
      <4>1. 0 \in 0 .. Len(s)
        OBVIOUS
      <4> QED BY <1>b, <4>1, Zenon
    <3>2. <<>> \in Seq(S) /\ ElementsOf(<<>>) = {} /\ Injective(<<>>)
      BY DEF ElementsOf, Injective
    <3>3. {s[k] : k \in 1 .. 0} = {}
      OBVIOUS
    <3>4. Good(0)
      <4>1. g[0] \in Seq(S) /\ Injective(g[0])
        BY <3>1, <3>2
      <4>2. ElementsOf(g[0]) = {s[k] : k \in 1 .. 0} \ R
        BY <3>1, <3>2, <3>3
      <4> QED BY <4>1, <4>2
    <3> QED BY <3>4, <2>1
  <2>3. x \in 1 .. Len(s) /\ x - 1 \in 0 .. Len(s)
    BY <2>2
  <2>4. Good(x - 1)
    <3>1. x - 1 < x /\ x \in Nat
      BY <2>3
    <3>2. x - 1 \notin Bad
      <4> HIDE DEF Bad
      <4> QED BY <2>1, <3>1
    <3> QED BY <3>2, <2>3
  <2>5. g[x] = IF s[x] \in R THEN g[x - 1] ELSE Append(g[x - 1], s[x])
    BY <1>b, <2>3, <2>2
  <2>6. {s[k] : k \in 1 .. x} = {s[k] : k \in 1 .. x - 1} \cup {s[x]}
    BY <2>3
  <2>7. s[x] \in S /\ s[x] \notin {s[k] : k \in 1 .. x - 1}
    BY <2>3 DEF Injective
  <2>8. CASE s[x] \in R
    BY <2>4, <2>5, <2>6, <2>8
  <2>9. CASE s[x] \notin R
    <3> DEFINE t == g[x - 1]
    <3>1. t \in Seq(S) /\ g[x] = Append(t, s[x]) /\ s[x] \notin ElementsOf(t) /\ Injective(t)
      BY <2>4, <2>5, <2>7, <2>9
    <3> HIDE DEF t
    <3>2. ElementsOf(g[x]) = ElementsOf(t) \cup {s[x]}
      <4>1. DOMAIN g[x] = 1 .. Len(t) + 1 /\ DOMAIN t = 1 .. Len(t)
        BY <3>1, <2>7
      <4>2. \A k \in 1 .. Len(t) : g[x][k] = t[k]
        BY <3>1, <2>7
      <4>3. g[x][Len(t) + 1] = s[x] /\ Len(t) \in Nat
        BY <3>1, <2>7
      <4> QED BY <4>1, <4>2, <4>3 DEF ElementsOf
    <3>3. Injective(g[x]) /\ g[x] \in Seq(S)
      BY <3>1, <2>7 DEF ElementsOf, Injective
    <3> QED BY <3>2, <3>3, <2>4, <2>6, <2>9 DEF t
  <2> QED BY <2>8, <2>9
<1>3. Good(Len(s))
  <2>1. Len(s) \in 0 .. Len(s)
    OBVIOUS
  <2>2. Len(s) \notin Bad
    BY <1>2
  <2> QED BY <2>1, <2>2
<1>4. ElementsOf(s) = {s[k] : k \in 1 .. Len(s)}
  BY DEF ElementsOf
<1> QED BY <1>1, <1>3, <1>4

(***************************************************************************)
(* The inductive invariant                                                 *)
(***************************************************************************)

TableInv ==
    /\ pendingRequests \in [Id -> Entry \cup {Null}]
    /\ timers \subseteq Id \X Caller
    /\ requestIdCounter \in Id
    /\ wire \subseteq Question /\ forgotten \subseteq wire
    /\ \A i \in Id, who \in Caller : IsPending(i, who) <=> <<i, who>> \in timers
    /\ \A q \in wire : q \in forgotten \/ (~Free(q.id) /\ pendingRequests[q.id].call = q.call)

OwnInv ==
    /\ \A who \in Caller, i \in Id : IsPending(i, who) /\ Open(who) => place[who] = "wire"
    /\ \A who \in Caller, i, j \in Id : IsPending(i, who) /\ IsPending(j, who) /\ Open(who) => i = j
    /\ \A who \in Caller : place[who] = "wire" => \E i \in Id : IsPending(i, who)

Limit(r) == IF r \in Reads THEN MaxRetries ELSE 0

\* Not written yet, or on its way to be written (again).
Idle(who) ==
    IF who = Poll THEN place[who] # "wire"
    ELSE status[who] = "unsent" \/ place[who] \notin {"none", "wire"}

CallInv ==
    /\ status \in [Req -> {"unsent", "waiting", "resolved", "rejected"}]
    /\ place \in [Caller -> Places]
    /\ sends \in [Req -> Nat]
    /\ \A r \in Req : status[r] = "waiting" <=> place[r] # "none"
    /\ \A r \in Req : sends[r] <= Limit(r) + 1 /\ (Idle(r) => sends[r] <= Limit(r))

\* The buffer b holds the calls that wait in it, W aside.
Holds(b, W) ==
    /\ b \in Seq(Req) /\ Injective(b)
    /\ \A r \in Req : r \in ElementsOf(b) <=> place[r] = "buffer" /\ r \notin W
BufferInv == Holds(requestBuffer, {})

LinkInv ==
    /\ polling \in BOOLEAN /\ pollFailures \in Nat
    /\ phase \in {"away", "connected", "reconnecting"}
    /\ running \subseteq Body /\ worldReconnecting \in Body \cup {Null}

SessionInv ==
    /\ flushLoops \in Nat /\ flushDue \in BOOLEAN
    /\ isServerBusy \in BOOLEAN /\ worldSocket \in BOOLEAN
    /\ over \subseteq running
    /\ leaving \in BOOLEAN /\ isClosing \in BOOLEAN

RequestInv == TableInv /\ OwnInv /\ CallInv /\ LinkInv
IInv == RequestInv /\ BufferInv /\ SessionInv

\* What a step may not do, for the action properties.
NoneResolved == \A r \in Req : status[r] = "waiting" => status'[r] # "resolved"
OwnAnswers ==
    \A r \in Req, q \in wire \ wire' :
        status[r] = "waiting" /\ status'[r] = "resolved" => q.call = r \/ q \in forgotten
BusyHolds ==
    \A r \in Req : isServerBusy /\ isServerBusy' /\ sends'[r] > sends[r]
        => sends[r] > 0 \/ place[r] \in BetweenLooks
NothingBegins ==
    isClosing => \A who \in Caller :
        /\ place[who] = "none" => place'[who] = "none"
        /\ place'[who] = "wire" => place[who] \in BetweenLooks \cup {"wire"}

\* Only the callers of W are written, or begin to wait.
Only(W) ==
    \A x \in Caller \ W :
        /\ x \in Req => sends'[x] = sends[x]
        /\ place[x] = "none" => place'[x] = "none"
        /\ place'[x] = "wire" => place[x] = "wire"

USE RdoRequestsAssumption, NullAssumption

(* allocateRequestId finds a free id when there is one. *)
LEMMA NewIdIsFree ==
    ASSUME requestIdCounter \in Id, RoomForId
    PROVE  NewId \in Id /\ Free(NewId)
<1> DEFINE T == {k \in Id : Free(Probe(k))}
<1>1. \A k \in Nat : Probe(k) \in Id
  BY DEF Probe, Id
<1>2. PICK i \in Id : Free(i)
  BY DEF RoomForId
<1>3. \E k \in Id : Probe(k) = i
  <2>1. CASE i >= requestIdCounter
    <3>1. i - requestIdCounter \in Id /\ Probe(i - requestIdCounter) = i
      BY <2>1 DEF Id, Probe
    <3> QED BY <3>1
  <2>2. CASE i < requestIdCounter
    <3>1. (i - requestIdCounter) + IdSpace \in Id
      BY <2>2 DEF Id
    <3>2. requestIdCounter + ((i - requestIdCounter) + IdSpace) = i + IdSpace
      BY DEF Id
    <3>3. (i + IdSpace) % IdSpace = i
      BY DEF Id
    <3> QED BY <3>1, <3>2, <3>3 DEF Probe
  <2> QED BY <2>1, <2>2 DEF Id
<1>4. T # {} /\ T \subseteq Nat
  BY <1>2, <1>3 DEF Id
<1>5. PICK n \in T : \A m \in T : m \in Nat /\ n \in Nat /\ ~(m < n)
  <2> HIDE DEF T
  <2> QED BY <1>4, Least
<1>6. n \in Id /\ Free(Probe(n)) /\ \A j \in 0 .. n - 1 : ~Free(Probe(j))
  BY <1>5 DEF Id
<1> DEFINE P(k) == Free(Probe(k)) /\ \A j \in 0 .. k - 1 : ~Free(Probe(j))
           c == CHOOSE k \in Id : P(k)
<1>7. c \in Id /\ P(c)
  <2>1. \E k \in Id : P(k)
    BY <1>6
  <2> HIDE DEF P
  <2> QED BY <2>1
<1>8. NewId = Probe(c)
  BY DEF NewId
<1> QED BY <1>1, <1>7, <1>8 DEF Id

(* A registered entry keeps the table's invariant; nothing else in the table moves. *)
LEMMA RegisterKeepsTable ==
    ASSUME TableInv, RoomForId, NEW who \in Caller, Register(who),
           NEW on \in {"world", "pool", "map"},
           \/ Asked(who, on)
           \/ UNCHANGED <<wire, forgotten>>
    PROVE  /\ TableInv'
           /\ NewId \in Id /\ Free(NewId)
           /\ pendingRequests'[NewId] = [call |-> who, state |-> "pending"]
           /\ \A i \in Id : i # NewId => pendingRequests'[i] = pendingRequests[i]
<1> DEFINE n == NewId
           e == [call |-> who, state |-> "pending"]
<1>1. n \in Id /\ Free(n)
  BY NewIdIsFree DEF TableInv
<1>2. /\ pendingRequests' = [pendingRequests EXCEPT ![n] = e]
      /\ timers' = timers \cup {<<n, who>>}
      /\ requestIdCounter' = (n + 1) % IdSpace
  BY DEF Register
<1>3. wire' \subseteq wire \cup {[id |-> n, call |-> who, on |-> on]} /\ wire \subseteq wire'
      /\ forgotten \ {[id |-> n, call |-> who, on |-> on]} \subseteq forgotten' /\ forgotten' \subseteq wire'
  BY DEF Asked, TableInv
<1> HIDE DEF n
<1>4. e \in Entry /\ e # Null /\ [id |-> n, call |-> who, on |-> on] \in Question
  BY <1>1 DEF Entry, Question
<1>5. requestIdCounter' \in Id
  BY <1>1, <1>2 DEF Id
<1>6. \A i \in Id : pendingRequests'[i] = IF i = n THEN e ELSE pendingRequests[i]
  BY <1>1, <1>2 DEF TableInv
<1>7. \A i \in Id, w \in Caller : IsPending(i, w)' <=> <<i, w>> \in timers'
  <2> TAKE i \in Id, w \in Caller
  <2>1. CASE i = n
    <3>1. IsPending(i, w)' <=> w = who
      BY <1>6, <2>1 DEF IsPending
    <3>2. ~IsPending(i, w)
      BY <1>1, <2>1 DEF IsPending, Free, Entry
    <3> QED BY <1>2, <2>1, <3>1, <3>2 DEF TableInv
  <2>2. CASE i # n
    BY <1>2, <1>6, <2>2 DEF IsPending, TableInv
  <2> QED BY <2>1, <2>2
<1>8. \A q \in wire' : q \in forgotten' \/ (~Free(q.id)' /\ pendingRequests'[q.id].call = q.call)
  <2> TAKE q \in wire'
  <2>1. CASE q = [id |-> n, call |-> who, on |-> on]
    BY <1>1, <1>4, <1>6, <2>1 DEF Free
  <2>2. CASE q # [id |-> n, call |-> who, on |-> on]
    <3>1. q \in wire /\ q.id \in Id /\ (q \in forgotten => q \in forgotten')
      BY <1>3, <2>2 DEF TableInv, Question
    <3> QED BY <1>1, <1>6, <3>1 DEF TableInv, Free
  <2> QED BY <2>1, <2>2
<1>9. wire' \subseteq Question /\ timers' \subseteq Id \X Caller
  BY <1>1, <1>2, <1>3, <1>4 DEF TableInv
<1>10. pendingRequests' \in [Id -> Entry \cup {Null}]
  BY <1>1, <1>2, <1>4 DEF TableInv
<1> QED BY <1>1, <1>3, <1>5, <1>6, <1>7, <1>8, <1>9, <1>10 DEF TableInv, n

(* A caller that is idle has no entry in the table. *)
LEMMA IdleIsOpen ==
    ASSUME OwnInv, CallInv, NEW who \in Caller, Idle(who)
    PROVE  Open(who) /\ place[who] # "wire" /\ \A i \in Id : ~IsPending(i, who)
<1>1. Open(who) /\ place[who] # "wire"
  BY DEF Idle, CallInv, Open, Caller
<1> QED BY <1>1 DEF OwnInv

(* Writing a frame, or failing to, keeps the invariants and moves that caller alone. *)
LEMMA WriteStep ==
    ASSUME TableInv, OwnInv, CallInv, NEW who \in Caller, Idle(who),
           NEW on \in {"world", "pool", "map"}, NEW b, Write(who, on, b)
    PROVE  /\ TableInv' /\ OwnInv' /\ CallInv' /\ NoneResolved
           /\ \A x \in Caller \ {who} : place'[x] = place[x]
           /\ place'[who] \in {"wire", "none"} /\ Only({who})
           /\ requestBuffer' = b /\ UNCHANGED <<pollVars, attemptVars>>
<1> DEFINE n == NewId
<1>1. /\ TableInv' /\ n \in Id /\ Free(n)
      /\ pendingRequests'[n] = [call |-> who, state |-> "pending"]
      /\ \A i \in Id : i # n => pendingRequests'[i] = pendingRequests[i]
  BY RegisterKeepsTable DEF Write
<1> HIDE DEF n
<1>2. \A i \in Id, w \in Caller : IsPending(i, w)' <=> IF i = n THEN w = who ELSE IsPending(i, w)
  BY <1>1 DEF IsPending
<1>3. Open(who) /\ \A i \in Id : ~IsPending(i, who)
  BY IdleIsOpen
<1>4. /\ \A x \in Caller : x # who => place'[x] = place[x]
      /\ \A x \in Req : x # who => sends'[x] = sends[x] /\ status'[x] = status[x]
  BY DEF Write, WaitAt, Settle, CallInv
<1>5. /\ place' \in [Caller -> Places] /\ sends' \in [Req -> Nat]
      /\ status' \in [Req -> {"unsent", "waiting", "resolved", "rejected"}]
  BY DEF Write, WaitAt, Settle, CallInv, Places, Waits
<1>6. \/ /\ place'[who] = "wire"
         /\ who \in Req => status'[who] = "waiting" /\ sends'[who] = sends[who] + 1
      \/ /\ who # Poll /\ place'[who] = "none"
         /\ who \in Req => status'[who] = "rejected" /\ sends'[who] = sends[who]
  BY <1>3 DEF Write, WaitAt, Settle, CallInv
<1>7. CallInv'
  <2>1. ASSUME NEW x \in Req
        PROVE  /\ status'[x] = "waiting" <=> place'[x] # "none"
               /\ sends'[x] <= Limit(x) + 1 /\ (Idle(x)' => sends'[x] <= Limit(x))
    <3>1. x \in Caller /\ x # Poll
      BY DEF Caller
    <3>2. CASE x = who
      <4>1. sends[x] <= Limit(x) /\ sends[x] \in Nat /\ Limit(x) \in Nat
        BY <3>2 DEF CallInv, Limit
      <4> QED BY <1>6, <3>1, <3>2, <4>1 DEF Idle
    <3>3. CASE x # who
      BY <1>4, <3>1, <3>3 DEF Idle, CallInv
    <3> QED BY <3>2, <3>3
  <2> QED BY <1>5, <2>1 DEF CallInv
<1>8. OwnInv'
  <2>1. \A x \in Caller, i \in Id : IsPending(i, x)' /\ Open(x)' => place'[x] = "wire"
    <3> SUFFICES ASSUME NEW x \in Caller, NEW i \in Id, IsPending(i, x)', Open(x)'
                 PROVE  place'[x] = "wire"
      OBVIOUS
    <3>1. CASE x = who
      BY <1>6, <3>1 DEF Open, Caller
    <3>2. CASE x # who
      BY <1>2, <1>4, <3>2 DEF OwnInv, Open
    <3> QED BY <3>1, <3>2
  <2>2. \A x \in Caller, i, j \in Id : IsPending(i, x)' /\ IsPending(j, x)' /\ Open(x)' => i = j
    <3> SUFFICES ASSUME NEW x \in Caller, NEW i \in Id, NEW j \in Id,
                        IsPending(i, x)', IsPending(j, x)', Open(x)'
                 PROVE  i = j
      OBVIOUS
    <3>1. CASE x = who
      BY <1>2, <1>3, <3>1
    <3>2. CASE x # who
      BY <1>2, <1>4, <3>2 DEF OwnInv, Open
    <3> QED BY <3>1, <3>2
  <2>3. \A x \in Caller : place'[x] = "wire" => \E i \in Id : IsPending(i, x)'
    <3> SUFFICES ASSUME NEW x \in Caller, place'[x] = "wire" PROVE \E i \in Id : IsPending(i, x)'
      OBVIOUS
    <3>1. CASE x = who
      BY <1>1, <1>2, <3>1
    <3>2. CASE x # who
      <4>1. PICK i \in Id : IsPending(i, x)
        BY <1>4, <3>2 DEF OwnInv
      <4>2. i # n
        BY <1>1, <4>1 DEF IsPending, Free, Entry
      <4> QED BY <1>2, <4>1, <4>2
    <3> QED BY <3>1, <3>2
  <2> QED BY <2>1, <2>2, <2>3 DEF OwnInv
<1>9. NoneResolved
  BY <1>4, <1>6 DEF NoneResolved
<1>10. Only({who})
  BY <1>4 DEF Only
<1> QED BY <1>1, <1>4, <1>6, <1>7, <1>8, <1>9, <1>10 DEF Write

\* What a step that writes nothing may do to a caller: settle its call, send it to wait where
\* it has no entry, or let it be.
Settled(x) ==
    /\ place'[x] = "none"
    /\ IF x = Poll THEN \A i \in Id : ~IsPending(i, Poll)'
                   ELSE status'[x] \in {"resolved", "rejected"}
Parked(x) ==
    /\ place'[x] \notin {"none", "wire"}
    /\ \A i \in Id : ~IsPending(i, x)'
    /\ x # Poll => status'[x] = "waiting" /\ sends[x] <= Limit(x)
Kept(x) ==
    /\ place'[x] = place[x] /\ (x # Poll => status'[x] = status[x])
    /\ place[x] = "wire" => \A i \in Id : IsPending(i, x) => IsPending(i, x)'

LEMMA CallsStep ==
    ASSUME OwnInv, CallInv, UNCHANGED sends,
           place' \in [Caller -> Places],
           status' \in [Req -> {"unsent", "waiting", "resolved", "rejected"}],
           \A i \in Id, x \in Caller : IsPending(i, x)' => IsPending(i, x),
           \A x \in Caller : Settled(x) \/ Parked(x) \/ Kept(x)
    PROVE  OwnInv' /\ CallInv'
<1>1. CallInv'
  <2>1. ASSUME NEW x \in Req
        PROVE  /\ status'[x] = "waiting" <=> place'[x] # "none"
               /\ sends'[x] <= Limit(x) + 1 /\ (Idle(x)' => sends'[x] <= Limit(x))
    <3>1. x \in Caller /\ x # Poll
      BY DEF Caller
    <3>2. sends'[x] = sends[x] /\ sends[x] <= Limit(x) + 1
      BY DEF CallInv
    <3>3. CASE Settled(x)
      BY <3>1, <3>2, <3>3 DEF Settled, Idle
    <3>4. CASE Parked(x)
      BY <3>1, <3>2, <3>4 DEF Parked
    <3>5. CASE Kept(x)
      BY <3>1, <3>2, <3>5 DEF Kept, Idle, CallInv
    <3> QED BY <3>1, <3>3, <3>4, <3>5
  <2>2. sends' \in [Req -> Nat]
    BY DEF CallInv
  <2> QED BY <2>1, <2>2 DEF CallInv
<1>2. ASSUME NEW x \in Caller, NEW i \in Id, IsPending(i, x)', Open(x)'
      PROVE  Kept(x) /\ Open(x) /\ IsPending(i, x)
  <2>1. ~Parked(x)
    BY <1>2 DEF Parked
  <2>2. ~Settled(x)
    BY <1>2 DEF Settled, Open
  <2>3. Kept(x) /\ IsPending(i, x)
    BY <1>2, <2>1, <2>2
  <2> QED BY <1>2, <2>3 DEF Kept, Open
<1>3. ASSUME NEW x \in Caller, place'[x] = "wire" PROVE \E i \in Id : IsPending(i, x)'
  <2>1. Kept(x)
    BY <1>3 DEF Settled, Parked
  <2>2. PICK i \in Id : IsPending(i, x)
    BY <1>3, <2>1 DEF Kept, OwnInv
  <2> QED BY <1>3, <2>1, <2>2 DEF Kept
<1>4. OwnInv'
  <2>1. \A x \in Caller, i \in Id : IsPending(i, x)' /\ Open(x)' => place'[x] = "wire"
    BY <1>2 DEF OwnInv, Kept
  <2>2. \A x \in Caller, i, j \in Id : IsPending(i, x)' /\ IsPending(j, x)' /\ Open(x)' => i = j
    BY <1>2 DEF OwnInv
  <2> QED BY <1>3, <2>1, <2>2 DEF OwnInv
<1> QED BY <1>1, <1>4

(* An entry leaves the table, and the question it was for with it or forgotten. *)
LEMMA RemovalKeepsTable ==
    ASSUME TableInv, NEW i \in Id, ~Free(i),
           pendingRequests' = [pendingRequests EXCEPT ![i] = Null],
           timers' = timers \ {<<i, pendingRequests[i].call>>},
           wire' \subseteq wire, forgotten' \subseteq wire', forgotten \cap wire' \subseteq forgotten',
           \A q \in wire' : q.id = i /\ q.call = pendingRequests[i].call => q \in forgotten',
           UNCHANGED requestIdCounter
    PROVE  /\ TableInv'
           /\ \A j \in Id, w \in Caller : IsPending(j, w)' <=> j # i /\ IsPending(j, w)
<1>1. \A j \in Id : pendingRequests'[j] = IF j = i THEN Null ELSE pendingRequests[j]
  BY DEF TableInv
<1>2. \A j \in Id, w \in Caller : IsPending(j, w)' <=> j # i /\ IsPending(j, w)
  BY <1>1 DEF IsPending, Entry
<1>3. \A j \in Id, w \in Caller : IsPending(j, w)' <=> <<j, w>> \in timers'
  <2> TAKE j \in Id, w \in Caller
  <2>1. CASE j # i
    BY <1>2, <2>1 DEF TableInv
  <2>2. CASE j = i
    <3>1. <<j, w>> \in timers => pendingRequests[i].call = w
      BY <2>2 DEF TableInv, IsPending
    <3> QED BY <1>2, <2>2, <3>1
  <2> QED BY <2>1, <2>2
<1>4. \A q \in wire' : q \in forgotten' \/ (~Free(q.id)' /\ pendingRequests'[q.id].call = q.call)
  <2> TAKE q \in wire'
  <2>1. q \in wire /\ q.id \in Id
    BY DEF TableInv, Question
  <2>2. q \in forgotten \/ (~Free(q.id) /\ pendingRequests[q.id].call = q.call)
    BY <2>1 DEF TableInv
  <2> QED BY <1>1, <2>1, <2>2 DEF Free
<1>5. pendingRequests' \in [Id -> Entry \cup {Null}]
  BY DEF TableInv
<1> QED BY <1>2, <1>3, <1>4, <1>5 DEF TableInv

(* A drain leaves no entry and no deadline. *)
LEMMA DrainKeepsTable ==
    ASSUME TableInv, DrainTable, wire' \subseteq wire, forgotten' = wire'
    PROVE  /\ TableInv' /\ timers' = {} /\ \A j \in Id : Free(j)'
           /\ \A j \in Id, w \in Caller : ~IsPending(j, w)'
<1>1. \A j \in Id : pendingRequests'[j] = Null
  BY DEF DrainTable
<1>2. \A j \in Id, w \in Caller : ~IsPending(j, w)'
  <2>1. \A w \in Caller : [call |-> w, state |-> "pending"] \in Entry
    BY DEF Entry
  <2> QED BY <1>1, <2>1 DEF IsPending
<1>3. timers' = {}
  <2>1. \A t \in timers : ~Free(t[1]) /\ pendingRequests[t[1]] = [call |-> t[2], state |-> "pending"]
    <3> TAKE t \in timers
    <3>1. t = <<t[1], t[2]>> /\ t[1] \in Id /\ t[2] \in Caller
      BY DEF TableInv
    <3>2. IsPending(t[1], t[2])
      BY <3>1 DEF TableInv
    <3>3. [call |-> t[2], state |-> "pending"] \in Entry
      BY <3>1 DEF Entry
    <3> QED BY <3>2, <3>3 DEF IsPending, Free
  <2> QED BY <2>1 DEF DrainTable
<1>4. pendingRequests' \in [Id -> Entry \cup {Null}] /\ requestIdCounter' \in Id
  BY DEF DrainTable, TableInv
<1> QED BY <1>1, <1>2, <1>3, <1>4 DEF TableInv, Free

(***************************************************************************)
(* A caller is taken up by executeRdoRequest                               *)
(***************************************************************************)

\* The invariants hold after a step that takes up the callers of W.
Took(W) ==
    /\ RequestInv' /\ BufferInv' /\ running \subseteq running'
    /\ NoneResolved /\ Only(W)

LEMMA PollType ==
    ASSUME LinkInv, PollFails \/ PollStopped \/ UNCHANGED pollVars
    PROVE  polling' \in BOOLEAN /\ pollFailures' \in Nat
<1>1. polling' \in BOOLEAN
  BY Zenon DEF LinkInv, PollFails, PollStopped, pollVars
<1>2. pollFailures' \in Nat
  BY DEF LinkInv, PollFails, PollStopped, pollVars
<1> QED BY <1>1, <1>2

LEMMA TableUnmoved ==
    ASSUME TableInv, UNCHANGED tableVars
    PROVE  TableInv' /\ \A i \in Id, w \in Caller : IsPending(i, w)' <=> IsPending(i, w)
BY DEF TableInv, tableVars, IsPending, Free

(* Promises settle while nothing moves in the table, or their entries leave it. *)
LEMMA SettleStep ==
    ASSUME OwnInv, CallInv, NEW R \in SUBSET Caller, NEW how \in {"resolved", "rejected"},
           Settle(R, how), UNCHANGED sends,
           \A i \in Id, w \in Caller : IsPending(i, w)' => IsPending(i, w),
           \A i \in Id, w \in Caller \ R : IsPending(i, w) => IsPending(i, w)',
           Poll \in R => \A i \in Id : ~IsPending(i, Poll)'
    PROVE  /\ OwnInv' /\ CallInv' /\ Only({})
           /\ \A x \in Caller : place'[x] = IF x \in R THEN "none" ELSE place[x]
           /\ how = "rejected" => NoneResolved
<1>1. /\ place' \in [Caller -> Places]
      /\ status' \in [Req -> {"unsent", "waiting", "resolved", "rejected"}]
  BY DEF Settle, CallInv, Places, Waits
<1>2. /\ \A x \in Caller : place'[x] = IF x \in R THEN "none" ELSE place[x]
      /\ \A x \in Req : status'[x] = IF x \in R /\ Open(x) THEN how ELSE status[x]
  BY DEF Settle
<1>3. ASSUME NEW x \in Caller PROVE Settled(x) \/ Parked(x) \/ Kept(x)
  <2>1. CASE x \in R
    <3>1. x # Poll => x \in Req
      BY DEF Caller
    <3>2. x # Poll => status'[x] \in {"resolved", "rejected"}
      BY <1>2, <2>1, <3>1 DEF Open, CallInv
    <3> QED BY <1>2, <2>1, <3>2 DEF Settled
  <2>2. CASE x \notin R
    BY <1>2, <2>2 DEF Kept, Caller
  <2> QED BY <2>1, <2>2
<1>4. OwnInv' /\ CallInv'
  BY <1>1, <1>3, CallsStep
<1> QED BY <1>2, <1>4 DEF Only, NoneResolved

LEMMA WriteTook ==
    ASSUME RequestInv, NEW who \in Caller, Idle(who), NEW b, Holds(b, {who}),
           NEW on \in {"world", "pool", "map"}, Write(who, on, b)
    PROVE  Took({who})
<1>1. /\ TableInv' /\ OwnInv' /\ CallInv' /\ NoneResolved
      /\ \A x \in Caller \ {who} : place'[x] = place[x]
      /\ place'[who] \in {"wire", "none"} /\ Only({who})
      /\ requestBuffer' = b /\ UNCHANGED <<pollVars, attemptVars>>
  BY WriteStep DEF RequestInv
<1>2. LinkInv' /\ running \subseteq running'
  BY <1>1 DEF RequestInv, LinkInv, pollVars, attemptVars
<1>3. BufferInv'
  BY <1>1 DEF BufferInv, Holds, Caller
<1> QED BY <1>1, <1>2, <1>3 DEF Took, RequestInv

LEMMA RefusedTook ==
    ASSUME RequestInv, NEW who \in Caller, Idle(who), NEW b, Holds(b, {who}), Refused(who, b)
    PROVE  Took({}) /\ UNCHANGED sends
<1>1. /\ Settle({who}, "rejected") /\ requestBuffer' = b
      /\ UNCHANGED <<sends, tableVars, attemptVars>> /\ (PollFails \/ UNCHANGED pollVars)
  BY DEF Refused, Reject
<1>2. TableInv' /\ \A i \in Id, w \in Caller : IsPending(i, w)' <=> IsPending(i, w)
  BY <1>1, TableUnmoved DEF RequestInv
<1>3. \A i \in Id : ~IsPending(i, who)'
  BY <1>2, IdleIsOpen DEF RequestInv
<1>4. /\ OwnInv' /\ CallInv' /\ Only({}) /\ NoneResolved
      /\ \A x \in Caller : place'[x] = IF x \in {who} THEN "none" ELSE place[x]
  <2>1. {who} \in SUBSET Caller /\ (Poll \in {who} => \A i \in Id : ~IsPending(i, Poll)')
    BY <1>3
  <2>2. \A i \in Id, w \in Caller \ {who} : IsPending(i, w) => IsPending(i, w)'
    BY <1>2
  <2>3. \A i \in Id, w \in Caller : IsPending(i, w)' => IsPending(i, w)
    BY <1>2
  <2> QED BY <1>1, <2>1, <2>2, <2>3, SettleStep DEF RequestInv
<1>5. LinkInv' /\ running \subseteq running'
  <2>1. polling' \in BOOLEAN /\ pollFailures' \in Nat
    BY <1>1, PollType DEF RequestInv
  <2> QED BY <1>1, <2>1 DEF RequestInv, LinkInv, attemptVars
<1>6. BufferInv'
  BY <1>1, <1>4 DEF BufferInv, Holds, Caller
<1> QED BY <1>1, <1>2, <1>4, <1>5, <1>6 DEF Took, RequestInv

LEMMA WaitingTook ==
    ASSUME RequestInv, NEW who \in Caller, Idle(who), NEW b,
           NEW where \in Places \ {"none", "wire"}, Waiting(who, where, b),
           \/ where # "buffer" /\ Holds(b, {who})
           \/ where = "buffer" /\ Holds(requestBuffer, {who})
              /\ who \in Req /\ b = Append(requestBuffer, who)
    PROVE  Took({who}) /\ UNCHANGED sends /\ place'[who] = where
<1>1. /\ UNCHANGED <<sends, tableVars, pollVars, attemptVars>> /\ requestBuffer' = b
      /\ status' = [r \in Req |-> IF r = who THEN "waiting" ELSE status[r]]
      /\ place' = [place EXCEPT ![who] = where]
  BY DEF Waiting, WaitAt
<1>2. TableInv' /\ \A i \in Id, w \in Caller : IsPending(i, w)' <=> IsPending(i, w)
  BY <1>1, TableUnmoved DEF RequestInv
<1>3. \A i \in Id : ~IsPending(i, who)'
  BY <1>2, IdleIsOpen DEF RequestInv
<1>4. /\ place' \in [Caller -> Places] /\ place'[who] = where
      /\ status' \in [Req -> {"unsent", "waiting", "resolved", "rejected"}]
      /\ \A x \in Caller : x # who => place'[x] = place[x] /\ (x # Poll => status'[x] = status[x])
      /\ who # Poll => status'[who] = "waiting"
  BY <1>1 DEF RequestInv, CallInv, Caller
<1>5. ASSUME NEW x \in Caller PROVE Settled(x) \/ Parked(x) \/ Kept(x)
  <2>1. CASE x = who
    <3>1. x # Poll => sends[x] <= Limit(x)
      BY <2>1 DEF RequestInv, CallInv, Caller
    <3> QED BY <1>3, <1>4, <2>1, <3>1 DEF Parked
  <2>2. CASE x # who
    BY <1>2, <1>4, <2>2 DEF Kept
  <2> QED BY <2>1, <2>2
<1>6. OwnInv' /\ CallInv'
  BY <1>1, <1>2, <1>4, <1>5, CallsStep DEF RequestInv
<1>7. LinkInv' /\ running \subseteq running'
  BY <1>1 DEF RequestInv, LinkInv, pollVars, attemptVars
<1>8. NoneResolved /\ Only({who})
  BY <1>1, <1>4 DEF NoneResolved, Only, Caller
<1>9. BufferInv'
  <2>1. CASE where # "buffer" /\ Holds(b, {who})
    BY <1>1, <1>4, <2>1 DEF BufferInv, Holds, Caller
  <2>2. CASE where = "buffer" /\ who \in Req /\ b = Append(requestBuffer, who)
             /\ Holds(requestBuffer, {who})
    <3> DEFINE s == requestBuffer
    <3>1. s \in Seq(Req) /\ Injective(s) /\ who \notin ElementsOf(s)
      BY <2>2 DEF Holds
    <3> HIDE DEF s
    <3>2. Append(s, who) \in Seq(Req) /\ Injective(Append(s, who))
      BY <2>2, <3>1 DEF ElementsOf, Injective
    <3>3. ElementsOf(Append(s, who)) = ElementsOf(s) \cup {who}
      <4>1. DOMAIN Append(s, who) = 1 .. Len(s) + 1 /\ DOMAIN s = 1 .. Len(s)
        BY <2>2, <3>1
      <4>2. \A k \in 1 .. Len(s) : Append(s, who)[k] = s[k]
        BY <2>2, <3>1
      <4>3. Append(s, who)[Len(s) + 1] = who /\ Len(s) \in Nat
        BY <2>2, <3>1
      <4> QED BY <4>1, <4>2, <4>3 DEF ElementsOf
    <3>4. \A x \in Req : place'[x] = "buffer" <=> x \in ElementsOf(s) \cup {who}
      BY <1>4, <2>2 DEF s, Holds, Caller
    <3>5. requestBuffer' = Append(s, who)
      BY <1>1, <2>2 DEF s
    <3>6. /\ requestBuffer' \in Seq(Req) /\ Injective(requestBuffer')
          /\ ElementsOf(requestBuffer') = ElementsOf(s) \cup {who}
      BY ONLY <3>2, <3>3, <3>5
    <3>7. \A x \in Req : x \in ElementsOf(requestBuffer') <=> place'[x] = "buffer"
      BY ONLY <3>4, <3>6
    <3> QED BY <3>6, <3>7 DEF BufferInv, Holds
  <2> QED BY <2>1, <2>2
<1> QED BY <1>1, <1>2, <1>4, <1>6, <1>7, <1>8, <1>9 DEF Took, RequestInv

(* A new attempt rejects what is in the table and the world's calls in the buffer; those of W
   wait for its end. *)
LEMMA StartTook ==
    ASSUME RequestInv, NEW W \in SUBSET Caller, \A w \in W : Idle(w), NEW b, Holds(b, W),
           NEW a \in Body, NEW gone, StartAttempt(a, W, b, gone)
    PROVE  Took(W) /\ UNCHANGED sends
<1> DEFINE R == InTable \cup (ElementsOf(b) \cap WorldCalls)
<1>1. /\ DrainTable /\ wire' \subseteq wire /\ forgotten' = wire' /\ UNCHANGED sends /\ PollStopped
      /\ worldReconnecting' = a /\ running' = running \cup {a} /\ phase' = "reconnecting"
      /\ status' = [r \in Req |-> IF r \in R /\ Open(r) THEN "rejected"
                                  ELSE IF r \in W THEN "waiting" ELSE status[r]]
      /\ place' = [w \in Caller |-> IF w \in R THEN "none" ELSE IF w \in W THEN a ELSE place[w]]
      /\ requestBuffer' = Without(b, WorldCalls)
  BY DEF StartAttempt, RestOfBuffer
<1>2. TableInv' /\ \A i \in Id, w \in Caller : ~IsPending(i, w)'
  BY <1>1, DrainKeepsTable DEF RequestInv
<1>3. \A i \in Id, w \in Caller : IsPending(i, w) => w \in InTable
  <2> SUFFICES ASSUME NEW i \in Id, NEW w \in Caller, IsPending(i, w) PROVE w \in InTable
    OBVIOUS
  <2>1. /\ ~Free(i) /\ pendingRequests[i].state = "pending" /\ pendingRequests[i].call = w
    BY DEF IsPending, Free, Entry
  <2> QED BY <2>1 DEF InTable
<1>4. ASSUME NEW w \in Caller, w \in InTable
      PROVE  /\ w \notin W
             /\ Open(w) => place[w] = "wire"
  <2>1. PICK i \in Id : ~Free(i) /\ pendingRequests[i].state = "pending" /\ pendingRequests[i].call = w
    BY <1>4 DEF InTable
  <2>2. IsPending(i, w)
    BY <2>1 DEF IsPending, Free, Entry, RequestInv, TableInv
  <2> QED BY <2>2, IdleIsOpen DEF RequestInv, OwnInv
<1>5. ASSUME NEW w \in Caller, w \in ElementsOf(b)
      PROVE  w \notin W /\ w \in Req /\ place[w] = "buffer"
  BY <1>5 DEF Holds, ElementsOf
<1>6. \A w \in Caller : w \in R => w \notin W
  BY <1>4, <1>5
<1>7. a \in Places /\ a \notin Waits
  BY DEF Places
<1>8. place' \in [Caller -> Places]
      /\ status' \in [Req -> {"unsent", "waiting", "resolved", "rejected"}]
  <2> HIDE DEF R
  <2> QED BY <1>1, <1>7 DEF RequestInv, CallInv, Places, Waits
<1>9. ASSUME NEW x \in Caller PROVE Settled(x) \/ Parked(x) \/ Kept(x)
  <2>1. CASE x \in R
    <3>1. place'[x] = "none"
      BY <1>1, <2>1
    <3>2. x # Poll => status'[x] \in {"resolved", "rejected"}
      <4>1. x # Poll => x \in Req
        BY DEF Caller
      <4>2. x \notin W
        BY <1>6, <2>1
      <4> HIDE DEF R
      <4> QED BY <1>1, <2>1, <4>1, <4>2 DEF Open, RequestInv, CallInv
    <3> QED BY <1>2, <3>1, <3>2 DEF Settled
  <2>2. CASE x \in W
    <3>1. x \notin R
      BY <1>6, <2>2
    <3>2. place'[x] = a /\ (x # Poll => status'[x] = "waiting")
      <4> HIDE DEF R
      <4> QED BY <1>1, <2>2, <3>1 DEF Caller
    <3>3. x # Poll => sends[x] <= Limit(x)
      BY <2>2 DEF RequestInv, CallInv, Caller
    <3> QED BY <1>2, <1>7, <3>2, <3>3 DEF Parked, Waits
  <2>3. CASE x \notin R /\ x \notin W
    <3>1. place'[x] = place[x] /\ (x # Poll => status'[x] = status[x])
      <4> HIDE DEF R
      <4> QED BY <1>1, <2>3 DEF Caller
    <3>2. place[x] # "wire"
      BY <1>3, <2>3 DEF RequestInv, OwnInv
    <3> QED BY <3>1, <3>2 DEF Kept
  <2> QED BY <2>1, <2>2, <2>3
<1>10. OwnInv' /\ CallInv'
  BY <1>1, <1>2, <1>8, <1>9, CallsStep DEF RequestInv
<1>11. LinkInv' /\ running \subseteq running'
  <2>1. polling' \in BOOLEAN /\ pollFailures' \in Nat
    BY <1>1, PollType DEF RequestInv
  <2> QED BY <1>1, <2>1 DEF RequestInv, LinkInv
<1>12. NoneResolved /\ Only(W)
  <2>1. NoneResolved
    <3> HIDE DEF R
    <3> QED BY <1>1 DEF NoneResolved
  <2>2. \A x \in Caller \ W : place'[x] \in {"none", place[x]}
    <3> HIDE DEF R
    <3> QED BY <1>1
  <2> QED BY <1>1, <2>1, <2>2 DEF Only
<1>13. BufferInv'
  <2>1. b \in Seq(Req) /\ Injective(b)
    BY DEF Holds
  <2>2. /\ requestBuffer' \in Seq(Req) /\ Injective(requestBuffer')
        /\ ElementsOf(requestBuffer') = ElementsOf(b) \ WorldCalls
    BY <1>1, <2>1, WithoutFilters
  <2>3. ASSUME NEW r \in Req
        PROVE  place'[r] = "buffer" <=> r \in ElementsOf(b) \ WorldCalls
    <3>1. r \in Caller
      BY DEF Caller
    <3>2. place[r] = "buffer" => r \notin InTable
      BY <1>4, <3>1 DEF RequestInv, CallInv, Open
    <3>3. place'[r] = "buffer" <=> r \notin R /\ r \notin W /\ place[r] = "buffer"
      <4> HIDE DEF R
      <4> QED BY <1>1, <1>7, <3>1 DEF Waits
    <3>4. r \in ElementsOf(b) <=> place[r] = "buffer" /\ r \notin W
      BY DEF Holds
    <3> QED BY <3>2, <3>3, <3>4
  <2> QED BY <2>2, <2>3 DEF BufferInv, Holds
<1> QED BY <1>1, <1>2, <1>10, <1>11, <1>12, <1>13 DEF Took, RequestInv

LEMMA OnlyFewer ==
    ASSUME NEW W, Took({})
    PROVE  Took(W)
BY DEF Took, Only

LEMMA ReconnectTook ==
    ASSUME RequestInv, NEW who \in Caller, Idle(who), NEW b, Holds(b, {who}), Reconnect(who, b)
    PROVE  Took({who}) /\ UNCHANGED sends
<1>1. CASE worldReconnecting # Null /\ Waiting(who, worldReconnecting, b)
  <2>1. PICK where \in Places \ {"none", "wire"} : where = worldReconnecting /\ where # "buffer"
    <3>1. worldReconnecting \in Places /\ worldReconnecting \notin Waits
      BY <1>1 DEF RequestInv, LinkInv, Places
    <3> QED BY <3>1 DEF Waits
  <2>2. Waiting(who, where, b) /\ where # "buffer"
    BY <1>1, <2>1
  <2> QED BY <2>2, WaitingTook
<1>2. ASSUME NEW a \in Body, StartAttempt(a, {who}, b, {}) PROVE Took({who}) /\ UNCHANGED sends
  <2>1. {who} \in SUBSET Caller /\ \A w \in {who} : Idle(w)
    OBVIOUS
  <2> QED BY <1>2, <2>1, StartTook
<1>3. CASE Refused(who, b)
  BY <1>3, RefusedTook, OnlyFewer
<1>4. CASE Waiting(who, "poolAgain", b)
  <2>1. "poolAgain" \in Places \ {"none", "wire"}
    BY DEF Places, Waits
  <2> QED BY <1>4, <2>1, WaitingTook
<1> QED BY <1>1, <1>2, <1>3, <1>4 DEF Reconnect

LEMMA OnSocketTook ==
    ASSUME RequestInv, NEW who \in Caller, Idle(who), NEW b, Holds(b, {who}), OnSocket(who, b)
    PROVE  Took({who})
<1>1. \A on \in {"world", "pool", "map"} : Write(who, on, b) => Took({who})
  BY WriteTook
<1>2. Reconnect(who, b) => Took({who})
  BY ReconnectTook
<1>3. Refused(who, b) => Took({who})
  BY RefusedTook, OnlyFewer
<1> QED BY <1>1, <1>2, <1>3 DEF OnSocket

(* executeRdoRequest: the caller is refused, waits for a connection, or is written. *)
LEMMA ExecuteTook ==
    ASSUME RequestInv, NEW who \in Caller, Idle(who), NEW b, Holds(b, {who}), Execute(who, b)
    PROVE  Took({who})
<1>1. CASE Waiting(who, "pool", b)
  <2>1. "pool" \in Places \ {"none", "wire"}
    BY DEF Places, Waits
  <2> QED BY <1>1, <2>1, WaitingTook
<1>2. CASE OnSocket(who, b)
  BY <1>2, OnSocketTook
<1> QED BY <1>1, <1>2 DEF Execute

(***************************************************************************)
(* The actions                                                             *)
(***************************************************************************)

Good == IInv' /\ BusyHolds /\ NothingBegins
Step == Good /\ NoneResolved

\* A caller may be written when neither flag stops it, or when it waits where they are not read.
LEMMA OnlyIsGood ==
    ASSUME CallInv, NEW W, Only(W),
           \/ ~isServerBusy /\ ~isClosing
           \/ \A who \in W : place[who] \in BetweenLooks
    PROVE  BusyHolds /\ NothingBegins
<1>1. BusyHolds
  <2> SUFFICES ASSUME NEW r \in Req, isServerBusy, sends'[r] > sends[r]
               PROVE  place[r] \in BetweenLooks
    BY DEF BusyHolds
  <2>1. r \in Caller /\ sends[r] \in Nat
    BY DEF Caller, CallInv
  <2>2. sends'[r] # sends[r]
    BY <2>1
  <2> QED BY <2>1, <2>2 DEF Only
<1>2. NothingBegins
  BY DEF NothingBegins, Only, BetweenLooks
<1> QED BY <1>1, <1>2

LEMMA TookStep ==
    ASSUME IInv, NEW W, Took(W), SessionInv',
           \/ ~isServerBusy /\ ~isClosing
           \/ \A who \in W : place[who] \in BetweenLooks
    PROVE  Step
<1>1. BusyHolds /\ NothingBegins
  <2>1. Only(W) /\ CallInv
    BY DEF Took, IInv, RequestInv
  <2> QED BY <2>1, OnlyIsGood
<1> QED BY <1>1 DEF Took, Step, Good, IInv

LEMMA SessionKept ==
    ASSUME IInv, UNCHANGED sessionVars, running \subseteq running'
    PROVE  SessionInv'
BY DEF IInv, SessionInv, sessionVars

LEMMA BufferHolds ==
    ASSUME IInv, NEW W, \A r \in Req : r \in W => place[r] # "buffer"
    PROVE  Holds(requestBuffer, W)
BY DEF IInv, BufferInv, Holds

LEMMA CallStep ==
    ASSUME IInv, NEW r \in Req, Call(r)
    PROVE  Step
<1>1. r \in Caller /\ r # Poll /\ status[r] = "unsent" /\ place[r] = "none"
  BY DEF Call, Caller, IInv, RequestInv, CallInv
<1>2. RequestInv /\ Idle(r) /\ Holds(requestBuffer, {r}) /\ UNCHANGED sessionVars
  <2>1. Holds(requestBuffer, {r})
    BY <1>1, BufferHolds
  <2> QED BY <1>1, <2>1 DEF IInv, Idle, Call
<1>3. CASE Refused(r, requestBuffer)
  <2>1. Took({})
    BY <1>1, <1>2, <1>3, RefusedTook
  <2>2. SessionInv'
    BY <1>2, <2>1, SessionKept DEF Took
  <2> QED BY <2>1, <2>2, TookStep
<1>4. CASE ~isClosing /\ Waiting(r, "buffer", Append(requestBuffer, r))
  <2>1. PICK b : b = Append(requestBuffer, r)
    OBVIOUS
  <2>2. "buffer" \in Places \ {"none", "wire"}
    BY DEF Places, Waits
  <2>3. Took({r}) /\ UNCHANGED sends
    BY <1>1, <1>2, <1>4, <2>1, <2>2, WaitingTook
  <2>4. SessionInv'
    BY <1>2, <2>3, SessionKept DEF Took
  <2>5. BusyHolds /\ NothingBegins
    BY <1>4, <2>3 DEF BusyHolds, NothingBegins, IInv, RequestInv, CallInv
  <2> QED BY <2>3, <2>4, <2>5 DEF Took, Step, Good, IInv
<1>5. CASE ~isClosing /\ ~isServerBusy /\ Execute(r, requestBuffer)
  <2>1. Took({r})
    BY <1>1, <1>2, <1>5, ExecuteTook
  <2>2. SessionInv'
    BY <1>2, <2>1, SessionKept DEF Took
  <2> QED BY <1>5, <2>1, <2>2, TookStep
<1> QED BY <1>3, <1>4, <1>5 DEF Call, Buffer

(* A caller goes on from between two looks. *)
LEMMA GoesOnStep ==
    ASSUME IInv, NEW who \in Caller, place[who] \in BetweenLooks, UNCHANGED sessionVars,
           \/ \E on \in {"world", "pool", "map"} : Write(who, on, requestBuffer)
           \/ Refused(who, requestBuffer)
           \/ Waiting(who, "poolAgain", requestBuffer)
           \/ OnSocket(who, requestBuffer)
           \/ Execute(who, requestBuffer)
    PROVE  Step
<1>1. RequestInv /\ Idle(who) /\ Holds(requestBuffer, {who})
  <2>1. Holds(requestBuffer, {who})
    BY BufferHolds DEF BetweenLooks
  <2> QED BY <2>1 DEF IInv, Idle, BetweenLooks
<1>2. Took({who})
  <2>1. \A on \in {"world", "pool", "map"} : Write(who, on, requestBuffer) => Took({who})
    BY <1>1, WriteTook
  <2>2. Refused(who, requestBuffer) => Took({who})
    BY <1>1, RefusedTook, OnlyFewer
  <2>3. Waiting(who, "poolAgain", requestBuffer) => Took({who})
    <3>1. "poolAgain" \in Places \ {"none", "wire"} /\ "poolAgain" # "buffer"
      BY DEF Places, Waits
    <3> QED BY <1>1, <3>1, WaitingTook
  <2>4. OnSocket(who, requestBuffer) => Took({who})
    BY <1>1, OnSocketTook
  <2>5. Execute(who, requestBuffer) => Took({who})
    BY <1>1, ExecuteTook
  <2> QED BY <2>1, <2>2, <2>3, <2>4, <2>5
<1>3. SessionInv'
  BY <1>2, SessionKept DEF Took
<1>4. \A w \in {who} : place[w] \in BetweenLooks
  OBVIOUS
<1> QED BY <1>2, <1>3, <1>4, TookStep

LEMMA PoolAnswersStep ==
    ASSUME IInv, NEW who \in Caller, PoolAnswers(who)
    PROVE  Step
<1>1. place[who] \in BetweenLooks
  BY DEF PoolAnswers, BetweenLooks
<1>2. \/ \E on \in {"world", "pool", "map"} : Write(who, on, requestBuffer)
      \/ OnSocket(who, requestBuffer)
  BY DEF PoolAnswers
<1>3. UNCHANGED sessionVars
  BY DEF PoolAnswers
<1> QED BY <1>1, <1>2, <1>3, GoesOnStep

LEMMA AgainStep ==
    ASSUME IInv, NEW who \in Caller, PoolAnswersAgain(who) \/ Resume(who)
    PROVE  Step
<1>1. place[who] \in BetweenLooks
  BY DEF PoolAnswersAgain, Resume, BetweenLooks
<1>2. \/ \E on \in {"world", "pool", "map"} : Write(who, on, requestBuffer)
      \/ Refused(who, requestBuffer)
      \/ Waiting(who, "poolAgain", requestBuffer)
  BY DEF PoolAnswersAgain, Resume, OnSocketOnly
<1>3. UNCHANGED sessionVars
  BY DEF PoolAnswersAgain, Resume
<1> QED BY <1>1, <1>2, <1>3, GoesOnStep

LEMMA RetryStep ==
    ASSUME IInv, NEW who \in Caller, Retry(who)
    PROVE  Step
<1>1. place[who] \in BetweenLooks
  BY DEF Retry, BetweenLooks
<1>2. Execute(who, requestBuffer) /\ UNCHANGED sessionVars
  BY DEF Retry
<1> QED BY <1>1, <1>2, GoesOnStep

LEMMA PollTickStep ==
    ASSUME IInv, PollTick
    PROVE  Step
<1>1. Poll \in Caller /\ Idle(Poll) /\ Execute(Poll, requestBuffer) /\ UNCHANGED sessionVars
      /\ ~isClosing
  BY DEF PollTick, Caller, Idle
<1>2. Took({Poll})
  <2>1. Holds(requestBuffer, {Poll})
    BY BufferHolds
  <2> QED BY <1>1, <2>1, ExecuteTook DEF IInv
<1>3. SessionInv'
  BY <1>1, <1>2, SessionKept DEF Took
<1>4. BusyHolds /\ NothingBegins
  <2>1. NothingBegins
    BY <1>1 DEF NothingBegins
  <2>2. \A r \in Req : sends'[r] = sends[r] /\ sends[r] \in Nat
    BY <1>2 DEF Took, Only, Caller, IInv, RequestInv, CallInv
  <2> QED BY <2>1, <2>2 DEF BusyHolds
<1> QED BY <1>2, <1>3, <1>4 DEF Took, Step, Good, IInv

(* One turn of a flush: the head of the buffer is executed. *)
LEMMA FlushOneTook ==
    ASSUME IInv, requestBuffer # <<>>, FlushOne
    PROVE  Took({Head(requestBuffer)})
<1> DEFINE h == Head(requestBuffer)
           t == Tail(requestBuffer)
<1>1. requestBuffer \in Seq(Req) /\ Injective(requestBuffer)
  BY DEF IInv, BufferInv, Holds
<1>2. h \in Req /\ h \in ElementsOf(requestBuffer)
  <2>1. h = requestBuffer[1] /\ 1 \in DOMAIN requestBuffer /\ h \in Req
    BY <1>1
  <2> QED BY <2>1 DEF ElementsOf
<1>3. t \in Seq(Req) /\ Injective(t) /\ ElementsOf(t) = ElementsOf(requestBuffer) \ {h}
  <2>1. /\ t \in Seq(Req) /\ Len(t) = Len(requestBuffer) - 1
        /\ \A k \in 1 .. Len(t) : t[k] = requestBuffer[k + 1]
        /\ h = requestBuffer[1] /\ Len(requestBuffer) \in Nat \ {0}
    BY <1>1
  <2>2. DOMAIN t = 1 .. Len(t) /\ DOMAIN requestBuffer = 1 .. Len(requestBuffer)
    BY <1>1, <2>1
  <2> HIDE DEF t, h
  <2>3. Injective(t)
    BY <1>1, <2>1, <2>2 DEF Injective
  <2>4. \A k \in 1 .. Len(t) : t[k] \in ElementsOf(requestBuffer) /\ t[k] # h
    <3> TAKE k \in 1 .. Len(t)
    <3>1. k + 1 \in DOMAIN requestBuffer /\ 1 \in DOMAIN requestBuffer /\ k + 1 # 1
      BY <2>1, <2>2
    <3> QED BY <1>1, <2>1, <3>1 DEF Injective, ElementsOf
  <2>5. \A k \in 1 .. Len(requestBuffer) : requestBuffer[k] # h => requestBuffer[k] \in ElementsOf(t)
    <3> TAKE k \in 1 .. Len(requestBuffer)
    <3>1. requestBuffer[k] # h => k - 1 \in 1 .. Len(t) /\ t[k - 1] = requestBuffer[k]
      BY <2>1
    <3> QED BY <3>1, <2>2 DEF ElementsOf
  <2>6. ElementsOf(t) \subseteq ElementsOf(requestBuffer) \ {h}
    BY <2>2, <2>4 DEF ElementsOf
  <2>7. ElementsOf(requestBuffer) \ {h} \subseteq ElementsOf(t)
    <3> SUFFICES ASSUME NEW y \in ElementsOf(requestBuffer), y # h PROVE y \in ElementsOf(t)
      OBVIOUS
    <3>1. PICK k \in 1 .. Len(requestBuffer) : requestBuffer[k] = y
      BY <2>2 DEF ElementsOf
    <3> QED BY <2>5, <3>1
  <2> QED BY <2>1, <2>3, <2>6, <2>7
<1>4. Execute(h, t)
  BY DEF FlushOne
<1>5. h \in Caller /\ Idle(h)
  BY <1>2 DEF IInv, BufferInv, Holds, Idle, Caller
<1> HIDE DEF t, h
<1>6. Holds(t, {h})
  BY <1>2, <1>3 DEF IInv, BufferInv, Holds
<1>7. Took({h})
  BY <1>4, <1>5, <1>6, ExecuteTook DEF IInv
<1> QED BY <1>7 DEF h

LEMMA NoTurnTook ==
    ASSUME IInv, NoTurn
    PROVE  Took({}) /\ UNCHANGED <<place, sends>>
<1>1. TableInv' /\ \A i \in Id, w \in Caller : IsPending(i, w)' <=> IsPending(i, w)
  BY TableUnmoved DEF IInv, RequestInv, NoTurn
<1>2. UNCHANGED <<status, place, sends, requestBuffer, pollVars, attemptVars>>
  BY DEF NoTurn, callVars
<1>3. OwnInv'
  BY <1>1, <1>2 DEF IInv, RequestInv, OwnInv, Open
<1>4. CallInv'
  BY <1>2 DEF IInv, RequestInv, CallInv, Idle
<1>5. BufferInv' /\ LinkInv'
  BY <1>2 DEF IInv, RequestInv, BufferInv, Holds, Injective, ElementsOf, LinkInv, pollVars, attemptVars
<1>6. NoneResolved /\ Only({}) /\ running \subseteq running'
  BY <1>2 DEF NoneResolved, Only, attemptVars
<1> QED BY <1>1, <1>2, <1>3, <1>4, <1>5, <1>6 DEF Took, RequestInv

LEMMA FlushLoopStep ==
    ASSUME IInv, FlushLoop \/ Flush
    PROVE  Step
<1>1. /\ flushLoops' \in Nat /\ flushDue' \in BOOLEAN
      /\ UNCHANGED <<isServerBusy, worldSocket, over, leaving, isClosing>>
      /\ (GoesOn /\ FlushOne) \/ NoTurn
  <2>1. flushLoops \in Nat /\ flushDue \in BOOLEAN
    BY DEF IInv, SessionInv
  <2>2. CASE FlushLoop
    <3>1. flushLoops > 0 => flushLoops - 1 \in Nat
      BY <2>1
    <3>2. flushLoops' \in Nat
      BY <2>1, <2>2, <3>1, Zenon DEF FlushLoop
    <3>3. flushDue' = flushDue /\ UNCHANGED <<isServerBusy, worldSocket, over, leaving, isClosing>>
      BY <2>2 DEF FlushLoop
    <3>4. (GoesOn /\ FlushOne) \/ NoTurn
      BY <2>2, Zenon DEF FlushLoop
    <3> QED BY <2>1, <3>2, <3>3, <3>4
  <2>3. CASE Flush
    <3>1. flushLoops + 1 \in Nat
      BY <2>1
    <3>2. flushLoops' \in Nat
      BY <2>1, <2>3, <3>1, Zenon DEF Flush
    <3>3. flushDue' = FALSE /\ UNCHANGED <<isServerBusy, worldSocket, over, leaving, isClosing>>
      BY <2>3 DEF Flush
    <3>4. (GoesOn /\ FlushOne) \/ NoTurn
      BY <2>3, Zenon DEF Flush
    <3> QED BY <3>2, <3>3, <3>4
  <2> QED BY <2>2, <2>3
<1>2. CASE GoesOn /\ FlushOne
  <2>1. ~isServerBusy /\ ~isClosing /\ Took({Head(requestBuffer)})
    BY <1>2, FlushOneTook DEF GoesOn
  <2>2. SessionInv'
    BY <1>1, <2>1 DEF Took, IInv, SessionInv
  <2> QED BY <2>1, <2>2, TookStep
<1>3. CASE NoTurn
  <2>1. Took({})
    BY <1>3, NoTurnTook
  <2>2. SessionInv'
    BY <1>1, <2>1 DEF Took, IInv, SessionInv
  <2> QED BY <2>1, <2>2, TookStep
<1> QED BY <1>1, <1>2, <1>3

LEMMA BufferExpiresStep ==
    ASSUME IInv, NEW r \in Req, BufferExpires(r)
    PROVE  Step
<1>1. r \in Caller /\ place[r] = "buffer" /\ UNCHANGED sessionVars
      /\ Refused(r, Without(requestBuffer, {r}))
  BY DEF BufferExpires, Caller
<1>2. Idle(r)
  BY <1>1 DEF Idle, Caller, IInv
<1>3. PICK b : b = Without(requestBuffer, {r})
  OBVIOUS
<1>4. Holds(b, {r})
  <2>1. b \in Seq(Req) /\ ElementsOf(b) = ElementsOf(requestBuffer) \ {r} /\ Injective(b)
    BY <1>3, WithoutFilters DEF IInv, BufferInv, Holds
  <2> QED BY <2>1 DEF IInv, BufferInv, Holds
<1>5. Took({})
  BY <1>1, <1>2, <1>3, <1>4, RefusedTook DEF IInv
<1>6. SessionInv'
  BY <1>1, <1>5, SessionKept DEF Took
<1> QED BY <1>5, <1>6, TookStep

(* A step that moves no call, and at most loses questions on the wire. *)
LEMMA CallsUnmoved ==
    ASSUME IInv, UNCHANGED <<callVars, pendingRequests, timers, requestIdCounter, requestBuffer>>,
           wire' \subseteq wire, forgotten' = forgotten \cap wire', LinkInv', SessionInv'
    PROVE  Step
<1>1. \A i \in Id, w \in Caller : IsPending(i, w)' <=> IsPending(i, w)
  BY DEF IsPending
<1>2. TableInv'
  BY <1>1 DEF IInv, RequestInv, TableInv, Free
<1>3. UNCHANGED <<status, place, sends>>
  BY DEF callVars
<1>4. OwnInv' /\ CallInv'
  BY <1>1, <1>3 DEF IInv, RequestInv, OwnInv, CallInv, Open, Idle
<1>5. BufferInv'
  BY <1>3 DEF IInv, BufferInv, Holds, Injective, ElementsOf
<1>6. NoneResolved /\ Only({})
  BY <1>3 DEF NoneResolved, Only
<1>7. BusyHolds /\ NothingBegins
  BY <1>6, OnlyIsGood DEF IInv, RequestInv
<1> QED BY <1>2, <1>4, <1>5, <1>6, <1>7 DEF Step, Good, IInv, RequestInv

LEMMA FlagsOnly ==
    ASSUME IInv, UNCHANGED <<callVars, tableVars, requestBuffer>>, LinkInv', SessionInv'
    PROVE  Step
<1>1. UNCHANGED <<callVars, pendingRequests, timers, requestIdCounter, requestBuffer>>
      /\ wire' \subseteq wire /\ forgotten' = forgotten \cap wire'
  BY DEF tableVars, IInv, RequestInv, TableInv
<1> QED BY <1>1, CallsUnmoved

LEMMA StatusPushStep ==
    ASSUME IInv, NEW busy \in BOOLEAN, StatusPush(busy)
    PROVE  Step
<1>1. LinkInv' /\ SessionInv'
  BY DEF StatusPush, IInv, RequestInv, LinkInv, SessionInv, pollVars, attemptVars
<1> QED BY <1>1, FlagsOnly DEF StatusPush

LEMMA SocketOpensStep ==
    ASSUME IInv, SocketOpens
    PROVE  Step
<1>1. LinkInv' /\ SessionInv'
  BY DEF SocketOpens, IInv, RequestInv, LinkInv, SessionInv, pollVars, attemptVars
<1> QED BY <1>1, FlagsOnly DEF SocketOpens

LEMMA AttemptSucceedsStep ==
    ASSUME IInv, NEW b \in Body, AttemptSucceeds(b)
    PROVE  Step
<1>1. LinkInv' /\ SessionInv'
  BY DEF AttemptSucceeds, IInv, RequestInv, LinkInv, SessionInv
<1> QED BY <1>1, FlagsOnly DEF AttemptSucceeds

LEMMA PhaseStep ==
    ASSUME IInv, LeaveWorld \/ LoginEnds \/ BeginCleanup
    PROVE  Step
<1>1. LinkInv' /\ SessionInv'
  BY DEF LeaveWorld, LoginEnds, BeginCleanup, IInv, RequestInv, LinkInv, SessionInv, sessionVars, pollVars
<1>2. UNCHANGED <<callVars, tableVars, requestBuffer>>
  BY DEF LeaveWorld, LoginEnds, BeginCleanup
<1> QED BY <1>1, <1>2, FlagsOnly

LEMMA LostStep ==
    ASSUME IInv, NEW carrier, Lost(carrier),
           UNCHANGED <<flushLoops, flushDue, isServerBusy, over, leaving, isClosing>>,
           worldSocket' \in BOOLEAN
    PROVE  Step
<1>1. ASSUME NEW b \in Body, StartAttempt(b, {}, requestBuffer, {carrier}) PROVE Step
  <2>1. Holds(requestBuffer, {})
    BY DEF IInv, BufferInv
  <2>2. Took({})
    BY <1>1, <2>1, StartTook DEF IInv
  <2>3. SessionInv'
    BY <2>2 DEF Took, IInv, SessionInv
  <2> QED BY <2>2, <2>3, TookStep
<1>2. CASE /\ wire' = {q \in wire : q.on # carrier}
           /\ forgotten' = forgotten \cap wire'
           /\ UNCHANGED <<callVars, pendingRequests, timers, requestIdCounter, requestBuffer, pollVars,
                          attemptVars>>
  <2>1. LinkInv' /\ SessionInv'
    BY <1>2 DEF IInv, RequestInv, LinkInv, SessionInv, pollVars, attemptVars
  <2> QED BY <1>2, <2>1, CallsUnmoved
<1> QED BY <1>1, <1>2 DEF Lost

LEMMA SocketClosesStep ==
    ASSUME IInv, SocketCloses \/ PoolEmpties
    PROVE  Step
<1>1. UNCHANGED <<flushLoops, flushDue, isServerBusy, over, leaving, isClosing>>
      /\ worldSocket' \in BOOLEAN /\ \E carrier : Lost(carrier)
  BY DEF SocketCloses, PoolEmpties, sessionVars, IInv, SessionInv
<1> QED BY <1>1, LostStep

(* Those who wait for an attempt learn that it is over. *)
LEMMA JoinedAreIdle ==
    ASSUME IInv, NEW b \in Body, NEW x \in Caller, place[x] = b
    PROVE  /\ Idle(x) /\ place[x] \notin Waits /\ \A i \in Id : ~IsPending(i, x)
           /\ x # Poll => status[x] = "waiting" /\ sends[x] <= Limit(x)
<1>1. place[x] \notin Waits
  OBVIOUS
<1>2. Idle(x)
  BY <1>1 DEF Idle, Waits
<1>3. x # Poll => status[x] = "waiting" /\ sends[x] <= Limit(x)
  BY <1>1, <1>2 DEF IInv, RequestInv, CallInv, Caller, Waits
<1> QED BY <1>1, <1>2, <1>3, IdleIsOpen DEF IInv, RequestInv

LEMMA AttemptEndsStep ==
    ASSUME IInv, NEW b \in Body, AttemptEnds(b)
    PROVE  Step
<1>1. /\ \A x \in Caller : place'[x] = IF place[x] = b THEN "resumed" ELSE place[x]
      /\ place' \in [Caller -> Places]
      /\ UNCHANGED <<status, sends, tableVars, requestBuffer>>
  BY DEF AttemptEnds, IInv, RequestInv, CallInv, Places, Waits
<1>2. TableInv' /\ \A i \in Id, w \in Caller : IsPending(i, w)' <=> IsPending(i, w)
  BY <1>1, TableUnmoved DEF IInv, RequestInv
<1>3. ASSUME NEW x \in Caller PROVE Settled(x) \/ Parked(x) \/ Kept(x)
  <2>1. CASE place[x] = b
    BY <1>1, <1>2, <2>1, JoinedAreIdle DEF Parked
  <2>2. CASE place[x] # b
    BY <1>1, <1>2, <2>2 DEF Kept
  <2> QED BY <2>1, <2>2
<1>4. OwnInv' /\ CallInv'
  <2>1. OwnInv /\ CallInv
    BY DEF IInv, RequestInv
  <2>2. status' \in [Req -> {"unsent", "waiting", "resolved", "rejected"}]
    BY <1>1, <2>1 DEF CallInv
  <2> QED BY <1>1, <1>2, <1>3, <2>1, <2>2, CallsStep
<1>5. b # "none" /\ b # "wire" /\ b # "buffer"
  BY DEF Waits
<1>6. BufferInv'
  BY <1>1, <1>5 DEF IInv, BufferInv, Holds, Injective, ElementsOf, Caller
<1>7. LinkInv' /\ SessionInv'
  BY DEF AttemptEnds, IInv, RequestInv, LinkInv, SessionInv, pollVars
<1>8. NoneResolved /\ Only({})
  BY <1>1, <1>5 DEF NoneResolved, Only
<1>9. BusyHolds /\ NothingBegins
  BY <1>8, OnlyIsGood DEF IInv, RequestInv
<1> QED BY <1>2, <1>4, <1>6, <1>7, <1>8, <1>9 DEF Step, Good, IInv, RequestInv

LEMMA AttemptFailsStep ==
    ASSUME IInv, over = {}, NEW b \in Body, AttemptFails(b)
    PROVE  Step
<1>1. /\ wire' \subseteq wire /\ forgotten' = forgotten \cap wire'
      /\ Settle(Joined(b), "rejected") /\ (PollFails \/ UNCHANGED pollVars)
      /\ UNCHANGED <<sends, pendingRequests, timers, requestIdCounter, requestBuffer>>
  BY DEF AttemptFails, Reject
<1>2. \A i \in Id, w \in Caller : IsPending(i, w)' <=> IsPending(i, w)
  BY <1>1 DEF IsPending
<1>3. TableInv'
  BY <1>1, <1>2 DEF IInv, RequestInv, TableInv, Free
<1>4. Joined(b) \in SUBSET Caller /\ \A x \in Joined(b) : place[x] = b
  BY DEF Joined
<1>5. Poll \in Joined(b) => \A i \in Id : ~IsPending(i, Poll)'
  BY <1>2, <1>4, JoinedAreIdle DEF Caller
<1>6. /\ OwnInv' /\ CallInv' /\ Only({}) /\ NoneResolved
      /\ \A x \in Caller : place'[x] = IF x \in Joined(b) THEN "none" ELSE place[x]
  <2>1. OwnInv /\ CallInv /\ sends' = sends
    BY <1>1 DEF IInv, RequestInv
  <2>2. /\ \A i \in Id, w \in Caller : IsPending(i, w)' => IsPending(i, w)
        /\ \A i \in Id, w \in Caller \ Joined(b) : IsPending(i, w) => IsPending(i, w)'
    BY <1>2
  <2> QED BY <1>1, <1>4, <1>5, <2>1, <2>2, SettleStep
<1>7. BufferInv'
  <2>1. \A x \in Req : place'[x] = "buffer" <=> place[x] = "buffer"
    <3>1. b # "buffer"
      BY DEF Waits
    <3> QED BY <1>4, <1>6, <3>1 DEF Caller
  <2> QED BY <1>1, <2>1 DEF IInv, BufferInv, Holds, Injective, ElementsOf
<1>8. LinkInv' /\ SessionInv'
  <2>1. polling' \in BOOLEAN /\ pollFailures' \in Nat
    BY <1>1, PollType DEF IInv, RequestInv
  <2> QED BY <2>1 DEF AttemptFails, IInv, RequestInv, LinkInv, SessionInv
<1>9. BusyHolds /\ NothingBegins
  BY <1>6, OnlyIsGood DEF IInv, RequestInv
<1> QED BY <1>3, <1>6, <1>7, <1>8, <1>9 DEF Step, Good, IInv, RequestInv

(* The end of a cleanup and destroy(): nothing is kept. *)
LEMMA EmptiedStep ==
    ASSUME IInv, Emptied, isClosing' \in BOOLEAN, leaving' \in BOOLEAN,
           worldReconnecting' \in Body \cup {Null}
    PROVE  Step
<1>1. /\ DrainTable /\ wire' = {} /\ forgotten' = {} /\ PollStopped /\ UNCHANGED sends
      /\ Settle(InTable \cup ElementsOf(requestBuffer), "rejected") /\ requestBuffer' = <<>>
  BY DEF Emptied
<1>2. TableInv' /\ \A i \in Id, w \in Caller : ~IsPending(i, w)'
  BY <1>1, DrainKeepsTable DEF IInv, RequestInv
<1>3. \A i \in Id, w \in Caller : IsPending(i, w) => w \in InTable
  <2> SUFFICES ASSUME NEW i \in Id, NEW w \in Caller, IsPending(i, w) PROVE w \in InTable
    OBVIOUS
  <2>1. /\ ~Free(i) /\ pendingRequests[i].state = "pending" /\ pendingRequests[i].call = w
    BY DEF IsPending, Free, Entry
  <2> QED BY <2>1 DEF InTable
<1>4. PICK R \in SUBSET Caller : R = InTable \cup ElementsOf(requestBuffer)
  <2>1. ASSUME NEW x \in InTable PROVE x \in Caller
    <3>1. PICK i \in Id : ~Free(i) /\ pendingRequests[i].call = x
      BY <2>1 DEF InTable
    <3> QED BY <3>1 DEF IInv, RequestInv, TableInv, Entry, Free
  <2>2. ASSUME NEW x \in ElementsOf(requestBuffer) PROVE x \in Caller
    BY <2>2 DEF ElementsOf, IInv, BufferInv, Holds, Caller
  <2> QED BY <2>1, <2>2
<1>5. /\ OwnInv' /\ CallInv' /\ Only({}) /\ NoneResolved
      /\ \A x \in Caller : place'[x] = IF x \in R THEN "none" ELSE place[x]
  <2>1. OwnInv /\ CallInv
    BY DEF IInv, RequestInv
  <2>2. \A i \in Id, w \in Caller \ R : IsPending(i, w) => IsPending(i, w)'
    BY <1>3, <1>4
  <2>3. /\ \A i \in Id, w \in Caller : IsPending(i, w)' => IsPending(i, w)
        /\ Poll \in R => \A i \in Id : ~IsPending(i, Poll)'
    BY <1>2 DEF Caller
  <2>4. Settle(R, "rejected") /\ sends' = sends
    BY <1>1, <1>4
  <2> QED BY <2>1, <2>2, <2>3, <2>4, SettleStep
<1>6. BufferInv'
  <2>1. ASSUME NEW x \in Req PROVE place'[x] # "buffer"
    <3>1. place[x] = "buffer" => x \in R
      BY <1>4 DEF IInv, BufferInv, Holds
    <3> QED BY <1>5, <3>1 DEF Caller
  <2>2. requestBuffer' \in Seq(Req) /\ Injective(requestBuffer') /\ ElementsOf(requestBuffer') = {}
    BY <1>1 DEF Injective, ElementsOf
  <2> QED BY <2>1, <2>2 DEF BufferInv, Holds
<1>7. LinkInv' /\ SessionInv'
  <2>1. polling' \in BOOLEAN /\ pollFailures' \in Nat
    BY <1>1, PollType DEF IInv, RequestInv
  <2> QED BY <2>1 DEF Emptied, IInv, RequestInv, LinkInv, SessionInv
<1>8. BusyHolds /\ NothingBegins
  BY <1>5, OnlyIsGood DEF IInv, RequestInv
<1> QED BY <1>2, <1>5, <1>6, <1>7, <1>8 DEF Step, Good, IInv, RequestInv

LEMMA EndsStep ==
    ASSUME IInv, EndCleanup \/ Destroy
    PROVE  Step
<1>1. Emptied /\ isClosing' \in BOOLEAN /\ leaving' \in BOOLEAN
      /\ worldReconnecting' \in Body \cup {Null}
  BY DEF EndCleanup, Destroy, IInv, SessionInv, RequestInv, LinkInv
<1> QED BY <1>1, EmptiedStep

LEMMA SweepStep ==
    ASSUME IInv, NEW i \in Id, Sweep(i)
    PROVE  Step
<1>1. /\ ~Free(i) /\ pendingRequests[i].state = "timed-out"
      /\ pendingRequests' = [pendingRequests EXCEPT ![i] = Null]
      /\ forgotten' = forgotten \cup {q \in wire : q.id = i /\ q.call = pendingRequests[i].call}
      /\ UNCHANGED <<callVars, timers, requestIdCounter, wire, requestBuffer, pollVars, attemptVars,
                     sessionVars>>
  BY DEF Sweep
<1>2. \A w \in Caller : ~IsPending(i, w)
  BY <1>1 DEF IsPending
<1>3. pendingRequests[i] \in Entry /\ pendingRequests[i].call \in Caller
  BY <1>1 DEF IInv, RequestInv, TableInv, Entry, Free
<1>4. timers' = timers \ {<<i, pendingRequests[i].call>>}
  BY <1>1, <1>2, <1>3 DEF IInv, RequestInv, TableInv
<1>5. /\ TableInv'
      /\ \A j \in Id, w \in Caller : IsPending(j, w)' <=> j # i /\ IsPending(j, w)
  <2>1. TableInv /\ forgotten' \subseteq wire' /\ wire' \subseteq wire
        /\ forgotten \cap wire' \subseteq forgotten' /\ requestIdCounter' = requestIdCounter
    BY <1>1 DEF IInv, RequestInv, TableInv
  <2>2. \A q \in wire' : q.id = i /\ q.call = pendingRequests[i].call => q \in forgotten'
    BY <1>1
  <2> QED BY <1>1, <1>4, <2>1, <2>2, RemovalKeepsTable
<1>6. \A j \in Id, w \in Caller : IsPending(j, w)' <=> IsPending(j, w)
  BY <1>2, <1>5
<1>7. UNCHANGED <<status, place, sends>>
  BY <1>1 DEF callVars
<1>8. OwnInv' /\ CallInv'
  BY <1>6, <1>7 DEF IInv, RequestInv, OwnInv, CallInv, Open, Idle
<1>9. BufferInv' /\ LinkInv' /\ SessionInv'
  BY <1>1, <1>7 DEF IInv, RequestInv, BufferInv, Holds, Injective, ElementsOf, LinkInv, SessionInv,
                    pollVars, attemptVars, sessionVars
<1>10. NoneResolved /\ Only({})
  BY <1>7 DEF NoneResolved, Only
<1>11. BusyHolds /\ NothingBegins
  BY <1>10, OnlyIsGood DEF IInv, RequestInv
<1> QED BY <1>5, <1>8, <1>9, <1>10, <1>11 DEF Step, Good, IInv, RequestInv

(* A pending entry that leaves the table, or times out, was its caller's only one. *)
LEMMA OneEntry ==
    ASSUME IInv, NEW i \in Id, NEW w \in Caller, IsPending(i, w),
           \A j \in Id, x \in Caller : IsPending(j, x)' <=> j # i /\ IsPending(j, x)
    PROVE  /\ \A j \in Id, x \in Caller \ {w} : IsPending(j, x) => IsPending(j, x)'
           /\ Open(w) => place[w] = "wire" /\ \A j \in Id : ~IsPending(j, w)'
           /\ ~Open(w) => place[w] = "none"
<1>1. \A j \in Id, x \in Caller \ {w} : IsPending(j, x) => IsPending(j, x)'
  BY DEF IsPending
<1>2. Open(w) => place[w] = "wire" /\ \A j \in Id : ~IsPending(j, w)'
  BY DEF IInv, RequestInv, OwnInv
<1>3. ~Open(w) => place[w] = "none"
  BY DEF Open, Caller, IInv, RequestInv, CallInv
<1> QED BY <1>1, <1>2, <1>3

(* The caller of such an entry is settled. *)
LEMMA EntrySettles ==
    ASSUME IInv, NEW i \in Id, NEW w \in Caller, IsPending(i, w),
           \A j \in Id, x \in Caller : IsPending(j, x)' <=> j # i /\ IsPending(j, x),
           NEW how \in {"resolved", "rejected"}, Settle({w}, how), UNCHANGED <<sends, requestBuffer>>
    PROVE  /\ OwnInv' /\ CallInv' /\ BufferInv' /\ BusyHolds /\ NothingBegins
           /\ how = "rejected" => NoneResolved
           /\ \A r \in Req : status[r] = "waiting" /\ status'[r] = "resolved" => r = w
<1>1. /\ \A j \in Id, x \in Caller \ {w} : IsPending(j, x) => IsPending(j, x)'
      /\ Open(w) => place[w] = "wire" /\ \A j \in Id : ~IsPending(j, w)'
      /\ ~Open(w) => place[w] = "none"
  BY OneEntry
<1>2. /\ OwnInv' /\ CallInv' /\ Only({}) /\ (how = "rejected" => NoneResolved)
      /\ \A x \in Caller : place'[x] = IF x \in {w} THEN "none" ELSE place[x]
  <2>1. OwnInv /\ CallInv /\ {w} \in SUBSET Caller /\ sends' = sends
    BY DEF IInv, RequestInv
  <2>2. Poll \in {w} => \A j \in Id : ~IsPending(j, Poll)'
    BY <1>1 DEF Open
  <2>3. \A j \in Id, x \in Caller : IsPending(j, x)' => IsPending(j, x)
    OBVIOUS
  <2> QED BY <1>1, <2>1, <2>2, <2>3, SettleStep
<1>3. BufferInv'
  <2>1. \A x \in Req : place'[x] = "buffer" <=> place[x] = "buffer"
    BY <1>1, <1>2 DEF Caller
  <2> QED BY <2>1 DEF IInv, BufferInv, Holds, Injective, ElementsOf
<1>4. BusyHolds /\ NothingBegins
  BY <1>2, OnlyIsGood DEF IInv, RequestInv
<1>5. \A r \in Req : status[r] = "waiting" /\ status'[r] = "resolved" => r = w
  BY DEF Settle
<1> QED BY <1>2, <1>3, <1>4, <1>5

LEMMA TimeoutStep ==
    ASSUME IInv, NEW t \in timers, Timeout(t[1], t[2])
    PROVE  Step
<1> DEFINE i == t[1]
           w == t[2]
<1>1. i \in Id /\ w \in Caller /\ IsPending(i, w) /\ t = <<i, w>>
  BY DEF IInv, RequestInv, TableInv
<1> HIDE DEF i, w
<1>2. ~Free(i) /\ pendingRequests[i].state = "pending" /\ pendingRequests[i].call = w
      /\ pendingRequests[i] \in Entry
  BY <1>1 DEF IsPending, Free, IInv, RequestInv, TableInv, Entry
<1>3. /\ timers' = timers \ {<<i, w>>}
      /\ pendingRequests' = [pendingRequests EXCEPT ![i].state = "timed-out"]
      /\ Settle({w}, "rejected") /\ (PollFails \/ UNCHANGED pollVars)
      /\ UNCHANGED <<sends, requestIdCounter, wire, forgotten, requestBuffer, attemptVars, sessionVars>>
  BY <1>2 DEF Timeout, Reject, i, w
<1>4. /\ pendingRequests'[i] = [call |-> w, state |-> "timed-out"]
      /\ \A j \in Id : j # i => pendingRequests'[j] = pendingRequests[j]
  BY <1>1, <1>2, <1>3 DEF IInv, RequestInv, TableInv, Entry
<1>5. \A j \in Id, x \in Caller : IsPending(j, x)' <=> j # i /\ IsPending(j, x)
  BY <1>4 DEF IsPending
<1>6. TableInv'
  <2>1. [call |-> w, state |-> "timed-out"] \in Entry
    BY <1>1 DEF Entry
  <2>2. pendingRequests' \in [Id -> Entry \cup {Null}]
    BY <1>1, <1>2, <1>3, <2>1 DEF IInv, RequestInv, TableInv, Entry
  <2>3. \A j \in Id, x \in Caller : IsPending(j, x)' <=> <<j, x>> \in timers'
    <3> TAKE j \in Id, x \in Caller
    <3>1. IsPending(j, x) <=> <<j, x>> \in timers
      BY DEF IInv, RequestInv, TableInv
    <3>2. j = i /\ IsPending(j, x) => x = w
      BY <1>1 DEF IsPending
    <3>3. IsPending(j, x)' <=> j # i /\ IsPending(j, x)
      BY <1>5
    <3> QED BY <1>3, <3>1, <3>2, <3>3
  <2>4. \A q \in wire : (~Free(q.id)' /\ pendingRequests'[q.id].call = pendingRequests[q.id].call) \/ Free(q.id)
    <3> TAKE q \in wire
    <3>1. q.id \in Id
      BY DEF IInv, RequestInv, TableInv, Question
    <3> QED BY <1>2, <1>4, <2>1, <3>1 DEF Free
  <2> QED BY <1>3, <2>2, <2>3, <2>4 DEF IInv, RequestInv, TableInv
<1>7. OwnInv' /\ CallInv' /\ BufferInv' /\ BusyHolds /\ NothingBegins /\ NoneResolved
  <2>1. UNCHANGED <<sends, requestBuffer>>
    BY <1>3
  <2> QED BY <1>1, <1>3, <1>5, <2>1, EntrySettles
<1>8. LinkInv' /\ SessionInv'
  <2>1. polling' \in BOOLEAN /\ pollFailures' \in Nat
    BY <1>3, PollType DEF IInv, RequestInv
  <2> QED BY <1>3, <2>1 DEF IInv, RequestInv, LinkInv, SessionInv, attemptVars, sessionVars
<1> QED BY <1>6, <1>7, <1>8 DEF Step, Good, IInv, RequestInv

LEMMA AnswerStep ==
    ASSUME IInv, NEW q \in wire, NEW kind \in {"ok", "recoverable", "fatal"}, Answer(q, kind)
    PROVE  Good /\ OwnAnswers
<1> DEFINE e == pendingRequests[q.id]
<1>1. /\ q.id \in Id /\ wire' = wire \ {q}
      /\ UNCHANGED <<sends, requestIdCounter, requestBuffer, attemptVars, flushLoops, worldSocket, over,
                     leaving, isClosing>>
      /\ forgotten' = (forgotten \cup {f \in wire : f.id = q.id /\ e # Null /\ f.call = e.call}) \ {q}
  BY DEF Answer, IInv, RequestInv, TableInv, Question
<1>2. ASSUME UNCHANGED <<status, place, isServerBusy, flushDue, pollVars>>, TableInv',
             \A i \in Id, w \in Caller : IsPending(i, w)' <=> IsPending(i, w)
      PROVE  Good /\ OwnAnswers
  <2>1. OwnInv' /\ CallInv'
    BY <1>1, <1>2 DEF IInv, RequestInv, OwnInv, CallInv, Open, Idle
  <2>2. BufferInv' /\ LinkInv' /\ SessionInv'
    BY <1>1, <1>2 DEF IInv, RequestInv, BufferInv, Holds, Injective, ElementsOf, LinkInv, SessionInv,
                      pollVars, attemptVars
  <2>3. Only({}) /\ OwnAnswers
    BY <1>1, <1>2 DEF Only, OwnAnswers
  <2>4. BusyHolds /\ NothingBegins
    BY <2>3, OnlyIsGood DEF IInv, RequestInv
  <2> QED BY <1>2, <2>1, <2>2, <2>3, <2>4 DEF Good, IInv, RequestInv
<1>3. CASE e = Null
  <2>1. UNCHANGED <<pendingRequests, timers, status, place, isServerBusy, flushDue, pollVars>>
    BY <1>3 DEF Answer
  <2>2. \A i \in Id, w \in Caller : IsPending(i, w)' <=> IsPending(i, w)
    BY <2>1 DEF IsPending
  <2>3. forgotten' = forgotten \ {q}
    BY <1>1, <1>3
  <2>4. TableInv'
    BY <1>1, <2>1, <2>2, <2>3 DEF IInv, RequestInv, TableInv, Free, Question
  <2> QED BY <1>2, <2>1, <2>2, <2>4
<1>4. CASE e # Null
  <2>1. /\ ~Free(q.id) /\ e \in Entry /\ e.call \in Caller /\ e.state \in {"pending", "timed-out"}
    BY <1>1, <1>4 DEF Free, IInv, RequestInv, TableInv, Entry
  <2>2. /\ pendingRequests' = [pendingRequests EXCEPT ![q.id] = Null]
        /\ timers' = timers \ {<<q.id, e.call>>}
        /\ IF e.state = "pending" THEN Answered(e.call, kind)
           ELSE UNCHANGED <<status, place, isServerBusy, flushDue, pollVars>>
    BY <1>4 DEF Answer
  <2>3. TableInv' /\ \A j \in Id, w \in Caller : IsPending(j, w)' <=> j # q.id /\ IsPending(j, w)
    <3>1. wire' \subseteq wire /\ forgotten' \subseteq wire' /\ forgotten \cap wire' \subseteq forgotten'
          /\ TableInv /\ requestIdCounter' = requestIdCounter
      BY <1>1 DEF IInv, RequestInv, TableInv
    <3>2. \A x \in wire' : x.id = q.id /\ x.call = e.call => x \in forgotten'
      BY <1>1, <1>4
    <3> QED BY <1>1, <2>1, <2>2, <3>1, <3>2, RemovalKeepsTable
  <2>4. CASE e.state = "timed-out"
    <3>1. \A w \in Caller : ~IsPending(q.id, w)
      BY <2>4 DEF IsPending
    <3>2. \A j \in Id, w \in Caller : IsPending(j, w)' <=> IsPending(j, w)
      BY <2>3, <3>1
    <3> QED BY <1>2, <2>2, <2>3, <2>4, <3>2
  <2>5. CASE e.state = "pending"
    <3>1. PICK w \in Caller : w = e.call
      BY <2>1
    <3>2. Answered(w, kind) /\ IsPending(q.id, w) /\ UNCHANGED <<sends, requestBuffer>>
      BY <1>1, <2>1, <2>2, <2>5, <3>1 DEF IsPending, Entry
    <3>3. q.call = w \/ q \in forgotten
      BY <1>4, <3>1 DEF IInv, RequestInv, TableInv
    <3>4. ASSUME NEW how \in {"resolved", "rejected"}, Settle({w}, how)
          PROVE  OwnInv' /\ CallInv' /\ BufferInv' /\ BusyHolds /\ NothingBegins /\ OwnAnswers
      <4>1. /\ OwnInv' /\ CallInv' /\ BufferInv' /\ BusyHolds /\ NothingBegins
            /\ \A r \in Req : status[r] = "waiting" /\ status'[r] = "resolved" => r = w
        BY <1>1, <2>3, <3>2, <3>4, EntrySettles
      <4>2. OwnAnswers
        BY <1>1, <3>3, <4>1 DEF OwnAnswers
      <4> QED BY <4>1, <4>2
    <3>5. ASSUME MayRetry(w), Open(w), WaitAt(w, "backoff")
          PROVE  OwnInv' /\ CallInv' /\ BufferInv' /\ BusyHolds /\ NothingBegins /\ OwnAnswers
      <4>1. /\ \A j \in Id, x \in Caller \ {w} : IsPending(j, x) => IsPending(j, x)'
            /\ place[w] = "wire" /\ \A j \in Id : ~IsPending(j, w)'
        BY <1>1, <2>3, <3>2, <3>5, OneEntry
      <4>2. w # Poll => sends[w] <= Limit(w)
        BY <3>5 DEF MayRetry, Limit
      <4>3. /\ place' \in [Caller -> Places] /\ place'[w] = "backoff"
            /\ status' \in [Req -> {"unsent", "waiting", "resolved", "rejected"}]
            /\ \A x \in Caller : x # w => place'[x] = place[x] /\ (x # Poll => status'[x] = status[x])
            /\ w # Poll => status'[w] = "waiting"
        BY <3>5 DEF WaitAt, IInv, RequestInv, CallInv, Caller, Places, Waits
      <4>4. ASSUME NEW x \in Caller PROVE Settled(x) \/ Parked(x) \/ Kept(x)
        <5>1. CASE x = w
          BY <4>1, <4>2, <4>3, <5>1 DEF Parked
        <5>2. CASE x # w
          BY <4>1, <4>3, <5>2 DEF Kept
        <5> QED BY <5>1, <5>2
      <4>5. OwnInv' /\ CallInv'
        <5>1. OwnInv /\ CallInv /\ sends' = sends
          BY <1>1 DEF IInv, RequestInv
        <5>2. \A j \in Id, x \in Caller : IsPending(j, x)' => IsPending(j, x)
          BY <2>3
        <5> QED BY <4>3, <4>4, <5>1, <5>2, CallsStep
      <4>6. BufferInv'
        <5>1. \A x \in Req : place'[x] = "buffer" <=> place[x] = "buffer"
          BY <4>1, <4>3 DEF Caller
        <5> QED BY <3>2, <5>1 DEF IInv, BufferInv, Holds, Injective, ElementsOf
      <4>7. Only({})
        BY <1>1, <4>1, <4>3 DEF Only
      <4>8. BusyHolds /\ NothingBegins
        BY <4>7, OnlyIsGood DEF IInv, RequestInv
      <4>9. OwnAnswers
        BY <3>5 DEF OwnAnswers, WaitAt
      <4> QED BY <4>5, <4>6, <4>8, <4>9
    <3>6. OwnInv' /\ CallInv' /\ BufferInv' /\ BusyHolds /\ NothingBegins /\ OwnAnswers
      <4>1. CASE \E how \in {"resolved", "rejected"} : Settle({w}, how)
        BY <3>4, <4>1
      <4>2. CASE MayRetry(w) /\ Open(w) /\ WaitAt(w, "backoff")
        BY <3>5, <4>2
      <4>3. w = Poll /\ PollReads => Settle({w}, "resolved")
        BY DEF PollReads
      <4> QED BY <3>2, <4>1, <4>2, <4>3 DEF Answered, Reject
    <3>7. LinkInv' /\ SessionInv'
      <4>1. polling' \in BOOLEAN /\ pollFailures' \in Nat
        <5>1. PollFails \/ UNCHANGED pollVars \/ (polling' = polling /\ pollFailures' = 0)
          BY <3>2 DEF Answered, Reject, PollReads
        <5>2. CASE polling' = polling /\ pollFailures' = 0
          BY <5>2 DEF IInv, RequestInv, LinkInv
        <5>3. CASE PollFails \/ UNCHANGED pollVars
          BY <5>3, PollType DEF IInv, RequestInv
        <5> QED BY <5>1, <5>2, <5>3
      <4>2. isServerBusy' \in BOOLEAN /\ flushDue' \in BOOLEAN
        <5>1. \/ UNCHANGED <<isServerBusy, flushDue>>
              \/ PollReads
          BY <3>2 DEF Answered
        <5>2. PollReads => isServerBusy' \in BOOLEAN /\ flushDue' \in BOOLEAN
          BY DEF PollReads
        <5>3. isServerBusy \in BOOLEAN /\ flushDue \in BOOLEAN
          BY DEF IInv, SessionInv
        <5> QED BY <5>1, <5>2, <5>3
      <4> QED BY <1>1, <4>1, <4>2 DEF IInv, RequestInv, LinkInv, SessionInv, attemptVars
    <3> QED BY <2>3, <3>6, <3>7 DEF Good, IInv, RequestInv
  <2> QED BY <2>1, <2>4, <2>5
<1> QED BY <1>3, <1>4

(***************************************************************************)
(* The theorems                                                            *)
(***************************************************************************)

LEMMA InitIInv == Init => IInv
<1> SUFFICES ASSUME Init PROVE IInv
  OBVIOUS
<1> USE DEF Init
<1>1. \A i \in Id : pendingRequests[i] = Null
  OBVIOUS
<1>2. \A i \in Id, w \in Caller : ~IsPending(i, w)
  <2>1. \A w \in Caller : [call |-> w, state |-> "pending"] \in Entry
    BY DEF Entry
  <2> QED BY <1>1, <2>1 DEF IsPending
<1>3. TableInv
  BY <1>2 DEF TableInv, Id
<1>4. OwnInv
  BY <1>2 DEF OwnInv, Caller
<1>5. CallInv
  BY DEF CallInv, Places, Waits, Limit, Idle, Caller
<1>6. BufferInv
  <2>1. requestBuffer = <<>> /\ DOMAIN requestBuffer = {}
    OBVIOUS
  <2> QED BY <2>1 DEF BufferInv, Holds, ElementsOf, Injective, Caller
<1>7. LinkInv /\ SessionInv
  BY DEF LinkInv, SessionInv
<1> QED BY <1>3, <1>4, <1>5, <1>6, <1>7 DEF IInv, RequestInv

LEMMA NextStep ==
    ASSUME IInv, Next
    PROVE  Good /\ OwnAnswers
<1>1. Step => Good /\ OwnAnswers
  BY DEF Step, NoneResolved, OwnAnswers
<1>2. CASE Continuation
  <2>1. CASE Flush
    BY <1>1, <2>1, FlushLoopStep
  <2>2. ASSUME NEW b \in Body, AttemptEnds(b) PROVE Step
    BY <2>2, AttemptEndsStep
  <2>3. ASSUME NEW who \in Caller, Resume(who) PROVE Step
    BY <2>3, AgainStep
  <2> QED BY <1>1, <1>2, <2>1, <2>2, <2>3 DEF Continuation
<1>3. CASE RequestEvent
  <2>1. ASSUME NEW r \in Req, Call(r) PROVE Step
    BY <2>1, CallStep
  <2>2. ASSUME NEW r \in Req, BufferExpires(r) PROVE Step
    BY <2>2, BufferExpiresStep
  <2>3. ASSUME NEW r \in Req, PoolAnswers(r) \/ PoolAnswersAgain(r) PROVE Step
    BY <2>3, PoolAnswersStep, AgainStep DEF Caller
  <2>4. ASSUME NEW who \in Caller, Retry(who) PROVE Step
    BY <2>4, RetryStep
  <2>5. ASSUME NEW q \in wire, NEW kind \in {"ok", "recoverable", "fatal"}, Answer(q, kind)
        PROVE  Good /\ OwnAnswers
    BY <2>5, AnswerStep
  <2>6. ASSUME NEW t \in timers, Timeout(t[1], t[2]) PROVE Step
    BY <2>6, TimeoutStep
  <2>7. ASSUME NEW i \in Id, Sweep(i) PROVE Step
    BY <2>7, SweepStep
  <2>8. ASSUME NEW busy \in BOOLEAN, StatusPush(busy) PROVE Step
    BY <2>8, StatusPushStep
  <2>9. CASE FlushLoop
    BY <1>1, <2>9, FlushLoopStep
  <2>10. CASE PollTick
    BY <1>1, <2>10, PollTickStep
  <2> QED BY <1>1, <1>3, <2>1, <2>2, <2>3, <2>4, <2>5, <2>6, <2>7, <2>8, <2>9, <2>10
          DEF RequestEvent
<1>4. CASE NoContinuation /\ LinkEvent
  <2>1. over = {}
    BY <1>4 DEF NoContinuation
  <2>2. CASE SocketCloses \/ PoolEmpties
    BY <1>1, <2>2, SocketClosesStep
  <2>3. CASE SocketOpens
    BY <1>1, <2>3, SocketOpensStep
  <2>4. ASSUME NEW b \in Body, AttemptSucceeds(b) PROVE Step
    BY <2>4, AttemptSucceedsStep
  <2>5. ASSUME NEW b \in Body, AttemptFails(b) PROVE Step
    BY <2>1, <2>5, AttemptFailsStep
  <2>6. CASE LeaveWorld \/ LoginEnds \/ BeginCleanup
    BY <1>1, <2>6, PhaseStep
  <2>7. CASE EndCleanup \/ Destroy
    BY <1>1, <2>7, EndsStep
  <2> QED BY <1>1, <1>4, <2>2, <2>3, <2>4, <2>5, <2>6, <2>7
          DEF LinkEvent
<1> QED BY <1>2, <1>3, <1>4 DEF Next

LEMMA StutterStep ==
    ASSUME IInv, UNCHANGED vars
    PROVE  Good /\ OwnAnswers
<1>1. UNCHANGED <<callVars, tableVars, requestBuffer>> /\ LinkInv' /\ SessionInv'
  BY DEF vars, IInv, RequestInv, LinkInv, SessionInv, pollVars, attemptVars, sessionVars
<1>2. Step
  BY <1>1, FlagsOnly
<1> QED BY <1>2 DEF Step, NoneResolved, OwnAnswers

LEMMA Invariance == Spec => []IInv
<1>1. IInv /\ [Next]_vars => IInv'
  BY NextStep, StutterStep DEF Good
<1> QED BY <1>1, InitIInv, PTL DEF Spec

(* Every variable keeps its type; in particular an id handed out is one of the id space, and
   an attempt that succeeded is under way until its end. *)
THEOREM RequestTypes == Spec => []TypeOK
<1>1. IInv => TypeOK
  BY DEF IInv, RequestInv, TableInv, CallInv, BufferInv, Holds, LinkInv, SessionInv, TypeOK
<1> QED BY <1>1, Invariance, PTL

(* A caller on the wire has its own pending entry and an armed deadline, whatever happens to
   the ids, for any id space. *)
THEOREM RequestsTracked == Spec => []InFlightIsTracked
<1>1. IInv => InFlightIsTracked
  BY DEF IInv, RequestInv, TableInv, OwnInv, InFlightIsTracked
<1> QED BY <1>1, Invariance, PTL

(* The buffer and the calls agree on who waits in it. *)
THEOREM BufferAccounted == Spec => []BufferIsAccounted
<1>1. IInv => BufferIsAccounted
  BY DEF IInv, RequestInv, CallInv, BufferInv, Holds, BufferIsAccounted, Injective
<1> QED BY <1>1, Invariance, PTL

(* A mutation is written at most once, a read at most MaxRetries + 1 times, over every wait
   for the pool or for a reconnect. *)
THEOREM MutationsOnce == Spec => []MutationsSentOnce
<1>1. IInv => MutationsSentOnce
  BY DEF IInv, RequestInv, CallInv, MutationsSentOnce, Limit
<1> QED BY <1>1, Invariance, PTL

(* No call is resolved by an answer that another call still expects. *)
THEOREM OwnAnswersOnly == Spec => AnswersAreOwn
<1>1. IInv /\ [Next]_vars =>
        [\A r \in Req, q \in wire \ wire' :
           status[r] = "waiting" /\ status'[r] = "resolved" => q.call = r \/ q \in forgotten]_vars
  BY NextStep, StutterStep DEF OwnAnswers
<1> QED BY <1>1, Invariance, PTL DEF Spec, AnswersAreOwn

(* While the server is busy no call is written for the first time, unless it passed the gate
   before and waited for a pool connection or a reconnect. *)
THEOREM BusyHoldsCalls == Spec => BusyHoldsNewCalls
<1>1. IInv /\ [Next]_vars =>
        [\A r \in Req : isServerBusy /\ isServerBusy' /\ sends'[r] > sends[r]
           => sends[r] > 0 \/ place[r] \in BetweenLooks]_vars
  BY NextStep, StutterStep DEF Good, BusyHolds
<1> QED BY <1>1, Invariance, PTL DEF Spec, BusyHoldsNewCalls

(* After destroy() nothing begins, whichever attempts, pool connections and sockets come late. *)
THEOREM NothingBeginsAgain == Spec => NothingBeginsAfterDestroy
<1>1. IInv /\ [Next]_vars =>
        [isClosing => \A who \in Caller :
            /\ place[who] = "none" => place'[who] = "none"
            /\ place'[who] = "wire" => place[who] \in BetweenLooks \cup {"wire"}]_vars
  BY NextStep, StutterStep DEF Good, NothingBegins
<1> QED BY <1>1, Invariance, PTL DEF Spec, NothingBeginsAfterDestroy

=============================================================================
