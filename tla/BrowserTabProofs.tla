-------------------------- MODULE BrowserTabProofs --------------------------
(***************************************************************************)
(* What TLAPS proves about the tab: its connection, for any number of      *)
(* sockets, tokens and attempts, and the building panel, for any buildings *)
(* and any number of calls in flight.                                      *)
(***************************************************************************)
EXTENDS ClientReconnect, BuildingPanel, TLAPS

(***************************************************************************)
(* A tab without a password.                                               *)
(*                                                                         *)
(* UnderWay is not inductive: another attempt's socket may be the one that *)
(* is connecting, and its handlers decide nothing once it is superseded.   *)
(* The invariant follows the latest socket: the timer runs, or this.ws is  *)
(* connecting, or this.ws's own request is pending -- and a request is     *)
(* pending only while isConnected, so that its refusal is acted upon.      *)
(***************************************************************************)
Types ==
    /\ sock \in [Sock -> {"closed", "connecting", "open"}]
    /\ ws \in Sock
    /\ pending \subseteq [by : Sock, kind : {"resume", "login"}]

TokenOnly == page = "in" /\ ~canReplay

Latest ==
    TokenOnly /\ status = "reconnecting" =>
        timer \/ sock[ws] = "connecting" \/ \E q \in pending : q.by = ws

KInv ==
    /\ Types
    /\ pending # {} => isConnected
    /\ TokenOnly => \A q \in pending : q.kind = "resume"
    /\ Latest

LEMMA KInvInit == Init => KInv
  BY DEF Init, KInv, Types, Latest, TokenOnly

LEMMA OpensKeeps == ASSUME KInv, NEW s \in Sock, Opens(s) PROVE KInv'
  <1>1. Types' /\ isConnected'
    BY DEF KInv, Types, Opens, Sends, Resume, Login
  <1>2. (TokenOnly => \A q \in pending : q.kind = "resume")'
    BY DEF KInv, Opens, Sends, Resume, Login, TokenOnly
  <1>3. Latest'
    <2>1. CASE s = ws
      <3>1. sock'[ws] = "open" /\ ws' = ws
        BY <2>1 DEF KInv, Types, Opens
      <3>2. CASE held # None
        <4>1. [by |-> s, kind |-> "resume"] \in pending'
          BY <2>1, <3>1, <3>2 DEF Opens, Sends, Resume
        <4>2. \E q \in pending' : q.by = ws'
          BY <2>1, <3>1, <4>1
        <4>. QED  BY <4>2 DEF Latest
      <3>3. CASE held = None /\ TokenOnly'
        BY <3>3 DEF Opens, GivesUp, TokenOnly, Latest
      <3>. QED  BY <3>2, <3>3 DEF Latest
    <2>2. CASE s # ws
      <3>1. sock'[ws'] = sock[ws] /\ ws' = ws /\ timer' = timer /\ pending \subseteq pending'
        BY <2>2 DEF KInv, Types, Opens, Sends
      <3>. QED  BY <3>1 DEF KInv, Latest, TokenOnly, Opens, GivesUp
    <2>. QED  BY <2>1, <2>2
  <1>. QED  BY <1>1, <1>2, <1>3 DEF KInv

LEMMA ClosesKeeps == ASSUME KInv, NEW s \in Sock, Closes(s) PROVE KInv'
  <1>1. Types' /\ pending' = {}
    BY DEF KInv, Types, Closes
  <1>2. Latest'
    BY DEF KInv, Latest, TokenOnly, Closes, hasReconnectCredentials, Schedules, GivesUp
  <1>. QED  BY <1>1, <1>2 DEF KInv

LEMMA AttemptKeeps == ASSUME KInv, Fires \/ Foregrounds PROVE KInv'
  <1>1. UNCHANGED <<page, isConnected, canReplay, pending>>
    BY DEF Fires, Foregrounds
  <1>2. CASE Attempts
    <2>1. Types'
      BY <1>1, <1>2 DEF KInv, Types, Attempts
    <2>2. Latest'
      BY <1>1, <1>2 DEF KInv, Types, Latest, TokenOnly, Attempts, GivesUp
    <2>. QED  BY <1>1, <2>1, <2>2 DEF KInv, TokenOnly
  <1>3. CASE status # "reconnecting" /\ UNCHANGED <<status, ws, sock>>
    BY <1>1, <1>3 DEF KInv, Types, Latest, TokenOnly
  <1>. QED  BY <1>2, <1>3 DEF Fires, Foregrounds

(* A resume request that is refused, by an answer or by its deadline: the latest socket's is acted upon. *)
LEMMA RefusedKeeps ==
    ASSUME KInv, NEW p \in pending, p.kind = "resume",
           UNCHANGED <<page, ws, isConnected, timer, canReplay, sock>>,
           Refused(p.by, pending \ {p})
    PROVE  KInv'
  <1>0. isConnected /\ p.by \in Sock
    BY DEF KInv, Types
  <1>1. CASE p.by = ws
    <2>1. Types'
      BY <1>0, <1>1 DEF KInv, Types, Refused, Decides, Sends, Login
    <2>2. Latest' /\ (TokenOnly => \A q \in pending : q.kind = "resume")'
      BY <1>0, <1>1 DEF KInv, Latest, TokenOnly, Refused, Decides, GivesUp
    <2>. QED  BY <1>0, <2>1, <2>2 DEF KInv
  <1>2. CASE p.by # ws
    <2>1. pending' = pending \ {p} /\ UNCHANGED status
      BY <1>2 DEF Refused, Decides
    <2>. QED  BY <1>0, <1>2, <2>1 DEF KInv, Types, Latest, TokenOnly
  <1>. QED  BY <1>1, <1>2

LEMMA TimesOutKeeps == ASSUME KInv, NEW p \in pending, TimesOut(p) PROVE KInv'
  <1>1. CASE p.kind = "resume"
    BY <1>1, RefusedKeeps DEF TimesOut
  <1>2. CASE p.kind = "login"
    <2>1. ~TokenOnly /\ ~TokenOnly'
      BY <1>2 DEF KInv, TokenOnly, TimesOut
    <2>. QED  BY <1>2, <2>1 DEF KInv, Types, Latest, TimesOut
  <1>. QED  BY <1>1, <1>2 DEF TimesOut

LEMMA ReceivesKeeps == ASSUME KInv, NEW s \in Sock, Receives(s) PROVE KInv'
  <1>. DEFINE msg == Head(down[s])
              asked == [by |-> msg.by, kind |-> IF msg.kind \in {"resumed", "refused"} THEN "resume" ELSE "login"]
  <1>1. UNCHANGED <<page, ws, isConnected, timer, canReplay, sock>>
    BY DEF Receives
  <1>2. CASE UNCHANGED <<status, pending>>
    BY <1>1, <1>2 DEF KInv, Types, Latest, TokenOnly
  <1>3. CASE status' = "connected" /\ pending' = pending \ {asked}
    BY <1>1, <1>3 DEF KInv, Types, Latest, TokenOnly
  <1>4. CASE msg.kind = "refused" /\ asked \in pending /\ Refused(msg.by, pending \ {asked})
    <2>1. asked.kind = "resume" /\ asked.by = msg.by
      BY <1>4
    <2>. HIDE DEF asked, msg
    <2>. QED  BY <1>1, <1>4, <2>1, RefusedKeeps
  <1>5. CASE msg.kind = "denied" /\ asked \in pending /\ pending' = pending \ {asked} /\ UNCHANGED status
    <2>1. asked.kind = "login"
      BY <1>5
    <2>2. ~TokenOnly /\ ~TokenOnly'
      BY <1>1, <1>5, <2>1 DEF KInv, TokenOnly
    <2>. QED  BY <1>1, <1>5, <2>2 DEF KInv, Types, Latest
  <1>. QED  BY <1>2, <1>3, <1>4, <1>5 DEF Receives

LEMMA OthersKeep ==
    ASSUME KInv,
           \/ Logout \/ ParkExpires \/ Restarts \/ UNCHANGED vars
           \/ \E s \in Sock : Handles(s) \/ Rotates(s)
    PROVE  KInv'
  <1>1. UNCHANGED <<status, ws, isConnected, timer, pending, sock>>
    BY DEF Logout, ParkExpires, Restarts, Handles, Rotates, vars, pageVars
  <1>2. TokenOnly' => TokenOnly
    BY DEF TokenOnly, Logout, ParkExpires, Restarts, Handles, Rotates, vars, pageVars
  <1>. QED  BY <1>1, <1>2 DEF KInv, Types, Latest

(* A tab that holds only its token is never left on the spinner with nothing under way (client.ts 1462, 1502, *)
(* 1537), for any number of sockets racing each other.                                                        *)
THEOREM TokenOnlyTabKeepsTrying == Spec => []TokenOnlyKeepsTrying
<1>1. KInv /\ [Next]_vars => KInv'
  BY OpensKeeps, ClosesKeeps, AttemptKeeps, TimesOutKeeps, ReceivesKeeps, OthersKeep DEF Next
<1>2. KInv => TokenOnlyKeepsTrying
  BY DEF KInv, Types, Latest, TokenOnly, TokenOnlyKeepsTrying, UnderWay
<1>. QED  BY KInvInit, <1>1, <1>2, PTL DEF Spec

(* The resume token outlives every dropped socket ("the token may still be good", client.ts 1498). *)
THEOREM DroppedSocketKeepsTheToken == Spec => DropsKeepTheToken
<1>. DEFINE Drop == \E s \in Sock : sock[s] # "closed" /\ sock'[s] = "closed"
<1>1. KInv /\ [Next]_vars => KInv'
  BY OpensKeeps, ClosesKeeps, AttemptKeeps, TimesOutKeeps, ReceivesKeeps, OthersKeep DEF Next
<1>2. KInv /\ [Next]_vars => [Drop => held' = held]_vars
  <2>. SUFFICES ASSUME KInv, [Next]_vars, Drop PROVE held' = held
    OBVIOUS
  <2>1. CASE \E s \in Sock : Closes(s)
    BY <2>1 DEF Closes, Decides
  <2>2. CASE \E s \in Sock : Opens(s)
    BY <2>2 DEF Opens
  <2>3. CASE Fires \/ Foregrounds
    BY <2>3 DEF Fires, Foregrounds
  <2>4. CASE UNCHANGED sock
    BY <2>4
  <2>. QED
    BY <2>1, <2>2, <2>3, <2>4
    DEF Next, vars, Receives, Handles, Rotates, Logout, TimesOut, ParkExpires, Restarts
<1>. QED  BY KInvInit, <1>1, <1>2, PTL DEF Spec, DropsKeepTheToken

-----------------------------------------------------------------------------
(* The building panel *)

\* A panel without a building has no gates, which is what a first refresh may carry over.
EmptyIsBlank == details = Nowhere => gates = "undefined" /\ ~expanded

\* The inductive invariant.
PanelInv == PanelTypeOK /\ EmptyIsBlank /\ WaitsAreBacked /\ GateMemoIsTrue

\* A call more or less of one kind for one building leaves the counts of the others.
LEMMA CallAdded ==
    ASSUME calls \in [Kind -> [Building -> Nat]], NEW k \in Kind, NEW b \in Building, calls' = Sent(calls, k, b)
    PROVE  /\ calls' \in [Kind -> [Building -> Nat]]
           /\ calls'[k][b] > 0
           /\ \A j \in Kind, o \in Building : calls'[j][o] >= calls[j][o]
  <1> DEFINE new == [calls[k] EXCEPT ![b] = @ + 1]
  <1>1. new \in [Building -> Nat] /\ new[b] > 0 /\ \A o \in Building : new[o] >= calls[k][o]
    OBVIOUS
  <1>2. calls' = [calls EXCEPT ![k] = new]
    BY DEF Sent
  <1> HIDE DEF new
  <1>3. QED
    BY <1>1, <1>2

LEMMA CallRemoved ==
    ASSUME calls \in [Kind -> [Building -> Nat]], NEW k \in Kind, NEW b \in Building, InFlight(k, b)
    PROVE  /\ Answered(calls, k, b) \in [Kind -> [Building -> Nat]]
           /\ \A j \in Kind, o \in Building : j # k \/ o # b => Answered(calls, k, b)[j][o] = calls[j][o]
  <1> DEFINE new == [calls[k] EXCEPT ![b] = @ - 1]
  <1>1. new \in [Building -> Nat] /\ \A o \in Building : o # b => new[o] = calls[k][o]
    BY DEF InFlight
  <1>2. Answered(calls, k, b) = [calls EXCEPT ![k] = new]
    BY DEF Answered
  <1> HIDE DEF new
  <1>3. QED
    BY <1>1, <1>2

\* A save is backed as long as no write is answered.
LEMMA SavesKept ==
    ASSUME PanelInv, pendingUpdate' => pendingUpdate, calls' \in [Kind -> [Building -> Nat]],
           \A o \in Building : calls'["write"][o] >= calls["write"][o]
    PROVE  SavesAreBacked'
  <1>1. pendingUpdate => \E o \in Building : calls["write"][o] > 0
    BY DEF PanelInv, WaitsAreBacked, SavesAreBacked, InFlight
  <1>2. \A o \in Building : calls["write"][o] \in Nat /\ calls'["write"][o] \in Nat
    BY DEF PanelInv, PanelTypeOK, Kind
  <1>3. (\E o \in Building : calls["write"][o] > 0) => \E o \in Building : calls'["write"][o] > 0
    BY <1>2
  <1>4. QED
    BY <1>1, <1>3, Zenon DEF SavesAreBacked, InFlight

LEMMA PanelInitial == PanelInit => PanelInv
  <1> SUFFICES ASSUME PanelInit PROVE PanelInv
    OBVIOUS
  <1>1. calls \in [Kind -> [Building -> Nat]]
    BY DEF PanelInit
  <1>2. QED
    BY <1>1 DEF PanelInit, PanelInv, PanelTypeOK, EmptyIsBlank, WaitsAreBacked, SavesAreBacked, GateMemoIsTrue, LoadState

\* setDetails: the marks it keeps are those of the same building, whose reads and writes are still in flight.
LEMMA DetailsSet ==
    ASSUME PanelInv, NEW b \in Building, NEW sent \in {"undefined", gates},
           sent # "undefined" => details = b,
           setDetails(b, sent),
           tabState' = TabAfter(b, sent) \/ (tabState' = "loading" /\ calls'["tab"][b] > 0),
           calls' \in [Kind -> [Building -> Nat]],
           changing' = changing,
           \A k \in {"tab", "gate", "write"}, o \in Building : calls'[k][o] >= calls[k][o]
    PROVE  PanelInv'
  <1>1. \A k \in {"tab", "gate", "write"}, o \in Building : calls[k][o] \in Nat /\ calls'[k][o] \in Nat
    BY DEF PanelInv, PanelTypeOK, Kind
  <1>2. details' = b /\ b # Nowhere
    BY BuildingAssumption DEF setDetails
  <1>3. PanelTypeOK'
    BY <1>2 DEF PanelInv, PanelTypeOK, LoadState, setDetails, TabAfter
  <1>4. WaitsAreBacked'
    <2>1. tabState' = "loading" => calls'["tab"][b] > 0
      <3>1. TabAfter(b, sent) = "loading" => details = b /\ tabState = "loading"
        BY DEF TabAfter
      <3>2. tabState = "loading" /\ details = b => calls["tab"][b] > 0
        BY DEF PanelInv, WaitsAreBacked, InFlight
      <3>3. QED
        BY <1>1, <3>1, <3>2
    <2>2. gateState' = "loading" => calls'["gate"][b] > 0
      BY <1>1, <1>2 DEF PanelInv, WaitsAreBacked, setDetails, InFlight
    <2>3. SavesAreBacked'
      <3>1. pendingUpdate' => pendingUpdate
        BY Zenon DEF setDetails
      <3>2. \A o \in Building : calls'["write"][o] >= calls["write"][o]
        OBVIOUS
      <3>3. QED
        BY <3>1, <3>2, SavesKept
    <2>4. QED
      BY <1>2, <2>1, <2>2, <2>3 DEF WaitsAreBacked, InFlight
  <1>5. GateMemoIsTrue'
    BY DEF PanelInv, GateMemoIsTrue, setDetails
  <1>6. QED
    BY <1>2, <1>3, <1>4, <1>5 DEF PanelInv, EmptyIsBlank

\* An answer that changes nothing the panel shows, and is none of those the panel waits for.
LEMMA NothingShown ==
    ASSUME PanelInv, UNCHANGED <<details, sectionVars>>, changing' \subseteq Building,
           calls' \in [Kind -> [Building -> Nat]],
           \A k \in {"tab", "gate", "write"}, b \in Building : calls'[k][b] >= calls[k][b]
    PROVE  PanelInv'
  <1>1. \A k \in {"tab", "gate", "write"}, b \in Building : calls[k][b] \in Nat /\ calls'[k][b] \in Nat
    BY DEF PanelInv, PanelTypeOK, Kind
  <1>2. SavesAreBacked'
    BY SavesKept DEF sectionVars
  <1>3. QED
    BY <1>1, <1>2, BuildingAssumption
    DEF PanelInv, PanelTypeOK, EmptyIsBlank, WaitsAreBacked, GateMemoIsTrue, sectionVars, InFlight

\* The answer of a reading of the whole panel.
LEMMA AnswerShown ==
    ASSUME PanelInv, NEW k \in {"refresh", "reread"}, NEW b \in Building, InFlight(k, b),
           calls' = Answered(calls, k, b), changing' = changing,
           (\E how \in {"full", "scoped", "corrupt"} : updateBuildingDetails(b, how))
             \/ UNCHANGED <<details, sectionVars>>
    PROVE  PanelInv'
  <1>1. /\ calls' \in [Kind -> [Building -> Nat]]
        /\ \A j \in {"tab", "gate", "write"}, o \in Building : calls'[j][o] = calls[j][o]
    BY CallRemoved DEF PanelInv, PanelTypeOK, Kind
  <1>2. \A j \in {"tab", "gate", "write"}, o \in Building : calls'[j][o] >= calls[j][o]
    BY <1>1 DEF PanelInv, PanelTypeOK, Kind
  <1>3. CASE UNCHANGED <<details, sectionVars>>
    BY <1>1, <1>2, <1>3, NothingShown DEF PanelInv, PanelTypeOK
  <1>4. ASSUME NEW how \in {"full", "scoped", "corrupt"}, updateBuildingDetails(b, how), ~UNCHANGED <<details, sectionVars>>
        PROVE  PanelInv'
    <2> DEFINE sent == IF details = b /\ how = "scoped" THEN gates ELSE "undefined"
    <2>1. setDetails(b, sent) /\ tabState' = TabAfter(b, sent)
      BY <1>4 DEF updateBuildingDetails
    <2>2. sent \in {"undefined", gates} /\ (sent # "undefined" => details = b)
      OBVIOUS
    <2> HIDE DEF sent
    <2>3. QED
      BY <1>1, <1>2, <2>1, <2>2, DetailsSet
  <1>5. QED
    BY <1>3, <1>4

\* Every step keeps the invariant.
LEMMA PanelStep == PanelInv /\ [PanelNext]_panelVars => PanelInv'
  <1> SUFFICES ASSUME PanelInv, [PanelNext]_panelVars PROVE PanelInv'
    OBVIOUS
  <1> USE DEF LoadState
  <1>t. calls \in [Kind -> [Building -> Nat]]
    BY DEF PanelInv, PanelTypeOK
  <1>n. \A k \in Kind, o \in Building : calls[k][o] \in Nat
    BY <1>t
  <1>1. CASE UNCHANGED panelVars
    BY <1>1 DEF panelVars, sectionVars, PanelInv, PanelTypeOK, EmptyIsBlank, WaitsAreBacked, SavesAreBacked, GateMemoIsTrue,
                InFlight
  <1>2. CASE Clear
    BY <1>2, BuildingAssumption
    DEF Clear, PanelInv, PanelTypeOK, EmptyIsBlank, WaitsAreBacked, SavesAreBacked, GateMemoIsTrue
  <1>3. ASSUME NEW b \in Building, Show(b) PROVE PanelInv'
    <2>1. CASE calls' = calls /\ tabState' = TabAfter(b, "undefined")
      <3>1. \A k \in {"tab", "gate", "write"}, o \in Building : calls'[k][o] >= calls[k][o]
        BY <2>1, <1>n DEF Kind
      <3>2. QED
        BY <1>3, <2>1, <3>1, <1>t, DetailsSet DEF Show
    <2>2. CASE calls' = Sent(calls, "tab", b) /\ tabState' = "loading"
      <3>1. /\ calls' \in [Kind -> [Building -> Nat]] /\ calls'["tab"][b] > 0
            /\ \A k \in Kind, o \in Building : calls'[k][o] >= calls[k][o]
        BY <2>2, <1>t, CallAdded DEF Kind
      <3>2. QED
        BY <1>3, <2>2, <3>1, DetailsSet DEF Show, Kind
    <2>3. QED
      BY <1>3, <2>1, <2>2 DEF Show
  <1>4. ASSUME NEW b \in Building, Refresh(b) PROVE PanelInv'
    <2>1. calls' \in [Kind -> [Building -> Nat]] /\ \A k \in Kind, o \in Building : calls'[k][o] >= calls[k][o]
      BY <1>4, <1>t, CallAdded DEF Refresh, Kind
    <2>2. details # Nowhere => calls'["write"][details] >= calls["write"][details] /\ calls'["write"][details] \in Nat
      BY <2>1, <1>n DEF PanelInv, PanelTypeOK, Kind
    <2>s. SavesAreBacked'
      BY <1>4, <2>1, SavesKept DEF Refresh, Kind
    <2>3. QED
      BY <1>4, <2>s, <1>n, <2>1, <2>2
      DEF Refresh, resetTabLoadingStates, PanelInv, PanelTypeOK, EmptyIsBlank, WaitsAreBacked, GateMemoIsTrue, InFlight, Kind
  <1>5. ASSUME NEW b \in Building, Refreshed(b) PROVE PanelInv'
    BY <1>5, AnswerShown DEF Refreshed
  <1>6. ASSUME NEW b \in Building, Reread(b) PROVE PanelInv'
    <2>1. calls' \in [Kind -> [Building -> Nat]] /\ \A k \in Kind, o \in Building : calls'[k][o] >= calls[k][o]
      BY <1>6, <1>t, CallAdded DEF Reread, Kind
    <2>2. QED
      BY <1>6, <2>1, NothingShown DEF Reread, PanelInv, PanelTypeOK, Kind
  <1>7. ASSUME NEW b \in Building, PropertiesRead(b) PROVE PanelInv'
    BY <1>7, AnswerShown DEF PropertiesRead
  <1>8. ASSUME NEW b \in Building, ConnectionsChanged(b) PROVE PanelInv'
    <2>1. /\ calls' \in [Kind -> [Building -> Nat]]
          /\ \A o \in Building : calls'["write"][o] = calls["write"][o]
      BY <1>8, <1>t, CallRemoved DEF ConnectionsChanged, Kind
    <2>w. \A o \in Building : calls'["write"][o] >= calls["write"][o]
      BY <2>1, <1>n DEF Kind
    <2>s. SavesAreBacked'
      BY <1>8, <2>1, <2>w, SavesKept DEF ConnectionsChanged
    <2>2. QED
      BY <1>8, <2>s, <2>1
      DEF ConnectionsChanged, PanelInv, PanelTypeOK, EmptyIsBlank, WaitsAreBacked, GateMemoIsTrue, InFlight
  <1>9. ASSUME NEW b \in Building, RequestTab(b) PROVE PanelInv'
    <2>1. /\ calls' \in [Kind -> [Building -> Nat]] /\ calls'["tab"][b] > 0
          /\ \A k \in Kind, o \in Building : calls'[k][o] >= calls[k][o]
      BY <1>9, <1>t, CallAdded DEF RequestTab, Kind
    <2>2. \A k \in {"gate", "write"} : InFlight(k, b) => calls'[k][b] > 0
      BY <2>1, <1>n DEF InFlight, Kind
    <2>s. SavesAreBacked'
      BY <1>9, <2>1, SavesKept DEF RequestTab, Kind
    <2>3. QED
      BY <1>9, <2>s, <2>1, <2>2, BuildingAssumption
      DEF RequestTab, PanelInv, PanelTypeOK, EmptyIsBlank, WaitsAreBacked, GateMemoIsTrue, InFlight
  <1>10. ASSUME NEW b \in Building, TabRead(b) PROVE PanelInv'
    <2>1. /\ calls' \in [Kind -> [Building -> Nat]]
          /\ \A k \in Kind, o \in Building : k # "tab" \/ o # b => calls'[k][o] = calls[k][o]
      BY <1>10, <1>t, CallRemoved DEF TabRead, Kind
    <2>2. \A k \in {"gate", "write"} : details # Nowhere => calls'[k][details] = calls[k][details]
      BY <2>1 DEF PanelInv, PanelTypeOK, Kind
    <2>3. details \notin {Nowhere, b} => calls'["tab"][details] = calls["tab"][details]
      BY <2>1 DEF PanelInv, PanelTypeOK, Kind
    <2>4. UNCHANGED <<details, expanded, pendingUpdate, changing>>
      BY <1>10 DEF TabRead
    <2>w. \A o \in Building : calls'["write"][o] >= calls["write"][o]
      BY <2>1, <1>n DEF Kind
    <2>s. SavesAreBacked'
      BY <2>1, <2>4, <2>w, SavesKept
    <2>5. CASE details = b /\ gates' \in {"without", "header"} /\ tabState' = "loaded" /\ gateState' = "idle"
      BY <2>s, <2>1, <2>2, <2>4, <2>5, BuildingAssumption
      DEF PanelInv, PanelTypeOK, EmptyIsBlank, WaitsAreBacked, GateMemoIsTrue, InFlight
    <2>6. CASE details # b /\ UNCHANGED <<gates, tabState, gateState>>
      BY <2>s, <2>1, <2>2, <2>3, <2>4, <2>6
      DEF PanelInv, PanelTypeOK, EmptyIsBlank, WaitsAreBacked, GateMemoIsTrue, InFlight
    <2>7. CASE tabState' = "error" /\ UNCHANGED <<gates, gateState>>
      BY <2>s, <2>1, <2>2, <2>4, <2>7
      DEF PanelInv, PanelTypeOK, EmptyIsBlank, WaitsAreBacked, GateMemoIsTrue, InFlight
    <2>8. QED
      BY <1>10, <2>5, <2>6, <2>7 DEF TabRead, mergeTabData
  <1>11. ASSUME NEW b \in Building, toggleGateExpanded(b) PROVE PanelInv'
    <2>s. SavesAreBacked'
      BY <1>11, <1>t, <1>n, SavesKept DEF toggleGateExpanded, Kind
    <2>. QED
      BY <1>11, <2>s, BuildingAssumption
      DEF toggleGateExpanded, Card, PanelInv, PanelTypeOK, EmptyIsBlank, WaitsAreBacked, GateMemoIsTrue, InFlight
  <1>12. ASSUME NEW b \in Building, RequestGate(b) PROVE PanelInv'
    <2>1. /\ calls' \in [Kind -> [Building -> Nat]] /\ calls'["gate"][b] > 0
          /\ \A k \in Kind, o \in Building : calls'[k][o] >= calls[k][o]
      BY <1>12, <1>t, CallAdded DEF RequestGate, Kind
    <2>2. \A k \in {"tab", "write"} : InFlight(k, b) => calls'[k][b] > 0
      BY <2>1, <1>n DEF InFlight, Kind
    <2>s. SavesAreBacked'
      BY <1>12, <2>1, SavesKept DEF RequestGate, Kind
    <2>3. QED
      BY <1>12, <2>s, <2>1, <2>2, BuildingAssumption
      DEF RequestGate, Card, PanelInv, PanelTypeOK, EmptyIsBlank, WaitsAreBacked, GateMemoIsTrue, InFlight
  <1>13. ASSUME NEW b \in Building, GateRead(b) PROVE PanelInv'
    <2>1. /\ calls' \in [Kind -> [Building -> Nat]]
          /\ \A k \in Kind, o \in Building : k # "gate" \/ o # b => calls'[k][o] = calls[k][o]
      BY <1>13, <1>t, CallRemoved DEF GateRead, Kind
    <2>2. \A k \in {"tab", "write"} : details # Nowhere => calls'[k][details] = calls[k][details]
      BY <2>1 DEF PanelInv, PanelTypeOK, Kind
    <2>3. details \notin {Nowhere, b} => calls'["gate"][details] = calls["gate"][details]
      BY <2>1 DEF PanelInv, PanelTypeOK, Kind
    <2>w. \A o \in Building : calls'["write"][o] >= calls["write"][o]
      BY <2>1, <1>n DEF Kind
    <2>s. SavesAreBacked'
      BY <1>13, <2>1, <2>w, SavesKept DEF GateRead
    <2>4. QED
      BY <1>13, <2>s, <2>1, <2>2, <2>3
      DEF GateRead, mergeGateData, PanelInv, PanelTypeOK, EmptyIsBlank, WaitsAreBacked, GateMemoIsTrue, InFlight
  <1>14. ASSUME NEW b \in Building, Change(b) PROVE PanelInv'
    BY <1>14, <1>t, <1>n, NothingShown DEF Change, PanelInv, PanelTypeOK, Kind
  <1>15. ASSUME NEW b \in Building, Write(b) PROVE PanelInv'
    <2>1. changing' \subseteq Building
      BY <1>15 DEF Write, PanelInv, PanelTypeOK
    <2>2. CASE UNCHANGED <<pendingUpdate, calls>>
      BY <1>15, <1>t, <1>n, <2>1, <2>2, NothingShown DEF Write, sectionVars, Kind
    <2>3. CASE pendingUpdate' = TRUE /\ calls' = Sent(calls, "write", b)
      <3>1. /\ calls' \in [Kind -> [Building -> Nat]] /\ calls'["write"][b] > 0
            /\ \A k \in Kind, o \in Building : calls'[k][o] >= calls[k][o]
        BY <2>3, <1>t, CallAdded DEF Kind
      <3>2. \A k \in {"tab", "gate"}, o \in Building : InFlight(k, o) => calls'[k][o] > 0
        BY <3>1, <1>n DEF InFlight, Kind
      <3>3. SavesAreBacked'
        BY <3>1 DEF SavesAreBacked, InFlight
      <3>4. UNCHANGED <<details, gates, tabState, gateState, expanded>>
        BY <1>15 DEF Write
      <3>5. QED
        BY <2>1, <2>3, <3>1, <3>2, <3>3, <3>4, BuildingAssumption
        DEF PanelInv, PanelTypeOK, EmptyIsBlank, WaitsAreBacked, GateMemoIsTrue, InFlight
    <2>4. QED
      BY <1>15, <2>2, <2>3 DEF Write
  <1>16. ASSUME NEW b \in Building, Written(b) PROVE PanelInv'
    <2> DEFINE c == Answered(calls, "write", b)
    <2>1. /\ c \in [Kind -> [Building -> Nat]]
          /\ \A k \in {"tab", "gate"}, o \in Building : c[k][o] = calls[k][o]
      BY <1>16, <1>t, CallRemoved DEF Written, Kind
    <2>2. calls' = c \/ calls' = Sent(c, "connect", b)
      BY <1>16 DEF Written
    <2> HIDE DEF c
    <2>3. calls' \in [Kind -> [Building -> Nat]] /\ \A k \in {"tab", "gate"}, o \in Building : calls'[k][o] = c[k][o]
      BY <2>1, <2>2 DEF Sent, Kind
    <2>4. \A k \in {"tab", "gate"} : details # Nowhere => calls'[k][details] = calls[k][details]
      BY <2>1, <2>3 DEF PanelInv, PanelTypeOK
    <2>5. SavesAreBacked' /\ UNCHANGED <<details, gates, tabState, gateState, expanded, changing>> /\ pendingUpdate' = FALSE
      BY <1>16 DEF Written, SavesAreBacked
    <2>6. QED
      BY <2>3, <2>4, <2>5
      DEF PanelInv, PanelTypeOK, EmptyIsBlank, WaitsAreBacked, GateMemoIsTrue, InFlight
  <1>17. QED
    BY <1>1, <1>2, <1>3, <1>4, <1>5, <1>6, <1>7, <1>8, <1>9, <1>10, <1>11, <1>12, <1>13, <1>14, <1>15,
       <1>16
    DEF PanelNext
-----------------------------------------------------------------------------
\* For any buildings and any number of calls in flight, a section that loads and a gate that loads have the read in
\* flight that will end it, for the building the panel shows, and a control that saves has a write in flight that
\* clears it, to this building or, late, to another.
THEOREM PanelWaitsAreBacked == PanelSpec => []WaitsAreBacked
  <1>1. PanelInv => WaitsAreBacked
    BY DEF PanelInv
  <1>2. QED
    BY <1>1, PanelInitial, PanelStep, PTL DEF PanelSpec

\* For any buildings and any number of calls in flight, no gate is marked as read over a list without its rows.
THEOREM GateMarksAreTrue == PanelSpec => []GateMemoIsTrue
  <1>1. PanelInv => GateMemoIsTrue
    BY DEF PanelInv
  <1>2. QED
    BY <1>1, PanelInitial, PanelStep, PTL DEF PanelSpec
=============================================================================
