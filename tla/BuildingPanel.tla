--------------------------- MODULE BuildingPanel ---------------------------
(***************************************************************************)
(* What the browser's building panel holds of the building it shows: the   *)
(* gate list of a section that is read when it opens, the rows of a gate   *)
(* that are read when it is unfolded, a control that saves, and the reads  *)
(* and writes in flight for this building and for the ones shown before    *)
(* (building-action-handler.ts), with the store they answer into           *)
(* (building-store.ts, client-bridge.ts).                                  *)
(*                                                                         *)
(* The browser is one thread: what a handler does between two awaits is    *)
(* one step, and every answer is a step of its own.  Which building is     *)
(* focused is the choice of the focus handlers, here of Show and Clear.    *)
(* One section with one gate stands for all, and so does one control.  The *)
(* dedup of reads and the generation of the event's refresh only take      *)
(* answers away and are left out; the dedup of writes is not.  The names   *)
(* are prefixed because MCParts extends this module beside another one.    *)
(***************************************************************************)
EXTENDS Naturals, FiniteSets

CONSTANTS
    Building,
    GateFirst,      \* the buildings whose first section is a gate section
    Nowhere,        \* no building
    MaxCalls,       \* bound: kinds of call in flight
    MaxAlike        \* bound: calls in flight of one kind for one building

ASSUME BuildingAssumption == GateFirst \subseteq Building /\ Nowhere \notin Building

VARIABLES
    details,        \* the building whose details the panel has
    gates,          \* details.supplies: "undefined", "without" the gate, with its "header", or with its rows "read"
    tabState,       \* tabLoadingStates
    gateState,      \* gateLoadingStates
    expanded,       \* expandedGates
    pendingUpdate,  \* pendingUpdates, whose keys do not name the building
    changing,       \* the buildings with a change that waits for a debounce or a prompt
    calls           \* how many calls of each kind are in flight for each building

sectionVars == <<gates, tabState, gateState, expanded, pendingUpdate>>
panelVars == <<details, sectionVars, changing, calls>>

Kind == {"refresh", "reread", "connect", "tab", "gate", "write"}
LoadState == {"idle", "loading", "loaded", "error"}

PanelInit ==
    /\ details = Nowhere /\ gates = "undefined" /\ tabState = "idle" /\ gateState = "idle"
    /\ expanded = FALSE /\ pendingUpdate = FALSE /\ changing = {}
    /\ calls = [k \in Kind |-> [b \in Building |-> 0]]

InFlight(k, b) == calls[k][b] > 0
Sent(c, k, b) == [c EXCEPT ![k][b] = @ + 1]
Answered(c, k, b) == [c EXCEPT ![k][b] = @ - 1]

Room(k, b) ==
    /\ calls[k][b] < MaxAlike
    /\ Cardinality({p \in Kind \X Building : InFlight(p[1], p[2])}) < MaxCalls
-----------------------------------------------------------------------------
(* The store. *)

setDetailsKeepsMemo(b, sent) ==         \* mutant: what is known of the gates is not forgotten with the building
    LET same == details = b IN
    /\ details' = b
    /\ gates' = IF sent # "undefined" THEN sent ELSE IF same THEN gates ELSE "undefined"
    /\ gateState' = IF sent = "undefined" THEN gateState ELSE "idle"
    /\ expanded' = (same /\ expanded) /\ pendingUpdate' = (same /\ pendingUpdate)

\* The load state of the tab apart, what a response with the gate list `sent` leaves of the sections: the list
\* is carried forward for the same building, and what is known of the gates goes when the list is replaced.
setDetails(b, sent) ==
    LET same == details = b IN
    /\ details' = b
    /\ gates' = IF sent # "undefined" THEN sent ELSE IF same THEN gates ELSE "undefined"
    /\ gateState' = IF same /\ sent = "undefined" THEN gateState ELSE "idle"
    /\ expanded' = (same /\ expanded) /\ pendingUpdate' = (same /\ pendingUpdate)

\* The tab: a list that holds a gate is one that was read.
TabAfter(b, sent) ==
    IF sent \in {"header", "read"} THEN "loaded" ELSE IF details = b THEN tabState ELSE "idle"

\* An answer for another building is rejected, a corrupted one too when there are details to keep; a scoped
\* one carries the present list over as if the response had sent it.
updateBuildingDetails(b, how) ==
    LET sent == IF details = b /\ how = "scoped" THEN gates ELSE "undefined" IN
    IF details \in {Nowhere, b} /\ ~(details = b /\ how = "corrupt")
    THEN setDetails(b, sent) /\ tabState' = TabAfter(b, sent)
    ELSE UNCHANGED <<details, sectionVars>>

resetTabLoadingStates == tabState' = "idle" /\ gateState' = "idle" /\ gates' = "undefined"

mergeTabDataKeepsMemo(b, listed) ==     \* mutant: the gates of a list read again keep their mark
    IF details = b
    THEN gates' = listed /\ tabState' = "loaded" /\ UNCHANGED gateState
    ELSE UNCHANGED <<gates, tabState, gateState>>

\* A listed gate has its header alone, so what was known of its rows is forgotten.
mergeTabData(b, listed) ==
    IF details = b
    THEN gates' = listed /\ tabState' = "loaded" /\ gateState' = "idle"
    ELSE UNCHANGED <<gates, tabState, gateState>>

mergeGateData(b) ==
    IF details = b
    THEN /\ gates' = IF gates = "header" THEN "read" ELSE gates
         /\ gateState' = IF gates = "undefined" THEN "idle" ELSE "loaded"
    ELSE UNCHANGED <<gates, gateState>>
-----------------------------------------------------------------------------
(* The building shown. *)

\* showBuildingPanel with the details of the opening read, and prefetchFirstLazyTab.
Show(b) ==
    /\ setDetails(b, "undefined") /\ UNCHANGED changing
    /\ LET tab == TabAfter(b, "undefined") IN
       IF b \in GateFirst /\ tab \in {"idle", "error"}
       THEN Room("tab", b) /\ tabState' = "loading" /\ calls' = Sent(calls, "tab", b)
       ELSE tabState' = tab /\ UNCHANGED calls

\* clearDetails and clearFocus: another building is focused, none is, or this one was deleted.
Clear ==
    /\ details # Nowhere /\ details' = Nowhere
    /\ gates' = "undefined" /\ tabState' = "idle" /\ gateState' = "idle" /\ expanded' = FALSE /\ pendingUpdate' = FALSE
    /\ UNCHANGED <<changing, calls>>

\* refreshBuildingDetails, of the timer, or a second after an action on a building that the panel may have left
\* since: it resets the sections of whatever is shown.
Refresh(b) ==
    /\ Room("refresh", b)
    /\ resetTabLoadingStates /\ calls' = Sent(calls, "refresh", b)
    /\ UNCHANGED <<details, expanded, pendingUpdate, changing>>

Refreshed(b) ==
    /\ InFlight("refresh", b)
    /\ calls' = Answered(calls, "refresh", b) /\ UNCHANGED changing
    /\ (\E how \in {"full", "corrupt"} : updateBuildingDetails(b, how)) \/ UNCHANGED <<details, sectionVars>>

\* The readings of the properties alone: an event's, of the building that is focused, whose details may not be
\* there yet, a write's, and those an invalidated cache asks for.
Reread(b) ==
    /\ Room("reread", b)
    /\ calls' = Sent(calls, "reread", b) /\ UNCHANGED <<details, sectionVars, changing>>

PropertiesRead(b) ==
    /\ InFlight("reread", b)
    /\ calls' = Answered(calls, "reread", b) /\ UNCHANGED changing
    /\ \/ \E how \in {"full", "scoped", "corrupt"} : updateBuildingDetails(b, how)
       \/ UNCHANGED <<details, sectionVars>>

\* refreshAfterConnectionChange: the lists are invalidated after the reading, whatever it brought.
ConnectionsChanged(b) ==
    /\ InFlight("connect", b)
    /\ calls' = Answered(calls, "connect", b)
    /\ details' \in IF details = Nowhere THEN {b, Nowhere} ELSE {details}
    /\ tabState' = "idle" /\ gateState' = "idle"
    /\ UNCHANGED <<gates, expanded, pendingUpdate, changing>>
-----------------------------------------------------------------------------
(* The sections, the gates and the controls of the panel. *)

\* The effect of the panel for an open section that is not settled.
RequestTab(b) ==
    /\ details = b /\ tabState = "idle" /\ Room("tab", b)
    /\ tabState' = "loading" /\ calls' = Sent(calls, "tab", b)
    /\ UNCHANGED <<details, gates, gateState, expanded, pendingUpdate, changing>>

\* The catch of requestTabData asks nobody which building the panel shows.
TabRead(b) ==
    /\ InFlight("tab", b)
    /\ calls' = Answered(calls, "tab", b)
    /\ \/ \E listed \in {"without", "header"} : mergeTabData(b, listed)
       \/ tabState' = "error" /\ UNCHANGED <<gates, gateState>>
    /\ UNCHANGED <<details, expanded, pendingUpdate, changing>>

\* The card of a gate is there with the list of its section.
Card(b) == details = b /\ tabState = "loaded" /\ gates \in {"header", "read"}

toggleGateExpanded(b) ==
    /\ Card(b)
    /\ expanded' = ~expanded
    /\ gateState' = IF ~expanded /\ gateState = "error" THEN "idle" ELSE gateState
    /\ UNCHANGED <<details, gates, tabState, pendingUpdate, changing, calls>>

\* The effect of an unfolded gate.
RequestGate(b) ==
    /\ Card(b) /\ expanded /\ gateState = "idle" /\ Room("gate", b)
    /\ gateState' = "loading" /\ calls' = Sent(calls, "gate", b)
    /\ UNCHANGED <<details, gates, tabState, expanded, pendingUpdate, changing>>

GateRead(b) ==
    /\ InFlight("gate", b)
    /\ calls' = Answered(calls, "gate", b)
    /\ mergeGateData(b) \/ (gateState' = "error" /\ UNCHANGED gates)
    /\ UNCHANGED <<details, tabState, expanded, pendingUpdate, changing>>

\* The player moves the control of the building shown, or is prompted: the handler holds its coordinates, and
\* its timer is not cleared when the control goes.
Change(b) ==
    /\ details = b
    /\ changing' = changing \cup {b} /\ UNCHANGED <<details, sectionVars, calls>>

\* setBuildingProperty, which asks nobody which building the panel shows by now.  A second write of the control,
\* of another value too, joins the one in flight.
Write(b) ==
    /\ b \in changing /\ changing' = changing \ {b}
    /\ IF InFlight("write", b)
       THEN UNCHANGED <<pendingUpdate, calls>>
       ELSE Room("write", b) /\ pendingUpdate' = TRUE /\ calls' = Sent(calls, "write", b)
    /\ UNCHANGED <<details, gates, tabState, gateState, expanded>>

\* confirmPending or failPending, under a key that does not name the building; a connection is then read again.
Written(b) ==
    /\ InFlight("write", b)
    /\ pendingUpdate' = FALSE
    /\ LET c == Answered(calls, "write", b) IN
       calls' = c \/ (calls["connect"][b] < MaxAlike /\ calls' = Sent(c, "connect", b))
    /\ UNCHANGED <<details, gates, tabState, gateState, expanded, changing>>
-----------------------------------------------------------------------------
PanelNext ==
    \/ Clear
    \/ \E b \in Building :
        \/ Show(b) \/ Refresh(b) \/ Refreshed(b) \/ Reread(b) \/ PropertiesRead(b) \/ ConnectionsChanged(b)
        \/ RequestTab(b) \/ TabRead(b) \/ toggleGateExpanded(b) \/ RequestGate(b) \/ GateRead(b)
        \/ Change(b) \/ Write(b) \/ Written(b)

PanelSpec == PanelInit /\ [][PanelNext]_panelVars
-----------------------------------------------------------------------------
(* Properties. *)

PanelTypeOK ==
    /\ details \in Building \cup {Nowhere}
    /\ gates \in {"undefined", "without", "header", "read"}
    /\ tabState \in LoadState /\ gateState \in LoadState
    /\ expanded \in BOOLEAN /\ pendingUpdate \in BOOLEAN /\ changing \subseteq Building
    /\ calls \in [Kind -> [Building -> Nat]]

SavesAreBacked == pendingUpdate => \E b \in Building : InFlight("write", b)

\* What the panel waits for is on its way: a section or a gate that loads has a read in flight for the building
\* shown, over every change of building and every late answer (requestTabData and requestGateConnections skip
\* what is marked as loading, so a mark without a read stays), and a control that saves has a write in flight
\* that will clear it: to the building shown or, for a write that came late (setBuildingProperty), to another.
WaitsAreBacked ==
    /\ tabState = "loading" => details # Nowhere /\ InFlight("tab", details)
    /\ gateState = "loading" => details # Nowhere /\ InFlight("gate", details)
    /\ SavesAreBacked

\* A gate marked as read has its rows on screen, or is not in the list: a mark left over a fresh list would never
\* be read again and show a gate without connections (forgetGateStates, mergeGateData).
GateMemoIsTrue == gateState = "loaded" => gates \in {"without", "read"}
=============================================================================
