-------------------------------- MODULE WebUi --------------------------------
(***************************************************************************)
(* A page of the UI: the scope it shows, the steps of the app loop that    *)
(* notify it, the documents' update stream, and the socket that pushes a   *)
(* fresh snapshot for each notification.                                   *)
(*                                                                         *)
(* A snapshot is read piece by piece, each under its own lock, while the   *)
(* loop and the connection tasks go on.  What matters of a piece is only   *)
(* whether it changed since the snapshot read it.                          *)
(***************************************************************************)
EXTENDS PeerRows

CONSTANTS
    NotifyCap,   \* capacity of the notify channel (64 in main)
    BusCap,      \* capacity of a doc's update stream, and the update in hand
    DocCap       \* DOC_EVENT_QUEUE

ASSUME CapAssumption ==
    NotifyCap \in Nat \ {0} /\ BusCap \in Nat \ {0} /\ DocCap \in Nat \ {0}

VARIABLES
    view,     \* the scope of the page's URL: "devices" or "room"
    joined,   \* whether this device is in that room
    members,  \* devices with an announced connection in that room
    parting,  \* devices whose PeerDisconnected of that room is yet to be emitted
    bus,      \* updates of the scope's doc the forwarder has yet to take;
              \* one more than BusCap: it lagged
    docq,     \* doc events the loop has yet to handle
    owes,     \* the loop has changed state and is about to notify
    page,     \* whether the page's socket is open
    unread,   \* notifications it has yet to receive; more than NotifyCap: it lagged
    read,     \* how many pieces its latest snapshot has read
    stale     \* ghost: those of them that changed since

scopes == <<view, joined, members, parting>>
docs   == <<bus, docq>>
socket == <<page, unread, read, stale>>
uiVars == <<vars, scopes, docs, owes, socket>>

-----------------------------------------------------------------------------
(* In the order in which build_state reads them. *)
Pieces == <<"rows", "joined", "entries", "members", "connected", "listed">>

Read == {Pieces[k] : k \in 1..read}

(* What a step that changes these pieces does to the page's snapshot. *)
Touch(pieces) ==
    stale' = IF page THEN stale \cup (Read \cap pieces) ELSE stale

DocOpen == view = "devices" \/ joined

(* How many wait in a broadcast channel after one more. *)
Pushed(n, cap) == IF n > cap THEN n ELSE n + 1

Unlike(piece, old, new) == IF old = new THEN {} ELSE {piece}

(* The pieces that a step of the base model changes. *)
Changed ==
    Unlike("rows", rows, rows') \cup Unlike("connected", connected, connected')
        \cup Unlike("listed", listed, listed')

-----------------------------------------------------------------------------
(***************************************************************************)
(* The app loop: every handler ends by notifying the UI.                   *)
(***************************************************************************)
Handled == ~owes /\ owes' = TRUE

Discovered == Found /\ Handled
LossSeen   == ~owes /\ Lost /\ UNCHANGED owes
LossDone   == registry_on_lost /\ Handled
Noticed    == on_sync /\ Handled
TrustSet   == (\E d \in Device, trusted \in BOOLEAN : SetDeviceTrusted(d, trusted)) /\ Handled

BaseLoop ==
    /\ Discovered \/ LossSeen \/ LossDone \/ Noticed \/ TrustSet
    /\ Touch(Changed)
    /\ UNCHANGED <<scopes, docs, page, unread, read>>

on_doc_event ==
    /\ Free /\ docq > 0
    /\ docq' = docq - 1
    /\ Handled
    /\ UNCHANGED <<vars, scopes, bus, socket>>

join_room ==
    /\ Free /\ ~joined
    /\ joined' = TRUE
    /\ Touch({"joined"})
    /\ Handled
    /\ UNCHANGED <<vars, view, members, parting, docs, page, unread, read>>

(* Which of the room's connections are left.  (As a plausible bug: all.) *)
StayWithAll == members
Stay == {}

(* The room's connections are dropped (one notice stands for theirs), its
   forwarder is aborted and its doc is gone, the updates on their way with it. *)
leave_room ==
    /\ Free /\ joined
    /\ joined' = FALSE /\ members' = Stay
    /\ IF members = {} THEN UNCHANGED vars ELSE RoomNotice
    /\ bus' = IF view = "room" THEN 0 ELSE bus
    /\ Touch({"joined", "members"} \cup IF view = "room" THEN {"entries"} ELSE {})
    /\ Handled
    /\ UNCHANGED <<view, parting, docq, page, unread, read>>

(* Whether the page's socket is subscribed.  (As a plausible bug: only once the
   snapshot is built.) *)
ListensLate == page /\ read = Len(Pieces)
Listens == page

notify_ui ==
    /\ owes /\ owes' = FALSE
    /\ unread' = IF Listens THEN Pushed(unread, NotifyCap) ELSE unread
    /\ UNCHANGED <<vars, scopes, docs, page, read, stale>>

-----------------------------------------------------------------------------
(***************************************************************************)
(* Connection tasks, in the devices scope and in the room.                 *)
(***************************************************************************)
DevicesConnection ==
    /\ Connections
    /\ Touch(Changed)
    /\ UNCHANGED <<scopes, docs, owes, page, unread, read>>

MemberAnnounced(d) ==
    /\ joined
    /\ members' = members \cup {d}
    /\ RoomNotice
    /\ Touch({"members"})
    /\ UNCHANGED <<view, joined, parting, docs, owes, page, unread, read>>

MemberFinished(d) ==
    /\ d \in members
    /\ members' = members \ {d}
    /\ parting' = parting \cup {d}
    /\ Touch({"members"})
    /\ UNCHANGED <<vars, view, joined, docs, owes, page, unread, read>>

MemberParted(d) ==
    /\ d \in parting /\ parting' = parting \ {d}
    /\ RoomNotice
    /\ UNCHANGED <<view, joined, members, docs, owes, socket>>

(* An entry is added, here or by a peer. *)
Commit ==
    /\ DocOpen
    /\ bus' = Pushed(bus, BusCap)
    /\ Touch({"entries"})
    /\ UNCHANGED <<vars, scopes, docq, owes, page, unread, read>>

(* An update, or the word that updates were lost, which is no less told. *)
forward_doc_updates ==
    /\ bus > 0 /\ docq < DocCap
    /\ bus' = bus - 1
    /\ docq' = docq + 1
    /\ UNCHANGED <<vars, scopes, owes, socket>>

Discovery ==
    /\ Browsing
    /\ UNCHANGED <<scopes, docs, owes, socket>>

-----------------------------------------------------------------------------
(***************************************************************************)
(* The page's socket.  It subscribes and then sends a first snapshot; it   *)
(* looks at its notifications when the last one is sent.                   *)
(***************************************************************************)
Open ==
    /\ ~page /\ page' = TRUE
    /\ unread' = 0 /\ read' = 0 /\ stale' = {}
    /\ UNCHANGED <<vars, scopes, docs, owes>>

build_state ==
    /\ page /\ read < Len(Pieces)
    /\ read' = read + 1
    /\ UNCHANGED <<vars, scopes, docs, owes, page, unread, stale>>

(* A lag counts as one notification. *)
Notified ==
    /\ page /\ read = Len(Pieces) /\ unread > 0
    /\ unread' = unread - 1
    /\ read' = 0 /\ stale' = {}
    /\ UNCHANGED <<vars, scopes, docs, owes, page>>

Close ==
    /\ page /\ page' = FALSE
    /\ unread' = 0 /\ read' = 0 /\ stale' = {}
    /\ UNCHANGED <<vars, scopes, docs, owes>>

-----------------------------------------------------------------------------
UiInit ==
    /\ Init
    /\ view \in {"devices", "room"} /\ joined \in BOOLEAN
    /\ members = {} /\ parting = {} /\ bus = 0 /\ docq = 0 /\ owes = FALSE
    /\ page = FALSE /\ unread = 0 /\ read = 0 /\ stale = {}

UiNext ==
    \/ BaseLoop \/ on_doc_event \/ join_room \/ leave_room \/ notify_ui
    \/ DevicesConnection \/ Discovery \/ Commit \/ forward_doc_updates
    \/ \E d \in Device : MemberAnnounced(d) \/ MemberFinished(d) \/ MemberParted(d)
    \/ Open \/ build_state \/ Notified \/ Close

UiSpec == UiInit /\ [][UiNext]_uiVars

-----------------------------------------------------------------------------
(* Every variable has its type; only a member of a room has connections in it,
   and a closed page has read nothing. *)
PageTypeOK ==
    /\ view \in {"devices", "room"} /\ joined \in BOOLEAN
    /\ members \subseteq Device /\ parting \subseteq Device /\ (~joined => members = {})
    /\ bus \in 0..(BusCap + 1) /\ docq \in 0..DocCap
    /\ owes \in BOOLEAN /\ page \in BOOLEAN
    /\ unread \in 0..(NotifyCap + 1) /\ read \in 0..Len(Pieces)
    /\ stale \subseteq Read /\ (~page => read = 0)

(* Something is on its way that ends in a notification. *)
LoopHasWork == owes \/ ~Free \/ events # <<>> \/ notices # <<>> \/ docq > 0
RefreshComing == unread > 0 \/ LoopHasWork \/ ending \cup parting # {} \/ bus > 0

(* What a page shows, or is about to, is what there is, or a refresh is on its
   way: whatever changed between two pieces of a snapshot or before the first
   one, whatever notices were dropped at a full queue and however far the page
   or the forwarder lags behind (ServerCtx.notify: "App loop sends () whenever
   any UI-visible state changed"). *)
PageIsCurrent == stale # {} => RefreshComing

=============================================================================
