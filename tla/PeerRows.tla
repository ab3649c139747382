------------------------------ MODULE PeerRows ------------------------------
(***************************************************************************)
(* What one device believes about its peers: the mDNS bookkeeping of the   *)
(* discovery bridge (BrowseState), the peers it hands to the SyncManager,  *)
(* and the rows of the UI, which the app loop keeps from discovery events, *)
(* connection notices and the trust list.  Of a connection only counts     *)
(* whether it is announced in the devices scope.                           *)
(***************************************************************************)
EXTENDS Naturals, Sequences

CONSTANTS
    Device,          \* the peers
    Fullname,        \* mDNS full names
    Owner,           \* whose each is: a part of the device id is in the name
    Info,            \* what an announcement says: addresses, port, rooms
    Hello,           \* what a HELLO tells of them
    Nothing,
    RequirePairing,
    EventCap,        \* EVENT_CHANNEL_CAPACITY, and the event a full one holds up
    NoticeCap        \* EVENT_QUEUE

ASSUME OwnerAssumption == Owner \in [Fullname -> Device]
ASSUME InfoAssumption  ==
    /\ Hello \notin Info /\ Nothing \notin Info \cup {Hello} \cup Device
    /\ Nothing \notin [info : Info \cup {Hello}, online : BOOLEAN]
ASSUME BoundAssumption ==
    RequirePairing \in BOOLEAN /\ EventCap \in Nat \ {0} /\ NoticeCap \in Nat \ {0}

VARIABLES
    by_fullname,  \* the full names whose owner the bridge knows
    last_emitted, \* the last announcement it passed on of each device
    latest,       \* ghost: the last announcement it saw of each device
    events,       \* discovery events the app loop has yet to handle
    losing,       \* the device whose loss the loop handles, or Nothing
    keep,         \* what it found: that the row is to be kept
    peers,        \* SyncManager: the discovered peers
    rows,         \* App.peers, the rows of the UI
    connected,    \* SyncManager: devices with an announced connection
    ending,       \* devices whose PeerDisconnected is yet to be emitted
    notices,      \* the notices on their way to the loop: the device that
                  \* connected, or Nothing for a PeerDisconnected
    missed,       \* ghost: connected devices whose notice found a full queue
    listed        \* paired or blocked devices

browsing == <<by_fullname, last_emitted, latest>>
loop     == <<losing, keep>>
links    == <<connected, ending, missed>>
syncing  == <<links, notices, listed>>
vars == <<browsing, events, loop, peers, rows, syncing>>

Row == [info : Info \cup {Hello}, online : BOOLEAN]

-----------------------------------------------------------------------------
(***************************************************************************)
(* BrowseState, and the bridge that sends what it returns.                 *)
(***************************************************************************)
Emit(event) == Len(events) < EventCap /\ events' = Append(events, event)

on_resolved(n, info) ==
    LET d == Owner[n] IN
    /\ by_fullname' = by_fullname \cup {n}
    /\ latest' = [latest EXCEPT ![d] = info]
    /\ last_emitted' = [last_emitted EXCEPT ![d] = info]
    /\ IF last_emitted[d] = info THEN UNCHANGED events ELSE Emit([of |-> d, info |-> info])
    /\ UNCHANGED <<loop, peers, rows, syncing>>

(* As a plausible bug: a device is lost with any of its names. *)
RemovedIsLost(n) ==
    LET d == Owner[n] IN
    /\ n \in by_fullname
    /\ by_fullname' = by_fullname \ {n}
    /\ last_emitted' = [last_emitted EXCEPT ![d] = Nothing]
    /\ Emit([of |-> d, info |-> Nothing])
    /\ UNCHANGED <<latest, loop, peers, rows, syncing>>

on_removed(n) ==
    LET d == Owner[n]
        announced == \E m \in by_fullname \ {n} : Owner[m] = d
    IN
    /\ n \in by_fullname
    /\ by_fullname' = by_fullname \ {n}
    /\ IF announced
       THEN UNCHANGED <<last_emitted, events>>
       ELSE /\ last_emitted' = [last_emitted EXCEPT ![d] = Nothing]
            /\ Emit([of |-> d, info |-> Nothing])
    /\ UNCHANGED <<latest, loop, peers, rows, syncing>>

-----------------------------------------------------------------------------
(***************************************************************************)
(* The app loop.  It looks at the connections when it handles a loss, and  *)
(* changes the row later, while connection tasks go on.                    *)
(***************************************************************************)
Free == losing = Nothing

Found ==
    LET event == Head(events) IN
    /\ Free /\ events # <<>> /\ event.info # Nothing
    /\ events' = Tail(events)
    /\ rows' = [rows EXCEPT ![event.of] = [info |-> event.info, online |-> TRUE]]
    /\ peers' = [peers EXCEPT ![event.of] = event.info]
    /\ UNCHANGED <<browsing, loop, syncing>>

(* As a plausible bug: live connections do not count. *)
KeepListed(d) == d \in listed
Keep(d) == d \in listed \cup connected

Lost ==
    /\ Free /\ events # <<>> /\ Head(events).info = Nothing
    /\ events' = Tail(events)
    /\ losing' = Head(events).of
    /\ keep' = Keep(Head(events).of)
    /\ UNCHANGED <<browsing, peers, rows, syncing>>

registry_on_lost ==
    /\ ~Free /\ losing' = Nothing /\ keep' = FALSE
    /\ rows' = [rows EXCEPT ![losing] =
                   IF keep /\ @ # Nothing THEN [@ EXCEPT !.online = FALSE] ELSE Nothing]
    /\ peers' = [peers EXCEPT ![losing] = Nothing]
    /\ UNCHANGED <<browsing, events, syncing>>

Seeded(row) ==
    IF row = Nothing THEN [info |-> Hello, online |-> TRUE] ELSE [row EXCEPT !.online = TRUE]

(* A PeerDisconnected changes no row. *)
on_sync ==
    LET d == Head(notices) IN
    /\ Free /\ notices # <<>>
    /\ notices' = Tail(notices)
    /\ rows' = IF d = Nothing THEN rows ELSE [rows EXCEPT ![d] = Seeded(@)]
    /\ UNCHANGED <<browsing, events, loop, peers, links, listed>>

(* try_send: a full queue drops the notice. *)
Full == Len(notices) = NoticeCap
emit(notice) == notices' = IF Full THEN notices ELSE Append(notices, notice)

Trusted(d, list) == RequirePairing = (d \in list)

SetDeviceTrusted(d, trusted) ==
    /\ Free
    /\ listed' = IF RequirePairing = trusted THEN listed \cup {d} ELSE listed \ {d}
    /\ IF Trusted(d, listed') \/ d \notin connected
       THEN UNCHANGED <<connected, missed, notices>>
       ELSE connected' = connected \ {d} /\ missed' = missed \ {d} /\ emit(Nothing)
    /\ UNCHANGED <<browsing, events, loop, peers, rows, ending>>

-----------------------------------------------------------------------------
(***************************************************************************)
(* Connection tasks.  A connection that takes over another one announces   *)
(* itself again.  The notice of an announcement is sent under the lock,    *)
(* that of a disconnect after it; of two that are due for one device at    *)
(* the same time, one is counted.                                          *)
(***************************************************************************)
Announce(d) ==
    /\ Trusted(d, listed)
    /\ connected' = connected \cup {d}
    /\ emit(d)
    /\ missed' = IF Full THEN missed \cup {d} ELSE missed \ {d}
    /\ UNCHANGED <<browsing, events, loop, peers, rows, ending, listed>>

finish_connection(d) ==
    /\ d \in connected
    /\ connected' = connected \ {d} /\ missed' = missed \ {d}
    /\ ending' = ending \cup {d}
    /\ UNCHANGED <<browsing, events, loop, peers, rows, notices, listed>>

EmitDisconnected(d) ==
    /\ d \in ending /\ ending' = ending \ {d}
    /\ emit(Nothing)
    /\ UNCHANGED <<browsing, events, loop, peers, rows, connected, missed, listed>>

(* A room's connection is announced or ends; that changes no row. *)
RoomNotice ==
    /\ emit(Nothing)
    /\ UNCHANGED <<browsing, events, loop, peers, rows, links, listed>>

-----------------------------------------------------------------------------
Init ==
    /\ by_fullname = {}
    /\ last_emitted = [d \in Device |-> Nothing]
    /\ latest = [d \in Device |-> Nothing]
    /\ events = <<>>
    /\ losing = Nothing /\ keep = FALSE
    /\ peers = [d \in Device |-> Nothing]
    /\ rows = [d \in Device |-> Nothing]
    /\ connected = {} /\ ending = {} /\ missed = {} /\ notices = <<>>
    /\ listed \in SUBSET Device

Browsing == \E n \in Fullname : on_removed(n) \/ \E info \in Info : on_resolved(n, info)

Connections ==
    RoomNotice \/ \E d \in Device : Announce(d) \/ finish_connection(d) \/ EmitDisconnected(d)

Loop ==
    \/ Found \/ Lost \/ registry_on_lost \/ on_sync
    \/ \E d \in Device, trusted \in BOOLEAN : SetDeviceTrusted(d, trusted)

Next == Browsing \/ Connections \/ Loop

Spec == Init /\ [][Next]_vars

-----------------------------------------------------------------------------
Live(d) == \E n \in by_fullname : Owner[n] = d

Told(d) == \E i \in DOMAIN notices : notices[i] = d

(* The devices of the UI's list, those of a row and those of the trust list. *)
Listing == {d \in Device : rows[d] # Nothing} \cup listed

(* Nothing that discovery said of a device is on its way to the loop. *)
Settled(d) ==
    /\ losing # d
    /\ \A i \in DOMAIN events : events[i].of # d

(* Every variable has its type; the bridge remembers an announcement of exactly
   the devices that have a name. *)
TypeOK ==
    /\ by_fullname \subseteq Fullname
    /\ last_emitted \in [Device -> Info \cup {Nothing}]
    /\ latest \in [Device -> Info \cup {Nothing}]
    /\ events \in Seq([of : Device, info : Info \cup {Nothing}]) /\ Len(events) <= EventCap
    /\ losing \in Device \cup {Nothing} /\ keep \in BOOLEAN
    /\ peers \in [Device -> Info \cup {Nothing}]
    /\ rows \in [Device -> Row \cup {Nothing}]
    /\ connected \subseteq Device /\ ending \subseteq Device /\ listed \subseteq Device
    /\ missed \subseteq connected
    /\ notices \in Seq(Device \cup {Nothing}) /\ Len(notices) <= NoticeCap
    /\ \A d \in Device : last_emitted[d] # Nothing <=> Live(d)

(* Once the loop has caught up with discovery, it dials and shows just the
   devices that announce themselves, each as it last did, under whatever name
   (renames, flaps and connections in between notwithstanding). *)
DiscoveryFollowed ==
    \A d \in Device : Settled(d) =>
        IF Live(d)
        THEN peers[d] = latest[d] /\ rows[d] = [info |-> latest[d], online |-> TRUE]
        ELSE peers[d] = Nothing

(* A device that shares this one's clipboard is always on screen, by a row, by
   the trust list or as soon as its notice is handled, even if its announcement
   was lost while it connected: its user can block it.  Only a notice that
   finds EVENT_QUEUE others waiting is lost, and the row with it. *)
ConnectedIsShown ==
    \A d \in connected \ missed : d \in Listing \/ Told(d)

=============================================================================
