----------------------------- MODULE WebUiProofs -----------------------------
(***************************************************************************)
(* Proofs about PeerRows and about WebUi, which extends it, for any        *)
(* devices, names, announcements and queue lengths.  About PeerRows: the   *)
(* types, that the loop ends up with what discovery saw last, and that     *)
(* whoever shares the clipboard is on screen.  About WebUi: what the page  *)
(* does leaves the rows to PeerRows, and a page that shows or builds       *)
(* something outdated has a refresh on its way.                            *)
(***************************************************************************)
EXTENDS WebUi, SequenceTheorems, TLAPS

USE DEF Row, browsing, loop, links, syncing

Event == [of : Device, info : Info \cup {Nothing}]

LEMMA TypeStep == TypeOK /\ [Next]_vars => TypeOK'
<1> SUFFICES ASSUME TypeOK, [Next]_vars PROVE TypeOK'
    OBVIOUS
<1>a. ASSUME NEW d \in Device, NEW info \in Info \cup {Nothing}, Emit([of |-> d, info |-> info])
      PROVE  events' \in Seq(Event) /\ Len(events') <= EventCap
    <2>1. [of |-> d, info |-> info] \in Event /\ events \in Seq(Event)
        BY DEF Event, TypeOK
    <2>2. events' = Append(events, [of |-> d, info |-> info]) /\ Len(events) < EventCap
        BY <1>a DEF Emit
    <2>3. events' \in Seq(Event) /\ Len(events') = Len(events) + 1 /\ Len(events) \in Nat
        BY <2>1, <2>2
    <2> QED BY <2>2, <2>3, BoundAssumption
<1> USE DEF TypeOK, Live
<1>1. ASSUME NEW n \in Fullname, NEW info \in Info, on_resolved(n, info) PROVE TypeOK'
    <2>1. Owner[n] \in Device /\ info # Nothing
        BY OwnerAssumption, InfoAssumption
    <2>2. events' \in Seq(Event) /\ Len(events') <= EventCap
        BY <1>a, <1>1, <2>1 DEF on_resolved, Event
    <2>3. \A d \in Device : Live(d)' <=> d = Owner[n] \/ Live(d)
        BY <1>1 DEF on_resolved
    <2>4. \A d \in Device : last_emitted'[d] # Nothing <=> Live(d)'
        BY <1>1, <2>1, <2>3 DEF on_resolved
    <2> QED BY <1>1, <2>1, <2>2, <2>4 DEF on_resolved, Event
<1>2. ASSUME NEW n \in Fullname, on_removed(n) PROVE TypeOK'
    <2>1. Owner[n] \in Device
        BY OwnerAssumption
    <2>2. events' \in Seq(Event) /\ Len(events') <= EventCap
        BY <1>a, <1>2, <2>1 DEF on_removed, Event
    <2>3. \A d \in Device :
              Live(d)' <=> IF d = Owner[n] THEN \E m \in by_fullname \ {n} : Owner[m] = d ELSE Live(d)
        BY <1>2 DEF on_removed
    <2>4. \A d \in Device : last_emitted'[d] # Nothing <=> Live(d)'
        BY <1>2, <2>1, <2>3 DEF on_removed
    <2>5. last_emitted' \in [Device -> Info \cup {Nothing}]
        BY <1>2, <2>1 DEF on_removed
    <2> QED BY <1>2, <2>2, <2>4, <2>5 DEF on_removed, Event
<1>3. CASE Found
    <2>1. Head(events) \in Event /\ Tail(events) \in Seq(Event) /\ Len(Tail(events)) <= EventCap
        <3>1. events \in Seq(Event) /\ events # <<>> /\ Len(events) \in Nat
            BY <1>3 DEF Found, Event
        <3> QED BY <3>1, HeadTailProperties, BoundAssumption
    <2> QED BY <1>3, <2>1 DEF Found, Event
<1>4. CASE Lost
    <2>1. Head(events) \in Event /\ Tail(events) \in Seq(Event) /\ Len(Tail(events)) <= EventCap
        <3>1. events \in Seq(Event) /\ events # <<>> /\ Len(events) \in Nat
            BY <1>4 DEF Lost, Event
        <3> QED BY <3>1, HeadTailProperties, BoundAssumption
    <2> QED BY <1>4, <2>1 DEF Lost, Keep, Event
<1>5. CASE registry_on_lost
    <2>1. \A row \in Row : [row EXCEPT !.online = FALSE] \in Row
        OBVIOUS
    <2>2. \A d \in Device : rows'[d] \in Row \cup {Nothing} /\ peers'[d] \in Info \cup {Nothing}
        BY <1>5, <2>1 DEF registry_on_lost, Free
    <2> QED BY <1>5, <2>2 DEF registry_on_lost, Free
<1>6. CASE on_sync
    <2>1. /\ Head(notices) \in Device \cup {Nothing}
          /\ Tail(notices) \in Seq(Device \cup {Nothing}) /\ Len(Tail(notices)) <= NoticeCap
        <3>1. notices \in Seq(Device \cup {Nothing}) /\ notices # <<>> /\ Len(notices) \in Nat
            BY <1>6 DEF on_sync
        <3> QED BY <3>1, HeadTailProperties, BoundAssumption
    <2>2. \A row \in Row \cup {Nothing} : Seeded(row) \in Row
        BY DEF Seeded
    <2> QED BY <1>6, <2>1, <2>2 DEF on_sync
<1>7. \A notice \in Device \cup {Nothing} : emit(notice) =>
          notices' \in Seq(Device \cup {Nothing}) /\ Len(notices') <= NoticeCap
    BY BoundAssumption DEF emit, Full
<1>8. ASSUME NEW d \in Device, NEW trusted \in BOOLEAN, SetDeviceTrusted(d, trusted) PROVE TypeOK'
    BY <1>7, <1>8 DEF SetDeviceTrusted
<1>9. CASE Connections
    BY <1>7, <1>9 DEF Connections, RoomNotice, Announce, finish_connection, EmitDisconnected
<1>10. CASE UNCHANGED vars
    BY <1>10 DEF vars
<1> QED
    BY <1>1, <1>2, <1>3, <1>4, <1>5, <1>6, <1>8, <1>9, <1>10
    DEF Next, Browsing, Loop

(* Every variable has its type in every reachable state. *)
THEOREM RowsTypeCorrect == Spec => []TypeOK
<1>1. ASSUME Init PROVE TypeOK
    <2>1. events \in Seq(Event) /\ Len(events) = 0 /\ notices \in Seq(Device \cup {Nothing}) /\ Len(notices) = 0
        BY <1>1 DEF Init
    <2>2. EventCap >= 0 /\ NoticeCap >= 0
        BY BoundAssumption
    <2>3. \A d \in Device : last_emitted[d] = Nothing /\ ~Live(d)
        BY <1>1 DEF Init, Live
    <2> QED BY <1>1, <2>1, <2>2, <2>3 DEF Init, TypeOK, Event
<1> QED BY <1>1, TypeStep, PTL DEF Spec

-----------------------------------------------------------------------------
(***************************************************************************)
(* Discovery: the last event of a device says what the bridge last         *)
(* emitted of it, and without one the loop has that already.               *)
(***************************************************************************)
Quiet(d) == \A k \in DOMAIN events : events[k].of # d

LastSaysIt(d) ==
    \A k \in DOMAIN events :
        events[k].of = d /\ (\A m \in DOMAIN events : m > k => events[m].of # d)
            => events[k].info = last_emitted[d]

CaughtUp(d) ==
    Quiet(d) =>
        IF losing = d THEN last_emitted[d] = Nothing
        ELSE /\ peers[d] = last_emitted[d]
             /\ last_emitted[d] # Nothing => rows[d] = [info |-> last_emitted[d], online |-> TRUE]

Following ==
    \A d \in Device :
        /\ LastSaysIt(d) /\ CaughtUp(d)
        /\ last_emitted[d] # Nothing => last_emitted[d] = latest[d]

(* What a browser says changes what was last emitted, and then an event says so. *)
LEMMA EmitFollows ==
    ASSUME TypeOK, TypeOK', Following, NEW o \in Device,
           UNCHANGED <<losing, peers, rows>>,
           \A d \in Device : d # o => last_emitted'[d] = last_emitted[d],
           \A d \in Device : d # o => latest'[d] = latest[d],
           last_emitted'[o] # Nothing => last_emitted'[o] = latest'[o],
           \/ last_emitted'[o] = last_emitted[o] /\ UNCHANGED events
           \/ events' = Append(events, [of |-> o, info |-> last_emitted'[o]])
    PROVE  Following'
<1> SUFFICES ASSUME NEW d \in Device PROVE LastSaysIt(d)' /\ CaughtUp(d)'
    BY DEF Following
<1> USE DEF Following, LastSaysIt, CaughtUp, Quiet
<1>1. CASE last_emitted'[o] = last_emitted[o] /\ UNCHANGED events
    BY <1>1
<1>2. CASE events' = Append(events, [of |-> o, info |-> last_emitted'[o]])
    <2>1. /\ Len(events') = Len(events) + 1 /\ Len(events) \in Nat
          /\ DOMAIN events' = 1..Len(events') /\ DOMAIN events = 1..Len(events)
          /\ events'[Len(events')] = [of |-> o, info |-> last_emitted'[o]]
          /\ \A k \in DOMAIN events : events'[k] = events[k]
        BY <1>2 DEF TypeOK
    <2>2. CASE d = o
        <3>1. LastSaysIt(d)'
            <4> SUFFICES ASSUME NEW k \in DOMAIN events', events'[k].of = d,
                                \A m \in DOMAIN events' : m > k => events'[m].of # d
                         PROVE  events'[k].info = last_emitted'[d]
                OBVIOUS
            <4>1. Len(events') \in DOMAIN events' /\ events'[Len(events')].of = d
                BY <2>1, <2>2
            <4>2. k = Len(events')
                BY <2>1, <4>1
            <4> QED BY <2>1, <2>2, <4>2
        <3>2. ~Quiet(d)'
            BY <2>1, <2>2
        <3> QED BY <3>1, <3>2
    <2>3. CASE d # o
        <3>1. Quiet(d)' => Quiet(d)
            BY <2>1, <2>3
        <3>2. LastSaysIt(d)'
            <4> SUFFICES ASSUME NEW k \in DOMAIN events', events'[k].of = d,
                                \A m \in DOMAIN events' : m > k => events'[m].of # d
                         PROVE  events'[k].info = last_emitted'[d]
                OBVIOUS
            <4>1. k \in DOMAIN events /\ events'[k] = events[k]
                BY <2>1, <2>3
            <4>2. \A m \in DOMAIN events : m \in DOMAIN events' /\ events'[m] = events[m]
                BY <2>1
            <4>3. \A m \in DOMAIN events : m > k => events[m].of # d
                BY <4>2
            <4>4. LastSaysIt(d) /\ last_emitted'[d] = last_emitted[d]
                BY <2>3 DEF Following
            <4> QED BY <4>1, <4>3, <4>4
        <3> QED BY <2>3, <3>1, <3>2
    <2> QED BY <2>2, <2>3
<1> QED BY <1>1, <1>2

(* Whatever names and announcements come and go, and however the queue, the
   trust list and the connections interleave with them, a loop that has caught
   up dials and shows exactly the devices that announce themselves. *)
THEOREM RowsFollowDiscovery == Spec => []DiscoveryFollowed
<1>FollowingStep. TypeOK /\ TypeOK' /\ Following /\ [Next]_vars => Following'
    <2> SUFFICES ASSUME TypeOK, TypeOK', Following, [Next]_vars PROVE Following'
        OBVIOUS
    <2>1. ASSUME NEW n \in Fullname, NEW info \in Info, on_resolved(n, info) PROVE Following'
        <3>1. Owner[n] \in Device
            BY OwnerAssumption
        <3>2. last_emitted'[Owner[n]] = info /\ latest'[Owner[n]] = info
            BY <2>1, <3>1 DEF on_resolved, TypeOK
        <3> QED BY <2>1, <3>1, <3>2, EmitFollows DEF on_resolved, Emit, TypeOK
    <2>2. ASSUME NEW n \in Fullname, on_removed(n) PROVE Following'
        <3>1. Owner[n] \in Device
            BY OwnerAssumption
        <3>2. last_emitted'[Owner[n]] # Nothing => UNCHANGED last_emitted
            BY <2>2, <3>1 DEF on_removed, TypeOK
        <3> QED BY <2>2, <3>1, <3>2, EmitFollows DEF on_removed, Emit, TypeOK, Following
    <2> USE DEF Following, LastSaysIt, CaughtUp, Quiet
    <2>3. ASSUME Found \/ Lost PROVE Following'
        <3>1. /\ events # <<>> /\ events' = Tail(events) /\ UNCHANGED <<last_emitted, latest>>
              /\ losing = Nothing
            BY <2>3 DEF Found, Lost, Free
        <3> DEFINE o == events[1].of
        <3>2. /\ Len(events) \in Nat \ {0} /\ Len(events') = Len(events) - 1
              /\ DOMAIN events' = 1..Len(events') /\ DOMAIN events = 1..Len(events)
              /\ Head(events) = events[1] /\ o \in Device
              /\ \A k \in DOMAIN events' : k + 1 \in DOMAIN events /\ events'[k] = events[k + 1]
            <4>1. events \in Seq(Event) /\ Len(events) \in Nat \ {0}
                BY <3>1 DEF TypeOK, Event
            <4>2. /\ Head(events) \in Event /\ events' \in Seq(Event) /\ Len(events') = Len(events) - 1
                  /\ \A k \in 1..Len(events') : events'[k] = events[k + 1]
                BY <3>1, <4>1, HeadTailProperties
            <4>3. Head(events) = events[1]
                BY <3>1, <4>1
            <4> QED BY <4>1, <4>2, <4>3 DEF Event
        <3> SUFFICES ASSUME NEW d \in Device PROVE LastSaysIt(d)' /\ CaughtUp(d)'
            BY <3>1
        <3>3. \A k \in DOMAIN events : k = 1 \/ (k - 1 \in DOMAIN events' /\ events'[k - 1] = events[k])
            BY <3>2
        <3>4. LastSaysIt(d)'
            <4> SUFFICES ASSUME NEW k \in DOMAIN events', events'[k].of = d,
                                \A m \in DOMAIN events' : m > k => events'[m].of # d
                         PROVE  events'[k].info = last_emitted[d]
                BY <3>1
            <4>1. k + 1 \in DOMAIN events /\ events[k + 1] = events'[k]
                BY <3>2
            <4>2. \A m \in DOMAIN events : m > k + 1 => events[m].of # d
                BY <3>2, <3>3
            <4>3. LastSaysIt(d)
                OBVIOUS
            <4> HIDE DEF Following
            <4> QED BY <4>1, <4>2, <4>3
        <3>5. ASSUME Quiet(d)', d # o PROVE Quiet(d)
            BY <3>2, <3>3, <3>5
        <3>6. ASSUME Quiet(d)', d = o PROVE events[1].info = last_emitted[d]
            <4>1. \A m \in DOMAIN events : m > 1 => events[m].of # d
                BY <3>2, <3>3, <3>6
            <4>2. LastSaysIt(d)
                OBVIOUS
            <4>3. 1 \in DOMAIN events
                BY <3>2
            <4> HIDE DEF Following
            <4> QED BY <3>6, <4>1, <4>2, <4>3
        <3>7. CASE Found
            <4>1. /\ peers' = [peers EXCEPT ![o] = events[1].info] /\ events[1].info # Nothing
                  /\ rows' = [rows EXCEPT ![o] = [info |-> events[1].info, online |-> TRUE]]
                  /\ losing' = losing /\ losing # d
                BY <3>1, <3>2, <3>7, InfoAssumption DEF Found
            <4>2. CASE d = o
                <5>1. peers'[d] = events[1].info /\ rows'[d] = [info |-> events[1].info, online |-> TRUE]
                    BY <3>2, <4>1, <4>2 DEF TypeOK
                <5> QED BY <3>1, <3>4, <3>6, <4>1, <4>2, <5>1
            <4>3. CASE d # o
                <5>1. peers'[d] = peers[d] /\ rows'[d] = rows[d]
                    BY <3>2, <4>1, <4>3 DEF TypeOK
                <5>2. CaughtUp(d)
                    OBVIOUS
                <5> QED BY <3>1, <3>4, <3>5, <4>1, <4>3, <5>1, <5>2
            <4> QED BY <4>2, <4>3
        <3>8. CASE Lost
            <4>1. /\ UNCHANGED <<peers, rows>> /\ events[1].info = Nothing
                  /\ losing' = o /\ losing # d
                BY <3>1, <3>2, <3>8, InfoAssumption DEF Lost
            <4>2. CaughtUp(d)
                OBVIOUS
            <4> QED BY <3>1, <3>4, <3>5, <3>6, <4>1, <4>2
        <3> QED BY <2>3, <3>4, <3>7, <3>8
    <2>4. CASE registry_on_lost
        <3>1. /\ losing \in Device /\ losing' = Nothing
              /\ peers'[losing] = Nothing
              /\ \A d \in Device : d # losing => peers'[d] = peers[d] /\ rows'[d] = rows[d]
              /\ UNCHANGED <<browsing, events>>
            BY <2>4 DEF registry_on_lost, Free, TypeOK
        <3> SUFFICES ASSUME NEW d \in Device PROVE CaughtUp(d)'
            BY <3>1
        <3>2. CaughtUp(d) /\ losing' # d
            BY <3>1, InfoAssumption
        <3> QED BY <3>1, <3>2
    <2>5. CASE on_sync
        <3>1. \A d \in Device : rows'[d] = rows[d] \/ rows'[d] = Seeded(rows[d])
            BY <2>5 DEF on_sync, TypeOK
        <3>2. \A d \in Device, info \in Info :
                  rows[d] = [info |-> info, online |-> TRUE] => rows'[d] = rows[d]
            <4> SUFFICES ASSUME NEW d \in Device, NEW info \in Info,
                                rows[d] = [info |-> info, online |-> TRUE]
                         PROVE  Seeded(rows[d]) = rows[d]
                BY <3>1
            <4>1. [info |-> info, online |-> TRUE] \in Row
                OBVIOUS
            <4>2. \A row \in Row : row.online = TRUE => [row EXCEPT !.online = TRUE] = row
                OBVIOUS
            <4> QED BY <4>1, <4>2, InfoAssumption DEF Seeded
        <3>3. UNCHANGED <<browsing, events, losing, peers>>
            BY <2>5 DEF on_sync
        <3>4. \A d \in Device : last_emitted[d] # Nothing => last_emitted[d] \in Info
            BY DEF TypeOK
        <3> SUFFICES ASSUME NEW d \in Device PROVE CaughtUp(d)'
            BY <3>3
        <3>5. CaughtUp(d)
            OBVIOUS
        <3> QED BY <3>2, <3>3, <3>4, <3>5
    <2>6. CASE Connections \/ \E d \in Device, trusted \in BOOLEAN : SetDeviceTrusted(d, trusted)
        <3>1. UNCHANGED <<browsing, events, loop, peers, rows>>
            BY <2>6 DEF Connections, SetDeviceTrusted, RoomNotice, Announce, finish_connection,
                            EmitDisconnected
        <3> QED BY <3>1
    <2>7. CASE UNCHANGED vars
        BY <2>7 DEF vars
    <2> QED BY <2>1, <2>2, <2>3, <2>4, <2>5, <2>6, <2>7 DEF Next, Browsing, Loop
<1>1. Init => Following
    <2> SUFFICES ASSUME Init, NEW d \in Device
                 PROVE  /\ LastSaysIt(d) /\ CaughtUp(d)
                        /\ last_emitted[d] # Nothing => last_emitted[d] = latest[d]
        BY DEF Following
    <2>1. last_emitted[d] = Nothing /\ peers[d] = Nothing
        BY DEF Init
    <2>2. DOMAIN events = {}
        BY DEF Init
    <2>3. LastSaysIt(d)
        BY <2>2 DEF LastSaysIt
    <2>4. CaughtUp(d)
        BY <2>1 DEF CaughtUp
    <2> QED BY <2>1, <2>3, <2>4
<1>2. TypeOK /\ Following => DiscoveryFollowed
    BY DEF TypeOK, Following, CaughtUp, Quiet, DiscoveryFollowed, Settled
<1> QED BY <1>1, <1>2, <1>FollowingStep, RowsTypeCorrect, PTL DEF Spec

-----------------------------------------------------------------------------
(***************************************************************************)
(* The screen: a device connects only while it is trusted, and while the   *)
(* loop is about to drop a row its connection is still to be told.         *)
(***************************************************************************)
Shown ==
    /\ ConnectedIsShown
    /\ \A d \in connected : Trusted(d, listed)
    /\ ~Free /\ ~keep /\ losing \in connected \ missed => Told(losing) \/ losing \in listed

(* Whoever shares this device's clipboard is on screen, or about to be, except
   for one whose notice found a full queue: whenever a loss, a block or a
   notice comes between. *)
THEOREM RowsShowConnected == Spec => []ConnectedIsShown
<1>ShownStep. TypeOK /\ TypeOK' /\ Shown /\ [Next]_vars => Shown'
    <2> SUFFICES ASSUME TypeOK, TypeOK', Shown, [Next]_vars PROVE Shown'
        OBVIOUS
    <2>r. \A row \in Row : row # Nothing
        BY InfoAssumption
    <2>s. \A row \in Row \cup {Nothing} : Seeded(row) \in Row
        BY DEF Seeded
    <2>o. \A row \in Row : [row EXCEPT !.online = FALSE] \in Row
        OBVIOUS
    <2>t. rows \in [Device -> Row \cup {Nothing}] /\ rows' \in [Device -> Row \cup {Nothing}]
        BY DEF TypeOK
    <2> HIDE DEF Row
    <2> USE DEF Shown, ConnectedIsShown, Listing, Free
    <2>1. ASSUME NEW notice \in Device \cup {Nothing}, emit(notice), NEW d, Told(d) PROVE Told(d)'
        BY <2>1 DEF emit, Told, TypeOK
    <2>2. ASSUME NEW d \in Device, emit(d), ~Full PROVE Told(d)'
        BY <2>2 DEF emit, Told, TypeOK
    <2>3. CASE Browsing
        <3>1. UNCHANGED <<loop, rows, connected, missed, notices, listed>>
            BY <2>3 DEF Browsing, on_resolved, on_removed
        <3> QED BY <3>1 DEF Told
    <2>4. CASE Found
        <3>1. \A d \in Device : rows[d] # Nothing => rows'[d] # Nothing
            <4>1. events # <<>> /\ Head(events) \in Event /\ Head(events).info # Nothing
                BY <2>4, HeadTailProperties DEF Found, TypeOK, Event
            <4>2. [info |-> Head(events).info, online |-> TRUE] \in Row
                BY <4>1 DEF Event, Row
            <4> QED BY <2>4, <2>r, <2>t, <4>1, <4>2 DEF Found, Event
        <3> QED BY <2>4, <3>1 DEF Found, Told
    <2>5. CASE Lost
        BY <2>5 DEF Lost, Keep, Told
    <2>6. CASE registry_on_lost
        <3>1. \A d \in Device : rows[d] # Nothing => rows'[d] # Nothing \/ (d = losing /\ ~keep)
            BY <2>6, <2>r, <2>o, <2>t DEF registry_on_lost
        <3> QED BY <2>6, <3>1 DEF registry_on_lost, Told
    <2>7. CASE on_sync
        <3>1. \A d \in Device : rows[d] # Nothing => rows'[d] # Nothing
            BY <2>7, <2>r, <2>s, <2>t DEF on_sync
        <3>2. Head(notices) \in Device => rows'[Head(notices)] # Nothing
            BY <2>7, <2>r, <2>s, <2>t, InfoAssumption DEF on_sync
        <3>3. \A d \in Device : Told(d) => Told(d)' \/ d = Head(notices)
            <4>1. notices \in Seq(Device \cup {Nothing}) /\ notices # <<>> /\ notices' = Tail(notices)
                BY <2>7 DEF on_sync, TypeOK
            <4>2. /\ Len(notices) \in Nat \ {0} /\ Len(notices') = Len(notices) - 1
                  /\ \A k \in 1..Len(notices') : notices'[k] = notices[k + 1]
                  /\ Head(notices) = notices[1] /\ DOMAIN notices = 1..Len(notices)
                  /\ DOMAIN notices' = 1..Len(notices')
                BY <4>1, HeadTailProperties
            <4>3. \A k \in DOMAIN notices : k = 1 \/ (k - 1 \in DOMAIN notices' /\ notices'[k - 1] = notices[k])
                BY <4>2
            <4> QED BY <4>2, <4>3 DEF Told
        <3> QED BY <2>7, <3>1, <3>2, <3>3 DEF on_sync, TypeOK
    <2>8. ASSUME NEW d \in Device, NEW trusted \in BOOLEAN, SetDeviceTrusted(d, trusted) PROVE Shown'
        <3>1. UNCHANGED <<rows, losing, keep>> /\ losing = Nothing
              /\ listed' = IF RequirePairing = trusted THEN listed \cup {d} ELSE listed \ {d}
            BY <2>8 DEF SetDeviceTrusted
        <3>2. connected' \ missed' \subseteq connected \ missed /\ connected' \subseteq connected
            BY <2>8 DEF SetDeviceTrusted
        <3>3. \A e \in Device : Told(e) => Told(e)'
            BY <2>1, <2>8 DEF SetDeviceTrusted, Told
        <3>4. d \in connected' => Trusted(d, listed')
            BY <2>8 DEF SetDeviceTrusted
        <3>5. \A e \in connected' : Trusted(e, listed')
            BY <3>1, <3>2, <3>4 DEF Trusted
        <3>6. \A e \in connected' : e \in listed => e \in listed'
            BY <3>1, <3>2, <3>5, BoundAssumption DEF Trusted
        <3> QED BY <3>1, <3>2, <3>3, <3>5, <3>6 DEF TypeOK
    <2>9. ASSUME NEW d \in Device, Announce(d) PROVE Shown'
        <3>1. d \in connected' \ missed' => Told(d)'
            BY <2>2, <2>9 DEF Announce
        <3>2. \A e \in Device : Told(e) => Told(e)'
            BY <2>1, <2>9 DEF Announce
        <3> QED BY <2>9, <3>1, <3>2 DEF Announce, TypeOK
    <2>10. ASSUME RoomNotice \/ \E d \in Device : finish_connection(d) \/ EmitDisconnected(d)
           PROVE  Shown'
        <3>1. /\ UNCHANGED <<rows, losing, keep, listed>>
              /\ connected' \ missed' \subseteq connected \ missed /\ connected' \subseteq connected
            BY <2>10 DEF RoomNotice, finish_connection, EmitDisconnected
        <3>2. \A e \in Device : Told(e) => Told(e)'
            BY <2>1, <2>10 DEF RoomNotice, finish_connection, EmitDisconnected, Told
        <3> QED BY <3>1, <3>2 DEF TypeOK
    <2>11. CASE UNCHANGED vars
        BY <2>11 DEF vars, Told
    <2> QED
        BY <2>3, <2>4, <2>5, <2>6, <2>7, <2>8, <2>9, <2>10, <2>11 DEF Next, Connections, Loop
<1>1. Init => Shown
    BY DEF Init, Shown, ConnectedIsShown, Free
<1>2. Shown => ConnectedIsShown
    BY DEF Shown
<1> QED BY <1>1, <1>2, <1>ShownStep, RowsTypeCorrect, PTL DEF Spec

-----------------------------------------------------------------------------
USE DEF scopes, docs, socket

(* The page, the room and the documents are added to PeerRows and change nothing
   of it: its theorems hold here. *)
THEOREM UiKeepsRows == UiSpec => Spec
<1>1. UiInit => Init
    BY DEF UiInit
<1>2. [UiNext]_uiVars => [Next]_vars
    <2> SUFFICES ASSUME [UiNext]_uiVars PROVE Next \/ UNCHANGED vars
        OBVIOUS
    <2>1. CASE BaseLoop
        BY <2>1 DEF BaseLoop, Discovered, LossSeen, LossDone, Noticed, TrustSet, Next, Loop
    <2>2. CASE DevicesConnection \/ Discovery
        BY <2>2 DEF DevicesConnection, Discovery, Next
    <2>3. ASSUME RoomNotice \/ UNCHANGED vars PROVE Next \/ UNCHANGED vars
        BY <2>3 DEF Next, Connections
    <2>4. CASE \/ on_doc_event \/ join_room \/ leave_room \/ notify_ui \/ Commit
               \/ forward_doc_updates \/ Open \/ build_state \/ Notified \/ Close
        BY <2>3, <2>4
        DEF on_doc_event, join_room, leave_room, notify_ui, Commit, forward_doc_updates, Open,
            build_state, Notified, Close
    <2>5. CASE \E d \in Device : MemberAnnounced(d) \/ MemberFinished(d) \/ MemberParted(d)
        BY <2>3, <2>5 DEF MemberAnnounced, MemberFinished, MemberParted
    <2>6. CASE UNCHANGED uiVars
        BY <2>6 DEF uiVars
    <2> QED BY <2>1, <2>2, <2>4, <2>5, <2>6 DEF UiNext
<1> QED BY <1>1, <1>2, PTL DEF UiSpec, Spec

-----------------------------------------------------------------------------
(* Every variable of the page has its type. *)
THEOREM PageTypeCorrect == UiSpec => []PageTypeOK
<1> USE CapAssumption
<1>1. UiInit => PageTypeOK
    <2>1. 0 \in 0..(NotifyCap + 1) /\ 0 \in 0..(BusCap + 1) /\ 0 \in 0..DocCap
        OBVIOUS
    <2>2. 0 \in 0..Len(Pieces)
        BY DEF Pieces
    <2> QED BY <2>1, <2>2 DEF UiInit, PageTypeOK, Read
<1>2. PageTypeOK /\ [UiNext]_uiVars => PageTypeOK'
    <2> SUFFICES ASSUME PageTypeOK, [UiNext]_uiVars PROVE PageTypeOK'
        OBVIOUS
    <2> USE DEF PageTypeOK
    <2>0. Len(Pieces) = 6
        BY DEF Pieces
    <2>1. ASSUME NEW pieces, Touch(pieces), UNCHANGED read PROVE stale' \subseteq Read'
        BY <2>1 DEF Touch, Read
    <2>2. CASE BaseLoop
        BY <2>1, <2>2
        DEF BaseLoop, Discovered, LossSeen, LossDone, Noticed, TrustSet, Handled
    <2>3. CASE on_doc_event
        BY <2>3 DEF on_doc_event, Handled, Read
    <2>4. CASE join_room
        BY <2>1, <2>4 DEF join_room, Handled
    <2>5. CASE leave_room
        <3>1. stale' \subseteq Read'
            BY <2>1, <2>5 DEF leave_room
        <3>2. bus' \in 0..(BusCap + 1) /\ (~page' => read' = 0)
            BY <2>5 DEF leave_room
        <3>3. /\ joined' = FALSE /\ members' = {} /\ owes' = TRUE
              /\ UNCHANGED <<view, parting, docq, page, unread, read>>
            BY <2>5 DEF leave_room, Handled, Stay
        <3> HIDE DEF Read
        <3> QED BY <3>1, <3>2, <3>3
    <2>6. CASE notify_ui
        <3>1. Pushed(unread, NotifyCap) \in 0..(NotifyCap + 1)
            BY DEF Pushed
        <3>2. unread' \in 0..(NotifyCap + 1)
            BY <2>6, <3>1 DEF notify_ui
        <3> QED BY <2>6, <3>2 DEF notify_ui, Read
    <2>7. CASE DevicesConnection \/ Discovery
        BY <2>1, <2>7 DEF DevicesConnection, Discovery, Read
    <2>8. CASE Commit
        <3>1. Pushed(bus, BusCap) \in 0..(BusCap + 1)
            BY DEF Pushed
        <3> QED BY <2>1, <2>8, <3>1 DEF Commit
    <2>9. CASE forward_doc_updates
        BY <2>9 DEF forward_doc_updates, Read
    <2>10. ASSUME NEW d \in Device, MemberAnnounced(d) \/ MemberFinished(d) \/ MemberParted(d)
           PROVE  PageTypeOK'
        BY <2>1, <2>10 DEF MemberAnnounced, MemberFinished, MemberParted, Read
    <2>11. CASE Open \/ Notified \/ Close
        <3>1. /\ stale' = {} /\ read' = 0 /\ page' \in BOOLEAN
              /\ unread' = 0 \/ (unread' = unread - 1 /\ unread > 0)
              /\ UNCHANGED <<scopes, docs, owes>>
            BY <2>11 DEF Open, Notified, Close
        <3>2. unread' \in 0..(NotifyCap + 1) /\ read' \in 0..Len(Pieces) /\ stale' \subseteq Read'
            BY <2>0, <3>1
        <3> QED BY <3>1, <3>2
    <2>12. CASE build_state
        <3>1. read' \in 0..Len(Pieces) /\ read' = read + 1 /\ page' = page /\ stale' = stale /\ page
            BY <2>0, <2>12 DEF build_state
        <3>2. Read \subseteq Read'
            BY <2>0, <3>1 DEF Read
        <3>3. stale' \subseteq Read'
            BY <3>1, <3>2
        <3> HIDE DEF Read
        <3>4. ~page' => read' = 0
            BY <3>1
        <3>5. /\ view' = view /\ joined' = joined /\ members' = members /\ parting' = parting
              /\ bus' = bus /\ docq' = docq /\ owes' = owes /\ unread' = unread
            BY <2>12 DEF build_state
        <3> QED BY <3>1, <3>3, <3>4, <3>5
    <2>13. CASE UNCHANGED uiVars
        BY <2>13 DEF uiVars, Read
    <2> QED
        BY <2>2, <2>3, <2>4, <2>5, <2>6, <2>7, <2>8, <2>9, <2>10, <2>11, <2>12, <2>13 DEF UiNext
<1> QED BY <1>1, <1>2, PTL DEF UiSpec

-----------------------------------------------------------------------------
(* Whatever changes under a page, from the moment it subscribes, is followed by
   a notification that it has not yet received. *)
THEOREM PageCorrect == UiSpec => []PageIsCurrent
<1>1. UiInit => PageIsCurrent
    BY DEF UiInit, PageIsCurrent
<1>2. TypeOK /\ TypeOK' /\ PageTypeOK /\ PageTypeOK' /\ PageIsCurrent /\ [UiNext]_uiVars
          => PageIsCurrent'
    <2> SUFFICES ASSUME TypeOK, TypeOK', PageTypeOK, PageTypeOK', PageIsCurrent, [UiNext]_uiVars,
                        stale' # {}
                 PROVE  RefreshComing'
        BY DEF PageIsCurrent
    <2> USE DEF RefreshComing, LoopHasWork, Free
    <2>1. page'
        BY DEF PageTypeOK, Read
    <2>2. ASSUME NEW notice \in Device \cup {Nothing}, emit(notice) PROVE notices' # <<>>
        <3>1. notices \in Seq(Device \cup {Nothing}) /\ Len(notices) \in Nat /\ NoticeCap > 0
            BY BoundAssumption DEF TypeOK
        <3> QED BY <2>2, <3>1, AppendProperties DEF emit, Full
    <2>3. ASSUME NEW pieces, Touch(pieces), stale # stale' PROVE pieces # {}
        BY <2>3 DEF Touch
    <2>4. ASSUME owes' PROVE RefreshComing'
        BY <2>4
    <2>5. ASSUME LossSeen PROVE RefreshComing'
        <3>1. Head(events) \in Event
            BY <2>5, HeadTailProperties DEF LossSeen, Lost, TypeOK, Event
        <3> QED BY <2>5, <3>1, InfoAssumption DEF LossSeen, Lost, Event
    <2>6. CASE BaseLoop
        BY <2>4, <2>5, <2>6 DEF BaseLoop, Discovered, LossDone, Noticed, TrustSet, Handled
    <2>7. CASE on_doc_event \/ join_room \/ leave_room
        BY <2>4, <2>7 DEF on_doc_event, join_room, leave_room, Handled
    <2>8. ASSUME NEW n \in Nat, NEW cap \in Nat \ {0} PROVE Pushed(n, cap) > 0
        BY <2>8 DEF Pushed
    <2>9. CASE notify_ui
        <3>1. unread' > 0
            BY <2>1, <2>8, <2>9, CapAssumption DEF notify_ui, Listens, PageTypeOK
        <3> QED BY <3>1
    <2>10. CASE Commit
        <3>1. bus' > 0
            BY <2>8, <2>10, CapAssumption DEF Commit, PageTypeOK
        <3> QED BY <3>1
    <2>11. CASE forward_doc_updates
        <3>1. docq' > 0
            BY <2>11 DEF forward_doc_updates, PageTypeOK
        <3> QED BY <3>1
    <2>12. CASE Discovery
        <3>1. PageIsCurrent /\ stale # {} => RefreshComing
            BY DEF PageIsCurrent
        <3>2. events # <<>> => events' # <<>>
            <4>1. \A e : Append(events, e) # <<>>
                <5>1. events \in Seq(Event) /\ Len(events) \in Nat
                    BY DEF TypeOK, Event
                <5>2. \A e : Len(Append(events, e)) = Len(events) + 1
                    BY <5>1
                <5> QED BY <5>1, <5>2
            <4> QED BY <2>12, <4>1 DEF Discovery, Browsing, on_resolved, on_removed, Emit
        <3>3. UNCHANGED <<unread, owes, losing, notices, docq, ending, parting, bus, stale>>
            BY <2>12 DEF Discovery, Browsing, on_resolved, on_removed, loop, syncing, links
        <3> QED BY <3>1, <3>2, <3>3
    <2>13. CASE DevicesConnection
        <3>1. UNCHANGED <<unread, owes, losing, events, docq, parting, bus>>
            BY <2>13
            DEF DevicesConnection, Connections, RoomNotice, Announce, finish_connection,
                EmitDisconnected, loop
        <3>2. ASSUME NEW d \in Device, finish_connection(d) PROVE ending' # {}
            BY <3>2 DEF finish_connection
        <3> QED
            BY <2>2, <2>13, <3>2
            DEF DevicesConnection, Connections, RoomNotice, Announce, EmitDisconnected
    <2>14. ASSUME NEW d \in Device, MemberAnnounced(d) \/ MemberParted(d) PROVE RefreshComing'
        BY <2>2, <2>14 DEF MemberAnnounced, MemberParted, RoomNotice
    <2>15. ASSUME NEW d \in Device, MemberFinished(d) PROVE RefreshComing'
        BY <2>15 DEF MemberFinished
    <2>16. CASE Open \/ Notified \/ Close
        BY <2>16 DEF Open, Notified, Close
    <2>17. CASE build_state \/ UNCHANGED uiVars
        <3>1. stale # {} /\ UNCHANGED <<unread, owes, losing, events, notices, docq, ending, parting, bus>>
            BY <2>17 DEF build_state, uiVars, vars, loop, syncing, links
        <3> QED BY <3>1 DEF PageIsCurrent
    <2> QED
        BY <2>6, <2>7, <2>9, <2>10, <2>11, <2>12, <2>13, <2>14, <2>15, <2>16, <2>17 DEF UiNext
<1> QED BY <1>1, <1>2, UiKeepsRows, RowsTypeCorrect, PageTypeCorrect, PTL DEF UiSpec

=============================================================================
