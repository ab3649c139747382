------------------------------ MODULE ClipSync ------------------------------
(***************************************************************************)
(* How the copies of one scope's document converge: the device-local       *)
(* document (ClipDoc), the fan-out of its updates to the registered        *)
(* connections, and the frames two connected devices exchange              *)
(* (SYNC_STEP_1, SYNC_STEP_2, UPDATE).  SyncManager models who may be      *)
(* connected and the life of the tasks; here every linked pair may be, and *)
(* a connection is its two sides and the socket between them.              *)
(*                                                                         *)
(* Four buffers lie between a change and its arrival, each with its own    *)
(* way of losing frames:                                                   *)
(*   bus      the document's broadcast channel; when full the oldest       *)
(*            update is dropped and the reader is told that it lagged;     *)
(*   out      a connection's outbound queue; when full the connection is   *)
(*            closed;                                                      *)
(*   sending  the frame a pump is writing; the pump does nothing else      *)
(*            until it is written;                                         *)
(*   wire     the socket; its frames are lost with it, except those the    *)
(*            receiver still reads (late).                                 *)
(*                                                                         *)
(* An update is a set of items.  yrs integrates an item only after those   *)
(* it depends on and parks it until then; here an item depends on all its  *)
(* author had integrated, a superset of what yrs requires.                 *)
(***************************************************************************)
EXTENDS Naturals, Sequences, FiniteSets

CONSTANTS
    Device,
    Item,
    Author,      \* the device that adds each item
    Dialing,     \* the pairs <<a, b>> where a dials b
    BusCap,      \* capacity of the document's broadcast channel (256)
    QueueCap,    \* OUTBOUND_QUEUE (256)
    WireCap,     \* frames the socket buffers hold
    MaxFaults,   \* bound on network failures, idle timeouts and restarts
    MaxRestarts, \* bound on the restarts among them
    None

ASSUME AuthorAssumption == Author \in [Item -> Device]
ASSUME DialingAssumption ==
    /\ Dialing \subseteq Device \X Device
    /\ \A l \in Dialing : l[1] # l[2] /\ <<l[2], l[1]>> \notin Dialing
ASSUME CapAssumption ==
    BusCap \in Nat \ {0} /\ QueueCap \in Nat /\ WireCap \in Nat \ {0}
    /\ MaxFaults \in Nat /\ MaxRestarts \in Nat
ASSUME NoneAssumption == None \notin Device

(* One side of a connection: its device and the peer. *)
Back(l) == <<l[2], l[1]>>
Linked  == Dialing \cup {Back(l) : l \in Dialing}

VARIABLES
    made,      \* the items added so far
    needs,     \* what each item depends on
    doc,       \* the items each document has integrated
    parked,    \* the items it holds back for missing dependencies
    bus,       \* updates the fan-out task has yet to read, with their origin
    lagged,    \* whether updates were dropped from the bus
    open,      \* the pairs with a working socket, both ways round
    side,      \* the registered connection of each side, see below
    out,       \* its outbound queue
    sending,   \* the frame its pump is writing, <<>> if none
    wire,      \* frames written to the socket and not read yet
    late,      \* frames of an ended socket that its reader may still apply
    stray,     \* history: what each side so read of a peer that no longer has it
    guests,    \* history: what each side parked, of another peer, and has not passed on
    faults,    \* failures so far
    restarts   \* restarts among them

docVars  == <<made, needs, doc, parked, bus, lagged>>
linkVars == <<open, side, out, sending, wire, late>>
seenVars == <<stray, guests>>
vars == <<docVars, linkVars, seenVars, faults, restarts>>

(***************************************************************************)
(* A side is "off", "registered" before its SYNC_STEP_1 is out, "pumping"  *)
(* after it, and "stale" when its socket has ended unnoticed.              *)
(***************************************************************************)
Side == {"off", "registered", "pumping", "stale"}

Frame == [kind : {"step1", "data"}, items : SUBSET Item]
Step1(S) == [kind |-> "step1", items |-> S]
Data(S)  == [kind |-> "data", items |-> S]

Update == [items : SUBSET Item, origin : Device \cup {None}]

-----------------------------------------------------------------------------
(***************************************************************************)
(* The document.                                                           *)
(***************************************************************************)
(* The largest part of S that rests on nothing outside S. *)
Integrable(S) ==
    UNION {T \in SUBSET S : \A x \in T : needs[x] \subseteq T}

(* The observer sends what a transaction integrated to the subscribers; a
   transaction that integrates nothing tells them nothing.  (As plausible bugs,
   PublishNoOps: it does, and two devices tell each other for ever;
   PublishOwnOnly: nobody is told of what a peer sent.) *)
Broadcast(d, new, origin) ==
    /\ bus' = [bus EXCEPT ![d] =
                 Append(IF Len(@) = BusCap THEN Tail(@) ELSE @, [items |-> new, origin |-> origin])]
    /\ lagged' = [lagged EXCEPT ![d] = @ \/ Len(bus[d]) = BusCap]

PublishNoOps(d, new, origin) == Broadcast(d, new, origin)
PublishOwnOnly(d, new, origin) ==
    IF origin # None THEN UNCHANGED <<bus, lagged>> ELSE Broadcast(d, new, origin)
Publish(d, new, origin) ==
    IF new = {} THEN UNCHANGED <<bus, lagged>> ELSE Broadcast(d, new, origin)

add_entry(d, x) ==
    /\ x \notin made /\ Author[x] = d
    /\ made' = made \cup {x}
    /\ needs' = [needs EXCEPT ![x] = doc[d]]
    /\ doc' = [doc EXCEPT ![d] = @ \cup {x}]
    /\ Publish(d, {x}, None)
    /\ UNCHANGED <<parked, linkVars, seenVars, faults, restarts>>

(* The whole document, or what a state vector lacks, parked items included.  (As
   a plausible bug: without them.) *)
Snapshot(d) == doc[d] \cup parked[d]
DiffIntegrated(d, have) == doc[d] \ have
diff(d, have) == Snapshot(d) \ have

(* What is integrated is published under the origin of the update that let it
   be, even if it was parked before and came from another peer. *)
apply_update(d, items, origin) ==
    LET held == Snapshot(d) \cup items
        next == Integrable(held)
    IN  /\ doc' = [doc EXCEPT ![d] = next]
        /\ parked' = [parked EXCEPT ![d] = held \ next]
        /\ Publish(d, next \ doc[d], origin)
        /\ guests' = [l \in Linked |->
                        IF l[1] = d /\ l[2] # origin
                        THEN (guests[l] \cup (items \ Snapshot(d))) \ (next \ doc[d])
                        ELSE guests[l]]
        /\ UNCHANGED <<made, needs>>

-----------------------------------------------------------------------------
(***************************************************************************)
(* Connections.                                                            *)
(***************************************************************************)
Registered(l) == side[l] # "off"
Pumping(l)    == side[l] = "pumping"

(* The sockets of the given links end.  The sides in `removed` lose their
   registry entry at once, the others when they notice; until then a pump may
   read what was in flight, unless it is `deaf`. *)
EndSockets(links, removed, deaf) ==
    LET both == links \cup {Back(l) : l \in links} IN
    /\ open' = open \ both
    /\ side' = [l \in Linked |->
                  IF l \in removed THEN "off"
                  ELSE IF l \in both /\ side[l] # "off" /\ l \in open THEN "stale"
                  ELSE side[l]]
    /\ sending' = [l \in Linked |-> IF l \in both \/ l \in removed THEN <<>> ELSE sending[l]]
    /\ late' = [l \in Linked |->
                  IF Back(l) \in deaf THEN <<>>
                  ELSE IF l \in both /\ l \in open /\ Pumping(Back(l)) THEN wire[l]
                  ELSE late[l]]
    /\ wire' = [l \in Linked |-> IF l \in both THEN <<>> ELSE wire[l]]

(* The dialing side has no connection; its dial succeeds and both HELLOs are
   valid. *)
Connect(l) ==
    /\ l \in Dialing /\ l \notin open /\ side[l] = "off"
    /\ open' = open \cup {l, Back(l)}
    /\ UNCHANGED <<docVars, side, out, sending, wire, late, seenVars, faults, restarts>>

(* run_connection's lock section; a stale entry is taken over. *)
Register(l) ==
    /\ l \in open /\ side[l] \in {"off", "stale"}
    /\ side' = [side EXCEPT ![l] = "registered"]
    /\ out' = [out EXCEPT ![l] = <<>>]
    /\ UNCHANGED <<docVars, open, sending, wire, late, seenVars, faults, restarts>>

SendStep1(l) ==
    /\ side[l] = "registered"
    /\ side' = [side EXCEPT ![l] = "pumping"]
    /\ wire' = [wire EXCEPT ![l] = Append(@, Step1(doc[l[1]]))]
    /\ stray' = [stray EXCEPT ![Back(l)] = {}]
    /\ guests' = [guests EXCEPT ![Back(l)] = {}]
    /\ UNCHANGED <<docVars, open, out, sending, late, faults, restarts>>

(* The pump takes a frame from its queue, ... *)
Dequeue(l) ==
    /\ Pumping(l) /\ sending[l] = <<>> /\ out[l] # <<>>
    /\ sending' = [sending EXCEPT ![l] = <<Head(out[l])>>]
    /\ out' = [out EXCEPT ![l] = Tail(@)]
    /\ UNCHANGED <<docVars, open, side, wire, late, seenVars, faults, restarts>>

(* ... or handles one from its peer. *)
Receive(l) ==
    LET in == Back(l)
        frame == Head(wire[in])
    IN  /\ Pumping(l) /\ sending[l] = <<>> /\ wire[in] # <<>>
        /\ wire' = [wire EXCEPT ![in] = Tail(@)]
        /\ \/ /\ frame.kind = "step1"
              /\ sending' = [sending EXCEPT ![l] = <<Data(diff(l[1], frame.items))>>]
              /\ UNCHANGED <<docVars, guests>>
           \/ /\ frame.kind = "data"
              /\ apply_update(l[1], frame.items, l[2])
              /\ UNCHANGED sending
        /\ UNCHANGED <<open, side, out, late, stray, faults, restarts>>

(* The write completes once the socket has room. *)
Written(l) ==
    /\ sending[l] # <<>> /\ Len(wire[l]) < WireCap
    /\ wire' = [wire EXCEPT ![l] = Append(@, sending[l][1])]
    /\ sending' = [sending EXCEPT ![l] = <<>>]
    /\ UNCHANGED <<docVars, open, side, out, late, seenVars, faults, restarts>>

(* An ended socket's pump, even if a new connection has taken over, may pick
   a frame it already received before it notices. *)
ReceiveLate(l) ==
    LET in == Back(l)
        frame == Head(late[in])
    IN  /\ late[in] # <<>>
        /\ late' = [late EXCEPT ![in] = Tail(@)]
        /\ IF frame.kind = "data"
           THEN /\ apply_update(l[1], frame.items, l[2])
                /\ stray' = [stray EXCEPT ![l] = @ \cup (frame.items \ Snapshot(l[2]))]
           ELSE UNCHANGED <<docVars, seenVars>>
        /\ UNCHANGED <<open, side, out, sending, wire, faults, restarts>>

finish_connection(l) ==
    /\ side[l] = "stale" \/ late[Back(l)] # <<>>
    /\ late' = [late EXCEPT ![Back(l)] = <<>>]
    /\ IF side[l] = "stale"
       THEN /\ side' = [side EXCEPT ![l] = "off"]
            /\ out' = [out EXCEPT ![l] = <<>>]
       ELSE UNCHANGED <<side, out>>
    /\ UNCHANGED <<docVars, open, sending, wire, seenVars, faults, restarts>>

(* The idle deadline is one more arm of the pump: it is not looked at while a
   frame is being written. *)
IdleTimeout(l) ==
    /\ Pumping(l) /\ sending[l] = <<>>
    /\ faults < MaxFaults /\ faults' = faults + 1
    /\ EndSockets({l}, {l}, {l})
    /\ out' = [out EXCEPT ![l] = <<>>]
    /\ UNCHANGED <<docVars, seenVars, restarts>>

-----------------------------------------------------------------------------
(***************************************************************************)
(* The fan-out task.                                                       *)
(***************************************************************************)
Targets(d, origin) == {l \in Linked : l[1] = d /\ l[2] # origin /\ Registered(l)}

(* Queue frames to every target; one that has no room is force-closed.  (As
   plausible bugs: the full queue takes the frames, or just loses them.) *)
QueueWithoutBound(targets, frames) ==
    /\ out' = [l \in Linked |-> IF l \in targets THEN out[l] \o frames ELSE out[l]]
    /\ UNCHANGED <<open, side, sending, wire, late>>

DropWhenFull(targets, frames) ==
    /\ out' = [l \in Linked |->
                 IF l \in targets /\ Len(out[l]) + Len(frames) <= QueueCap
                 THEN out[l] \o frames ELSE out[l]]
    /\ UNCHANGED <<open, side, sending, wire, late>>

send_to_peers(targets, frames) ==
    LET full == {l \in targets : Len(out[l]) + Len(frames) > QueueCap} IN
    /\ out' = [l \in Linked |->
                 IF l \in full THEN <<>>
                 ELSE IF l \in targets THEN out[l] \o frames
                 ELSE out[l]]
    /\ EndSockets({l \in full : l \in open /\ side[l] # "stale"}, full, {})

FanOut(d) ==
    /\ ~lagged[d] /\ bus[d] # <<>>
    /\ bus' = [bus EXCEPT ![d] = Tail(@)]
    /\ send_to_peers(Targets(d, Head(bus[d]).origin), <<Data(Head(bus[d]).items)>>)
    /\ UNCHANGED <<made, needs, doc, parked, lagged, seenVars, faults, restarts>>

(* After a lag: the full state and a fresh question to everybody.  (As a
   plausible bug: the lag is ignored.) *)
ResyncNever(d) == UNCHANGED linkVars
Resync(d) == send_to_peers(Targets(d, None), <<Data(Snapshot(d)), Step1(doc[d])>>)

Lagged(d) ==
    /\ lagged[d]
    /\ lagged' = [lagged EXCEPT ![d] = FALSE]
    /\ Resync(d)
    /\ UNCHANGED <<made, needs, doc, parked, bus, seenVars, faults, restarts>>

-----------------------------------------------------------------------------
(* The network drops a socket. *)
Break(l) ==
    /\ l \in open
    /\ faults < MaxFaults /\ faults' = faults + 1
    /\ EndSockets({l}, {}, {})
    /\ UNCHANGED <<docVars, out, seenVars, restarts>>

(* A process ends and starts again: the document is in memory only, so it comes
   back with an empty one, and what only it had is gone.  Its peers have not
   noticed yet. *)
Restart(d) ==
    LET mine == {l \in Linked : l[1] = d} IN
    /\ faults < MaxFaults /\ faults' = faults + 1
    /\ restarts < MaxRestarts /\ restarts' = restarts + 1
    /\ doc' = [doc EXCEPT ![d] = {}] /\ parked' = [parked EXCEPT ![d] = {}]
    /\ bus' = [bus EXCEPT ![d] = <<>>] /\ lagged' = [lagged EXCEPT ![d] = FALSE]
    /\ EndSockets(mine, mine, mine)
    /\ out' = [l \in Linked |-> IF l \in mine THEN <<>> ELSE out[l]]
    /\ stray' = [l \in Linked |-> IF l \in mine THEN {} ELSE stray[l]]
    /\ guests' = [l \in Linked |-> IF l \in mine THEN {} ELSE guests[l]]
    /\ UNCHANGED <<made, needs>>

-----------------------------------------------------------------------------
Init ==
    /\ made = {}
    /\ needs = [x \in Item |-> {}]
    /\ doc = [d \in Device |-> {}]
    /\ parked = [d \in Device |-> {}]
    /\ bus = [d \in Device |-> <<>>]
    /\ lagged = [d \in Device |-> FALSE]
    /\ open = {}
    /\ side = [l \in Linked |-> "off"]
    /\ out = [l \in Linked |-> <<>>]
    /\ sending = [l \in Linked |-> <<>>]
    /\ wire = [l \in Linked |-> <<>>]
    /\ late = [l \in Linked |-> <<>>]
    /\ stray = [l \in Linked |-> {}] /\ guests = [l \in Linked |-> {}]
    /\ faults = 0 /\ restarts = 0

Pump(l)       == Dequeue(l) \/ Receive(l) \/ Written(l)
Connection(l) == Register(l) \/ SendStep1(l) \/ Pump(l) \/ finish_connection(l)
Relay(d)      == FanOut(d) \/ Lagged(d)

Next ==
    \/ \E d \in Device : Relay(d) \/ Restart(d) \/ \E x \in Item : add_entry(d, x)
    \/ \E l \in Linked : \/ Connect(l) \/ Connection(l) \/ ReceiveLate(l)
                         \/ IdleTimeout(l) \/ Break(l)

Spec == Init /\ [][Next]_vars

(***************************************************************************)
(* Tasks are scheduled fairly and a dialed peer is retried.  A peer that   *)
(* is busy writing sends no ping: a pump that hears nothing else reaches   *)
(* its idle deadline, unless it is writing itself.  Nobody has to add an   *)
(* entry and the network need not fail.                                    *)
(***************************************************************************)
Fairness ==
    /\ \A d \in Device : WF_vars(Relay(d))
    /\ \A l \in Linked : /\ WF_vars(Connect(l)) /\ WF_vars(Connection(l))
                         /\ WF_vars(sending[Back(l)] # <<>> /\ IdleTimeout(l))

FairSpec == Spec /\ Fairness

-----------------------------------------------------------------------------
(* Every variable has its type, queues keep to their capacities, and a side
   that takes itself to be connected and was not cut off has a socket. *)
TypeOK ==
    /\ made \subseteq Item
    /\ needs \in [Item -> SUBSET Item]
    /\ doc \in [Device -> SUBSET Item]
    /\ parked \in [Device -> SUBSET Item]
    /\ bus \in [Device -> Seq(Update)] /\ \A d \in Device : Len(bus[d]) <= BusCap
    /\ lagged \in [Device -> BOOLEAN]
    /\ open \subseteq Linked
    /\ side \in [Linked -> Side]
    /\ {out, sending, wire, late} \subseteq [Linked -> Seq(Frame)]
    /\ \A l \in Linked : /\ Len(out[l]) <= QueueCap /\ Len(sending[l]) <= 1
                         /\ side[l] \in {"registered", "pumping"} => l \in open
    /\ stray \in [Linked -> SUBSET Item] /\ guests \in [Linked -> SUBSET Item]
    /\ faults \in 0..MaxFaults /\ restarts \in 0..MaxRestarts

(***************************************************************************)
(* What is on its way from l[1] to l[2].                                   *)
(***************************************************************************)
Frames(l) == sending[l] \o wire[l] \o out[l]
InFrames(fs) == UNION {fs[i].items : i \in {j \in DOMAIN fs : fs[j].kind = "data"}}
InBus(l) == UNION {bus[l[1]][i].items : i \in {j \in DOMAIN bus[l[1]] : bus[l[1]][j].origin # l[2]}}

(* The other side has yet to ask for the document, or its question is on its
   way, or a resync will push everything. *)
AllComing(l) ==
    \/ side[Back(l)] = "registered"
    \/ \E i \in DOMAIN Frames(Back(l)) : Frames(Back(l))[i].kind = "step1"
    \/ lagged[l[1]]

Live(l) == side[l] \in {"registered", "pumping"} /\ side[Back(l)] \in {"registered", "pumping"}

(* What l[2] would never hear of l[1]'s document if the connection lasted. *)
Missed(l) == doc[l[1]] \ (Snapshot(l[2]) \cup InFrames(Frames(l)) \cup InBus(l) \cup stray[l])

(* Nothing is missed: while both ends of a connection are up, whatever one has
   integrated the other holds, or it is on its way over this connection.  It is
   what makes registering before SYNC_STEP_1, relaying to all but the origin,
   resyncing after a lag and closing a full queue sufficient, across restarts
   too; but for what a late frame brings of a peer that restarted and has asked
   already, which is not sent back to its origin. *)
NothingMissed == \A l \in Linked : Live(l) /\ ~AllComing(l) => Missed(l) = {}

(* With any number of peers, a side may miss only what its peer got from a
   third device, had to park, and could integrate with an update of this very
   side, to whom it then is not relayed. *)
OnlyGuestsMissed == \A l \in Linked : Live(l) /\ ~AllComing(l) => Missed(l) \subseteq guests[l]

(* Nothing goes from l[1] to l[2], none of it is waiting to, and none of it is
   among the exceptions above. *)
Still(l) ==
    /\ Pumping(l) /\ Frames(l) = <<>>
    /\ bus[l[1]] = <<>> /\ ~lagged[l[1]]
    /\ stray[l] = {} /\ guests[l] = {}

(* Two connected devices between which nothing is under way have the same
   document: both have integrated the same of what they hold, and each has
   heard of all the other holds, parked items too.  Converges says that it comes
   to that; this, that whenever traffic ceases it has not ceased too early. *)
StillIsEqual == \A l \in Linked : Still(l) /\ Still(Back(l)) => doc[l[1]] = doc[l[2]]

(* Nothing is under way, and what is parked waits for what was lost. *)
Quiet == /\ \A d \in Device : bus[d] = <<>> /\ ~lagged[d]
         /\ \A l \in Linked : Frames(l) = <<>>
         /\ LET held == UNION {Snapshot(d) : d \in Device} IN
            \A d \in Device : parked[d] \cap Integrable(held) = {}

(* Once nothing is added any more, all copies become equal and all traffic
   ceases, whoever restarted with an empty one: no update is lost for good and
   none circulates for ever; but for late frames, as in NothingMissed. *)
Converges ==
    \/ <>[](Quiet /\ \A l \in Linked : doc[l[1]] = doc[l[2]])
    \/ <>[](\E l \in Linked : stray[l] # {})

(* Without a network failure, a pump that is writing gets rid of its frame or
   of its connection: writing it takes in nothing, and a side without inbound
   traffic hangs up. *)
WritesEnd ==
    \A l \in Linked : (sending[l] # <<>> /\ faults = 0) ~> (sending[l] = <<>> \/ faults > 0)

=============================================================================
