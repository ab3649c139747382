------------------------------ MODULE Meeting ------------------------------
(***************************************************************************)
(* Two devices finding and greeting each other in one scope, the personal  *)
(* one or a room: what the larger one announces over mDNS and the smaller  *)
(* one sees of it, the dial loop of the smaller one, the HELLO exchange at *)
(* both ends of every socket, and what each end registers and announces.   *)
(*                                                                         *)
(* SyncManager has the tasks and lock sections of one device against an    *)
(* arbitrary peer; here the peer runs the same code, sockets die silently, *)
(* HELLOs time out while their answer is on its way, discovery flaps, and  *)
(* either process crashes and starts again.  A call of the app loop is one *)
(* step here, and a connection without its registry entry is hung up at    *)
(* some time (SyncManager!OrphanIsHungUp).                                 *)
(***************************************************************************)
EXTENDS Naturals, FiniteSetsExt

CONSTANTS
    Small, Large,    \* the devices, by id: only the smaller one dials
    Room,            \* the room they may meet in; a name is its place in order
    Other,           \* further rooms the larger one may join
    Size,            \* the length of each room name
    Budget,          \* ROOMS_TXT_BUDGET
    Sockets,         \* how many sockets exist at a time (bound)
    MaxFaults,       \* bound on faults
    Waiting, GivingUp, None

Device == {Small, Large}
Socket == 1..Sockets

ASSUME DeviceAssumption == Small # Large
ASSUME RoomAssumption   ==
    Room \in Nat /\ Other \subseteq Nat \ {Room} /\ Size \in [Other \cup {Room} -> Nat \ {0}]
ASSUME BoundAssumption  == Budget \in Nat /\ Sockets \in Nat \ {0} /\ MaxFaults \in Nat
ASSUME NoneAssumption   ==
    /\ None \notin Socket
    /\ Waiting \notin Socket \cup {None} /\ GivingUp \notin Socket \cup {None, Waiting}

VARIABLES
    scope,           \* "devices" or "room"
    advertise_rooms, \* FALSE under --untrusted
    up,              \* whether the process of each device runs
    welcome,         \* whether each accepts the other: trusts it, or is in the room
    others,          \* the further rooms the larger one is in
    seen,            \* the rooms the smaller one last saw the larger advertise
    loop,            \* its dial loop: waiting, giving up, the socket it drives
    sock,            \* the sockets
    registry,        \* the socket registered at each device
    announced,       \* whether that entry is announced to the app
    accepted,        \* history: the devices that ever registered a socket
    faults           \* faults so far

config == <<scope, advertise_rooms>>
links  == <<registry, announced>>
vars == <<config, up, welcome, others, seen, loop, sock, links, accepted, faults>>

(***************************************************************************)
(* An end of a socket: "hello" awaits the peer's HELLO, "greeted" has it   *)
(* and answered, "pump" is registered and has sent SYNC_STEP_1, "live" has *)
(* seen a frame of the peer after its HELLO, "off" is closed.  An end has  *)
(* sent 0, 1 (HELLO) or 2 (SYNC_STEP_1 too) of its first frames; what the  *)
(* peer has read of them is in the peer's phase.                           *)
(***************************************************************************)
Pumping == {"pump", "live"}
Phase   == {"off", "hello", "greeted"} \cup Pumping

SocketState == [phase : [Device -> Phase], sent : [Device -> 0..2],
                dead : BOOLEAN]  \* nothing comes through any more

Unused == [phase |-> [i \in Device |-> "off"], sent |-> [i \in Device |-> 0], dead |-> FALSE]

other(i) == IF i = Small THEN Large ELSE Small

-----------------------------------------------------------------------------
(***************************************************************************)
(* What the larger device announces, and whether the smaller one dials.    *)
(***************************************************************************)
(* In name order while the list fits. *)
encode_rooms(rooms) ==
    {r \in rooms :
        LET upto == {q \in rooms : q <= r} IN
        MapThenSumSet(LAMBDA q : Size[q] + 1, upto) - 1 <= Budget}

rooms_to_advertise(rooms) == IF advertise_rooms THEN rooms ELSE {}

Joined == others \cup (IF scope = "room" /\ welcome[Large] THEN {Room} ELSE {})

(* No announcement or one, as a set. *)
Announcement == IF up[Large] THEN {encode_rooms(rooms_to_advertise(Joined))} ELSE {}

scope_eligible(info, accepts) ==
    accepts /\ \E rooms \in info : scope = "room" => Room \in rooms

(* The dial loop after a call that may start one. *)
maybe_spawn_dialer(l, info, accepts, entry) ==
    IF l = None /\ entry = None /\ scope_eligible(info, accepts) THEN Waiting ELSE l

dial_target == registry[Small] = None /\ scope_eligible(seen, welcome[Small])

-----------------------------------------------------------------------------
(***************************************************************************)
(* The app loops: trust and membership, announcements, discovery.          *)
(***************************************************************************)
Grant(i) ==
    /\ up[i] /\ ~welcome[i]
    /\ welcome' = [welcome EXCEPT ![i] = TRUE]
    /\ loop' = IF i = Small THEN maybe_spawn_dialer(loop, seen, TRUE, registry[i]) ELSE loop
    /\ UNCHANGED <<config, up, others, seen, sock, links, accepted, faults>>

Withdraw(i) ==
    /\ up[i] /\ welcome[i]
    /\ welcome' = [welcome EXCEPT ![i] = FALSE]
    /\ registry' = [registry EXCEPT ![i] = None]
    /\ announced' = [announced EXCEPT ![i] = FALSE]
    /\ loop' = IF i = Small THEN None ELSE loop
    /\ UNCHANGED <<config, up, others, seen, sock, accepted, faults>>

JoinOrLeaveOther(r) ==
    /\ scope = "room" /\ up[Large]
    /\ others' = IF r \in others THEN others \ {r} ELSE others \cup {r}
    /\ UNCHANGED <<config, up, welcome, seen, loop, sock, links, accepted, faults>>

peer_discovered ==
    /\ up[Small] /\ Announcement \notin {{}, seen}
    /\ seen' = Announcement
    /\ loop' = maybe_spawn_dialer(loop, seen', welcome[Small], registry[Small])
    /\ UNCHANGED <<config, up, welcome, others, sock, links, accepted, faults>>

(* The announcement is gone: withdrawn, expired, or missed for a while. *)
peer_lost ==
    /\ up[Small] /\ seen # {}
    /\ seen' = {} /\ loop' = None
    /\ UNCHANGED <<config, up, welcome, others, sock, links, accepted>>

-----------------------------------------------------------------------------
(***************************************************************************)
(* The dial loop.  An attempt that reaches nobody changes nothing.         *)
(***************************************************************************)
Free(s) == sock[s] = Unused /\ \A t \in 1..(s - 1) : sock[t] # Unused

Dial(s) ==
    /\ loop = Waiting /\ dial_target /\ up[Large] /\ Free(s)
    /\ loop' = s
    /\ sock' = [sock EXCEPT ![s].phase = [i \in Device |-> "hello"], ![s].sent[Small] = 1]
    /\ UNCHANGED <<config, up, welcome, others, seen, links, accepted, faults>>

GiveUp ==
    /\ loop = Waiting /\ ~dial_target
    /\ loop' = GivingUp
    /\ UNCHANGED <<config, up, welcome, others, seen, sock, links, accepted, faults>>

remove_dialer_entry ==
    /\ loop = GivingUp /\ loop' = None
    /\ UNCHANGED <<config, up, welcome, others, seen, sock, links, accepted, faults>>

-----------------------------------------------------------------------------
(***************************************************************************)
(* Connection tasks.                                                       *)
(***************************************************************************)
Off(i, s) ==
    sock' = [sock EXCEPT ![s] = IF @.phase[other(i)] = "off" THEN Unused
                                                            ELSE [@ EXCEPT !.phase[i] = "off"]]

(* A run_connection that fails before it registers; its dial loop retries.  (As
   a plausible bug: the loop is left as it was.) *)
RetryNever(s) == loop
Retry(s) == IF loop = s THEN Waiting ELSE loop

Fail(i, s) ==
    /\ Off(i, s)
    /\ loop' = IF i = Small THEN Retry(s) ELSE loop
    /\ UNCHANGED <<config, up, welcome, others, seen, links, accepted>>

Arrives(i, s, n) == ~sock[s].dead /\ sock[s].sent[other(i)] >= n

(* The accepting side answers the HELLO before it validates it. *)
answer_hello(i, s) ==
    /\ i = Large /\ sock[s].phase[i] = "hello" /\ Arrives(i, s, 1)
    /\ sock' = [sock EXCEPT ![s].phase[i] = "greeted", ![s].sent[i] = 1]
    /\ UNCHANGED <<config, up, welcome, others, seen, loop, links, accepted, faults>>

Greeted(i, s) ==
    IF i = Large THEN sock[s].phase[i] = "greeted"
                 ELSE sock[s].phase[i] = "hello" /\ Arrives(i, s, 1)

(* (As a plausible bug: whoever said HELLO is accepted.) *)
AcceptsAll(i) == TRUE
Accepts(i) == welcome[i]

(* SYNC_STEP_1 follows at once: nothing shared changes before it is sent. *)
Register(i, s) ==
    /\ Greeted(i, s) /\ Accepts(i)
    /\ sock' = [sock EXCEPT ![s].phase[i] = "pump", ![s].sent[i] = 2]
    /\ registry' = [registry EXCEPT ![i] = s]
    /\ accepted' = accepted \cup {i}
    /\ loop' = IF i = Small /\ loop # s THEN None ELSE loop
    /\ UNCHANGED <<config, up, welcome, others, seen, announced, faults>>

Refuse(i, s) ==
    /\ Greeted(i, s) /\ ~Accepts(i)
    /\ Fail(i, s)
    /\ UNCHANGED faults

(* (As a plausible bug: only its own loop goes on.) *)
RedialsOwn(l, entry) == l
Redials(l, entry) == maybe_spawn_dialer(l, seen, welcome[Small], entry)

(* The socket is closed and the entry removed, if it is still this task's. *)
finish_connection(i, s) ==
    LET entry == IF registry[i] = s THEN None ELSE registry[i] IN
    /\ Off(i, s)
    /\ registry' = [registry EXCEPT ![i] = entry]
    /\ announced' = [announced EXCEPT ![i] = entry # None /\ @]
    /\ loop' = CASE i = Large -> loop
                 [] i = Small /\ loop = s -> Waiting
                 [] OTHER -> Redials(loop, entry)
    /\ UNCHANGED <<config, up, welcome, others, seen, accepted, faults>>

(* Which frame of the peer shows that it accepted us.  (As a plausible bug: its
   HELLO.) *)
ProofIsHello == 1
Proof == 2

try_announce(i, s) ==
    /\ sock[s].phase[i] = "pump" /\ Arrives(i, s, Proof)
    /\ \/ /\ registry[i] = s
          /\ sock' = [sock EXCEPT ![s].phase[i] = "live"]
          /\ announced' = [announced EXCEPT ![i] = TRUE]
          /\ UNCHANGED <<config, up, welcome, others, seen, loop, registry, accepted, faults>>
       \/ registry[i] # s /\ finish_connection(i, s)

(* The peer closed the socket, or it has been silent past the deadline.  (As a
   plausible bug: silence goes unnoticed.) *)
EndedByClose(i, s) == ~sock[s].dead /\ sock[s].phase[other(i)] = "off"
Ended(i, s) == sock[s].dead \/ sock[s].phase[other(i)] = "off"

await_hello_fails(i, s) ==
    /\ sock[s].phase[i] = "hello" /\ Ended(i, s)
    /\ Fail(i, s)
    /\ UNCHANGED faults

pump_ends(i, s) ==
    /\ sock[s].phase[i] \in Pumping
    /\ Ended(i, s) \/ registry[i] # s
    /\ finish_connection(i, s)

-----------------------------------------------------------------------------
(***************************************************************************)
(* Faults.                                                                 *)
(***************************************************************************)
Fault == faults < MaxFaults /\ faults' = faults + 1

Silence(s) ==
    /\ Fault
    /\ sock[s] # Unused /\ ~sock[s].dead
    /\ sock' = [sock EXCEPT ![s].dead = TRUE]
    /\ UNCHANGED <<config, up, welcome, others, seen, loop, links, accepted>>

(* The clock runs out while the HELLO may be on its way. *)
HelloTimeout(i, s) ==
    /\ Fault
    /\ sock[s].phase[i] = "hello"
    /\ Fail(i, s)

force_close(i) ==
    /\ Fault
    /\ registry[i] # None
    /\ registry' = [registry EXCEPT ![i] = None]
    /\ announced' = [announced EXCEPT ![i] = FALSE]
    /\ UNCHANGED <<config, up, welcome, others, seen, loop, sock, accepted>>

(* The kernel closes the sockets, unless the machine went with the process. *)
Crash(i, silent) ==
    /\ Fault
    /\ up[i]
    /\ up' = [up EXCEPT ![i] = FALSE]
    /\ registry' = [registry EXCEPT ![i] = None]
    /\ announced' = [announced EXCEPT ![i] = FALSE]
    /\ sock' = [s \in Socket |->
                  IF sock[s].phase[other(i)] = "off" THEN Unused
                  ELSE [sock[s] EXCEPT !.phase[i] = "off", !.dead = @ \/ silent]]
    /\ IF i = Small THEN seen' = {} /\ loop' = None ELSE UNCHANGED <<seen, loop>>
    /\ UNCHANGED <<config, welcome, others, accepted>>

Restart(i) ==
    /\ ~up[i]
    /\ up' = [up EXCEPT ![i] = TRUE]
    /\ UNCHANGED <<config, welcome, others, seen, loop, sock, links, accepted, faults>>

-----------------------------------------------------------------------------
Init ==
    /\ scope \in {"devices", "room"}
    /\ advertise_rooms \in BOOLEAN /\ (scope = "devices" => advertise_rooms)
    /\ up = [i \in Device |-> TRUE]
    /\ welcome \in [Device -> BOOLEAN]
    /\ others = {} /\ seen = {} /\ loop = None
    /\ sock = [s \in Socket |-> Unused]
    /\ registry = [i \in Device |-> None]
    /\ announced = [i \in Device |-> FALSE]
    /\ accepted = {} /\ faults = 0

User == \E i \in Device : Grant(i) \/ Withdraw(i) \/ \E r \in Other : JoinOrLeaveOther(r)

Lost == peer_lost /\ Announcement = {} /\ UNCHANGED faults
Flap == peer_lost /\ Announcement # {} /\ Fault

DialStep == GiveUp \/ remove_dialer_entry \/ \E s \in Socket : Dial(s)

ConnectionStep(i, s) ==
    \/ answer_hello(i, s) \/ Register(i, s) \/ Refuse(i, s)
    \/ try_announce(i, s) \/ await_hello_fails(i, s) \/ pump_ends(i, s)

Faults ==
    \/ Flap
    \/ \E s \in Socket : Silence(s) \/ \E i \in Device : HelloTimeout(i, s)
    \/ \E i \in Device : force_close(i) \/ \E silent \in BOOLEAN : Crash(i, silent)

Next ==
    \/ User \/ peer_discovered \/ Lost \/ DialStep \/ Faults
    \/ \E i \in Device : Restart(i) \/ \E s \in Socket : ConnectionStep(i, s)

Spec == Init /\ [][Next]_vars

(***************************************************************************)
(* Every await of a task is bounded by a timeout or by the hang-up signal, *)
(* mDNS repeats and expires announcements, and the loop retries for ever.  *)
(* Users, faults and restarts are not fair.                                *)
(***************************************************************************)
Fairness ==
    /\ WF_vars(peer_discovered) /\ WF_vars(Lost) /\ WF_vars(DialStep)
    /\ \A i \in Device, s \in Socket : WF_vars(ConnectionStep(i, s))

FairSpec == Spec /\ Fairness

-----------------------------------------------------------------------------
(* Every variable has its type; a dial loop drives a socket that is in use, and
   an entry belongs to a socket that is being pumped. *)
TypeOK ==
    /\ scope \in {"devices", "room"} /\ advertise_rooms \in BOOLEAN
    /\ up \in [Device -> BOOLEAN] /\ welcome \in [Device -> BOOLEAN]
    /\ others \subseteq Other
    /\ seen \subseteq SUBSET (Other \cup {Room}) /\ Cardinality(seen) <= 1
    /\ loop \in Socket \cup {Waiting, GivingUp, None}
    /\ sock \in [Socket -> SocketState]
    /\ loop \in Socket => sock[loop].phase[Small] # "off"
    /\ registry \in [Device -> Socket \cup {None}]
    /\ \A i \in Device : registry[i] # None => sock[registry[i]].phase[i] \in Pumping
    /\ announced \in [Device -> BOOLEAN]
    /\ accepted \subseteq Device /\ faults \in 0..MaxFaults

(* Nobody reports a peer as connected that never let this device in: the HELLO
   a refusing peer answers with does not count, nor does the registration of
   our own end, whatever sockets take over from each other. *)
AnnouncedWasWelcome == \A i \in Device : announced[i] => other(i) \in accepted

(* Both run, accept each other, and the smaller one can see that they do. *)
Wanted  == \A i \in Device : up[i] /\ welcome[i]
Visible == scope = "room" => Room \in encode_rooms(rooms_to_advertise(Joined))

(* Both are connected, and over the same socket. *)
Met == \E s \in Socket :
    /\ ~sock[s].dead
    /\ \A i \in Device : registry[i] = s /\ announced[i] /\ sock[s].phase[i] = "live"

(* The dial loop gave up while a new advertisement came in (room_wakeup). *)
Stranded == scope = "room" /\ loop = None /\ dial_target

(* An attempt of a loop that was cancelled meanwhile is still in its HELLO
   exchange.  Such an attempt and the next one can displace each other, in turn
   at each end, as long as every exchange takes longer than REDIAL_DELAY. *)
Crossing == \E s \in Socket : sock[s].phase[Small] = "hello" /\ loop # s

(* Two devices that go on wanting each other end up connected, over one live
   socket that both announced, whatever connections crossed, died silently, were
   refused, timed out or outlived a crash before; but for a lost wake-up or
   attempts that cross for ever. *)
MembersMeet == <>[](Wanted /\ Visible /\ ~Crossing) => <>[]Met \/ <>[]Stranded

(* Once one side no longer accepts the other, neither reports it connected for
   long: the refused side does not keep announcing itself by dialing. *)
RefusedAreGone ==
    \A i \in Device : <>[](~welcome[i]) => <>[](\A j \in Device : ~announced[j])

(* Each device implements what SyncManager implements: PeerLinks, here with the
   peer at the other end and across crashes. *)
Standing(i) ==
    IF registry[i] = None THEN "none" ELSE IF announced[i] THEN "announced" ELSE "registered"

Links == INSTANCE PeerLinks WITH
    Pair <- Device, welcome <- {i \in Device : welcome[i]}, link <- [i \in Device |-> Standing(i)]

ImplementsPeerLinks == Links!Spec

=============================================================================
