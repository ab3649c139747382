---------------------------- MODULE SyncManager ----------------------------
(***************************************************************************)
(* The peer registry of one yoink instance (crate yoink-sync): who may     *)
(* connect, which connection is registered for a (peer, scope) pair, which *)
(* dial loop is trying to establish one, and the notifications the app     *)
(* loop receives.                                                          *)
(*                                                                         *)
(* The code keeps all of it behind one mutex that is never held across an  *)
(* await, so an action here is one lock section together with the code     *)
(* that runs up to the next lock section or await of the same task.  Three *)
(* kinds of task interleave:                                               *)
(*   - the app loop, one call at a time: set_trusted, join_room,           *)
(*     leave_room, peer_discovered, peer_lost.  What a call still has to   *)
(*     do after its lock section is kept in cancels, remover, spawns and   *)
(*     leaving;                                                            *)
(*   - connection tasks (run_connection), named by Conn;                   *)
(*   - dial loops (dial_loop), named by Dialer;                            *)
(* and the fan-out task, which hangs up on a peer whose queue is full.     *)
(*                                                                         *)
(* A name in Conn or Dialer stands for the generation number of a task:    *)
(* the code only ever compares generations for equality, and a name is     *)
(* reused only when no task, registry entry or held handle mentions it.    *)
(***************************************************************************)
EXTENDS Integers, FiniteSets

CONSTANTS
    Peer,            \* ids of the other devices
    Room,            \* room names
    Devices,         \* the personal scope
    Dials,           \* the peers with a larger id than ours: those we dial
    RequirePairing,  \* the --require-pairing trust model
    Configured,      \* the trust lists the persisted config may hold
    Inbound,         \* the (peer, scope) pairs sockets may arrive for
    Calls,           \* the kinds of call the app loop makes
    Conn, Dialer,    \* pools of task names (bounds)
    Doc,             \* pool of document identities (bound)
    None

ASSUME ScopeAssumption   == Devices \notin Room
ASSUME DialsAssumption   == Dials \subseteq Peer
ASSUME PairingAssumption == RequirePairing \in BOOLEAN
ASSUME NoneAssumption    ==
    None \notin Conn \cup Dialer \cup Doc \cup Room \cup (Peer \X (Room \cup {Devices}))

Scope == Room \cup {Devices}
Key   == Peer \X Scope

ASSUME ConfiguredAssumption == Configured \subseteq SUBSET Peer
ASSUME InboundAssumption == Inbound \subseteq Key
ASSUME CallsAssumption   == Calls \subseteq {"trust", "room", "discovery"}

PeerOf(k)  == k[1]
ScopeOf(k) == k[2]

VARIABLES
    listed,      \* paired devices under RequirePairing, else blocked devices
    joined,      \* rooms this instance has open
    peers,       \* peers discovery currently reports
    advertised,  \* the rooms each peer last advertised
    docs,        \* the DocSet: the document open for each scope, or None
    registry,    \* State.connections: the generation registered for each key
    announced,   \* ConnectionHandle.announced of the registered entry
    dialers,     \* State.dialers: the generation of the loop dialing each key
    phase,       \* where each connection task is
    ckey,        \* its (peer, scope) pair
    owner,       \* the dial loop awaiting it, or None for an inbound socket
    doc,         \* the document it fetched
    hung,        \* whether its hangup signal has fired
    victim,      \* the connection it displaced and has yet to hang up
    remover,     \* who removed its registry entry and owes drop_connection
    owed,        \* whether that removal owes a PeerDisconnected
    dphase,      \* where each dial loop is
    dkey,        \* the pair it dials
    cancelled,   \* whether its cancel signal has fired
    cancels,     \* dial loops the current app call has yet to cancel
    spawns,      \* pairs the current app call has yet to maybe_spawn_dialer
    leaving,     \* the room whose document the app has yet to drop
    sessions     \* history: sessions begun minus disconnects emitted

stateVars == <<listed, joined, peers, advertised, docs>>
connVars  == <<phase, ckey, owner, doc, hung, victim, remover, owed>>
dialVars  == <<dialers, dphase, dkey, cancelled>>
appVars   == <<cancels, spawns, leaving>>
vars == <<stateVars, registry, announced, connVars, dialVars, appVars, sessions>>

(***************************************************************************)
(* Phases of a connection task.  A task is registered from "displace" on;  *)
(* it is "pump" until its first frame and "live" once it announced.        *)
(***************************************************************************)
Pumping   == {"displace", "step1", "pump", "announce", "live"}
Running   == Pumping \cup {"close"}
ConnPhase == {"off", "fetched", "bye", "redial"} \cup Running
DialPhase == {"off", "wait", "giveup", "connect", "run"}

Trusted(p) == IF RequirePairing THEN p \in listed ELSE p \notin listed

(* The acceptance check of run_connection, made under the lock. *)
Accepts(k) == IF ScopeOf(k) = Devices THEN Trusted(PeerOf(k)) ELSE ScopeOf(k) \in joined

(* Whether a dial loop should keep trying for k. *)
scope_eligible(k) ==
    /\ PeerOf(k) \in peers
    /\ Accepts(k)
    /\ ScopeOf(k) # Devices => ScopeOf(k) \in advertised[PeerOf(k)]

FreeConn(c) ==
    /\ phase[c] = "off" /\ owner[c] = None /\ remover[c] = "none"
    /\ \A other \in Conn : victim[other] # c

FreeDialer(d) == dphase[d] = "off" /\ d \notin cancels

(* A document identity nothing refers to any more. *)
FreshDoc(x) == \A s \in Scope : docs[s] # x /\ \A c \in Conn : doc[c] # x

-----------------------------------------------------------------------------
(***************************************************************************)
(* Emitting notifications.                                                 *)
(***************************************************************************)
EmitDisconnected(k) == sessions' = [sessions EXCEPT ![k] = @ - 1]

(* An announcement that inherits a displaced entry continues its session. *)
EmitConnected(k, continues) ==
    sessions' = [sessions EXCEPT ![k] = IF continues THEN @ ELSE @ + 1]

(***************************************************************************)
(* maybe_spawn_dialer(_after): start a dial loop.  How long it waits       *)
(* before its first attempt (not at all, or REDIAL_DELAY) is abstracted.   *)
(***************************************************************************)
ShouldDial(k) ==
    /\ PeerOf(k) \in Dials
    /\ scope_eligible(k)
    /\ registry[k] = None
    /\ dialers[k] = None

maybe_spawn_dialer(k) ==
    \/ /\ ShouldDial(k)
       /\ \E d \in Dialer :
            /\ FreeDialer(d)
            /\ dialers' = [dialers EXCEPT ![k] = d]
            /\ dphase' = [dphase EXCEPT ![d] = "wait"]
            /\ dkey' = [dkey EXCEPT ![d] = k]
            /\ cancelled' = [cancelled EXCEPT ![d] = FALSE]
    \/ /\ ~ShouldDial(k)
       /\ UNCHANGED dialVars

(* hangup.send(true); the receiver is gone once the pump has ended.  (As a
   plausible bug: the signal is not sent.) *)
HangUpNever(c) == UNCHANGED hung
HangUp(c) == hung' = [hung EXCEPT ![c] = phase[c] \in Pumping]

(* The entries a distrust or a leave removes.  (As a plausible bug: only those
   the app was told of.) *)
TakenWithoutUnannounced(keys) == {c \in Conn : \E k \in keys : registry[k] = c /\ announced[k]}
Taken(keys) == {c \in Conn : \E k \in keys : registry[k] = c}

(* Take the connections and the dial loops of the given keys out of the
   registry, leaving the app call to signal them after the lock. *)
TakeConnections(keys) ==
    LET taken == Taken(keys) IN
    /\ registry' = [k \in Key |-> IF k \in keys THEN None ELSE registry[k]]
    /\ remover' = [c \in Conn |-> IF c \in taken THEN "app" ELSE remover[c]]
    /\ owed' = [c \in Conn |-> IF c \in taken THEN announced[ckey[c]] ELSE owed[c]]
    /\ announced' = [k \in Key |-> IF k \in keys THEN FALSE ELSE announced[k]]
    /\ UNCHANGED <<phase, ckey, owner, doc, hung, victim>>

TakeDialers(keys) ==
    /\ cancels' = {d \in Dialer : \E k \in keys : dialers[k] = d}
    /\ dialers' = [k \in Key |-> IF k \in keys THEN None ELSE dialers[k]]
    /\ UNCHANGED <<dphase, dkey, cancelled>>

-----------------------------------------------------------------------------
(***************************************************************************)
(* The app loop.                                                           *)
(***************************************************************************)
AppIdle ==
    /\ cancels = {} /\ spawns = {} /\ leaving = None
    /\ \A c \in Conn : remover[c] # "app"

set_trusted(p, trusted) ==
    /\ AppIdle
    /\ listed' = IF trusted = RequirePairing THEN listed \cup {p} ELSE listed \ {p}
    /\ IF trusted
       THEN /\ spawns' = {<<p, Devices>>}
            /\ UNCHANGED <<registry, announced, connVars, dialVars, cancels>>
       ELSE /\ TakeConnections({<<p, Devices>>})
            /\ TakeDialers({<<p, Devices>>})
            /\ UNCHANGED spawns
    /\ UNCHANGED <<joined, peers, advertised, docs, leaving, sessions>>

(* App::join_room opens the document, then SyncManager::join_room. *)
join_room(r) ==
    /\ AppIdle
    /\ r \notin joined
    /\ joined' = joined \cup {r}
    /\ \E x \in Doc :
         /\ IF docs[r] = None THEN FreshDoc(x) ELSE x = docs[r]
         /\ docs' = [docs EXCEPT ![r] = x]
    /\ spawns' = {k \in Key : PeerOf(k) \in peers /\ ScopeOf(k) = r /\ r \in advertised[PeerOf(k)]}
    /\ UNCHANGED <<listed, peers, advertised, registry, announced, connVars, dialVars,
                   cancels, leaving, sessions>>

leave_room(r) ==
    /\ AppIdle
    /\ r \in joined
    /\ joined' = joined \ {r}
    /\ TakeConnections({k \in Key : ScopeOf(k) = r})
    /\ TakeDialers({k \in Key : ScopeOf(k) = r})
    /\ leaving' = r
    /\ UNCHANGED <<listed, peers, advertised, docs, spawns, sessions>>

peer_discovered(p, rooms) ==
    /\ AppIdle
    /\ peers' = peers \cup {p}
    /\ advertised' = [advertised EXCEPT ![p] = rooms]
    /\ spawns' = {<<p, s>> : s \in {Devices} \cup (rooms \cap joined)}
    /\ UNCHANGED <<listed, joined, docs, registry, announced, connVars, dialVars,
                   cancels, leaving, sessions>>

peer_lost(p) ==
    /\ AppIdle
    /\ p \in peers
    /\ peers' = peers \ {p}
    /\ advertised' = [advertised EXCEPT ![p] = {}]
    /\ TakeDialers({k \in Key : PeerOf(k) = p})
    /\ UNCHANGED <<listed, joined, docs, registry, announced, connVars,
                   spawns, leaving, sessions>>

(* The rest of a call, after its lock section: cancel the dial loops, ... *)
CancelDialer(d) ==
    /\ d \in cancels
    /\ cancels' = cancels \ {d}
    /\ cancelled' = [cancelled EXCEPT ![d] = dphase[d] # "off"]
    /\ UNCHANGED <<stateVars, registry, announced, connVars, dialers, dphase, dkey,
                   spawns, leaving, sessions>>

(* ... then drop_connection each removed connection (also the tail of
   force_close, with by = "fan"), ... *)
drop_connection(c, by) ==
    /\ remover[c] = by
    /\ by = "app" => cancels = {}
    /\ HangUp(c)
    /\ remover' = [remover EXCEPT ![c] = "none"]
    /\ owed' = [owed EXCEPT ![c] = FALSE]
    /\ ckey' = [ckey EXCEPT ![c] = IF phase[c] = "off" THEN None ELSE @]
    /\ IF owed[c] THEN EmitDisconnected(ckey[c]) ELSE UNCHANGED sessions
    /\ UNCHANGED <<stateVars, registry, announced, phase, owner, doc, victim,
                   dialVars, appVars>>

(* ... then maybe_spawn_dialer for each target, ... *)
SpawnDialer(k) ==
    /\ k \in spawns
    /\ spawns' = spawns \ {k}
    /\ maybe_spawn_dialer(k)
    /\ UNCHANGED <<stateVars, registry, announced, connVars, cancels, leaving, sessions>>

(* ... or, in App::leave_room, drop the room's document. *)
DropDoc ==
    /\ leaving # None
    /\ cancels = {} /\ \A c \in Conn : remover[c] # "app"
    /\ docs' = [docs EXCEPT ![leaving] = None]
    /\ leaving' = None
    /\ UNCHANGED <<listed, joined, peers, advertised, registry, announced, connVars,
                   dialVars, cancels, spawns, sessions>>

App ==
    \/ "trust" \in Calls /\ \E p \in Peer, trusted \in BOOLEAN : set_trusted(p, trusted)
    \/ "room" \in Calls /\ \E r \in Room : join_room(r) \/ leave_room(r)
    \/ /\ "discovery" \in Calls
       /\ \E p \in Peer : peer_lost(p) \/ \E rooms \in SUBSET Room : peer_discovered(p, rooms)

AppFinish ==
    \/ \E d \in Dialer : CancelDialer(d)
    \/ \E c \in Conn : drop_connection(c, "app")
    \/ \E k \in Key : SpawnDialer(k)
    \/ DropDoc

-----------------------------------------------------------------------------
(***************************************************************************)
(* Connection tasks.  A task is born with its HELLO exchange done: until   *)
(* then it touches nothing shared.  The document is fetched outside the    *)
(* lock, before registration.                                              *)
(***************************************************************************)
BeginConnection(c, k, d) ==
    /\ FreeConn(c)
    /\ phase' = [phase EXCEPT ![c] = "fetched"]
    /\ ckey' = [ckey EXCEPT ![c] = k]
    /\ owner' = [owner EXCEPT ![c] = d]
    /\ doc' = [doc EXCEPT ![c] = docs[ScopeOf(k)]]
    /\ hung' = [hung EXCEPT ![c] = FALSE]
    /\ UNCHANGED <<stateVars, registry, announced, victim, remover, owed, appVars, sessions>>

(* The task is over; only a remover that still has to drop its handle keeps
   its key.  (As a plausible bug: it is forgotten while still needed.) *)
ForgetKeyEarly(c) == ckey' = [ckey EXCEPT ![c] = None]
ForgetKey(c) == ckey' = [ckey EXCEPT ![c] = IF remover[c] = "none" THEN None ELSE @]

handle_inbound(c, k) ==
    /\ BeginConnection(c, k, None)
    /\ UNCHANGED dialVars

(* run_connection's lock section: accept or refuse, take over.  (As a plausible
   bug: acceptance was checked earlier, outside the lock.) *)
MayRegisterUnchecked(c) == doc[c] # None
MayRegister(c) == Accepts(ckey[c]) /\ doc[c] # None

(* A displaced entry hands on whether the app was told of the peer.  (As a
   plausible bug: it does not.) *)
CarriedNever(k) == FALSE
Carried(k) == registry[k] # None /\ announced[k]

(* Another loop than the one driving c dials c's pair.  (As a plausible bug: it
   is left to find out by itself.) *)
RedundantNever(c) == FALSE
Redundant(c) == dialers[ckey[c]] # None /\ dialers[ckey[c]] # owner[c]

Register(c) ==
    LET k == ckey[c]
        old == registry[k]
    IN
    /\ phase[c] = "fetched"
    /\ MayRegister(c)
    /\ phase' = [phase EXCEPT ![c] = IF old = None THEN "step1" ELSE "displace"]
    /\ victim' = [victim EXCEPT ![c] = old]
    /\ registry' = [registry EXCEPT ![k] = c]
    /\ announced' = [announced EXCEPT ![k] = Carried(k)]
    /\ IF Redundant(c)
       THEN /\ dialers' = [dialers EXCEPT ![k] = None]
            /\ cancelled' = [cancelled EXCEPT ![dialers[k]] = TRUE]
       ELSE UNCHANGED <<dialers, cancelled>>
    /\ UNCHANGED <<stateVars, ckey, owner, doc, hung, remover, owed,
                   dphase, dkey, appVars, sessions>>

Refuse(c) ==
    /\ phase[c] = "fetched"
    /\ ~MayRegister(c)
    /\ phase' = [phase EXCEPT ![c] = "off"]
    /\ doc' = [doc EXCEPT ![c] = None]
    /\ ForgetKey(c)
    /\ UNCHANGED <<stateVars, registry, announced, owner, hung, victim, remover, owed,
                   dialVars, appVars, sessions>>

HangUpDisplaced(c) ==
    /\ phase[c] = "displace"
    /\ phase' = [phase EXCEPT ![c] = "step1"]
    /\ HangUp(victim[c])
    /\ victim' = [victim EXCEPT ![c] = None]
    /\ UNCHANGED <<stateVars, registry, announced, ckey, owner, doc, remover, owed,
                   dialVars, appVars, sessions>>

(* A step of the task that changes nothing but where it is. *)
Advance(c, from, to) ==
    /\ phase[c] \in from
    /\ phase' = [phase EXCEPT ![c] = to]
    /\ UNCHANGED <<stateVars, registry, announced, ckey, owner, doc, hung, victim, remover,
                   owed, dialVars, appVars, sessions>>

SendStep1(c)  == Advance(c, {"step1"}, "pump")
(* handle_frame applied the first frame to the document. *)
FirstFrame(c) == Advance(c, {"pump"}, "announce")

(* The pump ends: hung up, or the socket failed or fell silent. *)
PumpEnds(c) ==
    /\ phase[c] \in {"step1", "pump", "live"}
    /\ phase' = [phase EXCEPT ![c] = "close"]
    /\ hung' = [hung EXCEPT ![c] = FALSE]
    /\ UNCHANGED <<stateVars, registry, announced, ckey, owner, doc, victim, remover, owed,
                   dialVars, appVars, sessions>>

(* The generation check: the registry entry is still this task's.  (As a
   plausible bug: only an announced entry is cleaned up.) *)
StillMineAnnounced(c) == registry[ckey[c]] = c /\ announced[ckey[c]]
StillMine(c) == registry[ckey[c]] = c

try_announce(c) ==
    /\ phase[c] = "announce"
    /\ IF StillMine(c)
       THEN /\ phase' = [phase EXCEPT ![c] = "live"]
            /\ announced' = [announced EXCEPT ![ckey[c]] = TRUE]
            /\ EmitConnected(ckey[c], announced[ckey[c]])
            /\ UNCHANGED hung
       ELSE /\ phase' = [phase EXCEPT ![c] = "close"]
            /\ hung' = [hung EXCEPT ![c] = FALSE]
            /\ UNCHANGED <<announced, sessions>>
    /\ UNCHANGED <<stateVars, registry, ckey, owner, doc, victim, remover, owed,
                   dialVars, appVars>>

finish_connection(c) ==
    LET owes == StillMine(c) /\ announced[ckey[c]] IN
    /\ phase[c] = "close"
    /\ phase' = [phase EXCEPT ![c] = IF owes THEN "bye" ELSE "redial"]
    /\ IF StillMine(c)
       THEN /\ registry' = [registry EXCEPT ![ckey[c]] = None]
            /\ announced' = [announced EXCEPT ![ckey[c]] = FALSE]
       ELSE UNCHANGED <<registry, announced>>
    /\ doc' = [doc EXCEPT ![c] = None]
    /\ UNCHANGED <<stateVars, ckey, owner, hung, victim, remover, owed, dialVars,
                   appVars, sessions>>

(* The disconnect is emitted after the lock is released. *)
SayDisconnected(c) ==
    /\ phase[c] = "bye"
    /\ phase' = [phase EXCEPT ![c] = "redial"]
    /\ EmitDisconnected(ckey[c])
    /\ UNCHANGED <<stateVars, registry, announced, ckey, owner, doc, hung, victim, remover,
                   owed, dialVars, appVars>>

(* The end of the task: if we are the dialing side, dial the pair again.  (As
   a plausible bug: nobody does.) *)
RedialNever(c) ==
    /\ phase[c] = "redial"
    /\ phase' = [phase EXCEPT ![c] = "off"]
    /\ ForgetKey(c)
    /\ UNCHANGED <<stateVars, registry, announced, owner, doc, hung, victim, remover,
                   owed, dialVars, appVars, sessions>>

Redial(c) ==
    /\ phase[c] = "redial"
    /\ phase' = [phase EXCEPT ![c] = "off"]
    /\ maybe_spawn_dialer(ckey[c])
    /\ ForgetKey(c)
    /\ UNCHANGED <<stateVars, registry, announced, owner, doc, hung, victim, remover,
                   owed, appVars, sessions>>

(* The fan-out task found the outbound queue full. *)
force_close(c) ==
    /\ phase[c] \in Running /\ StillMine(c)
    /\ remover' = [remover EXCEPT ![c] = "fan"]
    /\ owed' = [owed EXCEPT ![c] = announced[ckey[c]]]
    /\ registry' = [registry EXCEPT ![ckey[c]] = None]
    /\ announced' = [announced EXCEPT ![ckey[c]] = FALSE]
    /\ UNCHANGED <<stateVars, phase, ckey, owner, doc, hung, victim, dialVars, appVars,
                   sessions>>

ConnectionStep(c) ==
    \/ Register(c) \/ Refuse(c) \/ HangUpDisplaced(c) \/ SendStep1(c)
    \/ try_announce(c) \/ finish_connection(c) \/ SayDisconnected(c) \/ Redial(c)
    \/ drop_connection(c, "fan")

-----------------------------------------------------------------------------
(***************************************************************************)
(* Dial loops.                                                             *)
(***************************************************************************)
DialAdvance(d, from, to) ==
    /\ dphase[d] = from
    /\ dphase' = [dphase EXCEPT ![d] = to]
    /\ UNCHANGED <<stateVars, registry, announced, connVars, dialers, dkey, cancelled,
                   appVars, sessions>>

DialEnds(d) ==
    /\ dphase' = [dphase EXCEPT ![d] = "off"]
    /\ dkey' = [dkey EXCEPT ![d] = None]
    /\ cancelled' = [cancelled EXCEPT ![d] = FALSE]
    /\ UNCHANGED <<stateVars, registry, announced, connVars, appVars, sessions>>

(* cancelled() wins the select, while waiting or while connecting. *)
DialCancelled(d) ==
    /\ cancelled[d]
    /\ dphase[d] \in {"wait", "connect"}
    /\ DialEnds(d)
    /\ UNCHANGED dialers

(* The delay is over.  If a connection exists, or the peer is gone or no
   longer eligible, the loop will give up: its entry is removed in a lock
   section of its own. *)
dial_target(d) ==
    LET k == dkey[d] IN
    DialAdvance(d, "wait", IF registry[k] = None /\ scope_eligible(k) THEN "connect" ELSE "giveup")

(* The generation check: the entry is this loop's, not a successor's.  (As a
   plausible bug: the successor's entry is removed.) *)
StillDialsUnchecked(d) == dialers[dkey[d]] # None
StillDials(d) == dialers[dkey[d]] = d

remove_dialer_entry(d) ==
    /\ dphase[d] = "giveup"
    /\ DialEnds(d)
    /\ dialers' = IF StillDials(d) THEN [dialers EXCEPT ![dkey[d]] = None] ELSE dialers

(* No address answered, or the HELLO exchange failed. *)
DialFails(d) == DialAdvance(d, "connect", "wait")

(* The HELLO names the peer the connection is registered under; nothing ties
   it to the peer that was dialed. *)
DialSucceeds(d, c, p) ==
    /\ dphase[d] = "connect"
    /\ dphase' = [dphase EXCEPT ![d] = "run"]
    /\ BeginConnection(c, <<p, ScopeOf(dkey[d])>>, d)
    /\ UNCHANGED <<dialers, dkey, cancelled>>

(* run_connection returned; the loop waits out its delay. *)
DialResumes(d, c) ==
    /\ dphase[d] = "run"
    /\ phase[c] = "off" /\ owner[c] = d
    /\ dphase' = [dphase EXCEPT ![d] = "wait"]
    /\ owner' = [owner EXCEPT ![c] = None]
    /\ UNCHANGED <<stateVars, registry, announced, phase, ckey, doc, hung, victim, remover,
                   owed, dialers, dkey, cancelled, appVars, sessions>>

DialStep(d) ==
    \/ DialCancelled(d) \/ dial_target(d) \/ remove_dialer_entry(d)
    \/ \E c \in Conn : DialResumes(d, c)

DialOutcome(d) == DialFails(d) \/ \E c \in Conn, p \in Peer : DialSucceeds(d, c, p)

-----------------------------------------------------------------------------
Init ==
    /\ listed \in Configured
    /\ joined = {} /\ peers = {}
    /\ advertised = [p \in Peer |-> {}]
    /\ docs \in {f \in [Scope -> Doc \cup {None}] : \A s \in Scope : f[s] = None <=> s # Devices}
    /\ registry = [k \in Key |-> None]
    /\ announced = [k \in Key |-> FALSE]
    /\ dialers = [k \in Key |-> None]
    /\ phase = [c \in Conn |-> "off"]
    /\ ckey = [c \in Conn |-> None]
    /\ owner = [c \in Conn |-> None]
    /\ doc = [c \in Conn |-> None]
    /\ hung = [c \in Conn |-> FALSE]
    /\ victim = [c \in Conn |-> None]
    /\ remover = [c \in Conn |-> "none"]
    /\ owed = [c \in Conn |-> FALSE]
    /\ dphase = [d \in Dialer |-> "off"]
    /\ dkey = [d \in Dialer |-> None]
    /\ cancelled = [d \in Dialer |-> FALSE]
    /\ cancels = {} /\ spawns = {} /\ leaving = None
    /\ sessions = [k \in Key |-> 0]

Next ==
    \/ App
    \/ AppFinish
    \/ \E c \in Conn : \/ \E k \in Inbound : handle_inbound(c, k)
                       \/ FirstFrame(c)
                       \/ PumpEnds(c)
                       \/ force_close(c)
                       \/ ConnectionStep(c)
    \/ \E d \in Dialer : DialStep(d) \/ DialOutcome(d)

Spec == Init /\ [][Next]_vars

(***************************************************************************)
(* Tasks are scheduled fairly and every await in them is bounded (the      *)
(* socket is written with fresh buffers up to SYNC_STEP_1, close_socket    *)
(* has a timeout, a dial has a timeout).  A pump must end only once it is  *)
(* hung up; peers need not send anything and the app need not be called.   *)
(***************************************************************************)
Fairness ==
    /\ WF_vars(AppFinish)
    /\ \A c \in Conn : /\ WF_vars(ConnectionStep(c)) /\ SF_vars(Redial(c))
                       /\ WF_vars(hung[c] /\ PumpEnds(c))
    /\ \A d \in Dialer : /\ WF_vars(DialStep(d)) /\ WF_vars(DialOutcome(d))
                         /\ SF_vars(DialCancelled(d))

FairSpec == Spec /\ Fairness

-----------------------------------------------------------------------------
(* Every variable has its type; a task or a held handle has a pair, and a
   dial loop that runs has one to dial. *)
TypeOK ==
    /\ listed \subseteq Peer /\ joined \subseteq Room /\ peers \subseteq Peer
    /\ advertised \in [Peer -> SUBSET Room]
    /\ docs \in [Scope -> Doc \cup {None}]
    /\ registry \in [Key -> Conn \cup {None}]
    /\ announced \in [Key -> BOOLEAN]
    /\ dialers \in [Key -> Dialer \cup {None}]
    /\ phase \in [Conn -> ConnPhase]
    /\ ckey \in [Conn -> Key \cup {None}]
    /\ \A c \in Conn : phase[c] # "off" \/ remover[c] # "none" => ckey[c] \in Key
    /\ owner \in [Conn -> Dialer \cup {None}]
    /\ doc \in [Conn -> Doc \cup {None}]
    /\ hung \in [Conn -> BOOLEAN]
    /\ victim \in [Conn -> Conn \cup {None}]
    /\ \A c \in Conn : phase[c] = "displace" => victim[c] \in Conn
    /\ remover \in [Conn -> {"none", "app", "fan"}]
    /\ owed \in [Conn -> BOOLEAN]
    /\ dphase \in [Dialer -> DialPhase]
    /\ dkey \in [Dialer -> Key \cup {None}]
    /\ \A d \in Dialer : dphase[d] # "off" => dkey[d] \in Key
    /\ cancelled \in [Dialer -> BOOLEAN]
    /\ cancels \subseteq Dialer /\ spawns \subseteq Key /\ leaving \in Room \cup {None}
    /\ sessions \in [Key -> Int]

(* A registered connection is one the trust model and the joined rooms
   accept at this moment: whatever distrusts the peer or leaves the room
   takes its connections out in the same lock section. *)
RegisteredIsAccepted == \A k \in Key : registry[k] # None => Accepts(k)

(* A registry entry is backed by a running task of the same pair, so a pair
   is never blocked by the entry of a task that is gone. *)
RegistryIsLive ==
    \A k \in Key :
        /\ registry[k] # None =>
             /\ phase[registry[k]] \in Running
             /\ ckey[registry[k]] = k
             /\ remover[registry[k]] = "none"
        /\ announced[k] => registry[k] # None

(* The dialers map names exactly the dial loops nobody has stopped: a loop
   that lost its entry is being cancelled, and an entry has a live loop. *)
DialerIsLive ==
    /\ \A k \in Key : dialers[k] # None => dkey[dialers[k]] = k
    /\ \A d \in Dialer :
         (\E k \in Key : dialers[k] = d) <=> (dphase[d] # "off" /\ ~cancelled[d] /\ d \notin cancels)

(* While a pair is connected, the only loop that may dial it is the one
   driving that connection. *)
OnlyOwnDialer ==
    \A k \in Key : registry[k] # None /\ dialers[k] # None => owner[registry[k]] = dialers[k]

(* A connection that lost its registry entry (distrust, leave, takeover,
   force-close) has been hung up or is about to be: none survives unseen. *)
OrphanIsHungUp ==
    \A c \in Conn : phase[c] \in Pumping /\ registry[ckey[c]] # c =>
        \/ hung[c]
        \/ remover[c] # "none"
        \/ \E other \in Conn : victim[other] = c

(* Every session the app was told of is ended by exactly one
   PeerDisconnected, whoever removes the entry and however many takeovers
   the session lived through. *)
Owing(k) == {c \in Conn : ckey[c] = k /\ (phase[c] = "bye" \/ owed[c])}

SessionsBalance ==
    \A k \in Key : sessions[k] = (IF announced[k] THEN 1 ELSE 0) + Cardinality(Owing(k))

(* A discovered, trusted, disconnected peer we should dial is being dialed,
   or somebody is on the way to starting the loop. *)
WillRedial(c) == phase[c] \in Running \cup {"bye", "redial"}

Stranded(k) ==
    /\ ShouldDial(k)
    /\ k \notin spawns
    /\ \A c \in Conn : ckey[c] = k => ~WillRedial(c)

DevicesNeverStranded == \A p \in Peer : ~Stranded(<<p, Devices>>)

RoomsNeverStranded == \A k \in Key : ~Stranded(k)

(* The registry implements PeerLinks. *)
Standing(k) ==
    IF registry[k] = None THEN "none" ELSE IF announced[k] THEN "announced" ELSE "registered"

Links == INSTANCE PeerLinks WITH
    Pair <- Key, welcome <- {k \in Key : Accepts(k)}, link <- [k \in Key |-> Standing(k)]

ImplementsPeerLinks == Links!Spec

(* The payloads of a registered connection go to the scope's document. *)
DocIsCurrent == \A k \in Key : registry[k] # None => doc[registry[k]] = docs[ScopeOf(k)]

(* A connection that lost its registry entry comes to an end. *)
OrphansEnd ==
    \A c \in Conn : (phase[c] \in Running /\ registry[ckey[c]] # c) ~> phase[c] = "off"

(* A peer that stays discovered and trusted is connected, or its address is
   tried again and again; a dial loop also serves whoever answers there. *)
Trying(k) ==
    \/ registry[k] # None
    \/ \E d \in Dialer : dkey[d] = k /\ dphase[d] \in {"connect", "run"}

KeepsDialing ==
    \A p \in Dials : <>[]scope_eligible(<<p, Devices>>) => []<>Trying(<<p, Devices>>)

=============================================================================
