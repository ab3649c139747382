---------------------------- MODULE MeetingProofs ----------------------------
(***************************************************************************)
(* Proofs about Meeting, for any rooms, sockets and number of faults: the  *)
(* types, that whoever is reported as connected let this device in, and    *)
(* that the two ends implement PeerLinks.                                  *)
(***************************************************************************)
EXTENDS Meeting, FiniteSetTheorems, TLAPS

USE DEF config, links, Device, Pumping, Phase

LEMMA Ends == /\ Small \in Device /\ Large \in Device
              /\ \A i \in Device : other(i) \in Device /\ other(i) # i /\ other(other(i)) = i
              /\ \A i, j \in Device : j = i \/ j = other(i)
BY DeviceAssumption DEF other

(* The two halves of TypeOK: what the app and discovery hold, and what the dial
   loop, the sockets and the registries do. *)
ConfigOK ==
    /\ scope \in {"devices", "room"} /\ advertise_rooms \in BOOLEAN
    /\ up \in [Device -> BOOLEAN] /\ welcome \in [Device -> BOOLEAN]
    /\ others \subseteq Other
    /\ seen \subseteq SUBSET (Other \cup {Room}) /\ Cardinality(seen) <= 1
    /\ accepted \subseteq Device /\ faults \in 0..MaxFaults

LinksOK ==
    /\ loop \in Socket \cup {Waiting, GivingUp, None}
    /\ sock \in [Socket -> SocketState]
    /\ loop \in Socket => sock[loop].phase[Small] # "off"
    /\ registry \in [Device -> Socket \cup {None}]
    /\ \A i \in Device : registry[i] # None => sock[registry[i]].phase[i] \in Pumping
    /\ announced \in [Device -> BOOLEAN]

(* An end is closed: the other end and the other sockets are as before. *)
LEMMA OffType ==
    ASSUME TypeOK, NEW i \in Device, NEW s \in Socket, Off(i, s)
    PROVE  /\ sock' \in [Socket -> SocketState]
           /\ \A t \in Socket : t # s => sock'[t] = sock[t]
           /\ \A j \in Device : j # i => sock'[s].phase[j] = sock[s].phase[j]
           /\ \A j \in Device : sock'[s].sent[j] \in {0, sock[s].sent[j]}
<1>1. sock[s] \in SocketState /\ sock \in [Socket -> SocketState]
    BY DEF TypeOK
<1>2. Unused \in SocketState
    BY DEF Unused, SocketState
<1>3. [sock[s] EXCEPT !.phase[i] = "off"] \in SocketState
    BY <1>1 DEF SocketState
<1>4. sock'[s] = IF sock[s].phase[other(i)] = "off" THEN Unused
                                                   ELSE [sock[s] EXCEPT !.phase[i] = "off"]
    BY <1>1 DEF Off
<1>5. sock' \in [Socket -> SocketState] /\ \A t \in Socket : t # s => sock'[t] = sock[t]
    BY <1>1, <1>2, <1>3 DEF Off
<1>6. \A j \in Device : j # i => sock'[s].phase[j] = sock[s].phase[j]
    BY <1>1, <1>4, Ends DEF SocketState, Unused
<1>7. \A j \in Device : sock'[s].sent[j] \in {0, sock[s].sent[j]}
    BY <1>1, <1>4 DEF SocketState, Unused
<1> QED BY <1>5, <1>6, <1>7

LEMMA LinksStep == TypeOK /\ [Next]_vars => LinksOK'
<1> SUFFICES ASSUME TypeOK, [Next]_vars PROVE LinksOK'
    OBVIOUS
<1>p. ASSUME NEW q \in SocketState, NEW i \in Device, NEW p \in Phase, NEW n \in 0..2
      PROVE  [q EXCEPT !.phase[i] = p, !.sent[i] = n] \in SocketState
    <2> HIDE DEF Device, Phase
    <2> QED BY DEF SocketState
<1> USE DEF TypeOK, LinksOK
<1>0. Waiting \notin Socket /\ GivingUp \notin Socket /\ None \notin Socket
    BY NoneAssumption
<1>1. ASSUME sock' = sock, loop' \in {loop, Waiting, GivingUp, None},
             registry' \in [Device -> Socket \cup {None}],
             \A i \in Device : registry'[i] \in {registry[i], None},
             announced' \in [Device -> BOOLEAN]
      PROVE  LinksOK'
    BY <1>0, <1>1
<1>2. \A l, info, accepts, entry : maybe_spawn_dialer(l, info, accepts, entry) \in {l, Waiting}
    BY DEF maybe_spawn_dialer
<1>3. CASE User
    <2>1. ASSUME NEW i \in Device, Grant(i) PROVE LinksOK'
        <3>1. loop' \in {loop, Waiting} /\ UNCHANGED <<sock, registry, announced>>
            BY <1>2, <2>1 DEF Grant
        <3> QED BY <1>1, <3>1
    <2>2. ASSUME NEW i \in Device, Withdraw(i) PROVE LinksOK'
        BY <1>1, <2>2 DEF Withdraw
    <2>3. ASSUME NEW r \in Other, JoinOrLeaveOther(r) PROVE LinksOK'
        BY <1>1, <2>3 DEF JoinOrLeaveOther
    <2> QED BY <1>3, <2>1, <2>2, <2>3 DEF User
<1>4. CASE peer_discovered \/ Lost \/ Flap
    BY <1>1, <1>2, <1>4 DEF peer_discovered, Lost, Flap, peer_lost
<1>5. CASE GiveUp \/ remove_dialer_entry
    BY <1>1, <1>5 DEF GiveUp, remove_dialer_entry
<1>6. ASSUME NEW s \in Socket, Dial(s) PROVE LinksOK'
    <2>1. sock[s] = Unused /\ UNCHANGED <<registry, announced>> /\ loop' = s
        BY <1>6 DEF Dial, Free
    <2> DEFINE opened == [sock[s] EXCEPT !.phase = [i \in Device |-> "hello"], !.sent[Small] = 1]
    <2>2. sock' = [sock EXCEPT ![s] = opened]
        BY <1>6 DEF Dial
    <2>3. opened \in SocketState /\ opened.phase[Small] = "hello"
        <3>1. opened.phase = [i \in Device |-> "hello"] /\ opened.dead \in BOOLEAN
            BY DEF SocketState
        <3>2. opened.sent \in [Device -> 0..2]
            BY DEF SocketState
        <3>3. opened \in SocketState
            BY <3>1, <3>2 DEF SocketState
        <3> QED BY <3>1, <3>3, Ends
    <2>4. \A i \in Device : registry[i] # s
        BY <2>1, <1>0 DEF Unused
    <2> HIDE DEF opened
    <2> QED BY <2>1, <2>2, <2>3, <2>4
<1>7. ASSUME NEW i \in Device, NEW s \in Socket, Off(i, s), registry' = registry, announced' = announced,
             sock[s].phase[i] \notin Pumping,
             loop' \in {loop, Waiting}, i = Small => loop' # s
      PROVE  LinksOK'
    <2>1. registry[i] # s
        BY <1>0, <1>7
    <2>2. \A j \in Device : registry[j] # None => sock'[registry[j]].phase[j] \in Pumping
        BY <1>7, <2>1, OffType
    <2>3. loop' \in Socket => sock'[loop'].phase[Small] # "off"
        BY <1>0, <1>7, Ends, OffType
    <2> QED BY <1>0, <1>7, <2>2, <2>3, OffType
<1>8. ASSUME NEW i \in Device, NEW s \in Socket, Fail(i, s), sock[s].phase[i] \notin Pumping
      PROVE  LinksOK'
    BY <1>0, <1>7, <1>8 DEF Fail, Retry
<1>9. ASSUME NEW i \in Device, NEW s \in Socket, finish_connection(i, s) PROVE LinksOK'
    <2>1. /\ Off(i, s) /\ registry'[i] # s
          /\ registry' \in [Device -> Socket \cup {None}]
          /\ \A j \in Device : registry'[j] \in {registry[j], None}
          /\ announced' \in [Device -> BOOLEAN]
        BY <1>0, <1>9 DEF finish_connection
    <2>2. loop' \in {loop, Waiting} /\ (i = Small => loop' # s)
        BY <1>0, <1>2, <1>9, Ends DEF finish_connection, Redials
    <2>3. \A j \in Device : registry'[j] # None => sock'[registry'[j]].phase[j] \in Pumping
        BY <2>1, OffType
    <2>4. loop' \in Socket => sock'[loop'].phase[Small] # "off"
        BY <1>0, <2>1, <2>2, Ends, OffType
    <2> QED BY <1>0, <2>1, <2>2, <2>3, <2>4, OffType
<1>10. ASSUME NEW i \in Device, NEW s \in Socket, answer_hello(i, s) PROVE LinksOK'
    <2> DEFINE answered == [sock[s] EXCEPT !.phase[i] = "greeted", !.sent[i] = 1]
    <2>1. sock' = [sock EXCEPT ![s] = answered] /\ sock[s].phase[i] = "hello"
        BY <1>10 DEF answer_hello
    <2>2. /\ answered \in SocketState /\ answered.phase[i] = "greeted"
          /\ \A j \in Device : j # i => answered.phase[j] = sock[s].phase[j]
        <3>1. sock[s] \in SocketState
            OBVIOUS
        <3>2. answered \in SocketState
            <4>1. "greeted" \in Phase /\ 1 \in 0..2
                OBVIOUS
            <4> HIDE DEF Phase, Device, SocketState
            <4> QED BY <1>p, <3>1, <4>1
        <3>3. answered.phase = [sock[s].phase EXCEPT ![i] = "greeted"]
            BY <3>1 DEF SocketState
        <3> QED BY <3>1, <3>2, <3>3 DEF SocketState
    <2>3. UNCHANGED <<loop, registry, announced>>
        BY <1>10 DEF answer_hello
    <2>4. registry[i] # s
        BY <1>0, <2>1
    <2> HIDE DEF answered
    <2> QED BY <2>1, <2>2, <2>3, <2>4, Ends
<1>11. ASSUME NEW i \in Device, NEW s \in Socket, Register(i, s) PROVE LinksOK'
    <2> DEFINE entered == [sock[s] EXCEPT !.phase[i] = "pump", !.sent[i] = 2]
    <2>1. /\ sock' = [sock EXCEPT ![s] = entered] /\ announced' = announced
          /\ registry' = [registry EXCEPT ![i] = s] /\ loop' \in {loop, None}
        BY <1>11 DEF Register
    <2>2. /\ entered \in SocketState /\ entered.phase[i] = "pump"
          /\ \A j \in Device : j # i => entered.phase[j] = sock[s].phase[j]
        <3>1. sock[s] \in SocketState
            OBVIOUS
        <3>2. entered \in SocketState
            <4>1. "pump" \in Phase /\ 2 \in 0..2
                OBVIOUS
            <4> HIDE DEF Phase, Device, SocketState
            <4> QED BY <1>p, <3>1, <4>1
        <3>3. entered.phase = [sock[s].phase EXCEPT ![i] = "pump"]
            BY <3>1 DEF SocketState
        <3> QED BY <3>1, <3>2, <3>3 DEF SocketState
    <2> HIDE DEF entered
    <2> QED BY <1>0, <2>1, <2>2, Ends
<1>12. ASSUME NEW i \in Device, NEW s \in Socket, try_announce(i, s) PROVE LinksOK'
    <2>1. CASE /\ registry[i] = s
               /\ sock' = [sock EXCEPT ![s].phase[i] = "live"]
               /\ announced' = [announced EXCEPT ![i] = TRUE]
               /\ UNCHANGED <<loop, registry>>
        <3> DEFINE live == [sock[s] EXCEPT !.phase[i] = "live"]
        <3>1. sock' = [sock EXCEPT ![s] = live]
            BY <2>1
        <3>2. /\ live \in SocketState /\ live.phase[i] = "live"
              /\ \A j \in Device : j # i => live.phase[j] = sock[s].phase[j]
            BY DEF SocketState
        <3> HIDE DEF live
        <3> QED BY <2>1, <3>1, <3>2, Ends
    <2> QED BY <1>9, <1>12, <2>1 DEF try_announce
<1>13. ASSUME NEW i \in Device, NEW s \in Socket, ConnectionStep(i, s) PROVE LinksOK'
    <2>1. ASSUME Refuse(i, s) \/ await_hello_fails(i, s) PROVE LinksOK'
        BY <1>8, <2>1 DEF Refuse, await_hello_fails, Greeted
    <2> QED BY <1>9, <1>10, <1>11, <1>12, <1>13, <2>1 DEF ConnectionStep, pump_ends
<1>14. ASSUME NEW s \in Socket, Silence(s) PROVE LinksOK'
    <2> DEFINE silent == [sock[s] EXCEPT !.dead = TRUE]
    <2>1. sock' = [sock EXCEPT ![s] = silent] /\ UNCHANGED <<loop, registry, announced>>
        BY <1>14 DEF Silence
    <2>2. silent \in SocketState /\ silent.phase = sock[s].phase
        BY DEF SocketState
    <2> HIDE DEF silent
    <2> QED BY <2>1, <2>2
<1>15. ASSUME NEW i \in Device, NEW s \in Socket, HelloTimeout(i, s) PROVE LinksOK'
    BY <1>8, <1>15 DEF HelloTimeout
<1>16. ASSUME NEW i \in Device, force_close(i) \/ Restart(i) PROVE LinksOK'
    BY <1>1, <1>16 DEF force_close, Restart
<1>17. ASSUME NEW i \in Device, NEW silent \in BOOLEAN, Crash(i, silent) PROVE LinksOK'
    <2> DEFINE left(s) == [sock[s] EXCEPT !.phase[i] = "off", !.dead = @ \/ silent]
    <2>1. sock' = [s \in Socket |-> IF sock[s].phase[other(i)] = "off" THEN Unused ELSE left(s)]
        BY <1>17 DEF Crash
    <2>2. \A s \in Socket : sock[s] \in SocketState
        OBVIOUS
    <2>3. \A s \in Socket : left(s) \in SocketState
        BY <2>2 DEF SocketState
    <2>4. \A s \in Socket, j \in Device : j # i => left(s).phase[j] = sock[s].phase[j]
        BY <2>2 DEF SocketState
    <2>5. Unused \in SocketState
        BY DEF Unused, SocketState
    <2> HIDE DEF left
    <2>6. sock' \in [Socket -> SocketState]
        BY <2>1, <2>3, <2>5
    <2>7. \A s \in Socket, j \in Device :
              j # i /\ sock[s].phase[j] # "off" => sock'[s].phase[j] = sock[s].phase[j]
        BY <2>1, <2>4, Ends
    <2>8. /\ registry' = [registry EXCEPT ![i] = None] /\ announced' = [announced EXCEPT ![i] = FALSE]
          /\ loop' \in {loop, None} /\ (i = Small => loop' = None)
        BY <1>17 DEF Crash
    <2> QED BY <1>0, <2>6, <2>7, <2>8, Ends
<1>18. CASE UNCHANGED vars
    BY <1>1, <1>18 DEF vars
<1> QED
    BY <1>3, <1>4, <1>5, <1>6, <1>13, <1>14, <1>15, <1>16, <1>17, <1>18 DEF Next, DialStep, Faults

(* Every variable has its type; a dial loop drives a socket that is in use, and
   an entry belongs to a socket that is being pumped. *)
THEOREM MeetingTypeCorrect == Spec => []TypeOK
<1>ConfigStep. TypeOK /\ [Next]_vars => ConfigOK'
    <2> SUFFICES ASSUME TypeOK, [Next]_vars PROVE ConfigOK'
        OBVIOUS
    <2> USE DEF TypeOK, ConfigOK
    <2>1. CASE User
        <3>1. ASSUME NEW i \in Device, Grant(i) \/ Withdraw(i) PROVE ConfigOK'
            BY <3>1 DEF Grant, Withdraw
        <3>2. ASSUME NEW r \in Other, JoinOrLeaveOther(r) PROVE ConfigOK'
            BY <3>2 DEF JoinOrLeaveOther
        <3> QED BY <2>1, <3>1, <3>2 DEF User
    <2>2. CASE peer_discovered
        <3>1. Announcement \subseteq SUBSET (Other \cup {Room})
            BY DEF Announcement, encode_rooms, rooms_to_advertise, Joined
        <3>2. \A x : Cardinality({x}) = 1
            BY FS_Singleton
        <3>3. Cardinality({}) = 0
            BY FS_EmptySet
        <3>4. Cardinality(Announcement) <= 1
            <4> DEFINE listed == encode_rooms(rooms_to_advertise(Joined))
            <4>1. Announcement = {} \/ Announcement = {listed}
                BY DEF Announcement
            <4> HIDE DEF listed
            <4>2. Cardinality({listed}) = 1
                BY <3>2
            <4>3. Cardinality(Announcement) \in {0, 1}
                BY <3>3, <4>1, <4>2, Zenon
            <4> QED BY <4>3
        <3> QED BY <2>2, <3>1, <3>4 DEF peer_discovered
    <2>3. ASSUME seen' = {} PROVE seen' \subseteq SUBSET (Other \cup {Room}) /\ Cardinality(seen') <= 1
        BY <2>3, FS_EmptySet
    <2>4. ASSUME Fault PROVE faults' \in 0..MaxFaults
        BY <2>4, BoundAssumption DEF Fault
    <2>5. CASE Lost \/ Flap
        BY <2>3, <2>4, <2>5 DEF Lost, Flap, peer_lost
    <2>6. CASE DialStep
        BY <2>6 DEF DialStep, Dial, GiveUp, remove_dialer_entry
    <2>7. ASSUME NEW i \in Device, NEW s \in Socket, ConnectionStep(i, s) PROVE ConfigOK'
        BY <2>7
        DEF ConnectionStep, answer_hello, Register, Refuse, try_announce, await_hello_fails, pump_ends,
            finish_connection, Fail
    <2>8. ASSUME NEW s \in Socket, Silence(s) \/ \E i \in Device : HelloTimeout(i, s) PROVE ConfigOK'
        BY <2>4, <2>8 DEF Silence, HelloTimeout, Fail
    <2>9. ASSUME NEW i \in Device, force_close(i) \/ Restart(i) PROVE ConfigOK'
        BY <2>4, <2>9 DEF force_close, Restart
    <2>10. ASSUME NEW i \in Device, NEW silent \in BOOLEAN, Crash(i, silent) PROVE ConfigOK'
        <3>1. seen' = {} \/ seen' = seen
            BY <2>10 DEF Crash
        <3> QED BY <2>3, <2>4, <2>10, <3>1 DEF Crash
    <2>11. CASE UNCHANGED vars
        BY <2>11 DEF vars
    <2> QED
        BY <2>1, <2>2, <2>5, <2>6, <2>7, <2>8, <2>9, <2>10, <2>11 DEF Next, Faults
<1>1. Init => TypeOK
    <2> SUFFICES ASSUME Init PROVE TypeOK
        OBVIOUS
    <2>1. Unused \in SocketState
        BY DEF Unused, SocketState
    <2>2. Cardinality(seen) <= 1
        BY FS_EmptySet DEF Init
    <2>3. 0 \in 0..MaxFaults
        BY BoundAssumption
    <2> QED BY <2>1, <2>2, <2>3, NoneAssumption DEF Init, TypeOK
<1>2. ConfigOK' /\ LinksOK' => TypeOK'
    BY DEF TypeOK, ConfigOK, LinksOK
<1> QED BY <1>1, <1>2, <1>ConfigStep, LinksStep, PTL DEF Spec

-----------------------------------------------------------------------------
(* Only who has registered a socket ever sends SYNC_STEP_1. *)
Proven == \A s \in Socket, j \in Device : sock[s].sent[j] = 2 => j \in accepted

(* A device is reported as connected only if it once accepted this one: the
   HELLO of a refusal is no proof, whatever is displaced, times out, dies or is
   restarted in between. *)
THEOREM AnnouncedCorrect == Spec => []AnnouncedWasWelcome
<1>1. Init => Proven /\ AnnouncedWasWelcome
    BY DEF Init, Proven, AnnouncedWasWelcome, Unused
<1>2. TypeOK /\ TypeOK' /\ Proven /\ AnnouncedWasWelcome /\ [Next]_vars
          => Proven' /\ AnnouncedWasWelcome'
    <2> SUFFICES ASSUME TypeOK, TypeOK', Proven, AnnouncedWasWelcome, [Next]_vars
                 PROVE  Proven' /\ AnnouncedWasWelcome'
        OBVIOUS
    <2> USE DEF Proven, AnnouncedWasWelcome
    <2>1. ASSUME accepted \subseteq accepted',
                 \A s \in Socket, j \in Device :
                     sock'[s].sent[j] \in {0, 1, sock[s].sent[j]} \/ j \in accepted',
                 \A i \in Device : announced'[i] => announced[i] \/ other(i) \in accepted'
          PROVE  Proven' /\ AnnouncedWasWelcome'
        BY <2>1
    <2>2. ASSUME sock' = sock, accepted' = accepted, \A i \in Device : announced'[i] => announced[i]
          PROVE  Proven' /\ AnnouncedWasWelcome'
        BY <2>2
    <2>3. CASE User \/ peer_discovered \/ Lost \/ Flap
        BY <2>2, <2>3
        DEF User, Grant, Withdraw, JoinOrLeaveOther, peer_discovered, Lost, Flap, peer_lost, TypeOK
    <2>4. CASE GiveUp \/ remove_dialer_entry
        BY <2>2, <2>4 DEF GiveUp, remove_dialer_entry
    <2>5. ASSUME NEW s \in Socket, Dial(s) PROVE Proven' /\ AnnouncedWasWelcome'
        <3>1. \A t \in Socket, j \in Device : sock'[t].sent[j] \in {1, sock[t].sent[j]}
            BY <2>5, Ends DEF Dial, TypeOK, SocketState
        <3> QED BY <2>1, <2>5, <3>1 DEF Dial
    <2>6. ASSUME NEW i \in Device, NEW s \in Socket, Off(i, s), accepted' = accepted,
                 \A j \in Device : announced'[j] => announced[j]
          PROVE  Proven' /\ AnnouncedWasWelcome'
        BY <2>1, <2>6, OffType
    <2>7. ASSUME NEW i \in Device, NEW s \in Socket,
                 finish_connection(i, s) \/ Refuse(i, s) \/ await_hello_fails(i, s)
                     \/ pump_ends(i, s) \/ HelloTimeout(i, s)
          PROVE  Proven' /\ AnnouncedWasWelcome'
        BY <2>6, <2>7
        DEF finish_connection, Refuse, await_hello_fails, pump_ends, HelloTimeout, Fail, TypeOK
    <2>8. ASSUME NEW i \in Device, NEW s \in Socket, answer_hello(i, s)
          PROVE  Proven' /\ AnnouncedWasWelcome'
        <3>1. \A t \in Socket, j \in Device : sock'[t].sent[j] \in {1, sock[t].sent[j]}
            BY <2>8 DEF answer_hello, TypeOK, SocketState
        <3> QED BY <2>1, <2>8, <3>1 DEF answer_hello
    <2>9. ASSUME NEW i \in Device, NEW s \in Socket, Register(i, s)
          PROVE  Proven' /\ AnnouncedWasWelcome'
        <3>1. \A t \in Socket, j \in Device :
                  sock'[t].sent[j] = sock[t].sent[j] \/ j = i
            BY <2>9 DEF Register, TypeOK, SocketState
        <3>2. accepted' = accepted \cup {i} /\ announced' = announced
            BY <2>9 DEF Register
        <3> QED BY <2>1, <3>1, <3>2
    <2>10. ASSUME NEW i \in Device, NEW s \in Socket, try_announce(i, s)
           PROVE  Proven' /\ AnnouncedWasWelcome'
        <3>1. CASE finish_connection(i, s)
            BY <2>7, <3>1
        <3>2. CASE /\ sock' = [sock EXCEPT ![s].phase[i] = "live"]
                   /\ announced' = [announced EXCEPT ![i] = TRUE] /\ accepted' = accepted
            <4>1. \A t \in Socket, j \in Device : sock'[t].sent[j] = sock[t].sent[j]
                BY <3>2 DEF TypeOK, SocketState
            <4>2. sock[s].sent[other(i)] = 2
                BY <2>10, Ends DEF try_announce, Arrives, Proof, TypeOK, SocketState
            <4>3. other(i) \in accepted
                BY <4>2, Ends
            <4>4. \A j \in Device : announced'[j] => announced[j] \/ j = i
                BY <3>2 DEF TypeOK
            <4> QED BY <2>1, <3>2, <4>1, <4>3, <4>4
        <3> QED BY <2>10, <3>1, <3>2 DEF try_announce
    <2>11. ASSUME NEW s \in Socket, Silence(s) PROVE Proven' /\ AnnouncedWasWelcome'
        <3>1. \A t \in Socket, j \in Device : sock'[t].sent[j] = sock[t].sent[j]
            BY <2>11 DEF Silence, TypeOK, SocketState
        <3> QED BY <2>1, <2>11, <3>1 DEF Silence
    <2>12. ASSUME NEW i \in Device, force_close(i) \/ Restart(i)
           PROVE  Proven' /\ AnnouncedWasWelcome'
        BY <2>2, <2>12 DEF force_close, Restart, TypeOK
    <2>13. ASSUME NEW i \in Device, NEW silent \in BOOLEAN, Crash(i, silent)
           PROVE  Proven' /\ AnnouncedWasWelcome'
        <3>1. \A t \in Socket, j \in Device : sock'[t].sent[j] \in {0, sock[t].sent[j]}
            <4> DEFINE left(t) == [sock[t] EXCEPT !.phase[i] = "off", !.dead = @ \/ silent]
            <4>1. \A t \in Socket : sock'[t] = Unused \/ sock'[t] = left(t)
                BY <2>13 DEF Crash
            <4>2. \A t \in Socket : sock[t] \in SocketState
                BY DEF TypeOK
            <4>3. \A t \in Socket : left(t).sent = sock[t].sent
                BY <4>2 DEF SocketState
            <4> HIDE DEF left
            <4> QED BY <4>1, <4>3 DEF Unused
        <3>2. accepted' = accepted /\ \A j \in Device : announced'[j] => announced[j]
            BY <2>13 DEF Crash, TypeOK
        <3> QED BY <2>1, <3>1, <3>2
    <2>14. CASE UNCHANGED vars
        BY <2>2, <2>14 DEF vars
    <2> QED
        BY <2>3, <2>4, <2>5, <2>7, <2>8, <2>9, <2>10, <2>11, <2>12, <2>13, <2>14
        DEF Next, DialStep, ConnectionStep, Faults
<1> QED BY <1>1, <1>2, MeetingTypeCorrect, PTL DEF Spec

-----------------------------------------------------------------------------
(* The abstract variables: which devices accept the other, and the link each
   has to it. *)
Welcoming == {i \in Device : welcome[i]}
Linked    == [i \in Device |-> Standing(i)]

(* Nobody is announced without an entry in the registry.  A registration takes
   over the standing of the entry before it: without this one it could open a
   link that the app already believes in. *)
AnnouncedIsLinked == \A i \in Device : announced[i] => registry[i] # None

(* The steps of PeerLinks, by what they do to the link of one device. *)
LEMMA MeetingMoves ==
    ASSUME NEW i \in Device
    PROVE  /\ Welcoming' = Welcoming \cup {i} /\ UNCHANGED Linked => Links!Next
           /\ /\ Welcoming' = Welcoming \ {i}
              /\ Linked' = [j \in Device |-> IF j \in {i} THEN "none" ELSE Linked[j]]
              => Links!Next
           /\ /\ i \in Welcoming /\ UNCHANGED Welcoming
              /\ Linked' = [Linked EXCEPT ![i] = IF @ = "announced" THEN "announced" ELSE "registered"]
              => Links!Next
           /\ /\ Linked[i] # "none" /\ UNCHANGED Welcoming
              /\ Linked' = [Linked EXCEPT ![i] = "announced"]
              => Links!Next
           /\ /\ UNCHANGED Welcoming
              /\ Linked' = [Linked EXCEPT ![i] = "none"]
              => Links!Next
<1> HIDE DEF Device
<1>1. Welcoming' = Welcoming \cup {i} /\ UNCHANGED Linked => Links!Next
    BY {i} \in SUBSET Device DEF Links!Next, Links!Welcome, Welcoming, Linked
<1>2. /\ Welcoming' = Welcoming \ {i}
      /\ Linked' = [j \in Device |-> IF j \in {i} THEN "none" ELSE Linked[j]]
      => Links!Next
    BY {i} \in SUBSET Device DEF Links!Next, Links!Withdraw, Welcoming, Linked
<1>3. /\ i \in Welcoming /\ UNCHANGED Welcoming
      /\ Linked' = [Linked EXCEPT ![i] = IF @ = "announced" THEN "announced" ELSE "registered"]
      => Links!Next
    BY DEF Links!Next, Links!Open, Welcoming, Linked
<1>4. /\ Linked[i] # "none" /\ UNCHANGED Welcoming
      /\ Linked' = [Linked EXCEPT ![i] = "announced"]
      => Links!Next
    BY DEF Links!Next, Links!Announce, Welcoming, Linked
<1>5. UNCHANGED Welcoming /\ Linked' = [Linked EXCEPT ![i] = "none"] => Links!Next
    BY DEF Links!Next, Links!Close, Welcoming, Linked
<1> QED BY <1>1, <1>2, <1>3, <1>4, <1>5

(* A task that ends takes the entry with it, if it is still its own. *)
LEMMA FinishedLink ==
    ASSUME TypeOK, AnnouncedIsLinked, NEW i \in Device, NEW s \in Socket, finish_connection(i, s)
    PROVE  AnnouncedIsLinked' /\ (Links!Next \/ UNCHANGED <<Welcoming, Linked>>)
<1> HIDE DEF Device
<1>1. UNCHANGED Welcoming
    BY DEF finish_connection, Welcoming
<1>2. CASE registry[i] = s
    <2>1. registry' = [registry EXCEPT ![i] = None] /\ announced' = [announced EXCEPT ![i] = FALSE]
        BY <1>2 DEF finish_connection
    <2>2. Linked' = [Linked EXCEPT ![i] = "none"]
        BY <2>1 DEF Linked, Standing, TypeOK
    <2>3. AnnouncedIsLinked'
        BY <2>1 DEF AnnouncedIsLinked, TypeOK
    <2> QED BY <1>1, <2>2, <2>3, MeetingMoves
<1>3. CASE registry[i] # s
    <2>1. registry' = registry
        BY <1>3 DEF finish_connection, TypeOK
    <2>2. announced' = announced
        <3>1. \A j \in Device : announced'[j] = announced[j]
            BY <1>3 DEF finish_connection, TypeOK, AnnouncedIsLinked
        <3>2. announced' = [announced EXCEPT ![i] = announced'[i]]
            BY DEF finish_connection, TypeOK
        <3> QED BY <3>1, <3>2 DEF TypeOK
    <2> QED BY <1>1, <2>1, <2>2 DEF Linked, Standing, AnnouncedIsLinked
<1> QED BY <1>2, <1>3

LEMMA MeetingLinksStep ==
    TypeOK /\ AnnouncedIsLinked /\ [Next]_vars
        => AnnouncedIsLinked' /\ [Links!Next]_(Links!vars)
<1> SUFFICES ASSUME TypeOK, AnnouncedIsLinked, [Next]_vars
             PROVE  AnnouncedIsLinked' /\ (Links!Next \/ UNCHANGED <<Welcoming, Linked>>)
    BY DEF Links!vars, Welcoming, Linked
<1>1. ASSUME UNCHANGED <<welcome, registry, announced>>
      PROVE  AnnouncedIsLinked' /\ UNCHANGED <<Welcoming, Linked>>
    BY <1>1 DEF AnnouncedIsLinked, Welcoming, Linked, Standing
<1>2. ASSUME NEW i \in Device, Grant(i) PROVE AnnouncedIsLinked' /\ Links!Next
    <2> HIDE DEF Device
    <2>1. Welcoming' = Welcoming \cup {i}
        BY <1>2 DEF Grant, Welcoming, TypeOK
    <2>2. UNCHANGED Linked /\ AnnouncedIsLinked'
        BY <1>2 DEF Grant, Linked, Standing, AnnouncedIsLinked
    <2> QED BY <2>1, <2>2, MeetingMoves
<1>3. ASSUME NEW i \in Device, Withdraw(i) PROVE AnnouncedIsLinked' /\ Links!Next
    <2> HIDE DEF Device
    <2>1. Welcoming' = Welcoming \ {i}
        BY <1>3 DEF Withdraw, Welcoming, TypeOK
    <2>2. Linked' = [j \in Device |-> IF j \in {i} THEN "none" ELSE Linked[j]]
        BY <1>3 DEF Withdraw, Linked, Standing, TypeOK
    <2>3. AnnouncedIsLinked'
        BY <1>3 DEF Withdraw, AnnouncedIsLinked, TypeOK
    <2> QED BY <2>1, <2>2, <2>3, MeetingMoves
<1>4. ASSUME NEW i \in Device, NEW s \in Socket, Register(i, s)
      PROVE  AnnouncedIsLinked' /\ Links!Next
    <2> HIDE DEF Device
    <2>1. i \in Welcoming /\ UNCHANGED Welcoming
        BY <1>4 DEF Register, Accepts, Welcoming
    <2>2. registry' = [registry EXCEPT ![i] = s] /\ announced' = announced /\ s # None
        BY <1>4, NoneAssumption DEF Register
    <2>3. Linked' = [Linked EXCEPT ![i] = IF @ = "announced" THEN "announced" ELSE "registered"]
        BY <2>2 DEF Linked, Standing, AnnouncedIsLinked, TypeOK
    <2>4. AnnouncedIsLinked'
        BY <2>2 DEF AnnouncedIsLinked, TypeOK
    <2> QED BY <2>1, <2>3, <2>4, MeetingMoves
<1>5. ASSUME NEW i \in Device, NEW s \in Socket, try_announce(i, s)
      PROVE  AnnouncedIsLinked' /\ (Links!Next \/ UNCHANGED <<Welcoming, Linked>>)
    <2> HIDE DEF Device
    <2>1. CASE finish_connection(i, s)
        BY <2>1, FinishedLink
    <2>2. CASE /\ registry[i] = s
               /\ announced' = [announced EXCEPT ![i] = TRUE]
               /\ UNCHANGED <<welcome, registry>>
        <3>1. registry[i] # None
            BY <2>2, NoneAssumption
        <3>2. Linked[i] # "none" /\ Linked' = [Linked EXCEPT ![i] = "announced"]
            BY <2>2, <3>1 DEF Linked, Standing, TypeOK
        <3>3. UNCHANGED Welcoming /\ AnnouncedIsLinked'
            BY <2>2, <3>1 DEF Welcoming, AnnouncedIsLinked, TypeOK
        <3> QED BY <3>2, <3>3, MeetingMoves
    <2> QED BY <1>5, <2>1, <2>2 DEF try_announce
<1>6. ASSUME NEW i \in Device, NEW silent \in BOOLEAN, force_close(i) \/ Crash(i, silent)
      PROVE  AnnouncedIsLinked' /\ Links!Next
    <2> HIDE DEF Device
    <2>1. /\ registry' = [registry EXCEPT ![i] = None]
          /\ announced' = [announced EXCEPT ![i] = FALSE]
          /\ welcome' = welcome
        BY <1>6 DEF force_close, Crash
    <2>2. UNCHANGED Welcoming /\ Linked' = [Linked EXCEPT ![i] = "none"]
        BY <2>1 DEF Welcoming, Linked, Standing, TypeOK
    <2>3. AnnouncedIsLinked'
        BY <2>1 DEF AnnouncedIsLinked, TypeOK
    <2> QED BY <2>2, <2>3, MeetingMoves
<1>7. ASSUME NEW i \in Device, NEW s \in Socket, pump_ends(i, s)
      PROVE  AnnouncedIsLinked' /\ (Links!Next \/ UNCHANGED <<Welcoming, Linked>>)
    BY <1>7, FinishedLink DEF pump_ends
<1>8. ASSUME NEW i \in Device, NEW s \in Socket,
             answer_hello(i, s) \/ Refuse(i, s) \/ await_hello_fails(i, s) \/ HelloTimeout(i, s)
      PROVE  UNCHANGED <<welcome, registry, announced>>
    BY <1>8 DEF answer_hello, Refuse, await_hello_fails, HelloTimeout, Fail
<1>9. ASSUME NEW s \in Socket, Dial(s) \/ Silence(s)
      PROVE  UNCHANGED <<welcome, registry, announced>>
    BY <1>9 DEF Dial, Silence
<1>10. ASSUME \/ \E r \in Other : JoinOrLeaveOther(r)
              \/ \E i \in Device : Restart(i)
              \/ peer_discovered \/ Lost \/ Flap \/ GiveUp \/ remove_dialer_entry
              \/ UNCHANGED vars
       PROVE  UNCHANGED <<welcome, registry, announced>>
    BY <1>10
    DEF JoinOrLeaveOther, Restart, peer_discovered, Lost, Flap, peer_lost, GiveUp,
        remove_dialer_entry, vars
<1> QED
    BY <1>1, <1>2, <1>3, <1>4, <1>5, <1>6, <1>7, <1>8, <1>9, <1>10
    DEF Next, User, DialStep, ConnectionStep, Faults

(* Each end of the meeting keeps the promise of PeerLinks, for any rooms,
   sockets and number of faults: a link is opened only to a peer that is
   accepted, goes with the welcome in one step, and a connection that takes over
   keeps what the app was told. *)
THEOREM BothEndsImplement == Spec => ImplementsPeerLinks
<1>1. Init => Links!Init /\ AnnouncedIsLinked
    <2> HIDE DEF Device
    <2> SUFFICES ASSUME Init
                 PROVE  /\ Welcoming \in SUBSET Device /\ Linked = [i \in Device |-> "none"]
                        /\ AnnouncedIsLinked
        BY DEF Links!Init, Welcoming, Linked
    <2> QED BY DEF Init, Welcoming, Linked, Standing, AnnouncedIsLinked
<1> QED
    BY <1>1, MeetingLinksStep, MeetingTypeCorrect, PTL
    DEF Spec, ImplementsPeerLinks, Links!Spec

=============================================================================
