------------------------- MODULE SyncManagerProofs -------------------------
(***************************************************************************)
(* Proofs about SyncManager, for every set of peers, rooms, tasks and      *)
(* documents.                                                              *)
(***************************************************************************)
EXTENDS SyncManager, TLAPS

USE DEF Scope, Key, PeerOf, ScopeOf, Pumping, Running, ConnPhase, DialPhase

(* What RegistryIsLive needs to be inductive, and TypeOK with it. *)
Wiring ==
    /\ RegistryIsLive
    /\ \A c \in Conn : phase[c] = "fetched" => remover[c] = "none"
    /\ \A c \in Conn : victim[c] # None => phase[c] = "displace"

(* The initial state is well typed. *)
LEMMA InitTypeOK == Init => TypeOK /\ Wiring
BY NoneAssumption, ConfiguredAssumption DEF Init, TypeOK, Wiring, RegistryIsLive

(* Taking the entries of some pairs out of the registry. *)
LEMMA TakeConnectionsType ==
    ASSUME TypeOK, Wiring, NEW keys \in SUBSET Key, TakeConnections(keys)
    PROVE  /\ registry' \in [Key -> Conn \cup {None}]
           /\ announced' \in [Key -> BOOLEAN]
           /\ remover' \in [Conn -> {"none", "app", "fan"}]
           /\ owed' \in [Conn -> BOOLEAN]
           /\ \A c \in Conn : phase'[c] # "off" \/ remover'[c] # "none" => ckey'[c] \in Key
           /\ UNCHANGED <<phase, ckey, owner, doc, hung, victim>>
<1> DEFINE taken == Taken(keys)
<1>1. \A c \in taken : c \in Conn /\ ckey[c] \in Key /\ phase[c] \in Running
  BY NoneAssumption DEF TypeOK, Wiring, RegistryIsLive, Taken
<1>2. /\ registry' = [k \in Key |-> IF k \in keys THEN None ELSE registry[k]]
      /\ remover' = [c \in Conn |-> IF c \in taken THEN "app" ELSE remover[c]]
      /\ owed' = [c \in Conn |-> IF c \in taken THEN announced[ckey[c]] ELSE owed[c]]
      /\ announced' = [k \in Key |-> IF k \in keys THEN FALSE ELSE announced[k]]
      /\ UNCHANGED <<phase, ckey, owner, doc, hung, victim>>
  BY DEF TakeConnections
<1> HIDE DEF taken
<1>3. registry' \in [Key -> Conn \cup {None}]
  BY <1>2 DEF TypeOK
<1>4. announced' \in [Key -> BOOLEAN]
  BY <1>2 DEF TypeOK
<1>5. remover' \in [Conn -> {"none", "app", "fan"}]
  BY <1>2 DEF TypeOK
<1>6. owed' \in [Conn -> BOOLEAN]
  BY <1>1, <1>2 DEF TypeOK
<1>7. \A c \in Conn : phase'[c] # "off" \/ remover'[c] # "none" => ckey'[c] \in Key
  BY <1>1, <1>2 DEF TypeOK
<1> QED BY <1>2, <1>3, <1>4, <1>5, <1>6, <1>7

LEMMA TakeDialersType ==
    ASSUME TypeOK, NEW keys \in SUBSET Key, TakeDialers(keys)
    PROVE  /\ dialers' \in [Key -> Dialer \cup {None}]
           /\ cancels' \in SUBSET Dialer
           /\ UNCHANGED <<dphase, dkey, cancelled>>
BY DEF TypeOK, TakeDialers

LEMMA SpawnType ==
    ASSUME TypeOK, NEW k \in Key, maybe_spawn_dialer(k)
    PROVE  /\ dialers' \in [Key -> Dialer \cup {None}]
           /\ dphase' \in [Dialer -> DialPhase]
           /\ dkey' \in [Dialer -> Key \cup {None}]
           /\ \A d \in Dialer : dphase'[d] # "off" => dkey'[d] \in Key
           /\ cancelled' \in [Dialer -> BOOLEAN]
<1>1. CASE ~ShouldDial(k)
  BY <1>1 DEF TypeOK, maybe_spawn_dialer, dialVars
<1>2. CASE ShouldDial(k)
  <2>1. PICK d \in Dialer :
           /\ dialers' = [dialers EXCEPT ![k] = d]
           /\ dphase' = [dphase EXCEPT ![d] = "wait"]
           /\ dkey' = [dkey EXCEPT ![d] = k]
           /\ cancelled' = [cancelled EXCEPT ![d] = FALSE]
    BY <1>2 DEF maybe_spawn_dialer
  <2> QED BY <2>1 DEF TypeOK
<1> QED BY <1>1, <1>2

LEMMA TypeApp == TypeOK /\ Wiring /\ App => TypeOK'
<1> SUFFICES ASSUME TypeOK, Wiring, App PROVE TypeOK'
  OBVIOUS
<1>1. ASSUME NEW p \in Peer, NEW trusted \in BOOLEAN, set_trusted(p, trusted) PROVE TypeOK'
  <2>1. {<<p, Devices>>} \in SUBSET Key
    OBVIOUS
  <2>2. CASE trusted
    <3>1. spawns' \subseteq Key
      BY <1>1, <2>2 DEF set_trusted
    <3>2. listed' \subseteq Peer
      BY <1>1 DEF set_trusted, TypeOK
    <3> QED BY <1>1, <2>2, <3>1, <3>2 DEF TypeOK, set_trusted, connVars, dialVars
  <2>3. CASE ~trusted
    BY <1>1, <2>1, <2>3, TakeConnectionsType, TakeDialersType DEF TypeOK, set_trusted
  <2> QED BY <2>2, <2>3
<1>2. ASSUME NEW r \in Room, join_room(r) PROVE TypeOK'
  <2>1. PICK x \in Doc : docs' = [docs EXCEPT ![r] = x]
    BY <1>2 DEF join_room
  <2>2. docs' \in [Scope -> Doc \cup {None}]
    BY <2>1 DEF TypeOK
  <2>3. joined' \subseteq Room /\ spawns' \subseteq Key
    BY <1>2 DEF join_room, TypeOK
  <2> QED BY <1>2, <2>2, <2>3 DEF join_room, TypeOK, connVars, dialVars
<1>3. ASSUME NEW r \in Room, leave_room(r) PROVE TypeOK'
  <2>1. {k \in Key : ScopeOf(k) = r} \in SUBSET Key
    OBVIOUS
  <2> QED BY <1>3, <2>1, TakeConnectionsType, TakeDialersType DEF TypeOK, leave_room
<1>4. ASSUME NEW p \in Peer, NEW rooms \in SUBSET Room, peer_discovered(p, rooms) PROVE TypeOK'
  <2>1. spawns' \subseteq Key
    BY <1>4 DEF peer_discovered, TypeOK
  <2> QED BY <1>4, <2>1 DEF peer_discovered, TypeOK, connVars, dialVars
<1>5. ASSUME NEW p \in Peer, peer_lost(p) PROVE TypeOK'
  <2>1. {k \in Key : PeerOf(k) = p} \in SUBSET Key
    OBVIOUS
  <2> QED BY <1>5, <2>1, TakeDialersType DEF TypeOK, peer_lost, connVars
<1> QED BY <1>1, <1>2, <1>3, <1>4, <1>5 DEF App


LEMMA TypeConnection ==
    ASSUME TypeOK, Wiring, NEW c \in Conn,
           \/ \E k \in Inbound : handle_inbound(c, k)
           \/ FirstFrame(c) \/ PumpEnds(c) \/ force_close(c) \/ ConnectionStep(c)
    PROVE  TypeOK'
<1>1. ASSUME NEW k \in Inbound, handle_inbound(c, k) PROVE TypeOK'
  <2>1. k \in Key
    BY InboundAssumption
  <2> QED
    BY <1>1, <2>1 DEF handle_inbound, BeginConnection, FreeConn, TypeOK, stateVars, dialVars, appVars
<1>2. ASSUME FirstFrame(c) PROVE TypeOK'
  BY <1>2 DEF FirstFrame, Advance, TypeOK, stateVars, dialVars, appVars
<1>3. ASSUME PumpEnds(c) PROVE TypeOK'
  BY <1>3 DEF PumpEnds, TypeOK, stateVars, dialVars, appVars
<1>4. ASSUME force_close(c) PROVE TypeOK'
  BY <1>4 DEF force_close, StillMine, TypeOK, stateVars, dialVars, appVars
<1>5. ASSUME Register(c) PROVE TypeOK'
  <2>1. ckey[c] \in Key
    BY <1>5 DEF Register, TypeOK
  <2>2. dialers' \in [Key -> Dialer \cup {None}] /\ cancelled' \in [Dialer -> BOOLEAN]
    BY <1>5, <2>1 DEF Register, Redundant, TypeOK
  <2>3. announced' \in [Key -> BOOLEAN]
    BY <1>5, <2>1 DEF Register, Carried, TypeOK
  <2>4. /\ phase' \in [Conn -> ConnPhase]
        /\ victim' \in [Conn -> Conn \cup {None}]
        /\ \A o \in Conn : phase'[o] = "displace" => victim'[o] \in Conn
    BY <1>5, <2>1, NoneAssumption DEF Register, TypeOK
  <2>5. /\ registry' \in [Key -> Conn \cup {None}]
        /\ \A o \in Conn : phase'[o] # "off" \/ remover'[o] # "none" => ckey'[o] \in Key
    BY <1>5, <2>1 DEF Register, TypeOK
  <2> QED
    BY <1>5, <2>2, <2>3, <2>4, <2>5 DEF Register, TypeOK, stateVars, appVars
<1>6. ASSUME Refuse(c) PROVE TypeOK'
  BY <1>6 DEF Refuse, ForgetKey, TypeOK, stateVars, dialVars, appVars
<1>7. ASSUME HangUpDisplaced(c) PROVE TypeOK'
  BY <1>7 DEF HangUpDisplaced, HangUp, TypeOK, stateVars, dialVars, appVars
<1>8. ASSUME SendStep1(c) PROVE TypeOK'
  BY <1>8 DEF SendStep1, Advance, TypeOK, stateVars, dialVars, appVars
<1>9. ASSUME try_announce(c) PROVE TypeOK'
  <2>1. ckey[c] \in Key
    BY <1>9 DEF try_announce, TypeOK
  <2>2. CASE StillMine(c)
    <3>1. sessions' \in [Key -> Int]
      BY <1>9, <2>1, <2>2 DEF try_announce, EmitConnected, TypeOK
    <3> QED
      BY <1>9, <2>1, <2>2, <3>1 DEF try_announce, TypeOK, stateVars, dialVars, appVars
  <2>3. CASE ~StillMine(c)
    BY <1>9, <2>3 DEF try_announce, TypeOK, stateVars, dialVars, appVars
  <2> QED BY <2>2, <2>3
<1>10. ASSUME finish_connection(c) PROVE TypeOK'
  BY <1>10 DEF finish_connection, TypeOK, stateVars, dialVars, appVars
<1>11. ASSUME SayDisconnected(c) PROVE TypeOK'
  BY <1>11 DEF SayDisconnected, EmitDisconnected, TypeOK, stateVars, dialVars, appVars
<1>12. ASSUME Redial(c) PROVE TypeOK'
  <2>1. ckey[c] \in Key
    BY <1>12 DEF Redial, TypeOK
  <2> QED BY <1>12, <2>1, SpawnType DEF Redial, ForgetKey, TypeOK, stateVars, appVars
<1>13. ASSUME drop_connection(c, "fan") PROVE TypeOK'
  BY <1>13 DEF drop_connection, EmitDisconnected, HangUp, TypeOK, stateVars, dialVars, appVars
<1> QED
  BY <1>1, <1>2, <1>3, <1>4, <1>5, <1>6, <1>7, <1>8, <1>9, <1>10, <1>11, <1>12, <1>13
  DEF ConnectionStep

-----------------------------------------------------------------------------
(* Removing the entries of some pairs leaves the remaining ones live: a task
   taken out of the registry was registered under one pair only. *)
LEMMA TakeConnectionsWiring ==
    ASSUME TypeOK, Wiring, NEW keys \in SUBSET Key, TakeConnections(keys)
    PROVE  Wiring'
<1> DEFINE taken == Taken(keys)
<1>1. \A c \in taken : c \in Conn /\ ckey[c] \in keys /\ phase[c] \in Running
  BY NoneAssumption DEF TypeOK, Wiring, RegistryIsLive, Taken
<1>2. /\ registry' = [k \in Key |-> IF k \in keys THEN None ELSE registry[k]]
      /\ remover' = [c \in Conn |-> IF c \in taken THEN "app" ELSE remover[c]]
      /\ announced' = [k \in Key |-> IF k \in keys THEN FALSE ELSE announced[k]]
      /\ UNCHANGED <<phase, ckey, victim>>
  BY DEF TakeConnections
<1> HIDE DEF taken
<1>3. ASSUME NEW k \in Key, registry'[k] # None
      PROVE  /\ phase'[registry'[k]] \in Running
             /\ ckey'[registry'[k]] = k
             /\ remover'[registry'[k]] = "none"
  <2>1. k \notin keys /\ registry'[k] = registry[k] /\ registry[k] \in Conn
    BY <1>2, <1>3 DEF TypeOK
  <2>2. ckey[registry[k]] = k /\ phase[registry[k]] \in Running /\ remover[registry[k]] = "none"
    BY <2>1, NoneAssumption DEF Wiring, RegistryIsLive
  <2>3. registry[k] \notin taken
    BY <1>1, <2>1, <2>2
  <2> QED BY <1>2, <2>1, <2>2, <2>3
<1>4. \A k \in Key : announced'[k] => registry'[k] # None
  BY <1>2 DEF Wiring, RegistryIsLive
<1>5. \A c \in Conn : phase'[c] = "fetched" => remover'[c] = "none"
  BY <1>1, <1>2 DEF Wiring
<1>6. \A c \in Conn : victim'[c] # None => phase'[c] = "displace"
  BY <1>2 DEF Wiring
<1> QED BY <1>3, <1>4, <1>5, <1>6 DEF Wiring, RegistryIsLive

(* A connection that is being dropped is not registered. *)
LEMMA WiringDrop ==
    ASSUME TypeOK, Wiring, NEW c \in Conn, NEW by \in {"app", "fan"}, drop_connection(c, by)
    PROVE  Wiring'
<1>1. \A k \in Key : registry[k] # c
  BY NoneAssumption DEF drop_connection, Wiring, RegistryIsLive
<1> QED
  BY <1>1 DEF drop_connection, Wiring, RegistryIsLive, TypeOK

LEMMA WiringConnection ==
    ASSUME TypeOK, Wiring, NEW c \in Conn,
           \/ \E k \in Inbound : handle_inbound(c, k)
           \/ FirstFrame(c) \/ PumpEnds(c) \/ force_close(c) \/ ConnectionStep(c)
    PROVE  Wiring'
<1>1. ASSUME NEW k \in Key, NEW d, BeginConnection(c, k, d) PROVE Wiring'
  BY <1>1, NoneAssumption DEF BeginConnection, FreeConn, Wiring, RegistryIsLive, TypeOK
<1>2. ASSUME NEW from \in SUBSET Running, NEW to \in Running \ {"displace"}, Advance(c, from, to)
      PROVE  "displace" \notin from => Wiring'
  BY <1>2 DEF Advance, Wiring, RegistryIsLive, TypeOK
<1>3. ASSUME PumpEnds(c) PROVE Wiring'
  BY <1>3 DEF PumpEnds, Wiring, RegistryIsLive, TypeOK
<1>4. ASSUME force_close(c) PROVE Wiring'
  BY <1>4, NoneAssumption DEF force_close, StillMine, Wiring, RegistryIsLive, TypeOK
<1>5. ASSUME Register(c) PROVE Wiring'
  <2>1. ckey[c] \in Key /\ phase[c] = "fetched" /\ remover[c] = "none"
    BY <1>5 DEF Register, Wiring, TypeOK
  <2>2. \A k \in Key : registry[k] # c
    BY <2>1, NoneAssumption DEF Wiring, RegistryIsLive
  <2>3. /\ registry' = [registry EXCEPT ![ckey[c]] = c]
        /\ announced' = [announced EXCEPT ![ckey[c]] = Carried(ckey[c])]
        /\ phase' = [phase EXCEPT ![c] = IF registry[ckey[c]] = None THEN "step1" ELSE "displace"]
        /\ victim' = [victim EXCEPT ![c] = registry[ckey[c]]]
        /\ UNCHANGED <<ckey, remover>>
    BY <1>5 DEF Register
  <2>4. RegistryIsLive'
    BY <2>1, <2>2, <2>3, NoneAssumption DEF Wiring, RegistryIsLive, TypeOK
  <2>5. /\ \A o \in Conn : phase'[o] = "fetched" => remover'[o] = "none"
        /\ \A o \in Conn : victim'[o] # None => phase'[o] = "displace"
    BY <2>1, <2>3 DEF Wiring, TypeOK
  <2> QED BY <2>4, <2>5 DEF Wiring
<1>6. ASSUME Refuse(c) PROVE Wiring'
  BY <1>6 DEF Refuse, ForgetKey, Wiring, RegistryIsLive, TypeOK
<1>7. ASSUME HangUpDisplaced(c) PROVE Wiring'
  BY <1>7 DEF HangUpDisplaced, Wiring, RegistryIsLive, TypeOK
<1>8. ASSUME try_announce(c) PROVE Wiring'
  <2>1. CASE StillMine(c)
    BY <1>8, <2>1, NoneAssumption DEF try_announce, StillMine, Wiring, RegistryIsLive, TypeOK
  <2>2. CASE ~StillMine(c)
    BY <1>8, <2>2 DEF try_announce, Wiring, RegistryIsLive, TypeOK
  <2> QED BY <2>1, <2>2
<1>9. ASSUME finish_connection(c) PROVE Wiring'
  <2>1. ckey[c] \in Key
    BY <1>9 DEF finish_connection, TypeOK
  <2>2. \A k \in Key : registry'[k] # c
    BY <1>9, <2>1, NoneAssumption DEF finish_connection, StillMine, Wiring, RegistryIsLive, TypeOK
  <2>3. \A k \in Key : registry'[k] = registry[k] \/ (registry'[k] = None /\ ~announced'[k])
    BY <1>9, <2>1 DEF finish_connection, StillMine, TypeOK
  <2>4. /\ \A o \in Conn \ {c} : phase'[o] = phase[o]
        /\ phase'[c] \in {"bye", "redial"}
        /\ UNCHANGED <<ckey, remover, victim>>
        /\ \A k \in Key : announced'[k] => announced[k]
    BY <1>9 DEF finish_connection, TypeOK
  <2>5. RegistryIsLive'
    BY <2>2, <2>3, <2>4 DEF Wiring, RegistryIsLive, TypeOK
  <2> QED BY <1>9, <2>4, <2>5 DEF finish_connection, Wiring
<1>10. ASSUME SayDisconnected(c) PROVE Wiring'
  BY <1>10 DEF SayDisconnected, Wiring, RegistryIsLive, TypeOK
<1>11. ASSUME Redial(c) PROVE Wiring'
  BY <1>11 DEF Redial, ForgetKey, Wiring, RegistryIsLive, TypeOK
<1>12. ASSUME drop_connection(c, "fan") PROVE Wiring'
  BY <1>12, WiringDrop
<1>13. ASSUME NEW k \in Inbound, handle_inbound(c, k) PROVE Wiring'
  BY <1>1, <1>13, InboundAssumption DEF handle_inbound
<1>14. ASSUME FirstFrame(c) \/ SendStep1(c) PROVE Wiring'
  BY <1>2, <1>14 DEF FirstFrame, SendStep1
<1> QED
  BY <1>3, <1>4, <1>5, <1>6, <1>7, <1>8, <1>9, <1>10, <1>11, <1>12, <1>13, <1>14
  DEF ConnectionStep

(* The inductive invariant. *)
LEMMA WiringStep == TypeOK /\ Wiring /\ [Next]_vars => TypeOK' /\ Wiring'
<1>WiringApp. TypeOK /\ Wiring /\ App => Wiring'
  <2> SUFFICES ASSUME TypeOK, Wiring, App PROVE Wiring'
    OBVIOUS
  <2>1. ASSUME NEW p \in Peer, NEW trusted \in BOOLEAN, set_trusted(p, trusted) PROVE Wiring'
    <3>1. CASE trusted
      BY <2>1, <3>1 DEF set_trusted, Wiring, RegistryIsLive, connVars
    <3>2. CASE ~trusted
      BY <2>1, <3>2, TakeConnectionsWiring, {<<p, Devices>>} \in SUBSET Key DEF set_trusted
    <3> QED BY <3>1, <3>2
  <2>2. ASSUME NEW r \in Room, join_room(r) PROVE Wiring'
    BY <2>2 DEF join_room, Wiring, RegistryIsLive, connVars
  <2>3. ASSUME NEW r \in Room, leave_room(r) PROVE Wiring'
    <3>1. {k \in Key : ScopeOf(k) = r} \in SUBSET Key
      OBVIOUS
    <3> QED BY <2>3, <3>1, TakeConnectionsWiring DEF leave_room
  <2>4. ASSUME NEW p \in Peer, NEW rooms \in SUBSET Room, peer_discovered(p, rooms) PROVE Wiring'
    BY <2>4 DEF peer_discovered, Wiring, RegistryIsLive, connVars
  <2>5. ASSUME NEW p \in Peer, peer_lost(p) PROVE Wiring'
    BY <2>5 DEF peer_lost, Wiring, RegistryIsLive, connVars
  <2> QED BY <2>1, <2>2, <2>3, <2>4, <2>5 DEF App
<1>WiringDialer. ASSUME TypeOK, Wiring, NEW d \in Dialer, DialStep(d) \/ DialOutcome(d)
                 PROVE  Wiring'
  <2> USE <1>WiringDialer
  <2>1. ASSUME NEW c \in Conn, NEW p \in Peer, DialSucceeds(d, c, p) PROVE Wiring'
    BY <2>1, NoneAssumption DEF DialSucceeds, BeginConnection, FreeConn, Wiring, RegistryIsLive, TypeOK
  <2>2. ASSUME NEW c \in Conn, DialResumes(d, c) PROVE Wiring'
    BY <2>2 DEF DialResumes, Wiring, RegistryIsLive
  <2>3. ASSUME ~ \E c \in Conn, p \in Peer : DialSucceeds(d, c, p),
               ~ \E c \in Conn : DialResumes(d, c)
        PROVE  UNCHANGED <<registry, announced, connVars>>
    BY <2>3 DEF DialStep, DialOutcome, DialCancelled, dial_target, remove_dialer_entry, DialFails,
                DialAdvance, DialEnds
  <2>4. UNCHANGED <<registry, announced, connVars>> => Wiring'
    BY DEF Wiring, RegistryIsLive, connVars
  <2> QED BY <2>1, <2>2, <2>3, <2>4
<1>WiringAppFinish. TypeOK /\ Wiring /\ AppFinish => Wiring'
  <2> SUFFICES ASSUME TypeOK, Wiring, AppFinish PROVE Wiring'
    OBVIOUS
  <2>1. ASSUME NEW d \in Dialer, CancelDialer(d) PROVE Wiring'
    BY <2>1 DEF CancelDialer, Wiring, RegistryIsLive, connVars
  <2>2. ASSUME NEW k \in Key, SpawnDialer(k) PROVE Wiring'
    BY <2>2 DEF SpawnDialer, Wiring, RegistryIsLive, connVars
  <2>3. CASE DropDoc
    BY <2>3 DEF DropDoc, Wiring, RegistryIsLive, connVars
  <2> QED BY <2>1, <2>2, <2>3, WiringDrop DEF AppFinish
<1>TypeDialer. ASSUME TypeOK, NEW d \in Dialer, DialStep(d) \/ DialOutcome(d)
               PROVE  TypeOK'
  <2> USE <1>TypeDialer
  <2>1. ASSUME NEW from \in DialPhase, from # "off", NEW to \in DialPhase, DialAdvance(d, from, to)
        PROVE  TypeOK'
    BY <2>1 DEF DialAdvance, TypeOK, stateVars, connVars, appVars
  <2>2. CASE DialCancelled(d)
    BY <2>2 DEF DialCancelled, DialEnds, TypeOK, stateVars, connVars, appVars
  <2>3. CASE dial_target(d)
    BY <2>1, <2>3 DEF dial_target
  <2>4. CASE remove_dialer_entry(d)
    BY <2>4 DEF remove_dialer_entry, DialEnds, StillDials, TypeOK, stateVars, connVars, appVars
  <2>5. ASSUME NEW c \in Conn, DialResumes(d, c) PROVE TypeOK'
    BY <2>5 DEF DialResumes, TypeOK, stateVars, appVars
  <2>6. CASE DialFails(d)
    BY <2>1, <2>6 DEF DialFails
  <2>7. ASSUME NEW c \in Conn, NEW p \in Peer, DialSucceeds(d, c, p) PROVE TypeOK'
    <3>1. <<p, ScopeOf(dkey[d])>> \in Key
      BY <2>7 DEF DialSucceeds, TypeOK
    <3> QED BY <2>7, <3>1 DEF DialSucceeds, BeginConnection, FreeConn, TypeOK, stateVars, appVars
  <2> QED BY <2>2, <2>3, <2>4, <2>5, <2>6, <2>7 DEF DialStep, DialOutcome
<1>TypeAppFinish. TypeOK /\ Wiring /\ AppFinish => TypeOK'
  <2> SUFFICES ASSUME TypeOK, Wiring, AppFinish PROVE TypeOK'
    OBVIOUS
  <2>1. ASSUME NEW d \in Dialer, CancelDialer(d) PROVE TypeOK'
    BY <2>1 DEF CancelDialer, TypeOK, stateVars, connVars
  <2>2. ASSUME NEW c \in Conn, drop_connection(c, "app") PROVE TypeOK'
    BY <2>2 DEF drop_connection, EmitDisconnected, HangUp, TypeOK, stateVars, dialVars, appVars
  <2>3. ASSUME NEW k \in Key, SpawnDialer(k) PROVE TypeOK'
    BY <2>3, SpawnType DEF SpawnDialer, TypeOK, stateVars, connVars
  <2>4. ASSUME DropDoc PROVE TypeOK'
    BY <2>4 DEF DropDoc, TypeOK, connVars, dialVars
  <2> QED BY <2>1, <2>2, <2>3, <2>4 DEF AppFinish
<1> SUFFICES ASSUME TypeOK, Wiring, [Next]_vars PROVE TypeOK' /\ Wiring'
  OBVIOUS
<1>1. CASE Next
  BY <1>1, TypeApp, <1>TypeAppFinish, TypeConnection, <1>TypeDialer,
     <1>WiringApp, <1>WiringAppFinish, WiringConnection, <1>WiringDialer DEF Next
<1>2. CASE UNCHANGED vars
  BY <1>2 DEF vars, stateVars, connVars, dialVars, appVars, TypeOK, Wiring, RegistryIsLive
<1> QED BY <1>1, <1>2

(* Every state of the registry is well typed, and its entries point at
   running tasks: for any number of peers, rooms, sockets and dial loops. *)
THEOREM TypeCorrect == Spec => []TypeOK
<1>1. Spec => [](TypeOK /\ Wiring)
  BY InitTypeOK, WiringStep, PTL DEF Spec
<1> QED BY <1>1, PTL

(* A registry entry is backed by a running task of the same pair, which no
   one is about to drop: run_connection's and finish_connection's
   bookkeeping never leaves an entry behind. *)
THEOREM RegistryCorrect == Spec => []RegistryIsLive
<1>1. Spec => [](TypeOK /\ Wiring)
  BY InitTypeOK, WiringStep, PTL DEF Spec
<1>2. Wiring => RegistryIsLive
  BY DEF Wiring
<1> QED BY <1>1, <1>2, PTL

-----------------------------------------------------------------------------
(* The safety invariants, each inductive together with TypeOK and Wiring. *)
Sound == TypeOK /\ Wiring

LEMMA SpecSound == Spec => []Sound
BY InitTypeOK, WiringStep, PTL DEF Spec, Sound

(* The steps that decide who is accepted and who is registered; every other
   step leaves all of that alone. *)
RegistryStep ==
    \/ \E p \in Peer, trusted \in BOOLEAN : set_trusted(p, trusted)
    \/ \E r \in Room : join_room(r) \/ leave_room(r)
    \/ \E c \in Conn : Register(c) \/ try_announce(c) \/ finish_connection(c) \/ force_close(c)

LEMMA RegistryFootprint ==
    [Next]_vars => RegistryStep \/ UNCHANGED <<listed, joined, registry, announced>>
<1> USE DEF vars, stateVars, connVars, dialVars, appVars
<1>1. App => RegistryStep \/ UNCHANGED <<listed, joined, registry, announced>>
  BY DEF App, RegistryStep, peer_discovered, peer_lost
<1>2. AppFinish => UNCHANGED <<listed, joined, registry, announced>>
  BY DEF AppFinish, CancelDialer, drop_connection, SpawnDialer, DropDoc
<1>3. ASSUME NEW c \in Conn, ConnectionStep(c)
      PROVE  RegistryStep \/ UNCHANGED <<listed, joined, registry, announced>>
  BY <1>3 DEF ConnectionStep, RegistryStep, Refuse, HangUpDisplaced, SendStep1, Advance,
              SayDisconnected, Redial, drop_connection
<1>4. ASSUME NEW c \in Conn,
             (\E k \in Inbound : handle_inbound(c, k)) \/ FirstFrame(c) \/ PumpEnds(c)
      PROVE  UNCHANGED <<listed, joined, registry, announced>>
  BY <1>4 DEF handle_inbound, BeginConnection, FirstFrame, Advance, PumpEnds
<1>5. ASSUME NEW d \in Dialer, DialStep(d) \/ DialOutcome(d)
      PROVE  UNCHANGED <<listed, joined, registry, announced>>
  BY <1>5 DEF DialStep, DialOutcome, DialCancelled, dial_target, remove_dialer_entry, DialFails,
              DialAdvance, DialEnds, DialResumes, DialSucceeds, BeginConnection
<1> QED BY <1>1, <1>2, <1>3, <1>4, <1>5 DEF Next, RegistryStep

-----------------------------------------------------------------------------
(* Trust and membership decide acceptance, and both are kept by what changes
   them. *)
LEMMA AcceptedStep ==
    Sound /\ RegisteredIsAccepted /\ [Next]_vars => RegisteredIsAccepted'
<1> SUFFICES ASSUME Sound, RegisteredIsAccepted, [Next]_vars,
                    NEW k \in Key, registry'[k] # None
             PROVE  Accepts(k)'
  BY DEF RegisteredIsAccepted
<1> USE DEF Accepts, Trusted, RegisteredIsAccepted
<1>1. ASSUME NEW p \in Peer, NEW trusted \in BOOLEAN, set_trusted(p, trusted) PROVE Accepts(k)'
  <2>1. /\ listed' = IF trusted = RequirePairing THEN listed \cup {p} ELSE listed \ {p}
        /\ joined' = joined
    BY <1>1 DEF set_trusted
  <2>2. trusted \in BOOLEAN /\ RequirePairing \in BOOLEAN
    BY PairingAssumption
  <2>3. CASE trusted
    <3>1. registry' = registry
      BY <1>1, <2>3 DEF set_trusted
    <3>2. \A q \in Peer \ {p} : Trusted(q) => Trusted(q)'
      BY <2>1, <2>2
    <3>3. Trusted(p)'
      BY <2>1, <2>2, <2>3
    <3> QED BY <2>1, <3>1, <3>2, <3>3
  <2>4. CASE ~trusted
    <3>1. registry' = [q \in Key |-> IF q \in {<<p, Devices>>} THEN None ELSE registry[q]]
      BY <1>1, <2>4 DEF set_trusted, TakeConnections
    <3>2. k # <<p, Devices>> /\ registry[k] # None
      BY <3>1
    <3>3. \A q \in Peer \ {p} : Trusted(q) => Trusted(q)'
      BY <2>1, <2>2
    <3> QED BY <2>1, <3>2, <3>3
  <2> QED BY <2>3, <2>4
<1>2. ASSUME NEW r \in Room, join_room(r) PROVE Accepts(k)'
  BY <1>2 DEF join_room
<1>3. ASSUME NEW r \in Room, leave_room(r) PROVE Accepts(k)'
  BY <1>3 DEF leave_room, TakeConnections
<1>4. ASSUME NEW c \in Conn, Register(c) PROVE Accepts(k)'
  <2>1. Accepts(ckey[c]) /\ UNCHANGED <<listed, joined>>
    BY <1>4 DEF Register, MayRegister, stateVars
  <2>2. registry' = [registry EXCEPT ![ckey[c]] = c]
    BY <1>4 DEF Register
  <2>3. k = ckey[c] \/ registry'[k] = registry[k]
    BY <2>2 DEF Sound, TypeOK
  <2> QED BY <2>1, <2>3
<1>5. ASSUME NEW c \in Conn, try_announce(c) \/ finish_connection(c) \/ force_close(c)
      PROVE Accepts(k)'
  <2>1. UNCHANGED <<listed, joined>>
    BY <1>5 DEF try_announce, finish_connection, force_close, stateVars
  <2>2. registry'[k] = registry[k] \/ registry'[k] = None
    BY <1>5 DEF try_announce, finish_connection, force_close, Sound, TypeOK
  <2> QED BY <2>1, <2>2
<1>6. CASE UNCHANGED <<listed, joined, registry, announced>>
  BY <1>6
<1> QED BY <1>1, <1>2, <1>3, <1>4, <1>5, <1>6, RegistryFootprint DEF RegistryStep

(* No connection is registered with a peer that is not trusted or in a room
   that is not open, at any moment: the check of run_connection and the
   removals of set_trusted and leave_room are each one lock section. *)
THEOREM AcceptanceCorrect == Spec => []RegisteredIsAccepted
<1>1. Init => RegisteredIsAccepted
  BY DEF Init, RegisteredIsAccepted
<1>2. RegisteredIsAccepted /\ [Sound /\ Next]_vars => RegisteredIsAccepted'
  BY AcceptedStep DEF vars, stateVars, RegisteredIsAccepted, Accepts, Trusted
<1> QED BY <1>1, <1>2, AcceptedStep, SpecSound, PTL DEF Spec

-----------------------------------------------------------------------------
(* Connections that lost their entry keep someone about to hang them up. *)
Seen(c) == hung[c] \/ remover[c] # "none" \/ \E other \in Conn : victim[other] = c

LEMMA OrphanTaken ==
    ASSUME Sound, OrphanIsHungUp, NEW keys \in SUBSET Key, TakeConnections(keys)
    PROVE  OrphanIsHungUp'
<1> SUFFICES ASSUME NEW c \in Conn, phase'[c] \in Pumping, registry'[ckey'[c]] # c
             PROVE  Seen(c)'
  BY DEF OrphanIsHungUp, Seen
<1>1. /\ registry' = [k \in Key |-> IF k \in keys THEN None ELSE registry[k]]
      /\ remover' = [o \in Conn |-> IF o \in Taken(keys) THEN "app" ELSE remover[o]]
      /\ UNCHANGED <<phase, ckey, hung, victim>>
  BY DEF TakeConnections
<1>2. ckey[c] \in Key
  BY <1>1 DEF Sound, TypeOK
<1>3. CASE registry[ckey[c]] = c
  BY <1>1, <1>2, <1>3 DEF Taken, Seen
<1>4. CASE registry[ckey[c]] # c
  BY <1>1, <1>4 DEF Seen, OrphanIsHungUp
<1> QED BY <1>3, <1>4

LEMMA OrphanConnection ==
    ASSUME Sound, OrphanIsHungUp, NEW c \in Conn,
           \/ \E k \in Inbound : handle_inbound(c, k)
           \/ FirstFrame(c) \/ PumpEnds(c) \/ force_close(c) \/ ConnectionStep(c)
           \/ drop_connection(c, "app")
    PROVE  OrphanIsHungUp'
<1> SUFFICES ASSUME NEW o \in Conn, phase'[o] \in Pumping, registry'[ckey'[o]] # o
             PROVE  Seen(o)'
  BY DEF OrphanIsHungUp, Seen
<1> USE DEF Sound, Seen, OrphanIsHungUp
<1>1. ASSUME NEW k \in Inbound, handle_inbound(c, k) PROVE Seen(o)'
  BY <1>1 DEF handle_inbound, BeginConnection, TypeOK
<1>2. CASE FirstFrame(c) \/ SendStep1(c) \/ PumpEnds(c)
  BY <1>2 DEF FirstFrame, SendStep1, Advance, PumpEnds, TypeOK
<1>3. CASE force_close(c)
  <2>1. /\ ckey[c] \in Key /\ registry[ckey[c]] = c
        /\ registry' = [registry EXCEPT ![ckey[c]] = None]
        /\ remover' = [remover EXCEPT ![c] = "fan"]
        /\ UNCHANGED <<phase, ckey, hung, victim>>
    BY <1>3 DEF force_close, StillMine, TypeOK
  <2>2. o = c \/ registry[ckey[o]] # o
    BY <2>1, NoneAssumption DEF TypeOK
  <2> QED BY <2>1, <2>2 DEF TypeOK
<1>4. CASE Register(c)
  <2>1. ckey[c] \in Key /\ victim[c] = None /\ phase[c] = "fetched"
    BY <1>4 DEF Register, Wiring, TypeOK
  <2>2. /\ registry' = [registry EXCEPT ![ckey[c]] = c]
        /\ victim' = [victim EXCEPT ![c] = registry[ckey[c]]]
        /\ phase' = [phase EXCEPT ![c] = IF registry[ckey[c]] = None THEN "step1" ELSE "displace"]
        /\ UNCHANGED <<ckey, hung, remover>>
    BY <1>4 DEF Register
  <2>3. o # c /\ phase[o] \in Pumping
    BY <2>1, <2>2 DEF TypeOK
  <2>4. CASE registry[ckey[o]] = o
    BY <2>1, <2>2, <2>3, <2>4 DEF TypeOK
  <2>5. CASE registry[ckey[o]] # o
    <3>1. Seen(o)
      BY <2>3, <2>5
    <3> QED BY <2>1, <2>2, <3>1, NoneAssumption DEF TypeOK
  <2> QED BY <2>4, <2>5
<1>5. CASE Refuse(c)
  BY <1>5 DEF Refuse, ForgetKey, TypeOK
<1>6. CASE HangUpDisplaced(c)
  <2>1. /\ victim[c] \in Conn
        /\ hung' = [hung EXCEPT ![victim[c]] = phase[victim[c]] \in Pumping]
        /\ victim' = [victim EXCEPT ![c] = None]
        /\ phase' = [phase EXCEPT ![c] = "step1"]
        /\ phase[c] = "displace"
        /\ UNCHANGED <<registry, ckey, remover>>
    BY <1>6 DEF HangUpDisplaced, HangUp, TypeOK
  <2>2. phase[o] \in Pumping /\ Seen(o)
    BY <2>1 DEF TypeOK
  <2>3. CASE victim[c] = o
    BY <2>1, <2>2, <2>3 DEF TypeOK
  <2>4. CASE victim[c] # o
    BY <2>1, <2>2, <2>4 DEF TypeOK
  <2> QED BY <2>3, <2>4
<1>7. CASE try_announce(c)
  BY <1>7 DEF try_announce, TypeOK
<1>8. CASE finish_connection(c)
  <2>1. o # c /\ phase[o] \in Pumping
    BY <1>8 DEF finish_connection, TypeOK
  <2>2. registry[ckey[o]] # o
    BY <1>8, <2>1 DEF finish_connection, StillMine, TypeOK
  <2> QED BY <1>8, <2>1, <2>2 DEF finish_connection
<1>9. CASE SayDisconnected(c)
  BY <1>9 DEF SayDisconnected, TypeOK
<1>10. CASE Redial(c)
  BY <1>10 DEF Redial, ForgetKey, TypeOK
<1>11. ASSUME NEW by, drop_connection(c, by) PROVE Seen(o)'
  BY <1>11 DEF drop_connection, HangUp, TypeOK
<1> QED
  BY <1>1, <1>2, <1>3, <1>4, <1>5, <1>6, <1>7, <1>8, <1>9, <1>10, <1>11 DEF ConnectionStep

LEMMA OrphanStep == Sound /\ OrphanIsHungUp /\ [Next]_vars => OrphanIsHungUp'
<1> SUFFICES ASSUME Sound, OrphanIsHungUp, [Next]_vars PROVE OrphanIsHungUp'
  OBVIOUS
<1>1. UNCHANGED <<registry, phase, ckey, hung, remover, victim>> => OrphanIsHungUp'
  BY DEF OrphanIsHungUp
<1>2. CASE App
  <2>1. ASSUME NEW p \in Peer, NEW trusted \in BOOLEAN, set_trusted(p, trusted)
        PROVE  OrphanIsHungUp'
    BY <1>1, <2>1, OrphanTaken, {<<p, Devices>>} \in SUBSET Key DEF set_trusted, connVars
  <2>2. ASSUME NEW r \in Room, leave_room(r) PROVE OrphanIsHungUp'
    <3>1. {k \in Key : ScopeOf(k) = r} \in SUBSET Key
      OBVIOUS
    <3> QED BY <2>2, <3>1, OrphanTaken DEF leave_room
  <2>3. ASSUME NEW r \in Room, join_room(r) PROVE OrphanIsHungUp'
    BY <1>1, <2>3 DEF join_room, connVars
  <2>4. ASSUME NEW p \in Peer,
               peer_lost(p) \/ \E rooms \in SUBSET Room : peer_discovered(p, rooms)
        PROVE  OrphanIsHungUp'
    BY <1>1, <2>4 DEF peer_lost, peer_discovered, connVars
  <2> QED BY <1>2, <2>1, <2>2, <2>3, <2>4 DEF App
<1>3. CASE AppFinish
  BY <1>1, <1>3, OrphanConnection DEF AppFinish, CancelDialer, SpawnDialer, DropDoc, connVars
<1>4. ASSUME NEW d \in Dialer, DialStep(d) \/ DialOutcome(d) PROVE OrphanIsHungUp'
  <2>1. ASSUME NEW c \in Conn, NEW k, BeginConnection(c, k, d) PROVE OrphanIsHungUp'
    BY <2>1 DEF BeginConnection, OrphanIsHungUp, Sound, TypeOK
  <2>2. ASSUME NEW c \in Conn, DialResumes(d, c) PROVE OrphanIsHungUp'
    BY <1>1, <2>2 DEF DialResumes
  <2>3. ASSUME ~ \E c \in Conn, p \in Peer : DialSucceeds(d, c, p),
               ~ \E c \in Conn : DialResumes(d, c)
        PROVE  UNCHANGED <<registry, connVars>>
    BY <1>4, <2>3 DEF DialStep, DialOutcome, DialCancelled, dial_target, remove_dialer_entry,
                      DialFails, DialAdvance, DialEnds
  <2> QED BY <1>1, <2>1, <2>2, <2>3 DEF DialSucceeds, connVars
<1>5. CASE UNCHANGED vars
  BY <1>1, <1>5 DEF vars, connVars
<1> QED BY <1>2, <1>3, <1>4, <1>5, OrphanConnection DEF Next

(* A connection that distrust, a leave, a takeover or a full queue took out
   of the registry is hung up, or some task still has its handle in hand. *)
THEOREM OrphansCorrect == Spec => []OrphanIsHungUp
<1>1. Init => OrphanIsHungUp
  BY DEF Init, OrphanIsHungUp
<1> QED BY <1>1, OrphanStep, SpecSound, PTL DEF Spec

=============================================================================
