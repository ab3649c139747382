----------------------- MODULE SyncManagerDialProofs -----------------------
(***************************************************************************)
(* Proofs about the dial loops of SyncManager: the dialers map names the   *)
(* loops that run, no second loop dials a connected pair, and a trusted    *)
(* discovered peer is never left with nobody to dial it.                   *)
(***************************************************************************)
EXTENDS SyncManagerProofs

USE DEF Scope, Key, PeerOf, ScopeOf, Pumping, Running, ConnPhase, DialPhase

(* maybe_spawn_dialer either does nothing or starts the loop d. *)
Spawned(k, d) ==
    /\ ShouldDial(k)
    /\ FreeDialer(d)
    /\ dialers' = [dialers EXCEPT ![k] = d]
    /\ dphase' = [dphase EXCEPT ![d] = "wait"]
    /\ dkey' = [dkey EXCEPT ![d] = k]
    /\ cancelled' = [cancelled EXCEPT ![d] = FALSE]

LEMMA SpawnCases ==
    ASSUME NEW k \in Key, maybe_spawn_dialer(k)
    PROVE  (\E d \in Dialer : Spawned(k, d)) \/ (~ShouldDial(k) /\ UNCHANGED dialVars)
BY DEF maybe_spawn_dialer, Spawned

(* The steps that touch the dialers map or a loop. *)
DialTouch ==
    \/ \E keys \in SUBSET Key : AppIdle /\ TakeDialers(keys)
    \/ \E d \in Dialer : CancelDialer(d) \/ DialStep(d) \/ DialOutcome(d)
    \/ \E k \in Key : maybe_spawn_dialer(k) /\ UNCHANGED cancels
    \/ \E c \in Conn : Register(c)

-----------------------------------------------------------------------------
(* Every step that removes an entry signals its loop or leaves it to the
   app call that will. *)
Active(d) == dphase[d] # "off" /\ ~cancelled[d] /\ d \notin cancels

LEMMA DialerStep == Sound /\ DialerIsLive /\ [Next]_vars => DialerIsLive'
<1>DialFootprint. ASSUME Sound, [Next]_vars
                  PROVE  DialTouch \/ UNCHANGED <<dialVars, cancels>>
  <2> USE <1>DialFootprint
  <2>1. CASE App
    <3>1. ASSUME NEW p \in Peer, NEW trusted \in BOOLEAN, set_trusted(p, trusted)
          PROVE  DialTouch \/ UNCHANGED <<dialVars, cancels>>
      <4>1. CASE trusted
        BY <3>1, <4>1 DEF set_trusted
      <4>2. CASE ~trusted
        BY <3>1, <4>2, {<<p, Devices>>} \in SUBSET Key DEF set_trusted, DialTouch
      <4> QED BY <4>1, <4>2
    <3>2. ASSUME NEW r \in Room, leave_room(r) PROVE DialTouch
      <4>1. {k \in Key : ScopeOf(k) = r} \in SUBSET Key
        OBVIOUS
      <4> QED BY <3>2, <4>1 DEF leave_room, DialTouch
    <3>3. ASSUME NEW p \in Peer, peer_lost(p) PROVE DialTouch
      <4>1. {k \in Key : PeerOf(k) = p} \in SUBSET Key
        OBVIOUS
      <4> QED BY <3>3, <4>1 DEF peer_lost, DialTouch
    <3>4. ASSUME NEW r \in Room, join_room(r) PROVE UNCHANGED <<dialVars, cancels>>
      BY <3>4 DEF join_room
    <3>5. ASSUME NEW p \in Peer, NEW rooms \in SUBSET Room, peer_discovered(p, rooms)
          PROVE  UNCHANGED <<dialVars, cancels>>
      BY <3>5 DEF peer_discovered
    <3> QED BY <2>1, <3>1, <3>2, <3>3, <3>4, <3>5 DEF App
  <2>2. CASE AppFinish
    BY <2>2 DEF AppFinish, DialTouch, SpawnDialer, drop_connection, DropDoc, appVars
  <2>3. ASSUME NEW c \in Conn, ConnectionStep(c)
        PROVE  DialTouch \/ UNCHANGED <<dialVars, cancels>>
    <3>1. CASE Redial(c)
      <4>1. ckey[c] \in Key
        BY <3>1 DEF Redial, Sound, TypeOK
      <4> QED BY <3>1, <4>1 DEF Redial, DialTouch, appVars
    <3>2. CASE Register(c)
      BY <3>2 DEF DialTouch
    <3> QED
      BY <2>3, <3>1, <3>2 DEF ConnectionStep, Refuse, HangUpDisplaced, SendStep1, Advance,
         try_announce, finish_connection, SayDisconnected, drop_connection, appVars
  <2>4. ASSUME NEW c \in Conn,
               \/ \E k \in Inbound : handle_inbound(c, k)
               \/ FirstFrame(c) \/ PumpEnds(c) \/ force_close(c)
        PROVE  UNCHANGED <<dialVars, cancels>>
    BY <2>4 DEF handle_inbound, BeginConnection, FirstFrame, Advance, PumpEnds, force_close, appVars
  <2>5. ASSUME NEW d \in Dialer, DialStep(d) \/ DialOutcome(d) PROVE DialTouch
    BY <2>5 DEF DialTouch
  <2>6. CASE UNCHANGED vars
    BY <2>6 DEF vars, appVars
  <2> QED BY <2>1, <2>2, <2>3, <2>4, <2>5, <2>6 DEF Next
<1> SUFFICES ASSUME Sound, DialerIsLive, [Next]_vars PROVE DialerIsLive'
  OBVIOUS
<1>a. /\ \A k \in Key : dialers[k] # None => dkey[dialers[k]] = k
      /\ \A d \in Dialer : (\E k \in Key : dialers[k] = d) => Active(d)
      /\ \A d \in Dialer : Active(d) => \E k \in Key : dialers[k] = d
  BY DEF DialerIsLive, Active
<1>b. ASSUME \A k \in Key : dialers'[k] # None => dkey'[dialers'[k]] = k,
             \A d \in Dialer : (\E k \in Key : dialers'[k] = d) <=> Active(d)'
      PROVE  DialerIsLive'
  BY <1>b DEF DialerIsLive, Active
<1> USE DEF Active, Sound, TypeOK
<1>1. ASSUME NEW keys \in SUBSET Key, AppIdle, TakeDialers(keys) PROVE DialerIsLive'
  <2>1. /\ cancels' = {d \in Dialer : \E k \in keys : dialers[k] = d}
        /\ dialers' = [k \in Key |-> IF k \in keys THEN None ELSE dialers[k]]
        /\ cancels = {}
        /\ UNCHANGED <<dphase, dkey, cancelled>>
    BY <1>1 DEF TakeDialers, AppIdle
  <2>2. \A k \in Key : dialers'[k] # None => dkey'[dialers'[k]] = k
    BY <1>a, <2>1
  <2>3. ASSUME NEW d \in Dialer, NEW k \in Key, dialers'[k] = d PROVE Active(d)'
    <3>1. dialers[k] = d /\ k \notin keys
      BY <2>1, <2>3, NoneAssumption
    <3>2. d \notin cancels'
      BY <1>a, <2>1, <3>1, NoneAssumption
    <3> QED BY <1>a, <2>1, <3>1, <3>2
  <2>4. ASSUME NEW d \in Dialer, Active(d)' PROVE \E k \in Key : dialers'[k] = d
    BY <1>a, <2>1, <2>4
  <2> QED BY <2>2, <2>3, <2>4 DEF DialerIsLive
<1>2. ASSUME NEW d \in Dialer, CancelDialer(d) PROVE DialerIsLive'
  <2>1. /\ d \in cancels /\ cancels' = cancels \ {d}
        /\ cancelled' = [cancelled EXCEPT ![d] = dphase[d] # "off"]
        /\ UNCHANGED <<dialers, dphase, dkey>>
    BY <1>2 DEF CancelDialer
  <2>2. ~Active(d) /\ ~Active(d)'
    BY <2>1
  <2>3. \A o \in Dialer \ {d} : Active(o)' <=> Active(o)
    BY <2>1
  <2> QED BY <1>a, <2>1, <2>2, <2>3 DEF DialerIsLive
<1>3. ASSUME NEW k \in Key, maybe_spawn_dialer(k), UNCHANGED cancels PROVE DialerIsLive'
  <2>1. ASSUME NEW d \in Dialer, Spawned(k, d) PROVE DialerIsLive'
    <3>1. \A q \in Key : dialers[q] # d
      BY <1>a, <2>1 DEF Spawned, FreeDialer
    <3>2. dialers[k] = None
      BY <2>1 DEF Spawned, ShouldDial
    <3>3. \A q \in Key : dialers'[q] # None => dkey'[dialers'[q]] = q
      BY <1>a, <2>1, <3>1 DEF Spawned
    <3>4. Active(d)' /\ dialers'[k] = d
      BY <1>3, <2>1 DEF Spawned, FreeDialer
    <3>5. ASSUME NEW o \in Dialer \ {d}
          PROVE  /\ Active(o)' <=> Active(o)
                 /\ (\E q \in Key : dialers'[q] = o) <=> (\E q \in Key : dialers[q] = o)
      <4>1. Active(o)' <=> Active(o)
        BY <1>3, <2>1 DEF Spawned
      <4>2. \A q \in Key : dialers'[q] = o <=> dialers[q] = o
        BY <2>1, <3>2, NoneAssumption DEF Spawned
      <4> QED BY <4>1, <4>2
    <3>6. ASSUME NEW o \in Dialer
          PROVE  (\E q \in Key : dialers'[q] = o) <=> Active(o)'
      <4> HIDE DEF Active
      <4>1. CASE o = d
        BY <3>4, <4>1
      <4>2. CASE o # d
        BY <1>a, <3>5, <4>2
      <4> QED BY <4>1, <4>2
    <3> QED BY <1>b, <3>3, <3>6
  <2>2. CASE UNCHANGED dialVars
    BY <1>3, <2>2 DEF DialerIsLive, dialVars
  <2> QED BY <1>3, <2>1, <2>2, SpawnCases
<1>4. ASSUME NEW c \in Conn, Register(c) PROVE DialerIsLive'
  <2>1. ckey[c] \in Key
    BY <1>4 DEF Register
  <2>2. CASE Redundant(c)
    <3>1. PICK old \in Dialer : old = dialers[ckey[c]]
      BY <2>1, <2>2 DEF Redundant
    <3>2. /\ dialers' = [dialers EXCEPT ![ckey[c]] = None]
          /\ cancelled' = [cancelled EXCEPT ![old] = TRUE]
          /\ UNCHANGED <<dphase, dkey, cancels>>
      BY <1>4, <2>2, <3>1 DEF Register, appVars
    <3>3. \A q \in Key : dialers[q] = old => q = ckey[c]
      BY <1>a, <2>1, <3>1, NoneAssumption
    <3>4. ASSUME NEW q \in Key, dialers'[q] # None PROVE dkey'[dialers'[q]] = q
      <4>1. dialers'[q] = dialers[q]
        BY <2>1, <3>2, <3>4
      <4> QED BY <1>a, <3>2, <3>4, <4>1
    <3>5. ~Active(old)' /\ \A q \in Key : dialers'[q] # old
      BY <2>1, <3>2, <3>3, NoneAssumption
    <3>6. ASSUME NEW o \in Dialer \ {old}
          PROVE  /\ Active(o)' <=> Active(o)
                 /\ (\E q \in Key : dialers'[q] = o) <=> (\E q \in Key : dialers[q] = o)
      <4>1. Active(o)' <=> Active(o)
        BY <3>2
      <4>2. \A q \in Key : dialers'[q] = o <=> dialers[q] = o
        BY <2>1, <3>1, <3>2, NoneAssumption
      <4> QED BY <4>1, <4>2
    <3>7. ASSUME NEW o \in Dialer
          PROVE  (\E q \in Key : dialers'[q] = o) <=> Active(o)'
      <4> HIDE DEF Active
      <4>1. CASE o = old
        BY <3>5, <4>1
      <4>2. CASE o # old
        BY <1>a, <3>6, <4>2
      <4> QED BY <4>1, <4>2
    <3> QED BY <1>b, <3>4, <3>7
  <2>3. CASE ~Redundant(c)
    BY <1>4, <2>3 DEF Register, DialerIsLive, appVars
  <2> QED BY <2>2, <2>3
<1>5. ASSUME NEW d \in Dialer, NEW from \in DialPhase \ {"off"}, NEW to \in DialPhase \ {"off"},
             dphase[d] = from, dphase' = [dphase EXCEPT ![d] = to],
             UNCHANGED <<dialers, dkey, cancelled, cancels>>
      PROVE  DialerIsLive'
  BY <1>a, <1>5 DEF DialerIsLive
<1>6. ASSUME NEW d \in Dialer, DialEnds(d), DialCancelled(d) \/ remove_dialer_entry(d)
      PROVE DialerIsLive'
  <2>1. /\ dphase' = [dphase EXCEPT ![d] = "off"]
        /\ dkey' = [dkey EXCEPT ![d] = None]
        /\ cancelled' = [cancelled EXCEPT ![d] = FALSE]
        /\ UNCHANGED cancels
    BY <1>6 DEF DialEnds, appVars
  <2>2. \A q \in Key : /\ dialers'[q] # d
                       /\ dialers[q] # d => dialers'[q] = dialers[q]
    <3>1. CASE DialCancelled(d)
      BY <1>a, <3>1 DEF DialCancelled
    <3>2. CASE remove_dialer_entry(d)
      BY <1>a, <3>2, NoneAssumption DEF remove_dialer_entry, StillDials
    <3> QED BY <1>6, <3>1, <3>2
  <2>3. \A q \in Key : dialers'[q] # None => dialers'[q] = dialers[q]
    BY <1>6 DEF DialCancelled, remove_dialer_entry
  <2>4. ~Active(d)'
    BY <2>1
  <2>5. ASSUME NEW o \in Dialer \ {d}
        PROVE  /\ Active(o)' <=> Active(o)
               /\ (\E q \in Key : dialers'[q] = o) <=> (\E q \in Key : dialers[q] = o)
    BY <2>1, <2>2, <2>3, NoneAssumption
  <2>6. \A q \in Key : dialers'[q] # None => dkey'[dialers'[q]] = q
    BY <1>a, <2>1, <2>2, <2>3
  <2>7. ASSUME NEW o \in Dialer
        PROVE  (\E q \in Key : dialers'[q] = o) <=> Active(o)'
    <3> HIDE DEF Active
    <3>1. CASE o = d
      BY <2>2, <2>4, <3>1
    <3>2. CASE o # d
      BY <1>a, <2>5, <3>2
    <3> QED BY <3>1, <3>2
  <2> QED BY <1>b, <2>6, <2>7
<1>7. ASSUME NEW d \in Dialer, DialStep(d) \/ DialOutcome(d) PROVE DialerIsLive'
  <2>1. CASE DialCancelled(d) \/ remove_dialer_entry(d)
    BY <1>6, <2>1 DEF DialCancelled, remove_dialer_entry
  <2>2. CASE dial_target(d) \/ DialFails(d)
    BY <1>5, <2>2 DEF dial_target, DialFails, DialAdvance, appVars
  <2>3. ASSUME NEW c \in Conn, DialResumes(d, c) PROVE DialerIsLive'
    BY <1>5, <2>3 DEF DialResumes, appVars
  <2>4. ASSUME NEW c \in Conn, NEW p \in Peer, DialSucceeds(d, c, p) PROVE DialerIsLive'
    BY <1>5, <2>4 DEF DialSucceeds, BeginConnection, appVars
  <2> QED BY <1>7, <2>1, <2>2, <2>3, <2>4 DEF DialStep, DialOutcome
<1>8. CASE UNCHANGED <<dialVars, cancels>>
  BY <1>8 DEF DialerIsLive, dialVars
<1>9. DialTouch \/ UNCHANGED <<dialVars, cancels>>
  BY <1>DialFootprint
<1> QED BY <1>1, <1>2, <1>3, <1>4, <1>7, <1>8, <1>9 DEF DialTouch

(* The dialers map names exactly the dial loops nobody has stopped, so a
   pair never waits for a loop that is gone and a loop never dials on
   unseen. *)
THEOREM DialersCorrect == Spec => []DialerIsLive
<1>1. Init => DialerIsLive
  BY NoneAssumption DEF Init, DialerIsLive
<1> QED BY <1>1, DialerStep, SpecSound, PTL DEF Spec

-----------------------------------------------------------------------------
(* A loop that awaits a connection awaits just that one. *)
OwnersRun ==
    /\ \A c \in Conn : owner[c] # None => dphase[owner[c]] = "run"
    /\ \A c, o \in Conn : owner[c] # None /\ owner[c] = owner[o] => c = o

-----------------------------------------------------------------------------
(* A step that registers no connection and starts no loop keeps
   OnlyOwnDialer. *)
LEMMA OnlyOwnShrinks ==
    ASSUME Sound, OnlyOwnDialer,
           \A k \in Key : registry'[k] = registry[k] \/ registry'[k] = None,
           \A k \in Key : dialers'[k] = dialers[k] \/ dialers'[k] = None,
           \A c \in Conn : phase[c] \in Running => owner'[c] = owner[c]
    PROVE  OnlyOwnDialer'
<1> SUFFICES ASSUME NEW k \in Key, registry'[k] # None, dialers'[k] # None
             PROVE  owner'[registry'[k]] = dialers'[k]
  BY DEF OnlyOwnDialer
<1>1. registry'[k] = registry[k] /\ dialers'[k] = dialers[k]
  OBVIOUS
<1>2. registry[k] \in Conn /\ phase[registry[k]] \in Running
  BY <1>1 DEF Sound, TypeOK, Wiring, RegistryIsLive
<1> QED BY <1>1, <1>2 DEF OnlyOwnDialer

LEMMA OnlyOwnStep == Sound /\ OnlyOwnDialer /\ [Next]_vars => OnlyOwnDialer'
<1> SUFFICES ASSUME Sound, OnlyOwnDialer, [Next]_vars PROVE OnlyOwnDialer'
  OBVIOUS
<1>1. CASE App
  <2>1. /\ \A k \in Key : registry'[k] = registry[k] \/ registry'[k] = None
        /\ \A k \in Key : dialers'[k] = dialers[k] \/ dialers'[k] = None
        /\ UNCHANGED owner
    <3>1. ASSUME NEW keys, TakeConnections(keys)
          PROVE  UNCHANGED owner /\ \A k \in Key : registry'[k] = registry[k] \/ registry'[k] = None
      BY <3>1 DEF TakeConnections
    <3>2. ASSUME NEW keys, TakeDialers(keys)
          PROVE  \A k \in Key : dialers'[k] = dialers[k] \/ dialers'[k] = None
      BY <3>2 DEF TakeDialers
    <3>3. ASSUME NEW p \in Peer, peer_lost(p) PROVE UNCHANGED <<registry, owner>>
      BY <3>3 DEF peer_lost, connVars
    <3>4. ASSUME NEW r \in Room, join_room(r) PROVE UNCHANGED <<registry, owner, dialers>>
      BY <3>4 DEF join_room, connVars, dialVars
    <3>5. ASSUME NEW p \in Peer, NEW rooms \in SUBSET Room, peer_discovered(p, rooms)
          PROVE  UNCHANGED <<registry, owner, dialers>>
      BY <3>5 DEF peer_discovered, connVars, dialVars
    <3>6. ASSUME NEW p \in Peer, NEW trusted \in BOOLEAN, set_trusted(p, trusted), trusted
          PROVE  UNCHANGED <<registry, owner, dialers>>
      BY <3>6 DEF set_trusted, connVars, dialVars
    <3>7. \/ UNCHANGED <<registry, owner, dialers>>
          \/ \E keys : TakeConnections(keys) /\ TakeDialers(keys)
          \/ UNCHANGED <<registry, owner>> /\ \E keys : TakeDialers(keys)
      BY <1>1, <3>3, <3>4, <3>5, <3>6 DEF App, set_trusted, leave_room, peer_lost
    <3> QED BY <3>1, <3>2, <3>7
  <2> QED BY <2>1, OnlyOwnShrinks
<1>2. ASSUME NEW k \in Key, maybe_spawn_dialer(k), UNCHANGED <<registry, owner>>
      PROVE  OnlyOwnDialer'
  BY <1>2, SpawnCases DEF Spawned, ShouldDial, OnlyOwnDialer, dialVars, Sound, TypeOK
<1>3. CASE AppFinish
  <2>1. ASSUME NEW k \in Key, SpawnDialer(k) PROVE OnlyOwnDialer'
    BY <1>2, <2>1 DEF SpawnDialer, connVars
  <2>2. (~ \E k \in Key : SpawnDialer(k)) => UNCHANGED <<registry, owner, dialers>>
    BY <1>3 DEF AppFinish, CancelDialer, drop_connection, DropDoc, connVars, dialVars
  <2> QED BY <2>1, <2>2, OnlyOwnShrinks
<1>4. ASSUME NEW c \in Conn, ConnectionStep(c) PROVE OnlyOwnDialer'
  <2>1. CASE Redial(c)
    <3>1. ckey[c] \in Key
      BY <2>1 DEF Redial, Sound, TypeOK
    <3> QED BY <1>2, <2>1, <3>1 DEF Redial
  <2>2. CASE Register(c)
    <3>1. /\ ckey[c] \in Key
          /\ registry' = [registry EXCEPT ![ckey[c]] = c]
          /\ dialers' = IF Redundant(c) THEN [dialers EXCEPT ![ckey[c]] = None] ELSE dialers
          /\ UNCHANGED owner
      BY <2>2 DEF Register, Sound, TypeOK
    <3> QED BY <3>1 DEF OnlyOwnDialer, Redundant, Sound, TypeOK
  <2>3. CASE ~Redial(c) /\ ~Register(c)
    <3>1. /\ \A k \in Key : registry'[k] = registry[k] \/ registry'[k] = None
          /\ UNCHANGED <<owner, dialers>>
      BY <1>4, <2>3 DEF ConnectionStep, Refuse, HangUpDisplaced, SendStep1, Advance,
         try_announce, finish_connection, SayDisconnected, drop_connection, dialVars, Sound, TypeOK
    <3> QED BY <3>1, OnlyOwnShrinks
  <2> QED BY <2>1, <2>2, <2>3
<1>5. ASSUME NEW c \in Conn, NEW k \in Key, NEW d, BeginConnection(c, k, d), UNCHANGED dialers
      PROVE  OnlyOwnDialer'
  <2>1. /\ UNCHANGED registry
        /\ \A o \in Conn : phase[o] \in Running => owner'[o] = owner[o]
    BY <1>5 DEF BeginConnection, FreeConn, Sound, TypeOK
  <2> QED BY <1>5, <2>1, OnlyOwnShrinks
<1>6. ASSUME NEW c \in Conn,
             (\E k \in Inbound : handle_inbound(c, k)) \/ FirstFrame(c) \/ PumpEnds(c) \/ force_close(c)
      PROVE  OnlyOwnDialer'
  <2>1. CASE FirstFrame(c) \/ PumpEnds(c) \/ force_close(c)
    <3>1. /\ \A k \in Key : registry'[k] = registry[k] \/ registry'[k] = None
          /\ UNCHANGED <<owner, dialers>>
      BY <2>1 DEF FirstFrame, Advance, PumpEnds, force_close, dialVars, Sound, TypeOK
    <3> QED BY <3>1, OnlyOwnShrinks
  <2> QED BY <1>5, <1>6, <2>1, InboundAssumption DEF handle_inbound, dialVars
<1>7. ASSUME NEW d \in Dialer, DialStep(d) \/ DialOutcome(d) PROVE OnlyOwnDialer'
  <2>1. ASSUME NEW c \in Conn, NEW p \in Peer, DialSucceeds(d, c, p) PROVE OnlyOwnDialer'
    <3>1. <<p, ScopeOf(dkey[d])>> \in Key
      BY <2>1 DEF DialSucceeds, Sound, TypeOK
    <3> QED BY <1>5, <2>1, <3>1 DEF DialSucceeds
  <2>2. ASSUME NEW c \in Conn, DialResumes(d, c) PROVE OnlyOwnDialer'
    <3>1. UNCHANGED <<registry, dialers>> /\ \A o \in Conn : phase[o] \in Running => owner'[o] = owner[o]
      BY <2>2 DEF DialResumes, Sound, TypeOK
    <3> QED BY <3>1, OnlyOwnShrinks
  <2>3. CASE DialCancelled(d) \/ dial_target(d) \/ remove_dialer_entry(d) \/ DialFails(d)
    <3>1. /\ \A k \in Key : dialers'[k] = dialers[k] \/ dialers'[k] = None
          /\ UNCHANGED <<registry, owner>>
      BY <2>3 DEF DialCancelled, dial_target, remove_dialer_entry, DialFails, DialAdvance,
         DialEnds, connVars, Sound, TypeOK
    <3> QED BY <3>1, OnlyOwnShrinks
  <2> QED BY <1>7, <2>1, <2>2, <2>3 DEF DialStep, DialOutcome
<1>8. CASE UNCHANGED vars
  BY <1>8 DEF vars, connVars, dialVars, OnlyOwnDialer
<1> QED BY <1>1, <1>3, <1>4, <1>6, <1>7, <1>8 DEF Next

(* While a pair is connected the only loop that may dial it is the one
   driving that connection: registration stops every other loop, and a new
   one is not started. *)
THEOREM OnlyOwnDialerCorrect == Spec => []OnlyOwnDialer
<1>1. Init => OnlyOwnDialer
  BY DEF Init, OnlyOwnDialer
<1> QED BY <1>1, OnlyOwnStep, SpecSound, PTL DEF Spec

-----------------------------------------------------------------------------
(* The personal pair of a peer, and whether we want to be connected. *)
Personal(p) == <<p, Devices>>
Wanted(p)   == p \in peers /\ Trusted(p)

(* An entry for a personal pair is there only while the pair is wanted: what
   ends the wish takes the entry too.  (A room's entry may outlive the peer's
   advertisement of the room.) *)
EntriesWanted == \A p \in Peer : dialers[Personal(p)] # None => Wanted(p)

(* A loop for a personal pair that is about to give up has lost its entry. *)
GivenUp ==
    \A d \in Dialer, p \in Peer :
        dphase[d] = "giveup" /\ dkey[d] = Personal(p) => dialers[Personal(p)] # d

LEMMA PersonalEligible == \A p \in Peer : scope_eligible(Personal(p)) <=> Wanted(p)
BY DEF scope_eligible, Wanted, Personal, Accepts

(* What a call of the app loop does to a personal pair. *)
LEMMA WantedApp ==
    ASSUME Sound, App, NEW p \in Peer
    PROVE  /\ dialers'[Personal(p)] = dialers[Personal(p)] \/ ~Wanted(p)'
           /\ Wanted(p) /\ ~Wanted(p)' => dialers'[Personal(p)] = None
           /\ dialers'[Personal(p)] \in {dialers[Personal(p)], None}
           /\ registry'[Personal(p)] = registry[Personal(p)] \/ ~Wanted(p)'
           /\ Wanted(p)' /\ ~Wanted(p) => Personal(p) \in spawns'
           /\ spawns = {}
           /\ UNCHANGED <<phase, ckey, dphase, dkey>>
<1> USE DEF Wanted, Personal, Trusted
<1>0. Personal(p) \in Key
  OBVIOUS
<1>1. spawns = {}
  BY DEF App, set_trusted, join_room, leave_room, peer_lost, peer_discovered, AppIdle
<1>2. ASSUME NEW q \in Peer, NEW trusted \in BOOLEAN, set_trusted(q, trusted), trusted
      PROVE  /\ UNCHANGED <<dialers, registry, phase, ckey, dphase, dkey>>
             /\ Wanted(p) => Wanted(p)'
             /\ Wanted(p)' /\ ~Wanted(p) => Personal(p) \in spawns'
  <2>1. /\ listed' = IF trusted = RequirePairing THEN listed \cup {q} ELSE listed \ {q}
        /\ peers' = peers
        /\ spawns' = {<<q, Devices>>}
        /\ UNCHANGED <<dialers, registry, phase, ckey, dphase, dkey>>
    BY <1>2 DEF set_trusted, connVars, dialVars
  <2>2. CASE p = q
    BY <1>2, <2>1, <2>2, PairingAssumption
  <2>3. CASE p # q
    BY <2>1, <2>3
  <2> QED BY <2>1, <2>2, <2>3
<1>3. ASSUME NEW q \in Peer, NEW trusted \in BOOLEAN, set_trusted(q, trusted), ~trusted
      PROVE  /\ UNCHANGED <<phase, ckey, dphase, dkey>>
             /\ p = q => ~Wanted(p)' /\ dialers'[Personal(p)] = None
             /\ p # q => /\ Wanted(p)' <=> Wanted(p)
                        /\ dialers'[Personal(p)] = dialers[Personal(p)]
                        /\ registry'[Personal(p)] = registry[Personal(p)]
  <2>1. /\ listed' = IF trusted = RequirePairing THEN listed \cup {q} ELSE listed \ {q}
        /\ peers' = peers
        /\ registry' = [k \in Key |-> IF k \in {<<q, Devices>>} THEN None ELSE registry[k]]
        /\ dialers' = [k \in Key |-> IF k \in {<<q, Devices>>} THEN None ELSE dialers[k]]
        /\ UNCHANGED <<phase, ckey, dphase, dkey>>
    BY <1>3 DEF set_trusted, TakeConnections, TakeDialers
  <2>2. CASE p = q
    BY <1>0, <1>3, <2>1, <2>2, PairingAssumption
  <2>3. CASE p # q
    BY <1>0, <2>1, <2>3
  <2> QED BY <2>1, <2>2, <2>3
<1>4. ASSUME NEW r \in Room, join_room(r) \/ leave_room(r)
      PROVE  /\ UNCHANGED <<phase, ckey, dphase, dkey>>
             /\ Wanted(p)' <=> Wanted(p)
             /\ dialers'[Personal(p)] = dialers[Personal(p)]
             /\ registry'[Personal(p)] = registry[Personal(p)]
  BY <1>0, <1>4, ScopeAssumption
  DEF join_room, leave_room, TakeConnections, TakeDialers, connVars, dialVars
<1>5. ASSUME NEW q \in Peer, peer_lost(q)
      PROVE  /\ UNCHANGED <<registry, phase, ckey, dphase, dkey>>
             /\ p = q => ~Wanted(p)' /\ dialers'[Personal(p)] = None
             /\ p # q => /\ Wanted(p)' <=> Wanted(p)
                        /\ dialers'[Personal(p)] = dialers[Personal(p)]
  BY <1>0, <1>5 DEF peer_lost, TakeDialers, connVars
<1>6. ASSUME NEW q \in Peer, NEW rooms \in SUBSET Room, peer_discovered(q, rooms)
      PROVE  /\ UNCHANGED <<dialers, registry, phase, ckey, dphase, dkey>>
             /\ Wanted(p) => Wanted(p)'
             /\ Wanted(p)' /\ ~Wanted(p) => Personal(p) \in spawns'
  BY <1>6 DEF peer_discovered, connVars, dialVars
<1> HIDE DEF Wanted, Personal, Trusted
<1>7. CASE \E q \in Peer, trusted \in BOOLEAN : set_trusted(q, trusted)
  BY <1>1, <1>2, <1>3, <1>7
<1>8. CASE \E r \in Room : join_room(r) \/ leave_room(r)
  BY <1>1, <1>4, <1>8
<1>9. CASE \E q \in Peer : peer_lost(q) \/ \E rooms \in SUBSET Room : peer_discovered(q, rooms)
  BY <1>1, <1>5, <1>6, <1>9
<1> QED BY <1>7, <1>8, <1>9 DEF App

(* Every other step: who is wanted stays, and an entry is set only by
   maybe_spawn_dialer. *)
NonApp ==
    \/ AppFinish
    \/ \E c \in Conn : \/ \E k \in Inbound : handle_inbound(c, k)
                       \/ FirstFrame(c) \/ PumpEnds(c) \/ force_close(c)
                       \/ ConnectionStep(c)
    \/ \E d \in Dialer : DialStep(d) \/ DialOutcome(d)

LEMMA NonAppWanted == NonApp => UNCHANGED <<listed, peers>>
BY DEF NonApp, AppFinish, CancelDialer, drop_connection, SpawnDialer, DropDoc,
   handle_inbound, BeginConnection, FirstFrame, Advance, PumpEnds, force_close,
   ConnectionStep, Register, Refuse, HangUpDisplaced, SendStep1, try_announce,
   finish_connection, SayDisconnected, Redial,
   DialStep, DialOutcome, DialCancelled, dial_target, remove_dialer_entry, DialFails,
   DialAdvance, DialEnds, DialResumes, DialSucceeds, stateVars

(* The effect of every such step on the dialers map and the loops. *)
LEMMA NonAppDials ==
    ASSUME Sound, NonApp
    PROVE  \/ \E k \in Key, d \in Dialer : Spawned(k, d)
           \/ \E d \in Dialer : dial_target(d) \/ remove_dialer_entry(d)
           \/ \E c \in Conn : Register(c)
           \/ /\ UNCHANGED dialers
              /\ \A d \in Dialer : dphase'[d] = "giveup" => dphase[d] = "giveup" /\ dkey'[d] = dkey[d]
<1> USE DEF Sound, TypeOK
<1>1. ASSUME NEW k \in Key, maybe_spawn_dialer(k)
      PROVE  (\E d \in Dialer : Spawned(k, d)) \/ UNCHANGED dialVars
  BY <1>1, SpawnCases
<1>2. CASE AppFinish
  BY <1>1, <1>2 DEF AppFinish, CancelDialer, drop_connection, SpawnDialer, DropDoc, dialVars
<1>3. ASSUME NEW c \in Conn, ConnectionStep(c), ~Register(c)
      PROVE  (\E k \in Key, d \in Dialer : Spawned(k, d)) \/ UNCHANGED dialVars
  <2>1. Redial(c) => ckey[c] \in Key
    BY DEF Redial
  <2> QED
    BY <1>1, <1>3, <2>1 DEF ConnectionStep, Refuse, HangUpDisplaced, SendStep1, Advance,
       try_announce, finish_connection, SayDisconnected, drop_connection, Redial
<1>4. ASSUME NEW c \in Conn,
             (\E k \in Inbound : handle_inbound(c, k)) \/ FirstFrame(c) \/ PumpEnds(c) \/ force_close(c)
      PROVE  UNCHANGED dialVars
  BY <1>4 DEF handle_inbound, FirstFrame, Advance, PumpEnds, force_close
<1>5. ASSUME NEW d \in Dialer, DialStep(d) \/ DialOutcome(d),
             ~dial_target(d), ~remove_dialer_entry(d)
      PROVE  /\ UNCHANGED dialers
             /\ \A o \in Dialer : dphase'[o] = "giveup" => dphase[o] = "giveup" /\ dkey'[o] = dkey[o]
  BY <1>5 DEF DialStep, DialOutcome, DialCancelled, DialFails, DialAdvance, DialEnds,
              DialResumes, DialSucceeds
<1>6. UNCHANGED dialVars =>
        /\ UNCHANGED dialers
        /\ \A d \in Dialer : dphase'[d] = "giveup" => dphase[d] = "giveup" /\ dkey'[d] = dkey[d]
  BY DEF dialVars
<1> HIDE DEF Sound, TypeOK
<1> QED BY <1>2, <1>3, <1>4, <1>5, <1>6 DEF NonApp

LEMMA StrandedStep ==
    Sound /\ GivenUp /\ DevicesNeverStranded /\ [Next]_vars => DevicesNeverStranded'
(* A connection task that has registered, or is past that, stays on its way
   to maybe_spawn_dialer until it gets there. *)
<1>SpawnsStay. ASSUME NonApp, NEW k \in Key, k \in spawns, ~SpawnDialer(k)
               PROVE  k \in spawns'
  <2> USE <1>SpawnsStay
  <2>1. CASE AppFinish
    BY <2>1 DEF AppFinish, CancelDialer, drop_connection, SpawnDialer, DropDoc, appVars
  <2>2. ASSUME NEW c \in Conn, ConnectionStep(c) PROVE UNCHANGED spawns
    BY <2>2 DEF ConnectionStep, Register, Refuse, HangUpDisplaced, SendStep1, Advance,
       try_announce, finish_connection, SayDisconnected, Redial, drop_connection, appVars
  <2>3. ASSUME NEW c \in Conn,
               (\E q \in Inbound : handle_inbound(c, q)) \/ FirstFrame(c) \/ PumpEnds(c) \/ force_close(c)
        PROVE  UNCHANGED spawns
    BY <2>3 DEF handle_inbound, BeginConnection, FirstFrame, Advance, PumpEnds, force_close, appVars
  <2>4. ASSUME NEW d \in Dialer, DialStep(d) \/ DialOutcome(d) PROVE UNCHANGED spawns
    BY <2>4 DEF DialStep, DialOutcome, DialCancelled, dial_target, remove_dialer_entry, DialFails,
       DialAdvance, DialEnds, DialResumes, DialSucceeds, BeginConnection, appVars
  <2> QED BY <2>1, <2>2, <2>3, <2>4 DEF NonApp
<1>RedialStays. ASSUME Sound, NonApp, NEW c \in Conn, WillRedial(c), ~Redial(c)
                PROVE  WillRedial(c)' /\ ckey'[c] = ckey[c]
  <2> USE <1>RedialStays
  <2> USE DEF WillRedial, Sound, TypeOK
  <2>1. CASE AppFinish
    BY <2>1 DEF AppFinish, CancelDialer, drop_connection, SpawnDialer, DropDoc, connVars
  <2>2. ASSUME NEW o \in Conn, ConnectionStep(o) PROVE WillRedial(c)' /\ ckey'[c] = ckey[c]
    <3>1. CASE o = c
      BY <2>2, <3>1 DEF ConnectionStep, Register, Refuse, HangUpDisplaced, SendStep1, Advance,
         try_announce, finish_connection, SayDisconnected, drop_connection
    <3>2. CASE o # c
      BY <2>2, <3>2 DEF ConnectionStep, Register, Refuse, HangUpDisplaced, SendStep1, Advance,
         try_announce, finish_connection, SayDisconnected, Redial, drop_connection, ForgetKey
    <3> QED BY <3>1, <3>2
  <2>3. ASSUME NEW o \in Conn,
               (\E k \in Inbound : handle_inbound(o, k)) \/ FirstFrame(o) \/ PumpEnds(o) \/ force_close(o)
        PROVE  WillRedial(c)' /\ ckey'[c] = ckey[c]
    BY <2>3 DEF handle_inbound, BeginConnection, FreeConn, FirstFrame, Advance, PumpEnds, force_close
  <2>4. ASSUME NEW d \in Dialer, DialStep(d) \/ DialOutcome(d)
        PROVE  WillRedial(c)' /\ ckey'[c] = ckey[c]
    BY <2>4 DEF DialStep, DialOutcome, DialCancelled, dial_target, remove_dialer_entry, DialFails,
       DialAdvance, DialEnds, DialResumes, DialSucceeds, BeginConnection, FreeConn, connVars
  <2> QED BY <2>1, <2>2, <2>3, <2>4 DEF NonApp
<1> SUFFICES ASSUME Sound, GivenUp, DevicesNeverStranded, [Next]_vars, NEW p \in Peer
             PROVE  ~Stranded(Personal(p))'
  BY DEF DevicesNeverStranded, Personal
<1> DEFINE k == Personal(p)
<1>0. k \in Key /\ PeerOf(k) = p
  BY DEF Personal
<1> HIDE DEF k
<1>a. Stranded(k) <=> /\ p \in Dials /\ Wanted(p) /\ registry[k] = None /\ dialers[k] = None
                      /\ k \notin spawns
                      /\ \A c \in Conn : ckey[c] = k => ~WillRedial(c)
  BY <1>0, PersonalEligible DEF Stranded, ShouldDial, k
<1>b. Stranded(k)' <=> /\ p \in Dials /\ Wanted(p)' /\ registry'[k] = None /\ dialers'[k] = None
                       /\ k \notin spawns'
                       /\ \A c \in Conn : ckey'[c] = k => ~WillRedial(c)'
  BY <1>0 DEF Stranded, ShouldDial, k, scope_eligible, Wanted, Personal, Accepts
<1>c. ~Stranded(k)
  BY DEF DevicesNeverStranded, k, Personal
<1> SUFFICES ASSUME Stranded(k)' PROVE FALSE
  BY DEF k
<1>1. CASE App
  <2>1. Wanted(p) /\ registry[k] = None /\ dialers[k] = None /\ k \notin spawns
    BY <1>1, <1>b, WantedApp DEF k
  <2>2. PICK c \in Conn : ckey[c] = k /\ WillRedial(c)
    BY <1>a, <1>b, <1>c, <2>1
  <2>3. ckey'[c] = k /\ WillRedial(c)'
    BY <1>1, <2>2, WantedApp DEF WillRedial
  <2> QED BY <1>b, <2>3
<1>2. CASE NonApp
  <2>0. Wanted(p)
    BY <1>2, <1>b, NonAppWanted DEF Wanted, Trusted
  <2>1. ASSUME NEW c \in Conn, ckey[c] = k, WillRedial(c) PROVE Redial(c)
    BY <1>2, <1>b, <2>1, <1>RedialStays
  <2>2. registry[k] = None
    <3> SUFFICES ASSUME registry[k] # None PROVE FALSE
      OBVIOUS
    <3>1. /\ registry[k] \in Conn /\ ckey[registry[k]] = k
          /\ phase[registry[k]] \in Running
      BY <1>0 DEF Sound, TypeOK, Wiring, RegistryIsLive
    <3>2. WillRedial(registry[k]) /\ ~Redial(registry[k])
      BY <3>1 DEF WillRedial, Redial
    <3> QED BY <2>1, <3>1, <3>2
  <2>3. ASSUME NEW d \in Dialer, Spawned(k, d) PROVE FALSE
    BY <1>0, <1>b, <2>3, NoneAssumption DEF Spawned, Sound, TypeOK
  <2>4. dialers[k] = None
    <3>1. ASSUME NEW q \in Key, NEW d \in Dialer, Spawned(q, d) PROVE dialers[k] = None
      BY <1>0, <1>b, <3>1, NoneAssumption DEF Spawned, Sound, TypeOK
    <3>2. ASSUME NEW c \in Conn, Register(c) PROVE dialers[k] = None
      <4>1. ckey[c] \in Key /\ registry' = [registry EXCEPT ![ckey[c]] = c]
        BY <3>2 DEF Register, Sound, TypeOK
      <4>2. ckey[c] # k
        BY <1>0, <1>b, <4>1, NoneAssumption DEF Sound, TypeOK
      <4> QED BY <1>0, <1>b, <3>2, <4>1, <4>2 DEF Register, Sound, TypeOK
    <3>3. ASSUME NEW d \in Dialer, remove_dialer_entry(d) PROVE dialers[k] = None
      <4>1. /\ dphase[d] = "giveup" /\ dkey[d] \in Key
            /\ dialers' = IF dialers[dkey[d]] = d THEN [dialers EXCEPT ![dkey[d]] = None] ELSE dialers
        BY <3>3 DEF remove_dialer_entry, StillDials, Sound, TypeOK
      <4>2. dkey[d] = k => dialers[k] # d
        BY <4>1 DEF GivenUp, k
      <4> QED BY <1>0, <1>b, <4>1, <4>2 DEF Sound, TypeOK
    <3>4. ASSUME NEW d \in Dialer, dial_target(d) PROVE dialers[k] = None
      BY <1>b, <3>4 DEF dial_target, DialAdvance
    <3> QED BY <1>2, <1>b, <3>1, <3>2, <3>3, <3>4, NonAppDials
  <2>5. ShouldDial(k)
    BY <1>0, <1>b, <2>0, <2>2, <2>4, PersonalEligible DEF ShouldDial, k
  <2>6. maybe_spawn_dialer(k) => FALSE
    BY <1>0, <2>3, <2>5, SpawnCases
  <2>7. \A c \in Conn : ckey[c] = k => ~WillRedial(c)
    BY <2>1, <2>6 DEF Redial
  <2>8. k \notin spawns
    BY <1>0, <1>2, <1>b, <2>6, <1>SpawnsStay DEF SpawnDialer
  <2> QED BY <1>a, <1>b, <1>c, <2>0, <2>2, <2>4, <2>7, <2>8
<1>3. CASE UNCHANGED vars
  <2>1. Stranded(k)' <=> Stranded(k)
    BY <1>3, <1>a, <1>b DEF vars, stateVars, connVars, dialVars, appVars, Wanted, Trusted, WillRedial
  <2> QED BY <1>c, <2>1
<1> QED BY <1>1, <1>2, <1>3 DEF Next, NonApp

(* A discovered and trusted peer with a larger id is connected, being
   dialed, or some task is on its way to start the loop: no interleaving of
   a registration, a loss of the connection, a takeover and a dialer giving
   up leaves it with nobody to dial it. *)
THEOREM DevicesCorrect == Spec => []DevicesNeverStranded
<1>GivenUpStep. Sound /\ OwnersRun /\ OnlyOwnDialer /\ EntriesWanted /\ GivenUp /\ [Next]_vars => GivenUp'
  <2> SUFFICES ASSUME Sound, OwnersRun, OnlyOwnDialer, EntriesWanted, GivenUp, [Next]_vars,
                      NEW d \in Dialer, NEW p \in Peer,
                      dphase'[d] = "giveup", dkey'[d] = Personal(p), dialers'[Personal(p)] = d
               PROVE  FALSE
    BY DEF GivenUp
  <2>0. Personal(p) \in Key
    BY DEF Personal
  <2>1. ASSUME dphase[d] = "giveup", dkey[d] = Personal(p) PROVE dialers[Personal(p)] # d
    BY <2>1 DEF GivenUp
  <2>2. CASE App
    BY <2>1, <2>2, WantedApp, NoneAssumption
  <2>3. CASE NonApp
    <3>1. ASSUME NEW k \in Key, NEW e \in Dialer, Spawned(k, e) PROVE FALSE
      BY <2>0, <2>1, <3>1 DEF Spawned, Sound, TypeOK
    <3>2. ASSUME NEW e \in Dialer, dial_target(e) PROVE FALSE
      <4>1. UNCHANGED <<dialers, dkey>>
        BY <3>2 DEF dial_target, DialAdvance
      <4>2. dphase[d] # "giveup"
        BY <2>1, <4>1
      <4>3. d = e /\ dphase[d] = "wait" /\ ~(registry[Personal(p)] = None /\ scope_eligible(Personal(p)))
        BY <3>2, <4>1, <4>2 DEF dial_target, DialAdvance, Sound, TypeOK
      <4>4. registry[Personal(p)] # None
        BY <4>1, <4>3, PersonalEligible, NoneAssumption DEF EntriesWanted
      <4>5. registry[Personal(p)] \in Conn /\ owner[registry[Personal(p)]] = d
        BY <2>0, <4>1, <4>4, NoneAssumption DEF OnlyOwnDialer, Sound, TypeOK
      <4> QED BY <4>3, <4>5, NoneAssumption DEF OwnersRun
    <3>3. ASSUME NEW e \in Dialer, remove_dialer_entry(e) PROVE FALSE
      <4>1. dphase' = [dphase EXCEPT ![e] = "off"] /\ dkey' = [dkey EXCEPT ![e] = None]
        BY <3>3 DEF remove_dialer_entry, DialEnds
      <4>2. dphase[d] = "giveup" /\ dkey[d] = Personal(p)
        BY <2>0, <4>1, NoneAssumption DEF Sound, TypeOK
      <4>3. dialers[Personal(p)] = d
        BY <2>0, <3>3, NoneAssumption DEF remove_dialer_entry, Sound, TypeOK
      <4> QED BY <2>1, <4>2, <4>3
    <3>4. ASSUME NEW c \in Conn, Register(c) PROVE FALSE
      <4>1. UNCHANGED <<dphase, dkey>> /\ dialers[Personal(p)] = d
        BY <2>0, <3>4, NoneAssumption DEF Register, Sound, TypeOK
      <4> QED BY <2>1, <4>1
    <3> QED BY <2>1, <2>3, <3>1, <3>2, <3>3, <3>4, NonAppDials
  <2>4. CASE UNCHANGED vars
    BY <2>1, <2>4 DEF vars, dialVars
  <2> QED BY <2>2, <2>3, <2>4 DEF Next, NonApp
<1>OwnersStep. Sound /\ OwnersRun /\ [Next]_vars => OwnersRun'
  <2> SUFFICES ASSUME Sound, OwnersRun, [Next]_vars PROVE OwnersRun'
    OBVIOUS
  <2> USE DEF OwnersRun, Sound, TypeOK
  <2>1. CASE App
    BY <2>1 DEF App, set_trusted, join_room, leave_room, peer_lost, peer_discovered,
       TakeConnections, TakeDialers, connVars, dialVars
  <2>2. ASSUME NEW k \in Key, maybe_spawn_dialer(k), UNCHANGED owner PROVE OwnersRun'
    BY <2>2, SpawnCases DEF Spawned, FreeDialer, dialVars
  <2>3. CASE AppFinish
    BY <2>2, <2>3 DEF AppFinish, CancelDialer, drop_connection, SpawnDialer, DropDoc, connVars, dialVars
  <2>4. ASSUME NEW c \in Conn, ConnectionStep(c) PROVE OwnersRun'
    <3>1. CASE Redial(c)
      BY <2>2, <3>1 DEF Redial
    <3>2. ~Redial(c) => UNCHANGED <<owner, dphase>>
      BY <2>4 DEF ConnectionStep, Register, Refuse, HangUpDisplaced, SendStep1, Advance,
         try_announce, finish_connection, SayDisconnected, drop_connection, dialVars
    <3> QED BY <3>1, <3>2
  <2>5. ASSUME NEW c \in Conn, NEW k \in Inbound, handle_inbound(c, k) PROVE OwnersRun'
    BY <2>5, NoneAssumption DEF handle_inbound, BeginConnection, FreeConn, dialVars
  <2>6. ASSUME NEW c \in Conn, FirstFrame(c) \/ PumpEnds(c) \/ force_close(c) PROVE OwnersRun'
    BY <2>6 DEF FirstFrame, Advance, PumpEnds, force_close, dialVars
  <2>7. ASSUME NEW d \in Dialer, DialStep(d) \/ DialOutcome(d) PROVE OwnersRun'
    <3>1. ASSUME NEW c \in Conn, NEW p \in Peer, DialSucceeds(d, c, p) PROVE OwnersRun'
      BY <3>1, NoneAssumption DEF DialSucceeds, BeginConnection, FreeConn
    <3>2. ASSUME NEW c \in Conn, DialResumes(d, c) PROVE OwnersRun'
      BY <3>2, NoneAssumption DEF DialResumes
    <3>3. ASSUME NEW to, dphase[d] # "run", dphase' = [dphase EXCEPT ![d] = to], UNCHANGED owner
          PROVE  OwnersRun'
      BY <3>3
    <3> QED
      BY <2>7, <3>1, <3>2, <3>3 DEF DialStep, DialOutcome, DialCancelled, dial_target,
         remove_dialer_entry, DialFails, DialAdvance, DialEnds, connVars
  <2>8. CASE UNCHANGED vars
    BY <2>8 DEF vars, connVars, dialVars
  <2> QED BY <2>1, <2>3, <2>4, <2>5, <2>6, <2>7, <2>8 DEF Next
<1>EntriesStep. Sound /\ EntriesWanted /\ [Next]_vars => EntriesWanted'
  <2> SUFFICES ASSUME Sound, EntriesWanted, [Next]_vars,
                      NEW p \in Peer, dialers'[Personal(p)] # None
               PROVE  Wanted(p)'
    BY DEF EntriesWanted
  <2>0. Personal(p) \in Key
    BY DEF Personal
  <2>1. CASE App
    BY <2>1, WantedApp DEF EntriesWanted
  <2>2. CASE NonApp
    <3>1. Wanted(p)' <=> Wanted(p)
      BY <2>2, NonAppWanted DEF Wanted, Trusted
    <3>2. dialers[Personal(p)] # None => Wanted(p)
      BY DEF EntriesWanted
    <3>3. ASSUME NEW k \in Key, NEW d \in Dialer, Spawned(k, d) PROVE Wanted(p)
      <4>1. k = Personal(p) => Wanted(p)
        BY <3>3, PersonalEligible DEF Spawned, ShouldDial
      <4> QED BY <2>0, <3>2, <3>3, <4>1 DEF Spawned, Sound, TypeOK
    <3>4. ASSUME (\E d \in Dialer : dial_target(d) \/ remove_dialer_entry(d))
                 \/ \E c \in Conn : Register(c)
          PROVE  dialers'[Personal(p)] = dialers[Personal(p)]
      BY <2>0, <3>4 DEF dial_target, DialAdvance, remove_dialer_entry, Register, Sound, TypeOK
    <3> QED BY <2>2, <3>1, <3>2, <3>3, <3>4, NonAppDials
  <2>3. CASE UNCHANGED vars
    BY <2>3 DEF vars, stateVars, dialVars, EntriesWanted, Wanted, Trusted
  <2> QED BY <2>1, <2>2, <2>3 DEF Next, NonApp
<1> DEFINE Dialing == OwnersRun /\ OnlyOwnDialer /\ EntriesWanted /\ GivenUp /\ DevicesNeverStranded
<1>1. Init => Dialing
  BY DEF Init, OwnersRun, OnlyOwnDialer, EntriesWanted, GivenUp, DevicesNeverStranded, Stranded,
         ShouldDial, scope_eligible, Personal
<1>2. Sound /\ Dialing /\ [Next]_vars => Dialing'
  BY <1>OwnersStep, OnlyOwnStep, <1>EntriesStep, <1>GivenUpStep, StrandedStep
<1>3. Dialing => DevicesNeverStranded
  OBVIOUS
<1> HIDE DEF Dialing
<1> QED BY <1>1, <1>2, <1>3, SpecSound, PTL DEF Spec

=============================================================================
