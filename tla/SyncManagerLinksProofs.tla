---------------------- MODULE SyncManagerLinksProofs -----------------------
(***************************************************************************)
(* SyncManager implements PeerLinks, and its notifications balance.        *)
(***************************************************************************)
EXTENDS SyncManagerProofs, FiniteSetTheorems

USE DEF Scope, Key, PeerOf, ScopeOf, Pumping, Running, ConnPhase, DialPhase

-----------------------------------------------------------------------------
(* The abstract variables: who is welcome, and the link of each pair. *)
Welcomed == {k \in Key : Accepts(k)}
Linked   == [k \in Key |-> Standing(k)]

(* The shapes of the abstract steps. *)
LEMMA LinksMoves ==
    /\ \A S \in SUBSET Key :
          Welcomed' = Welcomed \cup S /\ UNCHANGED Linked => Links!Next
    /\ \A S \in SUBSET Key :
          /\ Welcomed' = Welcomed \ S
          /\ Linked' = [k \in Key |-> IF k \in S THEN "none" ELSE Linked[k]]
          => Links!Next
    /\ \A k \in Welcomed :
          /\ Linked' = [Linked EXCEPT ![k] = IF @ = "announced" THEN "announced" ELSE "registered"]
          /\ UNCHANGED Welcomed
          => Links!Next
    /\ \A k \in Key :
          Linked[k] # "none" /\ Linked' = [Linked EXCEPT ![k] = "announced"] /\ UNCHANGED Welcomed
          => Links!Next
    /\ \A k \in Key :
          Linked' = [Linked EXCEPT ![k] = "none"] /\ UNCHANGED Welcomed => Links!Next
<1>1. \A S \in SUBSET Key :
        Welcomed' = Welcomed \cup S /\ UNCHANGED Linked => Links!Next
  BY DEF Links!Next, Links!Welcome, Welcomed, Linked
<1>2. \A S \in SUBSET Key :
        /\ Welcomed' = Welcomed \ S
        /\ Linked' = [k \in Key |-> IF k \in S THEN "none" ELSE Linked[k]]
        => Links!Next
  BY DEF Links!Next, Links!Withdraw, Welcomed, Linked
<1>3. \A k \in Welcomed :
        /\ Linked' = [Linked EXCEPT ![k] = IF @ = "announced" THEN "announced" ELSE "registered"]
        /\ UNCHANGED Welcomed
        => Links!Next
  BY DEF Links!Next, Links!Open, Welcomed, Linked
<1>4. \A k \in Key :
        Linked[k] # "none" /\ Linked' = [Linked EXCEPT ![k] = "announced"] /\ UNCHANGED Welcomed
        => Links!Next
  BY DEF Links!Next, Links!Announce, Welcomed, Linked
<1>5. \A k \in Key :
        Linked' = [Linked EXCEPT ![k] = "none"] /\ UNCHANGED Welcomed => Links!Next
  BY DEF Links!Next, Links!Close, Welcomed, Linked
<1> QED BY <1>1, <1>2, <1>3, <1>4, <1>5

LEMMA LinksStep == Sound /\ [Next]_vars => [Links!Next]_(Links!vars)
<1> SUFFICES ASSUME Sound, [Next]_vars PROVE Links!Next \/ UNCHANGED <<Welcomed, Linked>>
  BY DEF Links!vars, Welcomed, Linked
<1>1. ASSUME NEW p \in Peer, NEW trusted \in BOOLEAN, set_trusted(p, trusted) PROVE Links!Next
  <2>1. /\ listed' = IF trusted = RequirePairing THEN listed \cup {p} ELSE listed \ {p}
        /\ joined' = joined
    BY <1>1 DEF set_trusted
  <2>2. CASE trusted
    <3>1. Welcomed' = Welcomed \cup {<<p, Devices>>}
      <4>1. ASSUME NEW k \in Key PROVE Accepts(k)' <=> Accepts(k) \/ k = <<p, Devices>>
        <5>1. CASE k = <<p, Devices>>
          BY <2>1, <2>2, <5>1, PairingAssumption DEF Accepts, Trusted
        <5>2. CASE k # <<p, Devices>>
          <6>1. k[2] # Devices \/ k[1] # p
            BY <5>2
          <6>2. k[1] # p => Trusted(k[1])' = Trusted(k[1])
            BY <2>1 DEF Trusted
          <6> QED BY <2>1, <5>2, <6>1, <6>2 DEF Accepts
        <5> QED BY <5>1, <5>2
      <4> QED BY <4>1 DEF Welcomed
    <3>2. UNCHANGED Linked
      BY <1>1, <2>2 DEF set_trusted, Linked, Standing
    <3> QED BY <3>1, <3>2, LinksMoves, {<<p, Devices>>} \in SUBSET Key
  <2>3. CASE ~trusted
    <3>1. Welcomed' = Welcomed \ {<<p, Devices>>}
      <4>1. \A k \in Key : Accepts(k)' <=> Accepts(k) /\ k # <<p, Devices>>
        BY <2>1, <2>3, PairingAssumption DEF Accepts, Trusted
      <4> QED BY <4>1 DEF Welcomed
    <3>2. Linked' = [k \in Key |-> IF k \in {<<p, Devices>>} THEN "none" ELSE Linked[k]]
      BY <1>1, <2>3 DEF set_trusted, TakeConnections, Linked, Standing
    <3> QED BY <3>1, <3>2, LinksMoves, {<<p, Devices>>} \in SUBSET Key
  <2> QED BY <2>2, <2>3
<1>2. ASSUME NEW r \in Room, join_room(r) PROVE Links!Next
  <2> DEFINE S == {k \in Key : ScopeOf(k) = r}
  <2>1. Welcomed' = Welcomed \cup S
    BY <1>2, ScopeAssumption DEF join_room, Welcomed, Accepts, Trusted
  <2>2. UNCHANGED Linked
    BY <1>2 DEF join_room, Linked, Standing
  <2>3. S \in SUBSET Key
    OBVIOUS
  <2> QED BY <2>1, <2>2, <2>3, LinksMoves
<1>3. ASSUME NEW r \in Room, leave_room(r) PROVE Links!Next
  <2> DEFINE S == {k \in Key : ScopeOf(k) = r}
  <2>1. Welcomed' = Welcomed \ S
    BY <1>3, ScopeAssumption DEF leave_room, Welcomed, Accepts, Trusted
  <2>2. Linked' = [k \in Key |-> IF k \in S THEN "none" ELSE Linked[k]]
    BY <1>3 DEF leave_room, TakeConnections, Linked, Standing
  <2>3. S \in SUBSET Key
    OBVIOUS
  <2> QED BY <2>1, <2>2, <2>3, LinksMoves
<1>4. ASSUME NEW c \in Conn, Register(c) \/ try_announce(c) \/ finish_connection(c) \/ force_close(c)
      PROVE  Links!Next \/ UNCHANGED <<Welcomed, Linked>>
  <2>1. ckey[c] \in Key
    BY <1>4 DEF Register, try_announce, finish_connection, force_close, Sound, TypeOK
  <2>2. UNCHANGED Welcomed
    BY <1>4 DEF Register, try_announce, finish_connection, force_close, stateVars,
                Welcomed, Accepts, Trusted
  <2>3. CASE Register(c)
    <3>1. ckey[c] \in Welcomed
      BY <2>1, <2>3 DEF Register, MayRegister, Welcomed
    <3>2. registry' = [registry EXCEPT ![ckey[c]] = c] /\ UNCHANGED announced
      BY <2>1, <2>3 DEF Register, Carried, Sound, TypeOK, Wiring, RegistryIsLive
    <3>3. Linked' = [Linked EXCEPT ![ckey[c]] = IF @ = "announced" THEN "announced" ELSE "registered"]
      <4>1. \A k \in Key \ {ckey[c]} : Linked'[k] = Linked[k]
        BY <2>1, <3>2 DEF Linked, Standing, Sound, TypeOK
      <4>2. announced[ckey[c]] => registry[ckey[c]] # None
        BY <2>1 DEF Sound, Wiring, RegistryIsLive
      <4>3. registry'[ckey[c]] # None
        BY <2>1, <3>2, NoneAssumption DEF Sound, TypeOK
      <4>4. Linked'[ckey[c]] = IF Linked[ckey[c]] = "announced" THEN "announced" ELSE "registered"
        BY <2>1, <2>3, <3>2, <4>2, <4>3 DEF Register, Linked, Standing
      <4> QED BY <2>1, <4>1, <4>4 DEF Linked
    <3> QED BY <2>1, <2>2, <3>1, <3>3, LinksMoves
  <2>4. CASE try_announce(c) /\ StillMine(c)
    <3>1. Linked' = [Linked EXCEPT ![ckey[c]] = "announced"]
      <4>1. \A k \in Key \ {ckey[c]} : Linked'[k] = Linked[k]
        BY <2>1, <2>4 DEF try_announce, Linked, Standing, Sound, TypeOK
      <4>2. Linked'[ckey[c]] = "announced"
        BY <2>1, <2>4, NoneAssumption DEF try_announce, StillMine, Linked, Standing, Sound, TypeOK
      <4> QED BY <2>1, <4>1, <4>2 DEF Linked
    <3>2. Linked[ckey[c]] # "none"
      BY <2>1, <2>4, NoneAssumption DEF StillMine, Linked, Standing
    <3> QED BY <2>1, <2>2, <3>1, <3>2, LinksMoves
  <2>5. CASE (finish_connection(c) \/ force_close(c)) /\ StillMine(c)
    <3>1. Linked' = [Linked EXCEPT ![ckey[c]] = "none"]
      BY <2>1, <2>5 DEF finish_connection, force_close, StillMine, Linked, Standing, Sound, TypeOK
    <3> QED BY <2>1, <2>2, <3>1, LinksMoves
  <2>6. CASE ~Register(c) /\ ~StillMine(c)
    BY <1>4, <2>2, <2>6 DEF try_announce, finish_connection, force_close, Linked, Standing
  <2> QED BY <1>4, <2>3, <2>4, <2>5, <2>6
<1>5. CASE UNCHANGED <<listed, joined, registry, announced>>
  BY <1>5 DEF Welcomed, Accepts, Trusted, Linked, Standing
<1> QED BY <1>1, <1>2, <1>3, <1>4, <1>5, RegistryFootprint DEF RegistryStep

(* The registry with its tasks, locks and takeovers implements PeerLinks: at
   most one link per pair, only while the pair is welcome, withdrawn in the
   step that withdraws the welcome, announced once for as long as a chain of
   takeovers lasts. *)
THEOREM LinksCorrect == Spec => ImplementsPeerLinks
<1>LinksInit. Init => Links!Init
  <2> SUFFICES ASSUME Init PROVE Welcomed \in SUBSET Key /\ Linked = [k \in Key |-> "none"]
    BY DEF Links!Init, Welcomed, Linked
  <2> QED BY DEF Init, Welcomed, Linked, Standing
<1> QED BY <1>LinksInit, LinksStep, SpecSound, PTL DEF Spec, ImplementsPeerLinks, Links!Spec

-----------------------------------------------------------------------------
(* Who owes a disconnect owes it once: a task that emits it itself has no
   remover that would. *)
OwesOnce ==
    \A c \in Conn : owed[c] => remover[c] # "none" /\ phase[c] # "bye"

(* The balance of a pair, with the finiteness its Cardinality needs. *)
Balanced ==
    \A k \in Key :
        /\ IsFiniteSet(Owing(k))
        /\ sessions[k] = (IF announced[k] THEN 1 ELSE 0) + Cardinality(Owing(k))

Owes(c, k) == ckey[c] = k /\ (phase[c] = "bye" \/ owed[c])

(* The four ways a step can leave a pair's books balanced. *)
BalanceKept(k) ==
    \/ /\ \A c \in Conn : Owes(c, k)' <=> Owes(c, k)
       /\ sessions'[k] = sessions[k] /\ announced'[k] = announced[k]
    \/ /\ \A c \in Conn : Owes(c, k)' <=> Owes(c, k)
       /\ sessions'[k] = sessions[k] + 1 /\ announced'[k] /\ ~announced[k]
    \/ \E c \in Conn :
          /\ ~Owes(c, k) /\ Owes(c, k)'
          /\ \A o \in Conn \ {c} : Owes(o, k)' <=> Owes(o, k)
          /\ sessions'[k] = sessions[k] /\ ~announced'[k] /\ announced[k]
    \/ \E c \in Conn :
          /\ Owes(c, k) /\ ~Owes(c, k)'
          /\ \A o \in Conn \ {c} : Owes(o, k)' <=> Owes(o, k)
          /\ sessions'[k] = sessions[k] - 1 /\ announced'[k] = announced[k]

LEMMA BalanceTaken ==
    ASSUME Sound, OwesOnce, NEW keys \in SUBSET Key, TakeConnections(keys), UNCHANGED sessions
    PROVE  OwesOnce' /\ \A k \in Key : BalanceKept(k)
<1>1. /\ remover' = [c \in Conn |-> IF c \in Taken(keys) THEN "app" ELSE remover[c]]
      /\ owed' = [c \in Conn |-> IF c \in Taken(keys) THEN announced[ckey[c]] ELSE owed[c]]
      /\ announced' = [k \in Key |-> IF k \in keys THEN FALSE ELSE announced[k]]
      /\ UNCHANGED <<phase, ckey>>
  BY DEF TakeConnections
<1>2. \A c \in Taken(keys) :
        /\ c \in Conn /\ ckey[c] \in keys /\ registry[ckey[c]] = c
        /\ phase[c] \in Running /\ ~owed[c]
  BY NoneAssumption DEF Taken, Sound, TypeOK, Wiring, RegistryIsLive, OwesOnce
<1>3. OwesOnce'
  BY <1>1, <1>2 DEF OwesOnce
<1>4. ASSUME NEW k \in Key PROVE BalanceKept(k)
  <2>1. CASE k \in keys /\ announced[k]
    <3>1. PICK c \in Conn : c = registry[k] /\ ckey[c] = k /\ c \in Taken(keys)
      BY <2>1 DEF Sound, TypeOK, Wiring, RegistryIsLive, Taken
    <3>2. ~Owes(c, k) /\ Owes(c, k)'
      BY <1>1, <1>2, <2>1, <3>1 DEF Owes
    <3>3. \A o \in Conn \ {c} : Owes(o, k)' <=> Owes(o, k)
      BY <1>1, <1>2, <3>1 DEF Owes
    <3> QED BY <1>1, <2>1, <3>2, <3>3 DEF BalanceKept
  <2>2. CASE ~(k \in keys /\ announced[k])
    <3>1. announced'[k] = announced[k]
      BY <1>1, <2>2 DEF Sound, TypeOK
    <3>2. \A o \in Conn : Owes(o, k)' <=> Owes(o, k)
      BY <1>1, <1>2, <2>2 DEF Owes
    <3> QED BY <3>1, <3>2 DEF BalanceKept
  <2> QED BY <2>1, <2>2
<1> QED BY <1>3, <1>4

(* A step in which nobody comes to owe and nothing is emitted. *)
Silent ==
    /\ \A c \in Conn, k \in Key : Owes(c, k)' <=> Owes(c, k)
    /\ UNCHANGED <<sessions, announced>>

LEMMA SilentKeeps == Silent => \A k \in Key : BalanceKept(k)
BY DEF Silent, BalanceKept

LEMMA BalanceConnection ==
    ASSUME Sound, OwesOnce, NEW c \in Conn,
           \/ \E k \in Inbound : handle_inbound(c, k)
           \/ FirstFrame(c) \/ PumpEnds(c) \/ force_close(c) \/ ConnectionStep(c)
           \/ drop_connection(c, "app")
    PROVE  OwesOnce' /\ \A k \in Key : BalanceKept(k)
<1> USE DEF Sound, TypeOK, OwesOnce
<1>1. ASSUME NEW k \in Inbound, handle_inbound(c, k) PROVE OwesOnce' /\ Silent
  BY <1>1 DEF handle_inbound, BeginConnection, FreeConn, Silent, Owes
<1>2. CASE FirstFrame(c) \/ SendStep1(c) \/ PumpEnds(c)
  <2>1. OwesOnce' /\ Silent
    BY <1>2 DEF FirstFrame, SendStep1, Advance, PumpEnds, Silent, Owes
  <2> QED BY <2>1, SilentKeeps
<1>3. CASE force_close(c)
  <2>1. /\ ckey[c] \in Key /\ registry[ckey[c]] = c /\ phase[c] \in Running
        /\ remover[c] = "none" /\ ~owed[c]
    BY <1>3, NoneAssumption DEF force_close, StillMine, Wiring, RegistryIsLive
  <2>2. /\ remover' = [remover EXCEPT ![c] = "fan"]
        /\ owed' = [owed EXCEPT ![c] = announced[ckey[c]]]
        /\ announced' = [announced EXCEPT ![ckey[c]] = FALSE]
        /\ UNCHANGED <<phase, ckey, sessions>>
    BY <1>3 DEF force_close
  <2>3. OwesOnce'
    BY <2>1, <2>2
  <2>4. ASSUME NEW k \in Key PROVE BalanceKept(k)
    <3>1. \A o \in Conn \ {c} : Owes(o, k)' <=> Owes(o, k)
      BY <2>2 DEF Owes
    <3>2. CASE k = ckey[c] /\ announced[k]
      BY <2>1, <2>2, <3>1, <3>2 DEF BalanceKept, Owes
    <3>3. CASE ~(k = ckey[c] /\ announced[k])
      <4>1. Owes(c, k)' <=> Owes(c, k)
        BY <2>1, <2>2, <3>3 DEF Owes
      <4>2. announced'[k] = announced[k]
        BY <2>1, <2>2, <3>3
      <4> QED BY <2>2, <3>1, <4>1, <4>2 DEF BalanceKept
    <3> QED BY <3>2, <3>3
  <2> QED BY <2>3, <2>4
<1>4. CASE Register(c)
  <2>1. ckey[c] \in Key /\ phase[c] = "fetched"
    BY <1>4 DEF Register
  <2>2. announced' = announced
    BY <1>4, <2>1 DEF Register, Carried, Wiring, RegistryIsLive
  <2>3. OwesOnce' /\ Silent
    BY <1>4, <2>1, <2>2 DEF Register, Silent, Owes
  <2> QED BY <2>3, SilentKeeps
<1>5. CASE Refuse(c)
  <2>1. OwesOnce' /\ Silent
    BY <1>5 DEF Refuse, ForgetKey, Silent, Owes
  <2> QED BY <2>1, SilentKeeps
<1>6. CASE HangUpDisplaced(c)
  <2>1. OwesOnce' /\ Silent
    BY <1>6 DEF HangUpDisplaced, Silent, Owes
  <2> QED BY <2>1, SilentKeeps
<1>7. CASE try_announce(c)
  <2>1. ckey[c] \in Key /\ phase[c] = "announce"
    BY <1>7 DEF try_announce
  <2>2. OwesOnce' /\ \A o \in Conn, k \in Key : Owes(o, k)' <=> Owes(o, k)
    BY <1>7 DEF try_announce, Owes
  <2>3. CASE StillMine(c)
    <3>1. /\ announced' = [announced EXCEPT ![ckey[c]] = TRUE]
          /\ sessions' = [sessions EXCEPT ![ckey[c]] = IF announced[ckey[c]] THEN @ ELSE @ + 1]
      BY <1>7, <2>3 DEF try_announce, EmitConnected
    <3> QED BY <2>1, <2>2, <3>1 DEF BalanceKept
  <2>4. CASE ~StillMine(c)
    <3>1. Silent
      BY <1>7, <2>2, <2>4 DEF try_announce, Silent
    <3> QED BY <2>2, <3>1, SilentKeeps
  <2> QED BY <2>3, <2>4
<1>8. CASE finish_connection(c)
  <2>1. ckey[c] \in Key /\ phase[c] = "close"
    BY <1>8 DEF finish_connection
  <2>2. UNCHANGED <<ckey, remover, owed, sessions>>
    BY <1>8 DEF finish_connection
  <2>3. CASE StillMine(c) /\ announced[ckey[c]]
    <3>1. /\ phase' = [phase EXCEPT ![c] = "bye"]
          /\ announced' = [announced EXCEPT ![ckey[c]] = FALSE]
      BY <1>8, <2>3 DEF finish_connection
    <3>2. remover[c] = "none" /\ ~owed[c]
      BY <2>1, <2>3, NoneAssumption DEF StillMine, Wiring, RegistryIsLive
    <3>3. OwesOnce'
      BY <2>2, <3>1, <3>2
    <3>4. ASSUME NEW k \in Key PROVE BalanceKept(k)
      <4>1. \A o \in Conn \ {c} : Owes(o, k)' <=> Owes(o, k)
        BY <2>2, <3>1 DEF Owes
      <4>2. CASE k = ckey[c]
        <5>1. ~Owes(c, k) /\ Owes(c, k)'
          BY <2>1, <2>2, <3>1, <3>2, <4>2 DEF Owes
        <5> QED BY <2>2, <2>3, <3>1, <4>1, <4>2, <5>1 DEF BalanceKept
      <4>3. CASE k # ckey[c]
        <5>1. Owes(c, k)' <=> Owes(c, k)
          BY <2>2, <4>3 DEF Owes
        <5>2. announced'[k] = announced[k]
          BY <3>1, <4>3
        <5> QED BY <2>2, <4>1, <5>1, <5>2 DEF BalanceKept
      <4> QED BY <4>2, <4>3
    <3> QED BY <3>3, <3>4
  <2>4. CASE ~(StillMine(c) /\ announced[ckey[c]])
    <3>0. phase' = [phase EXCEPT ![c] = "redial"]
      BY <1>8, <2>4 DEF finish_connection
    <3>1. announced' = announced
      <4>1. CASE StillMine(c)
        <5>1. announced[ckey[c]] = FALSE
          BY <2>1, <2>4, <4>1
        <5>2. announced' = [announced EXCEPT ![ckey[c]] = FALSE]
          BY <1>8, <4>1 DEF finish_connection
        <5> QED BY <2>1, <5>1, <5>2
      <4>2. CASE ~StillMine(c)
        BY <1>8, <4>2 DEF finish_connection
      <4> QED BY <4>1, <4>2
    <3>2. OwesOnce' /\ Silent
      BY <2>1, <2>2, <3>0, <3>1 DEF Silent, Owes
    <3> QED BY <3>2, SilentKeeps
  <2> QED BY <2>3, <2>4
<1>9. CASE SayDisconnected(c)
  <2>1. /\ ckey[c] \in Key /\ phase[c] = "bye" /\ ~owed[c]
        /\ phase' = [phase EXCEPT ![c] = "redial"]
        /\ sessions' = [sessions EXCEPT ![ckey[c]] = @ - 1]
        /\ UNCHANGED <<ckey, owed, remover, announced>>
    BY <1>9 DEF SayDisconnected, EmitDisconnected
  <2>2. OwesOnce'
    BY <2>1
  <2>3. ASSUME NEW k \in Key PROVE BalanceKept(k)
    <3>1. \A o \in Conn \ {c} : Owes(o, k)' <=> Owes(o, k)
      BY <2>1 DEF Owes
    <3>2. CASE k = ckey[c]
      BY <2>1, <3>1, <3>2 DEF BalanceKept, Owes
    <3>3. CASE k # ckey[c]
      <4>1. Owes(c, k)' <=> Owes(c, k)
        BY <2>1, <3>3 DEF Owes
      <4> QED BY <2>1, <3>1, <3>3, <4>1 DEF BalanceKept
    <3> QED BY <3>2, <3>3
  <2> QED BY <2>2, <2>3
<1>10. CASE Redial(c)
  <2>1. OwesOnce' /\ Silent
    BY <1>10 DEF Redial, ForgetKey, Silent, Owes
  <2> QED BY <2>1, SilentKeeps
<1>11. ASSUME NEW by \in {"app", "fan"}, drop_connection(c, by)
       PROVE  OwesOnce' /\ \A k \in Key : BalanceKept(k)
  <2>1. /\ remover[c] = by /\ ckey[c] \in Key
        /\ remover' = [remover EXCEPT ![c] = "none"]
        /\ owed' = [owed EXCEPT ![c] = FALSE]
        /\ ckey' = [ckey EXCEPT ![c] = IF phase[c] = "off" THEN None ELSE @]
        /\ UNCHANGED <<phase, announced>>
    BY <1>11 DEF drop_connection
  <2>2. OwesOnce'
    BY <2>1
  <2>3. CASE owed[c]
    <3>1. sessions' = [sessions EXCEPT ![ckey[c]] = @ - 1]
      BY <1>11, <2>3 DEF drop_connection, EmitDisconnected
    <3>2. ASSUME NEW k \in Key PROVE BalanceKept(k)
      <4>1. \A o \in Conn \ {c} : Owes(o, k)' <=> Owes(o, k)
        BY <2>1 DEF Owes
      <4>2. ~Owes(c, k)'
        BY <2>1, <2>3 DEF Owes
      <4>3. Owes(c, k) <=> k = ckey[c]
        BY <2>3 DEF Owes
      <4>4. announced'[k] = announced[k] /\ sessions'[k] = IF k = ckey[c] THEN sessions[k] - 1 ELSE sessions[k]
        BY <2>1, <3>1
      <4> QED BY <4>1, <4>2, <4>3, <4>4 DEF BalanceKept
    <3> QED BY <2>2, <3>2
  <2>4. CASE ~owed[c]
    <3>1. UNCHANGED sessions
      BY <1>11, <2>4 DEF drop_connection
    <3>2. Silent
      BY <2>1, <2>4, <3>1 DEF Silent, Owes
    <3> QED BY <2>2, <3>2, SilentKeeps
  <2> QED BY <2>3, <2>4
<1> HIDE DEF Sound, TypeOK, OwesOnce
<1> QED
  BY <1>1, <1>2, <1>3, <1>4, <1>5, <1>6, <1>7, <1>8, <1>9, <1>10, <1>11, SilentKeeps
  DEF ConnectionStep

LEMMA BalanceStep ==
    Sound /\ OwesOnce /\ Balanced /\ [Next]_vars => OwesOnce' /\ Balanced'
<1>BalanceKeeps. ASSUME Sound, Balanced, \A k \in Key : BalanceKept(k)
                 PROVE  Balanced'
  <2> USE <1>BalanceKeeps
  <2> SUFFICES ASSUME NEW k \in Key
               PROVE  /\ IsFiniteSet(Owing(k)')
                      /\ sessions'[k] = (IF announced'[k] THEN 1 ELSE 0) + Cardinality(Owing(k)')
    BY DEF Balanced
  <2>1. /\ IsFiniteSet(Owing(k)) /\ Cardinality(Owing(k)) \in Nat
        /\ sessions[k] = (IF announced[k] THEN 1 ELSE 0) + Cardinality(Owing(k))
    BY FS_CardinalityType DEF Balanced
  <2>2. Owing(k) = {c \in Conn : Owes(c, k)} /\ Owing(k)' = {c \in Conn : Owes(c, k)'}
    BY DEF Owing, Owes
  <2> DEFINE B == Owing(k)
             A == Owing(k)'
  <2>3. CASE \A c \in Conn : Owes(c, k)' <=> Owes(c, k)
    <3>1. A = B
      BY <2>2, <2>3
    <3>2. ~ \E c \in Conn : (~Owes(c, k) /\ Owes(c, k)') \/ (Owes(c, k) /\ ~Owes(c, k)')
      BY <2>3
    <3>3. \/ sessions'[k] = sessions[k] /\ announced'[k] = announced[k]
          \/ sessions'[k] = sessions[k] + 1 /\ announced'[k] /\ ~announced[k]
      BY <3>2 DEF BalanceKept
    <3> QED BY <2>1, <3>1, <3>3
  <2>4. ASSUME NEW c \in Conn, ~Owes(c, k), Owes(c, k)',
               \A o \in Conn \ {c} : Owes(o, k)' <=> Owes(o, k),
               sessions'[k] = sessions[k] /\ ~announced'[k] /\ announced[k]
        PROVE  IsFiniteSet(A) /\ sessions'[k] = (IF announced'[k] THEN 1 ELSE 0) + Cardinality(A)
    <3>1. A = B \cup {c} /\ c \notin B
      BY <2>2, <2>4
    <3>2. IsFiniteSet(A) /\ Cardinality(A) = Cardinality(B) + 1
      BY <2>1, <3>1, FS_AddElement
    <3> QED BY <2>1, <2>4, <3>2
  <2>5. ASSUME NEW c \in Conn, Owes(c, k), ~Owes(c, k)',
               \A o \in Conn \ {c} : Owes(o, k)' <=> Owes(o, k),
               sessions'[k] = sessions[k] - 1 /\ announced'[k] = announced[k]
        PROVE  IsFiniteSet(A) /\ sessions'[k] = (IF announced'[k] THEN 1 ELSE 0) + Cardinality(A)
    <3>1. A = B \ {c} /\ c \in B
      BY <2>2, <2>5
    <3>2. IsFiniteSet(A) /\ Cardinality(A) = Cardinality(B) - 1
      BY <2>1, <3>1, FS_RemoveElement
    <3> QED BY <2>1, <2>5, <3>2
  <2>6. BalanceKept(k)
    OBVIOUS
  <2> QED BY <2>3, <2>4, <2>5, <2>6 DEF BalanceKept
<1> SUFFICES ASSUME Sound, OwesOnce, Balanced, [Next]_vars
             PROVE  OwesOnce' /\ \A k \in Key : BalanceKept(k)
  BY <1>BalanceKeeps
<1>1. ASSUME UNCHANGED <<ckey, phase, remover, owed, sessions, announced>>
      PROVE  OwesOnce' /\ \A k \in Key : BalanceKept(k)
  <2>1. OwesOnce' /\ Silent
    BY <1>1 DEF OwesOnce, Silent, Owes
  <2> QED BY <2>1, SilentKeeps
<1>2. CASE App
  <2>1. ASSUME NEW p \in Peer, NEW trusted \in BOOLEAN, set_trusted(p, trusted)
        PROVE  OwesOnce' /\ \A k \in Key : BalanceKept(k)
    <3>1. CASE trusted
      BY <1>1, <2>1, <3>1 DEF set_trusted, connVars
    <3>2. CASE ~trusted
      BY <2>1, <3>2, BalanceTaken, {<<p, Devices>>} \in SUBSET Key DEF set_trusted
    <3> QED BY <3>1, <3>2
  <2>2. ASSUME NEW r \in Room, leave_room(r) PROVE OwesOnce' /\ \A k \in Key : BalanceKept(k)
    <3>1. {k \in Key : ScopeOf(k) = r} \in SUBSET Key
      OBVIOUS
    <3> QED BY <2>2, <3>1, BalanceTaken DEF leave_room
  <2>3. ASSUME NEW r \in Room, join_room(r) PROVE OwesOnce' /\ \A k \in Key : BalanceKept(k)
    BY <1>1, <2>3 DEF join_room, connVars
  <2>4. ASSUME NEW p \in Peer,
               peer_lost(p) \/ \E rooms \in SUBSET Room : peer_discovered(p, rooms)
        PROVE  OwesOnce' /\ \A k \in Key : BalanceKept(k)
    BY <1>1, <2>4 DEF peer_lost, peer_discovered, connVars
  <2> QED BY <1>2, <2>1, <2>2, <2>3, <2>4 DEF App
<1>3. CASE AppFinish
  <2>1. ASSUME NEW c \in Conn, drop_connection(c, "app")
        PROVE  OwesOnce' /\ \A k \in Key : BalanceKept(k)
    BY <2>1, BalanceConnection
  <2> QED BY <1>1, <1>3, <2>1 DEF AppFinish, CancelDialer, SpawnDialer, DropDoc, connVars
<1>4. ASSUME NEW d \in Dialer, DialStep(d) \/ DialOutcome(d)
      PROVE  OwesOnce' /\ \A k \in Key : BalanceKept(k)
  <2>1. ASSUME NEW c \in Conn, NEW k, BeginConnection(c, k, d) PROVE OwesOnce' /\ Silent
    BY <2>1 DEF BeginConnection, FreeConn, OwesOnce, Silent, Owes, Sound, TypeOK
  <2>2. ASSUME ~ \E c \in Conn, p \in Peer : DialSucceeds(d, c, p)
        PROVE  UNCHANGED <<ckey, phase, remover, owed, sessions, announced>>
    BY <1>4, <2>2 DEF DialStep, DialOutcome, DialCancelled, dial_target, remove_dialer_entry,
       DialFails, DialAdvance, DialEnds, DialResumes, connVars
  <2> QED BY <1>1, <2>1, <2>2, SilentKeeps DEF DialSucceeds
<1>5. CASE UNCHANGED vars
  BY <1>1, <1>5 DEF vars, connVars
<1> QED BY <1>2, <1>3, <1>4, <1>5, BalanceConnection DEF Next

(* Every session the app was told of is ended by exactly one
   PeerDisconnected, or still has exactly one task that owes it: however
   many takeovers, distrusts, leaves and full queues the pair sees. *)
THEOREM SessionsCorrect == Spec => []SessionsBalance
<1>1. Init => OwesOnce /\ Balanced
  <2> SUFFICES ASSUME Init PROVE OwesOnce /\ Balanced
    OBVIOUS
  <2>1. \A k \in Key : Owing(k) = {} /\ sessions[k] = 0 /\ ~announced[k]
    BY DEF Init, Owing
  <2>2. IsFiniteSet({}) /\ Cardinality({}) = 0
    BY FS_EmptySet
  <2>3. Balanced
    BY <2>1, <2>2 DEF Balanced
  <2> QED BY <2>3 DEF Init, OwesOnce
<1>2. Balanced => SessionsBalance
  BY DEF Balanced, SessionsBalance
<1> QED BY <1>1, <1>2, BalanceStep, SpecSound, PTL DEF Spec

=============================================================================
