--------------------------- MODULE SyncManagerMC ---------------------------
(* Values for the instances of SyncManager that TLC checks. *)
EXTENDS SyncManager, TLC

Symmetry == Permutations(Conn) \cup Permutations(Dialer) \cup Permutations(Doc)

AnyList   == SUBSET Peer
EmptyList == {{}}

AllKeys  == Key
RoomKeys == {k \in Key : ScopeOf(k) # Devices}
NoKeys   == {}

AllCalls  == {"trust", "room", "discovery"}
RoomCalls == {"room", "discovery"}
JustRooms == {"room"}
Discovery == {"discovery"}

(***************************************************************************)
(* One run for two scenarios, which meet in nothing but the tasks they     *)
(* use: the peer connects in the personal scope while its trust and its    *)
(* presence change, or, untrusted there, in a room that is joined and left *)
(* and advertised or not.                                                  *)
(***************************************************************************)
InUse == ({ckey[c] : c \in Conn} \cup {dkey[d] : d \in Dialer}) \ {None}

DevicesOnly ==
    /\ joined = {} /\ leaving = None /\ \A p \in Peer : advertised[p] = {}
    /\ \A k \in InUse : ScopeOf(k) = Devices

RoomsOnly ==
    /\ listed = Peer
    /\ \A k \in InUse : ScopeOf(k) # Devices

Apart == DevicesOnly \/ RoomsOnly

=============================================================================
