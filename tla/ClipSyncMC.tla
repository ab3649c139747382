----------------------------- MODULE ClipSyncMC -----------------------------
(* Values for the instances of ClipSync that TLC checks. *)
EXTENDS ClipSync

CONSTANTS a, b, c, x1, x2, x3

TwoDialing  == {<<a, b>>}
MeshDialing == {<<a, b>>, <<a, c>>, <<b, c>>}

AllByA == [x \in Item |-> a]
OneByB == [x \in Item |-> IF x = x1 THEN b ELSE a]

(* These links are up and all documents are empty, as after the handshakes. *)
Up(links) ==
    /\ made = {} /\ needs = [x \in Item |-> {}]
    /\ doc = [d \in Device |-> {}] /\ parked = [d \in Device |-> {}]
    /\ bus = [d \in Device |-> <<>>] /\ lagged = [d \in Device |-> FALSE]
    /\ open = links /\ side = [l \in Linked |-> IF l \in links THEN "pumping" ELSE "off"]
    /\ out = [l \in Linked |-> <<>>] /\ sending = out /\ wire = out /\ late = out
    /\ stray = [l \in Linked |-> {}] /\ guests = stray /\ restarts = 0

ConnectedInit == Up(Linked) /\ faults = 0

(* Three devices that are all connected, in a circle, and to which nothing
   happens; or in a line, c between the other two, with one fault to come. *)
MeshInit ==
    \/ Up(Linked) /\ faults = MaxFaults
    \/ Up({l \in Linked : c \in {l[1], l[2]}}) /\ faults = 0

(* The line lasts: nothing is explored after a and b connect. *)
CircleOrLine == <<a, b>> \in open => \A l \in Linked : side[l] = "pumping"

(* Three items fill the queues; two are enough for a restart. *)
RestartsAreSmall == restarts > 0 => x3 \notin made

MeshSpec      == MeshInit /\ [][Next]_vars /\ Fairness
ConnectedSpec == ConnectedInit /\ [][Next]_vars /\ Fairness

=============================================================================
