----------------------------- MODULE MeetingMC -----------------------------
(* Values for the instance of Meeting that TLC checks: one other room, before
   the meeting room in name order, and a TXT budget for one of them. *)
EXTENDS Meeting

Earlier == {1}
Sizes   == [r \in Other \cup {Room} |-> 1]

=============================================================================
