------------------------------ MODULE WebUiMC ------------------------------
(* Values for the instances of PeerRows and WebUi that TLC checks.  The first
   question is about a device under two names (it was renamed), the second
   about the devices page while that device has one name, the third about the
   page of a room that is joined and left. *)
EXTENDS WebUi

CONSTANTS p, old, new, i

Owners == [n \in Fullname |-> p]

VARIABLE question

AskedInit ==
    /\ UiInit
    /\ question \in {"rows", "devices", "room"}
    /\ question # "rows" => view = question
    /\ question # "room" => view = "devices" /\ ~joined

AskedNext ==
    /\ UNCHANGED question
    /\ UiNext
    /\ question = "rows" => UNCHANGED <<scopes, docs, page>>
    /\ question = "devices" =>
        /\ UNCHANGED joined
        /\ by_fullname' \subseteq {old} /\ latest'[p] \in {i, Nothing}
    /\ question = "room" => UNCHANGED <<browsing, connected>>

AskedSpec == AskedInit /\ [][AskedNext]_<<uiVars, question>>

=============================================================================
