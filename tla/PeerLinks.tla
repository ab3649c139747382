----------------------------- MODULE PeerLinks -----------------------------
(***************************************************************************)
(* What the peer registry promises, without tasks, locks or sockets: a     *)
(* pair (peer, scope) has at most one link, a link exists only while the   *)
(* pair is welcome, and withdrawing the welcome takes the link away in the *)
(* same step.  A link that replaces another keeps its standing: once the   *)
(* app was told of the peer, it stays told until the link is gone.         *)
(***************************************************************************)
CONSTANT Pair

VARIABLES
    welcome,  \* the pairs trust and room membership accept
    link      \* the link of each pair

vars == <<welcome, link>>

Standing == {"none", "registered", "announced"}

Init ==
    /\ welcome \in SUBSET Pair
    /\ link = [k \in Pair |-> "none"]

Welcome(S) ==
    /\ welcome' = welcome \cup S
    /\ UNCHANGED link

Withdraw(S) ==
    /\ welcome' = welcome \ S
    /\ link' = [k \in Pair |-> IF k \in S THEN "none" ELSE link[k]]

(* A new link, or one that takes over from the current one. *)
Open(k) ==
    /\ k \in welcome
    /\ link' = [link EXCEPT ![k] = IF @ = "announced" THEN "announced" ELSE "registered"]
    /\ UNCHANGED welcome

Announce(k) ==
    /\ link[k] # "none"
    /\ link' = [link EXCEPT ![k] = "announced"]
    /\ UNCHANGED welcome

Close(k) ==
    /\ link' = [link EXCEPT ![k] = "none"]
    /\ UNCHANGED welcome

Next ==
    \/ \E S \in SUBSET Pair : Welcome(S) \/ Withdraw(S)
    \/ \E k \in Pair : Open(k) \/ Announce(k) \/ Close(k)

Spec == Init /\ [][Next]_vars

=============================================================================
