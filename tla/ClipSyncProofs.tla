---------------------------- MODULE ClipSyncProofs ----------------------------
(***************************************************************************)
(* Proofs about ClipSync, for any devices and links between them, any      *)
(* items, capacities and numbers of failures and restarts: the types, and  *)
(* that over a connection that lasts no update is missed but those parked  *)
(* of a third device.                                                      *)
(***************************************************************************)
EXTENDS ClipSync, SequenceTheorems, TLAPS

(* The elements of a sequence; the order within a buffer plays no part in what
   follows. *)
Among(s) == {s[i] : i \in DOMAIN s}

LEMMA AmongSeq ==
    ASSUME NEW S, NEW s \in Seq(S), NEW t \in Seq(S)
    PROVE  /\ Among(s) \subseteq S
           /\ Among(<<>>) = {}
           /\ \A e \in S : Append(s, e) \in Seq(S) /\ Among(Append(s, e)) = Among(s) \cup {e}
           /\ \A e \in S : <<e>> \in Seq(S) /\ Among(<<e>>) = {e}
           /\ s \o t \in Seq(S) /\ Among(s \o t) = Among(s) \cup Among(t)
           /\ s # <<>> => /\ Head(s) \in S /\ Tail(s) \in Seq(S)
                          /\ Among(s) = {Head(s)} \cup Among(Tail(s))
<1>1. Among(s) \subseteq S /\ Among(<<>>) = {}
    BY DEF Among
<1>2. ASSUME NEW e \in S
      PROVE  /\ Append(s, e) \in Seq(S) /\ Among(Append(s, e)) = Among(s) \cup {e}
             /\ <<e>> \in Seq(S) /\ Among(<<e>>) = {e}
    <2>1. /\ Append(s, e) \in Seq(S) /\ Len(Append(s, e)) = Len(s) + 1
          /\ \A i \in 1..Len(s) : Append(s, e)[i] = s[i]
          /\ Append(s, e)[Len(s) + 1] = e
        BY AppendProperties
    <2>2. DOMAIN s = 1..Len(s) /\ DOMAIN Append(s, e) = 1..(Len(s) + 1) /\ Len(s) \in Nat
        BY <2>1, LenProperties
    <2>3. Among(Append(s, e)) = Among(s) \cup {e}
        BY <2>1, <2>2 DEF Among
    <2>4. <<e>> \in Seq(S) /\ Among(<<e>>) = {e}
        BY DEF Among
    <2> QED BY <2>1, <2>3, <2>4
<1>3. s \o t \in Seq(S) /\ Among(s \o t) = Among(s) \cup Among(t)
    <2>1. /\ s \o t \in Seq(S) /\ Len(s \o t) = Len(s) + Len(t)
          /\ \A i \in 1..(Len(s) + Len(t)) : (s \o t)[i] = IF i <= Len(s) THEN s[i] ELSE t[i - Len(s)]
        BY ConcatProperties
    <2>2. /\ DOMAIN s = 1..Len(s) /\ DOMAIN t = 1..Len(t) /\ DOMAIN (s \o t) = 1..(Len(s) + Len(t))
          /\ Len(s) \in Nat /\ Len(t) \in Nat
        BY <2>1, LenProperties
    <2>3. ASSUME NEW i \in DOMAIN t PROVE t[i] \in Among(s \o t)
        <3>1. Len(s) + i \in 1..(Len(s) + Len(t)) /\ (s \o t)[Len(s) + i] = t[i]
            BY <2>1, <2>2
        <3> QED BY <2>2, <3>1 DEF Among
    <2>4. ASSUME NEW i \in DOMAIN s PROVE s[i] \in Among(s \o t)
        BY <2>1, <2>2 DEF Among
    <2>5. Among(s \o t) \subseteq Among(s) \cup Among(t)
        <3> SUFFICES ASSUME NEW i \in 1..(Len(s) + Len(t)) PROVE (s \o t)[i] \in Among(s) \cup Among(t)
            BY <2>2 DEF Among
        <3>1. CASE i <= Len(s)
            BY <2>1, <2>2, <3>1 DEF Among
        <3>2. CASE ~(i <= Len(s))
            <4>1. i - Len(s) \in 1..Len(t) /\ (s \o t)[i] = t[i - Len(s)]
                BY <2>1, <2>2, <3>2
            <4> QED BY <2>2, <4>1 DEF Among
        <3> QED BY <3>1, <3>2
    <2> QED BY <2>1, <2>3, <2>4, <2>5 DEF Among
<1>4. ASSUME s # <<>>
      PROVE  Head(s) \in S /\ Tail(s) \in Seq(S) /\ Among(s) = {Head(s)} \cup Among(Tail(s))
    <2>1. /\ Head(s) \in S /\ Tail(s) \in Seq(S) /\ Len(Tail(s)) = Len(s) - 1
          /\ \A i \in 1..Len(Tail(s)) : Tail(s)[i] = s[i + 1]
        BY <1>4, HeadTailProperties
    <2>2. /\ DOMAIN s = 1..Len(s) /\ DOMAIN Tail(s) = 1..(Len(s) - 1)
          /\ Len(s) \in Nat /\ Len(s) > 0 /\ Head(s) = s[1]
        BY <1>4, <2>1, LenProperties, EmptySeq
    <2>3. ASSUME NEW i \in DOMAIN s PROVE s[i] = Head(s) \/ s[i] \in Among(Tail(s))
        <3>1. CASE i = 1
            BY <2>2, <3>1
        <3>2. CASE i # 1
            <4>1. i - 1 \in 1..Len(Tail(s)) /\ Tail(s)[i - 1] = s[i]
                BY <2>1, <2>2, <3>2
            <4> QED BY <2>1, <2>2, <4>1 DEF Among
        <3> QED BY <3>1, <3>2
    <2>4. ASSUME NEW i \in DOMAIN Tail(s) PROVE Tail(s)[i] \in Among(s)
        <3>1. i + 1 \in DOMAIN s /\ Tail(s)[i] = s[i + 1]
            BY <2>1, <2>2
        <3> QED BY <3>1 DEF Among
    <2> QED BY <2>1, <2>2, <2>3, <2>4 DEF Among
<1> QED BY <1>1, <1>2, <1>3, <1>4

(* A link and its way back; frames and updates are what they should be. *)
LEMMA Ways ==
    /\ \A l \in Linked : /\ l[1] \in Device /\ l[2] \in Device /\ l[1] # l[2]
                         /\ Back(l) \in Linked /\ Back(Back(l)) = l
                         /\ Back(l)[1] = l[2] /\ Back(l)[2] = l[1]
    /\ \A l, m \in Linked : l[1] = m[1] /\ l[2] = m[2] => l = m
    /\ \A S \in SUBSET Item :
          /\ Data(S) \in Frame /\ Data(S).kind = "data" /\ Data(S).items = S
          /\ Step1(S) \in Frame /\ Step1(S).kind = "step1" /\ Step1(S).items = S
BY DialingAssumption DEF Linked, Back, Frame, Data, Step1

Connected(l) == side[l] \in {"registered", "pumping"}

(* Sockets only end: whoever still takes itself to be connected lost nothing. *)
LEMMA Ended ==
    ASSUME TypeOK, NEW links \in SUBSET Linked, NEW removed \in SUBSET Linked, NEW deaf,
           EndSockets(links, removed, deaf)
    PROVE  /\ open' \subseteq open /\ side' \in [Linked -> Side]
           /\ {sending', wire', late'} \subseteq [Linked -> Seq(Frame)]
           /\ \A l \in Linked : sending'[l] \in {sending[l], <<>>} /\ wire'[l] \in {wire[l], <<>>}
           /\ \A l \in Linked : Connected(l)' =>
                 /\ side'[l] = side[l] /\ l \in open' /\ l \notin removed
                 /\ sending'[l] = sending[l]
                 /\ wire'[l] = wire[l] /\ wire'[Back(l)] = wire[Back(l)]
<1> DEFINE both == links \cup {Back(l) : l \in links}
<1>1. both \subseteq Linked /\ \A l \in Linked : l \in both => Back(l) \in both
    BY Ways
<1>2. /\ open' = open \ both
      /\ \A l \in Linked :
            /\ side'[l] = IF l \in removed THEN "off"
                          ELSE IF l \in both /\ side[l] # "off" /\ l \in open THEN "stale"
                          ELSE side[l]
            /\ sending'[l] = IF l \in both \/ l \in removed THEN <<>> ELSE sending[l]
            /\ late'[l] \in {late[l], wire[l], <<>>}
            /\ wire'[l] = IF l \in both THEN <<>> ELSE wire[l]
      /\ side' = [l \in Linked |-> side'[l]] /\ sending' = [l \in Linked |-> sending'[l]]
      /\ wire' = [l \in Linked |-> wire'[l]] /\ late' = [l \in Linked |-> late'[l]]
    BY DEF EndSockets
<1>3. side \in [Linked -> Side] /\ \A l \in Linked : Connected(l) => l \in open
    BY DEF TypeOK, Connected
<1>4. side' \in [Linked -> Side]
    <2>1. \A l \in Linked : side'[l] \in Side
        BY <1>2, <1>3 DEF Side
    <2> QED BY <1>2, <2>1
<1>5. ASSUME NEW l \in Linked, Connected(l)'
      PROVE  l \notin both /\ l \notin removed /\ side'[l] = side[l] /\ l \in open
    BY <1>2, <1>3, <1>5 DEF Connected
<1>6. \A l \in Linked : l \notin both => Back(l) \notin both
    BY <1>1, Ways
<1>7. {sending', wire', late'} \subseteq [Linked -> Seq(Frame)]
    <2>1. /\ {sending, wire, late} \subseteq [Linked -> Seq(Frame)] /\ <<>> \in Seq(Frame)
        BY EmptySeq DEF TypeOK
    <2>2. \A l \in Linked : /\ sending'[l] \in Seq(Frame) /\ wire'[l] \in Seq(Frame)
                             /\ late'[l] \in Seq(Frame)
        BY <1>2, <2>1
    <2>3. sending' \in [Linked -> Seq(Frame)]
        BY <1>2, <2>2
    <2>4. wire' \in [Linked -> Seq(Frame)]
        BY <1>2, <2>2
    <2>5. late' \in [Linked -> Seq(Frame)]
        BY <1>2, <2>2
    <2> QED BY <2>3, <2>4, <2>5
<1> QED BY <1>2, <1>4, <1>5, <1>6, <1>7, Ways

-----------------------------------------------------------------------------
Queues ==
    /\ {out, sending, wire, late} \subseteq [Linked -> Seq(Frame)]
    /\ \A l \in Linked : /\ Len(out[l]) <= QueueCap /\ Len(sending[l]) <= 1
                         /\ Connected(l) => l \in open

DocTypeOK ==
    /\ made \subseteq Item
    /\ needs \in [Item -> SUBSET Item]
    /\ doc \in [Device -> SUBSET Item]
    /\ parked \in [Device -> SUBSET Item]
    /\ bus \in [Device -> Seq(Update)] /\ \A d \in Device : Len(bus[d]) <= BusCap
    /\ lagged \in [Device -> BOOLEAN]
    /\ guests \in [Linked -> SUBSET Item]

(* Every variable has its type in every reachable state; queues keep to their
   capacities and who takes itself to be connected has a socket, or lost it
   unnoticed. *)
THEOREM ClipTypeCorrect == Spec => []TypeOK
<1>1. Init => TypeOK
    <2> SUFFICES ASSUME Init PROVE TypeOK
        OBVIOUS
    <2>1. /\ <<>> \in Seq(Frame) /\ <<>> \in Seq(Update) /\ Len(<<>>) = 0
          /\ BusCap \in Nat /\ QueueCap \in Nat /\ MaxFaults \in Nat /\ MaxRestarts \in Nat
        BY EmptySeq, CapAssumption
    <2>2. \A d \in Device : bus[d] = <<>>
        BY DEF Init
    <2>3. \A l \in Linked : out[l] = <<>> /\ sending[l] = <<>> /\ wire[l] = <<>> /\ late[l] = <<>>
        BY DEF Init
    <2>4. side \in [Linked -> Side] /\ \A l \in Linked : side[l] = "off"
        BY DEF Init, Side
    <2> QED BY <2>1, <2>2, <2>3, <2>4 DEF Init, TypeOK
<1>2. TypeOK /\ [Next]_vars => TypeOK'
    <2> SUFFICES ASSUME TypeOK, [Next]_vars PROVE TypeOK'
        OBVIOUS
    <2>a. /\ DocTypeOK /\ open \subseteq Linked /\ side \in [Linked -> Side]
          /\ Queues
          /\ stray \in [Linked -> SUBSET Item]
          /\ faults \in 0..MaxFaults /\ restarts \in 0..MaxRestarts
        BY DEF TypeOK, DocTypeOK, Queues, Connected
    <2>b. ASSUME DocTypeOK', open' \subseteq Linked, side' \in [Linked -> Side],
                 Queues',
                 stray' \in [Linked -> SUBSET Item],
                 faults' \in 0..MaxFaults, restarts' \in 0..MaxRestarts
          PROVE  TypeOK'
        BY <2>b DEF TypeOK, DocTypeOK, Queues, Connected
    <2>c. /\ BusCap \in Nat \ {0} /\ QueueCap \in Nat /\ MaxFaults \in Nat /\ MaxRestarts \in Nat
        BY CapAssumption
    <2>h. /\ <<>> \in Seq(Frame) /\ <<>> \in Seq(Update)
          /\ Len(<<>>) <= QueueCap /\ Len(<<>>) <= BusCap /\ Len(<<>>) <= 1
        BY <2>c, EmptySeq
    <2>d. ASSUME NEW d \in Device, NEW new \in SUBSET Item, NEW origin \in Device \cup {None},
                 Publish(d, new, origin)
          PROVE  /\ bus' \in [Device -> Seq(Update)] /\ \A e \in Device : Len(bus'[e]) <= BusCap
                 /\ lagged' \in [Device -> BOOLEAN]
        <3>1. CASE new = {}
            BY <2>a, <2>d, <3>1 DEF Publish, DocTypeOK
        <3>2. CASE new # {}
            <4> DEFINE u == [items |-> new, origin |-> origin]
                       rest == IF Len(bus[d]) = BusCap THEN Tail(bus[d]) ELSE bus[d]
            <4>1. bus[d] \in Seq(Update) /\ Len(bus[d]) <= BusCap /\ Len(bus[d]) \in Nat /\ u \in Update
                BY <2>a, LenProperties DEF DocTypeOK, Update
            <4>2. rest \in Seq(Update) /\ Len(rest) \in Nat /\ Len(rest) < BusCap
                <5>1. CASE Len(bus[d]) = BusCap
                    <6>1. bus[d] # <<>>
                        BY <2>c, <5>1, EmptySeq
                    <6> QED BY <2>c, <4>1, <5>1, <6>1, HeadTailProperties
                <5> QED BY <2>c, <4>1, <5>1
            <4>3. Append(rest, u) \in Seq(Update) /\ Len(Append(rest, u)) <= BusCap
                <5> HIDE DEF u, rest
                <5> QED BY <2>c, <4>1, <4>2, AppendProperties
            <4>4. /\ \A e \in Device : bus'[e] = IF e = d THEN Append(rest, u) ELSE bus[e]
                  /\ bus' = [e \in Device |-> bus'[e]] /\ lagged' \in [Device -> BOOLEAN]
                BY <2>a, <2>d, <3>2 DEF Publish, Broadcast, DocTypeOK
            <4>5. \A e \in Device : bus'[e] \in Seq(Update) /\ Len(bus'[e]) <= BusCap
                <5> HIDE DEF u, rest
                <5> QED BY <2>a, <4>3, <4>4 DEF DocTypeOK
            <4> QED BY <4>4, <4>5
        <3> QED BY <3>1, <3>2
    <2>e. ASSUME NEW l \in Linked, NEW items \in SUBSET Item, apply_update(l[1], items, l[2])
          PROVE  DocTypeOK'
        <3> DEFINE held == Snapshot(l[1]) \cup items
                   next == Integrable(held)
        <3>1. held \subseteq Item /\ next \subseteq held
            BY <2>a, Ways DEF DocTypeOK, Snapshot, Integrable
        <3>2. Publish(l[1], next \ doc[l[1]], l[2])
            BY <2>e DEF apply_update
        <3>3. /\ bus' \in [Device -> Seq(Update)] /\ \A e \in Device : Len(bus'[e]) <= BusCap
              /\ lagged' \in [Device -> BOOLEAN]
            <4> HIDE DEF next
            <4> QED BY <2>d, <3>1, <3>2, Ways
        <3>4. doc' \in [Device -> SUBSET Item] /\ parked' \in [Device -> SUBSET Item]
            <4> HIDE DEF next
            <4>1. doc' = [doc EXCEPT ![l[1]] = next] /\ parked' = [parked EXCEPT ![l[1]] = held \ next]
                BY <2>e DEF apply_update, next
            <4> QED BY <2>a, <3>1, <4>1, Ways DEF DocTypeOK
        <3>5. guests' \in [Linked -> SUBSET Item]
            <4>1. \A m \in Linked : guests[m] \subseteq Item
                BY <2>a DEF DocTypeOK
            <4> HIDE DEF next
            <4>2. guests' = [m \in Linked |->
                               IF m[1] = l[1] /\ m[2] # l[2]
                               THEN (guests[m] \cup (items \ Snapshot(l[1]))) \ (next \ doc[l[1]])
                               ELSE guests[m]]
                BY <2>e DEF apply_update, next
            <4> QED BY <4>1, <4>2
        <3> QED BY <2>a, <2>e, <3>3, <3>4, <3>5 DEF DocTypeOK, apply_update
    <2>f. ASSUME NEW links \in SUBSET Linked, NEW removed \in SUBSET Linked, NEW deaf,
                 EndSockets(links, removed, deaf),
                 out' \in [Linked -> Seq(Frame)], \A l \in Linked : Len(out'[l]) <= QueueCap
          PROVE  open' \subseteq Linked /\ side' \in [Linked -> Side] /\ Queues'
        <3>1. /\ open' \subseteq open /\ side' \in [Linked -> Side]
              /\ {sending', wire', late'} \subseteq [Linked -> Seq(Frame)]
              /\ \A l \in Linked : sending'[l] \in {sending[l], <<>>} /\ (Connected(l)' => l \in open')
            BY <2>f, Ended
        <3>2. \A l \in Linked : Len(sending'[l]) <= 1
            BY <2>a, <2>h, <3>1 DEF Queues
        <3> QED BY <2>a, <2>f, <3>1, <3>2 DEF Queues
    <2>g. ASSUME NEW d \in Device, NEW origin \in Device \cup {None}, NEW frames \in Seq(Frame),
                 send_to_peers(Targets(d, origin), frames)
          PROVE  open' \subseteq Linked /\ side' \in [Linked -> Side] /\ Queues'
        <3> DEFINE targets == Targets(d, origin)
                   full == {l \in targets : Len(out[l]) + Len(frames) > QueueCap}
        <3>1. full \subseteq Linked /\ {l \in full : l \in open /\ side[l] # "stale"} \subseteq Linked
            BY DEF Targets
        <3>2. out' \in [Linked -> Seq(Frame)] /\ \A l \in Linked : Len(out'[l]) <= QueueCap
            <4>1. out' = [l \in Linked |-> IF l \in full THEN <<>>
                                          ELSE IF l \in targets THEN out[l] \o frames
                                          ELSE out[l]]
                BY <2>g DEF send_to_peers
            <4>2. \A l \in Linked : /\ out[l] \o frames \in Seq(Frame)
                                    /\ Len(out[l] \o frames) = Len(out[l]) + Len(frames)
                                    /\ Len(out[l]) \in Nat /\ Len(frames) \in Nat
                BY <2>a, ConcatProperties, LenProperties DEF Queues
            <4>3. \A l \in Linked : l \in targets /\ l \notin full => Len(out[l] \o frames) <= QueueCap
                BY <2>c, <4>2
            <4> HIDE DEF targets, full
            <4>4. \A l \in Linked : out'[l] \in Seq(Frame) /\ Len(out'[l]) <= QueueCap
                BY <2>a, <2>h, <4>1, <4>2, <4>3 DEF Queues
            <4> QED BY <4>1, <4>4
        <3>3. EndSockets({l \in full : l \in open /\ side[l] # "stale"}, full, {})
            BY <2>g DEF send_to_peers
        <3> QED BY <2>f, <3>1, <3>2, <3>3
    <2>1. ASSUME NEW d \in Device, NEW x \in Item, add_entry(d, x) PROVE TypeOK'
        <3>1. /\ bus' \in [Device -> Seq(Update)] /\ \A e \in Device : Len(bus'[e]) <= BusCap
              /\ lagged' \in [Device -> BOOLEAN]
            BY <2>1, <2>d DEF add_entry
        <3>2. Queues'
            BY <2>1, <2>a DEF add_entry, linkVars, Queues, Connected
        <3> QED BY <2>1, <2>a, <2>b, <3>1, <3>2 DEF add_entry, linkVars, seenVars, DocTypeOK
    <2>2. ASSUME NEW l \in Linked, Connect(l) PROVE TypeOK'
        <3>1. Queues'
            BY <2>2, <2>a DEF Connect, Queues, Connected
        <3>2. Back(l) \in Linked
            BY Ways
        <3> QED BY <2>2, <2>a, <2>b, <3>1, <3>2 DEF Connect, docVars, seenVars, DocTypeOK
    <2>3. ASSUME NEW l \in Linked, Register(l) PROVE TypeOK'
        <3>2. Queues'
            BY <2>3, <2>a, <2>h DEF Register, Queues, Connected
        <3> QED BY <2>3, <2>a, <2>b, <3>2 DEF Register, docVars, seenVars, DocTypeOK, Side
    <2>4. ASSUME NEW l \in Linked, SendStep1(l) PROVE TypeOK'
        <3>1. Append(wire[l], Step1(doc[l[1]])) \in Seq(Frame)
            BY <2>a, Ways, AmongSeq DEF DocTypeOK, Queues
        <3>2. Queues'
            BY <2>4, <2>a, <3>1 DEF SendStep1, Queues, Connected
        <3> QED BY <2>4, <2>a, <2>b, <3>2, Ways DEF SendStep1, docVars, DocTypeOK, Side
    <2>5. ASSUME NEW l \in Linked, Dequeue(l) PROVE TypeOK'
        <3>1. /\ Head(out[l]) \in Frame /\ Tail(out[l]) \in Seq(Frame)
              /\ Len(Tail(out[l])) <= QueueCap
            BY <2>5, <2>a, <2>c, HeadTailProperties, LenProperties DEF Dequeue, Queues
        <3>2. <<Head(out[l])>> \in Seq(Frame) /\ Len(<<Head(out[l])>>) = 1
            BY <3>1
        <3>3. Queues'
            BY <2>5, <2>a, <3>1, <3>2 DEF Dequeue, Queues, Connected
        <3> QED BY <2>5, <2>a, <2>b, <3>3 DEF Dequeue, docVars, seenVars, DocTypeOK
    <2>6. ASSUME NEW l \in Linked, Receive(l) PROVE TypeOK'
        <3> DEFINE in == Back(l)
                   frame == Head(wire[in])
        <3>1. frame \in Frame /\ Tail(wire[in]) \in Seq(Frame) /\ in \in Linked
            BY <2>6, <2>a, Ways, HeadTailProperties DEF Receive, Queues
        <3>2. frame.items \subseteq Item
            BY <3>1 DEF Frame
        <3> HIDE DEF frame
        <3>3. /\ wire' = [wire EXCEPT ![in] = Tail(@)]
              /\ UNCHANGED <<open, side, out, late, stray, faults, restarts>>
            BY <2>6 DEF Receive
        <3>4. CASE sending' = [sending EXCEPT ![l] = <<Data(diff(l[1], frame.items))>>]
                     /\ UNCHANGED <<docVars, guests>>
            <4>1. diff(l[1], frame.items) \in SUBSET Item
                BY <2>a, Ways DEF DocTypeOK, diff, Snapshot
            <4>2. /\ <<Data(diff(l[1], frame.items))>> \in Seq(Frame)
                  /\ Len(<<Data(diff(l[1], frame.items))>>) = 1
                BY <4>1, Ways
            <4>3. Queues'
                BY <2>a, <3>1, <3>3, <3>4, <4>2 DEF Queues, Connected
            <4> QED BY <2>a, <2>b, <3>3, <3>4, <4>3 DEF docVars, DocTypeOK
        <3>5. CASE apply_update(l[1], frame.items, l[2]) /\ UNCHANGED sending
            <4>1. Queues'
                BY <2>a, <3>1, <3>3, <3>5 DEF Queues, Connected
            <4>2. DocTypeOK'
                BY <2>e, <3>2, <3>5
            <4> QED BY <2>a, <2>b, <3>3, <4>1, <4>2
        <3> QED BY <2>6, <3>4, <3>5 DEF Receive, frame
    <2>7. ASSUME NEW l \in Linked, Written(l) PROVE TypeOK'
        <3>1. sending[l][1] \in Frame
            BY <2>7, <2>a, HeadTailProperties DEF Written, Queues
        <3>2. Append(wire[l], sending[l][1]) \in Seq(Frame) /\ <<>> \in Seq(Frame) /\ Len(<<>>) = 0
            BY <2>a, <3>1, AmongSeq, EmptySeq DEF Queues
        <3>3. Queues'
            BY <2>7, <2>a, <3>2 DEF Written, Queues, Connected
        <3> QED BY <2>7, <2>a, <2>b, <3>3 DEF Written, docVars, seenVars, DocTypeOK
    <2>8. ASSUME NEW l \in Linked, ReceiveLate(l) PROVE TypeOK'
        <3> DEFINE in == Back(l)
                   frame == Head(late[in])
        <3>1. frame \in Frame /\ Tail(late[in]) \in Seq(Frame) /\ in \in Linked
            BY <2>8, <2>a, Ways, HeadTailProperties DEF ReceiveLate, Queues
        <3>2. frame.items \subseteq Item
            BY <3>1 DEF Frame
        <3> HIDE DEF frame
        <3>3. /\ late' = [late EXCEPT ![in] = Tail(@)]
              /\ UNCHANGED <<open, side, out, sending, wire, faults, restarts>>
            BY <2>8 DEF ReceiveLate
        <3>4. Queues'
            BY <2>a, <3>1, <3>3 DEF Queues, Connected
        <3>5. CASE /\ apply_update(l[1], frame.items, l[2])
                   /\ stray' = [stray EXCEPT ![l] = @ \cup (frame.items \ Snapshot(l[2]))]
            <4>1. DocTypeOK'
                BY <2>e, <3>2, <3>5
            <4>2. stray' \in [Linked -> SUBSET Item]
                BY <2>a, <3>2, <3>5
            <4> QED BY <2>a, <2>b, <3>3, <3>4, <4>1, <4>2
        <3>6. CASE UNCHANGED <<docVars, seenVars>>
            BY <2>a, <2>b, <3>3, <3>4, <3>6 DEF docVars, seenVars, DocTypeOK
        <3> QED BY <2>8, <3>5, <3>6 DEF ReceiveLate, frame
    <2>9. ASSUME NEW l \in Linked, finish_connection(l) PROVE TypeOK'
        <3>1. /\ \/ /\ side' = [side EXCEPT ![l] = "off"]
                    /\ out' = [out EXCEPT ![l] = <<>>]
                 \/ UNCHANGED <<side, out>>
              /\ late' = [late EXCEPT ![Back(l)] = <<>>]
              /\ UNCHANGED <<open, sending, wire>>
            BY <2>9 DEF finish_connection
        <3>2. Queues'
            <4>2. late' \in [Linked -> Seq(Frame)]
                BY <2>a, <2>h, <3>1 DEF Queues
            <4>3. out' \in [Linked -> Seq(Frame)] /\ \A m \in Linked : Len(out'[m]) <= QueueCap
                BY <2>a, <2>h, <3>1 DEF Queues
            <4>4. \A m \in Linked : Connected(m)' => m \in open'
                BY <2>a, <3>1 DEF Queues, Connected
            <4> QED BY <2>a, <3>1, <4>2, <4>3, <4>4 DEF Queues
        <3> QED BY <2>9, <2>a, <2>b, <3>1, <3>2 DEF finish_connection, docVars, seenVars, DocTypeOK, Side
    <2>10. ASSUME NEW l \in Linked, IdleTimeout(l) PROVE TypeOK'
        <3>1. out' \in [Linked -> Seq(Frame)] /\ \A m \in Linked : Len(out'[m]) <= QueueCap
            BY <2>10, <2>a, <2>h DEF IdleTimeout, Queues
        <3>2. open' \subseteq Linked /\ side' \in [Linked -> Side] /\ Queues'
            BY <2>10, <2>f, <3>1 DEF IdleTimeout
        <3>3. faults' \in 0..MaxFaults
            BY <2>10, <2>a, <2>c DEF IdleTimeout
        <3> QED BY <2>10, <2>a, <2>b, <3>2, <3>3 DEF IdleTimeout, docVars, seenVars, DocTypeOK
    <2>11. ASSUME NEW d \in Device, FanOut(d) PROVE TypeOK'
        <3> DEFINE u == Head(bus[d])
        <3>1. u \in Update /\ Tail(bus[d]) \in Seq(Update) /\ Len(Tail(bus[d])) <= BusCap
            BY <2>11, <2>a, <2>c, HeadTailProperties, LenProperties DEF FanOut, DocTypeOK
        <3>2. u.origin \in Device \cup {None} /\ u.items \in SUBSET Item
            BY <3>1 DEF Update
        <3>3. <<Data(u.items)>> \in Seq(Frame)
            BY <3>2, Ways
        <3>4. send_to_peers(Targets(d, u.origin), <<Data(u.items)>>)
            BY <2>11 DEF FanOut
        <3> HIDE DEF u
        <3>5. open' \subseteq Linked /\ side' \in [Linked -> Side] /\ Queues'
            BY <2>g, <3>2, <3>3, <3>4
        <3>6. DocTypeOK'
            BY <2>11, <2>a, <3>1 DEF FanOut, seenVars, DocTypeOK
        <3> QED BY <2>11, <2>a, <2>b, <3>5, <3>6 DEF FanOut, seenVars
    <2>12. ASSUME NEW d \in Device, Lagged(d) PROVE TypeOK'
        <3>1. Data(Snapshot(d)) \in Frame /\ Step1(doc[d]) \in Frame
            BY <2>a, Ways DEF DocTypeOK, Snapshot
        <3>2. <<Data(Snapshot(d)), Step1(doc[d])>> \in Seq(Frame)
            BY <3>1
        <3>3. open' \subseteq Linked /\ side' \in [Linked -> Side] /\ Queues'
            BY <2>12, <2>g, <3>2 DEF Lagged, Resync
        <3>4. DocTypeOK'
            BY <2>12, <2>a DEF Lagged, seenVars, DocTypeOK
        <3> QED BY <2>12, <2>a, <2>b, <3>3, <3>4 DEF Lagged, seenVars
    <2>13. ASSUME NEW l \in Linked, Break(l) PROVE TypeOK'
        <3>1. open' \subseteq Linked /\ side' \in [Linked -> Side] /\ Queues'
            BY <2>13, <2>a, <2>f DEF Break, Queues
        <3>2. faults' \in 0..MaxFaults
            BY <2>13, <2>a, <2>c DEF Break
        <3> QED BY <2>13, <2>a, <2>b, <3>1, <3>2 DEF Break, docVars, seenVars, DocTypeOK
    <2>14. ASSUME NEW d \in Device, Restart(d) PROVE TypeOK'
        <3> DEFINE mine == {l \in Linked : l[1] = d}
        <3>2. EndSockets(mine, mine, mine) /\ out' = [l \in Linked |-> IF l \in mine THEN <<>> ELSE out[l]]
            BY <2>14 DEF Restart
        <3>3. out' \in [Linked -> Seq(Frame)] /\ \A l \in Linked : Len(out'[l]) <= QueueCap
            BY <2>a, <2>h, <3>2 DEF Queues
        <3>4. open' \subseteq Linked /\ side' \in [Linked -> Side] /\ Queues'
            BY <2>f, <3>2, <3>3
        <3>5. faults' \in 0..MaxFaults /\ restarts' \in 0..MaxRestarts
            BY <2>14, <2>a, <2>c DEF Restart
        <3>6. DocTypeOK' /\ stray' \in [Linked -> SUBSET Item]
            BY <2>14, <2>a, <2>h DEF Restart, DocTypeOK
        <3> QED BY <2>b, <3>4, <3>5, <3>6
    <2>15. CASE UNCHANGED vars
        <3>1. Queues'
            BY <2>15, <2>a DEF vars, linkVars, Queues, Connected
        <3> QED BY <2>15, <2>a, <2>b, <3>1 DEF vars, docVars, linkVars, seenVars, DocTypeOK
    <2> QED
        BY <2>1, <2>2, <2>3, <2>4, <2>5, <2>6, <2>7, <2>8, <2>9, <2>10, <2>11, <2>12, <2>13, <2>14,
           <2>15 DEF Next, Connection, Pump, Relay
<1> QED BY <1>1, <1>2, PTL DEF Spec

-----------------------------------------------------------------------------
(***************************************************************************)
(* Nothing is missed.  What flows over a link is followed as sets: In(l)   *)
(* are the frames in its three buffers, Heading what the fan-out task has  *)
(* yet to hand to it.                                                      *)
(***************************************************************************)
In(l) == Among(sending[l]) \cup Among(wire[l]) \cup Among(out[l])
Asks(l) == \E f \in In(l) : f.kind = "step1"
Brings(l, x) == \E f \in In(l) : f.kind = "data" /\ x \in f.items
Heading(l, x) == \E u \in Among(bus[l[1]]) : u.origin # l[2] /\ x \in u.items
Coming(l) == side[Back(l)] = "registered" \/ Asks(Back(l)) \/ lagged[l[1]]
Reaches(l, x) ==
    x \in Snapshot(l[2]) \/ Brings(l, x) \/ Heading(l, x) \/ x \in stray[l] \/ x \in guests[l]

(* Both ways of a socket end together. *)
Paired == \A l \in open : Back(l) \in open
(* Nothing under way is more than its sender has. *)
Sent   == \A l \in Linked : \A f \in In(l) : f.items \subseteq Snapshot(l[1])
Posted == \A d \in Device : \A u \in Among(bus[d]) : u.items \subseteq Snapshot(d)
(* A pump whose peer does not pump yet has its question in the socket. *)
Asked  == \A l \in Linked :
            Pumping(Back(l)) /\ ~Pumping(l) => \E f \in Among(wire[Back(l)]) : f.kind = "step1"
(* The heart: parked items count too, on both sides. *)
Held(l) == Live(l) /\ ~Coming(l) => \A x \in Snapshot(l[1]) : Reaches(l, x)

NothingLost == Paired /\ Sent /\ Posted /\ Asked /\ \A l \in Linked : Held(l)

(* Sockets end and frames are queued, ... *)
Cuts(links, removed, deaf, targets, frames) ==
    /\ EndSockets(links, removed, deaf)
    /\ \A l \in removed : Connected(l) => l \in links
    /\ \A l \in Linked : out'[l] = IF l \in removed THEN <<>>
                                   ELSE IF l \in targets THEN out[l] \o frames
                                   ELSE out[l]

(* ... but of the links that stay connected nothing is lost. *)
LEMMA Cut ==
    ASSUME TypeOK, Paired, Asked,
           NEW links \in SUBSET Linked, NEW removed \in SUBSET Linked, NEW deaf,
           NEW targets, NEW frames \in Seq(Frame), Cuts(links, removed, deaf, targets, frames)
    PROVE  /\ Paired' /\ Asked'
           /\ \A l \in Linked : In(l)' \subseteq In(l) \cup (IF l \in targets THEN Among(frames) ELSE {})
           /\ \A l \in Linked : Connected(l)' =>
                 /\ side'[l] = side[l]
                 /\ In(l)' = In(l) \cup (IF l \in targets THEN Among(frames) ELSE {})
<1> DEFINE both == links \cup {Back(l) : l \in links}
           more(l) == IF l \in targets THEN Among(frames) ELSE {}
<1>1. /\ both \subseteq Linked /\ open \subseteq Linked
      /\ \A l \in Linked : l \in both <=> Back(l) \in both
    BY Ways DEF TypeOK
<1>2. /\ open' = open \ both
      /\ \A l \in Linked : l \notin both /\ l \notin removed => side'[l] = side[l]
      /\ \A l \in Linked : l \notin both => wire'[l] = wire[l]
    BY DEF Cuts, EndSockets
<1>3. /\ \A l \in Linked : /\ sending'[l] \in {sending[l], <<>>}
                           /\ wire'[l] \in {wire[l], <<>>}
      /\ \A l \in Linked : Connected(l)' =>
            /\ side'[l] = side[l] /\ l \in open' /\ l \notin removed
            /\ sending'[l] = sending[l] /\ wire'[l] = wire[l]
    BY Ended DEF Cuts
<1>4. Paired'
    BY <1>1, <1>2 DEF Paired
<1>5. ASSUME NEW l \in Linked, Pumping(Back(l))', ~Pumping(l)'
      PROVE  \E f \in Among(wire[Back(l)])' : f.kind = "step1"
    <2>1. Back(l) \in Linked /\ Connected(Back(l))' /\ Back(Back(l)) = l
        BY <1>5, Ways DEF Pumping, Connected
    <2>2. /\ Pumping(Back(l)) /\ Back(l) \notin both /\ l \in open /\ l \notin both
          /\ wire'[Back(l)] = wire[Back(l)]
        BY <1>1, <1>2, <1>3, <1>4, <1>5, <2>1 DEF Pumping, Paired
    <2>3. ~Pumping(l)
        <3>1. l \notin removed \/ ~Connected(l)
            BY <2>2 DEF Cuts
        <3> QED BY <1>2, <1>5, <2>2, <3>1 DEF Pumping, Connected
    <2> QED BY <2>2, <2>3 DEF Asked, Among
<1>6. ASSUME NEW l \in Linked
      PROVE  /\ In(l)' \subseteq In(l) \cup more(l)
             /\ Connected(l)' => In(l)' = In(l) \cup more(l)
    <2>1. out[l] \in Seq(Frame) /\ <<>> \in Seq(Frame)
        BY EmptySeq DEF TypeOK
    <2>2. Among(out[l] \o frames) = Among(out[l]) \cup Among(frames) /\ Among(<<>>) = {}
        BY <2>1, AmongSeq
    <2>3. In(l)' = Among(sending'[l]) \cup Among(wire'[l]) \cup Among(out'[l])
        BY DEF In, Among
    <2>4. /\ Among(sending'[l]) \subseteq Among(sending[l])
          /\ Among(wire'[l]) \subseteq Among(wire[l])
          /\ Connected(l)' => /\ Among(sending'[l]) = Among(sending[l])
                              /\ Among(wire'[l]) = Among(wire[l])
        BY <1>3, <2>2
    <2>5. /\ Among(out'[l]) \subseteq Among(out[l]) \cup more(l)
          /\ Connected(l)' => Among(out'[l]) = Among(out[l]) \cup more(l)
        BY <1>3, <2>2 DEF Cuts
    <2> HIDE DEF more
    <2> QED BY <2>3, <2>4, <2>5 DEF In
<1> QED BY <1>3, <1>4, <1>5, <1>6 DEF Asked

(* An update goes onto the bus; if another has to go, the fan-out task is told
   and will push everything. *)
LEMMA Published ==
    ASSUME TypeOK, NEW d \in Device, NEW new \in SUBSET Item, NEW origin \in Device \cup {None},
           Publish(d, new, origin)
    PROVE  /\ \A e \in Device : lagged[e] => lagged'[e]
           /\ \A e \in Device : \A u \in Among(bus[e]) : u \in Among(bus'[e]) \/ lagged'[e]
           /\ \A e \in Device : \A u \in Among(bus'[e]) :
                 u \in Among(bus[e]) \/ (e = d /\ u = [items |-> new, origin |-> origin])
           /\ new # {} => [items |-> new, origin |-> origin] \in Among(bus'[d])
<1>1. CASE new = {}
    BY <1>1 DEF Publish
<1>2. CASE new # {}
    <2> DEFINE u == [items |-> new, origin |-> origin]
               rest == IF Len(bus[d]) = BusCap THEN Tail(bus[d]) ELSE bus[d]
    <2>1. bus[d] \in Seq(Update) /\ u \in Update /\ Len(bus[d]) \in Nat /\ BusCap \in Nat \ {0}
        BY CapAssumption, LenProperties DEF TypeOK, Update
    <2>2. rest \in Seq(Update) /\ Among(rest) \subseteq Among(bus[d])
        <3>1. CASE Len(bus[d]) = BusCap
            <4>1. bus[d] # <<>>
                BY <2>1, <3>1, EmptySeq
            <4>2. Tail(bus[d]) \in Seq(Update) /\ Among(bus[d]) = {Head(bus[d])} \cup Among(Tail(bus[d]))
                BY <2>1, <4>1, AmongSeq
            <4> QED BY <3>1, <4>2
        <3>2. CASE Len(bus[d]) # BusCap
            BY <2>1, <3>2
        <3> QED BY <3>1, <3>2
    <2>3. Among(Append(rest, u)) = Among(rest) \cup {u}
        <3> HIDE DEF rest, u
        <3> QED BY <2>1, <2>2, AmongSeq
    <2>4. /\ \A e \in Device : bus'[e] = IF e = d THEN Append(rest, u) ELSE bus[e]
          /\ \A e \in Device : lagged'[e] = (lagged[e] \/ (e = d /\ Len(bus[d]) = BusCap))
        BY <1>2 DEF Publish, Broadcast, TypeOK
    <2>5. Len(bus[d]) = BusCap \/ rest = bus[d]
        OBVIOUS
    <2> HIDE DEF rest
    <2> QED BY <2>2, <2>3, <2>4, <2>5
<1> QED BY <1>1, <1>2

(* What an applied update brings is in the document or parked; for the other
   links of the device it is on the bus or remembered in guests. *)
LEMMA Applied ==
    ASSUME TypeOK, Posted, NEW l \in Linked, NEW items \in SUBSET Item,
           apply_update(l[1], items, l[2])
    PROVE  /\ \A d \in Device : Snapshot(d)' = IF d = l[1] THEN Snapshot(d) \cup items ELSE Snapshot(d)
           /\ Posted'
           /\ \A d \in Device : lagged[d] => lagged'[d]
           /\ \A m \in Linked, x \in Item : Heading(m, x) => Heading(m, x)' \/ lagged'[m[1]]
           /\ \A m \in Linked, x \in Item : x \in guests[m] => Heading(m, x)' \/ x \in guests'[m]
           /\ \A m \in Linked, x \in items :
                 m[1] = l[1] /\ m # l =>
                    x \in Snapshot(l[1]) \/ Heading(m, x)' \/ x \in guests'[m]
<1> DEFINE held == Snapshot(l[1]) \cup items
           next == Integrable(held)
           new  == next \ doc[l[1]]
           u    == [items |-> new, origin |-> l[2]]
<1>1. /\ l[1] \in Device /\ l[2] \in Device
      /\ \A m \in Linked : m[1] \in Device /\ m[2] \in Device /\ (m[1] = l[1] /\ m # l => m[2] # l[2])
    BY Ways
<1>2. next \subseteq held /\ held \subseteq Item
    BY <1>1 DEF Integrable, Snapshot, TypeOK
<1>3. /\ doc' = [doc EXCEPT ![l[1]] = next] /\ parked' = [parked EXCEPT ![l[1]] = held \ next]
      /\ Publish(l[1], new, l[2])
      /\ guests' = [m \in Linked |->
                      IF m[1] = l[1] /\ m[2] # l[2]
                      THEN (guests[m] \cup (items \ Snapshot(l[1]))) \ new
                      ELSE guests[m]]
    BY DEF apply_update
<1>4. \A d \in Device : Snapshot(d)' = IF d = l[1] THEN Snapshot(d) \cup items ELSE Snapshot(d)
    <2> HIDE DEF next
    <2> QED BY <1>1, <1>2, <1>3 DEF Snapshot, TypeOK
<1>5. /\ \A e \in Device : lagged[e] => lagged'[e]
      /\ \A e \in Device : \A v \in Among(bus[e]) : v \in Among(bus'[e]) \/ lagged'[e]
      /\ \A e \in Device : \A v \in Among(bus'[e]) : v \in Among(bus[e]) \/ (e = l[1] /\ v = u)
      /\ new # {} => u \in Among(bus'[l[1]])
    <2> HIDE DEF next
    <2>1. new \in SUBSET Item
        BY <1>2
    <2> HIDE DEF new
    <2> QED BY <1>1, <1>3, <2>1, Published
<1>6. Posted'
    <2> SUFFICES ASSUME NEW e \in Device, NEW v \in Among(bus'[e]) PROVE v.items \subseteq Snapshot(e)'
        BY DEF Posted, Among
    <2>1. new \subseteq Snapshot(l[1])'
        BY <1>1, <1>2, <1>4
    <2>2. CASE v \in Among(bus[e])
        BY <1>4, <2>2 DEF Posted
    <2>3. CASE e = l[1] /\ v = u
        <3> HIDE DEF new
        <3> QED BY <2>1, <2>3
    <2> QED BY <1>5, <2>2, <2>3
<1>7. \A m \in Linked, x \in Item : Heading(m, x) => Heading(m, x)' \/ lagged'[m[1]]
    <2> HIDE DEF new
    <2> SUFFICES ASSUME NEW m \in Linked, NEW x \in Item, Heading(m, x), ~lagged'[m[1]]
                 PROVE  Heading(m, x)'
        OBVIOUS
    <2>1. PICK v \in Among(bus[m[1]]) : v.origin # m[2] /\ x \in v.items
        BY DEF Heading
    <2>2. v \in Among(bus[m[1]])'
        BY <1>1, <1>5, <2>1 DEF Among
    <2> QED BY <2>1, <2>2 DEF Heading
<1>8. ASSUME NEW m \in Linked, NEW x \in new, m[1] = l[1], m[2] # l[2]
      PROVE  Heading(m, x)'
    <2>1. u \in Among(bus[m[1]])' /\ u.origin # m[2] /\ x \in u.items
        <3> HIDE DEF next
        <3> QED BY <1>5, <1>8 DEF Among
    <2> QED BY <2>1 DEF Heading
<1>9. \A m \in Linked, x \in Item : x \in guests[m] => Heading(m, x)' \/ x \in guests'[m]
    <2> HIDE DEF new
    <2> QED BY <1>3, <1>8
<1>10. \A m \in Linked, x \in items :
          m[1] = l[1] /\ m # l => x \in Snapshot(l[1]) \/ Heading(m, x)' \/ x \in guests'[m]
    <2> HIDE DEF new
    <2> QED BY <1>1, <1>3, <1>8
<1> QED BY <1>4, <1>5, <1>6, <1>7, <1>9, <1>10

(* In every reachable state, whatever the number of devices: between two ends
   that are up, what one has the other has, or it is on its way, or one of the
   two known exceptions applies (stray, guests). *)
LEMMA NothingLostStep == TypeOK /\ TypeOK' /\ NothingLost /\ [Next]_vars => NothingLost'
<1> SUFFICES ASSUME TypeOK, TypeOK', NothingLost, [Next]_vars PROVE NothingLost'
    OBVIOUS
<1>a. Paired /\ Sent /\ Posted /\ Asked /\ \A m \in Linked : Held(m)
    BY DEF NothingLost
<1>t. /\ \A m \in Linked : /\ sending[m] \in Seq(Frame) /\ wire[m] \in Seq(Frame)
                           /\ out[m] \in Seq(Frame) /\ late[m] \in Seq(Frame)
                           /\ In(m) \subseteq Frame
      /\ \A d \in Device : doc[d] \subseteq Item /\ Snapshot(d) \subseteq Item /\ bus[d] \in Seq(Update)
    BY AmongSeq DEF TypeOK, In, Snapshot
<1>n. /\ \A m \in Linked : In(m)' = Among(sending'[m]) \cup Among(wire'[m]) \cup Among(out'[m])
      /\ Among(<<>>) = {} /\ \A f \in Frame : Among(<<f>>) = {f}
    BY DEF In, Among
(* Nothing but the buffers of links that are not up changes for the worse. *)
<1>k. ASSUME NEW m \in Linked, Live(m)' => Live(m),
             Live(m)' /\ Coming(m) => Coming(m)',
             Snapshot(m[1])' = Snapshot(m[1]), Snapshot(m[2]) \subseteq Snapshot(m[2])',
             stray[m] \subseteq stray'[m], guests[m] \subseteq guests'[m],
             \A x \in Item : Live(m)' /\ Heading(m, x) => Reaches(m, x)' \/ Coming(m)',
             \A x \in Item : Live(m)' /\ Brings(m, x) => Reaches(m, x)' \/ Coming(m)'
      PROVE  Held(m)'
    <2> SUFFICES ASSUME Live(m)', ~Coming(m)', NEW x \in Snapshot(m[1]) PROVE Reaches(m, x)'
        BY <1>k DEF Held
    <2>1. x \in Item
        BY <1>t, Ways
    <2>2. Reaches(m, x)
        BY <1>a, <1>k DEF Held
    <2> QED BY <1>k, <2>1, <2>2 DEF Reaches
(* An update is applied. *)
<1>u. ASSUME NEW l \in Linked, NEW items \in SUBSET Item, apply_update(l[1], items, l[2]),
             UNCHANGED <<open, side>>,
             \A m \in Linked : In(m)' \subseteq In(m) /\ stray[m] \subseteq stray'[m],
             \A m \in Linked : \A f \in In(m) :
                f \in In(m)' \/ (m = Back(l) /\ f.kind = "data" /\ f.items \subseteq items),
             \A m \in Linked : \A f \in Among(wire[m]) : f \in Among(wire'[m]) \/ f.kind = "data",
             items \subseteq Snapshot(l[2]) \cup stray'[l]
      PROVE  NothingLost'
    <2>1. /\ \A d \in Device : Snapshot(d)' = IF d = l[1] THEN Snapshot(d) \cup items ELSE Snapshot(d)
          /\ Posted'
          /\ \A d \in Device : lagged[d] => lagged'[d]
          /\ \A m \in Linked, x \in Item : Heading(m, x) => Heading(m, x)' \/ lagged'[m[1]]
          /\ \A m \in Linked, x \in Item : x \in guests[m] => Heading(m, x)' \/ x \in guests'[m]
          /\ \A m \in Linked, x \in items :
                m[1] = l[1] /\ m # l => x \in Snapshot(l[1]) \/ Heading(m, x)' \/ x \in guests'[m]
        BY <1>a, <1>u, Applied
    <2>2. Paired'
        BY <1>a, <1>u DEF Paired
    <2>3. Sent'
        <3> SUFFICES ASSUME NEW m \in Linked, NEW f \in In(m)' PROVE f.items \subseteq Snapshot(m[1])'
            BY DEF Sent
        <3>1. f \in In(m) /\ m[1] \in Device
            BY <1>u, Ways
        <3> QED BY <1>a, <2>1, <3>1 DEF Sent
    <2>4. Asked'
        <3> SUFFICES ASSUME NEW m \in Linked, Pumping(Back(m))', ~Pumping(m)'
                     PROVE  \E f \in Among(wire[Back(m)])' : f.kind = "step1"
            BY DEF Asked
        <3>1. PICK f \in Among(wire[Back(m)]) : f.kind = "step1"
            BY <1>a, <1>u DEF Asked, Pumping
        <3>2. f \in Among(wire[Back(m)])'
            BY <1>u, <3>1, Ways DEF Among
        <3> QED BY <3>1, <3>2
    <2>5. ASSUME NEW m \in Linked PROVE Held(m)'
        <3> SUFFICES ASSUME Live(m)', ~Coming(m)', NEW x \in Snapshot(m[1])' PROVE Reaches(m, x)'
            BY DEF Held
        <3>1. /\ m[1] \in Device /\ m[2] \in Device /\ m[1] # m[2] /\ Back(m) \in Linked
              /\ Back(l) \in Linked /\ Back(l)[2] = l[1] /\ l[1] \in Device /\ l[2] \in Device
            BY Ways
        <3>2. x \in Item /\ Snapshot(m[2]) \subseteq Snapshot(m[2])'
            BY <1>t, <1>u, <2>1, <3>1
        <3>3. Live(m) /\ ~Coming(m)
            <4>1. Live(m)
                BY <1>u DEF Live
            <4>2. Asks(Back(m)) => Asks(Back(m))'
                BY <1>u, <3>1 DEF Asks
            <4> QED BY <1>u, <2>1, <3>1, <4>1, <4>2 DEF Coming
        <3>4. CASE x \in Snapshot(m[1])
            <4>1. Reaches(m, x)
                BY <1>a, <3>3, <3>4 DEF Held
            <4>2. Brings(m, x) => Brings(m, x)' \/ x \in Snapshot(m[2])'
                <5> SUFFICES ASSUME NEW f \in In(m), f.kind = "data", x \in f.items
                             PROVE  Brings(m, x)' \/ x \in Snapshot(m[2])'
                    BY DEF Brings
                <5>1. CASE f \in In(m)'
                    BY <5>1 DEF Brings
                <5>2. CASE m = Back(l) /\ f.items \subseteq items
                    BY <2>1, <3>1, <5>2
                <5> QED BY <1>u, <5>1, <5>2
            <4>3. Heading(m, x) => Heading(m, x)'
                BY <2>1, <3>1, <3>2 DEF Coming
            <4>4. x \in guests[m] => Heading(m, x)' \/ x \in guests'[m]
                BY <2>1, <3>2
            <4> QED BY <1>u, <3>2, <4>1, <4>2, <4>3, <4>4 DEF Reaches
        <3>5. CASE x \notin Snapshot(m[1])
            <4>1. m[1] = l[1] /\ x \in items
                BY <2>1, <3>1, <3>5
            <4>2. CASE m = l
                BY <1>u, <3>2, <4>1, <4>2 DEF Reaches
            <4>3. CASE m # l
                BY <2>1, <3>5, <4>1, <4>3 DEF Reaches
            <4> QED BY <4>2, <4>3
        <3> QED BY <3>4, <3>5
    <2> QED BY <2>1, <2>2, <2>3, <2>4, <2>5 DEF NothingLost
(* Sockets end and frames are queued. *)
<1>c. ASSUME NEW links \in SUBSET Linked, NEW removed \in SUBSET Linked, NEW deaf,
             NEW targets, NEW frames \in Seq(Frame), Cuts(links, removed, deaf, targets, frames),
             UNCHANGED <<doc, parked, stray, guests>>,
             \A m \in Linked : m \in targets =>
                \A f \in Among(frames) : f.items \subseteq Snapshot(m[1]),
             \A d \in Device : Among(bus'[d]) \subseteq Among(bus[d]),
             \A m \in Linked : Live(m)' /\ lagged[m[1]] =>
                lagged'[m[1]] \/ \A x \in Snapshot(m[1]) : Brings(m, x)',
             \A m \in Linked, x \in Item : Live(m)' /\ Heading(m, x) => Heading(m, x)' \/ Brings(m, x)'
      PROVE  NothingLost'
    <2>1. /\ Paired' /\ Asked'
          /\ \A l \in Linked : In(l)' \subseteq In(l) \cup (IF l \in targets THEN Among(frames) ELSE {})
          /\ \A l \in Linked : Connected(l)' =>
                /\ side'[l] = side[l]
                /\ In(l)' = In(l) \cup (IF l \in targets THEN Among(frames) ELSE {})
        BY <1>a, <1>c, Cut
    <2>2. \A d : Snapshot(d)' = Snapshot(d)
        BY <1>c DEF Snapshot
    <2>3. Sent'
        <3> SUFFICES ASSUME NEW m \in Linked, NEW f \in In(m)' PROVE f.items \subseteq Snapshot(m[1])'
            BY DEF Sent
        <3>1. f \in In(m) \/ (m \in targets /\ f \in Among(frames))
            BY <2>1
        <3> QED BY <1>a, <1>c, <2>2, <3>1 DEF Sent
    <2>4. Posted'
        <3> SUFFICES ASSUME NEW d \in Device, NEW u \in Among(bus[d])' PROVE u.items \subseteq Snapshot(d)'
            BY DEF Posted
        <3>1. u \in Among(bus[d])
            BY <1>c DEF Among
        <3> QED BY <1>a, <2>2, <3>1 DEF Posted
    <2>5. ASSUME NEW m \in Linked PROVE Held(m)'
        <3> SUFFICES ASSUME Live(m)', ~Coming(m)', NEW x \in Snapshot(m[1])' PROVE Reaches(m, x)'
            BY DEF Held
        <3>1. Connected(m)' /\ Connected(Back(m))' /\ Back(m) \in Linked
            BY Ways DEF Live, Connected
        <3>2. x \in Snapshot(m[1]) /\ x \in Item
            BY <1>t, <2>2, Ways
        <3>3. Live(m) /\ In(m) \subseteq In(m)' /\ In(Back(m)) \subseteq In(Back(m))'
            BY <2>1, <3>1 DEF Live, Connected
        <3>4. Coming(m) => Brings(m, x)'
            <4>1. Asks(Back(m)) => Asks(Back(m))'
                BY <3>3 DEF Asks
            <4> QED BY <1>c, <2>1, <3>1, <3>2, <4>1 DEF Coming
        <3>5. Brings(m, x) => Brings(m, x)'
            BY <3>3 DEF Brings
        <3>6. Coming(m) \/ Reaches(m, x)
            BY <1>a, <3>2, <3>3 DEF Held
        <3> QED BY <1>c, <2>2, <3>2, <3>4, <3>5, <3>6 DEF Reaches
    <2> QED BY <2>1, <2>3, <2>4, <2>5 DEF NothingLost
<1>1. ASSUME NEW d \in Device, NEW y \in Item, add_entry(d, y) PROVE NothingLost'
    <2> DEFINE u == [items |-> {y}, origin |-> None]
    <2>1. /\ doc' = [doc EXCEPT ![d] = @ \cup {y}] /\ Publish(d, {y}, None)
          /\ UNCHANGED <<parked, open, side, out, sending, wire, stray, guests>>
        BY <1>1 DEF add_entry, linkVars, seenVars
    <2>2. /\ \A e \in Device : lagged[e] => lagged'[e]
          /\ \A e \in Device : \A v \in Among(bus[e]) : v \in Among(bus'[e]) \/ lagged'[e]
          /\ \A e \in Device : \A v \in Among(bus'[e]) : v \in Among(bus[e]) \/ (e = d /\ v = u)
          /\ u \in Among(bus'[d])
        BY <2>1, Published
    <2>3. \A e \in Device : Snapshot(e)' = IF e = d THEN Snapshot(e) \cup {y} ELSE Snapshot(e)
        BY <2>1 DEF Snapshot, TypeOK
    <2>4. Paired' /\ Asked' /\ \A m \in Linked : In(m)' = In(m)
        BY <1>a, <2>1 DEF Paired, Asked, Pumping, In, Among
    <2>5. Sent'
        BY <1>a, <2>3, <2>4, Ways DEF Sent
    <2>6. Posted'
        <3> SUFFICES ASSUME NEW e \in Device, NEW v \in Among(bus[e])' PROVE v.items \subseteq Snapshot(e)'
            BY DEF Posted
        <3>1. v \in Among(bus[e]) \/ (e = d /\ v = u)
            BY <2>2 DEF Among
        <3> QED BY <1>a, <2>3, <3>1 DEF Posted
    <2>7. ASSUME NEW m \in Linked PROVE Held(m)'
        <3> SUFFICES ASSUME Live(m)', ~Coming(m)', NEW x \in Snapshot(m[1])' PROVE Reaches(m, x)'
            BY DEF Held
        <3>1. m[1] \in Device /\ m[2] \in Device /\ Back(m) \in Linked
            BY Ways
        <3>2. Live(m) /\ ~Coming(m)
            BY <2>1, <2>2, <2>4, <3>1 DEF Live, Coming, Asks
        <3>3. CASE x \in Snapshot(m[1])
            <4>1. Reaches(m, x)
                BY <1>a, <3>2, <3>3 DEF Held
            <4>2. Heading(m, x) => Heading(m, x)'
                BY <2>2, <3>1 DEF Heading, Coming, Among
            <4> QED BY <2>1, <2>3, <2>4, <3>1, <4>1, <4>2 DEF Reaches, Brings
        <3>4. CASE x \notin Snapshot(m[1])
            <4>1. m[1] = d /\ x = y
                BY <2>3, <3>1, <3>4
            <4>2. u \in Among(bus[m[1]])' /\ u.origin # m[2] /\ x \in u.items
                BY <2>2, <3>1, <4>1, NoneAssumption DEF Among
            <4> QED BY <4>2 DEF Reaches, Heading
        <3> QED BY <3>3, <3>4
    <2> QED BY <2>4, <2>5, <2>6, <2>7 DEF NothingLost
(* The steps of a connection leave the document's side alone. *)
<1>l. ASSUME UNCHANGED <<docVars, seenVars>>
      PROVE  /\ \A d : Snapshot(d)' = Snapshot(d)
             /\ Posted' /\ UNCHANGED <<lagged, stray, guests>>
             /\ \A m, x : Heading(m, x)' = Heading(m, x)
    BY <1>a, <1>l DEF docVars, seenVars, Snapshot, Posted, Heading, Among
(* A frame moves on, within the buffers of a link. *)
<1>s. ASSUME UNCHANGED <<docVars, seenVars, open, side>>,
             \A m \in Linked : In(m)' = In(m) /\ Among(wire[m]) \subseteq Among(wire'[m])
      PROVE  NothingLost'
    <2>1. Paired' /\ Sent'
        BY <1>a, <1>l, <1>s DEF Paired, Sent
    <2>2. Asked'
        <3> SUFFICES ASSUME NEW m \in Linked, Pumping(Back(m))', ~Pumping(m)'
                     PROVE  \E f \in Among(wire[Back(m)])' : f.kind = "step1"
            BY DEF Asked
        <3>1. PICK f \in Among(wire[Back(m)]) : f.kind = "step1"
            BY <1>a, <1>s DEF Asked, Pumping
        <3>2. f \in Among(wire[Back(m)])'
            BY <1>s, <3>1, Ways DEF Among
        <3> QED BY <3>1, <3>2
    <2>3. ASSUME NEW m \in Linked PROVE Held(m)'
        <3>1. Back(m) \in Linked /\ In(m)' = In(m) /\ In(Back(m))' = In(Back(m))
            BY <1>s, Ways
        <3>2. Live(m)' = Live(m) /\ Coming(m)' = Coming(m) /\ \A x : Brings(m, x)' = Brings(m, x)
            BY <1>l, <1>s, <3>1 DEF Live, Coming, Asks, Brings
        <3>3. \A x : Reaches(m, x) => Reaches(m, x)'
            BY <1>l, <1>s, <3>2 DEF Reaches
        <3> QED BY <1>a, <1>l, <1>s, <3>2, <3>3 DEF Held
    <2> QED BY <1>l, <1>s, <2>1, <2>2, <2>3 DEF NothingLost
<1>2. ASSUME NEW l \in Linked, Connect(l) PROVE NothingLost'
    <2>1. UNCHANGED <<docVars, seenVars, side, out, sending, wire>> /\ open' = open \cup {l, Back(l)}
        BY <1>2 DEF Connect
    <2>2. Paired'
        BY <1>a, <2>1, Ways DEF Paired
    <2>3. Sent' /\ Asked' /\ \A m \in Linked : Held(m)'
        BY <1>a, <1>l, <2>1 DEF Sent, Asked, Held, Live, Coming, Reaches, Pumping, Asks, Brings, In, Among
    <2> QED BY <1>l, <2>1, <2>2, <2>3 DEF NothingLost
<1>3. ASSUME NEW l \in Linked, Register(l) PROVE NothingLost'
    <2>1. /\ side[l] \in {"off", "stale"} /\ side' = [side EXCEPT ![l] = "registered"]
          /\ out' = [out EXCEPT ![l] = <<>>]
          /\ UNCHANGED <<docVars, seenVars, open, sending, wire>>
        BY <1>3 DEF Register
    <2>2. Paired'
        BY <1>a, <2>1 DEF Paired
    <2>3. \A m \in Linked : In(m)' \subseteq In(m) /\ (m # l => In(m)' = In(m))
        BY <1>n, <2>1 DEF In, TypeOK
    <2>4. /\ \A m \in Linked : m # l => side'[m] = side[m]
          /\ side'[l] = "registered" /\ \A m : Among(wire[m])' = Among(wire[m])
        BY <2>1 DEF TypeOK, Among
    <2>5. Asked'
        BY <1>a, <2>1, <2>4, Ways DEF Asked, Pumping
    <2>6. Sent'
        BY <1>a, <1>l, <2>1, <2>3 DEF Sent
    <2>7. ASSUME NEW m \in Linked PROVE Held(m)'
        <3>1. CASE m = l
            <4> SUFFICES ASSUME Live(m)' PROVE Coming(m)'
                BY DEF Held
            <4>1. Back(l) \in Linked /\ Back(l) # l /\ l[1] = m[1]
                BY <3>1, Ways
            <4>2. side'[Back(l)] = side[Back(l)] /\ In(Back(l))' = In(Back(l))
                BY <2>3, <2>4, <4>1
            <4>3. CASE side[Back(l)] = "registered"
                BY <3>1, <4>2, <4>3 DEF Coming
            <4>4. CASE Pumping(Back(l))
                <5>1. \E f \in Among(wire[Back(l)]) : f.kind = "step1"
                    BY <1>a, <2>1, <4>4 DEF Asked, Pumping
                <5> QED BY <3>1, <4>2, <5>1 DEF Coming, Asks, In
            <4> QED BY <3>1, <4>2, <4>3, <4>4 DEF Live, Pumping
        <3>2. CASE m = Back(l)
            BY <2>4, <3>2, Ways DEF Held, Coming
        <3>3. CASE m # l /\ m # Back(l)
            <4>1. Back(m) \in Linked /\ Back(m) # l
                BY <3>3, Ways
            <4>2. In(m)' = In(m) /\ In(Back(m))' = In(Back(m)) /\ Live(m)' = Live(m)
                BY <2>3, <2>4, <3>3, <4>1 DEF Live
            <4>3. Coming(m)' = Coming(m) /\ \A x : Brings(m, x)' = Brings(m, x)
                BY <1>l, <2>1, <2>4, <4>1, <4>2 DEF Coming, Asks, Brings
            <4>4. \A x : Reaches(m, x) => Reaches(m, x)'
                BY <1>l, <2>1, <4>3 DEF Reaches
            <4> QED BY <1>a, <1>l, <2>1, <4>2, <4>3, <4>4 DEF Held
        <3> QED BY <3>1, <3>2, <3>3
    <2> QED BY <1>l, <2>1, <2>2, <2>5, <2>6, <2>7 DEF NothingLost
<1>4. ASSUME NEW l \in Linked, SendStep1(l) PROVE NothingLost'
    <2> DEFINE f == Step1(doc[l[1]])
    <2>1. /\ side[l] = "registered" /\ side' = [side EXCEPT ![l] = "pumping"]
          /\ wire' = [wire EXCEPT ![l] = Append(@, f)]
          /\ stray' = [stray EXCEPT ![Back(l)] = {}] /\ guests' = [guests EXCEPT ![Back(l)] = {}]
          /\ UNCHANGED <<docVars, open, out, sending>>
        BY <1>4 DEF SendStep1
    <2>2. Paired'
        BY <1>a, <2>1 DEF Paired
    <2>3. f \in Frame /\ f.kind = "step1" /\ f.items \subseteq Snapshot(l[1])
        BY <1>t, Ways DEF Snapshot
    <2>4. /\ Among(wire'[l]) = Among(wire[l]) \cup {f} /\ f \in In(l)'
          /\ \A m \in Linked : m # l => Among(wire'[m]) = Among(wire[m])
          /\ \A m \in Linked : In(m)' = IF m = l THEN In(m) \cup {f} ELSE In(m)
        <3> HIDE DEF f
        <3>1. Among(Append(wire[l], f)) = Among(wire[l]) \cup {f}
            BY <1>t, <2>3, AmongSeq
        <3>2. wire'[l] = Append(wire[l], f) /\ \A m \in Linked : m # l => wire'[m] = wire[m]
            BY <2>1 DEF TypeOK
        <3> QED BY <1>n, <2>1, <3>1, <3>2 DEF In
    <2> HIDE DEF f
    <2>5. /\ \A m \in Linked : m # l => side'[m] = side[m]
          /\ side'[l] = "pumping"
          /\ \A m \in Linked : m # Back(l) => stray'[m] = stray[m] /\ guests'[m] = guests[m]
          /\ \A d : Snapshot(d)' = Snapshot(d) /\ lagged' = lagged /\ bus' = bus
        BY <2>1 DEF TypeOK, docVars, Snapshot
    <2>6. Sent' /\ Posted'
        BY <1>a, <2>3, <2>4, <2>5 DEF Sent, Posted
    <2>7. Asked'
        <3> SUFFICES ASSUME NEW m \in Linked, Pumping(Back(m))', ~Pumping(m)'
                     PROVE  \E g \in Among(wire[Back(m)])' : g.kind = "step1"
            BY DEF Asked
        <3>1. m # l /\ Back(m) \in Linked /\ ~Pumping(m) /\ Among(wire[Back(m)])' = Among(wire'[Back(m)])
            BY <2>5, Ways DEF Pumping, Among
        <3>2. CASE Back(m) = l
            BY <2>3, <2>4, <3>1, <3>2
        <3>3. CASE Back(m) # l
            <4>1. Pumping(Back(m))
                BY <2>5, <3>1, <3>3 DEF Pumping
            <4> QED BY <1>a, <2>4, <3>1, <3>3, <4>1 DEF Asked
        <3> QED BY <3>2, <3>3
    <2>8. ASSUME NEW m \in Linked PROVE Held(m)'
        <3>1. CASE m = Back(l)
            BY <2>3, <2>4, <3>1, Ways DEF Held, Coming, Asks
        <3>2. CASE m # Back(l)
            <4>1. Back(m) \in Linked /\ Back(m) # l
                BY <3>2, Ways
            <4>2. /\ Live(m)' => Live(m)
                  /\ In(m) \subseteq In(m)' /\ In(Back(m))' = In(Back(m)) /\ side'[Back(m)] = side[Back(m)]
                BY <2>1, <2>4, <2>5, <4>1 DEF Live
            <4>3. \A x : Brings(m, x) => Brings(m, x)'
                BY <4>2 DEF Brings
            <4>4. Coming(m) => Coming(m)'
                BY <2>5, <4>2 DEF Coming, Asks
            <4>5. \A x : Reaches(m, x) => Reaches(m, x)'
                BY <2>5, <3>2, <4>3 DEF Reaches, Heading, Among
            <4> QED BY <1>a, <2>5, <4>2, <4>4, <4>5 DEF Held
        <3> QED BY <3>1, <3>2
    <2> QED BY <2>2, <2>6, <2>7, <2>8 DEF NothingLost
<1>5. ASSUME NEW l \in Linked, Dequeue(l) PROVE NothingLost'
    <2>1. /\ sending[l] = <<>> /\ out[l] # <<>>
          /\ sending' = [sending EXCEPT ![l] = <<Head(out[l])>>] /\ out' = [out EXCEPT ![l] = Tail(@)]
          /\ UNCHANGED <<docVars, seenVars, open, side, wire>>
        BY <1>5 DEF Dequeue
    <2>2. /\ Head(out[l]) \in Frame /\ Among(out[l]) = {Head(out[l])} \cup Among(Tail(out[l]))
          /\ Among(<<Head(out[l])>>) = {Head(out[l])}
        BY <1>t, <1>n, <2>1, AmongSeq
    <2>3. \A m \in Linked : In(m)' = In(m)
        <3>1. /\ sending'[l] = <<Head(out[l])>> /\ out'[l] = Tail(out[l])
              /\ \A m \in Linked : m # l => sending'[m] = sending[m] /\ out'[m] = out[m]
            BY <2>1 DEF TypeOK
        <3> QED BY <1>n, <2>1, <2>2, <3>1 DEF In
    <2> QED BY <1>s, <2>1, <2>3 DEF Among
<1>6. ASSUME NEW l \in Linked, Written(l) PROVE NothingLost'
    <2> DEFINE f == sending[l][1]
    <2>1. /\ sending[l] # <<>>
          /\ wire' = [wire EXCEPT ![l] = Append(@, f)] /\ sending' = [sending EXCEPT ![l] = <<>>]
          /\ UNCHANGED <<docVars, seenVars, open, side, out>>
        BY <1>6 DEF Written
    <2>2. Len(sending[l]) \in Nat /\ Len(sending[l]) <= 1 /\ Len(sending[l]) # 0
        BY <1>t, <2>1, LenProperties, EmptySeq DEF TypeOK
    <2>3. f \in Frame /\ Among(sending[l]) = {f}
        <3>1. DOMAIN sending[l] = {1}
            BY <1>t, <2>2, LenProperties
        <3> QED BY <1>t, <3>1 DEF Among
    <2> HIDE DEF f
    <2>4. Among(Append(wire[l], f)) = Among(wire[l]) \cup {f}
        BY <1>t, <2>3, AmongSeq
    <2>5. /\ sending'[l] = <<>> /\ wire'[l] = Append(wire[l], f)
          /\ \A m \in Linked : m # l => sending'[m] = sending[m] /\ wire'[m] = wire[m]
        BY <2>1 DEF TypeOK
    <2>6. \A m \in Linked : In(m)' = In(m)
        BY <1>n, <2>1, <2>3, <2>4, <2>5 DEF In
    <2>7. \A m \in Linked : Among(wire[m]) \subseteq Among(wire'[m])
        BY <2>4, <2>5
    <2> QED BY <1>s, <2>1, <2>6, <2>7
<1>7. ASSUME NEW l \in Linked, Receive(l) PROVE NothingLost'
    <2> DEFINE in == Back(l)
               frame == Head(wire[in])
    <2>1. /\ Pumping(l) /\ sending[l] = <<>> /\ wire[in] # <<>>
          /\ wire' = [wire EXCEPT ![in] = Tail(@)]
          /\ \/ /\ frame.kind = "step1"
                /\ sending' = [sending EXCEPT ![l] = <<Data(diff(l[1], frame.items))>>]
                /\ UNCHANGED <<docVars, guests>>
             \/ /\ frame.kind = "data"
                /\ apply_update(l[1], frame.items, l[2])
                /\ UNCHANGED sending
          /\ UNCHANGED <<open, side, out, stray>>
        BY <1>7 DEF Receive
    <2>2. /\ in \in Linked /\ in # l /\ in[1] = l[2] /\ in[2] = l[1] /\ Back(in) = l
          /\ l[1] \in Device /\ l[2] \in Device
        BY Ways
    <2>3. /\ frame \in Frame /\ Among(wire[in]) = {frame} \cup Among(Tail(wire[in]))
          /\ frame \in In(in)
        BY <1>t, <2>1, <2>2, AmongSeq DEF In
    <2>4. frame.items \subseteq Snapshot(l[2]) /\ frame.items \subseteq Item
        BY <1>a, <1>t, <2>2, <2>3 DEF Sent
    <2> HIDE DEF in, frame
    <2>5. /\ wire'[in] = Tail(wire[in]) /\ \A m \in Linked : m # in => wire'[m] = wire[m]
          /\ \A m \in Linked : Among(wire'[m]) \subseteq Among(wire[m])
        BY <2>1, <2>2, <2>3 DEF TypeOK
    <2>6. CASE /\ frame.kind = "data"
               /\ apply_update(l[1], frame.items, l[2])
               /\ UNCHANGED sending
        <3>1. \A m \in Linked : In(m)' \subseteq In(m)
            BY <1>n, <2>1, <2>5, <2>6 DEF In
        <3>2. \A m \in Linked : \A f \in Among(wire[m]) : f \in Among(wire'[m]) \/ (m = in /\ f = frame)
            BY <2>3, <2>5
        <3>3. \A m \in Linked : \A f \in In(m) : f \in In(m)' \/ (m = in /\ f = frame)
            BY <1>n, <2>1, <2>6, <3>2 DEF In
        <3>4. /\ \A m \in Linked : In(m)' \subseteq In(m) /\ stray[m] \subseteq stray'[m]
              /\ \A m \in Linked : \A f \in In(m) :
                    f \in In(m)' \/ (m = Back(l) /\ f.kind = "data" /\ f.items \subseteq frame.items)
              /\ \A m \in Linked : \A f \in Among(wire[m]) : f \in Among(wire'[m]) \/ f.kind = "data"
              /\ frame.items \subseteq Snapshot(l[2]) \cup stray'[l]
            BY <2>1, <2>4, <2>6, <3>1, <3>2, <3>3 DEF in
        <3> QED BY <1>u, <2>1, <2>4, <2>6, <3>4
    <2>7. CASE /\ frame.kind = "step1"
               /\ sending' = [sending EXCEPT ![l] = <<Data(diff(l[1], frame.items))>>]
               /\ UNCHANGED <<docVars, guests>>
        <3> DEFINE f == Data(diff(l[1], frame.items))
        <3>1. f \in Frame /\ f.kind = "data" /\ f.items = Snapshot(l[1]) \ frame.items
            BY <1>t, <2>2, Ways DEF diff
        <3> HIDE DEF f
        <3>2. Among(<<f>>) = {f} /\ Among(<<>>) = {}
            BY <1>n, <3>1
        <3>3. sending'[l] = <<f>> /\ \A m \in Linked : m # l => sending'[m] = sending[m]
            BY <2>7 DEF f, TypeOK
        <3>4. /\ In(l)' = In(l) \cup {f}
              /\ In(in)' \subseteq In(in) /\ In(in) \subseteq In(in)' \cup {frame}
              /\ \A m \in Linked : m # l /\ m # in => In(m)' = In(m)
            <4>1. In(l)' = In(l) \cup {f}
                BY <1>n, <2>1, <2>2, <2>5, <3>2, <3>3 DEF In
            <4>2. In(in)' \subseteq In(in) /\ In(in) \subseteq In(in)' \cup {frame}
                BY <1>n, <2>1, <2>2, <2>3, <2>5, <3>3 DEF In
            <4>3. \A m \in Linked : m # l /\ m # in => In(m)' = In(m)
                BY <1>n, <2>1, <2>5, <3>3 DEF In
            <4> QED BY <4>1, <4>2, <4>3
        <3>5. UNCHANGED <<docVars, seenVars>>
            BY <2>1, <2>7 DEF seenVars
        <3>6. Paired'
            BY <1>a, <2>1 DEF Paired
        <3>7. Sent'
            <4> SUFFICES ASSUME NEW m \in Linked, NEW g \in In(m)' PROVE g.items \subseteq Snapshot(m[1])'
                BY DEF Sent
            <4>1. g \in In(m) \/ (m = l /\ g = f)
                BY <3>4
            <4> QED BY <1>a, <1>l, <3>1, <3>5, <4>1 DEF Sent
        <3>8. Asked'
            <4> SUFFICES ASSUME NEW m \in Linked, Pumping(Back(m))', ~Pumping(m)'
                         PROVE  \E g \in Among(wire[Back(m)])' : g.kind = "step1"
                BY DEF Asked
            <4>1. m # l /\ Back(m) \in Linked /\ Back(m) # in /\ Pumping(Back(m)) /\ ~Pumping(m)
                <5>1. m # l /\ Pumping(Back(m)) /\ ~Pumping(m)
                    BY <2>1 DEF Pumping
                <5> QED BY <5>1, Ways DEF in
            <4>2. Among(wire[Back(m)])' = Among(wire[Back(m)])
                BY <2>5, <4>1 DEF Among
            <4> QED BY <1>a, <4>1, <4>2 DEF Asked
        <3>9. ASSUME NEW m \in Linked PROVE Held(m)'
            <4> SUFFICES ASSUME Live(m)', ~Coming(m)', NEW x \in Snapshot(m[1])' PROVE Reaches(m, x)'
                BY DEF Held
            <4>1. Live(m) /\ x \in Snapshot(m[1]) /\ Back(m) \in Linked
                BY <1>l, <2>1, <3>5, Ways DEF Live
            <4>2. CASE m = l
                BY <1>l, <2>4, <3>1, <3>4, <3>5, <4>1, <4>2 DEF Reaches, Brings
            <4>3. CASE m # l
                <5>1. Brings(m, x) => Brings(m, x)'
                    BY <2>7, <3>4, <4>3 DEF Brings
                <5>2. Back(m) # in
                    BY <4>3, Ways DEF in
                <5>3. In(Back(m)) \subseteq In(Back(m))'
                    BY <3>4, <4>1, <5>2
                <5>4. ~Coming(m)
                    BY <1>l, <2>1, <3>5, <5>3 DEF Coming, Asks
                <5>5. Reaches(m, x)
                    BY <1>a, <4>1, <5>4 DEF Held
                <5> QED BY <1>l, <3>5, <5>1, <5>5 DEF Reaches
            <4> QED BY <4>2, <4>3
        <3> QED BY <1>l, <3>5, <3>6, <3>7, <3>8, <3>9 DEF NothingLost
    <2> QED BY <2>1, <2>6, <2>7
<1>8. ASSUME NEW l \in Linked, ReceiveLate(l) PROVE NothingLost'
    <2> DEFINE in == Back(l)
               frame == Head(late[in])
    <2>1. /\ late[in] # <<>>
          /\ IF frame.kind = "data"
             THEN /\ apply_update(l[1], frame.items, l[2])
                  /\ stray' = [stray EXCEPT ![l] = @ \cup (frame.items \ Snapshot(l[2]))]
             ELSE UNCHANGED <<docVars, seenVars>>
          /\ UNCHANGED <<open, side, out, sending, wire>>
        BY <1>8 DEF ReceiveLate
    <2>2. frame.items \subseteq Item
        <3>1. frame \in Frame
            BY <1>t, <2>1, Ways, AmongSeq
        <3> QED BY <3>1 DEF Frame
    <2>3. \A m \in Linked : In(m)' = In(m)
        BY <1>n, <2>1 DEF In
    <2> HIDE DEF in, frame
    <2>4. CASE /\ apply_update(l[1], frame.items, l[2])
               /\ stray' = [stray EXCEPT ![l] = @ \cup (frame.items \ Snapshot(l[2]))]
        <3>1. /\ \A m \in Linked : stray[m] \subseteq stray'[m]
              /\ frame.items \subseteq Snapshot(l[2]) \cup stray'[l]
            BY <2>4 DEF TypeOK
        <3> QED BY <1>u, <2>1, <2>2, <2>3, <2>4, <3>1
    <2>5. CASE UNCHANGED <<docVars, seenVars>>
        BY <1>s, <2>1, <2>3, <2>5
    <2> QED BY <2>1, <2>4, <2>5
<1>9. ASSUME NEW l \in Linked, finish_connection(l) PROVE NothingLost'
    <2>1. /\ \/ /\ side[l] = "stale"
                /\ side' = [side EXCEPT ![l] = "off"] /\ out' = [out EXCEPT ![l] = <<>>]
             \/ UNCHANGED <<side, out>>
          /\ UNCHANGED <<docVars, seenVars, open, sending, wire>>
        BY <1>9 DEF finish_connection
    <2>2. /\ \A m \in Linked : side'[m] = side[m] \/ (side[m] = "stale" /\ side'[m] = "off")
          /\ \A m \in Linked : In(m)' \subseteq In(m)
          /\ \A m \in Linked : side'[m] = side[m] => In(m)' = In(m)
        <3>1. CASE side[l] = "stale" /\ side' = [side EXCEPT ![l] = "off"] /\ out' = [out EXCEPT ![l] = <<>>]
            <4>1. /\ side[l] = "stale" /\ side'[l] = "off" /\ out'[l] = <<>>
                  /\ \A m \in Linked : m # l => side'[m] = side[m] /\ out'[m] = out[m]
                BY <3>1 DEF TypeOK
            <4> QED BY <1>n, <2>1, <4>1 DEF In
        <3>2. CASE UNCHANGED <<side, out>>
            BY <1>n, <2>1, <3>2 DEF In
        <3> QED BY <2>1, <3>1, <3>2
    <2>3. Paired' /\ Sent'
        BY <1>a, <1>l, <2>1, <2>2 DEF Paired, Sent
    <2>4. Asked'
        <3> SUFFICES ASSUME NEW m \in Linked, Pumping(Back(m))', ~Pumping(m)'
                     PROVE  \E g \in Among(wire[Back(m)])' : g.kind = "step1"
            BY DEF Asked
        <3>1. Pumping(Back(m)) /\ ~Pumping(m)
            BY <2>2, Ways DEF Pumping
        <3> QED BY <1>a, <2>1, <3>1 DEF Asked, Among
    <2>5. ASSUME NEW m \in Linked PROVE Held(m)'
        <3> SUFFICES ASSUME Live(m)' PROVE Held(m)'
            BY DEF Held
        <3>1. Back(m) \in Linked
            BY Ways
        <3>2. Live(m) /\ side'[Back(m)] = side[Back(m)] /\ In(m)' = In(m) /\ In(Back(m))' = In(Back(m))
            BY <2>2, <3>1 DEF Live
        <3>3. Coming(m)' = Coming(m) /\ \A x : Brings(m, x)' = Brings(m, x)
            BY <1>l, <2>1, <3>2 DEF Coming, Asks, Brings
        <3>4. \A x : Reaches(m, x) => Reaches(m, x)'
            BY <1>l, <2>1, <3>3 DEF Reaches
        <3> QED BY <1>a, <1>l, <2>1, <3>2, <3>3, <3>4 DEF Held
    <2> QED BY <1>l, <2>1, <2>3, <2>4, <2>5 DEF NothingLost
(* The frames to queue leave the document's side alone, or are on the bus. *)
<1>10. ASSUME NEW l \in Linked, IdleTimeout(l) PROVE NothingLost'
    <2>1. /\ EndSockets({l}, {l}, {l}) /\ out' = [out EXCEPT ![l] = <<>>] /\ UNCHANGED <<docVars, seenVars>>
        BY <1>10 DEF IdleTimeout
    <2> DEFINE nobody == {}
               nothing == <<>>
    <2>2. nothing \in Seq(Frame) /\ Among(nothing) = {}
        BY <1>n, EmptySeq
    <2>3. Cuts({l}, {l}, {l}, nobody, nothing)
        BY <2>1 DEF Cuts, TypeOK
    <2>4. /\ UNCHANGED <<doc, parked, bus, lagged, stray, guests>>
          /\ \A m \in Linked, x \in Item : Heading(m, x) => Heading(m, x)'
        BY <1>l, <2>1 DEF docVars, seenVars
    <2>5. \A m \in Linked : m \notin nobody
        OBVIOUS
    <2> HIDE DEF nobody, nothing
    <2>6. {l} \in SUBSET Linked /\ {} \in SUBSET Linked
        OBVIOUS
    <2> QED BY <1>c, <2>2, <2>3, <2>4, <2>5, <2>6
<1>11. ASSUME NEW l \in Linked, Break(l) PROVE NothingLost'
    <2>1. /\ EndSockets({l}, {}, {}) /\ UNCHANGED <<docVars, seenVars, out>>
        BY <1>11 DEF Break
    <2> DEFINE nobody == {}
               nothing == <<>>
    <2>2. nothing \in Seq(Frame) /\ Among(nothing) = {}
        BY <1>n, EmptySeq
    <2>3. Cuts({l}, {}, {}, nobody, nothing)
        BY <2>1 DEF Cuts
    <2>4. /\ UNCHANGED <<doc, parked, bus, lagged, stray, guests>>
          /\ \A m \in Linked, x \in Item : Heading(m, x) => Heading(m, x)'
        BY <1>l, <2>1 DEF docVars, seenVars
    <2>5. \A m \in Linked : m \notin nobody
        OBVIOUS
    <2> HIDE DEF nobody, nothing
    <2>6. {l} \in SUBSET Linked /\ {} \in SUBSET Linked
        OBVIOUS
    <2> QED BY <1>c, <2>2, <2>3, <2>4, <2>5, <2>6
<1>p. ASSUME NEW d \in Device, NEW origin, NEW frames \in Seq(Frame),
             send_to_peers(Targets(d, origin), frames)
      PROVE  \E links \in SUBSET Linked, removed \in SUBSET Linked :
                 /\ Cuts(links, removed, {}, Targets(d, origin), frames)
                 /\ \A m \in Linked : Connected(m)' /\ m \in Targets(d, origin) =>
                       Among(frames) \subseteq In(m)'
    <2> DEFINE removed == {l \in Targets(d, origin) : Len(out[l]) + Len(frames) > QueueCap}
               links == {l \in removed : l \in open /\ side[l] # "stale"}
    <2>1. removed \subseteq Linked /\ links \subseteq Linked
        BY DEF Targets
    <2>2. \A l \in removed : Connected(l) => l \in links
        BY <2>1 DEF TypeOK, Connected
    <2>3. /\ out' = [l \in Linked |-> IF l \in removed THEN <<>>
                                      ELSE IF l \in Targets(d, origin) THEN out[l] \o frames
                                      ELSE out[l]]
          /\ EndSockets(links, removed, {})
        BY <1>p DEF send_to_peers
    <2>4. Cuts(links, removed, {}, Targets(d, origin), frames)
        <3> HIDE DEF removed, links
        <3> QED BY <2>2, <2>3 DEF Cuts
    <2>5. \A m \in Linked : Connected(m)' /\ m \in Targets(d, origin) => Among(frames) \subseteq In(m)'
        <3> HIDE DEF removed, links
        <3>1. \A m \in Linked : Connected(m)' =>
                 In(m)' = In(m) \cup (IF m \in Targets(d, origin) THEN Among(frames) ELSE {})
            BY <1>a, <2>1, <2>4, Cut
        <3> QED BY <3>1
    <2> HIDE DEF removed, links
    <2> QED BY <2>1, <2>4, <2>5
<1>12. ASSUME NEW d \in Device, FanOut(d) PROVE NothingLost'
    <2> DEFINE u == Head(bus[d])
               frames == <<Data(u.items)>>
               targets == Targets(d, u.origin)
    <2>1. /\ bus[d] # <<>> /\ bus' = [bus EXCEPT ![d] = Tail(@)]
          /\ send_to_peers(targets, frames)
          /\ UNCHANGED <<doc, parked, lagged, stray, guests>>
        BY <1>12 DEF FanOut, seenVars
    <2>2. /\ u \in Update /\ Among(bus[d]) = {u} \cup Among(Tail(bus[d]))
          /\ u.items \in SUBSET Item /\ u.items \subseteq Snapshot(d)
        <3>1. u \in Update /\ Among(bus[d]) = {u} \cup Among(Tail(bus[d]))
            BY <1>t, <2>1, AmongSeq
        <3> QED BY <1>a, <3>1 DEF Update, Posted
    <2>3. /\ bus'[d] = Tail(bus[d]) /\ \A e \in Device : e # d => bus'[e] = bus[e]
        BY <2>1 DEF TypeOK
    <2> HIDE DEF u
    <2>4. Data(u.items) \in Frame /\ Data(u.items).kind = "data" /\ Data(u.items).items = u.items
        BY <2>2, Ways
    <2>5. frames \in Seq(Frame) /\ Among(frames) = {Data(u.items)}
        <3> HIDE DEF targets
        <3> QED BY <1>n, <2>4
    <2> HIDE DEF frames
    <2>6. PICK links \in SUBSET Linked, removed \in SUBSET Linked :
                 /\ Cuts(links, removed, {}, targets, frames)
                 /\ \A m \in Linked : Connected(m)' /\ m \in targets => Among(frames) \subseteq In(m)'
        BY <1>p, <2>1, <2>5
    <2>7. \A m \in Linked : m \in targets => \A f \in Among(frames) : f.items \subseteq Snapshot(m[1])
        BY <2>2, <2>4, <2>5 DEF Targets
    <2>8. \A e \in Device : Among(bus'[e]) \subseteq Among(bus[e])
        BY <2>2, <2>3
    <2>9. ASSUME NEW m \in Linked, NEW x \in Item, Live(m)', Heading(m, x)
          PROVE  Heading(m, x)' \/ Brings(m, x)'
        <3>1. PICK v \in Among(bus[m[1]]) : v.origin # m[2] /\ x \in v.items
            BY <2>9 DEF Heading
        <3>2. CASE v \in Among(bus'[m[1]])
            <4>1. v \in Among(bus[m[1]])'
                BY <3>2 DEF Among
            <4> QED BY <3>1, <4>1 DEF Heading
        <3>3. CASE v \notin Among(bus'[m[1]])
            <4>1. m[1] = d /\ v = u
                BY <2>2, <2>3, <3>1, <3>3, Ways
            <4>2. Connected(m)' /\ Connected(m)
                <5>1. Connected(m)'
                    BY <2>9 DEF Live, Connected
                <5>2. Connected(m)' => side'[m] = side[m]
                    BY <1>a, <2>5, <2>6, Cut
                <5> QED BY <5>1, <5>2 DEF Connected
            <4>3. m \in targets
                BY <3>1, <4>1, <4>2 DEF Targets, Registered, Connected
            <4>4. Data(u.items) \in In(m)'
                BY <2>5, <2>6, <4>2, <4>3
            <4> QED BY <2>4, <3>1, <4>1, <4>4 DEF Brings
        <3> QED BY <3>2, <3>3
    <2> HIDE DEF targets
    <2> QED BY <1>c, <2>1, <2>5, <2>6, <2>7, <2>8, <2>9
<1>13. ASSUME NEW d \in Device, Lagged(d) PROVE NothingLost'
    <2> DEFINE f == Data(Snapshot(d))
               g == Step1(doc[d])
               frames == <<f, g>>
               targets == Targets(d, None)
    <2>1. /\ lagged' = [lagged EXCEPT ![d] = FALSE]
          /\ send_to_peers(targets, frames)
          /\ UNCHANGED <<doc, parked, bus, stray, guests>>
        BY <1>13 DEF Lagged, Resync, seenVars
    <2>2. /\ f \in Frame /\ f.kind = "data" /\ f.items = Snapshot(d)
          /\ g \in Frame /\ g.items \subseteq Snapshot(d)
        BY <1>t, Ways DEF Snapshot
    <2> HIDE DEF f, g
    <2>3. frames \in Seq(Frame) /\ Among(frames) = {f, g}
        <3> HIDE DEF targets
        <3>1. frames \in Seq(Frame) /\ DOMAIN frames = {1, 2} /\ frames[1] = f /\ frames[2] = g
            BY <2>2
        <3> HIDE DEF frames
        <3> QED BY <3>1 DEF Among
    <2> HIDE DEF frames
    <2>4. PICK links \in SUBSET Linked, removed \in SUBSET Linked :
                 /\ Cuts(links, removed, {}, targets, frames)
                 /\ \A m \in Linked : Connected(m)' /\ m \in targets => Among(frames) \subseteq In(m)'
        BY <1>p, <2>1, <2>3
    <2>5. \A m \in Linked : m \in targets => \A h \in Among(frames) : h.items \subseteq Snapshot(m[1])
        BY <2>2, <2>3 DEF Targets
    <2>6. \A m \in Linked, x \in Item : Heading(m, x) => Heading(m, x)'
        BY <2>1 DEF Heading, Among
    <2>7. ASSUME NEW m \in Linked, Live(m)', lagged[m[1]]
          PROVE  lagged'[m[1]] \/ \A x \in Snapshot(m[1]) : Brings(m, x)'
        <3>1. CASE m[1] = d
            <4>1. Connected(m)' /\ Connected(m)
                <5>1. Connected(m)'
                    BY <2>7 DEF Live, Connected
                <5>2. Connected(m)' => side'[m] = side[m]
                    BY <1>a, <2>3, <2>4, Cut
                <5> QED BY <5>1, <5>2 DEF Connected
            <4>2. m \in targets
                BY <3>1, <4>1, NoneAssumption, Ways DEF Targets, Registered, Connected
            <4>3. f \in In(m)'
                BY <2>3, <2>4, <4>1, <4>2
            <4> QED BY <2>2, <3>1, <4>3 DEF Brings
        <3>2. CASE m[1] # d
            BY <2>1, <2>7, <3>2, Ways DEF TypeOK
        <3> QED BY <3>1, <3>2
    <2>8. \A e \in Device : Among(bus'[e]) \subseteq Among(bus[e])
        BY <2>1
    <2> HIDE DEF targets
    <2> QED BY <1>c, <2>1, <2>3, <2>4, <2>5, <2>6, <2>7, <2>8
<1>14. ASSUME NEW d \in Device, Restart(d) PROVE NothingLost'
    <2> DEFINE mine == {l \in Linked : l[1] = d}
    <2>1. /\ doc' = [doc EXCEPT ![d] = {}] /\ parked' = [parked EXCEPT ![d] = {}]
          /\ bus' = [bus EXCEPT ![d] = <<>>] /\ lagged' = [lagged EXCEPT ![d] = FALSE]
          /\ EndSockets(mine, mine, mine)
          /\ out' = [l \in Linked |-> IF l \in mine THEN <<>> ELSE out[l]]
          /\ stray' = [l \in Linked |-> IF l \in mine THEN {} ELSE stray[l]]
          /\ guests' = [l \in Linked |-> IF l \in mine THEN {} ELSE guests[l]]
        BY <1>14 DEF Restart
    <2>2. /\ \A e \in Device : e # d => /\ Snapshot(e)' = Snapshot(e) /\ bus'[e] = bus[e]
                                        /\ lagged'[e] = lagged[e]
          /\ bus'[d] = <<>>
        BY <2>1 DEF TypeOK, Snapshot
    <2> DEFINE nobody == {}
               nothing == <<>>
    <2>3. /\ mine \subseteq Linked /\ nothing \in Seq(Frame)
          /\ Cuts(mine, mine, mine, nobody, nothing)
        BY <2>1, EmptySeq DEF Cuts
    <2>4. /\ Paired' /\ Asked'
          /\ \A m \in Linked : In(m)' \subseteq In(m)
          /\ \A m \in Linked : Connected(m)' => side'[m] = side[m] /\ In(m)' = In(m)
        <3> HIDE DEF mine, nobody, nothing
        <3>1. /\ \A m \in Linked : In(m)' \subseteq In(m) \cup (IF m \in nobody THEN Among(nothing) ELSE {})
              /\ \A m \in Linked : Connected(m)' =>
                    side'[m] = side[m] /\ In(m)' = In(m) \cup (IF m \in nobody THEN Among(nothing) ELSE {})
              /\ Paired' /\ Asked'
            BY <1>a, <2>3, Cut
        <3> QED BY <3>1 DEF nobody
    <2>5. \A m \in Linked : m \in mine => In(m)' = {} /\ side'[m] = "off"
        <3>1. \A m \in Linked : m \in mine => sending'[m] = <<>> /\ wire'[m] = <<>> /\ out'[m] = <<>>
                                              /\ side'[m] = "off"
            BY <2>1 DEF EndSockets
        <3> QED BY <1>n, <3>1
    <2>6. Sent'
        <3> SUFFICES ASSUME NEW m \in Linked, NEW f \in In(m)' PROVE f.items \subseteq Snapshot(m[1])'
            BY DEF Sent
        <3>1. m[1] # d /\ f \in In(m) /\ m[1] \in Device
            BY <2>4, <2>5, Ways
        <3> QED BY <1>a, <2>2, <3>1 DEF Sent
    <2>7. Posted'
        <3> SUFFICES ASSUME NEW e \in Device, NEW u \in Among(bus[e])' PROVE u.items \subseteq Snapshot(e)'
            BY DEF Posted
        <3>1. u \in Among(bus'[e])
            BY DEF Among
        <3>2. e # d /\ u \in Among(bus[e])
            BY <1>n, <2>2, <3>1
        <3> QED BY <1>a, <2>2, <3>2 DEF Posted
    <2>8. ASSUME NEW m \in Linked PROVE Held(m)'
        <3> SUFFICES ASSUME Live(m)' PROVE Held(m)'
            BY DEF Held
        <3>1. Back(m) \in Linked /\ m[1] \in Device /\ m[2] \in Device /\ Back(m)[1] = m[2]
            BY Ways
        <3>2. m[1] # d /\ m[2] # d
            BY <2>5, <3>1 DEF Live
        <3>3. /\ side'[m] = side[m] /\ In(m)' = In(m)
              /\ side'[Back(m)] = side[Back(m)] /\ In(Back(m))' = In(Back(m))
            BY <2>4, <3>1 DEF Live, Connected
        <3>4. Live(m) /\ Coming(m)' = Coming(m) /\ \A x : Brings(m, x)' = Brings(m, x)
            BY <2>2, <3>1, <3>2, <3>3 DEF Live, Coming, Asks, Brings
        <3>5. stray'[m] = stray[m] /\ guests'[m] = guests[m] /\ \A x : Heading(m, x)' = Heading(m, x)
            BY <2>1, <2>2, <3>1, <3>2 DEF Heading, Among
        <3>6. \A x : Reaches(m, x) => Reaches(m, x)'
            BY <2>2, <3>1, <3>2, <3>4, <3>5 DEF Reaches
        <3> QED BY <1>a, <2>2, <3>1, <3>2, <3>4, <3>6 DEF Held
    <2> QED BY <2>4, <2>6, <2>7, <2>8 DEF NothingLost
<1>15. CASE UNCHANGED vars
    <2>1. UNCHANGED <<docVars, seenVars, open, side, out, sending, wire>>
        BY <1>15 DEF vars, linkVars
    <2>2. \A m \in Linked : In(m)' = In(m)
        BY <1>n, <2>1 DEF In
    <2> QED BY <1>s, <2>1, <2>2
<1> QED
    BY <1>1, <1>2, <1>3, <1>4, <1>5, <1>6, <1>7, <1>8, <1>9, <1>10, <1>11, <1>12, <1>13, <1>14, <1>15
    DEF Next, Connection, Pump, Relay

(* What the properties say of frames, said of In(l). *)
LEMMA FramesIn ==
    ASSUME TypeOK, NEW m \in Linked
    PROVE  Frames(m) \in Seq(Frame) /\ Among(Frames(m)) = In(m)
<1>1. sending[m] \in Seq(Frame) /\ wire[m] \in Seq(Frame) /\ out[m] \in Seq(Frame)
    BY DEF TypeOK
<1> DEFINE first == sending[m] \o wire[m]
<1>2. first \in Seq(Frame) /\ Among(first) = Among(sending[m]) \cup Among(wire[m])
    BY <1>1, AmongSeq
<1>3. Frames(m) = first \o out[m]
    BY DEF Frames
<1> HIDE DEF first
<1> QED BY <1>1, <1>2, <1>3, AmongSeq DEF In

LEMMA FramesAre ==
    ASSUME TypeOK, NothingLost, NEW l \in Linked, Live(l), ~AllComing(l)
    PROVE  \A x \in Missed(l) : x \in guests[l]
<1>1. \A m \in Linked : Frames(m) \in Seq(Frame) /\ Among(Frames(m)) = In(m)
    BY FramesIn
<1>2. Back(l) \in Linked /\ l[1] \in Device /\ l[2] \in Device
    BY Ways
<1>3. ~Coming(l)
    BY <1>1, <1>2 DEF AllComing, Coming, Asks, Among
<1>4. ASSUME NEW x, Brings(l, x) PROVE x \in InFrames(Frames(l))
    BY <1>1, <1>4 DEF Brings, Among, InFrames
<1>5. ASSUME NEW x, Heading(l, x) PROVE x \in InBus(l)
    BY <1>5 DEF Heading, Among, InBus
<1>6. ASSUME NEW x \in Missed(l) PROVE x \in guests[l]
    <2>1. Reaches(l, x)
        BY <1>3, <1>6 DEF NothingLost, Held, Missed, Snapshot
    <2> QED BY <1>4, <1>5, <1>6, <2>1 DEF Reaches, Missed
<1> QED BY <1>6

LEMMA NothingLostHolds == Spec => []NothingLost
<1>1. Init => NothingLost
    <2> SUFFICES ASSUME Init PROVE NothingLost
        OBVIOUS
    <2>1. Paired /\ Posted
        BY DEF Init, Paired, Posted, Among
    <2>2. Sent /\ Asked /\ \A l \in Linked : Held(l)
        <3>1. \A l \in Linked : side[l] = "off" /\ sending[l] = <<>> /\ wire[l] = <<>> /\ out[l] = <<>>
            BY DEF Init
        <3> QED BY <3>1, Ways DEF Sent, Asked, Held, Live, Pumping, In, Among
    <2> QED BY <2>1, <2>2 DEF NothingLost
<1>2. TypeOK /\ TypeOK' /\ NothingLost /\ [Next]_vars => NothingLost'
    BY NothingLostStep
<1> QED BY <1>1, <1>2, ClipTypeCorrect, PTL DEF Spec

(* With any number of devices and any links between them, whatever the network
   and the processes do: while both ends of a connection are up, a device can
   miss of its peer's document only what that peer held back of a third device. *)
THEOREM OnlyGuestsAreMissed == Spec => []OnlyGuestsMissed
<1>1. TypeOK /\ NothingLost => OnlyGuestsMissed
    BY FramesAre DEF OnlyGuestsMissed
<1> QED BY <1>1, ClipTypeCorrect, NothingLostHolds, PTL

(* Every device has one peer. *)
OnePeer == \A l, m \in Linked : l[1] = m[1] => l = m

(* Between devices with one peer each nothing is missed: the relay to all but
   the origin is enough there, and only there (run parked_relay). *)
THEOREM NothingIsMissed == OnePeer => (Spec => []NothingMissed)
<1> SUFFICES ASSUME OnePeer PROVE Spec => []NothingMissed
    OBVIOUS
<1> DEFINE Alone == \A l \in Linked : guests[l] = {}
<1>1. Init => Alone
    BY DEF Init
<1>2. TypeOK /\ Alone /\ [Next]_vars => Alone'
    <2> SUFFICES ASSUME TypeOK, Alone, [Next]_vars PROVE Alone'
        OBVIOUS
    <2>1. ASSUME NEW l \in Linked, NEW items, apply_update(l[1], items, l[2]) PROVE Alone'
        <3> SUFFICES ASSUME NEW m \in Linked PROVE guests'[m] = {}
            OBVIOUS
        <3>1. m[1] # l[1] \/ m[2] = l[2]
            BY DEF OnePeer
        <3>2. guests'[m] = guests[m]
            BY <2>1, <3>1 DEF apply_update
        <3> QED BY <3>2
    <2>2. ASSUME UNCHANGED guests PROVE Alone'
        BY <2>2
    <2>3. ASSUME NEW l \in Linked, SendStep1(l) PROVE Alone'
        BY <2>3 DEF SendStep1, TypeOK
    <2>4. ASSUME NEW d \in Device, Restart(d) PROVE Alone'
        BY <2>4 DEF Restart
    <2>5. ASSUME NEW l \in Linked, Receive(l) PROVE Alone'
        BY <2>1, <2>2, <2>5 DEF Receive
    <2>6. ASSUME NEW l \in Linked, ReceiveLate(l) PROVE Alone'
        BY <2>1, <2>2, <2>6 DEF ReceiveLate, seenVars
    <2>7. ASSUME NEW l \in Linked,
                 \/ Connect(l) \/ Register(l) \/ Dequeue(l) \/ Written(l) \/ finish_connection(l)
                 \/ IdleTimeout(l) \/ Break(l)
          PROVE  Alone'
        BY <2>2, <2>7 DEF Connect, Register, Dequeue, Written, finish_connection, IdleTimeout, Break,
                          seenVars
    <2>8. ASSUME NEW d \in Device,
                 FanOut(d) \/ Lagged(d) \/ (\E x \in Item : add_entry(d, x))
          PROVE  Alone'
        BY <2>2, <2>8 DEF FanOut, Lagged, add_entry, seenVars
    <2>9. CASE UNCHANGED vars
        BY <2>2, <2>9 DEF vars, seenVars
    <2> QED BY <2>3, <2>4, <2>5, <2>6, <2>7, <2>8, <2>9 DEF Next, Connection, Pump, Relay
<1>3. TypeOK /\ NothingLost /\ Alone => NothingMissed
    BY FramesAre DEF NothingMissed
<1> QED BY <1>1, <1>2, <1>3, ClipTypeCorrect, NothingLostHolds, PTL DEF Spec

-----------------------------------------------------------------------------
(***************************************************************************)
(* When traffic ceases, the documents are equal.                           *)
(***************************************************************************)
(* A document has integrated all it can of what it holds; items rest on earlier
   ones; and a frame that is read late brings nothing unheard of. *)
Rooted ==
    /\ \A d \in Device : Snapshot(d) \subseteq made /\ doc[d] = Integrable(Snapshot(d))
    /\ \A x \in made : needs[x] \subseteq made
    /\ \A l \in Linked : \A f \in Among(late[l]) : f.items \subseteq made

(* Integrable(S) is the greatest part of S that is closed under needs. *)
LEMMA IntegrableIsGreatest ==
    ASSUME NEW S
    PROVE  /\ Integrable(S) \subseteq S
           /\ \A x \in Integrable(S) : needs[x] \subseteq Integrable(S)
           /\ \A T \in SUBSET S : (\A x \in T : needs[x] \subseteq T) => T \subseteq Integrable(S)
BY DEF Integrable

(* A new item rests on the document it is added to.  Nothing rested on it: it
   joins the integrated part and lets nothing else in. *)
LEMMA AddedIsIntegrable ==
    ASSUME TypeOK, Rooted, NEW d \in Device, NEW x \in Item, add_entry(d, x), NEW e \in Device
    PROVE  /\ Snapshot(e)' \subseteq made' /\ doc'[e] = Integrable(Snapshot(e))'
           /\ \A y \in made' : needs'[y] \subseteq made'
<1> DEFINE S == Snapshot(e)
           Closed(T) == \A y \in T : needs[y] \subseteq T
           ClosedNow(T) == \A y \in T : needs'[y] \subseteq T
<1>1. /\ x \notin made /\ made' = made \cup {x} /\ parked' = parked
      /\ needs' = [needs EXCEPT ![x] = doc[d]]
      /\ doc' = [doc EXCEPT ![d] = doc[d] \cup {x}]
    BY DEF add_entry
<1>2. /\ needs \in [Item -> SUBSET Item] /\ doc \in [Device -> SUBSET Item] /\ made \subseteq Item
    BY DEF TypeOK
<1>3. /\ \A y \in made : needs'[y] = needs[y] /\ needs[y] \subseteq made
      /\ needs'[x] = doc[d]
    BY <1>1, <1>2 DEF Rooted
<1>4. /\ S \subseteq made /\ doc[e] = Integrable(S) /\ doc[d] \subseteq made /\ doc[e] \subseteq S
    BY DEF Rooted, Snapshot
<1>5. /\ doc[e] \subseteq S /\ Closed(doc[e])
      /\ \A T \in SUBSET S : Closed(T) => T \subseteq doc[e]
    BY <1>4, IntegrableIsGreatest
<1>6. \A y \in made' : needs'[y] \subseteq made'
    BY <1>1, <1>3, <1>4
<1>7. \A T : T \subseteq made => (ClosedNow(T) <=> Closed(T))
    BY <1>3
<1>8. Snapshot(e)' = IF e = d THEN S \cup {x} ELSE S
    BY <1>1, <1>2 DEF Snapshot
<1>9. doc'[e] = IF e = d THEN doc[e] \cup {x} ELSE doc[e]
    BY <1>1, <1>2
<1>10. Integrable(Snapshot(e))' = UNION {T \in SUBSET Snapshot(e)' : ClosedNow(T)}
    BY DEF Integrable, Snapshot
<1>11. ClosedNow(doc'[e]) /\ doc'[e] \subseteq Snapshot(e)'
    <2>1. ClosedNow(doc[e])
        BY <1>4, <1>5, <1>7
    <2> HIDE DEF S
    <2> QED BY <1>3, <1>4, <1>8, <1>9, <2>1
<1>12. ASSUME NEW T \in SUBSET Snapshot(e)', ClosedNow(T) PROVE T \subseteq doc'[e]
    <2> DEFINE R == T \ {x}
    <2>1. R \subseteq S
        BY <1>8, <1>12
    <2>2. \A y \in R : needs'[y] \subseteq R
        <3>1. \A y \in R : y \in made /\ needs'[y] \subseteq T /\ needs'[y] \subseteq made
            BY <1>3, <1>4, <1>12, <2>1
        <3> QED BY <1>1, <3>1
    <2>3. Closed(R)
        BY <1>4, <1>7, <2>1, <2>2
    <2>4. R \subseteq doc[e]
        BY <1>5, <2>1, <2>3
    <2>5. x \in T => e = d
        BY <1>1, <1>4, <1>8, <1>12
    <2> QED BY <1>9, <2>4, <2>5
<1>13. doc'[e] = Integrable(Snapshot(e))'
    <2> HIDE DEF S, ClosedNow
    <2> QED BY <1>10, <1>11, <1>12
<1>14. Snapshot(e)' \subseteq made'
    BY <1>1, <1>4, <1>8
<1> QED BY <1>6, <1>13, <1>14

(* A socket that ends leaves what it carried to be read late. *)
LEMMA LateIsMade ==
    ASSUME TypeOK, Rooted, Sent, UNCHANGED made, NEW links, NEW removed, NEW deaf,
           EndSockets(links, removed, deaf)
    PROVE  \A l \in Linked : \A f \in Among(late'[l]) : f.items \subseteq made'
<1> TAKE l \in Linked
<1>1. late'[l] \in {late[l], wire[l], <<>>}
    BY DEF EndSockets
<1>2. \A f \in Among(late[l]) : f.items \subseteq made
    BY DEF Rooted
<1>3. \A f \in Among(wire[l]) : f.items \subseteq made
    BY Ways DEF Sent, In, Rooted
<1>4. Among(<<>>) = {}
    BY DEF Among
<1> QED BY <1>1, <1>2, <1>3, <1>4

LEMMA RootedStep == TypeOK /\ NothingLost /\ Rooted /\ [Next]_vars => Rooted'
<1> SUFFICES ASSUME TypeOK, NothingLost, Rooted, [Next]_vars PROVE Rooted'
    OBVIOUS
<1>a. Sent /\ Posted
    BY DEF NothingLost
<1>b. ASSUME UNCHANGED <<made, needs, doc, parked>>,
             \A l \in Linked : \A f \in Among(late'[l]) : f.items \subseteq made'
      PROVE  Rooted'
    <2>1. \A d \in Device : Snapshot(d)' = Snapshot(d) /\ Integrable(Snapshot(d))' = Integrable(Snapshot(d))
        BY <1>b DEF Snapshot, Integrable
    <2> QED BY <1>b, <2>1 DEF Rooted, Among
<1>c. ASSUME UNCHANGED <<made, needs, doc, parked, late>> PROVE Rooted'
    BY <1>b, <1>c DEF Rooted, Among
<1>d. ASSUME NEW l \in Linked, NEW items \in SUBSET made, apply_update(l[1], items, l[2]),
             \A m \in Linked : \A f \in Among(late'[m]) : f.items \subseteq made
      PROVE  Rooted'
    <2>1. l[1] \in Device /\ made \subseteq Item
        BY Ways DEF TypeOK
    <2>2. \A d \in Device : Snapshot(d)' = IF d = l[1] THEN Snapshot(d) \cup items ELSE Snapshot(d)
        BY <1>a, <1>d, <2>1, Applied
    <2>3. /\ made' = made /\ needs' = needs
          /\ doc' = [doc EXCEPT ![l[1]] = Integrable(Snapshot(l[1]) \cup items)]
        BY <1>d DEF apply_update
    <2>4. \A d \in Device :
              doc'[d] = IF d = l[1] THEN Integrable(Snapshot(d) \cup items) ELSE doc[d]
        BY <2>1, <2>3 DEF TypeOK
    <2>5. \A d \in Device : Integrable(Snapshot(d))' = Integrable(Snapshot(d)')
        BY <2>3 DEF Integrable
    <2>6. ASSUME NEW d \in Device
          PROVE  Snapshot(d)' \subseteq made' /\ doc'[d] = Integrable(Snapshot(d))'
        BY <1>d, <2>2, <2>3, <2>4, <2>5 DEF Rooted
    <2> QED BY <1>d, <2>3, <2>6 DEF Rooted, Among
<1>e. ASSUME NEW f, NEW s \in Seq(Frame), s # <<>>, f = Head(s)
      PROVE  f \in Among(s) /\ f.items \in SUBSET Item /\ Among(Tail(s)) \subseteq Among(s)
    <2>1. f \in Among(s) /\ f \in Frame /\ Among(Tail(s)) \subseteq Among(s)
        BY <1>e, AmongSeq
    <2> QED BY <2>1 DEF Frame
<1>1. ASSUME NEW d \in Device, NEW x \in Item, add_entry(d, x) PROVE Rooted'
    <2>1. \A l \in Linked : \A f \in Among(late[l])' : f.items \subseteq made'
        BY <1>1 DEF add_entry, Rooted, linkVars, Among
    <2>2. /\ \A e \in Device : Snapshot(e)' \subseteq made' /\ doc'[e] = Integrable(Snapshot(e))'
          /\ \A y \in made' : needs'[y] \subseteq made'
        BY <1>1, AddedIsIntegrable
    <2> QED BY <2>1, <2>2 DEF Rooted
<1>2. ASSUME NEW l \in Linked,
             Connect(l) \/ Register(l) \/ SendStep1(l) \/ Dequeue(l) \/ Written(l)
      PROVE  Rooted'
    BY <1>c, <1>2 DEF Connect, Register, SendStep1, Dequeue, Written, docVars
<1>3. ASSUME NEW l \in Linked, finish_connection(l) PROVE Rooted'
    <2>1. UNCHANGED <<made, needs, doc, parked>>
        BY <1>3 DEF finish_connection, docVars
    <2>2. \A m \in Linked : late'[m] = late[m] \/ late'[m] = <<>>
        BY <1>3 DEF finish_connection, TypeOK
    <2>3. Among(<<>>) = {}
        BY DEF Among
    <2> QED BY <1>b, <2>1, <2>2, <2>3 DEF Rooted
<1>4. ASSUME NEW l \in Linked, Receive(l) PROVE Rooted'
    <2> DEFINE in == Back(l)
               frame == Head(wire[in])
    <2>1. in \in Linked /\ in[1] \in Device /\ wire[in] \in Seq(Frame) /\ wire[in] # <<>>
        BY <1>4, Ways DEF Receive, TypeOK
    <2>2. frame \in Among(wire[in])
        BY <1>e, <2>1
    <2>3. frame.items \subseteq made
        BY <1>a, <2>1, <2>2 DEF Sent, In, Rooted
    <2>4. late' = late
        BY <1>4 DEF Receive
    <2>5. CASE UNCHANGED docVars
        BY <1>c, <2>4, <2>5 DEF docVars
    <2>6. CASE apply_update(l[1], frame.items, l[2])
        <3>1. \A m \in Linked : \A f \in Among(late'[m]) : f.items \subseteq made
            BY <2>4 DEF Rooted
        <3> HIDE DEF frame
        <3> QED BY <1>d, <2>3, <2>6, <3>1
    <2> QED BY <1>4, <2>5, <2>6 DEF Receive
<1>5. ASSUME NEW l \in Linked, ReceiveLate(l) PROVE Rooted'
    <2> DEFINE in == Back(l)
               frame == Head(late[in])
    <2>1. in \in Linked /\ late[in] \in Seq(Frame) /\ late[in] # <<>>
        BY <1>5, Ways DEF ReceiveLate, TypeOK
    <2>2. frame \in Among(late[in]) /\ Among(Tail(late[in])) \subseteq Among(late[in])
        BY <1>e, <2>1
    <2>3. frame.items \subseteq made
        BY <2>1, <2>2 DEF Rooted
    <2>4. \A m \in Linked : late'[m] = IF m = in THEN Tail(late[in]) ELSE late[m]
        BY <1>5 DEF ReceiveLate, TypeOK
    <2>5. \A m \in Linked : \A f \in Among(late'[m]) : f.items \subseteq made
        <3> HIDE DEF in, frame
        <3> QED BY <2>2, <2>4 DEF Rooted
    <2>6. CASE UNCHANGED docVars
        BY <1>b, <2>5, <2>6 DEF docVars
    <2>7. CASE apply_update(l[1], frame.items, l[2])
        <3> HIDE DEF frame
        <3> QED BY <1>d, <2>3, <2>5, <2>7
    <2> QED BY <1>5, <2>6, <2>7 DEF ReceiveLate
<1>6. ASSUME UNCHANGED <<made, needs, doc, parked>>, NEW links, NEW removed, NEW deaf,
             EndSockets(links, removed, deaf)
      PROVE  Rooted'
    BY <1>a, <1>b, <1>6, LateIsMade
<1>7. ASSUME NEW l \in Linked, IdleTimeout(l) \/ Break(l) PROVE Rooted'
    BY <1>6, <1>7 DEF IdleTimeout, Break, docVars
<1>8. ASSUME NEW d \in Device, FanOut(d) \/ Lagged(d) PROVE Rooted'
    BY <1>6, <1>8 DEF FanOut, Lagged, Resync, send_to_peers
<1>9. ASSUME NEW d \in Device, Restart(d) PROVE Rooted'
    <2>1. /\ doc' = [doc EXCEPT ![d] = {}] /\ parked' = [parked EXCEPT ![d] = {}]
          /\ UNCHANGED <<made, needs>>
        BY <1>9 DEF Restart
    <2>2. \A l \in Linked : \A f \in Among(late'[l]) : f.items \subseteq made'
        BY <1>9, <1>a, LateIsMade DEF Restart
    <2>3. \A e \in Device : /\ doc'[e] = IF e = d THEN {} ELSE doc[e]
                            /\ Snapshot(e)' = IF e = d THEN {} ELSE Snapshot(e)
        BY <2>1 DEF Snapshot, TypeOK
    <2>4. \A e \in Device : Integrable(Snapshot(e))' = Integrable(Snapshot(e)')
        BY <2>1 DEF Integrable
    <2>5. Integrable({}) = {}
        BY IntegrableIsGreatest
    <2>6. \A e \in Device : Snapshot(e)' \subseteq made' /\ doc'[e] = Integrable(Snapshot(e))'
        BY <2>1, <2>3, <2>4, <2>5 DEF Rooted
    <2> QED BY <2>1, <2>2, <2>6 DEF Rooted, Among
<1>10. CASE UNCHANGED vars
    BY <1>c, <1>10 DEF vars, docVars, linkVars
<1> QED BY <1>1, <1>2, <1>3, <1>4, <1>5, <1>7, <1>8, <1>9, <1>10 DEF Next, Connection, Pump, Relay

(* Whatever was dropped, cut or restarted, with any number of devices: if
   nothing is under way between two connected devices, their documents are
   equal, but for the two exceptions. *)
THEOREM StillnessIsEquality == Spec => []StillIsEqual
<1>1. Init => Rooted
    <2> SUFFICES ASSUME Init PROVE Rooted
        OBVIOUS
    <2>1. \A d \in Device : doc[d] = {} /\ Snapshot(d) = {}
        BY DEF Init, Snapshot
    <2>2. Integrable({}) = {}
        BY IntegrableIsGreatest
    <2>3. \A l \in Linked : Among(late[l]) = {}
        BY DEF Init, Among
    <2> QED BY <2>1, <2>2, <2>3 DEF Init, Rooted
<1>2. TypeOK /\ NothingLost /\ Rooted => StillIsEqual
    <2> SUFFICES ASSUME TypeOK, NothingLost, Rooted,
                        NEW l \in Linked, Still(l), Still(Back(l))
                 PROVE  doc[l[1]] = doc[l[2]]
        BY DEF StillIsEqual
    <2>1. ASSUME NEW m \in Linked, Still(m), Still(Back(m)) PROVE Snapshot(m[1]) \subseteq Snapshot(m[2])
        <3>1. Back(m) \in Linked /\ m[1] \in Device
            BY Ways
        <3>2. In(m) = {} /\ In(Back(m)) = {} /\ Among(bus[m[1]]) = {}
            BY <2>1, <3>1, FramesIn DEF Still, Among
        <3>3. Live(m) /\ ~Coming(m)
            BY <2>1, <3>2 DEF Live, Coming, Asks, Still, Pumping
        <3>4. \A x \in Snapshot(m[1]) : Reaches(m, x)
            BY <3>3 DEF NothingLost, Held
        <3> QED BY <2>1, <3>2, <3>4 DEF Reaches, Brings, Heading, Still
    <2>2. Back(l) \in Linked /\ Back(Back(l)) = l /\ Back(l)[1] = l[2] /\ Back(l)[2] = l[1]
        BY Ways DEF Back
    <2>3. Snapshot(l[1]) = Snapshot(l[2])
        BY <2>1, <2>2
    <2>4. l[1] \in Device /\ l[2] \in Device
        BY Ways
    <2> QED BY <2>3, <2>4 DEF Rooted
<1> QED BY <1>1, <1>2, RootedStep, ClipTypeCorrect, NothingLostHolds, PTL DEF Spec

=============================================================================
