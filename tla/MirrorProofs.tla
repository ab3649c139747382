----------------------------- MODULE MirrorProofs -----------------------------
(***************************************************************************)
(* Proofs about Mirror, for any devices, texts, modes, queue bounds and    *)
(* number of user acts: the history has a newest entry whenever it has     *)
(* one, the types, and that nothing enters the history by itself.          *)
(***************************************************************************)
EXTENDS Mirror, FiniteSetTheorems, FunctionTheorems, SequenceTheorems, WellFoundedInduction, TLAPS

-----------------------------------------------------------------------------
(* Where the ids a and b part: b goes on where a ends, or ranks higher. *)
Fork(a, b, i) ==
    /\ i \in 1..Len(b) /\ i - 1 <= Len(a)
    /\ \A j \in 1..(i - 1) : a[j] = b[j]
    /\ i = Len(a) + 1 \/ (i <= Len(a) /\ Rank[a[i]] < Rank[b[i]])
Precedes(a, b) == \E i \in Nat : Fork(a, b, i)

LEMMA PrecedesIsOrder ==
    ASSUME NEW a \in Seq(Device), NEW b \in Seq(Device), NEW c \in Seq(Device)
    PROVE  /\ ~Precedes(a, a)
           /\ Precedes(a, b) /\ Precedes(b, c) => Precedes(a, c)
<1>1. /\ Len(a) \in Nat /\ Len(b) \in Nat /\ Len(c) \in Nat
      /\ \A i \in 1..Len(a) : Rank[a[i]] \in Nat
      /\ \A i \in 1..Len(b) : Rank[b[i]] \in Nat
      /\ \A i \in 1..Len(c) : Rank[c[i]] \in Nat
    BY LenProperties, ElementOfSeq, RankAssumption
<1>2. ~Precedes(a, a)
    BY <1>1 DEF Precedes, Fork
<1>3. ASSUME NEW i \in Nat, NEW k \in Nat, Fork(a, b, i), Fork(b, c, k)
      PROVE  Precedes(a, c)
    <2>1. CASE i < k
        <3>1. Fork(a, c, i)
            BY <1>1, <1>3, <2>1 DEF Fork
        <3> QED BY <3>1 DEF Precedes
    <2>2. CASE i = k
        <3>1. Fork(a, c, i)
            BY <1>1, <1>3, <2>2 DEF Fork
        <3> QED BY <3>1 DEF Precedes
    <2>3. CASE k < i
        <3>1. Fork(a, c, k)
            BY <1>1, <1>3, <2>3 DEF Fork
        <3> QED BY <3>1 DEF Precedes
    <2> QED BY <2>1, <2>2, <2>3
<1> QED BY <1>2, <1>3 DEF Precedes

LEMMA BeforePrecedes ==
    ASSUME NEW e \in Entry, NEW f \in Entry, Before(e, f)
    PROVE  Precedes(e.id, f.id)
<1> DEFINE a == e.id
           b == f.id
<1>1. /\ a \in Seq(Device) /\ b \in Seq(Device) /\ Len(a) \in Nat /\ Len(b) \in Nat
      /\ DOMAIN a = 1..Len(a) /\ DOMAIN b = 1..Len(b)
    BY LenProperties DEF Entry
<1>2. ASSUME NEW n \in Nat, n <= Len(a), n <= Len(b), SubSeq(a, 1, n) = SubSeq(b, 1, n)
      PROVE  \A j \in 1..n : a[j] = b[j]
    <2>1. /\ \A j \in 1..n : a[j] \in Device /\ b[j] \in Device
        BY <1>1, <1>2, ElementOfSeq
    <2>2. /\ \A j \in 1..n : SubSeq(a, 1, n)[j] = a[j]
          /\ \A j \in 1..n : SubSeq(b, 1, n)[j] = b[j]
        BY <2>1, SubSeqProperties
    <2> QED BY <1>2, <2>2
<1>3. CASE IsStrictPrefix(a, b)
    <2>1. Len(a) <= Len(b) /\ a # b /\ \A j \in 1..Len(a) : a[j] = b[j]
        BY <1>1, <1>2, <1>3 DEF IsStrictPrefix, IsPrefix
    <2>2. Len(a) # Len(b)
        BY <1>1, <2>1, SeqEqual
    <2>3. Fork(a, b, Len(a) + 1)
        BY <1>1, <2>1, <2>2 DEF Fork
    <2> QED BY <1>1, <2>3 DEF Precedes
<1>4. CASE \E i \in DOMAIN a \cap DOMAIN b :
              SubSeq(a, 1, i - 1) = SubSeq(b, 1, i - 1) /\ Rank[a[i]] < Rank[b[i]]
    <2>1. PICK i \in DOMAIN a \cap DOMAIN b :
              SubSeq(a, 1, i - 1) = SubSeq(b, 1, i - 1) /\ Rank[a[i]] < Rank[b[i]]
        BY <1>4
    <2>2. \A j \in 1..(i - 1) : a[j] = b[j]
        BY <1>1, <1>2, <2>1
    <2>3. Fork(a, b, i) /\ i \in Nat
        BY <1>1, <2>1, <2>2 DEF Fork
    <2> QED BY <2>3 DEF Precedes
<1> QED BY <1>3, <1>4 DEF Before

(* The newest of a history that is not empty exists. *)
LEMMA NewestExists ==
    ASSUME NEW S \in SUBSET Entry, IsFiniteSet(S), S # {}
    PROVE  \E e \in S : \A f \in S : ~Before(e, f)
<1> DEFINE Above(e) == {f \in S : Precedes(e.id, f.id)}
           T == {Above(e) : e \in S}
<1>1. IsWellFoundedOn(StrictSubsetOrdering(S), FiniteSubsetsOf(S))
    BY FS_StrictSubsetOrderingWellFounded
<1>2. FiniteSubsetsOf(S) = SUBSET S
    BY FS_FiniteSubsetsOfFinite
<1>3. T \subseteq FiniteSubsetsOf(S) /\ T # {}
    <2>1. \A e \in S : Above(e) \in SUBSET S
        OBVIOUS
    <2> HIDE DEF Above
    <2> QED BY <1>2, <2>1
<1>4. \E A \in T : \A B \in T : <<B, A>> \notin StrictSubsetOrdering(S)
    <2> HIDE DEF T
    <2> QED BY <1>1, <1>3, WFMin
<1>5. PICK e \in S : \A f \in S : <<Above(f), Above(e)>> \notin StrictSubsetOrdering(S)
    BY <1>4
<1>6. ASSUME NEW f \in S, Before(e, f) PROVE FALSE
    <2>1. e.id \in Seq(Device) /\ f.id \in Seq(Device) /\ \A g \in S : g.id \in Seq(Device)
        BY DEF Entry
    <2>2. Precedes(e.id, f.id)
        BY <1>6, BeforePrecedes
    <2>3. Above(f) \subseteq Above(e)
        BY <2>1, <2>2, PrecedesIsOrder
    <2>4. f \in Above(e) /\ f \notin Above(f)
        BY <2>1, <2>2, PrecedesIsOrder
    <2>5. <<Above(f), Above(e)>> \in StrictSubsetOrdering(S)
        BY <2>3, <2>4 DEF StrictSubsetOrdering
    <2> QED BY <1>5, <2>5
<1> QED BY <1>6

-----------------------------------------------------------------------------
(* What all devices know. *)
All == UNION {known[o] : o \in Device}

Command == [text : Text, by : {"yoink", "user", "pick"}]
Ids(d) == {e.id : e \in known[d]}

HistoryOK ==
    /\ known \in [Device -> SUBSET Entry] /\ pruned \in [Device -> SUBSET Seq(Device)]
    /\ feed \in [Device -> Seq({"local", "remote"})]
    /\ \A d \in Device : Len(feed[d]) <= FeedCap /\ pruned[d] \subseteq Ids(d)

(* The sets of entries are finite: there is a newest one. *)
AllFinite == IsFiniteSet(All)

LEMMA HistoryHasNewest ==
    ASSUME HistoryOK, AllFinite, NEW d \in Device, entries(d) # {}
    PROVE  latest(d) \in known[d] /\ latest(d) \in Entry
<1>1. known[d] \subseteq Entry /\ entries(d) \subseteq known[d] /\ known[d] \subseteq All
    BY DEF HistoryOK, entries, All
<1>2. IsFiniteSet(entries(d)) /\ entries(d) \in SUBSET Entry
    BY <1>1, FS_Subset DEF AllFinite
<1>3. latest(d) \in entries(d)
    BY <1>2, NewestExists DEF latest
<1> QED BY <1>1, <1>3

(* A transaction is published. *)
LEMMA PublishType ==
    ASSUME TypeOK, NEW d \in Device, NEW kind \in {"local", "remote"}, Publish(d, kind)
    PROVE  feed' \in [Device -> Seq({"local", "remote"})] /\ \A o \in Device : Len(feed'[o]) <= FeedCap
<1> DEFINE K == {"local", "remote"}
<1>1. /\ feed \in [Device -> Seq(K)] /\ \A o \in Device : Len(feed[o]) <= FeedCap
      /\ feed[d] \in Seq(K) /\ Len(feed[d]) \in Nat /\ FeedCap \in Nat \ {0}
    BY LenProperties, BoundAssumption DEF TypeOK
<1>2. PICK s \in Seq(K) : /\ Len(s) \in Nat /\ Len(s) < FeedCap
                          /\ feed' = [feed EXCEPT ![d] = Append(s, kind)]
    <2>1. CASE Len(feed[d]) < FeedCap
        BY <1>1, <2>1 DEF Publish
    <2>2. CASE ~(Len(feed[d]) < FeedCap)
        <3>1. PICK i \in 1..Len(feed[d]) : feed' = [feed EXCEPT ![d] = Append(RemoveAt(@, i), kind)]
            BY <2>2 DEF Publish
        <3> DEFINE s == feed[d]
                   l == SubSeq(s, 1, i - 1)
                   r == SubSeq(s, i + 1, Len(s))
        <3>2. \A j \in 1..Len(s) : s[j] \in K
            BY <1>1, ElementOfSeq
        <3>3. l \in Seq(K) /\ Len(l) = i - 1
            BY <1>1, <3>2, SubSeqProperties
        <3>4. r \in Seq(K) /\ Len(r) = Len(s) - i
            BY <1>1, <3>2, SubSeqProperties
        <3> HIDE DEF K, l, r
        <3>5. l \o r \in Seq(K) /\ Len(l \o r) = Len(s) - 1
            <4>1. l \o r \in Seq(K) /\ Len(l \o r) = Len(l) + Len(r)
                BY <3>3, <3>4, ConcatProperties
            <4> QED BY <1>1, <3>3, <3>4, <4>1
        <3>6. feed' = [feed EXCEPT ![d] = Append(l \o r, kind)]
            BY <3>1 DEF RemoveAt, l, r
        <3>7. Len(l \o r) \in Nat /\ Len(l \o r) < FeedCap
            BY <1>1, <3>5
        <3> HIDE DEF s
        <3> QED BY <3>5, <3>6, <3>7
    <2> QED BY <2>1, <2>2
<1>3. Append(s, kind) \in Seq(K) /\ Len(Append(s, kind)) <= FeedCap
    <2> HIDE DEF K
    <2>1. kind \in K
        BY DEF K
    <2> QED BY <1>1, <1>2, <2>1, AppendProperties
<1> QED BY <1>1, <1>2, <1>3

(* An entry of d goes to the end of the history of d. *)
LEMMA AddedEntry ==
    ASSUME TypeOK, AllFinite, NEW d \in Device, NEW text \in Text, add_entry(d, text)
    PROVE  /\ HistoryOK' /\ AllFinite'
           /\ \A o \in Device : known[o] \subseteq known'[o]
           /\ \E e \in Entry : All' = All \cup {e} /\ AuthorOf(e) = d /\ e.text = text
<1> DEFINE id == IF entries(d) = {} THEN None ELSE latest(d).id
           e == [id |-> Append(id, d), text |-> text]
           all == entries(d) \cup {e}
           gone == {f.id : f \in all \ Newest(all, MaxHistory)}
<1>1. known[d] \subseteq Entry /\ entries(d) \subseteq known[d] /\ known[d] \subseteq All
    BY DEF TypeOK, entries, All
<1>2. id \in Seq(Device)
    <2>1. CASE entries(d) = {}
        BY <2>1, EmptySeq DEF None
    <2>2. CASE entries(d) # {}
        <3>1. latest(d) \in Entry
            BY <2>2, HistoryHasNewest DEF TypeOK, HistoryOK, Ids
        <3> QED BY <2>2, <3>1 DEF Entry
    <2> QED BY <2>1, <2>2
<1>3. e \in Entry /\ AuthorOf(e) = d /\ e.text = text
    <2> HIDE DEF id
    <2>1. /\ Append(id, d) \in Seq(Device) /\ Len(Append(id, d)) = Len(id) + 1
          /\ Append(id, d)[Len(id) + 1] = d
        BY <1>2, AppendProperties
    <2> QED BY <2>1 DEF Entry, AuthorOf, Last
<1>4. /\ known' = [known EXCEPT ![d] = @ \cup {e}]
      /\ pruned' = [pruned EXCEPT ![d] = @ \cup gone]
      /\ Publish(d, "local")
    BY DEF add_entry
<1> HIDE DEF e
<1>5. /\ known' \in [Device -> SUBSET Entry]
      /\ \A o \in Device : known'[o] = IF o = d THEN known[o] \cup {e} ELSE known[o]
    BY <1>3, <1>4 DEF TypeOK
<1>6. gone \subseteq {f.id : f \in known[d] \cup {e}} /\ gone \subseteq Seq(Device)
    <2>1. all \subseteq known[d] \cup {e} /\ \A f \in all : f.id \in Seq(Device)
        BY <1>1, <1>3 DEF Entry
    <2> HIDE DEF all
    <2> QED BY <2>1
<1> HIDE DEF gone
<1>7. /\ pruned' \in [Device -> SUBSET Seq(Device)]
      /\ \A o \in Device : pruned'[o] = IF o = d THEN pruned[o] \cup gone ELSE pruned[o]
    BY <1>4, <1>6 DEF TypeOK
<1>8. \A o \in Device : pruned'[o] \subseteq Ids(o)'
    <2> SUFFICES ASSUME NEW o \in Device PROVE pruned'[o] \subseteq {f.id : f \in known'[o]}
        BY DEF Ids
    <2>1. pruned[o] \subseteq {f.id : f \in known[o]}
        BY DEF TypeOK
    <2> QED BY <1>5, <1>6, <1>7, <2>1
<1>9. HistoryOK'
    BY <1>4, <1>5, <1>7, <1>8, PublishType DEF HistoryOK
<1>10. All' = All \cup {e}
    BY <1>5 DEF All
<1>11. AllFinite'
    BY <1>10, FS_AddElement DEF AllFinite
<1> QED BY <1>3, <1>5, <1>9, <1>10, <1>11

BoardOK ==
    /\ clip \in [Device -> Text \cup {NoText}]
    /\ chosen \in [Device -> {"yoink", "user", "pick"}]
    /\ after \in [Device -> Seq(Device)]
    /\ offered \in [Device -> SUBSET (Text \cup {NoText})]
    /\ available \in [Device -> BOOLEAN]
    /\ last_set \in [Device -> Text \cup {NoText}]
    /\ last_observed \in [Device -> Text \cup {NoText}]

RestOK ==
    /\ cmds \in [Device -> Seq(Command)]
    /\ copied \in [Device -> Seq(Text)] /\ \A d \in Device : Len(copied[d]) <= EventCap
    /\ last_applied \in [Device -> Seq(Device)]
    /\ old \subseteq Seq(Device)
    /\ acts \in [Device -> [Text -> Nat]] /\ done \in 0..MaxActs /\ faults \in Nat

AppliedOK == \A d \in Device : last_applied[d] # None => last_applied[d] \in Ids(d)

LEMMA MirrorTypeStep == TypeOK /\ AllFinite /\ [Next]_vars => TypeOK' /\ AllFinite'
<1> SUFFICES ASSUME TypeOK, AllFinite, [Next]_vars PROVE TypeOK' /\ AllFinite'
    OBVIOUS
<1>a. BoardOK /\ HistoryOK /\ RestOK /\ AppliedOK
    BY DEF TypeOK, BoardOK, HistoryOK, RestOK, AppliedOK, Ids, Command
<1>b. ASSUME BoardOK', HistoryOK', RestOK', AppliedOK', AllFinite'
      PROVE  TypeOK' /\ AllFinite'
    BY <1>b DEF TypeOK, BoardOK, HistoryOK, RestOK, AppliedOK, Ids, Command
<1>c. MaxActs \in Nat /\ EventCap \in Nat \ {0} /\ NoText \notin Text
    BY BoundAssumption, TextAssumption
<1>d. UNCHANGED boardVars => BoardOK'
    BY <1>a DEF boardVars, BoardOK
<1>e. UNCHANGED <<known, pruned, feed>> => HistoryOK' /\ AllFinite'
    BY <1>a DEF HistoryOK, AllFinite, All, Ids
<1>f. UNCHANGED <<known, last_applied>> => AppliedOK'
    BY <1>a DEF AppliedOK, Ids
<1>g. ASSUME NEW d \in Device, NEW text \in Text, add_entry(d, text), UNCHANGED last_applied
      PROVE  HistoryOK' /\ AllFinite' /\ AppliedOK'
    <2>1. HistoryOK' /\ AllFinite' /\ \A o \in Device : known[o] \subseteq known'[o]
        BY <1>g, AddedEntry
    <2> QED BY <1>a, <1>g, <2>1 DEF AppliedOK, Ids
<1>h. ASSUME Act PROVE done' \in 0..MaxActs
    BY <1>a, <1>c, <1>h DEF Act, RestOK
<1>i. ASSUME NEW d \in Device, NEW text \in Text, NEW by \in {"yoink", "user", "pick"},
             set_text(d, text, by)
      PROVE  cmds' \in [Device -> Seq(Command)]
    <2>1. [text |-> text, by |-> by] \in Command
        BY DEF Command
    <2>2. Append(cmds[d], [text |-> text, by |-> by]) \in Seq(Command)
        BY <1>a, <2>1, AppendProperties DEF RestOK
    <2> QED BY <1>a, <1>i, <2>2 DEF set_text, RestOK
<1>1. ASSUME NEW d \in Device, NEW from \in Device, Receive(d, from) PROVE TypeOK' /\ AllFinite'
    <2>1. /\ known' = [known EXCEPT ![d] = @ \cup known[from]]
          /\ pruned' = [pruned EXCEPT ![d] = @ \cup pruned[from]]
          /\ Publish(d, "remote")
          /\ UNCHANGED <<boardVars, cmds, copied, last_applied, old, userVars, faults>>
        BY <1>1 DEF Receive
    <2>2. feed' \in [Device -> Seq({"local", "remote"})] /\ \A o \in Device : Len(feed'[o]) <= FeedCap
        BY <2>1, PublishType
    <2>3. /\ known' \in [Device -> SUBSET Entry] /\ pruned' \in [Device -> SUBSET Seq(Device)]
          /\ \A o \in Device : /\ known'[o] = IF o = d THEN known[o] \cup known[from] ELSE known[o]
                               /\ pruned'[o] = IF o = d THEN pruned[o] \cup pruned[from] ELSE pruned[o]
        BY <1>a, <2>1 DEF HistoryOK
    <2>4. HistoryOK'
        <3>1. ASSUME NEW o \in Device PROVE pruned'[o] \subseteq {e.id : e \in known'[o]}
            <4>1. \A r \in Device : pruned[r] \subseteq {e.id : e \in known[r]}
                BY <1>a DEF HistoryOK, Ids
            <4> QED BY <2>3, <4>1
        <3> QED BY <2>2, <2>3, <3>1 DEF HistoryOK, Ids
    <2>5. AllFinite'
        <3>1. All' = All
            BY <2>3 DEF All
        <3> QED BY <3>1 DEF AllFinite
    <2>6. AppliedOK'
        BY <1>a, <2>1, <2>3 DEF AppliedOK, Ids
    <2>7. RestOK'
        BY <1>a, <2>1 DEF RestOK, userVars
    <2> QED BY <1>b, <1>d, <2>1, <2>4, <2>5, <2>6, <2>7
<1>2. ASSUME NEW d \in Device, RunCommand(d) PROVE TypeOK' /\ AllFinite'
    <2> DEFINE cmd == Head(cmds[d])
    <2>1. cmd \in Command /\ Tail(cmds[d]) \in Seq(Command)
        BY <1>2, <1>a, HeadTailProperties DEF RunCommand, RestOK
    <2>2. cmd.text \in Text /\ cmd.by \in {"yoink", "user", "pick"}
        BY <2>1 DEF Command
    <2> HIDE DEF cmd
    <2>3. /\ cmds' = [cmds EXCEPT ![d] = Tail(@)]
          /\ \/ /\ clip' = [clip EXCEPT ![d] = cmd.text]
                /\ chosen' = [chosen EXCEPT ![d] = cmd.by]
                /\ after' = [after EXCEPT ![d] = last_applied[d]]
                /\ offered' = [offered EXCEPT ![d] = IF cmd.by = "pick" THEN @ \cup {cmd.text} ELSE @]
                /\ last_set' = [last_set EXCEPT ![d] = cmd.text]
                /\ UNCHANGED faults
             \/ /\ faults' = faults + 1
                /\ UNCHANGED <<clip, chosen, after, offered, last_set>>
          /\ UNCHANGED <<available, last_observed, copied, docVars, old, userVars>>
        BY <1>2 DEF RunCommand, record_set, cmd
    <2>4. RestOK'
        BY <1>a, <2>1, <2>3 DEF RestOK, docVars, userVars
    <2>5. BoardOK'
        <3>1. CASE /\ clip' = [clip EXCEPT ![d] = cmd.text]
                   /\ chosen' = [chosen EXCEPT ![d] = cmd.by]
                   /\ after' = [after EXCEPT ![d] = last_applied[d]]
                   /\ offered' = [offered EXCEPT ![d] = IF cmd.by = "pick" THEN @ \cup {cmd.text} ELSE @]
                   /\ last_set' = [last_set EXCEPT ![d] = cmd.text]
            <4>1. offered' \in [Device -> SUBSET (Text \cup {NoText})]
                BY <1>a, <2>2, <3>1 DEF BoardOK
            <4> QED BY <1>a, <2>2, <2>3, <3>1, <4>1 DEF BoardOK, RestOK
        <3>2. CASE UNCHANGED <<clip, chosen, after, offered, last_set>>
            BY <1>a, <2>3, <3>2 DEF BoardOK
        <3> QED BY <2>3, <3>1, <3>2
    <2> QED BY <1>b, <1>e, <1>f, <2>3, <2>4, <2>5 DEF docVars
<1>3. ASSUME NEW d \in Device, Poll(d) PROVE TypeOK' /\ AllFinite'
    <2>1. BoardOK'
        BY <1>3, <1>a DEF Poll, BoardOK
    <2>2. UNCHANGED <<cmds, docVars, old, userVars>> /\ (copied' = copied \/ faults' = faults)
        BY <1>3 DEF Poll
    <2>3. clip[d] \in Text
        BY <1>3, <1>a DEF Poll, BoardOK
    <2>4. RestOK'
        <3>1. CASE UNCHANGED copied /\ (faults' = faults \/ faults' = faults + 1)
            BY <1>a, <2>2, <3>1 DEF RestOK, docVars, userVars
        <3>2. CASE /\ Len(copied[d]) # EventCap /\ UNCHANGED faults
                   /\ copied' = [copied EXCEPT ![d] = Append(@, clip[d])]
            <4>1. copied[d] \in Seq(Text) /\ Len(copied[d]) \in Nat /\ Len(copied[d]) <= EventCap
                BY <1>a, LenProperties DEF RestOK
            <4>2. /\ Append(copied[d], clip[d]) \in Seq(Text)
                  /\ Len(Append(copied[d], clip[d])) <= EventCap
                BY <1>c, <2>3, <3>2, <4>1, AppendProperties
            <4>3. /\ copied' \in [Device -> Seq(Text)]
                  /\ \A o \in Device : Len(copied'[o]) <= EventCap
                BY <1>a, <3>2, <4>2 DEF RestOK
            <4> QED BY <1>a, <2>2, <3>2, <4>3 DEF RestOK, docVars, userVars
        <3> QED BY <1>3, <3>1, <3>2 DEF Poll
    <2> QED BY <1>b, <1>e, <1>f, <2>1, <2>2, <2>4 DEF docVars
<1>4. ASSUME NEW d \in Device, WorkerDies(d) PROVE TypeOK' /\ AllFinite'
    <2>1. BoardOK'
        BY <1>4, <1>a DEF WorkerDies, BoardOK
    <2>2. RestOK'
        <3>1. <<>> \in Seq(Command)
            BY EmptySeq
        <3> QED BY <1>4, <1>a, <3>1 DEF WorkerDies, RestOK, docVars, userVars
    <2> QED BY <1>4, <1>b, <1>e, <1>f, <2>1, <2>2 DEF WorkerDies, docVars
<1>5. ASSUME NEW d \in Device, on_clipboard(d) PROVE TypeOK' /\ AllFinite'
    <2> DEFINE text == Head(copied[d])
    <2>1. /\ copied[d] # <<>> /\ copied' = [copied EXCEPT ![d] = Tail(@)]
          /\ add_entry(d, text) \/ UNCHANGED <<known, pruned, feed>>
          /\ UNCHANGED <<boardVars, cmds, last_applied, old, userVars, faults>>
        BY <1>5 DEF on_clipboard
    <2>2. /\ text \in Text /\ Tail(copied[d]) \in Seq(Text) /\ Len(Tail(copied[d])) = Len(copied[d]) - 1
          /\ Len(copied[d]) \in Nat
        BY <1>a, <2>1, HeadTailProperties, LenProperties DEF RestOK
    <2> HIDE DEF text
    <2>3. RestOK'
        <3>1. Len(Tail(copied[d])) <= EventCap
            BY <1>a, <1>c, <2>2 DEF RestOK
        <3>2. copied' \in [Device -> Seq(Text)] /\ \A o \in Device : Len(copied'[o]) <= EventCap
            BY <1>a, <2>1, <2>2, <3>1 DEF RestOK
        <3> QED BY <1>a, <2>1, <3>2 DEF RestOK, userVars
    <2>4. HistoryOK' /\ AllFinite' /\ AppliedOK'
        BY <1>e, <1>f, <1>g, <2>1, <2>2
    <2> QED BY <1>b, <1>d, <2>1, <2>3, <2>4
<1>6. ASSUME NEW d \in Device, on_doc_update(d) PROVE TypeOK' /\ AllFinite'
    <2>1. /\ feed[d] # <<>> /\ feed' = [feed EXCEPT ![d] = Tail(@)]
          /\ \/ /\ entries(d) # {}
                /\ set_text(d, latest(d).text, "yoink")
                /\ last_applied' = [last_applied EXCEPT ![d] = latest(d).id]
             \/ UNCHANGED <<cmds, last_applied>>
          /\ UNCHANGED <<boardVars, copied, known, pruned, old, userVars, faults>>
        BY <1>6 DEF on_doc_update
    <2>2. HistoryOK' /\ AllFinite'
        <3>1. /\ feed[d] \in Seq({"local", "remote"}) /\ Len(feed[d]) \in Nat /\ FeedCap \in Nat
              /\ Len(feed[d]) <= FeedCap
            BY <1>a, LenProperties, BoundAssumption DEF HistoryOK
        <3>2. /\ Tail(feed[d]) \in Seq({"local", "remote"}) /\ Len(Tail(feed[d])) = Len(feed[d]) - 1
            BY <2>1, <3>1, HeadTailProperties
        <3>3. /\ feed' \in [Device -> Seq({"local", "remote"})]
              /\ \A o \in Device : Len(feed'[o]) <= FeedCap
            BY <1>a, <2>1, <3>1, <3>2 DEF HistoryOK
        <3> QED BY <1>a, <2>1, <3>3 DEF HistoryOK, Ids, AllFinite, All
    <2>3. CASE UNCHANGED <<cmds, last_applied>>
        <3>1. RestOK'
            BY <1>a, <2>1, <2>3 DEF RestOK, userVars
        <3> QED BY <1>b, <1>d, <1>f, <2>1, <2>2, <2>3, <3>1
    <2>4. CASE /\ entries(d) # {}
               /\ set_text(d, latest(d).text, "yoink")
               /\ last_applied' = [last_applied EXCEPT ![d] = latest(d).id]
        <3>1. latest(d) \in known[d] /\ latest(d) \in Entry
            BY <1>a, <2>4, HistoryHasNewest
        <3>2. latest(d).text \in Text /\ latest(d).id \in Seq(Device) /\ latest(d).id \in Ids(d)
            BY <3>1 DEF Entry, Ids
        <3>3. cmds' \in [Device -> Seq(Command)]
            BY <1>i, <2>4, <3>2
        <3>4. RestOK'
            BY <1>a, <2>1, <2>4, <3>2, <3>3 DEF RestOK, userVars
        <3>5. AppliedOK'
            BY <1>a, <2>1, <2>4, <3>2 DEF AppliedOK, RestOK, Ids
        <3> QED BY <1>b, <1>d, <2>1, <2>2, <3>4, <3>5
    <2> QED BY <2>1, <2>3, <2>4
<1>7. ASSUME NEW d \in Device, NEW text \in Text \cup {NoText}, UserCopies(d, text)
      PROVE  TypeOK' /\ AllFinite'
    <2>1. /\ Act /\ clip' = [clip EXCEPT ![d] = text]
          /\ \/ UNCHANGED <<chosen, after>>
             \/ /\ chosen' = [chosen EXCEPT ![d] = "user"]
                /\ after' = [after EXCEPT ![d] = last_applied[d]]
          /\ acts' = acts \/ (text \in Text /\ acts' = [acts EXCEPT ![d][text] = @ + 1])
          /\ UNCHANGED <<offered, available, last_set, last_observed, cmds, copied, docVars, old, faults>>
        BY <1>7 DEF UserCopies
    <2>2. BoardOK'
        BY <1>a, <2>1 DEF BoardOK, RestOK
    <2>3. acts' \in [Device -> [Text -> Nat]]
        <3>1. CASE acts' = acts
            BY <1>a, <3>1 DEF RestOK
        <3>2. CASE text \in Text /\ acts' = [acts EXCEPT ![d][text] = @ + 1]
            BY <1>a, <3>2 DEF RestOK
        <3> QED BY <2>1, <3>1, <3>2
    <2>4. RestOK'
        BY <1>a, <1>h, <2>1, <2>3 DEF RestOK, docVars
    <2> QED BY <1>b, <1>e, <1>f, <2>1, <2>2, <2>4 DEF docVars
<1>8. ASSUME NEW d \in Device, NEW text \in Text, AddEntry(d, text) PROVE TypeOK' /\ AllFinite'
    <2>1. /\ Act /\ set_text(d, text, "user") /\ acts' = [acts EXCEPT ![d][text] = @ + 1]
          /\ add_entry(d, text) \/ UNCHANGED <<known, pruned, feed>>
          /\ UNCHANGED <<boardVars, copied, last_applied, old, faults>>
        BY <1>8 DEF AddEntry
    <2>2. acts' \in [Device -> [Text -> Nat]] /\ cmds' \in [Device -> Seq(Command)]
        BY <1>a, <1>i, <2>1 DEF RestOK
    <2>3. RestOK'
        BY <1>a, <1>h, <2>1, <2>2 DEF RestOK
    <2>4. HistoryOK' /\ AllFinite' /\ AppliedOK'
        BY <1>e, <1>f, <1>g, <2>1
    <2> QED BY <1>b, <1>d, <2>1, <2>3, <2>4
<1>9. ASSUME NEW d \in Device, NEW text \in Text, CopyEntry(d, text) PROVE TypeOK' /\ AllFinite'
    <2>1. /\ Act /\ set_text(d, text, "pick")
          /\ UNCHANGED <<boardVars, copied, docVars, old, acts, faults>>
        BY <1>9 DEF CopyEntry
    <2>2. RestOK'
        BY <1>a, <1>h, <1>i, <2>1 DEF RestOK, docVars
    <2> QED BY <1>b, <1>d, <1>e, <1>f, <2>1, <2>2 DEF docVars
<1>10. ASSUME NEW d \in Device, NEW e \in known[d], Ages(e) PROVE TypeOK' /\ AllFinite'
    <2>1. e.id \in Seq(Device)
        BY <1>a DEF HistoryOK, Entry
    <2>2. RestOK'
        BY <1>10, <1>a, <2>1 DEF Ages, RestOK, docVars, userVars
    <2> QED BY <1>10, <1>b, <1>d, <1>e, <1>f, <2>2 DEF Ages, docVars
<1>11. CASE UNCHANGED vars
    <2>1. RestOK'
        BY <1>11, <1>a DEF vars, RestOK, docVars, userVars
    <2> QED BY <1>11, <1>b, <1>d, <1>e, <1>f, <2>1 DEF vars, docVars
<1> QED BY <1>1, <1>2, <1>3, <1>4, <1>5, <1>6, <1>7, <1>8, <1>9, <1>10, <1>11 DEF Next, Worker, App

LEMMA MirrorTypeInit == ASSUME Init PROVE TypeOK /\ AllFinite
<1>1. /\ <<>> \in Seq(Command) /\ <<>> \in Seq(Text) /\ <<>> \in Seq({"local", "remote"})
      /\ <<>> \in Seq(Device) /\ Len(<<>>) = 0
      /\ EventCap \in Nat /\ FeedCap \in Nat /\ MaxActs \in Nat
      /\ Seed \in [Device -> Text \cup {NoText}]
    BY EmptySeq, BoundAssumption, TextAssumption
<1>2. AllFinite
    <2>1. All = {}
        BY DEF Init, All
    <2> QED BY <2>1, FS_EmptySet DEF AllFinite
<1>3. BoardOK
    BY <1>1 DEF Init, BoardOK, None
<1>4. HistoryOK
    <2>1. \A d \in Device : feed[d] = <<>> /\ known[d] = {} /\ pruned[d] = {}
        BY DEF Init
    <2>2. \A d \in Device : Len(feed[d]) <= FeedCap
        BY <1>1, <2>1
    <2> QED BY <1>1, <2>1, <2>2 DEF Init, HistoryOK, Ids
<1>5. RestOK
    <2>1. \A d \in Device : Len(copied[d]) <= EventCap
        BY <1>1 DEF Init
    <2> QED BY <1>1, <2>1 DEF Init, RestOK, None
<1>6. AppliedOK
    BY DEF Init, AppliedOK
<1> QED BY <1>2, <1>3, <1>4, <1>5, <1>6
        DEF TypeOK, BoardOK, HistoryOK, RestOK, AppliedOK, Ids, Command

(* Every variable has its type in every reachable state and the queues keep to
   their capacities; the history of a device that is not empty has a newest
   entry. *)
THEOREM MirrorTypeCorrect == Spec => []TypeOK
<1>1. Init => TypeOK /\ AllFinite
    BY MirrorTypeInit
<1>2. TypeOK /\ AllFinite /\ [Next]_vars => TypeOK' /\ AllFinite'
    BY MirrorTypeStep
<1> QED BY <1>1, <1>2, PTL DEF Spec

-----------------------------------------------------------------------------
(* The entries of a text that a device made; *)
Made(d, t) == {e \in All : AuthorOf(e) = d /\ e.text = t}
(* a text its user put on the clipboard and the watcher has yet to see; *)
Unseen(d, t) ==
    available[d] /\ clip[d] = t /\ last_observed[d] # t /\ last_set[d] # t
UnseenCount(d, t) == IF Unseen(d, t) THEN 1 ELSE 0
(* where a text is in a sequence. *)
Places(s, t) == {i \in DOMAIN s : s[i] = t}
Count(s, t)  == Cardinality(Places(s, t))

(* Each time a user copied or shared a text accounts for at most one of: an
   entry, a Copied event, a change of the clipboard the watcher has yet to see;
   and nothing else accounts for any. *)
Accounted(d, t) == Cardinality(Made(d, t)) + Count(copied[d], t) + UnseenCount(d, t) <= acts[d][t]
AllAccounted == \A d \in Device, t \in Text : Accounted(d, t)

LEMMA Counting ==
    ASSUME NEW s \in Seq(Text), NEW t \in Text
    PROVE  /\ Count(s, t) \in Nat
           /\ \A u \in Text : Count(Append(s, u), t) = Count(s, t) + (IF u = t THEN 1 ELSE 0)
           /\ s # <<>> => Count(s, t) = Count(Tail(s), t) + (IF Head(s) = t THEN 1 ELSE 0)
<1>1. ASSUME NEW r \in Seq(Text)
      PROVE  /\ Len(r) \in Nat /\ DOMAIN r = 1..Len(r)
             /\ IsFiniteSet(Places(r, t)) /\ Count(r, t) \in Nat
    <2>1. Len(r) \in Nat /\ DOMAIN r = 1..Len(r)
        BY LenProperties
    <2>2. IsFiniteSet(1..Len(r))
        BY <2>1, FS_Interval
    <2>3. Places(r, t) \in SUBSET (1..Len(r))
        BY <2>1 DEF Places
    <2>4. IsFiniteSet(Places(r, t))
        BY <2>2, <2>3, FS_Subset
    <2> QED BY <2>1, <2>4, FS_CardinalityType DEF Count
<1>2. ASSUME NEW u \in Text
      PROVE  Count(Append(s, u), t) = Count(s, t) + (IF u = t THEN 1 ELSE 0)
    <2>1. /\ Append(s, u) \in Seq(Text) /\ Len(Append(s, u)) = Len(s) + 1
          /\ \A i \in 1..Len(s) : Append(s, u)[i] = s[i]
          /\ Append(s, u)[Len(s) + 1] = u
        BY AppendProperties
    <2>2. /\ Len(s) \in Nat /\ DOMAIN s = 1..Len(s) /\ DOMAIN Append(s, u) = 1..(Len(s) + 1)
        BY <1>1, <2>1
    <2>3. Places(Append(s, u), t) = IF u = t THEN Places(s, t) \cup {Len(s) + 1} ELSE Places(s, t)
        <3>1. CASE u = t
            BY <2>1, <2>2, <3>1 DEF Places
        <3>2. CASE u # t
            BY <2>1, <2>2, <3>2 DEF Places
        <3> QED BY <3>1, <3>2
    <2>4. Len(s) + 1 \notin Places(s, t)
        BY <2>2 DEF Places
    <2>5. Cardinality(Places(s, t) \cup {Len(s) + 1}) = Cardinality(Places(s, t)) + 1
        BY <1>1, <2>4, FS_AddElement
    <2> QED BY <1>1, <2>3, <2>5 DEF Count
<1>3. ASSUME s # <<>>
      PROVE  Count(s, t) = Count(Tail(s), t) + (IF Head(s) = t THEN 1 ELSE 0)
    <2>1. /\ Tail(s) \in Seq(Text) /\ Len(Tail(s)) = Len(s) - 1
          /\ \A i \in 1..Len(Tail(s)) : Tail(s)[i] = s[i + 1]
        BY <1>3, HeadTailProperties
    <2>2. /\ Len(s) \in Nat /\ Len(s) > 0 /\ DOMAIN s = 1..Len(s) /\ Head(s) = s[1]
          /\ DOMAIN Tail(s) = 1..(Len(s) - 1)
        BY <1>1, <1>3, <2>1, EmptySeq
    <2> DEFINE P == Places(Tail(s), t)
               Q == Places(s, t) \ {1}
               f == [i \in P |-> i + 1]
    <2>3. P \subseteq 1..(Len(s) - 1) /\ Q \subseteq 2..Len(s)
        BY <2>2 DEF Places
    <2>4. \A i \in 1..(Len(s) - 1) : i \in P <=> i + 1 \in Q
        BY <2>1, <2>2 DEF Places
    <2> HIDE DEF P, Q
    <2>5. f \in Bijection(P, Q)
        <3>1. f \in [P -> Q]
            BY <2>3, <2>4
        <3>2. \A i, j \in P : f[i] = f[j] => i = j
            BY <2>2, <2>3
        <3>3. \A k \in Q : \E i \in P : f[i] = k
            <4> SUFFICES ASSUME NEW k \in Q PROVE \E i \in P : f[i] = k
                OBVIOUS
            <4>1. k - 1 \in 1..(Len(s) - 1) /\ (k - 1) + 1 = k
                BY <2>2, <2>3
            <4>2. k - 1 \in P /\ f[k - 1] = k
                BY <2>4, <4>1
            <4> QED BY <4>2
        <3> HIDE DEF f
        <3> QED BY <3>1, <3>2, <3>3, Fun_IsBij
    <2>6. IsFiniteSet(P) /\ Cardinality(P) = Cardinality(Q)
        <3>1. IsFiniteSet(P)
            BY <1>1, <2>1 DEF P
        <3>2. ExistsBijection(P, Q)
            BY <2>5 DEF ExistsBijection
        <3> QED BY <3>1, <3>2, FS_Bijection
    <2>7. Cardinality(Q) = IF 1 \in Places(s, t) THEN Cardinality(Places(s, t)) - 1
                           ELSE Cardinality(Places(s, t))
        BY <1>1, FS_RemoveElement DEF Q
    <2>8. 1 \in Places(s, t) <=> Head(s) = t
        BY <2>2 DEF Places
    <2>9. Cardinality(Places(s, t)) \in Nat
        BY <1>1 DEF Count
    <2> QED BY <2>6, <2>7, <2>8, <2>9 DEF Count, P
<1> QED BY <1>1, <1>2, <1>3

LEMMA MadeCount ==
    ASSUME AllFinite, NEW d \in Device, NEW t \in Text
    PROVE  IsFiniteSet(Made(d, t)) /\ Cardinality(Made(d, t)) \in Nat
<1>1. Made(d, t) \in SUBSET All
    BY DEF Made
<1>2. IsFiniteSet(Made(d, t))
    BY <1>1, FS_Subset DEF AllFinite
<1> QED BY <1>2, FS_CardinalityType

LEMMA AccountedStep == TypeOK /\ AllFinite /\ TypeOK' /\ AllAccounted /\ [Next]_vars => AllAccounted'
<1> SUFFICES ASSUME TypeOK, AllFinite, TypeOK', AllAccounted, [Next]_vars,
                    NEW d \in Device, NEW t \in Text
             PROVE  Accounted(d, t)'
    BY DEF AllAccounted
<1> DEFINE made  == Cardinality(Made(d, t))
           count == Count(copied[d], t)
<1>a. /\ Accounted(d, t) /\ made \in Nat /\ count \in Nat /\ acts[d][t] \in Nat
      /\ UnseenCount(d, t) \in {0, 1} /\ copied[d] \in Seq(Text)
    BY MadeCount, Counting DEF AllAccounted, TypeOK, UnseenCount
(* What changes is paid for. *)
<1>b. ASSUME NEW m \in Nat, NEW c \in Nat, Cardinality(Made(d, t))' <= m, Count(copied[d], t)' <= c,
             Cardinality(Made(d, t))' \in Nat, Count(copied[d], t)' \in Nat,
             acts'[d][t] \in Nat, m + c + UnseenCount(d, t)' <= acts'[d][t]
      PROVE  Accounted(d, t)'
    <2>1. UnseenCount(d, t)' \in {0, 1}
        BY DEF UnseenCount
    <2> QED BY <1>b, <2>1 DEF Accounted
<1>c. /\ UNCHANGED known => Cardinality(Made(d, t))' = made
      /\ UNCHANGED copied => Count(copied[d], t)' = count
      /\ UNCHANGED boardVars => UnseenCount(d, t)' = UnseenCount(d, t)
    BY DEF Made, All, boardVars, UnseenCount, Unseen
<1>d. acts'[d][t] \in Nat
    BY DEF TypeOK
<1>e. ASSUME NEW o \in Device, NEW text \in Text, add_entry(o, text)
      PROVE  /\ Cardinality(Made(d, t))' \in Nat
             /\ Cardinality(Made(d, t))' <= made + (IF o = d /\ text = t THEN 1 ELSE 0)
    <2>1. PICK e \in Entry : All' = All \cup {e} /\ AuthorOf(e) = o /\ e.text = text
        BY <1>e, AddedEntry
    <2>2. Made(d, t)' = IF o = d /\ text = t THEN Made(d, t) \cup {e} ELSE Made(d, t)
        <3>1. Made(d, t)' = {f \in All \cup {e} : AuthorOf(f) = d /\ f.text = t}
            BY <2>1 DEF Made
        <3> QED BY <2>1, <3>1 DEF Made
    <2>3. Cardinality(Made(d, t) \cup {e}) \in {made, made + 1}
        BY MadeCount, FS_AddElement
    <2> HIDE DEF made
    <2>4. Cardinality(Made(d, t))' = IF o = d /\ text = t THEN Cardinality(Made(d, t) \cup {e}) ELSE made
        BY <2>2 DEF made
    <2> QED BY <1>a, <2>3, <2>4
<1> HIDE DEF made, count
<1>f. made + count + UnseenCount(d, t) <= acts[d][t]
    BY <1>a DEF Accounted, made, count
<1>g. ASSUME UNCHANGED <<known, copied, acts>>, UnseenCount(d, t)' <= UnseenCount(d, t)
      PROVE  Accounted(d, t)'
    <2>1. Cardinality(Made(d, t))' = made /\ Count(copied[d], t)' = count /\ acts' = acts
        BY <1>c, <1>g
    <2>2. UnseenCount(d, t)' \in {0, 1}
        BY DEF UnseenCount
    <2>3. made + count + UnseenCount(d, t)' <= acts[d][t]
        BY <1>a, <1>f, <1>g, <2>2
    <2> QED BY <2>1, <2>3 DEF Accounted
<1>1. ASSUME NEW o \in Device, NEW from \in Device, Receive(o, from) PROVE Accounted(d, t)'
    <2>1. known' = [known EXCEPT ![o] = @ \cup known[from]] /\ UNCHANGED <<boardVars, copied, acts>>
        BY <1>1 DEF Receive, userVars
    <2>2. All' = All
        <3>1. \A r \in Device : known'[r] = IF r = o THEN known[o] \cup known[from] ELSE known[r]
            BY <2>1 DEF TypeOK
        <3> QED BY <3>1 DEF All
    <2>3. Cardinality(Made(d, t))' = made
        BY <2>2 DEF Made, made
    <2> QED BY <1>a, <1>c, <1>d, <1>f, <2>1, <2>3, <1>b
<1>2. ASSUME NEW o \in Device, RunCommand(o) PROVE Accounted(d, t)'
    <2>1. UNCHANGED <<known, copied, acts>>
        BY <1>2 DEF RunCommand, docVars, userVars
    <2>2. UnseenCount(d, t)' <= UnseenCount(d, t)
        <3>1. Unseen(d, t)' => Unseen(d, t)
            <4>1. \/ UNCHANGED <<clip, last_set>>
                  \/ \E text : /\ clip' = [clip EXCEPT ![o] = text]
                               /\ last_set' = [last_set EXCEPT ![o] = text]
                BY <1>2 DEF RunCommand, record_set
            <4>2. UNCHANGED <<available, last_observed>>
                BY <1>2 DEF RunCommand
            <4>3. CASE UNCHANGED <<clip, last_set>>
                BY <4>2, <4>3 DEF Unseen
            <4>4. ASSUME NEW text, clip' = [clip EXCEPT ![o] = text], last_set' = [last_set EXCEPT ![o] = text]
                  PROVE  Unseen(d, t)' => Unseen(d, t)
                <5>1. CASE o = d
                    <6>1. clip'[d] = text /\ last_set'[d] = text
                        BY <4>4, <5>1 DEF TypeOK
                    <6> QED BY <6>1 DEF Unseen
                <5>2. CASE o # d
                    <6>1. clip'[d] = clip[d] /\ last_set'[d] = last_set[d]
                        BY <4>4, <5>2 DEF TypeOK
                    <6> QED BY <4>2, <6>1 DEF Unseen
                <5> QED BY <5>1, <5>2
            <4> QED BY <4>1, <4>3, <4>4
        <3> QED BY <3>1 DEF UnseenCount
    <2> QED BY <1>g, <2>1, <2>2
<1>3. ASSUME NEW o \in Device, Poll(o) PROVE Accounted(d, t)'
    <2>1. /\ UNCHANGED <<known, acts, clip, available>> /\ clip[o] \in Text
          /\ last_set' = [last_set EXCEPT ![o] = NoText]
          /\ last_observed' = [last_observed EXCEPT ![o] = clip[o]]
          /\ \/ UNCHANGED copied
             \/ /\ available[o] /\ last_set[o] # clip[o] /\ last_observed[o] # clip[o]
                /\ copied' = [copied EXCEPT ![o] = Append(@, clip[o])]
        BY <1>3 DEF Poll, IsCopy, docVars, userVars, TypeOK
    <2>2. UnseenCount(d, t)' = IF o = d THEN 0 ELSE UnseenCount(d, t)
        <3>1. Unseen(d, t)' = (o # d /\ Unseen(d, t))
            BY <2>1 DEF Unseen, TypeOK
        <3> QED BY <3>1 DEF UnseenCount
    <2>3. CASE UNCHANGED copied \/ o # d
        <3>1. copied'[d] = copied[d]
            BY <2>1, <2>3 DEF TypeOK
        <3>2. Count(copied[d], t)' = count
            BY <3>1 DEF Count, Places, count
        <3> QED BY <1>a, <1>b, <1>c, <1>d, <1>f, <2>1, <2>2, <3>2
    <2>4. CASE /\ o = d /\ available[d] /\ last_set[d] # clip[d] /\ last_observed[d] # clip[d]
               /\ copied' = [copied EXCEPT ![d] = Append(@, clip[d])]
        <3>1. copied'[d] = Append(copied[d], clip[d])
            BY <2>4 DEF TypeOK
        <3>2. Count(copied'[d], t) = count + (IF clip[d] = t THEN 1 ELSE 0)
            BY <1>a, <2>1, <2>4, <3>1, Counting DEF count
        <3>3. Count(copied[d], t)' = Count(copied'[d], t)
            BY DEF Count, Places
        <3>4. clip[d] = t => UnseenCount(d, t) = 1
            BY <2>4 DEF UnseenCount, Unseen
        <3>5. /\ count + UnseenCount(d, t) \in Nat /\ Count(copied[d], t)' \in Nat
              /\ Count(copied[d], t)' <= count + UnseenCount(d, t)
            BY <1>a, <3>2, <3>3, <3>4
        <3>6. /\ UnseenCount(d, t)' = 0 /\ acts' = acts /\ Cardinality(Made(d, t))' = made
            BY <1>c, <2>1, <2>2, <2>4
        <3>7. made + (count + UnseenCount(d, t)) + UnseenCount(d, t)' <= acts'[d][t]
            BY <1>a, <1>f, <3>6
        <3>8. Cardinality(Made(d, t))' <= made
            BY <1>a, <3>6
        <3> DEFINE c == count + UnseenCount(d, t)
        <3> HIDE DEF c
        <3>9. c \in Nat /\ Count(copied[d], t)' <= c /\ made + c + UnseenCount(d, t)' <= acts'[d][t]
            BY <3>5, <3>7 DEF c
        <3> QED BY <1>a, <1>b, <1>d, <3>5, <3>6, <3>8, <3>9
    <2> QED BY <2>1, <2>3, <2>4
<1>4. ASSUME NEW o \in Device, WorkerDies(o) PROVE Accounted(d, t)'
    <2>1. UNCHANGED <<known, copied, acts, clip, last_set, last_observed>>
          /\ available' = [available EXCEPT ![o] = FALSE]
        BY <1>4 DEF WorkerDies, docVars, userVars
    <2>2. UnseenCount(d, t)' <= UnseenCount(d, t)
        <3>1. Unseen(d, t)' => Unseen(d, t)
            BY <2>1 DEF Unseen, TypeOK
        <3> QED BY <3>1 DEF UnseenCount
    <2> QED BY <1>g, <2>1, <2>2
<1>5. ASSUME NEW o \in Device, on_clipboard(o) PROVE Accounted(d, t)'
    <2> DEFINE text == Head(copied[o])
    <2>1. /\ copied[o] # <<>> /\ copied' = [copied EXCEPT ![o] = Tail(@)]
          /\ add_entry(o, text) \/ UNCHANGED known
          /\ UNCHANGED <<boardVars, acts>>
        BY <1>5 DEF on_clipboard, userVars
    <2>2. copied[o] \in Seq(Text) /\ text \in Text /\ Tail(copied[o]) \in Seq(Text)
        BY <2>1, HeadTailProperties DEF TypeOK
    <2> DEFINE paid == IF o = d /\ text = t THEN 1 ELSE 0
    <2>3. Count(copied[d], t)' \in Nat /\ count = Count(copied[d], t)' + paid
        <3>1. Count(copied[d], t)' = Count(copied'[d], t)
            BY DEF Count, Places
        <3>2. CASE o = d
            <4>1. copied'[d] = Tail(copied[d])
                BY <2>1, <3>2 DEF TypeOK
            <4>2. /\ Count(Tail(copied[d]), t) \in Nat
                  /\ count = Count(Tail(copied[d]), t) + (IF text = t THEN 1 ELSE 0)
                BY <2>1, <2>2, <3>2, Counting DEF count
            <4> QED BY <3>1, <3>2, <4>1, <4>2
        <3>3. CASE o # d
            <4>1. copied'[d] = copied[d]
                BY <2>1, <3>3 DEF TypeOK
            <4> QED BY <1>a, <3>1, <3>3, <4>1 DEF count
        <3> QED BY <3>2, <3>3
    <2> HIDE DEF text
    <2>4. Cardinality(Made(d, t))' \in Nat /\ Cardinality(Made(d, t))' <= made + paid
        BY <1>a, <1>c, <1>e, <2>1, <2>2
    <2>5. paid \in Nat /\ UnseenCount(d, t)' = UnseenCount(d, t) /\ acts' = acts
        BY <1>c, <2>1
    <2> HIDE DEF paid
    <2>6. (made + paid) + Count(copied[d], t)' + UnseenCount(d, t)' <= acts'[d][t]
        BY <1>a, <1>f, <2>3, <2>5
    <2> QED BY <1>a, <1>b, <1>d, <2>3, <2>4, <2>5, <2>6
<1>6. ASSUME NEW o \in Device, on_doc_update(o) PROVE Accounted(d, t)'
    <2>1. UNCHANGED <<boardVars, copied, known, acts>>
        BY <1>6 DEF on_doc_update, userVars
    <2> QED BY <1>a, <1>c, <1>g, <2>1
<1>7. ASSUME NEW o \in Device, NEW text \in Text \cup {NoText}, UserCopies(o, text)
      PROVE  Accounted(d, t)'
    <2>1. /\ UNCHANGED <<known, copied, available, last_set, last_observed>>
          /\ clip' = [clip EXCEPT ![o] = text]
          /\ acts' = IF text = NoText THEN acts ELSE [acts EXCEPT ![o][text] = @ + 1]
        BY <1>7 DEF UserCopies, docVars
    <2>2. CASE o = d /\ text = t
        <3>1. acts'[d][t] = acts[d][t] + 1
            BY <2>1, <2>2, TextAssumption DEF TypeOK
        <3>2. UnseenCount(d, t)' <= UnseenCount(d, t) + 1 /\ UnseenCount(d, t)' \in {0, 1}
            BY DEF UnseenCount
        <3> QED BY <1>a, <1>b, <1>c, <1>d, <1>f, <2>1, <3>1, <3>2
    <2>3. CASE ~(o = d /\ text = t)
        <3>1. acts'[d][t] = acts[d][t]
            BY <2>1, <2>3 DEF TypeOK
        <3>2. UnseenCount(d, t)' <= UnseenCount(d, t) /\ UnseenCount(d, t)' \in {0, 1}
            <4>1. Unseen(d, t)' => Unseen(d, t)
                BY <2>1, <2>3 DEF Unseen, TypeOK
            <4> QED BY <4>1 DEF UnseenCount
        <3> QED BY <1>a, <1>b, <1>c, <1>d, <1>f, <2>1, <3>1, <3>2
    <2> QED BY <2>2, <2>3
<1>8. ASSUME NEW o \in Device, NEW text \in Text, AddEntry(o, text) PROVE Accounted(d, t)'
    <2>1. /\ add_entry(o, text) \/ UNCHANGED known
          /\ acts' = [acts EXCEPT ![o][text] = @ + 1]
          /\ UNCHANGED <<boardVars, copied>>
        BY <1>8 DEF AddEntry
    <2> DEFINE paid == IF o = d /\ text = t THEN 1 ELSE 0
    <2>2. acts'[d][t] = acts[d][t] + paid
        <3>1. acts \in [Device -> [Text -> Nat]]
            BY DEF TypeOK
        <3>2. acts'[d][t] = IF o = d /\ text = t THEN acts[d][t] + 1 ELSE acts[d][t]
            BY <2>1, <3>1
        <3> QED BY <1>a, <3>2
    <2>3. Cardinality(Made(d, t))' \in Nat /\ Cardinality(Made(d, t))' <= made + paid
        BY <1>a, <1>c, <1>e, <2>1
    <2>4. paid \in Nat
        OBVIOUS
    <2> HIDE DEF paid
    <2> QED BY <1>a, <1>b, <1>c, <1>d, <1>f, <2>1, <2>2, <2>3, <2>4
<1>9. ASSUME NEW o \in Device, NEW text \in Text, CopyEntry(o, text) PROVE Accounted(d, t)'
    <2>1. UNCHANGED <<boardVars, copied, known, acts>>
        BY <1>9 DEF CopyEntry, docVars
    <2> QED BY <1>a, <1>c, <1>g, <2>1
<1>10. ASSUME NEW e, Ages(e) PROVE Accounted(d, t)'
    <2>1. UNCHANGED <<boardVars, copied, known, acts>>
        BY <1>10 DEF Ages, docVars, userVars
    <2> QED BY <1>a, <1>c, <1>g, <2>1
<1>11. CASE UNCHANGED vars
    <2>1. UNCHANGED <<boardVars, copied, known, acts>>
        BY <1>11 DEF vars, docVars, userVars
    <2> QED BY <1>a, <1>c, <1>g, <2>1
<1> QED BY <1>1, <1>2, <1>3, <1>4, <1>5, <1>6, <1>7, <1>8, <1>9, <1>10, <1>11 DEF Next, Worker, App

(* Nothing enters the history by itself, whatever the number of devices, of
   copies and of failures: no order of writes, polls, copies and arrivals makes
   an entry that no user act of its author accounts for. *)
THEOREM MirrorNoEcho == Spec => []NoEcho
<1>1. Init => TypeOK /\ AllFinite /\ AllAccounted
    <2> SUFFICES ASSUME Init PROVE TypeOK /\ AllFinite /\ AllAccounted
        OBVIOUS
    <2>1. TypeOK /\ AllFinite
        BY MirrorTypeInit
    <2>2. ASSUME NEW d \in Device, NEW t \in Text PROVE Accounted(d, t)
        <3>1. Made(d, t) = {} /\ Places(copied[d], t) = {} /\ acts[d][t] = 0 /\ ~Unseen(d, t)
            BY DEF Init, Made, All, Places, Unseen
        <3>2. Cardinality({}) = 0
            BY FS_EmptySet
        <3> QED BY <3>1, <3>2 DEF Accounted, Count, UnseenCount
    <2> QED BY <2>1, <2>2 DEF AllAccounted
<1>2. TypeOK /\ AllFinite /\ AllAccounted /\ [Next]_vars => TypeOK' /\ AllFinite' /\ AllAccounted'
    BY MirrorTypeStep, AccountedStep
<1>3. TypeOK /\ AllFinite /\ AllAccounted => NoEcho
    <2> SUFFICES ASSUME TypeOK, AllFinite, AllAccounted, NEW d \in Device, NEW t \in Text
                 PROVE  Cardinality(Made(d, t)) <= acts[d][t]
        BY DEF NoEcho, Made, All
    <2>1. Count(copied[d], t) \in Nat /\ UnseenCount(d, t) \in {0, 1} /\ Cardinality(Made(d, t)) \in Nat
        BY Counting, MadeCount DEF TypeOK, UnseenCount
    <2> QED BY <2>1 DEF AllAccounted, Accounted, TypeOK
<1> QED BY <1>1, <1>2, <1>3, PTL DEF Spec

=============================================================================
