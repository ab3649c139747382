------------------------------- MODULE Mirror -------------------------------
(***************************************************************************)
(* Between the OS clipboards and the shared history: the clipboard watcher *)
(* thread of each device (crate yoink-clipboard), the part of its app loop *)
(* that captures copies and applies received entries, and the commands of  *)
(* the UI that share or copy an entry.  It is all about the devices scope; *)
(* a room only shows as the place a text may be copied from.               *)
(*                                                                         *)
(* The history is a CRDT list to which entries are only appended and whose *)
(* head is pruned.  An entry is placed after the last entry its author     *)
(* saw; its id is the chain of authors from the head of the list to it,    *)
(* and entries placed after the same one are ordered by their authors.     *)
(* Replication is what ClipSync establishes: a device comes to know all    *)
(* another one knows.                                                      *)
(***************************************************************************)
EXTENDS Naturals, SequencesExt

CONSTANTS
    Device,
    Text,
    NoText,      \* the clipboard holds an image, or nothing
    Blank,       \* texts of white space only
    Captures,    \* devices in auto-share or mirror mode
    Applies,     \* devices in mirror mode
    Seed,        \* what the clipboards hold when yoink starts
    Rank,        \* how yrs orders the client ids of the devices
    Window,      \* COPY_DEDUPE_WINDOW (3)
    MaxHistory,  \* MAX_HISTORY (200)
    EventCap,    \* EVENT_CHANNEL_CAPACITY (32)
    FeedCap,     \* what the forwarder and its channels hold (512)
    MaxActs,     \* bound on what users do
    MaxFaults    \* bound on clipboard failures

ASSUME ModeAssumption == Applies \subseteq Captures /\ Captures \subseteq Device
ASSUME TextAssumption ==
    NoText \notin Text /\ Blank \subseteq Text /\ Seed \in [Device -> Text \cup {NoText}]
ASSUME RankAssumption ==
    Rank \in [Device -> Nat] /\ \A d, e \in Device : Rank[d] = Rank[e] => d = e
ASSUME BoundAssumption ==
    /\ Window \in Nat /\ MaxHistory \in Nat \ {0} /\ EventCap \in Nat \ {0}
    /\ FeedCap \in Nat \ {0} /\ MaxActs \in Nat /\ MaxFaults \in Nat

None == <<>>  \* no entry id

VARIABLES
    clip,          \* the OS clipboard of each device
    chosen,        \* ghost: who wrote it last, "yoink", "user" or a "pick" in the UI
    after,         \* ghost: the entry yoink had last applied when it was written
    offered,       \* ghost: the texts it had from the start or from a pick
    available,     \* whether the watcher thread runs with a working clipboard
    last_set,      \* WatchState: the text written and not yet polled, or NoText
    last_observed, \* WatchState: the text last polled, or NoText
    cmds,          \* SetText commands the thread has yet to run
    copied,        \* Copied events the app loop has yet to read
    known,         \* the entries of each copy of the history, pruned ones included
    pruned,        \* the ids that were removed
    feed,          \* document updates the app loop has yet to read
    last_applied,  \* the id last written to the clipboard, or None
    old,           \* ids created more than AUTO_APPLY_MAX_AGE ago
    acts,          \* ghost: how often the user of a device copied or shared a text
    done,          \* user acts so far
    faults         \* clipboard failures and dropped events so far

boardVars == <<clip, chosen, after, offered, available, last_set, last_observed>>
docVars   == <<known, pruned, feed, last_applied>>
userVars  == <<acts, done>>
vars == <<boardVars, cmds, copied, docVars, old, userVars, faults>>

-----------------------------------------------------------------------------
(***************************************************************************)
(* The history.                                                            *)
(***************************************************************************)
Entry == [id : Seq(Device), text : Text]

AuthorOf(e) == Last(e.id)

Before(e, f) ==
    \/ IsStrictPrefix(e.id, f.id)
    \/ \E i \in DOMAIN e.id \cap DOMAIN f.id :
         SubSeq(e.id, 1, i - 1) = SubSeq(f.id, 1, i - 1) /\ Rank[e.id[i]] < Rank[f.id[i]]

(* The n newest of a set of entries. *)
Newest(E, n) == {e \in E : Cardinality({f \in E : Before(e, f)}) < n}

entries(d) == {e \in known[d] : e.id \notin pruned[d]}
latest(d)  == CHOOSE e \in entries(d) : \A f \in entries(d) : ~Before(e, f)

(* A transaction is published to the app's forwarder; when that is too slow,
   an update that waits is skipped.  (It then reports that it lagged, which
   only refreshes the UI.)  As plausible bugs: the queue has no bound; the new
   update is the one that is dropped. *)
PublishAlways(d, kind) == feed' = [feed EXCEPT ![d] = Append(@, kind)]
PublishDropsNewest(d, kind) ==
    feed' = [feed EXCEPT ![d] = IF Len(@) < FeedCap THEN Append(@, kind) ELSE @]
Publish(d, kind) ==
    IF Len(feed[d]) < FeedCap
    THEN feed' = [feed EXCEPT ![d] = Append(@, kind)]
    ELSE \E i \in 1..Len(feed[d]) : feed' = [feed EXCEPT ![d] = Append(RemoveAt(@, i), kind)]

add_entry(d, text) ==
    LET e == [id |-> Append(IF entries(d) = {} THEN None ELSE latest(d).id, d), text |-> text]
        all == entries(d) \cup {e}
    IN  /\ known' = [known EXCEPT ![d] = @ \cup {e}]
        /\ pruned' = [pruned EXCEPT ![d] = @ \cup {f.id : f \in all \ Newest(all, MaxHistory)}]
        /\ Publish(d, "local")

is_duplicate(d, text, window) == \E e \in Newest(entries(d), window) : e.text = text

(* What another device has and this one lacks arrives. *)
Receive(d, from) ==
    /\ ~(known[from] \subseteq known[d] /\ pruned[from] \subseteq pruned[d])
    /\ known' = [known EXCEPT ![d] = @ \cup known[from]]
    /\ pruned' = [pruned EXCEPT ![d] = @ \cup pruned[from]]
    /\ Publish(d, "remote")
    /\ UNCHANGED <<boardVars, cmds, copied, last_applied, old, userVars, faults>>

-----------------------------------------------------------------------------
(***************************************************************************)
(* The clipboard thread: a command is run as soon as there is one, and the *)
(* clipboard is polled when there is none.                                 *)
(***************************************************************************)
(* ClipboardHandle.set_text; by notes for whom. *)
set_text(d, text, by) ==
    cmds' = IF available[d] THEN [cmds EXCEPT ![d] = Append(@, [text |-> text, by |-> by])] ELSE cmds

(* As a plausible bug: what yoink writes is not recorded. *)
RecordNothing(d, text) == UNCHANGED last_set
record_set(d, text) == last_set' = [last_set EXCEPT ![d] = text]

RunCommand(d) ==
    LET cmd == Head(cmds[d]) IN
    /\ available[d] /\ cmds[d] # <<>>
    /\ cmds' = [cmds EXCEPT ![d] = Tail(@)]
    /\ \/ /\ clip' = [clip EXCEPT ![d] = cmd.text]
          /\ chosen' = [chosen EXCEPT ![d] = cmd.by]
          /\ after' = [after EXCEPT ![d] = last_applied[d]]
          /\ offered' = [offered EXCEPT ![d] = IF cmd.by = "pick" THEN @ \cup {cmd.text} ELSE @]
          /\ record_set(d, cmd.text)
          /\ UNCHANGED faults
       \/ /\ faults < MaxFaults /\ faults' = faults + 1
          /\ UNCHANGED <<clip, chosen, after, offered, last_set>>
    /\ UNCHANGED <<available, last_observed, copied, docVars, old, userVars>>

(* WatchState.observe of a polled text: whether it is a user's copy. *)
IsCopy(d, text) == last_set[d] # text /\ last_observed[d] # text /\ text \notin Blank

Poll(d) ==
    LET text == clip[d] IN
    /\ available[d] /\ cmds[d] = <<>>
    /\ text # NoText
    /\ last_set' = [last_set EXCEPT ![d] = NoText]
    /\ last_observed' = [last_observed EXCEPT ![d] = text]
    /\ IF ~IsCopy(d, text) THEN UNCHANGED <<copied, faults>>
       ELSE IF Len(copied[d]) = EventCap THEN faults' = faults + 1 /\ UNCHANGED copied
       ELSE copied' = [copied EXCEPT ![d] = Append(@, text)] /\ UNCHANGED faults
    /\ UNCHANGED <<clip, chosen, after, offered, available, cmds, docVars, old, userVars>>

WorkerDies(d) ==
    /\ available[d] /\ faults < MaxFaults
    /\ available' = [available EXCEPT ![d] = FALSE]
    /\ cmds' = [cmds EXCEPT ![d] = <<>>]
    /\ faults' = faults + 1
    /\ UNCHANGED <<clip, chosen, after, offered, last_set, last_observed, copied, docVars, old,
                   userVars>>

-----------------------------------------------------------------------------
(***************************************************************************)
(* The app loop.                                                           *)
(***************************************************************************)
on_clipboard(d) ==
    LET text == Head(copied[d]) IN
    /\ copied[d] # <<>>
    /\ copied' = [copied EXCEPT ![d] = Tail(@)]
    /\ IF d \in Captures /\ ~is_duplicate(d, text, Window)
       THEN add_entry(d, text)
       ELSE UNCHANGED <<known, pruned, feed>>
    /\ UNCHANGED <<boardVars, cmds, last_applied, old, userVars, faults>>

should_apply(d, e) ==
    /\ d \in Applies /\ available[d]
    /\ e.id \notin old
    /\ AuthorOf(e) # d
    /\ e.id # last_applied[d]

(* The app looks at the newest entry there is now, not at the update. *)
on_doc_update(d) ==
    /\ feed[d] # <<>>
    /\ feed' = [feed EXCEPT ![d] = Tail(@)]
    /\ IF Head(feed[d]) = "remote" /\ entries(d) # {} /\ should_apply(d, latest(d))
       THEN /\ set_text(d, latest(d).text, "yoink")
            /\ last_applied' = [last_applied EXCEPT ![d] = latest(d).id]
       ELSE UNCHANGED <<cmds, last_applied>>
    /\ UNCHANGED <<boardVars, copied, known, pruned, old, userVars, faults>>

-----------------------------------------------------------------------------
(***************************************************************************)
(* What users do: copy in some application, share a text in the UI, copy   *)
(* a text out of the UI (of the history or of a room).                     *)
(***************************************************************************)
Act == done < MaxActs /\ done' = done + 1

UserCopies(d, text) ==
    /\ Act
    /\ clip' = [clip EXCEPT ![d] = text]
    /\ IF clip[d] = text
       THEN UNCHANGED <<chosen, after>>
       ELSE /\ chosen' = [chosen EXCEPT ![d] = "user"]
            /\ after' = [after EXCEPT ![d] = last_applied[d]]
    /\ acts' = IF text = NoText THEN acts ELSE [acts EXCEPT ![d][text] = @ + 1]
    /\ UNCHANGED <<offered, available, last_set, last_observed, cmds, copied, docVars, old, faults>>

AddEntry(d, text) ==
    /\ Act
    /\ IF is_duplicate(d, text, 1) THEN UNCHANGED <<known, pruned, feed>> ELSE add_entry(d, text)
    /\ set_text(d, text, "user")
    /\ acts' = [acts EXCEPT ![d][text] = @ + 1]
    /\ UNCHANGED <<boardVars, copied, last_applied, old, faults>>

CopyEntry(d, text) ==
    /\ Act
    /\ set_text(d, text, "pick")
    /\ UNCHANGED <<boardVars, copied, docVars, old, acts, faults>>

(* Thirty seconds pass. *)
Ages(e) ==
    /\ e.id \notin old
    /\ old' = old \cup {e.id}
    /\ UNCHANGED <<boardVars, cmds, copied, docVars, userVars, faults>>

-----------------------------------------------------------------------------
Init ==
    /\ clip = Seed
    /\ chosen = [d \in Device |-> "user"]
    /\ after = [d \in Device |-> None]
    /\ offered = [d \in Device |-> {Seed[d]}]
    /\ available \in [Device -> BOOLEAN]
    /\ last_set = [d \in Device |-> NoText]
    /\ last_observed = [d \in Device |-> IF available[d] THEN Seed[d] ELSE NoText]
    /\ cmds = [d \in Device |-> <<>>] /\ copied = [d \in Device |-> <<>>]
    /\ known = [d \in Device |-> {}] /\ pruned = [d \in Device |-> {}]
    /\ feed = [d \in Device |-> <<>>]
    /\ last_applied = [d \in Device |-> None]
    /\ old = {}
    /\ acts = [d \in Device |-> [t \in Text |-> 0]]
    /\ done = 0 /\ faults = 0

Worker(d) == RunCommand(d) \/ Poll(d)
App(d)    == on_clipboard(d) \/ on_doc_update(d)

Next ==
    \E d \in Device :
        \/ Worker(d) \/ WorkerDies(d) \/ App(d)
        \/ \E from \in Device : Receive(d, from)
        \/ \E e \in known[d] : Ages(e)
        \/ \E text \in Text : UserCopies(d, text) \/ AddEntry(d, text) \/ CopyEntry(d, text)
        \/ UserCopies(d, NoText)

Spec == Init /\ [][Next]_vars

(* Threads and tasks are scheduled and replication goes on; users need not do
   anything and nothing has to fail. *)
Fairness ==
    \A d \in Device : /\ WF_vars(Worker(d)) /\ WF_vars(App(d))
                      /\ \A from \in Device : WF_vars(Receive(d, from))

FairSpec == Spec /\ Fairness

-----------------------------------------------------------------------------
(* Every variable has its type, and the queues keep to their capacities. *)
TypeOK ==
    /\ clip \in [Device -> Text \cup {NoText}]
    /\ chosen \in [Device -> {"yoink", "user", "pick"}]
    /\ after \in [Device -> Seq(Device)]
    /\ offered \in [Device -> SUBSET (Text \cup {NoText})]
    /\ available \in [Device -> BOOLEAN]
    /\ last_set \in [Device -> Text \cup {NoText}]
    /\ last_observed \in [Device -> Text \cup {NoText}]
    /\ cmds \in [Device -> Seq([text : Text, by : {"yoink", "user", "pick"}])]
    /\ copied \in [Device -> Seq(Text)] /\ feed \in [Device -> Seq({"local", "remote"})]
    /\ known \in [Device -> SUBSET Entry] /\ pruned \in [Device -> SUBSET Seq(Device)]
    /\ last_applied \in [Device -> Seq(Device)]
    /\ \A d \in Device :
         /\ Len(copied[d]) <= EventCap /\ Len(feed[d]) <= FeedCap
         /\ pruned[d] \subseteq {e.id : e \in known[d]}
         /\ last_applied[d] # None => last_applied[d] \in {e.id : e \in known[d]}
    /\ old \subseteq Seq(Device)
    /\ acts \in [Device -> [Text -> Nat]] /\ done \in 0..MaxActs /\ faults \in Nat

(* Nothing enters the history by itself: for every entry its author copied or
   shared that text, and once for each.  What yoink writes to a clipboard
   (received, shared here or picked in the UI, from a room too) is not captured
   as a copy, whatever the order of writes, polls and the user's copies. *)
NoEcho ==
    \A d \in Device, t \in Text :
        Cardinality({e \in UNION {known[o] : o \in Device} : AuthorOf(e) = d /\ e.text = t})
            <= acts[d][t]

(* When all comes to rest and no clipboard failed, the newest entry is on the
   clipboard of every mirror but its author's, unless it is old, or the user
   put something else there after it was applied: a pick in the UI, no text, or
   a text that is no news (in the history, or there from a pick or the start). *)
Shows(d) ==
    LET e == latest(d)
        noNews == {NoText} \cup Blank \cup offered[d] \cup {f.text : f \in known[d]}
    IN
    \/ entries(d) = {} \/ AuthorOf(e) = d \/ e.id \in old \/ ~available[d]
    \/ clip[d] = e.text
    \/ after[d] = e.id /\ (chosen[d] = "pick" \/ (chosen[d] = "user" /\ clip[d] \in noNews))

MirrorsFollow == <>[](faults > 0 \/ \A d \in Applies : Shows(d))

=============================================================================
