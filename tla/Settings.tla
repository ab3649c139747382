------------------------------ MODULE Settings ------------------------------
(***************************************************************************)
(* The configuration of one device: the trust list and the joined rooms.   *)
(* The app loop changes it in memory and marks it dirty; a flush tick      *)
(* starts a write in the background, at most one at a time; shutting down  *)
(* settles that write and makes a last one.  A write fills a temporary     *)
(* file and renames it over the config file, and may fail at each step.    *)
(* The process may crash at any moment and starts from the file.           *)
(***************************************************************************)
EXTENDS Naturals

CONSTANTS
    Peer,
    Room,
    RequirePairing, \* whether the list holds paired or blocked devices
    NoFile,
    Torn,           \* a file that was opened for writing and not yet filled
    MaxChanges,     \* bound on the changes that are in a configuration
    MaxFailures,    \* bound on failed writes
    MaxCrashes      \* bound on crashes

ASSUME PairingAssumption == RequirePairing \in BOOLEAN
ASSUME BoundAssumption == MaxChanges \in Nat /\ MaxFailures \in Nat /\ MaxCrashes \in Nat

(* A configuration; version counts the changes that led to it. *)
Config == [list : SUBSET Peer, rooms : SUBSET Room, version : 0..MaxChanges]
Fresh  == [list |-> {}, rooms |-> {}, version |-> 0]

ASSUME FileAssumption == NoFile \notin Config /\ Torn \notin Config /\ NoFile # Torn

VARIABLES
    process,   \* "up", "settling" and "saving" (shutting down), "exited" or "crashed"
    config,    \* App.config
    dirty,     \* App.config_dirty
    pending,   \* whether App.config_write holds a handle
    writer,    \* the step of each writer: the background task and the main thread
    data,      \* the configuration each writer was given
    tmp,       \* config.toml.tmp
    disk,      \* config.toml
    failures, crashes

vars == <<process, config, dirty, pending, writer, data, tmp, disk, failures, crashes>>

-----------------------------------------------------------------------------
(***************************************************************************)
(* Commands of the UI.                                                     *)
(***************************************************************************)
persist_config == dirty' = TRUE

Change(list, rooms) ==
    /\ process = "up" /\ config.version < MaxChanges
    /\ config' = [list |-> list, rooms |-> rooms, version |-> config.version + 1]
    /\ persist_config
    /\ UNCHANGED <<process, pending, writer, data, tmp, disk, failures, crashes>>

SetDeviceTrusted(p, trusted) ==
    Change(IF RequirePairing = trusted THEN config.list \cup {p} ELSE config.list \ {p}, config.rooms)

join_room(r)  == r \notin config.rooms /\ Change(config.list, config.rooms \cup {r})
leave_room(r) == r \in config.rooms /\ Change(config.list, config.rooms \ {r})

-----------------------------------------------------------------------------
(***************************************************************************)
(* write_atomic, by a writer: create or truncate the temporary file, fill  *)
(* it, rename it.                                                          *)
(***************************************************************************)
Writer == {"background", "main"}
Active == {"queued", "open", "filled"}
Step   == {"idle", "ok", "failed"} \cup Active

Begin(w, c) ==
    /\ writer' = [writer EXCEPT ![w] = "queued"]
    /\ data' = [data EXCEPT ![w] = c]

Advance(w, from, to) == writer[w] = from /\ writer' = [writer EXCEPT ![w] = to]

Open(w) ==
    /\ Advance(w, "queued", "open") /\ tmp' = Torn
    /\ UNCHANGED <<process, config, dirty, pending, data, disk, failures, crashes>>

Fill(w) ==
    /\ Advance(w, "open", "filled") /\ tmp' = data[w]
    /\ UNCHANGED <<process, config, dirty, pending, data, disk, failures, crashes>>

Rename(w) ==
    /\ tmp # NoFile
    /\ Advance(w, "filled", "ok") /\ disk' = tmp /\ tmp' = NoFile
    /\ UNCHANGED <<process, config, dirty, pending, data, failures, crashes>>

(* Any of the three may fail; a rename always does if the file is gone. *)
Fail(w) ==
    /\ writer[w] \in Active
    /\ failures < MaxFailures \/ (writer[w] = "filled" /\ tmp = NoFile)
    /\ failures' = failures + 1
    /\ writer' = [writer EXCEPT ![w] = "failed"]
    /\ UNCHANGED <<process, config, dirty, pending, data, tmp, disk, crashes>>

in_flight == pending /\ writer["background"] \in Active

(* BackgroundWrite.reap, and what its callers make of the result: a write that
   failed leaves the change dirty.  As a plausible bug: its result is dropped. *)
IgnoreResult == dirty
StillDirty == dirty \/ (pending /\ writer["background"] = "failed")

flush_config ==
    /\ process = "up" /\ ~in_flight /\ (dirty \/ pending)
    /\ dirty' = FALSE /\ pending' = StillDirty
    /\ IF StillDirty THEN Begin("background", config) ELSE UNCHANGED <<writer, data>>
    /\ UNCHANGED <<process, config, tmp, disk, failures, crashes>>

-----------------------------------------------------------------------------
(***************************************************************************)
(* Shutting down, crashing, starting.                                      *)
(***************************************************************************)
CtrlC ==
    /\ process = "up" /\ process' = "settling"
    /\ UNCHANGED <<config, dirty, pending, writer, data, tmp, disk, failures, crashes>>

(* The last save is made by the main thread, if there is something to save. *)
LastSave(needed) ==
    /\ process' = IF needed THEN "saving" ELSE "exited"
    /\ IF needed THEN Begin("main", config) ELSE UNCHANGED <<writer, data>>

(* As a plausible bug: the write in flight is not waited for. *)
SettleAtOnce ==
    /\ process = "settling"
    /\ dirty' = FALSE /\ UNCHANGED pending
    /\ LastSave(dirty)
    /\ UNCHANGED <<config, tmp, disk, failures, crashes>>

Settle ==
    /\ process = "settling" /\ ~in_flight
    /\ dirty' = StillDirty /\ pending' = FALSE
    /\ LastSave(StillDirty)
    /\ UNCHANGED <<config, tmp, disk, failures, crashes>>

Exit ==
    /\ process = "saving" /\ writer["main"] \notin Active
    /\ process' = "exited"
    /\ UNCHANGED <<config, dirty, pending, writer, data, tmp, disk, failures, crashes>>

Crash ==
    /\ process \in {"up", "settling", "saving"} /\ crashes < MaxCrashes
    /\ crashes' = crashes + 1 /\ process' = "crashed"
    /\ writer' = [w \in Writer |-> "idle"]
    /\ UNCHANGED <<config, dirty, pending, data, tmp, disk, failures>>

(* Config::load_or_init; a file that does not parse is an error, and a missing
   one (the first start) is saved before anything else. *)
Start ==
    /\ process \in {"exited", "crashed"} /\ disk \in Config
    /\ process' = "up"
    /\ config' = disk
    /\ dirty' = FALSE /\ pending' = FALSE
    /\ writer' = [w \in Writer |-> "idle"]
    /\ UNCHANGED <<data, tmp, disk, failures, crashes>>

-----------------------------------------------------------------------------
Init ==
    /\ process = "up"
    /\ config = Fresh /\ disk = Fresh
    /\ dirty = FALSE /\ pending = FALSE
    /\ writer = [w \in Writer |-> "idle"]
    /\ data = [w \in Writer |-> Fresh]
    /\ tmp = NoFile
    /\ failures = 0 /\ crashes = 0

Write(w) == Open(w) \/ Fill(w) \/ Rename(w) \/ Fail(w)

Next ==
    \/ \E p \in Peer, trusted \in BOOLEAN : SetDeviceTrusted(p, trusted)
    \/ \E r \in Room : join_room(r) \/ leave_room(r)
    \/ \E w \in Writer : Write(w)
    \/ flush_config \/ CtrlC \/ Settle \/ Exit \/ Crash \/ Start

Spec == Init /\ [][Next]_vars

(* Threads are scheduled, the flush timer ticks and a shutdown is carried
   through; nobody has to shut down or start yoink. *)
FairSpec ==
    /\ Spec
    /\ WF_vars(flush_config) /\ WF_vars(Settle) /\ WF_vars(Exit)
    /\ \A w \in Writer : WF_vars(Write(w))

-----------------------------------------------------------------------------
(* Every variable has its type, and at most one writer is at work. *)
TypeOK ==
    /\ process \in {"up", "settling", "saving", "exited", "crashed"}
    /\ config \in Config
    /\ dirty \in BOOLEAN /\ pending \in BOOLEAN
    /\ writer \in [Writer -> Step]
    /\ data \in [Writer -> Config]
    /\ tmp \in Config \cup {NoFile, Torn}
    /\ disk \in Config \cup {Torn}
    /\ failures \in 0..MaxFailures /\ crashes \in 0..MaxCrashes
    /\ \A w, v \in Writer : {writer[w], writer[v]} \subseteq Active => w = v

(* The config file is never truncated: whenever yoink crashes, it starts again
   and keeps its device id and lists. *)
NeverTorn == disk \in Config

(* What a user changed (a block, a joined room) is on its way to the file as
   long as it is not in it: the loop still has to write it, or a write that
   carries it runs, or one failed that is still to be reaped.  At the end only
   a failed last write may have lost it. *)
Owed ==
    \/ dirty
    \/ pending /\ data["background"] = config /\ writer["background"] # "ok"

NothingForgotten ==
    /\ process \in {"up", "settling"} => disk = config \/ Owed
    /\ process = "saving" => disk = config \/ data["main"] = config
    /\ process = "exited" => disk = config \/ writer["main"] = "failed"

(* A newer configuration in the file is never replaced by an older one: no two
   writers run at once. *)
NeverBackwards ==
    [][{disk, disk'} \subseteq Config /\ disk # disk' => disk.version < disk'.version]_vars

(* Every change reaches the file, unless yoink crashes or its last write on
   shutdown fails. *)
Saved ==
    config # disk ~> \/ config = disk
                     \/ process = "crashed"
                     \/ process = "exited" /\ writer["main"] = "failed"

=============================================================================
