--------------------------- MODULE SettingsProofs ---------------------------
(***************************************************************************)
(* Proofs about Settings, for any peers, rooms and bounds: the types, that *)
(* the file is always whole, that no change is forgotten, and that the     *)
(* file never goes back.                                                   *)
(***************************************************************************)
EXTENDS Settings, TLAPS

(* Only the background task writes while the app runs or settles, only the
   main thread after that, and the loop holds a handle to what it started. *)
OneWriter ==
    /\ writer["background"] \in Active => pending /\ process \in {"up", "settling"}
    /\ pending /\ process \in {"up", "settling"} => writer["background"] # "idle"
    /\ writer["main"] \in Active => process = "saving"
    /\ process = "saving" => writer["main"] # "idle"
    /\ writer["main"] # "idle" => process \in {"saving", "exited"}

(* So the temporary file is what its writer made of it. *)
TmpIsWriters ==
    \A w \in Writer : writer[w] = "filled" => tmp = data[w]

(* Versions only grow from the file to the writes and on to the memory. *)
Newer(c, d) == c = d \/ d.version < c.version

Ordered ==
    /\ Newer(config, disk)
    /\ \A w \in Writer : writer[w] \in Active => Newer(data[w], disk) /\ Newer(config, data[w])

(* The last save carries the configuration, and if it succeeds it is on disk. *)
LastSaveCounts ==
    process \in {"saving", "exited"} =>
        /\ writer["main"] = "ok" => disk = config
        /\ writer["main"] \in Active => data["main"] = config
        /\ process = "saving" => data["main"] = config
        /\ writer["main"] = "idle" => disk = config

IInv ==
    /\ TypeOK /\ NeverTorn /\ NothingForgotten
    /\ OneWriter /\ TmpIsWriters /\ Ordered /\ LastSaveCounts

-----------------------------------------------------------------------------
LEMMA InitIInv == Init => IInv
<1> SUFFICES ASSUME Init PROVE IInv
    OBVIOUS
<1>1. Fresh \in Config
    BY BoundAssumption DEF Fresh, Config
<1>2. \A w \in Writer : writer[w] = "idle"
    BY DEF Init
<1>3. TypeOK
    <2>1. 0 \in 0..MaxFailures /\ 0 \in 0..MaxCrashes
        BY BoundAssumption
    <2>2. writer \in [Writer -> Step] /\ data \in [Writer -> Config]
        BY <1>1 DEF Init, Step
    <2>3. \A w, v \in Writer : {writer[w], writer[v]} \subseteq Active => w = v
        BY <1>2 DEF Active
    <2> QED BY <1>1, <2>1, <2>2, <2>3 DEF Init, TypeOK
<1>4. NeverTorn /\ NothingForgotten
    BY <1>1 DEF Init, NeverTorn, NothingForgotten
<1>5. /\ writer["background"] = "idle" /\ writer["main"] = "idle"
      /\ process = "up" /\ pending = FALSE
    BY <1>2 DEF Init, Writer
<1>7. OneWriter /\ LastSaveCounts
    BY <1>5 DEF OneWriter, LastSaveCounts, Active
<1>8. TmpIsWriters
    BY <1>2 DEF TmpIsWriters
<1>6. Ordered
    BY <1>2 DEF Init, Ordered, Newer, Active
<1> QED BY <1>3, <1>4, <1>6, <1>7, <1>8 DEF IInv

(* A command of the UI: only the memory changes, to a newer configuration, and
   it is dirty. *)
LEMMA ChangeStep ==
    ASSUME IInv, NEW list \in SUBSET Peer, NEW rooms \in SUBSET Room, Change(list, rooms)
    PROVE  IInv'
<1> USE DEF IInv, Change, persist_config
<1>1. /\ config \in Config /\ config' \in Config /\ disk \in Config
      /\ config'.version = config.version + 1
      /\ config.version \in Nat /\ disk.version \in Nat
    BY BoundAssumption DEF TypeOK, NeverTorn, Config
<1>2. TypeOK'
    BY <1>1 DEF TypeOK
<1>3. (NeverTorn /\ NothingForgotten)'
    BY DEF NeverTorn, NothingForgotten, Owed
<1>4. (OneWriter /\ TmpIsWriters)'
    BY DEF OneWriter, TmpIsWriters
<1>5. \A c \in Config : Newer(config, c) => Newer(config', c)
    BY <1>1 DEF Newer, Config
<1>6. \A w \in Writer : data[w] \in Config
    BY DEF TypeOK
<1>7. Ordered'
    BY <1>1, <1>5, <1>6 DEF Ordered, Newer
<1>8. LastSaveCounts'
    BY DEF LastSaveCounts
<1> QED BY <1>2, <1>3, <1>4, <1>7, <1>8

(* A writer advances: only what it does to the two files and to its own step
   counts.  Whatever it writes is no older than the file, and it alone writes. *)
LEMMA WriteStep ==
    ASSUME IInv, NEW w \in Writer, Write(w)
    PROVE  /\ IInv'
           /\ disk # disk' => disk.version < disk'.version
<1> USE DEF IInv
<1>1. /\ UNCHANGED <<process, config, dirty, pending, data, crashes>>
      /\ writer[w] \in Active
    BY DEF Write, Open, Fill, Rename, Fail, Advance, Active
<1>2. /\ writer \in [Writer -> Step] /\ data \in [Writer -> Config]
      /\ "background" \in Writer /\ "main" \in Writer /\ w \in {"background", "main"}
      /\ config \in Config /\ disk \in Config /\ data[w] \in Config
    BY DEF TypeOK, NeverTorn, Writer
<1>3. \A v \in Writer : v # w => writer[v] \notin Active
    BY <1>1 DEF TypeOK
<1>4. writer' = [writer EXCEPT ![w] = writer'[w]] /\ writer' \in [Writer -> Step]
      /\ writer'[w] \in {"open", "filled", "ok", "failed"}
      /\ \A v \in Writer : v # w => writer'[v] = writer[v]
    BY <1>2 DEF Write, Open, Fill, Rename, Fail, Advance, Step, Active
<1>5. \/ /\ writer'[w] # "ok" /\ disk' = disk
      \/ writer[w] = "filled" /\ writer'[w] = "ok" /\ disk' = data[w]
    BY <1>2 DEF Write, Open, Fill, Rename, Fail, Advance, TmpIsWriters
<1>6. writer'[w] = "filled" => tmp' = data[w]
    BY <1>2 DEF Write, Open, Fill, Rename, Fail, Advance
<1>7. tmp' \in Config \cup {NoFile, Torn} /\ failures' \in 0..MaxFailures
    <2>1. tmp' \in Config \cup {NoFile, Torn}
        BY <1>2 DEF Write, Open, Fill, Rename, Fail, Advance, TypeOK
    <2>2. writer[w] = "filled" => tmp # NoFile
        BY <1>2, FileAssumption DEF TmpIsWriters
    <2>3. failures' = failures \/ (failures < MaxFailures /\ failures' = failures + 1)
        BY <2>2 DEF Write, Open, Fill, Rename, Fail
    <2> QED BY <2>1, <2>3, BoundAssumption DEF TypeOK
<1>8. TypeOK'
    <2>1. \A v, u \in Writer : {writer'[v], writer'[u]} \subseteq Active => v = u
        BY <1>3, <1>4
    <2> QED BY <1>1, <1>2, <1>4, <1>5, <1>7, <2>1 DEF TypeOK
<1>9. NeverTorn'
    BY <1>2, <1>5 DEF NeverTorn
<1>10. OneWriter'
    BY <1>1, <1>2, <1>4 DEF OneWriter, Active
<1>11. TmpIsWriters'
    <2> SUFFICES ASSUME NEW v \in Writer, writer'[v] = "filled" PROVE tmp' = data'[v]
        BY DEF TmpIsWriters
    <2>1. v = w
        BY <1>3, <1>4 DEF Active
    <2> QED BY <1>1, <1>6, <2>1
<1>12. Newer(data[w], disk) /\ Newer(config, data[w]) /\ Newer(config, disk)
    BY <1>1 DEF Ordered
<1>13. Ordered'
    <2>1. Newer(config', disk')
        BY <1>1, <1>5, <1>12
    <2> SUFFICES ASSUME NEW v \in Writer, writer'[v] \in Active
                 PROVE  Newer(data'[v], disk') /\ Newer(config', data'[v])
        BY <2>1 DEF Ordered
    <2>2. v = w
        BY <1>3, <1>4
    <2>3. disk' = disk
        BY <1>5, <2>2 DEF Active
    <2> QED BY <1>1, <1>12, <2>2, <2>3
<1>14. NothingForgotten'
    <2>1. CASE w = "background"
        <3>1. process \in {"up", "settling"} /\ pending
            BY <1>1, <2>1 DEF OneWriter
        <3>2. disk = config \/ dirty \/ data["background"] = config
            BY <3>1 DEF NothingForgotten, Owed
        <3>3. CASE writer'[w] = "ok"
            <4>1. disk' = data["background"]
                BY <1>5, <2>1, <3>3
            <4>2. disk = config => disk' = config
                BY <1>2, <1>12, <2>1, <4>1 DEF Newer, Config
            <4> QED BY <1>1, <3>1, <3>2, <4>1, <4>2 DEF NothingForgotten, Owed
        <3>4. CASE writer'[w] # "ok"
            BY <1>1, <1>5, <2>1, <3>1, <3>2, <3>4 DEF NothingForgotten, Owed
        <3> QED BY <3>3, <3>4
    <2>2. CASE w = "main"
        <3>1. process = "saving" /\ data["main"] = config
            BY <1>1, <2>2 DEF OneWriter, LastSaveCounts
        <3> QED BY <1>1, <3>1 DEF NothingForgotten
    <2> QED BY <1>2, <2>1, <2>2
<1>15. LastSaveCounts'
    <2>1. CASE w = "background"
        <3>1. process \notin {"saving", "exited"}
            BY <1>1, <2>1 DEF OneWriter
        <3> QED BY <1>1, <3>1 DEF LastSaveCounts
    <2>2. CASE w = "main"
        <3>1. process = "saving" /\ data["main"] = config
            BY <1>1, <2>2 DEF OneWriter, LastSaveCounts
        <3> QED BY <1>1, <1>4, <1>5, <2>2, <3>1 DEF LastSaveCounts
    <2> QED BY <1>2, <2>1, <2>2
<1>16. disk # disk' => disk.version < disk'.version
    BY <1>5, <1>12 DEF Newer
<1> QED BY <1>8, <1>9, <1>10, <1>11, <1>13, <1>14, <1>15, <1>16

(* Every other action of the loop and of the process: the file is untouched.
   The flush tick and the settling on shutdown first look at the background
   write: when none runs, what is not on disk is still to be written (<1>2). *)
LEMMA OtherStep ==
    ASSUME IInv, flush_config \/ CtrlC \/ Settle \/ Exit \/ Crash \/ Start
    PROVE  IInv' /\ disk' = disk
<1> USE DEF IInv
<1>1. /\ writer \in [Writer -> Step] /\ data \in [Writer -> Config]
      /\ "background" \in Writer /\ "main" \in Writer
      /\ config \in Config /\ disk \in Config /\ Newer(config, disk)
    BY DEF TypeOK, NeverTorn, Writer, Ordered
<1>2. ASSUME process \in {"up", "settling"}, ~in_flight
      PROVE  /\ \A w \in Writer : writer[w] \notin Active
             /\ writer["main"] = "idle"
             /\ ~StillDirty => disk = config
    <2>1. writer["background"] \notin Active
        BY <1>2 DEF OneWriter, in_flight
    <2>2. writer["main"] = "idle"
        BY <1>2 DEF OneWriter
    <2>3. ~StillDirty => disk = config
        BY <1>1, <1>2, <2>1 DEF NothingForgotten, Owed, StillDirty, OneWriter, Step
    <2> QED BY <2>1, <2>2, <2>3 DEF Active, Writer
<1>3. CASE flush_config
    <2>1. /\ process = "up" /\ ~in_flight
          /\ UNCHANGED <<process, config, tmp, disk, failures, crashes>>
          /\ dirty' = FALSE /\ pending' = StillDirty
        BY <1>3 DEF flush_config
    <2>2. /\ \A w \in Writer : writer[w] \notin Active
          /\ writer["main"] = "idle"
          /\ ~StillDirty => disk = config
        BY <1>2, <2>1
    <2>3. CASE StillDirty
        <3>1. /\ writer' = [writer EXCEPT !["background"] = "queued"]
              /\ data' = [data EXCEPT !["background"] = config]
            BY <1>3, <2>3 DEF flush_config, Begin
        <3>2. /\ writer'["background"] = "queued" /\ writer'["main"] = "idle"
              /\ data'["background"] = config
              /\ writer' \in [Writer -> Step] /\ data' \in [Writer -> Config]
              /\ \A v \in Writer : v # "background" => writer'[v] \notin Active
            BY <1>1, <2>2, <3>1 DEF Step, Active
        <3>3. TypeOK'
            BY <2>1, <3>2 DEF TypeOK, StillDirty
        <3>4. (NeverTorn /\ NothingForgotten)'
            BY <2>1, <2>3, <3>2 DEF NeverTorn, NothingForgotten, Owed
        <3>5. (OneWriter /\ LastSaveCounts)'
            BY <2>1, <2>3, <3>2 DEF OneWriter, LastSaveCounts, Active
        <3>6. TmpIsWriters'
            BY <3>2 DEF TmpIsWriters, Active
        <3>7. Ordered'
            BY <1>1, <2>1, <3>2 DEF Ordered, Newer
        <3> QED BY <2>1, <3>3, <3>4, <3>5, <3>6, <3>7
    <2>4. CASE ~StillDirty
        <3>1. UNCHANGED <<writer, data>> /\ disk = config /\ ~pending'
            BY <1>3, <2>1, <2>2, <2>4 DEF flush_config
        <3>2. TypeOK'
            <4>1. dirty' \in BOOLEAN /\ pending' \in BOOLEAN /\ process' \in {"up", "exited"}
                BY <2>1, <3>1 DEF StillDirty
            <4> QED BY <2>1, <3>1, <4>1 DEF TypeOK
        <3>3. (NeverTorn /\ NothingForgotten /\ TmpIsWriters /\ Ordered)'
            BY <2>1, <3>1 DEF NeverTorn, NothingForgotten, TmpIsWriters, Ordered
        <3>4. (OneWriter /\ LastSaveCounts)'
            BY <1>1, <2>1, <2>2, <3>1 DEF OneWriter, LastSaveCounts, Active
        <3> QED BY <2>1, <3>2, <3>3, <3>4
    <2> QED BY <2>3, <2>4
<1>4. CASE CtrlC
    <2> USE <1>4 DEF CtrlC
    <2>1. TypeOK'
        BY DEF TypeOK
    <2>2. (NeverTorn /\ NothingForgotten /\ TmpIsWriters /\ Ordered)'
        BY DEF NeverTorn, NothingForgotten, Owed, TmpIsWriters, Ordered
    <2>3. (OneWriter /\ LastSaveCounts)'
        BY DEF OneWriter, LastSaveCounts
    <2> QED BY <2>1, <2>2, <2>3
<1>5. CASE Settle
    <2>1. /\ process = "settling" /\ ~in_flight
          /\ UNCHANGED <<config, tmp, disk, failures, crashes>>
          /\ dirty' = StillDirty /\ pending' = FALSE
        BY <1>5 DEF Settle
    <2>2. /\ \A w \in Writer : writer[w] \notin Active
          /\ writer["main"] = "idle"
          /\ ~StillDirty => disk = config
        BY <1>2, <2>1
    <2>3. CASE StillDirty
        <3>1. /\ process' = "saving"
              /\ writer' = [writer EXCEPT !["main"] = "queued"]
              /\ data' = [data EXCEPT !["main"] = config]
            BY <1>5, <2>3 DEF Settle, LastSave, Begin
        <3>2. /\ writer'["main"] = "queued" /\ data'["main"] = config
              /\ writer' \in [Writer -> Step] /\ data' \in [Writer -> Config]
              /\ \A v \in Writer : v # "main" => writer'[v] \notin Active
              /\ writer'["background"] \notin Active
            BY <1>1, <2>2, <3>1 DEF Step, Active
        <3>3. TypeOK'
            BY <2>1, <2>3, <3>1, <3>2 DEF TypeOK
        <3>4. (NeverTorn /\ NothingForgotten)'
            BY <2>1, <3>1, <3>2 DEF NeverTorn, NothingForgotten
        <3>5. (OneWriter /\ LastSaveCounts)'
            BY <2>1, <3>1, <3>2 DEF OneWriter, LastSaveCounts, Active
        <3>6. TmpIsWriters'
            BY <3>2 DEF TmpIsWriters, Active
        <3>7. Ordered'
            BY <1>1, <2>1, <3>2 DEF Ordered, Newer
        <3> QED BY <2>1, <3>3, <3>4, <3>5, <3>6, <3>7
    <2>4. CASE ~StillDirty
        <3>1. process' = "exited" /\ UNCHANGED <<writer, data>> /\ disk = config
            BY <1>5, <2>2, <2>4 DEF Settle, LastSave
        <3>2. TypeOK'
            <4>1. dirty' \in BOOLEAN /\ pending' \in BOOLEAN /\ process' \in {"up", "exited"}
                BY <2>1, <3>1 DEF StillDirty
            <4> QED BY <2>1, <3>1, <4>1 DEF TypeOK
        <3>3. (NeverTorn /\ NothingForgotten /\ TmpIsWriters /\ Ordered)'
            BY <2>1, <3>1 DEF NeverTorn, NothingForgotten, TmpIsWriters, Ordered
        <3>4. (OneWriter /\ LastSaveCounts)'
            BY <1>1, <2>1, <2>2, <3>1 DEF OneWriter, LastSaveCounts, Active
        <3> QED BY <2>1, <3>2, <3>3, <3>4
    <2> QED BY <2>3, <2>4
<1>6. CASE Exit
    <2>1. /\ process = "saving" /\ process' = "exited"
          /\ UNCHANGED <<config, dirty, pending, writer, data, tmp, disk, failures, crashes>>
          /\ writer["main"] \in {"ok", "failed"}
        BY <1>1, <1>6 DEF Exit, OneWriter, Step
    <2>2. TypeOK'
        BY <2>1 DEF TypeOK
    <2>3. (NeverTorn /\ NothingForgotten /\ TmpIsWriters /\ Ordered)'
        BY <2>1 DEF NeverTorn, NothingForgotten, TmpIsWriters, Ordered, LastSaveCounts
    <2>4. (OneWriter /\ LastSaveCounts)'
        BY <2>1 DEF OneWriter, LastSaveCounts, Active
    <2> QED BY <2>1, <2>2, <2>3, <2>4
<1>7. CASE Crash \/ Start
    <2>1. /\ writer' = [w \in Writer |-> "idle"]
          /\ UNCHANGED <<data, tmp, disk, failures>>
          /\ process' \in {"up", "crashed"}
          /\ config' \in Config /\ Newer(config', disk)
          /\ dirty' \in BOOLEAN /\ pending' \in BOOLEAN
          /\ process' = "up" => config' = disk /\ pending' = FALSE
        BY <1>1, <1>7 DEF Crash, Start, Newer, TypeOK
    <2>2. \A w \in Writer : writer'[w] = "idle"
        BY <2>1
    <2>3. crashes' \in 0..MaxCrashes
        BY <1>7, BoundAssumption DEF Crash, Start, TypeOK
    <2>4. TypeOK'
        <3>1. writer' \in [Writer -> Step]
            BY <2>1 DEF Step
        <3>2. \A w, v \in Writer : {writer'[w], writer'[v]} \subseteq Active => w = v
            BY <2>2 DEF Active
        <3> QED BY <2>1, <2>3, <3>1, <3>2 DEF TypeOK
    <2>5. (NeverTorn /\ NothingForgotten /\ TmpIsWriters)'
        BY <1>1, <2>1, <2>2 DEF NeverTorn, NothingForgotten, TmpIsWriters
    <2>6. (OneWriter /\ LastSaveCounts)'
        BY <1>1, <2>1, <2>2 DEF OneWriter, LastSaveCounts, Active
    <2>7. Ordered'
        BY <2>1, <2>2 DEF Ordered, Active
    <2> QED BY <2>1, <2>4, <2>5, <2>6, <2>7
<1> QED BY <1>3, <1>4, <1>5, <1>6, <1>7

LEMMA NextStep ==
    ASSUME IInv, [Next]_vars
    PROVE  /\ IInv'
           /\ disk # disk' => disk.version < disk'.version
<1>1. ASSUME NEW p \in Peer, NEW trusted \in BOOLEAN, SetDeviceTrusted(p, trusted)
      PROVE  IInv' /\ disk' = disk
    <2>1. config.list \in SUBSET Peer /\ config.rooms \in SUBSET Room
        BY DEF IInv, TypeOK, Config
    <2>2. PICK list \in SUBSET Peer : Change(list, config.rooms)
        BY <1>1, <2>1 DEF SetDeviceTrusted
    <2> QED BY <2>1, <2>2, ChangeStep DEF Change
<1>2. ASSUME NEW r \in Room, join_room(r) \/ leave_room(r)
      PROVE  IInv' /\ disk' = disk
    <2>1. config.list \in SUBSET Peer /\ config.rooms \in SUBSET Room
        BY DEF IInv, TypeOK, Config
    <2>2. PICK rooms \in SUBSET Room : Change(config.list, rooms)
        BY <1>2, <2>1 DEF join_room, leave_room
    <2> QED BY <2>1, <2>2, ChangeStep DEF Change
<1>3. ASSUME NEW w \in Writer, Write(w)
      PROVE  IInv' /\ (disk # disk' => disk.version < disk'.version)
    BY <1>3, WriteStep
<1>4. CASE flush_config \/ CtrlC \/ Settle \/ Exit \/ Crash \/ Start
    BY <1>4, OtherStep
<1>5. CASE UNCHANGED vars
    BY <1>5 DEF vars, IInv, TypeOK, NeverTorn, NothingForgotten, Owed, OneWriter,
                TmpIsWriters, Ordered, Newer, LastSaveCounts
<1> QED BY <1>1, <1>2, <1>3, <1>4, <1>5 DEF Next

(* TypeOK, NeverTorn and NothingForgotten hold for any peers, rooms and bounds:
   yoink can always start from its file, and a change that is not in it is
   still owed. *)
THEOREM ConfigIsSafe == Spec => [](TypeOK /\ NeverTorn /\ NothingForgotten)
<1>1. IInv /\ [Next]_vars => IInv'
    BY NextStep
<1>2. IInv => TypeOK /\ NeverTorn /\ NothingForgotten
    BY DEF IInv
<1> QED BY InitIInv, <1>1, <1>2, PTL DEF Spec

(* NeverBackwards: the file only moves on to newer configurations. *)
THEOREM ConfigMovesOn == Spec => NeverBackwards
<1>1. IInv /\ [Next]_vars => IInv'
    BY NextStep
<1>2. IInv /\ [Next]_vars =>
        [{disk, disk'} \subseteq Config /\ disk # disk' => disk.version < disk'.version]_vars
    BY NextStep
<1> QED BY InitIInv, <1>1, <1>2, PTL DEF Spec, NeverBackwards

=============================================================================
