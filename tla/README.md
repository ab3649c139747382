# A verification project for yoink

yoink shares clipboard history between the devices of a local network. Every
device runs one process: it finds peers by mDNS, keeps one web socket per
(peer, scope) pair, replicates one CRDT list (yrs) per scope over them, and, if
asked to, captures what the user copies and writes received entries to the OS
clipboard. The *devices* scope holds the personal clipboard and is guarded by
a trust model (a block list, or a pairing list under `--require-pairing`);
*rooms* are open to whoever joined them.

The modules here are translated from the Rust sources. TLC checks them on small
instances; TLAPS proves every safety invariant of the passing runs and both refinements
for all values of the constants. Paths below are relative to `src/crates`.

## The system

| part | code | state | operations |
|---|---|---|---|
| peer registry, takeover, connection tasks | `yoink-sync/src/{lib,connection}.rs` | one mutex: trust list, joined rooms, discovered peers, `connections`, `dialers`, fan-out handles; per task: generation, hangup signal | `set_trusted`, `join_room`, `leave_room`, `peer_discovered`, `peer_lost`; `run_connection`, `try_announce`, `finish_connection`, `force_close` |
| dial loops | `yoink-sync/src/dialer.rs` | entry in `dialers`, cancel signal | `maybe_spawn_dialer`, `dial_loop`, `dial_target`, `remove_dialer_entry` |
| document replication | `yoink-core/src/doc.rs`, `fan_out`, `send_to_peers`, `pump` | yrs documents, broadcast channel, outbound queues, sockets | `add_entry`, `apply_update`, `diff`; UPDATE, SYNC_STEP_1, SYNC_STEP_2 |
| application loop | `yoink/src/app.rs` | config, last applied id, peer rows, forwarders | one handler per event of five channels |
| clipboard watcher | `yoink-clipboard/src` | `WatchState`, command and event channel, availability | `set_text`, poll |
| configuration | `yoink/src/config.rs` and its use in `app.rs` | memory, dirty flag, write in flight, file | persist, flush, shutdown, load |
| discovery | `yoink-discovery/src` | full names, last emitted announcements; our own announcement | resolved, removed; `set_rooms`, `encode_rooms` |
| handshake, frames, sockets | `connection.rs`, `frames.rs`, `socket.rs` | how far each end of a socket is | HELLO, validation, encode, decode |
| web server, UI state | `yoink-server/src` | per page: its subscription, the snapshot being built | `ui_socket`, `build_state`; HTTP handlers |
| command line, banner | `yoink/src/{main,banner}.rs` | whether rooms are advertised | start-up wiring |

How they interact. Discovery, the clipboard thread, the sync tasks, the
forwarders of documents and the web server each feed one channel of the app
loop, which handles one event at a time and is the only caller of the
`SyncManager`'s app-facing methods and the only writer of the config and the
peer rows. Connection tasks, dial loops and fan-out tasks run beside it on a
multi-threaded runtime and meet in the manager's mutex, which is never held
across an await. So whatever is read in one lock section may be stale in the
next; that is where most of the listed hazards bite. Documents have a mutex of
their own and tell their observers of each transaction through a lossy
broadcast channel.

What makes it hard: takeovers of live connections, tasks that clean up after
they have been replaced, hangups that must reach a task wherever it waits;
queues that overflow in four places, each with its own remedy; updates parked
for missing dependencies; echoes between clipboards; a config write that
overlaps with changes and shutdown; two processes that find each other while
announcements, HELLOs and sockets get lost; a page whose snapshot is read under
six locks in turn. `PROJECT.json` lists each hazard at its
line, with the property that would catch it or the reason there is none.

## Modules

| module | models | composed with |
|---|---|---|
| `SyncManager` | registry, connection tasks, dial loops of one device | refines `PeerLinks` |
| `PeerLinks` | abstract: one link per welcome pair | |
| `ClipSync` | the documents of all devices of a scope, fan-out, pumps, sockets | |
| `Mirror` | clipboards, watcher threads, capture and auto-apply of all devices | |
| `Settings` | the config of one device, in memory and on disk | |
| `Meeting` | two devices in one scope: announcing, dialing, greeting, registering, crashing | each of the two refines `PeerLinks` |
| `PeerRows` | mDNS bookkeeping, discovered peers, connection notices, peer rows of one device | |
| `WebUi` | a page of the UI, the loop's notifications, a room, the document's update stream | extends `PeerRows`, whose steps it takes |
| `SyncManagerMC`, `MeetingMC`, `ClipSyncMC`, `MirrorMC`, `WebUiMC` | values for TLC | |
| `SyncManagerProofs` (types, registry), `SyncManagerDialProofs`, `SyncManagerLinksProofs` (refinement, notices) | proofs about `SyncManager` | |
| `ClipSyncProofs`, `MirrorProofs`, `MeetingProofs`, `SettingsProofs` | proofs about the module of that name | |
| `WebUiProofs` | proofs about `PeerRows` and `WebUi` | |

The app loop is split by what its handlers touch: registry calls and room
documents are in `SyncManager`, entries in `Mirror`, the config in `Settings`,
rows in `PeerRows`, their notifications in `WebUi`, announcements in `Meeting`. The handlers share no other state, so the split loses no
interleaving. The modules meet at narrow interfaces: `ClipSync` lets every
linked pair connect (the registry decides who may), `Mirror` lets a device take
over all another knows (what `ClipSync` shows), `PeerRows` knows of a
connection only that it is announced. `SyncManager` and `Meeting` look at the
same tasks from two sides: the first takes every lock section of one device
against a peer that may do anything, the second both devices and what lies
between them, with a call or a cleanup as one step. Both implement `PeerLinks`.

### SyncManager

An action is one lock section with the code up to the next lock section or
await of the same task. A connection task goes through `fetched` (it has read
the document, before the lock), `displace`, `step1`, `pump`, `announce`, `live`,
`close`, `bye`, `redial`; a dial loop through `wait`, `giveup`, `connect`,
`run`. What a call of the app still has to do after its lock section (cancel
loops, hang up, spawn loops, drop the room's document) are steps of their own.
A task name stands for a generation number; the code only compares generations
for equality, and a name is reused only when nothing mentions it any more.
HELLO is folded into the birth of a task: a connection may be born for any pair
a valid HELLO can name. The `connect` phase can be cancelled throughout, which
includes more than the code allows (HELLO itself cannot be cancelled). At start
no room is joined: rooms of the config are reached by `join_room`.

### Meeting

An end of a socket is in `hello` (awaits the peer's HELLO), `greeted` (has
answered it; the accepting side answers before it decides), `pump` (registered,
SYNC_STEP_1 sent), `live` (a frame after the HELLO has come) or `off`; what is in
flight is how much the other end has sent and this end's phase has not used.
The larger device announces the rooms that fit (`encode_rooms`, by the sizes of
the names); the smaller one sees that, late, or misses it (`Flap`). Trust and
membership are one flag per device, `welcome`; further rooms of the larger
device (`others`) compete for the TXT budget. Faults: a socket that dies
silently, a HELLO clock that runs out, a wedged connection, a crash of the
process (its sockets close) or of the machine (they do not), a missed
announcement. Trust and rooms are in the config and survive a crash
(`Settings`). A HELLO that names another version or scope is a refusal and
needs no state. Cleaning up after a connection (close, remove the entry, say so,
redial) is one step here.

### ClipSync

Four buffers lie between a change and its arrival: the broadcast channel (full:
the oldest update is dropped and the reader resyncs), the outbound queue (full:
the connection is closed), the frame being written (the pump does nothing else)
and the socket (lost with it, except what the reader still reads, `late`). An
update is a set of items. yrs integrates an item once its dependencies are
there; here an item depends on all its author had integrated, which parks at
least what yrs parks. The snapshot and state vector of a resync are queued in
one action.

A restart empties the document, its buffers and its sockets; what only that
device had is gone, and an item that depends on it stays parked. Its peer may
still read frames of the old socket, and what it so learns of the restarted
device is not sent back there: `stray` (history) holds these items until the
device asks again, and the properties except them. Without the exception TLC
finds `NothingMissed` and `Converges` violated.

What a device parks of one peer and integrates with an update of another is not
relayed to the other (finding 4). `guests` (history) holds, per side of a
connection, what its device parked of other peers and has not passed on there.
`NothingMissed` is what the code is meant to keep and does keep between devices
with one peer each; `OnlyGuestsMissed` is what it keeps in general: the peer
lacks nothing but guests.

`StillIsEqual` is the safety half of `Converges`: connected devices between which
nothing is under way, and nothing is stray or a guest, have equal documents. It
relates what they show and not only what they hold, so it fails if an answer to
a state vector leaves parked items out.

### Mirror

The history is a list that only grows at its end: the id of an entry is the
chain of authors from the head of the list to it, and siblings are ordered by
author, which is the order yrs gives such a list. The forwarder, the broadcast
channel and the app's channel are one queue `feed` that skips a waiting update
when full. A text may be blank; the clipboard may hold none. Ghosts record who
wrote the clipboard last and after which applied entry.

### Settings

`write_atomic` is three steps (truncate the temporary file, fill it, rename
it), each of which may fail, run by the background task or, at the end, by the
main thread. The process may crash between any two. A configuration carries a
version that counts the changes, so that "older" can be said. File handles
that outlive a rename are not modelled: with one writer at a time, which the
type invariant states, they cannot matter.

### PeerRows

The bridge and the mDNS daemon are one actor: an event is translated and sent
in order, and a full channel holds it up. A loss is handled in two steps, since
connections change between the look at the registry and the removal of the row.
Notices are a bounded queue into which a full `try_send` drops; only a
PeerConnected of the devices scope changes a row, so all others are `Nothing`.
Of a room's connections only their notices count here.

### WebUi

A handler of the loop changes state, then notifies: `owes` is true in between.
(AddEntry and CopyEntry notify nobody; what they add comes back over the
document's stream.) A page subscribes, builds a snapshot piece by piece in the
order of `build_state`, sends it and looks at its notifications. The history
variable `stale` has the pieces that changed after the snapshot read them; what
a piece contains does not matter otherwise. Broadcast channels are counters: one
more than the capacity means the reader lags, which it is told as one more
message. Commands are handled at any time; their queue only delays them.

## Runs

All bounds are constants of the cfg files. "States" are distinct states.

| run | instance | shows | states |
|---|---|---|---|
| `registry` | 1 peer, 2 connection tasks, 3 dial loops, all calls; devices scope, or a room under pairing | `TypeOK`, `RegisteredIsAccepted`, `RegistryIsLive`, `DialerIsLive`, `OnlyOwnDialer`, `DevicesNeverStranded`, `OrphanIsHungUp`, `SessionsBalance`, `ImplementsPeerLinks` | 776,387 |
| `meeting` | 2 devices, devices scope or a room, 1 other room, a budget for 1 name, 2 sockets at a time, 1 fault, fair | `TypeOK`, `AnnouncedWasWelcome`, `ImplementsPeerLinks`, `MembersMeet`, `RefusedAreGone` | 317,750 |
| `dialing_live` | 1 peer, 1 task, 3 loops, fair | `OrphansEnd`, `KeepsDialing` | 42,800 |
| `replication` | 2 devices, 3 items of one author (2 with restarts), broadcast of 1, queues of 2, 1 fault: the network's, or a restart | `TypeOK`, `NothingMissed`, `Converges` | 710,907 |
| `mesh` | 3 devices, 2 items of two authors; in a circle without a fault, or in a line with a failure or a restart | `OnlyGuestsMissed`, `StillIsEqual`, `Converges` | 155,660 |
| `mirror` | 2 mirrors, 3 texts (one blank), history of 1, queues of 1, 2 user acts, 1 failure | `TypeOK`, `NoEcho`, `MirrorsFollow` | 273,568 |
| `settings` | 1 peer, 1 room, 3 changes, 1 failed write, 1 crash | `TypeOK`, `NeverTorn`, `NothingForgotten`, `NeverBackwards`, `Saved` | 173,452 |
| `web_ui` | 1 peer, 2 full names, 2 announcements, event and notice queues of 2, other channels of 1; three questions, below | `TypeOK`, `DiscoveryFollowed`, `ConnectedIsShown`, `PageTypeOK`, `PageIsCurrent` | 1,100,335 |
| `stale_doc`, `room_wakeup`, `blocked_writes`, `parked_relay` | | violations, see Findings | |

Why the bounds are enough. A takeover needs two tasks of one pair; a third
dial loop lets a successor and a cancelled predecessor exist beside the loop
that runs, and with at least as many loops as tasks plus dialable pairs the pool
never blocks a task by itself. In `replication` three items overflow both the
broadcast channel and the outbound queue, and one fault allows a reconnect
with frames in flight; a restart of either device has two items to lose, one of
which depends on the other, and may be followed by more from the new process
(two faults of any kind with two items, 500,560 states, pass as well). In the circle of `mesh` an update comes back by two ways and an item
can arrive before what it depends on; in its line the device in the middle can
restart while one end is about to send what depends on an item only the other
end will send, so that `guests` matter (TLC finds `NothingMissed` violated
there, as in `parked_relay`). `OnlyGuestsMissed` also holds in the instance of
`parked_relay`, the circle with a failure (2,035,824 states, too many for a
run). In `mirror` a history of one entry and a
dedupe window of one make texts leave the window; an instance with three acts
and a history of two, with one mirror and no failures (780,742 states), passes
as well. In `settings` one failed write meets later changes, shutdowns and
starts, whose number is not bounded.

In `meeting` users act without bound, so refusals and re-grants at either end,
attempts whose loop was cancelled and takeovers of a zombie come about without a
fault; the one fault adds a silent death, a crash, a HELLO timeout, a wedged
connection or a missed announcement to any of them. Two sockets let the next
attempt meet what is left of the last. The other room comes before the meeting
room in name order and takes the whole budget, so joining it hides the meeting
room. `web_ui` asks three questions of one specification: the rows of a renamed
device with no page open, the devices page while the device has one name, and
the page of a room that is joined and left; together they let every pair of
actors interleave that shares a piece of the page.

Three runs have a state constraint. `registry` looks at states with activity in the
devices scope alone or in the room alone (`Apart`), which share only the pools
of tasks; `replication` at restarts with at most two items
(`RestartsAreSmall`); `mesh` at the line only until its ends are connected
(`CircleOrLine`). The first two cut off no step that is assumed fair: `registry`
checks no liveness, and adding an item is never required. The third does, since
a linked pair is dialed: of the line `mesh` shows its two invariants, and
`Converges` of the circle alone.

Deadlock is checked in `registry`, `meeting`, `dialing_live`, `stale_doc`,
`room_wakeup`, `settings` and `web_ui`. The runs of `ClipSync` and `Mirror`
come to rest when all items are added or all acts done, so it is off there.

Every property of a passing run has a mutant in `PROJECT.json`: a plausible bug
of a mapped definition under which TLC finds the property violated.

### Fairness

- `SyncManager!FairSpec`: tasks are scheduled and calls run to their end. What a
  full pool can delay (`Redial`) and what competes with other arms of a select
  (`DialCancelled`: a cancel is ready at once in the next select) has strong
  fairness. No call, socket or advertisement has to come.
- `ClipSync!Fairness`: fan-out and connection tasks are scheduled, a dialed peer
  is retried (`dial_loop`), and a pump that hears nothing because its peer is
  writing reaches its idle deadline, unless it is writing itself.
- `Mirror!Fairness`: both threads of a device are scheduled and replication goes
  on (`ClipSync!Converges`); users need not act.
- `Meeting!Fairness`: mDNS repeats and expires announcements, dial loops retry,
  and every await of a connection ends (HELLO timeout, idle deadline, hang-up).
  A step of the peer arrives unless the socket is dead. Users, faults, restarts
  need not come; `MembersMeet` and `RefusedAreGone` speak of what holds once they
  have stopped, and so need no bound on users. `MembersMeet` excepts what the
  code does not promise: rooms that are not advertised (`Visible`), the lost
  wake-up of finding 2 (`Stranded`), and attempts that displace each other for
  ever (`Crossing`, see below).
- `Settings!FairSpec`: the flush timer ticks, writes end one way or the other
  and a shutdown is carried through.

## Proofs

`SyncManagerProofs`, `SyncManagerDialProofs` and `SyncManagerLinksProofs` prove, for any peers, rooms, trust model and pools of tasks:

- `TypeCorrect` and `RegistryCorrect`, from the inductive `TypeOK /\ Wiring`:
  `Wiring` relates entries, phases, owners and handles held by other tasks; by
  itself `RegistryIsLive` says nothing of a task that is between its lock
  section and the next, and a step of it would break the invariant.
- `AcceptanceCorrect` and `OrphansCorrect`: whoever distrusts or leaves removes
  the entries in the lock section that changes the list, and a removed entry is
  held by somebody who hangs it up.
- `DialersCorrect`, `OnlyOwnDialerCorrect`, `DevicesCorrect`: a loop that runs a
  connection owns its entry until it is cancelled; every wanted pair has an
  entry, a task that will redial, or a pending spawn. The step that could lose
  a wakeup is giving up, and in the devices scope what makes a pair wanted again
  leaves a trace the loop's own end sees; in rooms it does not (`room_wakeup`).
- `LinksCorrect`: every step of `SyncManager` is a step of `PeerLinks` or leaves
  it unchanged. `SessionsCorrect`: connects and disconnects balance, by an
  invariant that gives each removed announced entry exactly one task that owes
  the disconnect.

`SettingsProofs` proves `ConfigIsSafe` and `ConfigMovesOn` for any number of
peers, rooms, changes, failures and crashes. The invariant says that only one
writer is active and which (`OneWriter`), that the temporary file is what it
made of it (`TmpIsWriters`), and that versions do not decrease from the file to
the write to the memory (`Ordered`); without them neither the rename nor the
flush preserves `NothingForgotten`.

`ClipSyncProofs` proves, for any devices and links between them, any items and
authors, capacities and numbers of failures and restarts:

- `ClipTypeCorrect`. Beside the types: queues keep to their bounds, a pump writes
  one frame at a time, and a side that still takes itself to be connected has its
  socket (it has lost nothing unnoticed).
- `OnlyGuestsAreMissed`, from the inductive `NothingLost`, which says where each
  item of a document is. Its heart, `Held`: on a link that pumps at both ends and
  has no exchange ahead, all that one side holds, *parked items included*, is held
  by the other, in a frame on its way, on the bus under another origin, or
  remembered in `stray` or `guests`. `OnlyGuestsMissed` speaks of integrated items
  only and is not inductive: a parked item becomes an integrated one without
  any message. Nor is `Held` alone. An answer to a SYNC_STEP_1 covers the asking
  side only if the state vector claims no more than that side has (`Sent`); what
  the bus hands to a link has to be in the document it comes from (`Posted`), or
  a peer could hold what the sender does not; that nothing is required while a
  side still has to ask needs the question to be in the socket as long as the
  peer does not pump (`Asked`); and losses must hit both ways of a socket
  (`Paired`).
- `NothingIsMissed`: if every device has one peer (`OnePeer`), nothing at all is
  missed. Then whatever a device parked came from the only peer it has, so
  `guests` stays empty. `OnePeer` is what separates `replication`, where the
  property holds, from `parked_relay`, where TLC violates it.
- `StillnessIsEquality`: devices between which nothing is under way hold the same
  items, by `NothingLost`; that they have *integrated* the same needs the
  inductive `Rooted`. Each document is exactly the `Integrable` part of what its
  device holds, whatever the order of arrival; every item held or on its way in a
  replaced socket was made, and rests on items made before it. Without the
  latter, a new item could satisfy what a parked one waits for.
  `IntegrableIsGreatest` (the greatest part that holds all it rests on) and
  `AddedIsIntegrable` (a new item joins a document without unparking anything)
  are the lemmas about the operator.

`MirrorProofs` proves, for any devices, ranks, texts, history and queue lengths,
acts and failures:

- `MirrorTypeCorrect`. The app takes the newest entry by `CHOOSE`, so its type
  needs that there is one: `Precedes`, the order of ids as paths of the tree of
  entries, is irreflexive and transitive (`PrecedesIsOrder`), the history is
  finite (`AllFinite`), and a finite set has a greatest element in such an
  order (`NewestExists`, from well-founded induction over finite subsets).
- `MirrorNoEcho`, from the inductive `AllAccounted`: per device and text, the
  entries it made, the Copied events that wait, and the copy the watcher has yet
  to see are together no more than the acts of its user. `NoEcho` counts entries
  only; an event in the queue would become one that nothing accounts for. The
  echo of our own write is the case of `Unseen` that `last_set` excludes.

`MeetingProofs` proves, for any number of sockets and faults and any rooms and
budget, `MeetingTypeCorrect`, `AnnouncedCorrect` and `BothEndsImplement`.
`AnnouncedWasWelcome` is not inductive: the invariant adds that whoever has sent
SYNC_STEP_1 has registered a socket (`Proven`). `accepted` outlives the socket, so a takeover that carries
`announced` over keeps both. The refinement, step by step as in `LinksCorrect`,
needs that nobody is announced without an entry (`AnnouncedIsLinked`): else a
registration could open a link that counts as announced at once.

`WebUiProofs` proves, of `PeerRows`, `RowsTypeCorrect`, `RowsFollowDiscovery` and
`RowsShowConnected` for any devices, names and capacities. That rows follow
discovery needs to know what the last event in the queue says: the invariant
relates, per device, the last event on its way (or, if none is, the row and the
dial target) to what the bridge saw last. That a connected device is shown needs
the decision in hand (`keep`) related to the connections made since.
It also proves that every behaviour of `WebUi` is one of `PeerRows`
(`UiKeepsRows`), so these hold beside pages and rooms, and
`PageTypeCorrect` and `PageCorrect` for any capacities of any channel.

Assumptions: only the named `ASSUME`s of the modules, which TLC evaluates in the
runs. No bound on the number of tasks, rooms, changes or crashes is used.

TLC agreed before each proof. The invariants that no run checks were checked once
as invariants of larger or other instances: `NothingLost` with two devices, two
faults and a restart (781,388 states), `Rooted` in `replication` and `mesh`, `AllAccounted` with three acts and queues of
two (12 million states without a violation, not completed). The type invariants
of `ClipSync` and `Mirror` had to be strengthened to be inductive: they now say
that the queues are functions over all devices, not only what their values are.

Only model-checked: liveness (`OrphansEnd`, `KeepsDialing`, `Converges`,
`MirrorsFollow`, `Saved`, `MembersMeet`, `RefusedAreGone`), which needs fairness
and `ENABLED`. `DocIsCurrent`, `RoomsNeverStranded`, `WritesEnd` and, with more
than one peer, `NothingMissed` are false (Findings). What `encode_rooms`
computes is only evaluated by TLC; the proofs use of it that it selects among
what it is given.

## Findings

1. `stale_doc` (`connection.rs:155`): a task fetches the room's document before
   the lock and checks membership inside it; a leave and a rejoin in between let
   it register with the document that was dropped.
2. `room_wakeup` (`dialer.rs:149`): a loop decides to give up in one lock section
   and removes its entry in the next; an advertisement in between finds the
   entry and starts nothing.
3. `blocked_writes` (`connection.rs:303`): a pump that writes looks neither at
   its idle deadline nor at its input; two peers writing at once may block each
   other for good.
4. `parked_relay` (`lib.rs:619`): a parked update integrates under the origin of
   the peer that brought its dependency, and is not forwarded to that peer.

Seen while modelling and kept as hazards without a run:

- Nothing compares the device that answers a dial with the one that was dialed
  (`connection.rs:95`). As long as the wrong one stays connected, the dialed
  peer is not retried. `KeepsDialing` therefore counts a loop that pumps.
- An update of a restarted peer's old socket, applied after it reconnected, is
  not sent back to it (`connection.rs:313`); it lacks its own former entry
  until the next exchange. `NothingMissed` and `Converges` except it.
- An attempt in its HELLO exchange is not cancelled with its loop
  (`dialer.rs:120-124`). Its successor starts after a second (`REDIAL_DELAY`)
  while an exchange may last five (`HELLO_TIMEOUT`); over a slow link the two
  can displace each other, one at each end, and start over (`connection.rs:187`).
- The comment at `yoink-discovery/src/lib.rs:26` says that membership works for
  rooms beyond the TXT budget too. Nobody dials for them: two members meet only
  if the larger one advertises the room. `MembersMeet` without `Visible` fails.
- The clipboard flag of the page is refreshed by the next notification
  (`app.rs:609`); the death of the clipboard thread brings none.
- A row is only removed by a loss: kept for a live connection, or seeded by a
  HELLO, it outlives that connection (`app.rs:437`), against the comment at
  `app.rs:99`.
- The author of the newest entry may show another text than that entry, when a
  copy was queued while a received entry was applied (`app.rs:289`).

## Not modelled

- Parsing and encoding: room names, frames, HTTP, the JSON of a snapshot. Each
  is a pure function, and a failure ends in an error path that is modelled (a
  socket that breaks, an announcement that never comes).
- The HTTP handlers, the redirects of room URLs and the loopback guard: they keep
  no state, and queue at most one command.
- Argument parsing, the banner, binding of listeners; the tracing of each step.
- Sizes: payload limits, the lengths of timeouts and back-offs.
- yrs, tokio, mdns-sd, the OS clipboard: external, modelled from their use.

## Plan

Done: registry and dialing of one device, the meeting of two, replication, the
clipboard, the config, the peer rows and the page; proofs of every safety
invariant and refinement that a run checks. Next, in order:

1. Fan-out tasks of rooms across leave and rejoin.
2. Proofs of action properties behind the liveness ones: what a step of each
   fair action brings closer, and what no other step takes back.
3. `sanitize_room_name` and `ordered_addrs` against reference definitions.
