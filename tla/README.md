# A verification project for the ESP32-S3 mesh Snapserver

The firmware turns ESP32-S3 boards into a multi-room audio system.  One board, the
root, captures audio, encodes it with Opus and serves it with the Snapcast protocol;
every board, the root included, plays it; an Android app interrupts the music with
voice announcements.  The modules here model the parts of the firmware where several
FreeRTOS tasks share state without much locking, or where power may fail in between,
and the app's session; TLC checks them on small instances,
and TLAPS proves what most of them must keep for every instance.

## The system

### Components

| Component | Source | State it keeps | Operations |
|---|---|---|---|
| Chunk fan-out | `snapserver.c`: `audio_task`, `sender_task`, `send_wire_chunk` | the pool `s_chunk_pool`, its write index and sequence number, one queue of references per client | capture a frame, refill a slot, post or evict a reference, copy, check, send, retry, give up |
| Client table | `snapserver.c`: `server_task`, `client_task`, `stats_task`, `close_client`, `mark_client_failed` | `s_clients` (slot, descriptor, id, ready, failed, last seen), a send mutex per slot | accept, Hello, handshake, receive, write, mark failed, reap, close |
| Remote request | `snapserver.c`: `snapserver_remote_request` | the record `s_remote`, a mutex, a binary semaphore | ask, answer, connection lost, time out, collect |
| Settings and announcement push | `snapserver.c`: `send_server_settings`, the setters | announcement and mute flags, volume, latency and name per client | set, push |
| Server framing and clock | `snapserver.c`: `recv_all`, `send_all`, `handle_time`, `now_us` | partial messages, the clock offset | receive, send, adopt a clock |
| Client settings store | `client_store.c` | a table in RAM, dirty flags, keys to erase, the NVS namespace | get, put, write behind, load, erase all |
| Voice announcements | `voice_announce.c` | active flag, owner (descriptor, address), session, start time; the speaker's queue | start and stop by JSON-RPC, receive, relay, time out |
| JSON-RPC control | `snapcontrol.c` | one task per control connection, fingerprint of the client set | requests, notifications |
| Snapcast client | `snapclient.c` | socket, host, time offset, decoder | connect, Hello, time sync, receive, reconnect |
| Player | `audio_sink.c` | ring of decoded audio, timeline, source in use | feed, choose a source, play, resynchronise |
| Codec and I2S | `audio_i2s.c`, `audio_opus.c`, `audio_resample.c` | packet queue, encoder, signal detection | capture, encode, decode |
| Configuration | `device_config.c`, `webconfig.c` | NVS blobs, boot-failure counter, pin set with trial boots | load, save, confirm, revert, factory reset |
| Roles and start-up | `app_main.c`, `mesh_client.c`, `mesh_root.c`, `provisioning.c` | role, mesh parent, network | decide, join, fall back |
| Board | `power_button.c`, `pots.c`, `status_led.c`, `pinmap.c`, `cpu_stats.c` | pin levels | poll, display |
| Android app | `android/SnapAnnounce` | announcement session | start, stop, stream |

### How they interact

- `audio_i2s.c` hands encoded frames to `audio_task`, which writes them into the pool
  and posts references to the queues of the clients that are ready.  Each client slot
  has two permanent tasks: `client_task` (handshake, receive loop, the only one that
  closes the socket) and `sender_task` (takes references, sends chunks).
- Three kinds of task write to one socket under the slot's send mutex: `client_task`
  (handshake, time replies), `sender_task` (chunks) and whoever changes a setting
  (JSON-RPC and HTTP tasks, voice announcements).
- Anyone who finds a connection broken or silent calls `mark_client_failed`, which
  shuts the socket down; `client_task` notices and closes it.
- The web server asks another board for its configuration through the connection that
  board's Snapcast client holds (`snapserver_remote_request`).
- Setters store what they set with `client_store_put`; `handle_hello` reads it back.
- `voice_announce.c` is started by JSON-RPC, raises the announcement flag of the
  server, which is pushed to the clients, and feeds `audio_sink.c`.  It learns from
  `snapcontrol.c` that the connection of the app has ended.
- `snapclient.c` connects to the server, follows its clock with Time messages and feeds
  the ring of `audio_sink.c`; the event task (`mesh_client.c`) tells it that the network
  came or went, and it leaves its mesh parent when no server can be reached.
- `app_main.c` counts a boot in `device_config.c` before it touches the pins, decides
  with `provisioning.c` what network to start and confirms the pins at the end;
  `webconfig.c` stores forms meanwhile, those of a remote board through `snapclient.c`.

### What is hard

The pool is read without a lock while it is rewritten; references outlive both the slot
they name and the connection they were made for; a slot passes from one connection to
the next while senders, pushers and the statistics still hold its old descriptor; one
answer semaphore serves all requests; a write-behind task races the puts that feed it;
sockets block, time out in the middle of a message, and fall silent without a word;
power fails between two flash writes, and three tasks
write the same blobs; a wake-up is a flag and two bits set one after the other.
`PROJECT.json` lists these hazards at their lines.

### What makes each part correct

- Fan-out: every connection hears chunks in capture order, none twice, none too late, whole
  unless the listener has fallen a whole pool behind, and nobody holds a reference for ever.
- Client table: every descriptor has one owner and is closed once; a message reaches the
  connection it was meant for and never lies inside another message; a chunk never
  precedes the handshake; one client ends up with one slot; a silent peer is reaped.
- Remote request: the answer returned is the one to this request, by this client.
- Store: what is not marked dirty is in the flash, the flash never goes back, a change
  gets there, evicted entries leave it, and the newest clients are remembered.
- Push: each client's announcement and mute state becomes the server's, and a reconnect gives
  a client its settings back.
- Voice: every announcement ends, and only its owner ends it early.
- Client: it is connected again as long as the server can be reached, misses no wake-up,
  and never averages two clocks for long.
- Player: the label of the buffered audio stays exact, and an echo never lasts.
- Configuration: a pin set that does not boot is taken back, only one that carried audio
  is confirmed, flash never holds a knob on a pin of the bus that is then loaded, and
  every start ends with a running device.

## Modules

| Module | Models | Kind |
|---|---|---|
| `ChunkPool` | fan-out of `snapserver.c` | detailed specification |
| `LiveStream` | what a listener is promised | abstract specification of `ChunkPool` |
| `ChunkPool_proofs` | theorems about `ChunkPool` | proofs |
| `Connections` | client table of `snapserver.c` | specification |
| `Connections_proofs` | theorems about `Connections` | proofs |
| `RemoteRequest` | `snapserver_remote_request` and its answers | specification |
| `RemoteRequest_proofs` | theorems about `RemoteRequest` | proofs |
| `ClientStore` | `client_store.c` | specification |
| `ClientStore_proofs` | theorems about `ClientStore` | proofs |
| `Settings` | the settings of the clients: setters, pushes, announcement flag, controllers' lists | specification |
| `Settings_proofs` | theorems about `Settings` | proofs |
| `Announce` | the announcement: app, control connection, packets, `voice_server_task` | specification |
| `Announce_proofs` | theorems about `Announce` | proofs |
| `TimeSync` | Time messages, the client's window, the server's adoption of a clock | specification |
| `Client` | connection loop, event task and rejoining; composes `TimeSync` | specification |
| `Client_proofs` | theorems about `Client` with `TimeSync`, and about `Playback` | proofs |
| `Playback` | ring, labels, scheduling and arbitration of `audio_sink.c` | specification |
| `Boot` | start-up, pins on trial, forms, boot counter, power button | specification |
| `Boot_proofs` | theorems about `Boot` | proofs |
| `MC...` | one per specification that needs symmetry sets or constant values | instances for TLC |

Operators under a comment that begins "Faulty variant" or "Mutant" are not part of any
specification.  Each is a definition with one plausible mistake in it; replacing the
definition by it makes TLC report the property named in `PROJECT.json`, which shows that
the property depends on the code being as it is.

### ChunkPool

One step is one access to shared memory, one queue operation or one socket call.
`FillHeader`, `FillData` and `Publish` are the three writes of `audio_task` to a slot
(header fields, payload, sequence number); `CopyHeader`, `CopyData` and `Verify` are the
reads of `send_wire_chunk`, in the order of the source.  A chunk is known by its capture
time; a slot or a copy whose `ts` and `data` differ is made of two chunks.  `Post`,
`QueueFull` and `Evict` are the fan-out with its "evict the oldest" rule, `CheckAge`,
`SendBusy` and `StillWanted` the retry loop of `sender_task`.  `Accept`, `ResetQueue`,
`BecomeReady` and `Close` keep only the part of the client table that the fan-out sees.
Time is a counter of 20 ms frame periods, and `MaxStall` bounds how long a sender goes
without looking at the age of its chunk again.  The source bounds it by its timeouts:
1 s for the send mutex, 300 ms in `send()`, 1 s for a message begun, 20 ms between two
attempts, and whatever the scheduler adds.  Reordering of memory accesses between the two
cores is not modelled: the sequence number and the other fields are plain variables in the
source, and the model executes their accesses in program order.

`IsLiveStream` says that the fan-out implements `LiveStream`.  Each listener is sent chunks
with growing capture times, none twice, with no header older than the allowed lateness.
Each is whole (`Deliver`), or the listener has fallen a whole pool behind: then its header,
its payload or both may be those of the chunk that takes its place (`Tear`), of no other.
The refinement mapping takes `heard` from the last chunk handed to the socket and, from the
history `captured`, whose turn it was.

### Connections

Connections are numbered as they are accepted; a descriptor is a value that names a
connection while it is open and is reused after `close()`.  The actions of a slot follow
`client_session` (`StartSession`, `Hello`, `Kick`, `Answer`, `Header`, `MakeReady`,
`Receive`, `ReceiveFails`) and `close_client` (`FreeTheSlot`, `CloseSocket`).  A write is
`Push`/`TakeChunk`/... (descriptor copied under the lock), `BeginWrite` (mutex taken),
then one of the outcomes of `send_all`: everything, nothing, or a torso.
`mark_client_failed` is `MarkLock` followed by `MarkShutdown`, because it copies the
descriptor under the lock and shuts it down after giving the lock back.  Descriptors are
handed out in any order, which covers the lowest-free rule of lwIP.  The silence and stall
limits of `stats_task` are a flag and a free choice.

### RemoteRequest

One record, one mutex and one binary semaphore, as in the source.  A connection is a
number said by a client; a client either says "SnapMesh" in its Hello or does not.
Answers travel through `inbox`, may be late or never come; the semaphore is given after
the lock, so a give may come after the caller has left.

### ClientStore

`Put` is the critical section of `client_store_put` together with its notification;
`TakeKey`, `EraseKey`, `TakeEntry` and `WriteEntry` are the critical sections of
`store_flush` and the flash accesses between them; `Restart` is a power failure at any
point followed by `client_store_init`, which takes entries in any order until the table is
full.  Every put carries a value of its own, so that an older copy can be told from a
newer one.  With `HasTask` false the callers of a put flush, each for itself: the fallback
of the source when the task cannot be created, which the runs do not use.  Keys are
distinct in the runs, flash accesses succeed, and the list of keys to erase is as long as
needed in `store_kept`.

### Settings

`send_server_settings` is four steps of whoever calls it (`PushSettings`, `PushFlag`,
`PushRecord`, `PushSend` or `PushRefused`), as the source takes and leaves the lock
between them; a setter of `snapcontrol.c` is the change under the lock, `remember_settings` in three
steps (`RememberName`, `RememberLive`, `RememberPut`), the push and the answer.
`RememberPut` is `client_store_put`: it clamps what an entry cannot hold (`Clamp`, the
`int16_t` of a latency), leaves an unchanged entry as old as it is, and lets the entry
written longest ago make room (`Evicted`) when the store is full.
`Turn` starts and stops announcements, `Notice` and `Refresh` are the refresh
`voice_server_task` makes from client to client.  `Poll` takes the hash of the list and
`Update` the list, so a change may fall between.  `mixed`, `raced` and `undone` record
overlaps that the code does not repair, `forgotten` whose entry made room since its Hello;
the properties except exactly those.

`Hello` reads the entry and publishes id and settings in one step; in the source they are
apart (`snapserver.c:1119`, 1128-1162).  What may come between them is a request that still
reaches an older connection of the same client, which counts as raced if that connection is
there when the new one publishes, and is not seen by the model if it has gone by then.

### Announce

An app goes from `Start` (connect and Voice.Start) over `Check`, `GoOnAir`, `Send` and
`StopCapture` to `RpcStop`, `OnDisconnect` and `CloseFd`; it may lose its answer, be asked
to stop at any point, or vanish.  `Recv` is `recvfrom` and the copy of the state under the
mutex, `Round` the rest of a round.  Packets may be lost and overtaken; each carries the
session its sender was armed for, which the code does not know.

### Client and TimeSync

`TimeSync` keeps, of every measurement, what the server's base adds to it; the choice of
the fastest third in `publish_offset` is any third, and the result of the fit its mean,
where the source fits a line whose slope carries the offset on to the present
(`snapclient.c:517-545`).  `ClockSettles` is about measurements of two clocks that are far
apart, and says nothing of how good the fit is.
`Client` has one action per place at which `snap_task` blocks or shares something: `Top`
and `Wait` (the two short waits and the long one), `Connect`, `TakeSocket` (the
socket's number becomes visible), reading a header or payload that comes whole, in part or not at
all, `Close` in three steps, and `GiveUpNetwork`, `DropLink` for the forced rejoin.  The
event task sets flag, bits and socket one after the other, as does `snap_task` when it
declares the network gone.

### Playback

A stamp is kept as the time until its sample is due, so the label of the ring's head is
the scheduling error itself and moves when time passes or the clock offset changes.
`snap_task` compares a chunk with the timeline, writes what fits and may be overtaken by a
flush in between; `player_task` reads a frame and advances the label in two steps, decides
about sources, holds, skips or snaps.  `raced` is set by the three unlocked races of the
label and cleared by the next anchoring.  `echo` counts the frames in a row that are off: a
frame that begins with silence, because part of it was held back, is off by what is left
of the error behind the silence.  An offset read half-written is off by `Far`, which is more
than any size of the model (half of a 64-bit count of microseconds is over an hour).
Dropping the offset at the end of a connection is one step, where the source writes the
value and then the flag (`audio_sink.c:1430-1434`).  `Retime` changes the trimmed delay only
while `snap_task` is connected and between two chunks, where the source lets the web server
do so at any time (`audio_sink.c:1499-1505`, `webconfig.c:382-384`).  The label is in terms
of the chunk's stamp and does not contain the delay; what a change in the middle of a feed,
or while nobody is connected, adds to that is not explored.

### Boot

`app_main` is a program counter `at`.  Every saver (the web server and the task that
serves forwarded requests) goes through `Post`, `WriteConfig`, `CacheConfig`, `CheckPair`,
`WritePots`, `WritePins` and `CachePair`, which are the flash writes and RAM updates in the
order of the source; a factory reset through `EraseConfig`, `ErasePots`, `ErasePins`.
`GraceCopy`, `GraceWrite`, `GraceCache` are the boot counter's write of the whole
configuration, `ConfirmRead`, `ConfirmWrite`, `ConfirmClear` the confirmation.  `Trouble` is
a power failure or a crash at any point; pins in `Bad` crash in `StartAudio`.

## Runs

| Run | Question | Result |
|---|---|---|
| `chunk_stream` | Is a listener's stream in order and in time, and whole or torn by none but the chunk a pool later? | Yes; every queue drains, at most one reference outlives its connection, and `CheckInv` holds. |
| `conn_reuse` | Are descriptors and send mutexes kept apart when a slot is reused, and is a silent peer closed? | Yes. |
| `conn_twins` | Does a client end up with one slot? | Of two with one id at least one is on its way out. |
| `remote_safe` | Is the answer the right one? | Yes, and the record is empty between requests. |
| `store_kept` | Is writing behind safe, over evictions, a reset and a power failure? | Yes: in the flash what is not marked, nothing goes back, changes arrive, the newest are remembered. |
| `store_lost` | Is the flash complete at rest? | No: an entry evicted and put again during a flush is erased. |
| `settings_push` | Are clients told, is stored and shown what is set? | Yes, but for pushes that crossed or were refused, requests that overlapped, what an entry does not hold and entries that made room. |
| `announce_live` | Who ends an announcement? | Its owner, whose descriptor is open, or a watchdog whose limit has passed; and it always ends. |
| `playback_race` | Do labels and schedule survive chunks, gaps, flushes, shifts and half-written offsets? | Yes, but for the three races of the label. |
| `client_live` | Does the client come back, whatever was lost? | Yes, unless it hangs in the middle of a message; no wake-up is lost and clocks are not mixed for long. |
| `client_hang` | Does the stall watchdog end a connection that dies in the middle of a message? | No. |
| `boot_trial` | Do pins on trial, forms, counters and the fallback survive power failures and each other? | Yes. |

`client_hang` and `store_lost` check what a comment of the source promises; each is a
finding in `PROJECT.json` with the comment quoted.

### What each property says

A star marks a property that is also a theorem (see Proofs).

- `CheckInv`*: a copy equals its slot while the slot's number stands and no refill is under
  way.  `IsLiveStream`*: the fan-out implements `LiveStream`.  `FewStale`*: at most one
  reference of an earlier connection is in a queue.  `QueuesDrain`: nobody holds a
  reference for ever.
- `DescriptorsOwned`*: every open descriptor has one owner.  `WritesExclusive`*: one message
  at a time per socket.  `HandshakeFirst`*: no chunk before settings and codec header.
  `SilentReaped`: a silent peer is closed.  `DuplicateDoomed`*: of two connections of one
  client one is on its way out.
- `RightAnswer`*, `EmptyBetween`*: see Proofs.
- `InSync`*: an entry that is not marked is in the flash as it is in the table or on its way
  there; where clients are evicted the flash may lack it, but has nothing else under its
  key.  `RemembersLatest`*: the table has the newest clients it loaded or was given, up to
  the second power failure (see below).  `NoOrphan`*: what only the flash knows is about to
  be erased or overwritten.  `NeverBack`*: the flash never gets an older value.
  `ReachesFlash`: a marked entry is written.
- `ToldWhatIsSet`*: a client the last push reached undisturbed was told what the table says.
  `StoredAsSet`*: a reconnect gives a client back what it has, as far as an entry holds it,
  unless its entry made room for another; what overlapping requests do to an entry is
  excepted until the client's next Hello.  `LateJoinerTold`: a client that joins during an
  announcement hears of it while it lasts, unless a push to it was refused or crossed; it
  compares what the client was told (`told`), not what is recorded for it (`sent`).
  `NothingMissed`*: a controller that
  only listens has been shown the list as it is when its hash says so.
- `OwnerOpen`*, `WatchdogsRight`*, `AlwaysEnds`: see the comments in `Announce`.
- `LabelExact`*: label, amount and stamp agree.  `EchoBrief`*: no more than
  `SOFT_RESYNC_FRAMES` frames in a row are off by more than the soft threshold.
- `NoLostWakeUp`*, `Recovers`, `Rejoins`, `ClockSettles`*: see the comments in `Client` and
  `TimeSync`.
- `BadPinsDropped`*: pins that crash the device are given up after their trial boots, unless
  they were confirmed in place of others (see below).  `ConfirmedCameUp`*: only pins that
  carried audio are confirmed, with the same exception.  `KnobApart`*: no knob is loaded
  that reads a pin of the bus.  `FallbackEarned`*: the open network takes that many failed
  boots in a row.  `ComesUp`: every start ends with a running device.

### Bounds and why they are enough

- `chunk_stream`: one client with a queue of two, a pool of four, an age limit of two and
  stalls of two periods wraps the pool, fills the queue, evicts, retries and reconnects once
  within five chunks.  The sizes are to each other as the source's, 120 for 128 with an age
  limit of up to 120 and stalls of 66 and more: the pool is a little larger than the queue
  and the age limit, and age limit and stall together reach around it.  So the torn chunk
  is in the run; its shortest story has 37 states (see below).  More chunks than five add
  nothing but laps, and the theorem `ImplementsLiveStream` has any number.
- `conn_reuse`: two connections after another in one slot with every kind of writer, one
  of them silent; `conn_twins`: three connections on two slots with one id.  Together they
  contain every overlap of an old and a new occupant; nothing counts slots.  Two or three
  descriptors make reuse happen.
- `remote_safe`: two callers, three requests, three connections of a slot: one request
  late, one answered, one in between.  Message ids do not wrap within the bound.
- `store_kept`: three clients for two places and three puts give an eviction and a change
  during one flush, with one factory reset and one power failure at any point (with two,
  a client may be forgotten, see below);
  `store_lost` has five puts and neither.
- `settings_push`: one slot that two connections use one after the other, two ids for one
  place in the store, so that a put of one client makes another's entry go, whether it is
  connected or not, and one volume too large for an entry.  `Starts` divides two connections
  and two events (requests of controllers, the start of an announcement) into three parts
  that TLC explores in one run: all of both with two controllers whose requests overlap and
  a client that was renamed once; both events on one connection while a second controller
  listens; one event over both connections while it listens.  Slots do not touch each
  other but through the store, so one is enough.
- `announce_live`: two phones, two tries and two packets of an announcement: one phone's
  leftovers meet the other's announcement or its own second one.  The limits keep their
  order, `Silence < Grace < Limit`; a round of the task takes no tick.
- `playback_race`: a frame of 20 ms is three units, longer than the soft threshold and one
  unit, so that a frame can be played in part and the rest still be on time; the ring holds
  two chunks and a bit, so that a chunk is also cut, the prebuffer is less than the ring, and
  gaps, shifts and offsets lie below, between and above the thresholds.
- `client_live`: two failures of link or server, two connection attempts before a rejoin
  and two timeouts before a stall, which is the least that counts; three measurements per
  window and two requests on their way.  `client_hang` needs one failure.
- `boot_trial`: good and bad pins, two savers, two posts or resets, one power failure,
  crash or switch-off, one failing write and one join; thresholds of two, so that
  something is counted, waits of one.  The first boot is part of the run.  A third form, which is
  beyond the run, is what it takes to confirm pins that crash; the theorems have any number.

### Fairness

Tasks of the firmware run when they can: weak fairness of each task's own steps, never
of what a peer or user does.  `FreeTheSlot` alone has strong fairness, because it waits for
a FreeRTOS mutex whose waiters are served in order of priority and arrival while other
writers take and release it.  `FallSilent` (20 s without a message) and `StatsLook` (a
periodic task) are weakly fair because time passes.  `store_task` is weakly fair: its
delay of 3 s ends once puts stop, and puts are finitely many in a run.  In `Settings`
`voice_server_task` is fair, and so is a push that has begun, whoever makes it: the mutex
and the socket are waited for with a timeout.  Otherwise controllers and sessions may stop
anywhere.
In `Announce` the task is weakly fair and time strongly, for a round that takes longer
than its bound would hold time back; nothing is asked of the apps.  In `Client` both tasks
are weakly fair and so is `LinkUp`, because Mesh-Lite joins again by itself.  In `Boot`
every task and time are weakly fair, the user and the power supply are not.

## What the models show against the code

What comments, messages or intentions of the repository say and the code, as modelled,
does not keep in every interleaving.  Two are findings with a
run of their own; for the others the steps are
given here.

- **A dead link in the middle of a message hangs the client** (run `client_hang`).
  `snapclient.c:243-246` relies on the stall watchdog; but `read_full` keeps waiting at
  line 250 and the watchdog counts only timeouts at a message boundary.
- **An entry evicted and put again during a flush is lost** (run `store_lost`).  The put
  happens after `take_entry` and before the erase loop of the next flush, which erases the
  key that has just been written.
- **A torn chunk goes out when a sender falls a pool behind** (`snapserver.c:861-866`).  The
  comment says that half of one frame and half of another must not go out.  But the
  sequence number is the last thing written, so a copy made while `audio_task` refills that
  very slot still reads the old number; `SequenceCheckSound` says that this is the only way.
  TLC's story in `chunk_stream`: a stall lets the slot of the reference come up for its
  refill; `audio_task` writes the new header and is interrupted; `sender_task` looks at the
  age, finds the new time stamp, which is young enough, copies the new header and the old
  payload, finds the old number and sends the mix.  The source has 128 slots, a queue of 120
  and an age limit of at most 120 periods, and an attempt may take 1 s for the mutex and
  300 ms in `send()`, 66 periods, or 1 s more for a message half written: 120 + 66 is more
  than 128.  The queue has a second way: a reference that `audio_task` posts just after
  `server_task` has emptied the queue waits at its head for as long as the handshake takes
  or the sender is busy with its last chunk, and falls behind with every frame.  What goes
  out is then, as the theorem says, a mix with none but the chunk 128 frames later.
- **`mark_client_failed` may shut down a connection nobody judged** (`snapserver.c:1430`).
  It copies the descriptor under the lock and shuts it down after: in between the slot may
  be closed and the descriptor handed out again.  `SilentReaped` holds nevertheless.
- **A message may follow a torso** (`snapserver.c:2335`).  The comment of `send_all`
  (463-475) takes -1 for a connection that is over, but a settings push ignores it, and the
  next writer takes the mutex before the session notices.
- **A client whose handshake is under way when an announcement ends is not told**
  (`snapserver.c:1314`).  Its settings were read with the flag set; the end of the
  announcement refreshes once (`voice_announce.c:337` tells nobody else), skips it because
  it is not ready, and no later refresh comes.
- **A refused push is not made up for** (`snapserver.c:680-684`).  The flags are recorded as
  sent before the message is; when the send mutex is not to be had within a second the
  message is dropped, and the refresh goes by the record.  The client does not hear of the
  announcement, or of its end, until something else is pushed to it.
- **What a reconnect does not give back** (`client_store.h:5-14`: settings are "kept across
  reconnects").  A latency beyond 16 bits is clamped in the entry (`client_store.c:232-234`)
  and not in the table (`snapserver.c:2353`), so the reconnect gives another one.  When the
  store is full the entry written longest ago goes, even that of a client that is connected;
  the next volume is then stored without the name somebody chose (`snapserver.c:2277`).  Two
  requests that overlap in `remember_settings` may leave the older volume or name.
- **The app's stop may be lost** (`VoiceAnnounceService.kt:263`).  A stop asked for between
  the test of `stopReason` and `capturing = true` is overwritten.
- **Late packets of the last announcement lock the owner out** (`voice_announce.c:607`).
  The numbers start anew for every announcement and packets name none; from the same
  address a higher old number is taken for the newest until the silence watchdog ends it.
- **The label of the ring is set in three races** (`audio_sink.c:1382`): the ring runs dry
  between the comparison of a chunk and its write, a chunk is written to a ring that was
  flushed after its comparison, or the label is anchored while a frame is between its
  reading and its advance.  Each lasts until the next anchoring.
- **A stale prebuffer** (`audio_sink.c:203-208`, 1394).  Only the change from NETWORK to
  NONE flushes.  A connection that ends while it is prebuffering, or while the local input
  plays, leaves its audio to the next one, whose prebuffer is not built "from scratch".
- **The announcement flag outlives its connection** (`snapclient.c:844`).  If the server
  goes away during an announcement, the speaker stays silent, its own local input too,
  until a server is there again.
- **Time sync starves with a round trip over 200 ms** (`snapclient.c:596`): until 64
  replies were taken a new request goes out every 200 ms, and only the reply to the last
  one counts.
- **A spin after a forced rejoin** (`snapclient.c:1196`): the bit is cleared between the
  flag and the bits of an IP event; it stays set while the network counts as gone.
- **The power cycle of a first boot** (`provisioning.c:366-368`, `provisioning.h:33-36`).
  A first boot stores the defaults; when its window has closed, the message asks for a
  power cycle to open a new one, but the next boot finds a configuration and starts the
  default mesh.
- **Confirming old pins over new ones** (`device_config.c:756`).  A form stored between the
  read and the write of the confirmation is overwritten in flash; RAM shows the new one.
- **The boot counter undoes a form** (`device_config.c:502`).  It writes a copy of the whole
  configuration, where `device_config.h:209` says that it persists only the counter.
- **A reset undone by a late writer** (`device_config.c:37-47`).  `s_erased` is looked at
  before the write: a writer past the check brings its blob back.
- **A newer client makes room for an older one after two power failures**
  (`client_store.c:177-193`).  A start that finds more blobs than fit takes the ones it meets
  first and goes on from the highest number among those; what is then written may get a
  number no higher than that of a blob left out.  If the next start takes that one, the
  older client passes for the newer (`client_store.h`: "the entry written longest ago makes
  room").
- **A form half stored** (`webconfig.c:388`, 486).  When `save_pin_set` fails after the
  configuration was saved, the caller hears of a failure, the comment says that nothing is
  stored, and the form is in force.
- **"One commit for both"** (`device_config.c:718`).  Each blob is in flash once it is set;
  a power failure between the two leaves one of them.  Loading checks the pair again,
  which is why `KnobApart` holds.
- **"What the hardware was started with"** (`s_boot_pins`, `device_config.c:73`): audio takes
  `s_pins`, which a form may have changed since; that set then runs with no trial boot on
  record, one boot
  more than `TRIAL_BOOTS_MAX` allows (`BadPinsDropped` counts it).  The other way round a
  boot confirms pins other than those its audio started with; if these crash the device,
  nothing takes them back any more.  `BadPinsDropped` and `ConfirmedCameUp` except them
  (`past.swapped`); TLC needs three forms to get there.
- **The root guard restarts before the grace window ends** (`mesh_client.c:199`).  A client
  that keeps ending up as root restarts after 60 s, never counts a failed boot and never
  opens the fallback network.

Smaller ones, of the same kind: a
reference posted after the queue was reset, a semaphore given after its request was over, a
request sent to the next occupant of a slot, a flush that writes back what a factory reset
has erased, a start after a power failure that loads an evicted client, a change that a
controller does not see because it asked for something else.

## Proofs

The theorems hold for every value of the constants that the named assumptions allow.

`ChunkPool_proofs`: any number of clients, pool size, queue depth and bounds.

- `TypeCorrect`: the type invariant.
- `CheckInvariant`: the inductive invariant `CheckInv`, the type invariant with four
  facts.  A sequence number is issued once (`SequencesIssued`), a slot is half written only
  between two particular steps of `audio_task` (`SlotsWhole`), its header is then that of
  the new frame (`HeaderIsNewest`), and a copy is equal to its slot for as long as the
  slot's number is the one in the reference and no refill is under way
  (`CopiesFaithful`).
  `CheckInv` is also checked by `chunk_stream`.
- `SequenceCheckSound`: `CheckFooledOnlyByRefill` follows.  The property alone is not
  inductive: it says nothing about a copy that is half made, or about numbers still
  waiting in a queue, from which a later step would conclude that a stale copy is fresh.
- `FanInvariant`: what holds of pool and queues whatever their sizes.  The pool is a ring:
  the position of a slot and the count of chunks tell its number (`Ring`), and its chunk is
  at least as many periods old as it is chunks old (`Paced`).  Numbers follow capture times
  (`InCaptureOrder`).  What a client was sent, is being sent, has waiting and will be posted
  is in order (`InOrder`); a sender with work looked at an age at most one stall ago
  (`OnTime`).  `NotFarBehind` relates references to frames: a ready client is posted every
  chunk, so a reference is as many frames behind as there are references behind it.  The
  exception is one reference that was posted after the reset of the queue: it falls behind
  during the handshake and afterwards, for two stalls at most before it is taken.
- `StreamInvariant`: however long a sender is held up, and without any condition on the
  sizes.  Numbers follow capture times, and a slot holds the chunk of its number but for the
  fields that are just being written (`Numbered`).  As long as a slot has the number of the
  reference, what was read of it is the chunk of that number, or that of the frame
  `audio_task` is writing over it, a whole pool later; and the age was looked at in the
  header that is read (`Copied`).
- `ImplementsLiveStream`: `ChunkPool` implements `LiveStream`, for any sizes and stalls.
  `Tick` is a `Pass`, `Collect` a `Capture`, `Accept` a `Reconnect`, `SendDone` a `Deliver`
  or a `Tear`, and every other step leaves the abstract state as it is.

- `FewStaleHolds`: `FewStale`, for each client from `StaleOnce`: once its slot is given to
  another connection, references of the last one are in its queue, or with `audio_task`
  about to be put there, and not both; `audio_task` has one at most.

The only assumption is `PoolAssumption`: sizes are positive, bounds are natural numbers.
No theorem has a hypothesis about how the sizes and the stalls relate.

`Connections_proofs`: any number of slots, descriptors, ids and connections, and any writers.

- `TypeCorrect`: the type invariant.
- `EveryDescriptorOwned`, `EveryWriteExclusive`: `DescriptorsOwned` and `WritesExclusive`,
  from the inductive invariant `OwnInv` (`OwnershipInvariant`).  A slot is active exactly
  while it has a descriptor and its task serves it or has been woken (`SlotLife`); a
  descriptor is open exactly when one slot or one closing task holds it (`Held`), and for a
  connection of its own (`Numbered`); who writes holds the mutex and writes to the
  connection of the slot (`MutexHeld`), which holds because `close_client` clears the slot
  under that mutex.
- `HandshakeComesFirst`: `HandshakeFirst`, an action property.  A chunk that is being
  written when the slot is no longer ready is the case that needs `ChunkGiven`.
- `TwinDoomed`: `DuplicateDoomed`, which is inductive only together with where marks come
  from (`MarksApart`): a sender marks its client when it has dropped the chunk, kicks come
  from one state, and an id stays with a session past its Hello.

`TableAssumption` names the writers the source has and says that "none" is neither a
descriptor nor an id.

`ClientStore_proofs`: any number of clients, places, keys, puts, resets and power failures.

- `TypeCorrect`: the type invariant.  `StoreInvariant` is the inductive invariant behind
  everything below: a blob lies under its own key, a client has one place, a put made one
  entry of which there may be copies, and where a flag stands a flush will come by (`Keyed`,
  `OnePlace`, `Written`, `Noticed`).  It holds with the task and without it.
- `RemembersLatestHolds`: `RemembersLatest`, with or without the task and whatever the keys.
  It is not inductive: "the entry written longest ago" is found by a number that power
  failures set back, so the invariant relates numbers to puts in every copy (`InStep`) until
  power fails and their order in the table afterwards (`Ordered`), and whoever has no place
  lost it to clients changed later, in a full table (`Displaced`).
- `NeverBackHolds`: `NeverBack`, an action property, with the task: what a flush holds is
  neither older than what it is written over nor newer than the table (`Over`, `Going`,
  `Behind`).  Callers that flush for themselves may write two copies in the wrong order.
- `InSyncHolds`: `InSync`, with the task and with keys that do not collide (`Apart`); two
  clients with one key write over each other.  Keys are 32-bit hashes.
- `SettledHolds`: `Settled`, the property run `store_lost` refutes, does hold between
  resets when there is a place for every client: only eviction loses an entry.
- `NoOrphanHolds`: `NoOrphan`, with the task and as long as the list of keys to erase is not
  full when a client is put (`RoomLeft`); keys may collide.  A client evicted while its entry
  is on its way to the flash is erased after (`LateWrite`).  `NoOrphanFewPuts` has a bound on
  the puts instead.

`StoreAssumption` gives the constants their ranges and says that with the task nobody else
flushes.  `HasTask`, `Apart` and `RoomLeft` are not assumed but hypotheses of the theorems
that need them.

`Client_proofs`: any number of failures, attempts, timeouts and measurements, any sizes of
the sink.

- `WakeUpKept`: `NoLostWakeUp`.  The flag, the bits and the socket are set one after the
  other by both tasks; the invariant `WakeInv` says that, unless the event task is between
  flag and bits, whoever waits for the long bit while the flag is set finds it set.
- `LinkTypeCorrect`: the type invariant of the link (`LinkTypeOK`), which has the one bound
  that does not follow from the types: no more events wait than the failures of the link
  account for, although `snap_task` drops the link itself and each drop posts another.
  `LinkBounded` is the inductive invariant: events come in turn (`InTurn`), and the backlog
  with twice the drops that may still come is at most twice the failures and two more
  (`Bounded`); a drop of `snap_task`'s own was paid for by an event that was taken up.
- `TypeCorrect`: the type invariant with the clocks, for any skews.  The offset is a fold
  over the measurements that are used; that the fold is a number (`SumInt`), and what it is
  for measurements of two clocks (`SumOfTwo`), follows from a smallest set for which it were
  not (`SmallestSet`), which takes the place of an induction.
- `ClockSettlesHolds`: `ClockSettles`, if an adopted clock is far enough from the old one
  (`FarApart`): 60 s in the source, where three times a little over 2.1 s would do.  The
  inductive invariant `ClockInv` (`ClockInvariant`) says that measurements and stamps are of
  the clock before or after the adoption, and that once a measurement is of the second
  clock everything on its way is (`TwoClocks`).  A request stamped by both is not counted,
  because its round trip comes out negative or too long (`Measured`), and the mean of the
  first `MinFit` measurements, if they are of both clocks, is too far from the next one
  (`MixedIsFar`), so that the window starts over.
- `LabelExactHolds`: `LabelExact`, from `PlayInv` (`PlayInvariant`), which says for every
  point between two locked sections of feeder and player what the label lacks: the samples
  written and not yet labelled (`Fed`), those read and not yet advanced over (`Drawn`).
- `EchoBriefHolds`: `EchoBrief`.  A row of echoes is at most one frame ahead of the player's
  own count, and the reading it decided by still holds unless the row begins anew or the
  offset was read half-written (`Counted`).  Its proof is where a mistake of an earlier
  bookkeeping came out: it took a frame with leading silence to be off by the whole error,
  which shows only where a frame is longer than the soft threshold and one unit; the
  source's is, and `playback_race` now has such a frame.
- `SinkTypeCorrect`: the type invariant of `Playback`.

`ClientAssumption` and `TimeSyncAssumption` say that the limits are positive,
`PlaybackAssumption` that the sizes are and that the thresholds are in the order the source
has them.  The sink is in this module because it is what the connection feeds; the two share
no variable.

`Boot_proofs`: any forms, pin sets, knobs, savers, thresholds and bounds.

- `TypeCorrect`: the type invariant, in which the counters have their limits.
- `CrashLoopEnds`: `BadPinsDropped`.  The trials in flash, in RAM and with every saver are not
  behind the crashes: ahead by one once this boot's count is taken up (`TrialsCount`).
- `OnlyProvenPins`: `ConfirmedCameUp`, which needs to be known of RAM, of the savers and of
  the confirmation in progress as well (`Vouched`).
- `KnobsApart`: `KnobApart`, because no saver carries a pair that clashes (`PairsApart`).
- `FallbackIsEarned`: `FallbackEarned`, an action property: no counter in flash, in RAM or
  on its way is ahead of the boots that failed (`FailsCount`), unless a form crossed the
  count.

`BootAssumption` says which sets are parts of which and that limits are positive.

`Settings_proofs`: any slots, ids, controllers, requests and announcements.

- `TypeCorrect`: the type invariant.
- `ToldIsSet`: `ToldWhatIsSet`.  On a slot whose pushes nobody crossed, one copy of the
  settings is under way at most, and it is what the slot has or a fresher one is to come
  (`Carried`).
- `StoredIsSet`: `StoredAsSet`.  An id whose requests nobody crossed has one connection and
  one request.  The store agrees with the connection (`Agrees`): what an entry holds of its
  volume, its name or, after the entry made room, none; but for what that request, by its
  place in `remember_settings`, is about to put there (`Kept`).  A Hello starts from what is
  stored, whatever was crossed before it, which needs that what is stored fits (`Fitting`).
- `ListenerMissesNothing`: `NothingMissed`.

`SettingsAssumption` says that a task is a controller, a session or the voice task and not
two of them, that the values for "none" are nothing else, that the store has a place, that
the default fits an entry and that what is loaded at start-up does.

`RemoteRequest_proofs`: any number of callers, slots, clients and connections.

- `TypeCorrect`: the type invariant.
- `AnswersRight`: a successful call returns the answer of the client it asked to the
  request it made (`RightAnswer`).
- `RecordEmptyBetween`: the record is empty while the mutex is free (`EmptyBetween`).
- `AnswerInvariant`: the inductive invariant `AnswerInv` from which the three follow.
  `RightAnswer` speaks of calls that have returned; to be kept it needs to know what lies
  in the record before, and that in turn what is still on its way.  Only the holder of the
  mutex is in the middle of a request (`Alone`), the record is its own or empty
  (`RecordOwned`), ids are issued in order and one per request (`IdsIssued`), a slot is
  ready only while a connection holds it (`Seated`), before the request is sent nothing
  carries its id and a client that has gone is noted in the record (`NotSentYet`), and
  afterwards what carries the id belongs to this request, or the record is marked failed
  (`Matching`).  That mark is what makes it harmless that the slot may have a new occupant
  by the time the message is written.

Its assumptions are `RemoteAssumption` (ranges, and that -1 is no slot) and `NoWrap`: no
more requests are made than there are message ids, so that no answer is held back until
its id comes around again.  The source has 65535 ids.

`Announce_proofs`: any number of phones, descriptors, addresses and packets.

- `TypeCorrect`: the type invariant.
- `OwnerStaysOpen`: a running announcement belongs to the connection that started it, whose
  descriptor has not been closed (`OwnerOpen`).
- Both follow from the inductive invariant `OwnerInv`.  `OwnerOpen` is not inductive: one
  must know that a connection that was told of its end is not the owner any more, so that
  closing its descriptor takes nothing away (`NoStale`), that idle phones hold no
  descriptor, and that sessions are counted by the tries (`Counted`).  The lemma `FreeOne`
  shows that `accept` finds a free descriptor, by the pigeonhole principle: there are at
  least as many descriptors as phones, and one phone has none.
- `WatchdogsAreRight`: `WatchdogsRight`, an action property about a task that judges by a
  copy of the state and by packets that name no announcement.  Its invariant `WatchInv`
  (`WatchInvariant`) says that a copy with the number of the announcement that runs is one
  of it and as old as the round (`CopyRight`), that what carries its number comes from its
  owner's address (`FromOwner`), and that the task is at the newest packet received in
  order or has taken one as new (`TaskFollows`); what it took last, if of this
  announcement, is then what was received last.

Its assumption is `AnnounceAssumption`: ranges, finitely many phones and descriptors, and
the order of the limits.

### What is left to TLC

- Liveness (`QueuesDrain`, `SilentReaped`, `ReachesFlash`, `LateJoinerTold`, `AlwaysEnds`,
  `Recovers`, `Rejoins`, `ComesUp`): out of the prover's reach.
- That the exceptions the theorems make are needed.  `Settled` fails with eviction, which
  `store_lost` shows; `NoOrphan` with a full list and `NeverBack` without the task are only
  argued for, in `PROJECT.json`.

Every invariant and every action property that a passing run checks is a theorem, with the
hypotheses named above.
Type invariants that a theorem states are not always checked by a run as well; that of
`ChunkPool` is part of `CheckInv`.

## Not modelled, and what could come next

- Message framing of the server: `recv_all` and `recv_message` byte by byte over a socket
  that times out.  `Connections` has the outcomes of a send only.
- The adoption of a clock as the client table and the chunk ages see it (`snapserver.c:442`);
  `TimeSync` has it as the client sees it.  The statistics of `stats_task`.
- `voice_announce.c`: relays, priming, decoding, the encoder's complexity.  `audio_sink.c`:
  resampling, volume, equaliser, and the local capture path.
- Failing flash accesses and colliding keys in `client_store.c`; the blob of volumes in
  `device_config.c`.

Left out on purpose: signal processing and drivers (`audio_i2s.c`, `audio_opus.c`,
`audio_resample.c`: sample values and hardware timing), rendering and parsing of HTML and
JSON, the Wi-Fi mesh and lwIP themselves (libraries; modelled from how the source uses
them), pots, LED, pins and CPU statistics (no protocol and no shared state beyond a value),
the app's screens and discovery, the flasher and the mechanics.
