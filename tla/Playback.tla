------------------------------ MODULE Playback ------------------------------
(***************************************************************************)
(* The client's playback (audio_sink.c): snap_task feeds decoded chunks    *)
(* into the ring and keeps the timeline's labels, player_task arbitrates   *)
(* between the sources and plays the ring on schedule.  They meet at the   *)
(* ring's lock and at a few unlocked flags.                                *)
(*                                                                         *)
(* A stamp is kept as the time until its sample is due (negative: overdue),*)
(* so the label of the head is the scheduling error itself and everything  *)
(* moves when time passes or the clock offset changes.  Times and amounts  *)
(* of audio have one unit; the fine control by resampling, the staging     *)
(* buffer's one sample of lookahead and the volume are below it.           *)
(***************************************************************************)
EXTENDS Integers

CONSTANTS
    Frame,      \* AUDIO_SINK_FRAME_SAMPLES
    Chunk,      \* audio in one WireChunk
    Capacity,   \* of the ring
    Prebuffer,  \* NETWORK_PREBUFFER_PERCENT of the buffer
    Discont,    \* STREAM_DISCONTINUITY_US
    Restart,    \* STREAM_RESTART_US
    Hard,       \* HARD_RESYNC_THRESHOLD_US
    Soft,       \* SOFT_RESYNC_THRESHOLD_US
    SoftFrames, \* SOFT_RESYNC_FRAMES
    Gaps,       \* how a chunk's stamp may differ from the end of the last one
    Arrivals,   \* stamps a chunk may have that begins a timeline
    Steps,      \* how the clock offset, the buffer or the delay may change
    MaxLead,    \* bound: a chunk comes at most this long before it is due, and
                \* no frame is taken that is early by more than a ring on top
    MaxLate,    \* bound: how overdue buffered audio may get
    MaxSlow,    \* bound: frames that go out while one chunk is fed
    MaxConn     \* bound: connections

SizesFit ==
    /\ {Frame, Chunk, Capacity, Prebuffer, SoftFrames} \subseteq Nat \ {0}
    /\ {Discont, Restart, Hard, Soft, MaxLead, MaxLate, MaxSlow, MaxConn} \subseteq Nat
    /\ Prebuffer <= Capacity /\ Soft < Hard /\ Discont < Restart
    /\ Gaps \subseteq Int /\ Arrivals \subseteq -MaxLate .. MaxLead /\ Steps \subseteq Int

ASSUME PlaybackAssumption == SizesFit

VARIABLES
    ring,   \* s_ring's fill, s_head_ts_us, s_next_chunk_ts_us, s_pending_gap_us
    feed,   \* snap_task in audio_sink_feed_network
    play,   \* player_task within one frame
    ctl,    \* the player's statics
    live,   \* s_network_active, s_server_offset_valid, and connections so far
    ready,  \* s_network_ready
    jump,   \* s_shift_snap_pending
    echo,   \* frames in a row that were played off the schedule (bookkeeping)
    raced   \* the label was taken in one of its three races (bookkeeping)
sinkVars == <<ring, feed, play, ctl, live, ready, jump, echo, raced>>

\* An error read while the offset is being written: half of a 64-bit stamp is
\* wrong, which is over an hour and more than any size here.
Far == Frame + Capacity + Hard + 1000

Smaller(a, b) == IF a < b THEN a ELSE b

\* The bounds keep the stamps finite, but the code has none for them.
SinkTypeOK ==
    /\ ring \in [fill : 0 .. Capacity, valid : BOOLEAN, head : Int, next : Int, pend : -Discont .. Discont]
    /\ feed \in [pc : {"idle", "write", "label"}, ts : Int, got : 0 .. Chunk, slow : 0 .. MaxSlow]
    /\ play \in [pc : {"top", "flush", "look", "snap", "decide", "skip", "pull", "advance", "out", "under"},
                 err : Int, sync : BOOLEAN, snap : BOOLEAN, silent : 0 .. Frame, got : 0 .. Frame]
    /\ ctl \in [src : {"none", "network", "local"}, holding : BOOLEAN, off : 0 .. SoftFrames]
    /\ live \in [active : BOOLEAN, sync : {"no", "yes", "writing"}, conns : 0 .. MaxConn]
    /\ ready \in BOOLEAN /\ jump \in BOOLEAN /\ echo \in 0 .. SoftFrames + 1 /\ raced \in BOOLEAN

AtTop == [pc |-> "top", err |-> 0, sync |-> FALSE, snap |-> FALSE, silent |-> 0, got |-> 0]
Idle  == [pc |-> "idle", ts |-> 0, got |-> 0, slow |-> 0]

SinkInit ==
    /\ ring = [fill |-> 0, valid |-> FALSE, head |-> 0, next |-> 0, pend |-> 0]
    /\ feed = Idle
    /\ play = AtTop
    /\ ctl = [src |-> "none", holding |-> FALSE, off |-> 0]
    /\ live = [active |-> FALSE, sync |-> "no", conns |-> 0]
    /\ ready = FALSE /\ jump = FALSE /\ echo = 0 /\ raced = FALSE

-----------------------------------------------------------------------------
(* snap_task.                                                               *)

\* connection_loop begins; the offset of the last connection is dropped.
Activate ==
    /\ ~live.active /\ live.conns < MaxConn /\ live.sync # "writing"
    /\ live' = [active |-> TRUE, sync |-> "no", conns |-> live.conns + 1]
    /\ UNCHANGED <<ring, feed, play, ctl, ready, jump>>

\* ... and ends.
Deactivate ==
    /\ live.active /\ feed.pc = "idle" /\ live.sync # "writing"
    /\ live' = [live EXCEPT !.active = FALSE]
    /\ UNCHANGED <<ring, feed, play, ctl, ready, jump>>

Unlabelled == ~ring.valid \/ ring.fill = 0

Anchored(r, ts) == [r EXCEPT !.valid = TRUE, !.head = ts, !.pend = 0]

\* The stamp is compared with the end of the last chunk, under the lock.
FeedCheck ==
    /\ live.active /\ feed.pc = "idle" /\ live.sync # "writing"
    /\ \E ts \in IF Unlabelled THEN Arrivals ELSE {ring.next + g : g \in Gaps} :
         LET g == ts - ring.next
             p == ring.pend + g
             restart == ~Unlabelled /\ (g > Restart \/ g < -Restart)
             shift   == ~Unlabelled /\ ~restart /\ (p > Discont \/ p < -Discont)
         IN
         /\ ts \in -MaxLate .. MaxLead
         /\ ring' = CASE Unlabelled -> Anchored(ring, ts)
                      [] restart    -> Anchored([ring EXCEPT !.fill = 0], ts)
                      [] shift      -> [ring EXCEPT !.head = @ + p, !.pend = 0]
                      [] OTHER      -> [ring EXCEPT !.pend = p]
         /\ ready' = (ready /\ ~restart)
         /\ jump' = IF restart THEN FALSE ELSE jump \/ shift
         /\ feed' = [Idle EXCEPT !.pc = "write", !.ts = ts]
    /\ UNCHANGED <<play, ctl, live>>

\* Mutant: what does not fit is written all the same.
FeedWriteAll ==
    /\ feed.pc = "write"
    /\ ring' = [ring EXCEPT !.fill = @ + Chunk]
    /\ feed' = [feed EXCEPT !.pc = "label", !.got = Chunk]
    /\ UNCHANGED <<play, ctl, live, ready, jump>>

\* ring_write: what does not fit is dropped.
FeedWrite ==
    /\ feed.pc = "write"
    /\ LET n == Smaller(Chunk, Capacity - ring.fill)
       IN /\ ring' = [ring EXCEPT !.fill = @ + n]
          /\ feed' = [feed EXCEPT !.pc = "label", !.got = n]
    /\ UNCHANGED <<play, ctl, live, ready, jump>>

\* Mutant: the chunk counts as written although part of it was dropped.
FeedLabelWhole ==
    /\ feed.pc = "label"
    /\ ring' = [ring EXCEPT !.next = feed.ts + Chunk]
    /\ feed' = Idle
    /\ UNCHANGED <<play, ctl, live, ready, jump>>

FeedLabel ==
    /\ feed.pc = "label"
    /\ ring' = [ring EXCEPT !.next = feed.ts + feed.got]
    /\ feed' = Idle
    /\ UNCHANGED <<play, ctl, live, ready, jump>>

\* Everything is due later by d: the offset, the buffer or the delay moved.
Moved(r, d) == [r EXCEPT !.head = @ + d, !.next = @ + d]

\* audio_sink_set_server_time_offset: 64 bits without a lock on a 32-bit CPU ...
OffsetBegin ==
    /\ live.active /\ feed.pc = "idle" /\ live.sync # "writing"
    /\ live' = [live EXCEPT !.sync = "writing"]
    /\ UNCHANGED <<ring, feed, play, ctl, ready, jump>>

\* ... until the flag is set.
OffsetEnd ==
    /\ live.sync = "writing"
    /\ \E d \in Steps :
         /\ ring.next + d \in -MaxLate .. MaxLead /\ ring.head + d \in -MaxLate .. MaxLead
         /\ ring' = Moved(ring, d)
    /\ live' = [live EXCEPT !.sync = "yes"]
    /\ UNCHANGED <<feed, play, ctl, ready, jump>>

\* audio_sink_set_stream_timing, audio_sink_set_delay_trim_ms.
Retime ==
    /\ live.active /\ feed.pc = "idle" /\ live.sync # "writing"
    /\ \E d \in Steps \ {0} :
         /\ ring.next + d \in -MaxLate .. MaxLead /\ ring.head + d \in -MaxLate .. MaxLead
         /\ ring' = Moved(ring, d)
    /\ jump' = TRUE
    /\ UNCHANGED <<feed, play, ctl, live, ready>>

-----------------------------------------------------------------------------
(* player_task, frame by frame.                                             *)

\* network_source_or_none.
Prebuffered == ready \/ ring.fill >= Prebuffer
NetworkSource ==
    IF live.active /\ (ctl.src = "network" \/ Prebuffered) THEN "network" ELSE "none"
ReadyAfter == live.active /\ (ready \/ (ctl.src # "network" /\ Prebuffered))

\* decide_source: the local input is asked for by the mode or by its signal.
\* Only a network source that is lost is flushed.
Arbitrate ==
    /\ play.pc = "top"
    /\ \E local \in BOOLEAN :
         LET desired == IF local THEN "local" ELSE NetworkSource
             lost    == ctl.src = "network" /\ desired = "none"
         IN
         /\ ctl' = [ctl EXCEPT !.src = IF lost THEN @ ELSE desired]
         /\ ready' = IF local THEN ready ELSE ReadyAfter
         /\ play' = [play EXCEPT !.pc = CASE lost                -> "flush"
                                          [] desired = "network" -> "look"
                                          [] desired = "local"   -> "under"
                                          [] OTHER               -> "out"]
    /\ UNCHANGED <<ring, feed, live, jump>>

Flush ==
    /\ play.pc = "flush"
    /\ ring' = [ring EXCEPT !.fill = 0, !.valid = FALSE]
    /\ ctl' = [ctl EXCEPT !.src = "none"]
    /\ play' = [play EXCEPT !.pc = "out"]
    /\ UNCHANGED <<feed, live, ready, jump>>

\* Under the local input the stream runs on unheard, unless nothing could be
\* captured.
Under ==
    /\ play.pc = "under"
    /\ \E captured \in BOOLEAN :
         /\ ready' = IF captured THEN ReadyAfter ELSE ready
         /\ play' = [play EXCEPT !.pc = IF captured /\ NetworkSource = "network" THEN "look" ELSE "out"]
    /\ UNCHANGED <<ring, feed, ctl, live, jump>>

\* scheduling_error_us.
Look ==
    /\ play.pc = "look"
    /\ \E e \in IF live.sync = "writing" THEN {ring.head, Far, -Far} ELSE {ring.head} :
         LET known == live.sync # "no" /\ ring.valid
         IN play' = [play EXCEPT !.sync = known, !.err = IF known THEN e ELSE 0,
                                 !.pc = IF known THEN "snap" ELSE "pull"]
    /\ ctl' = [ctl EXCEPT !.holding = @ /\ live.sync # "no" /\ ring.valid]
    /\ UNCHANGED <<ring, feed, live, ready, jump>>

ReadSnap ==
    /\ play.pc = "snap"
    /\ play' = [play EXCEPT !.snap = jump, !.pc = "decide"]
    /\ UNCHANGED <<ring, feed, ctl, live, ready, jump>>

Off(e) == e > Soft \/ e < -Soft

\* Mutant: the count of frames that are off starts anew with every frame.
OffCountNever(c, e) == IF Off(e) THEN 1 ELSE 0

\* Frames in a row that were off.
OffCount(c, e) == IF Off(e) THEN Smaller(c + 1, SoftFrames) ELSE 0

\* render_network_frame: hold, skip or play.
Decide ==
    LET e    == play.err
        n    == OffCount(ctl.off, e)
        step == IF play.snap \/ n >= SoftFrames THEN 0 ELSE Hard
        hold == e > step \/ (ctl.holding /\ e > 0)
        late == ~hold /\ e < -step
    IN
    /\ play.pc = "decide"
    /\ jump' = FALSE
    /\ ctl' = [ctl EXCEPT !.off = IF play.snap \/ n >= SoftFrames THEN 0 ELSE n,
                          !.holding = hold /\ e >= Frame]
    /\ play' = [play EXCEPT !.silent = IF hold /\ e < Frame THEN e ELSE 0, !.snap = FALSE,
                            !.pc = CASE hold /\ e >= Frame -> "out"
                                     [] late               -> "skip"
                                     [] OTHER              -> "pull"]
    /\ UNCHANGED <<ring, feed, live, ready>>

\* timeline_resync_late.
Skip ==
    /\ play.pc = "skip"
    /\ LET n == Smaller(-play.err, ring.fill)
       IN /\ ring' = [ring EXCEPT !.fill = @ - n, !.head = @ + n]
    /\ play' = [play EXCEPT !.pc = "pull", !.err = 0]
    /\ UNCHANGED <<feed, ctl, live, ready, jump>>

\* ring_read; what is missing is filled up with silence.
Pull ==
    /\ play.pc = "pull" /\ ring.head <= MaxLead + Capacity
    /\ LET n == Smaller(Frame - play.silent, ring.fill)
       IN /\ ring' = [ring EXCEPT !.fill = @ - n]
          /\ play' = [play EXCEPT !.pc = "advance", !.got = n]
    /\ UNCHANGED <<feed, ctl, live, ready, jump>>

\* The timeline follows what leaves the resampler.
Advance ==
    /\ play.pc = "advance"
    /\ ring' = [ring EXCEPT !.head = @ + Frame - play.silent]
    /\ play' = [AtTop EXCEPT !.pc = "out"]
    /\ UNCHANGED <<feed, ctl, live, ready, jump>>

\* The labels of an empty ring are not compared with anything any more.
Dry(r) == [r EXCEPT !.head = IF r.head < -MaxLate THEN -MaxLate ELSE r.head, !.next = 0, !.pend = 0]

\* The frame goes out, which takes its time.
Write ==
    /\ play.pc = "out"
    /\ ring.fill > 0 => ring.head - Frame >= -MaxLate /\ ring.next - Frame >= -MaxLate
    /\ feed.pc # "idle" => feed.ts - Frame >= -MaxLate /\ feed.slow < MaxSlow
    /\ ring' = IF ring.fill = 0 /\ feed.pc = "idle" THEN Dry(Moved(ring, -Frame)) ELSE Moved(ring, -Frame)
    /\ feed' = IF feed.pc = "idle" THEN feed ELSE [feed EXCEPT !.ts = @ - Frame, !.slow = @ + 1]
    /\ play' = AtTop
    /\ UNCHANGED <<ctl, live, ready, jump>>

Player == Arbitrate \/ Flush \/ Under \/ Look \/ ReadSnap \/ Decide \/ Skip \/ Pull \/ Advance \/ Write
Feeder == Activate \/ Deactivate \/ FeedCheck \/ FeedWrite \/ FeedLabel \/ OffsetBegin \/ OffsetEnd \/ Retime

\* What a frame plays behind its silence is off by what the silence left.  A
\* frame that is silent, or not placed by the schedule, ends a row of echoes, and
\* so does a ring that runs dry: that is heard anyway.
Echo ==
    CASE play.pc = "pull" -> IF play.sync /\ play'.got > 0 /\ Off(ring.head - play.silent)
                             THEN Smaller(echo + 1, SoftFrames + 1) ELSE 0
      [] play.pc = "decide" /\ play'.pc = "out" -> 0
      [] play.pc = "skip" /\ ring'.fill = 0 -> 0
      [] OTHER -> echo

\* The label is set anew; the chunk that is in the ring, or the frame that is on
\* its way out, is an older one.
Reanchored == feed.pc = "idle" /\ feed'.pc = "write" /\ ring'.pend = 0 /\ (Unlabelled \/ ring'.fill # ring.fill)
\* The ring ran dry between the comparison and the write.
DriedUp == play.pc = "pull" /\ play'.pc = "advance" /\ feed.pc = "write" /\ play'.got < Frame - play.silent

Raced == IF Reanchored THEN play.pc = "advance" \/ ring'.fill # 0 ELSE raced \/ DriedUp

SinkNext ==
    \/ Player /\ echo' = Echo /\ raced' = Raced
    \/ Feeder /\ echo' = (IF ring'.head # ring.head THEN 0 ELSE echo) /\ raced' = Raced

SinkSpec == SinkInit /\ [][SinkNext]_sinkVars

-----------------------------------------------------------------------------
\* Audio the player took from the ring before it moved the timeline.
Taken == IF play.pc = "advance" THEN play.got ELSE 0

\* How far the labels of the buffered audio are from the stamps it came with.
LabelError == ring.head + Taken + ring.fill - (ring.next - ring.pend)

Labelled == feed.pc = "idle" /\ ring.valid /\ ring.fill > 0

(* The label of the head and the amount that is buffered agree with the    *)
(* stamp the last chunk ended at: chunks that are dropped in part, gaps    *)
(* that are collected, shifts, restarts, skipped and held frames and       *)
(* changes of the clock keep it exact, save for the three races: the ring  *)
(* runs dry between the comparison and the write of a chunk, a chunk is    *)
(* written to a ring that was flushed after its comparison, or the label   *)
(* is set while a frame is between its reading and its advance.            *)
LabelExact == Labelled /\ ~raced => LabelError = 0

(* An error that would be an echo next to the other speakers is not left   *)
(* to the slow fine control: after a shift, a new offset or a new buffer,  *)
(* never more than SoftFrames frames in a row are played off by more than  *)
(* Soft, although the flag that announces the shift may be lost between    *)
(* its reading and its clearing and the offset be read half-written.       *)
EchoBrief == echo <= SoftFrames
=============================================================================
