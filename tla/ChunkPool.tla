----------------------------- MODULE ChunkPool -----------------------------
(***************************************************************************)
(* The chunk fan-out of snapserver.c: audio_task writes every encoded      *)
(* frame into the next slot of a recycled pool and posts a reference to it *)
(* on the queue of each ready client; one sender_task per client slot      *)
(* takes references from its queue, copies the pool slot without a lock    *)
(* and sends the copy.  Nothing but the slot's sequence number, re-read    *)
(* after the copy, tells a sender that audio_task refilled the slot.       *)
(*                                                                         *)
(* Time is counted in frame periods (20 ms).  A chunk is identified by its *)
(* capture time: a slot whose ts and data differ holds the header of one   *)
(* chunk and the payload of another.                                       *)
(***************************************************************************)
EXTENDS Integers, Sequences

CONSTANTS
    Clients,     \* client slots; each has a queue and a sender task
    PoolSize,    \* CHUNK_POOL_SIZE
    QueueDepth,  \* CLIENT_TX_QUEUE_DEPTH
    MaxAge,      \* s_max_chunk_age_us, in frame periods
    MaxStall,    \* longest time between two looks at an age, in frame periods
    MaxChunk,    \* bound: chunks captured
    MaxTime,     \* bound: frame periods
    MaxSession   \* bound: connections a client slot serves

ASSUME PoolAssumption ==
    /\ PoolSize \in Nat \ {0}
    /\ QueueDepth \in Nat \ {0}
    /\ {MaxAge, MaxStall, MaxChunk, MaxTime, MaxSession} \subseteq Nat

VARIABLES
    now,      \* esp_timer_get_time()
    pool,     \* s_chunk_pool
    writePos, \* s_chunk_write
    written,  \* s_chunk_sequence
    captured, \* history: the capture time of every chunk numbered so far
    audio,    \* audio_task: where it is, the frame it handles, clients to post to
    conn,     \* what audio_task and the sender see of each slot's connection
    queue,    \* client_t.tx_queue
    sender,   \* sender_task of each slot: where it is and its private copy
    sent      \* the last chunk handed to the socket in the current connection

vars == <<now, pool, writePos, written, captured, audio, conn, queue, sender, sent>>

Slots    == 0 .. PoolSize - 1
Items    == [slot : Slots, seq : Nat, session : Nat]
Nothing  == [seq |-> 0, ts |-> 0, data |-> 0, session |-> 0]
NoItem   == [slot |-> 0, seq |-> 0, session |-> 0]
NoOwners == [c \in Clients |-> 0]
Ready(c) == conn[c].state = "ready"

Chunks      == [seq : Nat, ts : Nat, data : Nat]
AudioStates == [pc : {"capture", "header", "data", "publish", "post", "evict"},
                ts : Nat, todo : SUBSET Clients, full : SUBSET Clients,
                session : [Clients -> Nat]]
ConnStates  == [state : {"free", "accepted", "handshake", "ready", "failed"},
                session : Nat]
Copies      == [pc : {"idle", "age", "header", "data", "verify", "send", "wanted"},
                item : Items, ts : Nat, data : Nat, since : Nat]
Sendings    == [seq : Nat, ts : Nat, data : Nat, session : Nat]

TypeOK ==
    /\ now \in Nat
    /\ pool \in [Slots -> Chunks]
    /\ writePos \in Slots
    /\ written \in Nat
    /\ captured \in Seq(Nat)
    /\ audio \in AudioStates
    /\ conn \in [Clients -> ConnStates]
    /\ queue \in [Clients -> Seq(Items)]
    /\ sender \in [Clients -> Copies]
    /\ sent \in [Clients -> Sendings]

Init ==
    /\ now = 1
    /\ pool = [i \in Slots |-> [seq |-> 0, ts |-> 0, data |-> 0]]
    /\ writePos = 0
    /\ written = 0
    /\ captured = <<>>
    /\ audio = [pc |-> "capture", ts |-> 0, todo |-> {}, full |-> {}, session |-> NoOwners]
    /\ conn = [c \in Clients |-> [state |-> "free", session |-> 0]]
    /\ queue = [c \in Clients |-> <<>>]
    /\ sender = [c \in Clients |->
                   [pc |-> "idle", item |-> NoItem, ts |-> 0, data |-> 0, since |-> 0]]
    /\ sent = [c \in Clients |-> Nothing]

-----------------------------------------------------------------------------
(* Connections: accepted by server_task, made ready by client_session and    *)
(* closed by client_task.  Only their effect on the fan-out is kept here.    *)

\* server_task claims a free slot: active, not ready; the queue still holds
\* what the previous connection left.
Accept(c) ==
    /\ conn[c].state = "free"
    /\ conn[c].session < MaxSession
    /\ conn' = [conn EXCEPT ![c] = [state |-> "accepted", session |-> @.session + 1]]
    /\ sent' = [sent EXCEPT ![c] = Nothing]
    /\ UNCHANGED <<now, pool, writePos, written, captured, audio, queue, sender>>

\* Faulty variant: the queue is left as it is.
KeepQueue(c) ==
    /\ conn[c].state = "accepted"
    /\ conn' = [conn EXCEPT ![c].state = "handshake"]
    /\ UNCHANGED <<now, pool, writePos, written, captured, audio, queue, sender, sent>>

\* ... and resets the queue outside the critical section, then wakes client_task.
ResetQueue(c) ==
    /\ conn[c].state = "accepted"
    /\ conn' = [conn EXCEPT ![c].state = "handshake"]
    /\ queue' = [queue EXCEPT ![c] = <<>>]
    /\ UNCHANGED <<now, pool, writePos, written, captured, audio, sender, sent>>

\* client_session: Hello, ServerSettings and codec header are through.
BecomeReady(c) ==
    /\ conn[c].state = "handshake"
    /\ conn' = [conn EXCEPT ![c].state = "ready"]
    /\ UNCHANGED <<now, pool, writePos, written, captured, audio, queue, sender, sent>>

\* close_client: the slot is free for the next connection.
Close(c) ==
    /\ conn[c].state \in {"handshake", "ready", "failed"}
    /\ conn' = [conn EXCEPT ![c].state = "free"]
    /\ UNCHANGED <<now, pool, writePos, written, captured, audio, queue, sender, sent>>

-----------------------------------------------------------------------------
(* audio_task *)

\* audio_opus_get_packet returns a frame (at most one per period), then the
\* ready clients are collected under the lock.  Capture stops early enough
\* for the last chunk to grow too old within MaxTime.
Collect ==
    /\ audio.pc = "capture"
    /\ audio.ts < now
    /\ written < MaxChunk /\ now + MaxAge < MaxTime
    /\ audio' = [pc |-> "header", ts |-> now, full |-> {},
                 todo |-> {c \in Clients : Ready(c)},
                 session |-> [c \in Clients |-> IF Ready(c) THEN conn[c].session ELSE 0]]
    /\ UNCHANGED <<now, pool, writePos, written, captured, conn, queue, sender, sent>>

\* slot->size and slot->timestamp_us
FillHeader ==
    /\ audio.pc = "header"
    /\ pool' = [pool EXCEPT ![writePos].ts = audio.ts]
    /\ audio' = [audio EXCEPT !.pc = "data"]
    /\ UNCHANGED <<now, writePos, written, captured, conn, queue, sender, sent>>

\* memcpy(slot->data, ...)
FillData ==
    /\ audio.pc = "data"
    /\ pool' = [pool EXCEPT ![writePos].data = audio.ts]
    /\ audio' = [audio EXCEPT !.pc = "publish"]
    /\ UNCHANGED <<now, writePos, written, captured, conn, queue, sender, sent>>

\* Faulty variant: the slot's index serves as its sequence number.
PublishIndex ==
    /\ audio.pc = "publish"
    /\ pool' = [pool EXCEPT ![writePos].seq = writePos + 1]
    /\ written' = writePos + 1
    /\ captured' = Append(captured, audio.ts)
    /\ writePos' = IF writePos + 1 = PoolSize THEN 0 ELSE writePos + 1
    /\ audio' = [audio EXCEPT !.pc = IF audio.todo = {} THEN "capture" ELSE "post"]
    /\ UNCHANGED <<now, conn, queue, sender, sent>>

\* slot->sequence = ++s_chunk_sequence, last; then s_chunk_write moves on.
Publish ==
    /\ audio.pc = "publish"
    /\ pool' = [pool EXCEPT ![writePos].seq = written + 1]
    /\ written' = written + 1
    /\ captured' = Append(captured, audio.ts)
    /\ writePos' = IF writePos + 1 = PoolSize THEN 0 ELSE writePos + 1
    /\ audio' = [audio EXCEPT !.pc = IF audio.todo = {} THEN "capture" ELSE "post"]
    /\ UNCHANGED <<now, conn, queue, sender, sent>>

\* The reference audio_task posts for the chunk it has just published.
Reference(c) ==
    [slot |-> IF writePos = 0 THEN PoolSize - 1 ELSE writePos - 1,
     seq |-> written, session |-> audio.session[c]]

DonePosting(c) ==
    [audio EXCEPT !.todo = @ \ {c}, !.full = {}, !.session[c] = 0,
                  !.pc = IF audio.todo = {c} THEN "capture" ELSE "post"]

\* A sender that waits on an empty queue starts its time budget with the post.
Wake(c) ==
    sender' = IF sender[c].pc = "idle" /\ queue[c] = <<>>
              THEN [sender EXCEPT ![c].since = now] ELSE sender

\* xQueueSend succeeds.
Post(c) ==
    /\ audio.pc = "post"
    /\ c \in audio.todo
    /\ Len(queue[c]) < QueueDepth
    /\ queue' = [queue EXCEPT ![c] = Append(@, Reference(c))]
    /\ audio' = DonePosting(c)
    /\ Wake(c)
    /\ UNCHANGED <<now, pool, writePos, written, captured, conn, sent>>

\* xQueueSend finds the queue full; the sender may still take from it now.
QueueFull(c) ==
    /\ audio.pc = "post"
    /\ c \in audio.todo
    /\ Len(queue[c]) >= QueueDepth
    /\ audio' = [audio EXCEPT !.pc = "evict", !.full = {c}]
    /\ UNCHANGED <<now, pool, writePos, written, captured, conn, queue, sender, sent>>

\* Faulty variant: the newest reference jumps the queue.
EvictFront(c) ==
    /\ audio.pc = "evict"
    /\ c \in audio.full
    /\ queue' = [queue EXCEPT ![c] =
                   <<Reference(c)>> \o IF @ = <<>> THEN <<>> ELSE Tail(@)]
    /\ audio' = DonePosting(c)
    /\ Wake(c)
    /\ UNCHANGED <<now, pool, writePos, written, captured, conn, sent>>

\* Drop the oldest pending reference, then post the newest.
Evict(c) ==
    /\ audio.pc = "evict"
    /\ c \in audio.full
    /\ queue' = [queue EXCEPT ![c] =
                   Append(IF @ = <<>> THEN <<>> ELSE Tail(@), Reference(c))]
    /\ audio' = DonePosting(c)
    /\ Wake(c)
    /\ UNCHANGED <<now, pool, writePos, written, captured, conn, sent>>

-----------------------------------------------------------------------------
(* sender_task *)

At(c, pc)    == sender[c].pc = pc
SlotOf(c)    == pool[sender[c].item.slot]
Goto(c, pc)  == sender' = [sender EXCEPT ![c].pc = pc]
Idle(t)      == [pc |-> "idle", item |-> NoItem, ts |-> 0, data |-> 0, since |-> t]
Finish(c)    == sender' = [sender EXCEPT ![c] = Idle(now)]

\* xQueueReceive; a reference for a client that is not ready is thrown away.
Dequeue(c) ==
    /\ At(c, "idle")
    /\ queue[c] # <<>>
    /\ queue' = [queue EXCEPT ![c] = Tail(@)]
    /\ sender' = [sender EXCEPT ![c] =
                    IF Ready(c) THEN [Idle(now) EXCEPT !.pc = "age", !.item = Head(queue[c])]
                                ELSE Idle(now)]
    /\ UNCHANGED <<now, pool, writePos, written, captured, audio, conn, sent>>

\* The age of whatever timestamp the slot holds at this moment.
CheckAge(c) ==
    /\ At(c, "age")
    /\ IF now - SlotOf(c).ts > MaxAge
       THEN Finish(c)
       ELSE sender' = [sender EXCEPT ![c].pc = "header", ![c].since = now]
    /\ UNCHANGED <<now, pool, writePos, written, captured, audio, conn, queue, sent>>

\* send_wire_chunk reads timestamp and size ...
CopyHeader(c) ==
    /\ At(c, "header")
    /\ sender' = [sender EXCEPT ![c].ts = SlotOf(c).ts, ![c].pc = "data"]
    /\ UNCHANGED <<now, pool, writePos, written, captured, audio, conn, queue, sent>>

\* ... copies the payload ...
CopyData(c) ==
    /\ At(c, "data")
    /\ sender' = [sender EXCEPT ![c].data = SlotOf(c).data, ![c].pc = "verify"]
    /\ UNCHANGED <<now, pool, writePos, written, captured, audio, conn, queue, sent>>

\* ... and re-reads the sequence after copying.
Verify(c) ==
    /\ At(c, "verify")
    /\ IF SlotOf(c).seq = sender[c].item.seq THEN Goto(c, "send") ELSE Finish(c)
    /\ UNCHANGED <<now, pool, writePos, written, captured, audio, conn, queue, sent>>

\* client_send_frame: the whole chunk is out.
SendDone(c) ==
    /\ At(c, "send")
    /\ Ready(c)
    /\ sent' = [sent EXCEPT ![c] = [seq |-> sender[c].item.seq, ts |-> sender[c].ts,
                                    data |-> sender[c].data,
                                    session |-> sender[c].item.session]]
    /\ Finish(c)
    /\ UNCHANGED <<now, pool, writePos, written, captured, audio, conn, queue>>

\* CHUNK_BUSY: the socket took nothing, or the send mutex was not to be had.
SendBusy(c) ==
    /\ At(c, "send")
    /\ Goto(c, "wanted")
    /\ UNCHANGED <<now, pool, writePos, written, captured, audio, conn, queue, sent>>

\* The send failed, or the slot is no longer ready: mark_client_failed takes
\* down whatever connection the slot holds by then.
SendFailed(c) ==
    /\ At(c, "send")
    /\ Finish(c)
    /\ conn' = IF conn[c].state = "free" THEN conn
               ELSE [conn EXCEPT ![c].state = "failed"]
    /\ UNCHANGED <<now, pool, writePos, written, captured, audio, queue, sent>>

\* Faulty variant: the retry repeats the send without looking at the age.
RetrySend(c) ==
    /\ At(c, "wanted")
    /\ IF Ready(c) THEN Goto(c, "send") ELSE Finish(c)
    /\ UNCHANGED <<now, pool, writePos, written, captured, audio, conn, queue, sent>>

\* still_wanted, then SEND_RETRY_DELAY_MS and another round.
StillWanted(c) ==
    /\ At(c, "wanted")
    /\ IF Ready(c)
       THEN sender' = [sender EXCEPT ![c] = [@ EXCEPT !.pc = "age", !.ts = 0, !.data = 0]]
       ELSE Finish(c)
    /\ UNCHANGED <<now, pool, writePos, written, captured, audio, conn, queue, sent>>

-----------------------------------------------------------------------------
\* A frame period passes.  What a sender does between two looks at an age ends
\* by its timeouts: it waits for the send mutex (SEND_MUTEX_WAIT_MS), send()
\* gives up a message (CLIENT_SEND_TIMEOUT_US) or has taken part of it
\* (PARTIAL_SEND_LIMIT_US), and a refused one sleeps for SEND_RETRY_DELAY_MS.
\* MaxStall is what they allow; the theorems hold however large it is.
Tick ==
    /\ now < MaxTime
    /\ \A c \in Clients :
         (At(c, "idle") /\ queue[c] = <<>>) \/ now - sender[c].since < MaxStall
    /\ now' = now + 1
    /\ UNCHANGED <<pool, writePos, written, captured, audio, conn, queue, sender, sent>>

Connection(c) == Accept(c) \/ ResetQueue(c) \/ BecomeReady(c) \/ Close(c)

Audio ==
    \/ Collect \/ FillHeader \/ FillData \/ Publish
    \/ \E c \in Clients : Post(c) \/ QueueFull(c) \/ Evict(c)

Sender(c) ==
    \/ Dequeue(c) \/ CheckAge(c) \/ CopyHeader(c) \/ CopyData(c) \/ Verify(c)
    \/ SendDone(c) \/ SendBusy(c) \/ SendFailed(c) \/ StillWanted(c)

Next ==
    \/ Tick
    \/ Audio
    \/ \E c \in Clients : Connection(c) \/ Sender(c)

Spec == Init /\ [][Next]_vars

\* The tasks run and time passes; what a peer does to its connection is free.
FairSpec ==
    /\ Spec
    /\ WF_vars(Tick) /\ WF_vars(Audio)
    /\ \A c \in Clients : WF_vars(Sender(c))

-----------------------------------------------------------------------------
(* Properties *)

\* The slot audio_task is rewriting right now, if any.
Refilling(i) == audio.pc \in {"data", "publish"} /\ writePos = i

\* Whatever the timing: a copy that passed the sequence check while its slot
\* is not being rewritten is one whole chunk, the one the reference names, so
\* the check can only be fooled by a refill in progress (send_wire_chunk).
CheckFooledOnlyByRefill ==
    \A c \in Clients :
        At(c, "verify") /\ SlotOf(c).seq = sender[c].item.seq
            => \/ Refilling(sender[c].item.slot)
               \/ /\ sender[c].ts = SlotOf(c).ts
                  /\ sender[c].data = SlotOf(c).data
                  /\ sender[c].ts = sender[c].data

\* Why it holds, as an inductive invariant: sequence numbers are issued in
\* order and never again (audio_task), ...
SequencesIssued ==
    /\ \A i \in Slots : pool[i].seq <= written
    /\ \A c \in Clients :
         /\ sender[c].item.seq <= written
         /\ \A k \in 1 .. Len(queue[c]) : queue[c][k].seq <= written

\* ... a slot is half written only between its two writes (audio_task), ...
SlotsWhole ==
    \A i \in Slots : \/ audio.pc = "data" /\ writePos = i
                     \/ pool[i].ts = pool[i].data

\* ... where it carries the capture time of the new frame (audio_task), ...
HeaderIsNewest == audio.pc = "data" => pool[writePos].ts = audio.ts

\* ... and a copy equals its slot for as long as the sequence number is the
\* reference's and no refill is under way (send_wire_chunk).
CopiesFaithful ==
    \A c \in Clients :
        /\ sender[c].pc \in {"data", "verify"}
        /\ SlotOf(c).seq = sender[c].item.seq
        /\ ~Refilling(sender[c].item.slot)
        => /\ sender[c].ts = SlotOf(c).ts
           /\ At(c, "verify") => sender[c].data = SlotOf(c).data

CheckInv ==
    TypeOK /\ SequencesIssued /\ SlotsWhole /\ HeaderIsNewest /\ CopiesFaithful

\* The fan-out gives every listener a LiveStream, for any sizes and stalls: the
\* chunks its references name, in capture order and none twice within a
\* connection, however references are evicted, retried or skipped; each whole
\* and no later than the age limit and one stall, unless the listener is so far
\* behind that audio_task is rewriting the slot (audio_task, sender_task).
CaptureOf(n) == IF n = 0 THEN 0 ELSE captured[n]

Stream == INSTANCE LiveStream WITH
    Listeners <- Clients, MaxLateness <- MaxAge + MaxStall, Lap <- PoolSize,
    time <- now, newest <- audio.ts,
    heard <- [c \in Clients |-> [ts |-> sent[c].ts, data |-> sent[c].data,
                                 of |-> CaptureOf(sent[c].seq)]]
IsLiveStream == Stream!Spec

\* What a slot's previous connection left behind "cannot be sent to the new
\* occupant" (server_task), but for the chunk the sender is at and the one reference
\* audio_task was about to post when the queue was reset.
FewStale ==
    \A c \in Clients :
        conn[c].state \in {"handshake", "ready"}
            => \A i, j \in 1 .. Len(queue[c]) :
                   /\ queue[c][i].session # conn[c].session
                   /\ queue[c][j].session # conn[c].session
                   => i = j

\* Nobody holds on to a chunk for ever, not even the sender of a socket that
\* takes nothing: every reference is sent, evicted or given up for its age.
QueuesDrain == \A c \in Clients : []<>(At(c, "idle") /\ queue[c] = <<>>)
=============================================================================
