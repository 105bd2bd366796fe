---------------------------- MODULE Connections ----------------------------
(***************************************************************************)
(* The client table of snapserver.c: server_task claims a slot for every   *)
(* accepted socket, the slot's permanent client_task runs the handshake    *)
(* and the receive loop and alone closes the socket; client_task,          *)
(* sender_task and the tasks that push settings write to it under the      *)
(* slot's send mutex; mark_client_failed, called by any of them without    *)
(* that mutex, shuts a connection down in two steps.                       *)
(*                                                                         *)
(* Connections are numbered in the order they are accepted.  A descriptor  *)
(* names the connection it is open for, and is handed out again once it is *)
(* closed.                                                                 *)
(***************************************************************************)
EXTENDS Integers, FiniteSets

CONSTANTS
    Slots,   \* s_clients
    Fds,     \* socket descriptors
    Ids,     \* client ids found in Hello messages
    NoFd,    \* -1
    NoId,    \* the empty id of a client that has not said Hello
    Writers, \* who writes to a slot's socket: "task", "sender" and "push"
    MaxConn, \* bound: connections made
    MaxDead  \* bound: peers that vanish

ASSUME TableAssumption ==
    /\ MaxConn \in Nat /\ MaxDead \in Nat
    /\ "task" \in Writers /\ Writers \subseteq {"task", "sender", "push"}
    /\ NoFd \notin Fds /\ NoId \notin Ids

VARIABLES
    made,   \* connections made so far
    conn,   \* every connection's socket and what is on its wire
    open,   \* the connection each descriptor is open for, 0 for none
    slot,   \* client_t
    task,   \* client_task of each slot: where it is, its fd, clients to kick
    writer, \* the writers of each slot's socket and what they write
    mutex,  \* client_t.send_mutex: its holder
    mark    \* the mark_client_failed calls under way

vars == <<made, conn, open, slot, task, writer, mutex, mark>>

Conns   == 1 .. MaxConn
Free    == "free"
Markers == {"sender", "task", "stats"} \X Slots

FreshConn == [state |-> "none", quiet |-> FALSE, got |-> {}]
FreeSlot  == [active |-> FALSE, ready |-> FALSE, fd |-> NoFd, id |-> NoId, silent |-> FALSE]
IdleWrite == [pc |-> "idle", msg |-> "none", fd |-> NoFd, conn |-> 0]
IdleMark(s) == [pc |-> "idle", slot |-> s, fd |-> NoFd]

ConnRecs   == [state : {"none", "open", "shut", "closed"}, quiet : BOOLEAN,
               got : SUBSET {"settings", "codec", "reply", "chunk"}]
SlotRecs   == [active : BOOLEAN, ready : BOOLEAN, fd : Fds \cup {NoFd}, id : Ids \cup {NoId},
               silent : BOOLEAN]
TaskRecs   == [pc : {"parked", "hello", "kick", "settings", "codec", "ready", "loop", "reply",
                     "close", "shut"},
               fd : Fds \cup {NoFd}, kick : SUBSET Slots, woken : BOOLEAN]
WriterRecs == [pc : {"idle", "have", "write", "busy"},
               msg : {"none", "settings", "codec", "reply", "chunk"},
               fd : Fds \cup {NoFd}, conn : 0 .. MaxConn]
MarkRecs   == [pc : {"idle", "lock", "shutdown"}, slot : Slots, fd : Fds \cup {NoFd}]

TypeOK ==
    /\ made \in 0 .. MaxConn
    /\ conn \in [Conns -> ConnRecs]
    /\ open \in [Fds -> 0 .. MaxConn]
    /\ slot \in [Slots -> SlotRecs]
    /\ task \in [Slots -> TaskRecs]
    /\ writer \in [Slots -> [Writers -> WriterRecs]]
    /\ mutex \in [Slots -> Writers \cup {"close", Free}]
    /\ mark \in [Markers -> MarkRecs]

Init ==
    /\ made = 0
    /\ conn = [c \in Conns |-> FreshConn]
    /\ open = [f \in Fds |-> 0]
    /\ slot = [s \in Slots |-> FreeSlot]
    /\ task = [s \in Slots |-> [pc |-> "parked", fd |-> NoFd, kick |-> {}, woken |-> FALSE]]
    /\ writer = [s \in Slots |-> [w \in Writers |-> IdleWrite]]
    /\ mutex = [s \in Slots |-> Free]
    /\ mark = [m \in Markers |-> IdleMark(m[2])]

ConnOf(s)  == IF slot[s].active THEN open[slot[s].fd] ELSE 0
At(s, pc)  == task[s].pc = pc
Goto(s, pc) == task' = [task EXCEPT ![s].pc = pc]

-----------------------------------------------------------------------------
(* server_task *)

\* One turn of the accept loop: the first free slot is claimed, its fields are
\* set back and its client_task is woken.
Accept(s, f) ==
    /\ made < MaxConn
    /\ open[f] = 0
    /\ ~slot[s].active
    /\ made' = made + 1
    /\ conn' = [conn EXCEPT ![made + 1].state = "open"]
    /\ open' = [open EXCEPT ![f] = made + 1]
    /\ slot' = [slot EXCEPT ![s] = [FreeSlot EXCEPT !.active = TRUE, !.fd = f,
                                                    !.silent = slot[s].silent]]
    /\ task' = [task EXCEPT ![s].woken = TRUE]
    /\ UNCHANGED <<writer, mutex, mark>>

\* All slots occupied: the socket is closed again.
Reject ==
    /\ made < MaxConn
    /\ \E f \in Fds : open[f] = 0
    /\ \A s \in Slots : slot[s].active
    /\ made' = made + 1
    /\ conn' = [conn EXCEPT ![made + 1].state = "closed"]
    /\ UNCHANGED <<open, slot, task, writer, mutex, mark>>

-----------------------------------------------------------------------------
(* The peers *)

\* The peer vanishes without closing: nothing more is heard from it.
PeerDies(c) ==
    /\ conn[c].state = "open"
    /\ Cardinality({d \in Conns : conn[d].quiet}) < MaxDead
    /\ conn' = [conn EXCEPT ![c].quiet = TRUE]
    /\ UNCHANGED <<made, open, slot, task, writer, mutex, mark>>

\* CLIENT_SILENCE_LIMIT_US has passed since the last message.
FallSilent(s) ==
    /\ slot[s].active /\ conn[ConnOf(s)].quiet
    /\ slot' = [slot EXCEPT ![s].silent = TRUE]
    /\ UNCHANGED <<made, conn, open, task, writer, mutex, mark>>

-----------------------------------------------------------------------------
(* mark_client_failed *)

\* Under the lock: the slot is no longer ready; its descriptor is copied.
MarkLock(m) ==
    LET s == mark[m].slot IN
    /\ mark[m].pc = "lock"
    /\ slot' = [slot EXCEPT ![s].ready = FALSE]
    /\ mark' = IF slot[s].active
               THEN [mark EXCEPT ![m].pc = "shutdown", ![m].fd = slot[s].fd]
               ELSE [mark EXCEPT ![m] = IdleMark(m[2])]
    /\ UNCHANGED <<made, conn, open, task, writer, mutex>>

\* Faulty variant: the socket is left to the client_task to close.
MarkOnly(m) ==
    /\ mark[m].pc = "shutdown"
    /\ mark' = [mark EXCEPT ![m] = IdleMark(m[2])]
    /\ UNCHANGED <<made, conn, open, slot, task, writer, mutex>>

\* After the lock: shutdown(fd), whatever the descriptor is open for by now.
MarkShutdown(m) ==
    LET c == open[mark[m].fd] IN
    /\ mark[m].pc = "shutdown"
    /\ conn' = IF c = 0 THEN conn
               ELSE [conn EXCEPT ![c].state = "shut"]
    /\ mark' = [mark EXCEPT ![m] = IdleMark(m[2])]
    /\ UNCHANGED <<made, open, slot, task, writer, mutex>>

\* stats_task finds a ready client silent for too long.
StatsLook(s) ==
    /\ \A t \in Slots : mark[<<"stats", t>>].pc = "idle"
    /\ slot[s].active /\ slot[s].ready /\ slot[s].silent
    /\ mark' = [mark EXCEPT ![<<"stats", s>>] = [IdleMark(s) EXCEPT !.pc = "lock"]]
    /\ UNCHANGED <<made, conn, open, slot, task, writer, mutex>>

-----------------------------------------------------------------------------
(* Writing: client_send_msg and client_send_frame under the send mutex *)

\* Whether the message may go out now: a chunk only to a ready client.
Allowed(s, w) == slot[s].active /\ (writer[s][w].msg = "chunk" => slot[s].ready)

\* The mutex is taken, the slot's descriptor read and the first byte queued
\* behind whatever is on the wire.
BeginWrite(s, w) ==
    /\ writer[s][w].pc = "have"
    /\ mutex[s] = Free
    /\ Allowed(s, w)
    /\ mutex' = [mutex EXCEPT ![s] = w]
    /\ writer' = [writer EXCEPT ![s][w] = [@ EXCEPT !.pc = "write", !.fd = slot[s].fd,
                                                    !.conn = ConnOf(s)]]
    /\ UNCHANGED <<made, conn, open, slot, task, mark>>

\* Faulty variant: a handshake message that met a taken mutex counts as sent.
OutcomeNegative(s, w, rc) ==
    /\ \/ /\ w = "task" /\ At(s, "settings")
          /\ Goto(s, IF rc >= 0 THEN "codec" ELSE "close")
       \/ /\ w = "task" /\ At(s, "codec")
          /\ Goto(s, IF rc >= 0 THEN "ready" ELSE "close")
       \/ /\ w = "task" /\ At(s, "reply")
          /\ Goto(s, IF rc < 0 THEN "close" ELSE "loop")
       \/ w # "task" /\ UNCHANGED task
    /\ mark' = mark
    /\ writer' = [writer EXCEPT ![s][w] = IdleWrite]

\* What a finished attempt means for its writer: rc is 0, 1 (busy) or -1.
Outcome(s, w, rc) ==
    /\ \/ /\ w = "task" /\ At(s, "settings")
          /\ Goto(s, IF rc = 0 THEN "codec" ELSE "close")
       \/ /\ w = "task" /\ At(s, "codec")
          /\ Goto(s, IF rc = 0 THEN "ready" ELSE "close")
       \/ /\ w = "task" /\ At(s, "reply")
          /\ Goto(s, IF rc < 0 THEN "close" ELSE "loop")
       \/ w # "task" /\ UNCHANGED task
    /\ mark' = IF w = "sender" /\ rc < 0
               THEN [mark EXCEPT ![<<"sender", s>>] = [IdleMark(s) EXCEPT !.pc = "lock"]]
               ELSE mark
    /\ writer' = IF w = "sender" /\ rc = 1
                 THEN [writer EXCEPT ![s][w].pc = "busy"]
                 ELSE [writer EXCEPT ![s][w] = IdleWrite]

\* send_all wrote everything.
WriteAll(s, w) ==
    LET c == open[writer[s][w].fd] IN
    /\ writer[s][w].pc = "write"
    /\ conn[c].state = "open"
    /\ conn' = [conn EXCEPT ![c].got = @ \cup {writer[s][w].msg}]
    /\ mutex' = [mutex EXCEPT ![s] = Free]
    /\ Outcome(s, w, 0)
    /\ UNCHANGED <<made, open, slot>>

\* send_all wrote nothing: a chunk may be retried, any other message fails.
WriteNothing(s, w) ==
    /\ writer[s][w].pc = "write"
    /\ mutex' = [mutex EXCEPT ![s] = Free]
    /\ Outcome(s, w, IF writer[s][w].msg = "chunk" /\ conn[open[writer[s][w].fd]].state = "open"
                     THEN 1 ELSE -1)
    /\ UNCHANGED <<made, conn, open, slot>>

\* send_all wrote a part and gave up: PARTIAL_SEND_LIMIT_US, or an error.
WritePart(s, w) ==
    /\ writer[s][w].pc = "write"
    /\ conn[open[writer[s][w].fd]].state = "open"
    /\ mutex' = [mutex EXCEPT ![s] = Free]
    /\ Outcome(s, w, -1)
    /\ UNCHANGED <<made, conn, open, slot>>

\* The connection went away, or is not ready for chunks: result -1.
NotAllowed(s, w) ==
    /\ writer[s][w].pc = "have"
    /\ mutex[s] = Free
    /\ ~Allowed(s, w)
    /\ Outcome(s, w, -1)
    /\ UNCHANGED <<made, conn, open, slot, mutex>>

\* SEND_MUTEX_WAIT_MS was not enough to get the mutex: result 1.
MutexTimeout(s, w) ==
    /\ writer[s][w].pc = "have"
    /\ mutex[s] # Free
    /\ Outcome(s, w, 1)
    /\ UNCHANGED <<made, conn, open, slot, mutex>>

Post(s, w, msg) ==
    writer' = [writer EXCEPT ![s][w] = [IdleWrite EXCEPT !.pc = "have", !.msg = msg,
                                                         !.conn = ConnOf(s)]]

\* sender_task takes a reference while the client is ready.
TakeChunk(s) ==
    /\ "sender" \in Writers
    /\ writer[s]["sender"].pc = "idle" /\ mark[<<"sender", s>>].pc = "idle"
    /\ slot[s].active /\ slot[s].ready
    /\ Post(s, "sender", "chunk")
    /\ UNCHANGED <<made, conn, open, slot, task, mutex, mark>>

\* A refused chunk is tried again while the client is ready ...
StillWanted(s) ==
    /\ "sender" \in Writers /\ writer[s]["sender"].pc = "busy"
    /\ writer' = IF slot[s].active /\ slot[s].ready
                 THEN [writer EXCEPT ![s]["sender"].pc = "have"]
                 ELSE [writer EXCEPT ![s]["sender"] = IdleWrite]
    /\ UNCHANGED <<made, conn, open, slot, task, mutex, mark>>

\* ... and until it is too old.
GiveUp(s) ==
    /\ "sender" \in Writers /\ writer[s]["sender"].pc = "have"
    /\ writer' = [writer EXCEPT ![s]["sender"] = IdleWrite]
    /\ UNCHANGED <<made, conn, open, slot, task, mutex, mark>>

\* A JSON-RPC or HTTP request, or an announcement, pushes new settings; the
\* result is ignored.
Push(s) ==
    /\ "push" \in Writers
    /\ writer[s]["push"].pc = "idle"
    /\ slot[s].active /\ slot[s].id # NoId
    /\ Post(s, "push", "settings")
    /\ UNCHANGED <<made, conn, open, slot, task, mutex, mark>>

-----------------------------------------------------------------------------
(* client_task *)

\* The notification is taken and client_session starts.
StartSession(s) ==
    /\ At(s, "parked") /\ task[s].woken
    /\ task' = [task EXCEPT ![s] = [pc |-> "hello", fd |-> slot[s].fd, kick |-> {},
                                    woken |-> FALSE]]
    /\ UNCHANGED <<made, conn, open, slot, writer, mutex, mark>>

Socket(s)    == conn[open[task[s].fd]]
Talkative(s) == Socket(s).state = "open" /\ ~Socket(s).quiet

\* Faulty variant: only a ready slot counts as an old connection.
HelloReady(s, id) ==
    /\ At(s, "hello") /\ Talkative(s)
    /\ slot' = [slot EXCEPT ![s].id = id, ![s].silent = FALSE]
    /\ task' = [task EXCEPT ![s].pc = "kick",
                            ![s].kick = {t \in Slots \ {s} : slot[t].ready /\ slot[t].id = id}]
    /\ UNCHANGED <<made, conn, open, writer, mutex, mark>>

\* handle_hello: the identity is stored and, in the same critical section, the
\* other active slots with that id are collected.
Hello(s, id) ==
    /\ At(s, "hello") /\ Talkative(s)
    /\ slot' = [slot EXCEPT ![s].id = id, ![s].silent = FALSE]
    /\ task' = [task EXCEPT ![s].pc = "kick",
                            ![s].kick = {t \in Slots \ {s} : slot[t].active /\ slot[t].id = id}]
    /\ UNCHANGED <<made, conn, open, writer, mutex, mark>>

\* One of them is marked failed.
Kick(s, t) ==
    /\ At(s, "kick") /\ t \in task[s].kick
    /\ mark[<<"task", s>>].pc = "idle"
    /\ task' = [task EXCEPT ![s].kick = @ \ {t}]
    /\ mark' = [mark EXCEPT ![<<"task", s>>] = [IdleMark(t) EXCEPT !.pc = "lock"]]
    /\ UNCHANGED <<made, conn, open, slot, writer, mutex>>

\* With all of them marked, ServerSettings is the answer to the Hello ...
Answer(s) ==
    /\ At(s, "kick") /\ task[s].kick = {} /\ mark[<<"task", s>>].pc = "idle"
    /\ Goto(s, "settings")
    /\ Post(s, "task", "settings")
    /\ UNCHANGED <<made, conn, open, slot, mutex, mark>>

\* ... then the codec header ...
Header(s) ==
    /\ At(s, "codec") /\ writer[s]["task"].pc = "idle"
    /\ Post(s, "task", "codec")
    /\ UNCHANGED <<made, conn, open, slot, task, mutex, mark>>

\* ... and the client may get chunks.
MakeReady(s) ==
    /\ At(s, "ready")
    /\ slot' = [slot EXCEPT ![s].ready = TRUE]
    /\ Goto(s, "loop")
    /\ UNCHANGED <<made, conn, open, writer, mutex, mark>>

\* A message arrives; a Time message is answered.
Receive(s) ==
    /\ At(s, "loop") /\ Talkative(s)
    /\ slot' = [slot EXCEPT ![s].silent = FALSE]
    /\ \/ UNCHANGED <<task, writer>>
       \/ Goto(s, "reply") /\ Post(s, "task", "reply")
    /\ UNCHANGED <<made, conn, open, mutex, mark>>

\* End of stream, an error, or a bad or missing Hello.
ReceiveFails(s) ==
    /\ At(s, "hello") \/ At(s, "loop")
    /\ Goto(s, "close")
    /\ UNCHANGED <<made, conn, open, slot, writer, mutex, mark>>

\* Faulty variants: 0 for a descriptor that is none, no waiting for the mutex.
FreeToZero(s) ==
    /\ At(s, "close")
    /\ mutex[s] = Free
    /\ mutex' = [mutex EXCEPT ![s] = "close"]
    /\ slot' = [slot EXCEPT ![s].ready = FALSE, ![s].active = FALSE, ![s].fd = 0]
    /\ Goto(s, "shut")
    /\ UNCHANGED <<made, conn, open, writer, mark>>
FreeNow(s) ==
    /\ At(s, "close")
    /\ slot' = [slot EXCEPT ![s].ready = FALSE, ![s].active = FALSE, ![s].fd = NoFd]
    /\ Goto(s, "shut")
    /\ UNCHANGED <<made, conn, open, writer, mutex, mark>>

\* close_client waits for the mutex and frees the slot ...
FreeTheSlot(s) ==
    /\ At(s, "close")
    /\ mutex[s] = Free
    /\ mutex' = [mutex EXCEPT ![s] = "close"]
    /\ slot' = [slot EXCEPT ![s].ready = FALSE, ![s].active = FALSE, ![s].fd = NoFd]
    /\ Goto(s, "shut")
    /\ UNCHANGED <<made, conn, open, writer, mark>>

\* Faulty variant: the descriptor is read from the slot once more.
CloseSlotFd(s) ==
    /\ At(s, "shut")
    /\ open' = [open EXCEPT ![slot[s].fd] = 0]
    /\ mutex' = [mutex EXCEPT ![s] = Free]
    /\ task' = [task EXCEPT ![s].pc = "parked", ![s].fd = NoFd]
    /\ UNCHANGED <<made, conn, slot, writer, mark>>

\* ... closes its own copy of the descriptor and gives the mutex back.
CloseSocket(s) ==
    /\ At(s, "shut")
    /\ conn' = [conn EXCEPT ![open[task[s].fd]].state = "closed"]
    /\ open' = [open EXCEPT ![task[s].fd] = 0]
    /\ mutex' = [mutex EXCEPT ![s] = Free]
    /\ task' = [task EXCEPT ![s].pc = "parked", ![s].fd = NoFd]
    /\ UNCHANGED <<made, slot, writer, mark>>

-----------------------------------------------------------------------------
Server == Reject \/ \E s \in Slots, f \in Fds : Accept(s, f)
Peers  == (\E c \in Conns : PeerDies(c)) \/ (\E s \in Slots : FallSilent(s))
Mark(m) == MarkLock(m) \/ MarkShutdown(m)
Write(s, w) ==
    \/ BeginWrite(s, w) \/ WriteAll(s, w) \/ WriteNothing(s, w) \/ WritePart(s, w)
    \/ NotAllowed(s, w) \/ MutexTimeout(s, w)
Handshake(s) ==
    \/ StartSession(s) \/ (\E id \in Ids : Hello(s, id)) \/ (\E t \in Slots : Kick(s, t))
    \/ Answer(s) \/ Header(s) \/ MakeReady(s)

Next ==
    \/ Server \/ Peers
    \/ \E m \in Markers : Mark(m)
    \/ \E s \in Slots :
         \/ StatsLook(s) \/ TakeChunk(s) \/ StillWanted(s) \/ GiveUp(s) \/ Push(s)
         \/ \E w \in Writers : Write(s, w)
         \/ Handshake(s) \/ Receive(s) \/ ReceiveFails(s) \/ FreeTheSlot(s) \/ CloseSocket(s)

Spec == Init /\ [][Next]_vars

\* recv() on a socket that was shut down, or whose peer never says Hello,
\* returns; close_client is first in the mutex's queue in the end.
ReceiveEnds(s) ==
    ReceiveFails(s) /\ (Socket(s).state # "open" \/ At(s, "hello"))

FairSpec ==
    /\ Spec
    /\ \A m \in Markers : WF_vars(Mark(m))
    /\ \A s \in Slots :
         /\ WF_vars(FallSilent(s)) /\ WF_vars(StatsLook(s)) /\ WF_vars(StillWanted(s))
         /\ \A w \in Writers : WF_vars(Write(s, w))
         /\ WF_vars(Handshake(s)) /\ WF_vars(ReceiveEnds(s))
         /\ SF_vars(FreeTheSlot(s)) /\ WF_vars(CloseSocket(s))

-----------------------------------------------------------------------------
(* Properties *)

\* Every open descriptor belongs to exactly one active slot or is about to be
\* closed by the client_task that used it: none leaks, none is shared, and the
\* close of one connection never closes another (close_client, server_task).
Owners(f) == {s \in Slots : slot[s].active /\ slot[s].fd = f}
               \cup {s \in Slots : At(s, "shut") /\ task[s].fd = f}
DescriptorsOwned ==
    \A f \in Fds :
        /\ Cardinality(Owners(f)) = (IF open[f] = 0 THEN 0 ELSE 1)
        /\ \A s \in Slots : At(s, "shut") /\ task[s].fd = f => ~(slot[s].active /\ slot[s].fd = f)

\* Whoever writes does so to the connection he took the slot for, and alone:
\* no message lands in another connection or between the bytes of another one
\* ("Socket writes and client teardown are synchronized", file header).
Writing(c) == {sw \in Slots \X Writers : /\ writer[sw[1]][sw[2]].pc = "write"
                                         /\ open[writer[sw[1]][sw[2]].fd] = c}
WritesExclusive ==
    /\ \A c \in Conns : Cardinality(Writing(c)) <= 1
    /\ \A s \in Slots, w \in Writers :
          writer[s][w].pc = "write" => open[writer[s][w].fd] = writer[s][w].conn

\* Of two connections with one client id at least one is on its way out, however
\* their handshakes overlap: some task is about to shut it down, or has done so
\* (handle_hello).
Doomed(s) ==
    \/ Socket(s).state # "open"
    \/ At(s, "close")
    \/ \E t \in Slots : s \in task[t].kick
    \/ \E m \in Markers : <<mark[m].pc, mark[m].slot>> = <<"lock", s>>
    \/ \E m \in Markers : <<mark[m].pc, mark[m].fd>> = <<"shutdown", slot[s].fd>>
Twins(s, t) == s # t /\ slot[s].active /\ slot[t].active /\ slot[s].id = slot[t].id
                     /\ slot[s].id # NoId
DuplicateDoomed == \A s, t \in Slots : Twins(s, t) => Doomed(s) \/ Doomed(t)

\* No chunk is sent on a connection that has not been given ServerSettings and
\* codec header: it could not be decoded (client_session).
HandshakeFirst ==
    [][\A c \in Conns : "chunk" \in conn'[c].got \ conn[c].got
          => {"settings", "codec"} \subseteq conn[c].got]_vars

\* A peer that vanishes does not hold its slot for ever, wherever its session
\* was and whatever its writers were doing (stats_task, close_client).
SilentReaped == \A c \in Conns : conn[c].quiet ~> conn[c].state = "closed"
=============================================================================
