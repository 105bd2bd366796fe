------------------------- MODULE Connections_proofs -------------------------
(***************************************************************************)
(* Proofs about the client table for any number of slots, descriptors,     *)
(* client ids and connections: who owns a descriptor, who may write to a   *)
(* socket, what a client was given before its first chunk, and that of two *)
(* connections of one client at least one is on its way out.               *)
(***************************************************************************)
EXTENDS Connections, FiniteSetTheorems, TLAPS

-----------------------------------------------------------------------------
(* The inductive invariants *)

\* The session of client_session is under way, from the notification taken up
\* to close_client.
InSession(s) == task[s].pc \notin {"parked", "shut"}

\* A slot has a descriptor while it is active, and it is active exactly while
\* its task has been woken for it or serves it.
SlotLife ==
    \A s \in Slots :
        /\ slot[s].active <=> slot[s].fd # NoFd
        /\ slot[s].active <=> (InSession(s) \/ task[s].woken)
        /\ task[s].woken => ~InSession(s)
        /\ InSession(s) => task[s].fd = slot[s].fd
        /\ At(s, "shut") <=> mutex[s] = "close"
        /\ At(s, "shut") => task[s].fd # NoFd

\* The slot or the closing task holds the descriptor.
SlotHas(s, f)  == slot[s].active /\ slot[s].fd = f
CloseHas(s, f) == At(s, "shut") /\ task[s].fd = f

\* A held descriptor is open for a connection, nobody else holds it, and every
\* open descriptor is held.
Held ==
    /\ \A s \in Slots, f \in Fds : SlotHas(s, f) \/ CloseHas(s, f) => open[f] # 0
    /\ \A s, t \in Slots, f \in Fds : s # t /\ SlotHas(s, f) => ~SlotHas(t, f)
    /\ \A s, t \in Slots, f \in Fds : SlotHas(s, f) => ~CloseHas(t, f)
    /\ \A s, t \in Slots, f \in Fds : s # t /\ CloseHas(s, f) => ~CloseHas(t, f)
    /\ \A f \in Fds : open[f] # 0 => \E s \in Slots : SlotHas(s, f) \/ CloseHas(s, f)

\* Connections are numbered as they are made, and no two descriptors are open
\* for the same one.
Numbered ==
    /\ \A f \in Fds : open[f] <= made
    /\ \A f, g \in Fds : f # g /\ open[f] # 0 => open[f] # open[g]

\* Whoever writes holds the mutex, and writes a message to the slot's connection.
MutexHeld ==
    \A s \in Slots, w \in Writers :
        /\ writer[s][w].pc = "write" <=> mutex[s] = w
        /\ writer[s][w].pc = "write" =>
              /\ slot[s].active
              /\ writer[s][w].fd = slot[s].fd
              /\ writer[s][w].conn = open[slot[s].fd]
        /\ writer[s][w].pc # "idle" => writer[s][w].msg # "none"

\* The task has a message of its own under way in three of its states only.
TaskWrites ==
    \A s \in Slots :
        writer[s]["task"].pc # "idle" => task[s].pc \in {"settings", "codec", "reply"}

Owned  == SlotLife /\ Held /\ Numbered /\ MutexHeld /\ TaskWrites
OwnInv == TypeOK /\ Owned

\* What the peer of a slot was given so far.
Got(s) == conn[open[slot[s].fd]].got

\* The task's own message is the one its state says, and settings and codec
\* header are out before the slot is ready ...
TaskGiven(s) ==
    /\ At(s, "settings") /\ writer[s]["task"].pc # "idle" => writer[s]["task"].msg = "settings"
    /\ At(s, "codec") /\ writer[s]["task"].pc # "idle" => writer[s]["task"].msg = "codec"
    /\ At(s, "codec") => "settings" \in Got(s)
    /\ task[s].pc \in {"ready", "loop", "reply"} => {"settings", "codec"} \subseteq Got(s)
    /\ slot[s].ready => /\ task[s].pc \in {"loop", "reply", "close"}
                        /\ {"settings", "codec"} \subseteq Got(s)

\* ... and stay so for a chunk under way, when the slot no longer is.
ChunkGiven(s, w) ==
    writer[s][w].pc = "write" /\ writer[s][w].msg = "chunk" =>
        {"settings", "codec"} \subseteq conn[writer[s][w].conn].got

Handshaken ==
    /\ \A s \in Slots : TaskGiven(s)
    /\ \A s \in Slots, w \in Writers : ChunkGiven(s, w)

GivenInv == OwnInv /\ Handshaken

\* Clients are kicked from one place only, a sender marks its client once it
\* has dropped the chunk, and an id belongs to a session past its Hello.
MarksApart ==
    \A s \in Slots :
        /\ task[s].kick # {} => At(s, "kick")
        /\ "sender" \in Writers /\ writer[s]["sender"].pc # "idle" => mark[<<"sender", s>>].pc = "idle"
        /\ slot[s].active /\ slot[s].id # NoId => InSession(s)

TwinInv == OwnInv /\ MarksApart /\ DuplicateDoomed

-----------------------------------------------------------------------------
(* Type correctness *)

LEMMA TypeInit == Init => TypeOK
BY TableAssumption DEF Init, TypeOK, ConnRecs, SlotRecs, TaskRecs, WriterRecs, MarkRecs, FreshConn,
    FreeSlot, IdleWrite, IdleMark, Markers, Free

\* What the tables hold.
LEMMA Elements ==
    ASSUME TypeOK
    PROVE  /\ \A s \in Slots : slot[s] \in SlotRecs /\ task[s] \in TaskRecs
           /\ \A s \in Slots, w \in Writers : writer[s][w] \in WriterRecs
           /\ \A m \in Markers : mark[m] \in MarkRecs
           /\ \A c \in Conns : conn[c] \in ConnRecs
           /\ \A f \in Fds : open[f] \in 0 .. MaxConn
BY DEF TypeOK

LEMMA ConnOfType ==
    ASSUME TypeOK, SlotLife, NEW s \in Slots
    PROVE  ConnOf(s) \in 0 .. MaxConn
<1>1. slot[s].active => slot[s].fd \in Fds
  BY Elements DEF SlotLife, SlotRecs
<1> QED
  BY <1>1, Elements, TableAssumption DEF ConnOf

\* One writer's record is replaced by another.
LEMMA WriterUpdate ==
    ASSUME TypeOK, NEW s \in Slots, NEW w \in Writers, NEW r \in WriterRecs
    PROVE  [writer EXCEPT ![s][w] = r] \in [Slots -> [Writers -> WriterRecs]]
<1>1. writer \in [Slots -> [Writers -> WriterRecs]] /\ writer[s] \in [Writers -> WriterRecs]
  BY DEF TypeOK
<1>2. [writer[s] EXCEPT ![w] = r] \in [Writers -> WriterRecs]
  BY <1>1
<1> QED
  BY <1>1, <1>2

\* A record of a writer that has ended, or is about to write, is one.
LEMMA PostType ==
    ASSUME TypeOK, SlotLife, NEW s \in Slots, NEW w \in Writers,
           NEW msg \in {"settings", "codec", "reply", "chunk"}, Post(s, w, msg)
    PROVE  writer' \in [Slots -> [Writers -> WriterRecs]]
<1>1. ConnOf(s) \in 0 .. MaxConn
  BY ConnOfType
<1>2. [IdleWrite EXCEPT !.pc = "have", !.msg = msg, !.conn = ConnOf(s)] \in WriterRecs
  BY <1>1 DEF IdleWrite, WriterRecs
<1> QED
  BY <1>2, WriterUpdate DEF Post

\* Going on to another state keeps the tasks tasks.
LEMMA GotoType ==
    ASSUME TypeOK, NEW s \in Slots,
           NEW pc \in {"close", "codec", "ready", "loop", "reply", "settings"}, Goto(s, pc)
    PROVE  task' \in [Slots -> TaskRecs]
<1>1. [task[s] EXCEPT !.pc = pc] \in TaskRecs
  BY Elements DEF TaskRecs
<1>2. task \in [Slots -> TaskRecs] /\ task' = [task EXCEPT ![s] = [task[s] EXCEPT !.pc = pc]]
  BY DEF Goto, TypeOK
<1> QED
  BY <1>1, <1>2

LEMMA OutcomeType ==
    ASSUME TypeOK, NEW s \in Slots, NEW w \in Writers, NEW rc \in {-1, 0, 1}, Outcome(s, w, rc)
    PROVE  /\ task' \in [Slots -> TaskRecs]
           /\ mark' \in [Markers -> MarkRecs]
           /\ writer' \in [Slots -> [Writers -> WriterRecs]]
<1>1. task' \in [Slots -> TaskRecs]
  <2>2. UNCHANGED task \/ \E pc \in {"close", "codec", "ready", "loop"} : Goto(s, pc)
    BY DEF Outcome
  <2> QED
    BY <2>2, GotoType DEF TypeOK
<1>2. mark' \in [Markers -> MarkRecs]
  <2>1. [IdleMark(s) EXCEPT !.pc = "lock"] \in MarkRecs
    BY DEF IdleMark, MarkRecs
  <2> QED
    BY <2>1, TableAssumption DEF Outcome, TypeOK, Markers
<1>3. writer' \in [Slots -> [Writers -> WriterRecs]]
  <2>1. IdleWrite \in WriterRecs /\ [writer[s][w] EXCEPT !.pc = "busy"] \in WriterRecs
    BY TableAssumption, Elements DEF WriterRecs, IdleWrite
  <2>2. writer' = [writer EXCEPT ![s][w] = [writer[s][w] EXCEPT !.pc = "busy"]]
           \/ writer' = [writer EXCEPT ![s][w] = IdleWrite]
    BY DEF Outcome
  <2> QED
    BY <2>1, <2>2, WriterUpdate
<1> QED
  BY <1>1, <1>2, <1>3

\* Small changes of one row keep the tables tables.
LEMMA ConnUpdate ==
    ASSUME TypeOK, NEW c, NEW st \in {"open", "shut", "closed"}
    PROVE  [conn EXCEPT ![c].state = st] \in [Conns -> ConnRecs]
<1>1. conn \in [Conns -> ConnRecs]
  BY DEF TypeOK
<1>2. CASE c \in Conns
  <2>1. [conn[c] EXCEPT !.state = st] \in ConnRecs
    BY <1>2, Elements DEF ConnRecs
  <2> QED
    BY <1>1, <2>1
<1>3. CASE c \notin Conns
  BY <1>1, <1>3
<1> QED
  BY <1>2, <1>3

\* Changes of one field of a task keep it one.
LEMMA TaskFields ==
    ASSUME NEW r \in TaskRecs
    PROVE  /\ [r EXCEPT !.woken = TRUE] \in TaskRecs
           /\ [r EXCEPT !.pc = "parked", !.fd = NoFd] \in TaskRecs
           /\ \A K \in SUBSET Slots : [r EXCEPT !.pc = "kick", !.kick = K] \in TaskRecs
<1>1. [r EXCEPT !.woken = TRUE] \in TaskRecs
  BY DEF TaskRecs
<1>2. [r EXCEPT !.pc = "parked", !.fd = NoFd] \in TaskRecs
  BY DEF TaskRecs
<1>3. ASSUME NEW K \in SUBSET Slots PROVE [r EXCEPT !.pc = "kick", !.kick = K] \in TaskRecs
  BY DEF TaskRecs
<1> QED
  BY <1>1, <1>2, <1>3

LEMMA TypeStep ==
    ASSUME TypeOK, SlotLife, MutexHeld, [Next]_vars
    PROVE  TypeOK'
<1>0. \A s \in Slots : slot[s] \in SlotRecs /\ task[s] \in TaskRecs
  BY Elements
<1>1. ASSUME NEW s \in Slots, NEW f \in Fds, Accept(s, f) PROVE TypeOK'
  <2>1. made' \in 0 .. MaxConn /\ open' \in [Fds -> 0 .. MaxConn]
    BY <1>1, TableAssumption DEF Accept, TypeOK
  <2>2. conn' \in [Conns -> ConnRecs]
    BY <1>1, ConnUpdate DEF Accept
  <2>3. [FreeSlot EXCEPT !.active = TRUE, !.fd = f, !.silent = slot[s].silent] \in SlotRecs
    BY <1>0 DEF FreeSlot, SlotRecs
  <2>4. slot' \in [Slots -> SlotRecs]
    BY <1>1, <2>3 DEF Accept, TypeOK
  <2>5. [task[s] EXCEPT !.woken = TRUE] \in TaskRecs
    BY <1>0, TaskFields
  <2>6. task' \in [Slots -> TaskRecs]
    BY <1>1, <2>5 DEF Accept, TypeOK
  <2> QED
    BY <1>1, <2>1, <2>2, <2>4, <2>6 DEF Accept, TypeOK
<1>2. CASE Reject
  <2>1. made' \in 0 .. MaxConn
    BY <1>2, TableAssumption DEF Reject, TypeOK
  <2> QED
    BY <1>2, <2>1, ConnUpdate DEF Reject, TypeOK
<1>3. ASSUME NEW c \in Conns, PeerDies(c) PROVE TypeOK'
  <2>1. [conn[c] EXCEPT !.quiet = TRUE] \in ConnRecs
    BY Elements DEF ConnRecs
  <2> QED
    BY <1>3, <2>1 DEF PeerDies, TypeOK
<1>4. ASSUME NEW s \in Slots, FallSilent(s) PROVE TypeOK'
  <2>1. [slot[s] EXCEPT !.silent = TRUE] \in SlotRecs
    BY <1>0 DEF SlotRecs
  <2> QED
    BY <1>4, <2>1 DEF FallSilent, TypeOK
<1>5. ASSUME NEW m \in Markers, Mark(m) PROVE TypeOK'
  <2>1. mark[m] \in MarkRecs /\ IdleMark(m[2]) \in MarkRecs
    BY Elements DEF Markers, IdleMark, MarkRecs
  <2>2. CASE MarkLock(m)
    <3> DEFINE s == mark[m].slot
    <3>1. s \in Slots /\ slot[s] \in SlotRecs
      BY <2>1, <1>0 DEF MarkRecs
    <3>2. /\ [slot[s] EXCEPT !.ready = FALSE] \in SlotRecs
          /\ [mark[m] EXCEPT !.pc = "shutdown", !.fd = slot[s].fd] \in MarkRecs
      BY <2>1, <3>1 DEF SlotRecs, MarkRecs
    <3>3. slot' \in [Slots -> SlotRecs]
      BY <2>2, <3>1, <3>2 DEF MarkLock, TypeOK
    <3>4. mark' \in [Markers -> MarkRecs]
      <4>1. \/ mark' = [mark EXCEPT ![m] = [mark[m] EXCEPT !.pc = "shutdown", !.fd = slot[s].fd]]
            \/ mark' = [mark EXCEPT ![m] = IdleMark(m[2])]
        BY <2>2, <2>1, <3>1 DEF MarkLock, TypeOK, MarkRecs
      <4> HIDE DEF s
      <4> QED
        BY <2>1, <3>2, <4>1 DEF TypeOK
    <3> QED
      BY <2>2, <3>3, <3>4 DEF MarkLock, TypeOK
  <2>3. CASE MarkShutdown(m)
    <3>1. conn' \in [Conns -> ConnRecs]
      BY <2>3, ConnUpdate DEF MarkShutdown, TypeOK
    <3>2. mark' \in [Markers -> MarkRecs]
      BY <2>3, <2>1 DEF MarkShutdown, TypeOK
    <3> QED
      BY <2>3, <3>1, <3>2 DEF MarkShutdown, TypeOK
  <2> QED
    BY <1>5, <2>2, <2>3 DEF Mark
<1>6. ASSUME NEW s \in Slots, StatsLook(s) PROVE TypeOK'
  <2>1. [IdleMark(s) EXCEPT !.pc = "lock"] \in MarkRecs /\ <<"stats", s>> \in Markers
    BY DEF IdleMark, MarkRecs, Markers
  <2> QED
    BY <1>6, <2>1 DEF StatsLook, TypeOK
<1>7. ASSUME NEW s \in Slots,
             TakeChunk(s) \/ StillWanted(s) \/ GiveUp(s) \/ Push(s)
      PROVE  TypeOK'
  <2>1. CASE TakeChunk(s)
    BY <2>1, PostType DEF TakeChunk, TypeOK
  <2>2. CASE Push(s)
    BY <2>2, PostType DEF Push, TypeOK
  <2>3. CASE StillWanted(s) \/ GiveUp(s)
    <3>1. "sender" \in Writers
      BY <2>3 DEF StillWanted, GiveUp
    <3>2. [writer[s]["sender"] EXCEPT !.pc = "have"] \in WriterRecs /\ IdleWrite \in WriterRecs
      BY <3>1, Elements, TableAssumption DEF WriterRecs, IdleWrite
    <3>3. \/ writer' = [writer EXCEPT ![s]["sender"] = [writer[s]["sender"] EXCEPT !.pc = "have"]]
          \/ writer' = [writer EXCEPT ![s]["sender"] = IdleWrite]
      BY <2>3 DEF StillWanted, GiveUp
    <3>4. writer' \in [Slots -> [Writers -> WriterRecs]]
      BY <3>1, <3>2, <3>3, WriterUpdate, SMTT(30)
    <3> QED
      BY <2>3, <3>4 DEF StillWanted, GiveUp, TypeOK
  <2> QED
    BY <1>7, <2>1, <2>2, <2>3
<1>8. ASSUME NEW s \in Slots, NEW w \in Writers, Write(s, w) PROVE TypeOK'
  <2>1. CASE BeginWrite(s, w)
    <3>1. [writer[s][w] EXCEPT !.pc = "write", !.fd = slot[s].fd, !.conn = ConnOf(s)] \in WriterRecs
      <4>1. slot[s].fd \in Fds \cup {NoFd} /\ ConnOf(s) \in 0 .. MaxConn /\ writer[s][w] \in WriterRecs
        BY <1>0, Elements, ConnOfType DEF SlotRecs
      <4> QED
        BY <4>1 DEF WriterRecs
    <3>2. writer' \in [Slots -> [Writers -> WriterRecs]]
      BY <2>1, <3>1, WriterUpdate DEF BeginWrite
    <3> QED
      BY <2>1, <3>2 DEF BeginWrite, TypeOK
  <2>2. CASE WriteAll(s, w)
    <3> DEFINE c == open[writer[s][w].fd]
    <3>1. conn' \in [Conns -> ConnRecs]
      <4>1. ASSUME c \in Conns
            PROVE  [conn[c] EXCEPT !.got = @ \cup {writer[s][w].msg}] \in ConnRecs
        <5>1. conn[c] \in ConnRecs
          BY <4>1, Elements
        <5>2. writer[s][w].msg \in {"settings", "codec", "reply", "chunk"}
          <6>1. writer[s][w] \in WriterRecs /\ writer[s][w].msg # "none"
            BY <2>2, Elements DEF WriteAll, MutexHeld
          <6> QED
            BY <6>1 DEF WriterRecs
        <5> HIDE DEF c
        <5> QED
          BY <5>1, <5>2 DEF ConnRecs
      <4> QED
        BY <2>2, <4>1 DEF WriteAll, TypeOK
    <3>2. Outcome(s, w, 0) /\ mutex' = [mutex EXCEPT ![s] = Free] /\ UNCHANGED <<made, open, slot>>
      BY <2>2 DEF WriteAll
    <3> QED
      BY <3>1, <3>2, OutcomeType DEF TypeOK
  <2>3. CASE WriteNothing(s, w) \/ WritePart(s, w)
    <3>1. PICK rc \in {-1, 0, 1} : Outcome(s, w, rc)
      BY <2>3 DEF WriteNothing, WritePart
    <3>2. mutex' = [mutex EXCEPT ![s] = Free] /\ UNCHANGED <<made, conn, open, slot>>
      BY <2>3 DEF WriteNothing, WritePart
    <3> QED
      BY <3>1, <3>2, OutcomeType DEF TypeOK
  <2>4. CASE NotAllowed(s, w) \/ MutexTimeout(s, w)
    <3>1. PICK rc \in {-1, 0, 1} : Outcome(s, w, rc)
      BY <2>4 DEF NotAllowed, MutexTimeout
    <3>2. UNCHANGED <<made, conn, open, slot, mutex>>
      BY <2>4 DEF NotAllowed, MutexTimeout
    <3> QED
      BY <3>1, <3>2, OutcomeType DEF TypeOK
  <2> QED
    BY <1>8, <2>1, <2>2, <2>3, <2>4 DEF Write
<1>9. ASSUME NEW s \in Slots, Handshake(s) PROVE TypeOK'
  <2>1. CASE StartSession(s)
    <3>1. [pc |-> "hello", fd |-> slot[s].fd, kick |-> {}, woken |-> FALSE] \in TaskRecs
      BY <1>0 DEF SlotRecs, TaskRecs
    <3> QED
      BY <2>1, <3>1 DEF StartSession, TypeOK
  <2>2. ASSUME NEW id \in Ids, Hello(s, id) PROVE TypeOK'
    <3> DEFINE T == {t \in Slots \ {s} : slot[t].active /\ slot[t].id = id}
    <3>1. [slot[s] EXCEPT !.id = id, !.silent = FALSE] \in SlotRecs
      BY <1>0 DEF SlotRecs
    <3>2. [task[s] EXCEPT !.pc = "kick", !.kick = T] \in TaskRecs
      BY <1>0, TaskFields
    <3>3. slot' \in [Slots -> SlotRecs]
      BY <2>2, <3>1 DEF Hello, TypeOK
    <3>4. task' \in [Slots -> TaskRecs]
      BY <2>2, <3>2 DEF Hello, TypeOK
    <3> QED
      BY <2>2, <3>3, <3>4 DEF Hello, TypeOK
  <2>3. ASSUME NEW t \in Slots, Kick(s, t) PROVE TypeOK'
    <3>1. [task[s] EXCEPT !.kick = @ \ {t}] \in TaskRecs
      BY <1>0 DEF TaskRecs
    <3>2. [IdleMark(t) EXCEPT !.pc = "lock"] \in MarkRecs
      BY DEF IdleMark, MarkRecs
    <3>3. task' \in [Slots -> TaskRecs]
      BY <2>3, <3>1 DEF Kick, TypeOK
    <3>4. mark' \in [Markers -> MarkRecs]
      BY <2>3, <3>2 DEF Kick, TypeOK
    <3> QED
      BY <2>3, <3>3, <3>4 DEF Kick, TypeOK
  <2>4. CASE Answer(s)
    <3>1. task' \in [Slots -> TaskRecs] /\ writer' \in [Slots -> [Writers -> WriterRecs]]
      BY <2>4, GotoType, PostType, TableAssumption DEF Answer
    <3> QED
      BY <2>4, <3>1 DEF Answer, TypeOK
  <2>5. CASE Header(s)
    <3>1. writer' \in [Slots -> [Writers -> WriterRecs]]
      BY <2>5, PostType, TableAssumption DEF Header
    <3> QED
      BY <2>5, <3>1 DEF Header, TypeOK
  <2>6. CASE MakeReady(s)
    <3>1. [slot[s] EXCEPT !.ready = TRUE] \in SlotRecs
      BY <1>0 DEF SlotRecs
    <3>2. task' \in [Slots -> TaskRecs]
      BY <2>6, GotoType DEF MakeReady
    <3> QED
      BY <2>6, <3>1, <3>2 DEF MakeReady, TypeOK
  <2> QED
    BY <1>9, <2>1, <2>2, <2>3, <2>4, <2>5, <2>6 DEF Handshake
<1>10. ASSUME NEW s \in Slots, Receive(s) PROVE TypeOK'
  <2>1. [slot[s] EXCEPT !.silent = FALSE] \in SlotRecs
    BY <1>0 DEF SlotRecs
  <2>2. slot' \in [Slots -> SlotRecs]
    BY <1>10, <2>1 DEF Receive, TypeOK
  <2>3. task' \in [Slots -> TaskRecs] /\ writer' \in [Slots -> [Writers -> WriterRecs]]
    BY <1>10, GotoType, PostType, TableAssumption DEF Receive, TypeOK
  <2> QED
    BY <1>10, <2>2, <2>3 DEF Receive, TypeOK
<1>11. ASSUME NEW s \in Slots, ReceiveFails(s) PROVE TypeOK'
  BY <1>11, GotoType DEF ReceiveFails, TypeOK
<1>12. ASSUME NEW s \in Slots, FreeTheSlot(s) PROVE TypeOK'
  <2>1. [slot[s] EXCEPT !.ready = FALSE, !.active = FALSE, !.fd = NoFd] \in SlotRecs
    BY <1>0 DEF SlotRecs
  <2>2. [task[s] EXCEPT !.pc = "shut"] \in TaskRecs
    BY <1>0 DEF TaskRecs
  <2>3. slot' \in [Slots -> SlotRecs]
    BY <1>12, <2>1 DEF FreeTheSlot, TypeOK
  <2>4. task' \in [Slots -> TaskRecs]
    BY <1>12, <2>2 DEF FreeTheSlot, Goto, TypeOK
  <2> QED
    BY <1>12, <2>3, <2>4 DEF FreeTheSlot, TypeOK
<1>13. ASSUME NEW s \in Slots, CloseSocket(s) PROVE TypeOK'
  <2>1. [task[s] EXCEPT !.pc = "parked", !.fd = NoFd] \in TaskRecs
    BY <1>0, TaskFields
  <2>2. task' \in [Slots -> TaskRecs]
    BY <1>13, <2>1 DEF CloseSocket, TypeOK
  <2>3. conn' \in [Conns -> ConnRecs]
    BY <1>13, ConnUpdate DEF CloseSocket
  <2>4. open' \in [Fds -> 0 .. MaxConn]
    <3>1. 0 \in 0 .. MaxConn
      BY TableAssumption
    <3> QED
      BY <1>13, <3>1 DEF CloseSocket, TypeOK
  <2> QED
    BY <1>13, <2>2, <2>3, <2>4 DEF CloseSocket, TypeOK
<1>14. CASE UNCHANGED vars
  BY <1>14 DEF vars, TypeOK
<1> QED
  BY <1>1, <1>2, <1>3, <1>4, <1>5, <1>6, <1>7, <1>8, <1>9, <1>10, <1>11, <1>12, <1>13, <1>14
     DEF Next, Server, Peers

-----------------------------------------------------------------------------
(* Ownership *)

\* What a change of one row leaves.
LEMMA WriterRows ==
    ASSUME TypeOK, NEW s \in Slots, NEW w \in Writers, NEW r,
           writer' = [writer EXCEPT ![s][w] = r]
    PROVE  \A t \in Slots, v \in Writers :
              writer'[t][v] = IF t = s /\ v = w THEN r ELSE writer[t][v]
<1>1. writer \in [Slots -> [Writers -> WriterRecs]] /\ writer[s] \in [Writers -> WriterRecs]
  BY DEF TypeOK
<1> QED
  BY <1>1

LEMMA GotoRows ==
    ASSUME TypeOK, NEW s \in Slots, NEW pc, Goto(s, pc)
    PROVE  \A t \in Slots :
              /\ task'[t].pc = IF t = s THEN pc ELSE task[t].pc
              /\ task'[t].fd = task[t].fd
              /\ task'[t].woken = task[t].woken
              /\ task'[t].kick = task[t].kick
BY Elements DEF TypeOK, Goto, TaskRecs

LEMMA HelloRows ==
    ASSUME TypeOK, NEW s \in Slots, NEW id \in Ids, Hello(s, id)
    PROVE  /\ \A t \in Slots : t # s => slot'[t] = slot[t] /\ task'[t] = task[t]
           /\ slot'[s].active = slot[s].active /\ slot'[s].fd = slot[s].fd
           /\ slot'[s].ready = slot[s].ready /\ slot'[s].id = id
           /\ task'[s].fd = task[s].fd /\ task'[s].woken = task[s].woken
           /\ task[s].pc = "hello" /\ task'[s].pc = "kick"
           /\ task'[s].kick = {t \in Slots \ {s} : slot[t].active /\ slot[t].id = id}
<1> DEFINE T == {t \in Slots \ {s} : slot[t].active /\ slot[t].id = id}
<1>1. /\ slot \in [Slots -> SlotRecs] /\ slot[s] \in SlotRecs
      /\ task \in [Slots -> TaskRecs] /\ task[s] \in TaskRecs
  BY DEF TypeOK
<1>2. /\ slot' = [slot EXCEPT ![s] = [slot[s] EXCEPT !.id = id, !.silent = FALSE]]
      /\ task' = [task EXCEPT ![s] = [task[s] EXCEPT !.pc = "kick", !.kick = T]]
      /\ task[s].pc = "hello"
  BY DEF Hello, At
<1> HIDE DEF T
<1>3. /\ \A t \in Slots : t # s => slot'[t] = slot[t] /\ task'[t] = task[t]
      /\ slot'[s] = [slot[s] EXCEPT !.id = id, !.silent = FALSE]
      /\ task'[s] = [task[s] EXCEPT !.pc = "kick", !.kick = T]
  BY <1>1, <1>2
<1>4. slot'[s].active = slot[s].active /\ slot'[s].fd = slot[s].fd
      /\ slot'[s].ready = slot[s].ready /\ slot'[s].id = id
  BY <1>1, <1>3 DEF SlotRecs
<1>5. /\ task'[s].fd = task[s].fd /\ task'[s].woken = task[s].woken
      /\ task'[s].pc = "kick" /\ task'[s].kick = T
  BY <1>1, <1>3 DEF TaskRecs
<1> QED
  BY <1>2, <1>3, <1>4, <1>5 DEF T

\* A step that hands no descriptor over: slots and tasks keep what they hold.
SlotSame ==
    \A s \in Slots :
        /\ slot'[s].active = slot[s].active /\ slot'[s].fd = slot[s].fd
        /\ task'[s].fd = task[s].fd /\ task'[s].woken = task[s].woken
        /\ \/ task'[s].pc = task[s].pc
           \/ task'[s].pc \notin {"parked", "shut"} /\ task[s].pc \notin {"parked", "shut"}

\* Such a step keeps descriptors owned as they are.
LEMMA OwnFrame ==
    ASSUME SlotLife, Held, Numbered, SlotSame, UNCHANGED <<open, made>>,
           \A s \in Slots : (mutex'[s] = "close") <=> (mutex[s] = "close")
    PROVE  SlotLife' /\ Held' /\ Numbered'
<1>1. \A s \in Slots : InSession(s)' <=> InSession(s)
  BY DEF SlotSame, InSession
<1>2. \A s \in Slots : At(s, "shut")' <=> At(s, "shut")
  BY DEF SlotSame, At
<1>3. SlotLife'
  BY <1>1, <1>2 DEF SlotLife, SlotSame
<1>4. \A s \in Slots, f \in Fds : (SlotHas(s, f)' <=> SlotHas(s, f)) /\ (CloseHas(s, f)' <=> CloseHas(s, f))
  BY <1>2 DEF SlotHas, CloseHas, SlotSame
<1>5. Held'
  BY <1>4 DEF Held
<1> QED
  BY <1>3, <1>5 DEF Numbered

\* And who writes, if it leaves mutexes and writers alone.
LEMMA MutexFrame ==
    ASSUME MutexHeld, SlotSame, UNCHANGED <<open, mutex, writer>>
    PROVE  MutexHeld'
BY DEF MutexHeld, SlotSame

\* A writer that begins or ends something outside the mutex.
LEMMA WriterFrame ==
    ASSUME TypeOK, MutexHeld, SlotSame, UNCHANGED <<open, mutex>>, NEW s \in Slots, NEW w \in Writers,
           NEW r \in WriterRecs, writer' = [writer EXCEPT ![s][w] = r],
           writer[s][w].pc # "write", r.pc # "write", r.pc # "idle" => r.msg # "none"
    PROVE  MutexHeld'
BY WriterRows DEF MutexHeld, SlotSame

\* The end of an attempt: the task, if it was the task's, goes on within its
\* session, and the writer does not write.
LEMMA OutcomeSame ==
    ASSUME TypeOK, MutexHeld, NEW s \in Slots, NEW w \in Writers, NEW rc \in {-1, 0, 1},
           Outcome(s, w, rc), UNCHANGED slot, writer[s][w].pc # "idle"
    PROVE  /\ SlotSame
           /\ \E r \in WriterRecs :
                 /\ writer' = [writer EXCEPT ![s][w] = r]
                 /\ r.pc \in {"idle", "busy"}
                 /\ r.pc # "idle" => r.msg # "none"
<1>1. SlotSame
  <2>1. CASE UNCHANGED task
    BY <2>1 DEF SlotSame
  <2>2. CASE \E pc \in {"close", "codec", "ready", "loop"} : Goto(s, pc) /\ ~At(s, "parked") /\ ~At(s, "shut")
    BY <2>2, GotoRows DEF SlotSame, At
  <2> QED
    BY <2>1, <2>2 DEF Outcome, At
<1>2. IdleWrite \in WriterRecs /\ IdleWrite.pc = "idle"
  BY TableAssumption DEF IdleWrite, WriterRecs
<1>3. /\ [writer[s][w] EXCEPT !.pc = "busy"] \in WriterRecs
      /\ [writer[s][w] EXCEPT !.pc = "busy"].pc = "busy"
      /\ [writer[s][w] EXCEPT !.pc = "busy"].msg # "none"
  <2>1. writer[s][w] \in WriterRecs /\ writer[s][w].msg # "none"
    BY Elements DEF MutexHeld
  <2> QED
    BY <2>1 DEF WriterRecs
<1>4. \/ writer' = [writer EXCEPT ![s][w] = [writer[s][w] EXCEPT !.pc = "busy"]]
      \/ writer' = [writer EXCEPT ![s][w] = IdleWrite]
  BY DEF Outcome
<1> QED
  BY <1>1, <1>2, <1>3, <1>4

LEMMA OwnWrite ==
    ASSUME TypeOK, Owned, NEW s \in Slots, NEW w \in Writers, Write(s, w)
    PROVE  SlotSame /\ SlotLife' /\ Held' /\ Numbered' /\ MutexHeld'
<1>0. w # "close" /\ w # Free /\ "close" # Free /\ mutex \in [Slots -> Writers \cup {"close", Free}]
      /\ "close" \notin Writers /\ Free \notin Writers
  BY TableAssumption DEF TypeOK, Free
<1>1. CASE BeginWrite(s, w)
  <2> DEFINE r == [writer[s][w] EXCEPT !.pc = "write", !.fd = slot[s].fd, !.conn = ConnOf(s)]
  <2>1. SlotSame /\ UNCHANGED <<open, made, slot>>
    BY <1>1 DEF BeginWrite, SlotSame
  <2>2. writer' = [writer EXCEPT ![s][w] = r] /\ mutex' = [mutex EXCEPT ![s] = w]
        /\ mutex[s] = Free /\ writer[s][w].pc = "have"
    BY <1>1 DEF BeginWrite
  <2>3. r.pc = "write" /\ r.fd = slot[s].fd /\ r.conn = open[slot[s].fd] /\ slot[s].active
        /\ r.msg # "none"
    <3>1. writer[s][w] \in WriterRecs /\ writer[s][w].msg # "none"
      BY <2>2, Elements DEF Owned, MutexHeld
    <3> QED
      BY <1>1, <3>1 DEF BeginWrite, Allowed, ConnOf, WriterRecs
  <2> HIDE DEF r
  <2>6. \A t \in Slots, v \in Writers :
             writer'[t][v] = IF t = s /\ v = w THEN r ELSE writer[t][v]
    <3>1. writer \in [Slots -> [Writers -> WriterRecs]] /\ writer[s] \in [Writers -> WriterRecs]
      BY DEF TypeOK
    <3> QED
      BY <2>2, <3>1
  <2>4. MutexHeld'
    <3> SUFFICES ASSUME NEW t \in Slots, NEW v \in Writers
                 PROVE  /\ writer'[t][v].pc = "write" <=> mutex'[t] = v
                        /\ writer'[t][v].pc = "write" =>
                              /\ slot'[t].active
                              /\ writer'[t][v].fd = slot'[t].fd
                              /\ writer'[t][v].conn = open'[slot'[t].fd]
                        /\ writer'[t][v].pc # "idle" => writer'[t][v].msg # "none"
      BY DEF MutexHeld
    <3>1. writer'[t][v] = IF t = s /\ v = w THEN r ELSE writer[t][v]
      BY <2>6
    <3>2. mutex'[t] = IF t = s THEN w ELSE mutex[t]
      BY <1>0, <2>2
    <3> QED
      BY <1>0, <2>1, <2>2, <2>3, <3>1, <3>2 DEF Owned, MutexHeld
  <2>5. \A t \in Slots : (mutex'[t] = "close") <=> (mutex[t] = "close")
    BY <1>0, <2>2
  <2> QED
    BY <2>1, <2>4, <2>5, OwnFrame DEF Owned
<1>2. CASE WriteAll(s, w) \/ WriteNothing(s, w) \/ WritePart(s, w)
  <2>1. PICK rc \in {-1, 0, 1} : Outcome(s, w, rc)
    BY <1>2 DEF WriteAll, WriteNothing, WritePart
  <2>2. UNCHANGED <<open, made, slot>> /\ mutex' = [mutex EXCEPT ![s] = Free] /\ writer[s][w].pc = "write"
    BY <1>2 DEF WriteAll, WriteNothing, WritePart
  <2>3. mutex[s] = w
    BY <2>2 DEF Owned, MutexHeld
  <2>4. SlotSame
    BY <2>1, <2>2, OutcomeSame DEF Owned
  <2>5. PICK r \in WriterRecs :
           /\ writer' = [writer EXCEPT ![s][w] = r]
           /\ r.pc \in {"idle", "busy"}
           /\ r.pc # "idle" => r.msg # "none"
    BY <2>1, <2>2, OutcomeSame DEF Owned
  <2>8. \A t \in Slots, v \in Writers :
             writer'[t][v] = IF t = s /\ v = w THEN r ELSE writer[t][v]
    <3>1. writer \in [Slots -> [Writers -> WriterRecs]] /\ writer[s] \in [Writers -> WriterRecs]
      BY DEF TypeOK
    <3> QED
      BY <2>5, <3>1
  <2>6. MutexHeld'
    <3> SUFFICES ASSUME NEW t \in Slots, NEW v \in Writers
                 PROVE  /\ writer'[t][v].pc = "write" <=> mutex'[t] = v
                        /\ writer'[t][v].pc = "write" =>
                              /\ slot'[t].active
                              /\ writer'[t][v].fd = slot'[t].fd
                              /\ writer'[t][v].conn = open'[slot'[t].fd]
                        /\ writer'[t][v].pc # "idle" => writer'[t][v].msg # "none"
      BY DEF MutexHeld
    <3>1. writer'[t][v] = IF t = s /\ v = w THEN r ELSE writer[t][v]
      BY <2>8
    <3>2. mutex'[t] = IF t = s THEN Free ELSE mutex[t]
      BY <1>0, <2>2
    <3>3. CASE t = s /\ v = w
      <4>1. writer'[t][v] = r /\ mutex'[t] = Free /\ v # Free
        BY <1>0, <3>1, <3>2, <3>3
      <4>2. r.pc # "write" /\ (r.pc # "idle" => r.msg # "none")
        BY <2>5
      <4> QED
        BY <4>1, <4>2
    <3>4. CASE t = s /\ v # w
      <4>1. writer[t][v].pc # "write"
        BY <2>3, <3>4 DEF Owned, MutexHeld
      <4> QED
        BY <1>0, <3>1, <3>2, <3>4, <4>1 DEF Owned, MutexHeld
    <3>5. CASE t # s
      BY <2>2, <3>1, <3>2, <3>5 DEF Owned, MutexHeld
    <3> QED
      BY <3>3, <3>4, <3>5
  <2>7. \A t \in Slots : (mutex'[t] = "close") <=> (mutex[t] = "close")
    BY <1>0, <2>2, <2>3
  <2> QED
    BY <2>2, <2>4, <2>6, <2>7, OwnFrame DEF Owned
<1>3. CASE NotAllowed(s, w) \/ MutexTimeout(s, w)
  <2>1. PICK rc \in {-1, 0, 1} : Outcome(s, w, rc)
    BY <1>3 DEF NotAllowed, MutexTimeout
  <2>2. UNCHANGED <<open, made, slot, mutex>> /\ writer[s][w].pc = "have"
    BY <1>3 DEF NotAllowed, MutexTimeout
  <2>3. SlotSame
    BY <2>1, <2>2, OutcomeSame DEF Owned
  <2>4. MutexHeld'
    BY <2>1, <2>2, <2>3, OutcomeSame, WriterFrame DEF Owned
  <2> QED
    BY <2>2, <2>3, <2>4, OwnFrame DEF Owned
<1> QED
  BY <1>1, <1>2, <1>3 DEF Write

\* A message is posted.
LEMMA OwnPost ==
    ASSUME TypeOK, Owned, SlotSame, UNCHANGED <<open, made, mutex>>, NEW s \in Slots,
           NEW w \in Writers, NEW msg \in {"settings", "codec", "reply", "chunk"},
           Post(s, w, msg), writer[s][w].pc # "write"
    PROVE  SlotLife' /\ Held' /\ Numbered' /\ MutexHeld'
<1> DEFINE r == [IdleWrite EXCEPT !.pc = "have", !.msg = msg, !.conn = ConnOf(s)]
<1>1. r.pc = "have" /\ r.msg = msg /\ r.msg # "none" /\ r \in WriterRecs
  <2>1. ConnOf(s) \in 0 .. MaxConn
    BY ConnOfType DEF Owned
  <2> QED
    BY <2>1 DEF IdleWrite, WriterRecs
<1>2. writer' = [writer EXCEPT ![s][w] = r]
  BY DEF Post
<1> HIDE DEF r
<1>3. MutexHeld'
  BY <1>1, <1>2, WriterFrame DEF Owned
<1> QED
  BY <1>3, OwnFrame DEF Owned

\* What a finished attempt does to the rows of the task and of its writers.
LEMMA OutcomeRows ==
    ASSUME TypeOK, NEW s \in Slots, NEW w \in Writers, NEW rc \in {-1, 0, 1}, Outcome(s, w, rc)
    PROVE  /\ \A t \in Slots, v \in Writers : t # s \/ v # w => writer'[t][v] = writer[t][v]
           /\ \A t \in Slots : t # s \/ w # "task" => task'[t] = task[t]
           /\ w = "task" => writer'[s][w] = IdleWrite
           /\ rc = 0 => writer'[s][w] = IdleWrite
           /\ w # "sender" => writer'[s][w] = IdleWrite
<1>1. writer \in [Slots -> [Writers -> WriterRecs]] /\ writer[s] \in [Writers -> WriterRecs]
      /\ task \in [Slots -> TaskRecs]
  BY DEF TypeOK
<1>2. \/ w = "sender" /\ rc = 1 /\ writer' = [writer EXCEPT ![s][w] = [writer[s][w] EXCEPT !.pc = "busy"]]
      \/ writer' = [writer EXCEPT ![s][w] = IdleWrite]
  BY DEF Outcome
<1>3. UNCHANGED task \/ (w = "task" /\ \E pc : Goto(s, pc))
  BY DEF Outcome
<1> QED
  BY <1>1, <1>2, <1>3 DEF Goto

LEMMA TaskWritesStep ==
    ASSUME TypeOK, Owned, [Next]_vars
    PROVE  TaskWrites'
<1> SUFFICES ASSUME NEW t \in Slots, writer'[t]["task"].pc # "idle"
             PROVE  task'[t].pc \in {"settings", "codec", "reply"}
  BY DEF TaskWrites
<1>0. /\ "task" \in Writers
      /\ writer[t]["task"].pc # "idle" => task[t].pc \in {"settings", "codec", "reply"}
  BY TableAssumption DEF Owned, TaskWrites
<1>1. ASSUME UNCHANGED writer, task'[t].pc = task[t].pc PROVE task'[t].pc \in {"settings", "codec", "reply"}
  BY <1>0, <1>1
<1>2. CASE UNCHANGED <<task, writer>>
  BY <1>1, <1>2
<1>3. ASSUME NEW s \in Slots, NEW f \in Fds, Accept(s, f) PROVE task'[t].pc = task[t].pc /\ UNCHANGED writer
  BY <1>3, Elements DEF Accept, TypeOK, TaskRecs
<1>4. ASSUME NEW s \in Slots, NEW w \in Writers, Write(s, w)
      PROVE  task'[t].pc \in {"settings", "codec", "reply"}
  <2>1. CASE BeginWrite(s, w)
    BY <1>0, <2>1, WriterRows DEF BeginWrite
  <2>2. CASE ~BeginWrite(s, w)
    <3>1. PICK rc \in {-1, 0, 1} : Outcome(s, w, rc)
      BY <1>4, <2>2 DEF Write, WriteAll, WriteNothing, WritePart, NotAllowed, MutexTimeout
    <3> QED
      BY <1>0, <3>1, OutcomeRows DEF IdleWrite
  <2> QED
    BY <2>1, <2>2
<1>5. ASSUME NEW s \in Slots, NEW w \in Writers \ {"task"}, NEW msg, Post(s, w, msg), UNCHANGED task
      PROVE  task'[t].pc \in {"settings", "codec", "reply"}
  BY <1>0, <1>5, WriterRows DEF Post
<1>6. ASSUME NEW s \in Slots, TakeChunk(s) \/ StillWanted(s) \/ GiveUp(s) \/ Push(s)
      PROVE  task'[t].pc \in {"settings", "codec", "reply"}
  <2>1. CASE TakeChunk(s) \/ Push(s)
    BY <1>5, <2>1 DEF TakeChunk, Push
  <2>2. CASE StillWanted(s) \/ GiveUp(s)
    <3>1. writer'[t]["task"] = writer[t]["task"]
      <4>1. PICK r : writer' = [writer EXCEPT ![s]["sender"] = r]
        BY <2>2 DEF StillWanted, GiveUp
      <4>2. writer \in [Slots -> [Writers -> WriterRecs]]
        BY DEF TypeOK
      <4> QED
        BY <1>0, <4>1, <4>2
    <3> QED
      BY <1>0, <2>2, <3>1 DEF StillWanted, GiveUp
  <2> QED
    BY <1>6, <2>1, <2>2
<1>7. ASSUME NEW s \in Slots, Handshake(s) \/ Receive(s)
      PROVE  task'[t].pc \in {"settings", "codec", "reply"}
  <2>0. \A msg : t # s /\ Post(s, "task", msg) => writer'[t]["task"] = writer[t]["task"]
    <3>1. writer \in [Slots -> [Writers -> WriterRecs]]
      BY DEF TypeOK
    <3> QED
      BY <1>0, <3>1 DEF Post
  <2>1. CASE StartSession(s) \/ (\E id \in Ids : Hello(s, id)) \/ (\E u \in Slots : Kick(s, u))
    <3>1. UNCHANGED writer /\ (t = s => task[t].pc \notin {"settings", "codec", "reply"})
      BY <2>1 DEF StartSession, Hello, Kick, At
    <3>2. t # s => task'[t] = task[t]
      BY <2>1, Elements DEF StartSession, Hello, Kick, TypeOK
    <3> QED
      BY <1>0, <3>1, <3>2
  <2>2. CASE Answer(s)
    BY <1>0, <2>0, <2>2, GotoRows DEF Answer
  <2>3. CASE Header(s)
    BY <1>0, <2>0, <2>3 DEF Header, At
  <2>4. CASE MakeReady(s)
    BY <1>0, <2>4, GotoRows DEF MakeReady, At
  <2>5. CASE Receive(s)
    BY <1>0, <2>0, <2>5, GotoRows DEF Receive, At
  <2> QED
    BY <1>7, <2>1, <2>2, <2>3, <2>4, <2>5 DEF Handshake
<1>8. ASSUME NEW s \in Slots, ReceiveFails(s) \/ FreeTheSlot(s) \/ CloseSocket(s)
      PROVE  task'[t].pc \in {"settings", "codec", "reply"}
  <2>1. UNCHANGED writer /\ (t = s => task[t].pc \notin {"settings", "codec", "reply"})
    BY <1>8 DEF ReceiveFails, FreeTheSlot, CloseSocket, At
  <2>2. t # s => task'[t] = task[t]
    BY <1>8, Elements DEF ReceiveFails, FreeTheSlot, CloseSocket, TypeOK, Goto
  <2> QED
    BY <1>0, <2>1, <2>2
<1> QED
  <2>1. CASE \/ Reject \/ Peers \/ UNCHANGED vars
             \/ \E m \in Markers : Mark(m)
             \/ \E s \in Slots : StatsLook(s)
    <3> UNCHANGED <<task, writer>>
      BY <2>1 DEF Reject, Peers, PeerDies, FallSilent, Mark, MarkLock, MarkShutdown, StatsLook, vars
    <3> QED
      BY <1>2
  <2> QED
    BY <1>0, <1>1, <1>3, <1>4, <1>6, <1>7, <1>8, <2>1 DEF Next, Server

\* The steps that hand no descriptor over.
LEMMA OwnMoves ==
    ASSUME TypeOK, Owned, NEW s \in Slots,
           \/ TakeChunk(s) \/ StillWanted(s) \/ GiveUp(s) \/ Push(s)
           \/ (\E id \in Ids : Hello(s, id)) \/ (\E t \in Slots : Kick(s, t))
           \/ Answer(s) \/ Header(s) \/ MakeReady(s) \/ Receive(s) \/ ReceiveFails(s)
    PROVE  SlotSame /\ SlotLife' /\ Held' /\ Numbered' /\ MutexHeld'
<1>0. "task" \in Writers /\ (writer[s]["task"].pc # "idle" => task[s].pc \in {"settings", "codec", "reply"})
  BY TableAssumption DEF Owned, TaskWrites
<1>1. CASE TakeChunk(s) \/ Push(s)
  <2>1. SlotSame /\ UNCHANGED <<open, made, mutex>>
    BY <1>1 DEF TakeChunk, Push, SlotSame
  <2> QED
    BY <1>1, <2>1, OwnPost DEF TakeChunk, Push
<1>2. CASE StillWanted(s) \/ GiveUp(s)
  <2>1. SlotSame /\ UNCHANGED <<open, made, mutex>> /\ "sender" \in Writers
        /\ writer[s]["sender"].pc \in {"busy", "have"}
    BY <1>2 DEF StillWanted, GiveUp, SlotSame
  <2>2. writer[s]["sender"] \in WriterRecs /\ writer[s]["sender"].msg # "none"
    BY <2>1, Elements DEF Owned, MutexHeld
  <2>3. /\ IdleWrite \in WriterRecs /\ IdleWrite.pc = "idle"
        /\ [writer[s]["sender"] EXCEPT !.pc = "have"] \in WriterRecs
        /\ [writer[s]["sender"] EXCEPT !.pc = "have"].pc = "have"
        /\ [writer[s]["sender"] EXCEPT !.pc = "have"].msg # "none"
    BY <2>2, TableAssumption DEF IdleWrite, WriterRecs
  <2>4. \/ writer' = [writer EXCEPT ![s]["sender"] = [writer[s]["sender"] EXCEPT !.pc = "have"]]
        \/ writer' = [writer EXCEPT ![s]["sender"] = IdleWrite]
    BY <1>2 DEF StillWanted, GiveUp
  <2>5. MutexHeld'
    BY <2>1, <2>3, <2>4, WriterFrame DEF Owned
  <2> QED
    BY <2>1, <2>5, OwnFrame DEF Owned
<1>3. CASE (\E id \in Ids : Hello(s, id)) \/ (\E t \in Slots : Kick(s, t)) \/ MakeReady(s) \/ ReceiveFails(s)
  <2>1. UNCHANGED <<open, made, mutex, writer>>
    BY <1>3 DEF Hello, Kick, MakeReady, ReceiveFails
  <2>2. SlotSame
    <3>1. ASSUME NEW id \in Ids, Hello(s, id) PROVE SlotSame
      BY <3>1, HelloRows DEF SlotSame, At
    <3>2. ASSUME NEW t \in Slots, Kick(s, t) PROVE SlotSame
      BY <3>2, Elements DEF Kick, TypeOK, SlotSame, TaskRecs
    <3>3. CASE MakeReady(s)
      BY <3>3, Elements, GotoRows DEF MakeReady, TypeOK, SlotSame, SlotRecs, At
    <3>4. CASE ReceiveFails(s)
      BY <3>4, GotoRows DEF ReceiveFails, SlotSame, At
    <3> QED
      BY <1>3, <3>1, <3>2, <3>3, <3>4
  <2> QED
    BY <2>1, <2>2, OwnFrame, MutexFrame DEF Owned
<1>4. CASE Answer(s) \/ Header(s)
  <2>1. SlotSame /\ UNCHANGED <<open, made, mutex>>
    BY <1>4, GotoRows DEF Answer, Header, SlotSame, At
  <2>2. writer[s]["task"].pc # "write"
    BY <1>0, <1>4 DEF Answer, Header, At
  <2> QED
    BY <1>0, <1>4, <2>1, <2>2, OwnPost DEF Answer, Header
<1>5. CASE Receive(s)
  <2>1. SlotSame /\ UNCHANGED <<open, made, mutex>>
    <3>1. \A t \in Slots : slot'[t].active = slot[t].active /\ slot'[t].fd = slot[t].fd
      BY <1>5, Elements DEF Receive, TypeOK, SlotRecs
    <3> QED
      BY <1>5, <3>1, GotoRows DEF Receive, SlotSame, At
  <2>2. writer[s]["task"].pc # "write"
    BY <1>0, <1>5 DEF Receive, At
  <2>3. CASE UNCHANGED <<task, writer>>
    BY <2>1, <2>3, OwnFrame, MutexFrame DEF Owned
  <2>4. CASE Post(s, "task", "reply")
    BY <1>0, <2>1, <2>2, <2>4, OwnPost
  <2> QED
    BY <1>5, <2>3, <2>4 DEF Receive
<1> QED
  BY <1>1, <1>2, <1>3, <1>4, <1>5

\* Accepting a connection: the slot gets a descriptor nobody holds.
LEMMA AcceptRows ==
    ASSUME TypeOK, NEW s \in Slots, NEW f \in Fds, Accept(s, f)
    PROVE  /\ \A t \in Slots : t # s => slot'[t] = slot[t]
           /\ slot'[s].active /\ slot'[s].fd = f /\ ~slot'[s].ready /\ slot'[s].id = NoId
           /\ \A t \in Slots :
                 /\ task'[t].pc = task[t].pc
                 /\ task'[t].fd = task[t].fd
                 /\ task'[t].kick = task[t].kick
                 /\ task'[t].woken <=> (t = s \/ task[t].woken)
           /\ \A g \in Fds : open'[g] = IF g = f THEN made + 1 ELSE open[g]
           /\ made' = made + 1 /\ made \in Nat /\ ~slot[s].active /\ open[f] = 0
<1>1. /\ slot \in [Slots -> SlotRecs] /\ slot[s] \in SlotRecs
      /\ task \in [Slots -> TaskRecs] /\ \A t \in Slots : task[t] \in TaskRecs
      /\ open \in [Fds -> 0 .. MaxConn] /\ made \in Nat
  BY TableAssumption DEF TypeOK
<1>2. /\ slot' = [slot EXCEPT ![s] = [FreeSlot EXCEPT !.active = TRUE, !.fd = f,
                                                     !.silent = slot[s].silent]]
      /\ task' = [task EXCEPT ![s] = [task[s] EXCEPT !.woken = TRUE]]
      /\ open' = [open EXCEPT ![f] = made + 1]
      /\ made' = made + 1 /\ ~slot[s].active /\ open[f] = 0
  BY DEF Accept
<1>3. /\ \A t \in Slots : t # s => slot'[t] = slot[t]
      /\ slot'[s] = [FreeSlot EXCEPT !.active = TRUE, !.fd = f, !.silent = slot[s].silent]
  BY <1>1, <1>2
<1>4. slot'[s].active /\ slot'[s].fd = f /\ ~slot'[s].ready /\ slot'[s].id = NoId
  BY <1>3 DEF FreeSlot
<1>5. ASSUME NEW t \in Slots
      PROVE  /\ task'[t].pc = task[t].pc /\ task'[t].fd = task[t].fd
             /\ task'[t].kick = task[t].kick
             /\ task'[t].woken <=> (t = s \/ task[t].woken)
  <2>1. CASE t = s
    <3>1. task'[t] = [task[t] EXCEPT !.woken = TRUE] /\ task[t] \in TaskRecs
      BY <1>1, <1>2, <2>1
    <3> QED
      BY <2>1, <3>1 DEF TaskRecs
  <2>2. CASE t # s
    BY <1>1, <1>2, <2>2
  <2> QED
    BY <2>1, <2>2
<1>6. \A g \in Fds : open'[g] = IF g = f THEN made + 1 ELSE open[g]
  BY <1>1, <1>2
<1> QED
  BY <1>1, <1>2, <1>3, <1>4, <1>5, <1>6

LEMMA OwnAccept ==
    ASSUME TypeOK, Owned, NEW s \in Slots, NEW f \in Fds, Accept(s, f)
    PROVE  SlotLife' /\ Held' /\ Numbered' /\ MutexHeld'
<1>1. UNCHANGED <<writer, mutex>>
  BY DEF Accept
<1>2. \A g \in Fds : open[g] \in Nat /\ open[g] <= made
  BY Elements, TableAssumption DEF Owned, Numbered
<1>3. ~InSession(s) /\ ~task[s].woken
  BY AcceptRows DEF Owned, SlotLife
<1>4. SlotLife'
  <2>1. f # NoFd
    BY TableAssumption
  <2>2. \A t \in Slots : (InSession(t)' <=> InSession(t)) /\ (At(t, "shut")' <=> At(t, "shut"))
    BY AcceptRows DEF InSession, At
  <2>3. ASSUME NEW t \in Slots
        PROVE  /\ slot'[t].active <=> slot'[t].fd # NoFd
               /\ slot'[t].active <=> (InSession(t)' \/ task'[t].woken)
               /\ task'[t].woken => ~InSession(t)'
               /\ InSession(t)' => task'[t].fd = slot'[t].fd
               /\ At(t, "shut")' <=> mutex'[t] = "close"
               /\ At(t, "shut")' => task'[t].fd # NoFd
    <3>1. CASE t = s
      <4>1. slot'[t].active /\ slot'[t].fd # NoFd /\ task'[t].woken /\ ~InSession(t)'
        BY <1>3, <2>1, <2>2, <3>1, AcceptRows
      <4>2. (At(t, "shut")' <=> mutex'[t] = "close") /\ (At(t, "shut")' => task'[t].fd # NoFd)
        BY <1>1, <2>2, AcceptRows DEF Owned, SlotLife
      <4> QED
        BY <4>1, <4>2
    <3>2. CASE t # s
      <4>1. slot'[t] = slot[t] /\ task'[t].fd = task[t].fd /\ (task'[t].woken <=> task[t].woken)
        BY <3>2, AcceptRows
      <4> QED
        BY <1>1, <2>2, <4>1 DEF Owned, SlotLife
    <3> QED
      BY <3>1, <3>2
  <2> QED
    BY <2>3 DEF SlotLife
<1>5. Held'
  <2>1. \A t \in Slots, g \in Fds :
           /\ CloseHas(t, g)' <=> CloseHas(t, g)
           /\ SlotHas(t, g)' <=> IF t = s THEN g = f ELSE SlotHas(t, g)
    BY AcceptRows DEF CloseHas, SlotHas, At
  <2>2. \A t \in Slots : ~SlotHas(t, f) /\ ~CloseHas(t, f)
    BY AcceptRows DEF Owned, Held
  <2>3. \A g \in Fds : ~SlotHas(s, g)
    BY AcceptRows DEF SlotHas
  <2>4. \A g \in Fds : open'[g] # 0 <=> (g = f \/ open[g] # 0)
    BY AcceptRows
  <2> QED
    BY <2>1, <2>2, <2>3, <2>4 DEF Owned, Held
<1>6. Numbered'
  BY <1>2, AcceptRows DEF Owned, Numbered
<1>7. MutexHeld'
  <2>1. ASSUME NEW t \in Slots, NEW w \in Writers, writer[t][w].pc = "write"
        PROVE  t # s /\ slot[t].fd \in Fds /\ slot[t].fd # f
    <3>1. slot[t].active /\ slot[t].fd \in Fds /\ open[slot[t].fd] # 0
      BY <2>1, Elements DEF Owned, MutexHeld, SlotLife, Held, SlotHas, SlotRecs
    <3> QED
      BY <3>1, AcceptRows
  <2>2. ASSUME NEW t \in Slots, NEW w \in Writers, writer[t][w].pc = "write"
        PROVE  slot'[t] = slot[t] /\ open'[slot[t].fd] = open[slot[t].fd]
    BY <2>1, <2>2, AcceptRows
  <2> QED
    BY <1>1, <2>2 DEF Owned, MutexHeld
<1> QED
  BY <1>4, <1>5, <1>6, <1>7

\* A session starts with the slot's descriptor.
LEMMA StartRows ==
    ASSUME TypeOK, NEW s \in Slots, StartSession(s)
    PROVE  /\ \A t \in Slots : t # s => task'[t] = task[t]
           /\ task'[s].pc = "hello" /\ task'[s].fd = slot[s].fd /\ task'[s].kick = {} /\ ~task'[s].woken
           /\ task[s].pc = "parked" /\ task[s].woken
           /\ UNCHANGED <<made, conn, open, slot, writer, mutex, mark>>
BY DEF StartSession, TypeOK, At

LEMMA OwnStart ==
    ASSUME TypeOK, Owned, NEW s \in Slots, StartSession(s)
    PROVE  SlotLife' /\ Held' /\ Numbered' /\ MutexHeld'
<1>1. \A t \in Slots : (InSession(t)' <=> (t = s \/ InSession(t))) /\ (At(t, "shut")' <=> At(t, "shut"))
  BY StartRows DEF InSession, At
<1>2. SlotLife'
  <2>1. slot[s].active /\ slot[s].fd # NoFd /\ mutex[s] # "close"
    BY StartRows DEF Owned, SlotLife, At
  <2>2. ASSUME NEW t \in Slots
        PROVE  /\ slot'[t].active <=> slot'[t].fd # NoFd
               /\ slot'[t].active <=> (InSession(t)' \/ task'[t].woken)
               /\ task'[t].woken => ~InSession(t)'
               /\ InSession(t)' => task'[t].fd = slot'[t].fd
               /\ At(t, "shut")' <=> mutex'[t] = "close"
               /\ At(t, "shut")' => task'[t].fd # NoFd
    <3>1. CASE t = s
      BY <1>1, <2>1, <3>1, StartRows DEF At
    <3>2. CASE t # s
      BY <1>1, <3>2, StartRows DEF Owned, SlotLife
    <3> QED
      BY <3>1, <3>2
  <2> QED
    BY <2>2 DEF SlotLife
<1>3. Held'
  <2>1. \A t \in Slots, f \in Fds : (SlotHas(t, f)' <=> SlotHas(t, f)) /\ (CloseHas(t, f)' <=> CloseHas(t, f))
    BY StartRows DEF SlotHas, CloseHas, At
  <2> QED
    BY <2>1, StartRows DEF Owned, Held
<1> QED
  BY <1>2, <1>3, StartRows DEF Owned, Numbered, MutexHeld

\* close_client frees the slot and keeps the descriptor for itself.
LEMMA FreeRows ==
    ASSUME TypeOK, NEW s \in Slots, FreeTheSlot(s)
    PROVE  /\ \A t \in Slots : t # s => slot'[t] = slot[t] /\ task'[t] = task[t] /\ mutex'[t] = mutex[t]
           /\ ~slot'[s].active /\ ~slot'[s].ready /\ slot'[s].fd = NoFd
           /\ task'[s].pc = "shut" /\ task'[s].fd = task[s].fd /\ task'[s].kick = task[s].kick
           /\ task'[s].woken = task[s].woken /\ mutex'[s] = "close"
           /\ task[s].pc = "close" /\ mutex[s] = Free
           /\ UNCHANGED <<made, conn, open, writer, mark>>
<1>1. /\ slot \in [Slots -> SlotRecs] /\ slot[s] \in SlotRecs
      /\ mutex \in [Slots -> Writers \cup {"close", Free}]
  BY DEF TypeOK
<1>2. /\ slot' = [slot EXCEPT ![s] = [slot[s] EXCEPT !.ready = FALSE, !.active = FALSE, !.fd = NoFd]]
      /\ mutex' = [mutex EXCEPT ![s] = "close"] /\ mutex[s] = Free
      /\ task[s].pc = "close" /\ Goto(s, "shut")
      /\ UNCHANGED <<made, conn, open, writer, mark>>
  BY DEF FreeTheSlot, At
<1>3. ~slot'[s].active /\ ~slot'[s].ready /\ slot'[s].fd = NoFd
  BY <1>1, <1>2 DEF SlotRecs
<1>4. \A t \in Slots : t # s => slot'[t] = slot[t] /\ task'[t] = task[t] /\ mutex'[t] = mutex[t]
  BY <1>1, <1>2 DEF Goto, TypeOK
<1> QED
  BY <1>1, <1>2, <1>3, <1>4, GotoRows

LEMMA OwnFree ==
    ASSUME TypeOK, Owned, NEW s \in Slots, FreeTheSlot(s)
    PROVE  SlotLife' /\ Held' /\ Numbered' /\ MutexHeld'
<1>0. InSession(s) /\ ~task[s].woken /\ slot[s].active /\ slot[s].fd # NoFd /\ task[s].fd = slot[s].fd
      /\ Free \notin Writers /\ "close" \notin Writers
  BY FreeRows, TableAssumption DEF Owned, SlotLife, InSession, Free
<1>1. \A t \in Slots : (InSession(t)' <=> (t # s /\ InSession(t))) /\ (At(t, "shut")' <=> (t = s \/ At(t, "shut")))
  BY FreeRows DEF InSession, At
<1>2. SlotLife'
  <2>1. ASSUME NEW t \in Slots
        PROVE  /\ slot'[t].active <=> slot'[t].fd # NoFd
               /\ slot'[t].active <=> (InSession(t)' \/ task'[t].woken)
               /\ task'[t].woken => ~InSession(t)'
               /\ InSession(t)' => task'[t].fd = slot'[t].fd
               /\ At(t, "shut")' <=> mutex'[t] = "close"
               /\ At(t, "shut")' => task'[t].fd # NoFd
    <3>1. CASE t = s
      BY <1>0, <1>1, <3>1, FreeRows
    <3>2. CASE t # s
      BY <1>1, <3>2, FreeRows DEF Owned, SlotLife
    <3> QED
      BY <3>1, <3>2
  <2> QED
    BY <2>1 DEF SlotLife
<1>3. Held'
  <2>1. \A t \in Slots, f \in Fds :
           /\ SlotHas(t, f)' <=> t # s /\ SlotHas(t, f)
           /\ CloseHas(t, f)' <=> IF t = s THEN SlotHas(s, f) ELSE CloseHas(t, f)
    BY <1>0, <1>1, FreeRows DEF SlotHas, CloseHas
  <2>2. \A f \in Fds : ~CloseHas(s, f)
    BY FreeRows DEF CloseHas, At
  <2>3. \A t \in Slots, f \in Fds : SlotHas(t, f)' \/ CloseHas(t, f)' <=> SlotHas(t, f) \/ CloseHas(t, f)
    BY <2>1, <2>2
  <2> QED
    BY <2>1, <2>2, <2>3, FreeRows DEF Owned, Held
<1>4. MutexHeld'
  <2>1. \A w \in Writers : writer[s][w].pc # "write"
    BY <1>0, FreeRows DEF Owned, MutexHeld
  <2> QED
    BY <1>0, <2>1, FreeRows DEF Owned, MutexHeld
<1> QED
  BY <1>2, <1>3, <1>4, FreeRows DEF Owned, Numbered

\* ... and closes it.
LEMMA CloseRows ==
    ASSUME TypeOK, NEW s \in Slots, CloseSocket(s)
    PROVE  /\ \A t \in Slots : t # s => task'[t] = task[t] /\ mutex'[t] = mutex[t]
           /\ task'[s].pc = "parked" /\ task'[s].fd = NoFd /\ task'[s].kick = task[s].kick
           /\ task'[s].woken = task[s].woken /\ mutex'[s] = Free /\ task[s].pc = "shut"
           /\ \A f \in Fds : open'[f] = IF f = task[s].fd THEN 0 ELSE open[f]
           /\ UNCHANGED <<made, slot, writer, mark>>
<1>1. /\ task \in [Slots -> TaskRecs] /\ task[s] \in TaskRecs /\ open \in [Fds -> 0 .. MaxConn]
      /\ mutex \in [Slots -> Writers \cup {"close", Free}]
  BY DEF TypeOK
<1>2. /\ task' = [task EXCEPT ![s] = [task[s] EXCEPT !.pc = "parked", !.fd = NoFd]]
      /\ open' = [open EXCEPT ![task[s].fd] = 0] /\ mutex' = [mutex EXCEPT ![s] = Free]
      /\ task[s].pc = "shut" /\ UNCHANGED <<made, slot, writer, mark>>
  BY DEF CloseSocket, At
<1>3. task'[s] = [task[s] EXCEPT !.pc = "parked", !.fd = NoFd]
  BY <1>1, <1>2
<1>4. task'[s].pc = "parked" /\ task'[s].fd = NoFd /\ task'[s].kick = task[s].kick
      /\ task'[s].woken = task[s].woken
  BY <1>1, <1>3 DEF TaskRecs
<1> QED
  BY <1>1, <1>2, <1>4

LEMMA OwnClose ==
    ASSUME TypeOK, Owned, NEW s \in Slots, CloseSocket(s)
    PROVE  SlotLife' /\ Held' /\ Numbered' /\ MutexHeld'
<1> DEFINE d == task[s].fd
<1>0. At(s, "shut") /\ d \in Fds /\ CloseHas(s, d)
  BY CloseRows, Elements DEF Owned, SlotLife, At, CloseHas, TaskRecs
<1>1. \A t \in Slots : (InSession(t)' <=> InSession(t)) /\ (At(t, "shut")' <=> (t # s /\ At(t, "shut")))
  BY CloseRows DEF InSession, At
<1>2. SlotLife'
  <2>1. ASSUME NEW t \in Slots
        PROVE  /\ slot'[t].active <=> slot'[t].fd # NoFd
               /\ slot'[t].active <=> (InSession(t)' \/ task'[t].woken)
               /\ task'[t].woken => ~InSession(t)'
               /\ InSession(t)' => task'[t].fd = slot'[t].fd
               /\ At(t, "shut")' <=> mutex'[t] = "close"
               /\ At(t, "shut")' => task'[t].fd # NoFd
    <3>1. CASE t = s
      <4>1. ~InSession(s) /\ Free # "close"
        BY <1>0 DEF InSession, At, Free
      <4> QED
        BY <1>1, <3>1, <4>1, CloseRows DEF Owned, SlotLife
    <3>2. CASE t # s
      BY <1>1, <3>2, CloseRows DEF Owned, SlotLife
    <3> QED
      BY <3>1, <3>2
  <2> QED
    BY <2>1 DEF SlotLife
<1>3. \A t \in Slots : ~SlotHas(t, d) /\ (t # s => ~CloseHas(t, d))
  BY <1>0 DEF Owned, Held
<1>4. Held'
  <2>1. \A t \in Slots, f \in Fds :
           /\ SlotHas(t, f)' <=> SlotHas(t, f)
           /\ CloseHas(t, f)' <=> t # s /\ CloseHas(t, f)
    BY <1>1, CloseRows DEF SlotHas, CloseHas
  <2>2. \A f \in Fds : open'[f] = IF f = d THEN 0 ELSE open[f]
    BY CloseRows
  <2>3. \A f \in Fds : CloseHas(s, f) => f = d
    BY DEF CloseHas
  <2> HIDE DEF d
  <2> QED
    BY <1>0, <1>3, <2>1, <2>2, <2>3 DEF Owned, Held
<1>5. MutexHeld'
  <2>1. ASSUME NEW t \in Slots, NEW w \in Writers, writer[t][w].pc = "write"
        PROVE  t # s /\ open'[slot[t].fd] = open[slot[t].fd]
    <3>1. slot[t].active /\ slot[t].fd \in Fds /\ mutex[t] = w /\ w # "close"
      BY <2>1, Elements, TableAssumption DEF Owned, MutexHeld, SlotLife, SlotRecs
    <3>2. slot[t].fd # d
      BY <1>3, <3>1 DEF SlotHas
    <3>3. mutex[s] = "close"
      BY <1>0 DEF Owned, SlotLife
    <3> QED
      BY <3>1, <3>2, <3>3, CloseRows
  <2>2. \A w \in Writers : writer[s][w].pc # "write" /\ w # Free
    BY <2>1, TableAssumption DEF Free
  <2> QED
    BY <2>1, <2>2, CloseRows DEF Owned, MutexHeld
<1>6. Numbered'
  <2>1. \A f \in Fds : open[f] \in Nat /\ made \in Nat
    BY Elements, TableAssumption DEF TypeOK
  <2> HIDE DEF d
  <2>2. \A f \in Fds : open'[f] = IF f = d THEN 0 ELSE open[f]
    BY CloseRows DEF d
  <2> QED
    BY <2>1, <2>2, CloseRows DEF Owned, Numbered
<1> QED
  BY <1>2, <1>4, <1>5, <1>6

\* Peers, marks and the statistics task hand no descriptor over.
LEMMA RestSame ==
    ASSUME TypeOK, \/ Peers \/ UNCHANGED vars
                   \/ \E m \in Markers : Mark(m)
                   \/ \E s \in Slots : StatsLook(s)
    PROVE  SlotSame /\ UNCHANGED <<made, open, task, mutex, writer>>
<1>1. UNCHANGED <<made, open, task, mutex, writer>>
  BY DEF Peers, PeerDies, FallSilent, Mark, MarkLock, MarkShutdown, StatsLook, vars
<1>2. \A s \in Slots : slot'[s].active = slot[s].active /\ slot'[s].fd = slot[s].fd
  <2>1. CASE UNCHANGED slot
    BY <2>1
  <2>2. ASSUME NEW s \in Slots, FallSilent(s)
        PROVE  \A t \in Slots : slot'[t].active = slot[t].active /\ slot'[t].fd = slot[t].fd
    BY <2>2, Elements DEF FallSilent, TypeOK, SlotRecs
  <2>3. ASSUME NEW m \in Markers, MarkLock(m)
        PROVE  \A t \in Slots : slot'[t].active = slot[t].active /\ slot'[t].fd = slot[t].fd
    BY <2>3, Elements DEF MarkLock, TypeOK, SlotRecs
  <2> QED
    BY <2>1, <2>2, <2>3 DEF Peers, PeerDies, Mark, MarkShutdown, StatsLook, vars
<1> QED
  BY <1>1, <1>2 DEF SlotSame

LEMMA OwnInit == Init => OwnInv
<1> SUFFICES ASSUME Init PROVE OwnInv
  OBVIOUS
<1>1. TypeOK
  BY TypeInit
<1>2. \A s \in Slots : /\ ~slot[s].active /\ slot[s].fd = NoFd /\ task[s].pc = "parked" /\ ~task[s].woken
                      /\ mutex[s] = Free
  BY DEF Init, FreeSlot
<1>3. \A s \in Slots, w \in Writers : writer[s][w].pc = "idle" /\ w # Free
  BY TableAssumption DEF Init, IdleWrite, Free
<1>4. \A f \in Fds : open[f] = 0
  BY DEF Init
<1>5. SlotLife
  BY <1>2 DEF SlotLife, InSession, At, Free
<1>6. Held
  BY <1>2, <1>4 DEF Held, SlotHas, CloseHas, At
<1>7. Numbered
  BY <1>4 DEF Numbered, Init
<1>8. MutexHeld /\ TaskWrites
  BY <1>2, <1>3, TableAssumption DEF MutexHeld, TaskWrites
<1> QED
  BY <1>1, <1>5, <1>6, <1>7, <1>8 DEF OwnInv, Owned

LEMMA OwnStep == OwnInv /\ [Next]_vars => OwnInv'
<1> SUFFICES ASSUME TypeOK, Owned, [Next]_vars PROVE OwnInv'
  BY DEF OwnInv
<1> DEFINE Goal == SlotLife' /\ Held' /\ Numbered' /\ MutexHeld'
<1>1. TypeOK' /\ TaskWrites'
  BY TypeStep, TaskWritesStep DEF Owned
<1>2. ASSUME Reject PROVE Goal
  <2>1. SlotSame /\ UNCHANGED <<open, slot, task, mutex, writer>> /\ made' = made + 1
    BY <1>2 DEF Reject, SlotSame
  <2>2. SlotLife' /\ Held' /\ MutexHeld'
    BY <2>1 DEF Owned, SlotLife, Held, MutexHeld, InSession, At, SlotHas, CloseHas
  <2>3. \A f \in Fds : open[f] \in Nat /\ made \in Nat
    BY Elements, TableAssumption DEF TypeOK
  <2>4. Numbered'
    BY <2>1, <2>3 DEF Owned, Numbered
  <2> QED
    BY <2>2, <2>4
<1>3. ASSUME \/ Peers \/ UNCHANGED vars
             \/ \E m \in Markers : Mark(m)
             \/ \E s \in Slots : StatsLook(s)
      PROVE  Goal
  <2>1. SlotSame /\ UNCHANGED <<made, open, task, mutex, writer>>
    BY <1>3, RestSame
  <2> QED
    BY <2>1, OwnFrame, MutexFrame DEF Owned
<1>4. ASSUME NEW s \in Slots, Handshake(s) \/ Receive(s) \/ ReceiveFails(s)
                               \/ TakeChunk(s) \/ StillWanted(s) \/ GiveUp(s) \/ Push(s)
      PROVE  Goal
  BY <1>4, OwnMoves, OwnStart DEF Handshake
<1>5. ASSUME NEW s \in Slots, NEW f \in Fds, Accept(s, f) PROVE Goal
  BY <1>5, OwnAccept
<1>6. ASSUME NEW s \in Slots, NEW w \in Writers, Write(s, w) PROVE Goal
  BY <1>6, OwnWrite
<1>7. ASSUME NEW s \in Slots, FreeTheSlot(s) \/ CloseSocket(s) PROVE Goal
  BY <1>7, OwnFree, OwnClose
<1>8. Goal
  <2> HIDE DEF Goal
  <2> QED
    BY <1>2, <1>3, <1>4, <1>5, <1>6, <1>7 DEF Next, Server
<1> QED
  BY <1>1, <1>8 DEF OwnInv, Owned

-----------------------------------------------------------------------------
(* What it says of descriptors and writers *)

LEMMA OwnersCounted == OwnInv => DescriptorsOwned
<1> SUFFICES ASSUME TypeOK, Owned, NEW f \in Fds
             PROVE  /\ Cardinality(Owners(f)) = (IF open[f] = 0 THEN 0 ELSE 1)
                    /\ \A s \in Slots : At(s, "shut") /\ task[s].fd = f => ~(slot[s].active /\ slot[s].fd = f)
  BY DEF DescriptorsOwned, OwnInv
<1>1. \A s \in Slots : s \in Owners(f) <=> SlotHas(s, f) \/ CloseHas(s, f)
  BY DEF Owners, SlotHas, CloseHas
<1>2. Owners(f) \subseteq Slots
  BY DEF Owners
<1>3. CASE open[f] = 0
  <2>1. Owners(f) = {}
    BY <1>1, <1>2, <1>3 DEF Owned, Held
  <2> QED
    BY <1>3, <2>1, FS_EmptySet DEF Owned, Held, SlotHas, CloseHas
<1>4. CASE open[f] # 0
  <2>1. PICK s \in Slots : SlotHas(s, f) \/ CloseHas(s, f)
    BY <1>4 DEF Owned, Held
  <2>2. \A t \in Slots : SlotHas(t, f) \/ CloseHas(t, f) => t = s
    BY <2>1 DEF Owned, Held
  <2>3. Owners(f) = {s}
    BY <1>1, <1>2, <2>1, <2>2
  <2> QED
    BY <1>4, <2>3, FS_Singleton, ZenonT(40) DEF Owned, Held, SlotHas, CloseHas
<1> QED
  BY <1>3, <1>4

LEMMA WritersAlone == OwnInv => WritesExclusive
<1> SUFFICES ASSUME TypeOK, Owned PROVE WritesExclusive
  BY DEF OwnInv
<1>1. ASSUME NEW s \in Slots, NEW w \in Writers, writer[s][w].pc = "write"
      PROVE  /\ writer[s][w].fd = slot[s].fd /\ slot[s].fd \in Fds /\ SlotHas(s, slot[s].fd)
             /\ open[slot[s].fd] # 0 /\ writer[s][w].conn = open[slot[s].fd] /\ mutex[s] = w
  BY <1>1, Elements DEF Owned, MutexHeld, SlotLife, Held, SlotHas, SlotRecs
<1>2. ASSUME NEW c \in Conns PROVE Cardinality(Writing(c)) <= 1
  <2>1. \A x, y \in Writing(c) : x = y
    <3> SUFFICES ASSUME NEW s \in Slots, NEW w \in Writers, NEW t \in Slots, NEW v \in Writers,
                        writer[s][w].pc = "write", open[writer[s][w].fd] = c,
                        writer[t][v].pc = "write", open[writer[t][v].fd] = c
                 PROVE  s = t /\ w = v
      BY DEF Writing
    <3>1. slot[s].fd = slot[t].fd
      BY <1>1 DEF Owned, Numbered
    <3>2. s = t
      BY <1>1, <3>1 DEF Owned, Held
    <3> QED
      BY <1>1, <3>2
  <2>2. CASE Writing(c) = {}
    BY <2>2, FS_EmptySet
  <2>3. CASE Writing(c) # {}
    <3>1. PICK x : Writing(c) = {x}
      BY <2>1, <2>3
    <3> QED
      BY <3>1, FS_Singleton
  <2> QED
    BY <2>2, <2>3
<1>3. \A s \in Slots, w \in Writers : writer[s][w].pc = "write" => open[writer[s][w].fd] = writer[s][w].conn
  BY <1>1
<1> QED
  BY <1>2, <1>3 DEF WritesExclusive

\* In every reachable state the table, the descriptors and the mutexes are as
\* accept, close_client and client_send_msg keep them.
THEOREM OwnershipInvariant == Spec => []OwnInv
BY OwnInit, OwnStep, PTL DEF Spec

\* The tables are well-typed for any number of slots and connections.
THEOREM TypeCorrect == Spec => []TypeOK
<1>1. OwnInv => TypeOK
  BY DEF OwnInv
<1> QED
  BY <1>1, OwnershipInvariant, PTL

\* No descriptor leaks, is shared, or is closed for another connection.
THEOREM EveryDescriptorOwned == Spec => []DescriptorsOwned
BY OwnersCounted, OwnershipInvariant, PTL

\* Writers write alone, and to the connection they took the slot for.
THEOREM EveryWriteExclusive == Spec => []WritesExclusive
BY WritersAlone, OwnershipInvariant, PTL

-----------------------------------------------------------------------------
(* The handshake comes first *)

\* A session keeps its descriptor, and the descriptor its connection.
LEMMA SessionKept ==
    ASSUME OwnInv, [Next]_vars, NEW s \in Slots, InSession(s), InSession(s)'
    PROVE  /\ slot[s].active /\ slot[s].fd \in Fds /\ open[slot[s].fd] \in 1 .. made
           /\ slot'[s].fd = slot[s].fd /\ task'[s].fd = task[s].fd /\ task[s].fd = slot[s].fd
           /\ open'[slot[s].fd] = open[slot[s].fd]
<1>0. TypeOK /\ Owned
  BY DEF OwnInv
<1>1. slot[s].active /\ slot[s].fd \in Fds /\ task[s].fd = slot[s].fd /\ SlotHas(s, slot[s].fd)
      /\ ~task[s].woken
  BY <1>0, Elements DEF Owned, SlotLife, SlotRecs, SlotHas
<1>2. open[slot[s].fd] \in 1 .. made
  <2>1. open[slot[s].fd] # 0 /\ open[slot[s].fd] <= made
    BY <1>0, <1>1 DEF Owned, Held, Numbered
  <2>2. open[slot[s].fd] \in Nat /\ made \in Nat
    BY <1>0, <1>1, Elements, TableAssumption DEF TypeOK
  <2> QED
    BY <2>1, <2>2
<1>3. slot'[s].fd = slot[s].fd /\ task'[s].fd = task[s].fd /\ open'[slot[s].fd] = open[slot[s].fd]
  <2>1. CASE SlotSame /\ UNCHANGED open
    BY <2>1 DEF SlotSame
  <2>2. ASSUME NEW t \in Slots, NEW f \in Fds, Accept(t, f)
        PROVE  slot'[s].fd = slot[s].fd /\ task'[s].fd = task[s].fd /\ open'[slot[s].fd] = open[slot[s].fd]
    BY <1>0, <1>1, <1>2, <2>2, AcceptRows
  <2>3. ASSUME NEW t \in Slots, StartSession(t)
        PROVE  slot'[s].fd = slot[s].fd /\ task'[s].fd = task[s].fd /\ open'[slot[s].fd] = open[slot[s].fd]
    BY <1>0, <2>3, StartRows DEF InSession
  <2>4. ASSUME NEW t \in Slots, FreeTheSlot(t)
        PROVE  slot'[s].fd = slot[s].fd /\ task'[s].fd = task[s].fd /\ open'[slot[s].fd] = open[slot[s].fd]
    BY <1>0, <2>4, FreeRows DEF InSession
  <2>5. ASSUME NEW t \in Slots, CloseSocket(t)
        PROVE  slot'[s].fd = slot[s].fd /\ task'[s].fd = task[s].fd /\ open'[slot[s].fd] = open[slot[s].fd]
    <3>1. t # s /\ slot[s].fd # task[t].fd
      BY <1>0, <1>1, <2>5, CloseRows DEF InSession, Owned, Held, CloseHas, At
    <3> QED
      BY <1>0, <1>1, <2>5, <3>1, CloseRows
  <2>6. ASSUME NEW t \in Slots, Handshake(t) \/ Receive(t) \/ ReceiveFails(t)
                                 \/ TakeChunk(t) \/ StillWanted(t) \/ GiveUp(t) \/ Push(t)
        PROVE  StartSession(t) \/ (SlotSame /\ UNCHANGED open)
    <3>1. \/ StartSession(t)
          \/ SlotSame
      BY <1>0, <2>6, OwnMoves DEF Handshake
    <3> QED
      BY <2>6, <3>1 DEF Handshake, Hello, Kick, Answer, Header, MakeReady, Receive, ReceiveFails,
                        TakeChunk, StillWanted, GiveUp, Push
  <2>7. ASSUME NEW t \in Slots, NEW w \in Writers, Write(t, w) PROVE SlotSame /\ UNCHANGED open
    <3>1. SlotSame
      BY <1>0, <2>7, OwnWrite
    <3> QED
      BY <2>7, <3>1 DEF Write, BeginWrite, WriteAll, WriteNothing, WritePart, NotAllowed, MutexTimeout
  <2>8. CASE Reject
    BY <2>8 DEF Reject
  <2>9. CASE \/ Peers \/ UNCHANGED vars
             \/ \E m \in Markers : Mark(m)
             \/ \E t \in Slots : StatsLook(t)
    BY <1>0, <2>1, <2>9, RestSame
  <2> QED
    BY <2>1, <2>2, <2>3, <2>4, <2>5, <2>6, <2>7, <2>8, <2>9 DEF Next, Server
<1> QED
  BY <1>1, <1>2, <1>3

\* What a peer was given it keeps, and a connection that is shut stays shut.
LEMMA ConnsKept ==
    ASSUME TypeOK, [Next]_vars, NEW c \in Conns
    PROVE  /\ conn[c].got \subseteq conn'[c].got
           /\ c \in 1 .. made /\ conn[c].state # "open" => conn'[c].state # "open"
<1>1. conn \in [Conns -> ConnRecs] /\ conn[c] \in ConnRecs /\ made \in Nat
  BY TableAssumption DEF TypeOK
<1>2. CASE UNCHANGED conn
  BY <1>2
<1>3. CASE \E d : conn' = [conn EXCEPT ![d].quiet = TRUE]
  BY <1>1, <1>3 DEF ConnRecs
<1>4. CASE \E d, msg : conn' = [conn EXCEPT ![d].got = @ \cup {msg}]
  BY <1>1, <1>4 DEF ConnRecs
<1>5. CASE \E d : conn' = [conn EXCEPT ![d].state = "shut"]
  BY <1>1, <1>5 DEF ConnRecs
<1>6. CASE \E d : conn' = [conn EXCEPT ![d].state = "closed"]
  BY <1>1, <1>6 DEF ConnRecs
<1>7. CASE conn' = [conn EXCEPT ![made + 1].state = "open"]
  BY <1>1, <1>7 DEF ConnRecs
<1>8. ASSUME NEW s \in Slots, NEW w \in Writers, Write(s, w)
      PROVE  UNCHANGED conn \/ \E d, msg : conn' = [conn EXCEPT ![d].got = @ \cup {msg}]
  BY <1>8 DEF Write, BeginWrite, WriteAll, WriteNothing, WritePart, NotAllowed, MutexTimeout
<1>9. ASSUME NEW s \in Slots, Handshake(s) \/ Receive(s) \/ ReceiveFails(s) \/ TakeChunk(s)
                               \/ StillWanted(s) \/ GiveUp(s) \/ Push(s) \/ StatsLook(s) \/ FreeTheSlot(s)
      PROVE  UNCHANGED conn
  BY <1>9 DEF Handshake, StartSession, Hello, Kick, Answer, Header, MakeReady, Receive, ReceiveFails,
              TakeChunk, StillWanted, GiveUp, Push, StatsLook, FreeTheSlot
<1>10. ASSUME NEW s \in Slots, CloseSocket(s) PROVE \E d : conn' = [conn EXCEPT ![d].state = "closed"]
  BY <1>10 DEF CloseSocket
<1>11. ASSUME NEW m \in Markers, Mark(m)
       PROVE  UNCHANGED conn \/ \E d : conn' = [conn EXCEPT ![d].state = "shut"]
  BY <1>11 DEF Mark, MarkLock, MarkShutdown
<1>12. CASE Server
  BY <1>6, <1>7, <1>12 DEF Server, Accept, Reject
<1>13. CASE Peers \/ UNCHANGED vars
  BY <1>2, <1>3, <1>13 DEF Peers, PeerDies, FallSilent, vars
<1> QED
  BY <1>2, <1>4, <1>5, <1>6, <1>8, <1>9, <1>10, <1>11, <1>12, <1>13 DEF Next

\* What a session's peer was given it keeps.
LEMMA GotKept ==
    ASSUME OwnInv, [Next]_vars, NEW s \in Slots, InSession(s), InSession(s)'
    PROVE  Got(s) \subseteq Got(s)'
<1>1. open[slot[s].fd] \in 1 .. made /\ TypeOK
  BY SessionKept DEF OwnInv
<1>2. open[slot[s].fd] \in Conns
  BY <1>1, TableAssumption DEF Conns, TypeOK
<1> QED
  BY <1>1, <1>2, SessionKept, ConnsKept DEF Got

\* A step of others leaves a slot as its task knows it.
LEMMA GivenFrame ==
    ASSUME OwnInv, [Next]_vars, NEW s \in Slots, TaskGiven(s), task'[s].pc = task[s].pc,
           slot'[s].ready => slot[s].ready,
           writer'[s]["task"].pc # "idle" => /\ writer[s]["task"].pc # "idle"
                                            /\ writer'[s]["task"].msg = writer[s]["task"].msg
    PROVE  TaskGiven(s)'
<1>1. CASE InSession(s)
  <2>1. InSession(s)'
    BY <1>1 DEF InSession
  <2>2. Got(s) \subseteq Got(s)'
    BY <1>1, <2>1, GotKept
  <2> QED
    BY <2>2 DEF TaskGiven, At
<1>2. CASE ~InSession(s)
  BY <1>2 DEF TaskGiven, At, InSession
<1> QED
  BY <1>1, <1>2

\* An attempt of the task's own ends: what it wrote, its state says.
LEMMA GivenOutcome ==
    ASSUME OwnInv, [Next]_vars, NEW s \in Slots, TaskGiven(s), Write(s, "task")
    PROVE  TaskGiven(s)'
<1>0. TypeOK /\ Owned /\ "task" \in Writers
  BY TableAssumption DEF OwnInv
<1>1. CASE BeginWrite(s, "task")
  <2>1. writer[s]["task"].pc = "have" /\ UNCHANGED <<task, slot>>
    BY <1>1 DEF BeginWrite
  <2>2. writer'[s]["task"].msg = writer[s]["task"].msg
    <3>1. /\ writer \in [Slots -> [Writers -> WriterRecs]] /\ writer[s] \in [Writers -> WriterRecs]
          /\ writer[s]["task"] \in WriterRecs
      BY <1>0 DEF TypeOK
    <3>2. writer'[s]["task"] = [writer[s]["task"] EXCEPT !.pc = "write", !.fd = slot[s].fd, !.conn = ConnOf(s)]
      BY <1>0, <1>1, <3>1 DEF BeginWrite
    <3> QED
      BY <3>1, <3>2 DEF WriterRecs
  <2> QED
    BY <2>1, <2>2, GivenFrame
<1>2. ASSUME NEW rc \in {-1, 0, 1}, Outcome(s, "task", rc), UNCHANGED slot,
             rc = 0 => WriteAll(s, "task"), writer[s]["task"].pc # "idle"
      PROVE  TaskGiven(s)'
  <2>1. writer'[s]["task"].pc = "idle"
    BY <1>0, <1>2, OutcomeRows DEF IdleWrite
  <2>2. \/ At(s, "settings") /\ task'[s].pc = IF rc = 0 THEN "codec" ELSE "close"
        \/ At(s, "codec") /\ task'[s].pc = IF rc = 0 THEN "ready" ELSE "close"
        \/ At(s, "reply") /\ task'[s].pc = IF rc < 0 THEN "close" ELSE "loop"
    BY <1>0, <1>2, GotoRows DEF Outcome
  <2>3. InSession(s) /\ InSession(s)'
    BY <2>2 DEF InSession, At
  <2>4. Got(s) \subseteq Got(s)'
    BY <2>3, GotKept
  <2>5. ASSUME rc = 0 PROVE writer[s]["task"].msg \in Got(s)'
    <3> DEFINE c == open[slot[s].fd]
    <3>1. writer[s]["task"].fd = slot[s].fd
      BY <1>0, <1>2, <2>5 DEF WriteAll, Owned, MutexHeld
    <3>2. c \in Conns /\ conn \in [Conns -> ConnRecs] /\ conn[c] \in ConnRecs
      BY <1>0, <2>3, SessionKept, TableAssumption DEF Conns, TypeOK
    <3>3. conn'[c] = [conn[c] EXCEPT !.got = @ \cup {writer[s]["task"].msg}]
      BY <1>2, <2>5, <3>1, <3>2 DEF WriteAll
    <3>4. writer[s]["task"].msg \in conn'[c].got
      BY <3>2, <3>3 DEF ConnRecs
    <3> QED
      BY <1>2, <2>3, <3>4, SessionKept DEF Got
  <2>6. slot[s].ready => At(s, "reply")
    BY <2>2 DEF TaskGiven, At
  <2>7. CASE At(s, "settings")
    BY <1>2, <2>1, <2>2, <2>5, <2>6, <2>7 DEF TaskGiven, At
  <2>8. CASE At(s, "codec")
    BY <1>2, <2>1, <2>2, <2>4, <2>5, <2>6, <2>8 DEF TaskGiven, At
  <2>9. CASE At(s, "reply")
    BY <1>2, <2>1, <2>2, <2>4, <2>9 DEF TaskGiven, At
  <2> QED
    BY <2>2, <2>7, <2>8, <2>9
<1>3. CASE WriteAll(s, "task")
  BY <1>2, <1>3 DEF WriteAll
<1>4. CASE WriteNothing(s, "task") \/ WritePart(s, "task") \/ NotAllowed(s, "task") \/ MutexTimeout(s, "task")
  <2>1. PICK rc \in {-1, 1} : Outcome(s, "task", rc)
    BY <1>4 DEF WriteNothing, WritePart, NotAllowed, MutexTimeout
  <2> QED
    BY <1>2, <1>4, <2>1 DEF WriteNothing, WritePart, NotAllowed, MutexTimeout
<1> QED
  BY <1>1, <1>3, <1>4 DEF Write

\* A step that leaves a slot's row of the writers' table alone.
LEMMA OtherRow ==
    ASSUME TypeOK, NEW s \in Slots, NEW t \in Slots, NEW w \in Writers, NEW v \in Writers,
           t # s \/ v # w,
           \/ \E msg : Post(s, w, msg)
           \/ \E r : writer' = [writer EXCEPT ![s][w] = r]
           \/ BeginWrite(s, w) \/ \E rc \in {-1, 0, 1} : Outcome(s, w, rc)
           \/ w = "sender" /\ (StillWanted(s) \/ GiveUp(s))
    PROVE  writer'[t][v] = writer[t][v]
<1>1. writer \in [Slots -> [Writers -> WriterRecs]]
  BY DEF TypeOK
<1>2. CASE \E r : writer' = [writer EXCEPT ![s][w] = r]
  BY <1>1, <1>2
<1>3. (\E msg : Post(s, w, msg)) \/ BeginWrite(s, w) => \E r : writer' = [writer EXCEPT ![s][w] = r]
  BY DEF Post, BeginWrite
<1>4. w = "sender" /\ (StillWanted(s) \/ GiveUp(s)) => \E r : writer' = [writer EXCEPT ![s][w] = r]
  BY DEF StillWanted, GiveUp
<1> QED
  BY <1>2, <1>3, <1>4, OutcomeRows

LEMMA TaskGivenStep ==
    ASSUME OwnInv, [Next]_vars, NEW t \in Slots, TaskGiven(t)
    PROVE  TaskGiven(t)'
<1>0. TypeOK /\ Owned /\ "task" \in Writers
  BY TableAssumption DEF OwnInv
<1>1. CASE task'[t].pc = task[t].pc /\ (slot'[t].ready => slot[t].ready) /\ writer'[t]["task"] = writer[t]["task"]
  BY <1>1, GivenFrame
<1>2. ASSUME NEW s \in Slots, NEW w \in Writers, Write(s, w) PROVE TaskGiven(t)'
  <2>1. CASE s = t /\ w = "task"
    BY <1>2, <2>1, GivenOutcome
  <2>2. CASE t # s \/ w # "task"
    <3>1. BeginWrite(s, w) \/ \E rc \in {-1, 0, 1} : Outcome(s, w, rc)
      BY <1>2 DEF Write, WriteAll, WriteNothing, WritePart, NotAllowed, MutexTimeout
    <3>2. writer'[t]["task"] = writer[t]["task"]
      BY <1>0, <2>2, <3>1, OtherRow
    <3>3. UNCHANGED slot
      BY <1>2 DEF Write, BeginWrite, WriteAll, WriteNothing, WritePart, NotAllowed, MutexTimeout
    <3>4. task'[t] = task[t]
      BY <1>0, <2>2, <3>1, OutcomeRows DEF BeginWrite
    <3> QED
      BY <1>1, <3>2, <3>3, <3>4
  <2> QED
    BY <2>1, <2>2
<1>3. ASSUME NEW s \in Slots, TakeChunk(s) \/ Push(s) \/ StillWanted(s) \/ GiveUp(s) PROVE TaskGiven(t)'
  <2>1. UNCHANGED <<slot, task>>
    BY <1>3 DEF TakeChunk, Push, StillWanted, GiveUp
  <2>2. writer'[t]["task"] = writer[t]["task"]
    <3>1. PICK w \in Writers \ {"task"} : (\E msg : Post(s, w, msg)) \/ (w = "sender" /\ (StillWanted(s) \/ GiveUp(s)))
      BY <1>3 DEF TakeChunk, Push, StillWanted, GiveUp
    <3> QED
      BY <1>0, <3>1, OtherRow
  <2> QED
    BY <1>1, <2>1, <2>2
<1>4. ASSUME NEW s \in Slots, NEW f \in Fds, Accept(s, f) PROVE TaskGiven(t)'
  BY <1>0, <1>1, <1>4, AcceptRows DEF Accept
<1>5. ASSUME NEW s \in Slots, t # s,
             Handshake(s) \/ Receive(s) \/ ReceiveFails(s) \/ FreeTheSlot(s) \/ CloseSocket(s)
      PROVE  TaskGiven(t)'
  <2>1. task'[t].pc = task[t].pc
    <3>1. CASE \E pc : Goto(s, pc)
      BY <1>0, <1>5, <3>1, GotoRows
    <3>2. ASSUME NEW id \in Ids, Hello(s, id) PROVE task'[t].pc = task[t].pc
      BY <1>0, <1>5, <3>2, HelloRows
    <3>3. ASSUME NEW u \in Slots, Kick(s, u) PROVE task'[t].pc = task[t].pc
      BY <1>0, <1>5, <3>3 DEF Kick, TypeOK
    <3>4. CASE StartSession(s) \/ CloseSocket(s)
      BY <1>0, <1>5, <3>4, StartRows, CloseRows
    <3> QED
      BY <1>5, <3>1, <3>2, <3>3, <3>4
         DEF Handshake, Answer, Header, MakeReady, Receive, ReceiveFails, FreeTheSlot
  <2>2. slot'[t] = slot[t]
    <3>1. ASSUME NEW id \in Ids, Hello(s, id) PROVE slot'[t] = slot[t]
      BY <1>0, <1>5, <3>1, HelloRows
    <3>2. CASE FreeTheSlot(s)
      BY <1>0, <1>5, <3>2, FreeRows
    <3>3. CASE MakeReady(s) \/ Receive(s)
      BY <1>0, <1>5, <3>3 DEF MakeReady, Receive, TypeOK
    <3> QED
      BY <1>5, <3>1, <3>2, <3>3
         DEF Handshake, StartSession, Kick, Answer, Header, ReceiveFails, CloseSocket
  <2>3. writer'[t]["task"] = writer[t]["task"]
    <3>1. UNCHANGED writer \/ \E msg : Post(s, "task", msg)
      BY <1>5 DEF Handshake, StartSession, Hello, Kick, Answer, Header, MakeReady, Receive,
                  ReceiveFails, FreeTheSlot, CloseSocket
    <3> QED
      BY <1>0, <1>5, <3>1, OtherRow
  <2> QED
    BY <1>1, <2>1, <2>2, <2>3
<1>6. ASSUME StartSession(t) \/ (\E id \in Ids : Hello(t, id)) \/ (\E u \in Slots : Kick(t, u))
             \/ FreeTheSlot(t) \/ CloseSocket(t)
      PROVE  TaskGiven(t)'
  <2>1. task'[t].pc \in {"hello", "kick", "shut", "parked"}
    <3>1. ASSUME NEW u \in Slots, Kick(t, u) PROVE task'[t].pc = "kick"
      BY <1>0, <3>1, Elements DEF Kick, TypeOK, TaskRecs, At
    <3> QED
      BY <1>0, <1>6, <3>1, StartRows, HelloRows, FreeRows, CloseRows
  <2>2. ~slot'[t].ready
    <3>1. FreeTheSlot(t) \/ task[t].pc \in {"parked", "hello", "kick", "shut"}
      BY <1>0, <1>6, StartRows, HelloRows, CloseRows DEF Kick, At
    <3>2. FreeTheSlot(t) \/ slot'[t].ready = slot[t].ready
      BY <1>0, <1>6, HelloRows DEF StartSession, Kick, CloseSocket
    <3> QED
      BY <1>0, <3>1, <3>2, FreeRows DEF TaskGiven
  <2> QED
    BY <2>1, <2>2 DEF TaskGiven, At
<1>7. ASSUME Answer(t) \/ Header(t) \/ MakeReady(t) \/ Receive(t) \/ ReceiveFails(t)
      PROVE  TaskGiven(t)'
  <2>0. InSession(t) /\ InSession(t)'
    BY <1>0, <1>7, GotoRows DEF Answer, Header, MakeReady, Receive, ReceiveFails, InSession, At
  <2>1. Got(t) \subseteq Got(t)'
    BY <2>0, GotKept
  <2>2. ASSUME NEW msg, Post(t, "task", msg) PROVE writer'[t]["task"].msg = msg
    BY <1>0, <2>2 DEF Post, IdleWrite, TypeOK
  <2>3. CASE Answer(t)
    <3>1. task[t].pc = "kick" /\ task'[t].pc = "settings" /\ UNCHANGED slot /\ writer'[t]["task"].msg = "settings"
      BY <1>0, <2>2, <2>3, GotoRows DEF Answer, At
    <3> QED
      BY <3>1 DEF TaskGiven, At
  <2>4. CASE Header(t)
    <3>1. task[t].pc = "codec" /\ task'[t].pc = "codec" /\ UNCHANGED slot /\ writer'[t]["task"].msg = "codec"
      BY <1>0, <2>2, <2>4 DEF Header, At
    <3> QED
      BY <2>1, <3>1 DEF TaskGiven, At
  <2>5. CASE MakeReady(t)
    <3>1. task[t].pc = "ready" /\ task'[t].pc = "loop"
      BY <1>0, <2>5, GotoRows DEF MakeReady, At
    <3> QED
      BY <2>1, <3>1 DEF TaskGiven, At
  <2>6. CASE Receive(t)
    <3>1. task[t].pc = "loop" /\ task'[t].pc \in {"loop", "reply"}
      BY <1>0, <2>6, GotoRows DEF Receive, At
    <3> QED
      BY <2>1, <3>1 DEF TaskGiven, At
  <2>7. CASE ReceiveFails(t)
    <3>1. task[t].pc \in {"hello", "loop"} /\ task'[t].pc = "close" /\ UNCHANGED slot
      BY <1>0, <2>7, GotoRows DEF ReceiveFails, At
    <3> QED
      BY <2>1, <3>1 DEF TaskGiven, At
  <2> QED
    BY <1>7, <2>3, <2>4, <2>5, <2>6, <2>7
<1>8. CASE \/ Reject \/ Peers \/ UNCHANGED vars
           \/ \E m \in Markers : Mark(m)
           \/ \E s \in Slots : StatsLook(s)
  <2>1. UNCHANGED <<task, writer>>
    BY <1>8 DEF Reject, Peers, PeerDies, FallSilent, Mark, MarkLock, MarkShutdown, StatsLook, vars
  <2>2. slot'[t].ready => slot[t].ready
    <3>1. ASSUME NEW s \in Slots, FallSilent(s) PROVE slot'[t].ready = slot[t].ready
      BY <1>0, <3>1, Elements DEF FallSilent, TypeOK, SlotRecs
    <3>2. ASSUME NEW m \in Markers, MarkLock(m) PROVE slot'[t].ready => slot[t].ready
      BY <1>0, <3>2, Elements DEF MarkLock, TypeOK, SlotRecs
    <3> QED
      BY <1>8, <3>1, <3>2 DEF Reject, Peers, PeerDies, Mark, MarkShutdown, StatsLook, vars
  <2> QED
    BY <1>1, <2>1, <2>2
<1> QED
  BY <1>2, <1>3, <1>4, <1>5, <1>6, <1>7, <1>8 DEF Next, Server, Handshake

\* A chunk that is being written was begun on a ready slot.
LEMMA ChunkGivenStep ==
    ASSUME OwnInv, Handshaken, [Next]_vars, NEW t \in Slots, NEW v \in Writers
    PROVE  ChunkGiven(t, v)'
<1>0. TypeOK /\ Owned
  BY DEF OwnInv
<1>1. CASE writer'[t][v] = writer[t][v] \/ writer'[t][v].pc # "write"
  <2> SUFFICES ASSUME writer[t][v].pc = "write", writer[t][v].msg = "chunk", writer'[t][v] = writer[t][v]
               PROVE  {"settings", "codec"} \subseteq conn'[writer[t][v].conn].got
    BY <1>1 DEF ChunkGiven
  <2>1. writer[t][v].conn \in Conns
    <3>1. slot[t].active /\ slot[t].fd \in Fds /\ writer[t][v].conn = open[slot[t].fd]
      BY <1>0, Elements DEF Owned, MutexHeld, SlotLife, SlotRecs
    <3>2. open[slot[t].fd] # 0 /\ open[slot[t].fd] \in 0 .. MaxConn
      BY <1>0, <3>1, Elements DEF Owned, Held, SlotHas
    <3> QED
      BY <3>1, <3>2, TableAssumption DEF Conns
  <2> QED
    BY <1>0, <2>1, ConnsKept DEF Handshaken, ChunkGiven
<1>2. CASE BeginWrite(t, v)
  <2>1. /\ writer \in [Slots -> [Writers -> WriterRecs]] /\ writer[t] \in [Writers -> WriterRecs]
        /\ writer[t][v] \in WriterRecs
    BY <1>0 DEF TypeOK
  <2>2. writer'[t][v] = [writer[t][v] EXCEPT !.pc = "write", !.fd = slot[t].fd, !.conn = ConnOf(t)]
    BY <1>2, <2>1 DEF BeginWrite
  <2>3. writer'[t][v].msg = writer[t][v].msg /\ writer'[t][v].conn = open[slot[t].fd] /\ UNCHANGED conn
    BY <1>2, <2>1, <2>2 DEF BeginWrite, Allowed, ConnOf, WriterRecs
  <2>4. writer[t][v].msg = "chunk" => slot[t].ready
    BY <1>2 DEF BeginWrite, Allowed
  <2> QED
    BY <2>3, <2>4 DEF Handshaken, TaskGiven, ChunkGiven, Got
<1>3. ASSUME NEW s \in Slots, NEW w \in Writers, Write(s, w), ~BeginWrite(t, v)
      PROVE  writer'[t][v] = writer[t][v] \/ writer'[t][v].pc # "write"
  <2>1. CASE t # s \/ v # w
    <3>1. BeginWrite(s, w) \/ \E rc \in {-1, 0, 1} : Outcome(s, w, rc)
      BY <1>3 DEF Write, WriteAll, WriteNothing, WritePart, NotAllowed, MutexTimeout
    <3> QED
      BY <1>0, <2>1, <3>1, OtherRow
  <2>2. CASE t = s /\ v = w
    <3>1. PICK rc \in {-1, 0, 1} : Outcome(s, w, rc)
      BY <1>3, <2>2 DEF Write, WriteAll, WriteNothing, WritePart, NotAllowed, MutexTimeout
    <3>2. UNCHANGED slot /\ writer[s][w].pc # "idle"
      BY <1>3, <2>2 DEF Write, WriteAll, WriteNothing, WritePart, NotAllowed, MutexTimeout
    <3>3. PICK r \in WriterRecs :
             /\ writer' = [writer EXCEPT ![s][w] = r]
             /\ r.pc \in {"idle", "busy"}
      BY <1>0, <3>1, <3>2, OutcomeSame DEF Owned
    <3>4. writer \in [Slots -> [Writers -> WriterRecs]] /\ writer[s] \in [Writers -> WriterRecs]
      BY <1>0 DEF TypeOK
    <3>5. writer'[t][v] = r
      BY <2>2, <3>3, <3>4
    <3> QED
      BY <3>3, <3>5
  <2> QED
    BY <2>1, <2>2
<1>4. ASSUME NEW s \in Slots, NEW w \in Writers, NEW msg, Post(s, w, msg)
      PROVE  writer'[t][v] = writer[t][v] \/ writer'[t][v].pc # "write"
  <2>1. CASE t # s \/ v # w
    <3>1. \E m : Post(s, w, m)
      BY <1>4
    <3> QED
      BY <1>0, <2>1, <3>1, OtherRow
  <2>2. CASE t = s /\ v = w
    BY <1>0, <1>4, <2>2 DEF Post, IdleWrite, TypeOK
  <2> QED
    BY <2>1, <2>2
<1>5. ASSUME NEW s \in Slots, StillWanted(s) \/ GiveUp(s)
      PROVE  writer'[t][v] = writer[t][v] \/ writer'[t][v].pc # "write"
  <2>1. "sender" \in Writers
    BY <1>5 DEF StillWanted, GiveUp
  <2>2. CASE t # s \/ v # "sender"
    BY <1>0, <1>5, <2>1, <2>2, OtherRow
  <2>3. CASE t = s /\ v = "sender"
    <3>1. writer \in [Slots -> [Writers -> WriterRecs]] /\ writer[s] \in [Writers -> WriterRecs]
          /\ writer[s]["sender"] \in WriterRecs
      BY <1>0, <2>1 DEF TypeOK
    <3>2. \/ writer'[t][v] = [writer[s]["sender"] EXCEPT !.pc = "have"]
          \/ writer'[t][v] = IdleWrite
      BY <1>5, <2>3, <3>1 DEF StillWanted, GiveUp
    <3> QED
      BY <3>1, <3>2 DEF IdleWrite, WriterRecs
  <2> QED
    BY <2>2, <2>3
<1>6. ASSUME NEW s \in Slots, Handshake(s) \/ Receive(s) \/ ReceiveFails(s) \/ FreeTheSlot(s)
                               \/ CloseSocket(s) \/ TakeChunk(s) \/ Push(s)
      PROVE  UNCHANGED writer \/ \E w \in Writers : \E msg : Post(s, w, msg)
  BY <1>6, TableAssumption
     DEF Handshake, StartSession, Hello, Kick, Answer, Header, MakeReady, Receive, ReceiveFails,
         FreeTheSlot, CloseSocket, TakeChunk, Push
<1>7. CASE \/ Server \/ Peers \/ UNCHANGED vars
           \/ \E m \in Markers : Mark(m)
           \/ \E s \in Slots : StatsLook(s)
  <2>1. UNCHANGED writer
    BY <1>7 DEF Server, Accept, Reject, Peers, PeerDies, FallSilent, Mark, MarkLock, MarkShutdown,
                StatsLook, vars
  <2> QED
    BY <1>1, <2>1
<1> QED
  BY <1>1, <1>2, <1>3, <1>4, <1>5, <1>6, <1>7 DEF Next

LEMMA GivenInit == Init => GivenInv
<1> SUFFICES ASSUME Init PROVE Handshaken
  BY OwnInit DEF GivenInv
<1>1. \A s \in Slots : task[s].pc = "parked" /\ ~slot[s].ready
  BY DEF Init, FreeSlot
<1>2. \A s \in Slots, w \in Writers : writer[s][w].pc = "idle"
  BY DEF Init, IdleWrite
<1> QED
  BY <1>1, <1>2 DEF Handshaken, TaskGiven, ChunkGiven, At

LEMMA GivenStep == GivenInv /\ [Next]_vars => GivenInv'
BY OwnStep, TaskGivenStep, ChunkGivenStep DEF GivenInv, Handshaken

\* No chunk is the first thing a client is given.
LEMMA ChunkStep ==
    ASSUME GivenInv, [Next]_vars, NEW c \in Conns, "chunk" \in conn'[c].got \ conn[c].got
    PROVE  {"settings", "codec"} \subseteq conn[c].got
<1>0. TypeOK /\ Owned /\ conn \in [Conns -> ConnRecs] /\ conn[c] \in ConnRecs
  BY DEF GivenInv, OwnInv, TypeOK
<1>1. \/ \E d : conn' = [conn EXCEPT ![d].quiet = TRUE]
      \/ \E d, st : conn' = [conn EXCEPT ![d].state = st]
      \/ UNCHANGED conn
      => conn'[c].got = conn[c].got
  BY <1>0 DEF ConnRecs
<1>2. PICK s \in Slots, w \in Writers : WriteAll(s, w)
  <2>1. ASSUME NEW s \in Slots, NEW w \in Writers, Write(s, w), UNCHANGED conn \/ ~WriteAll(s, w)
        PROVE  UNCHANGED conn
    BY <2>1 DEF Write, BeginWrite, WriteNothing, WritePart, NotAllowed, MutexTimeout
  <2>2. ASSUME NEW s \in Slots, Handshake(s) \/ Receive(s) \/ ReceiveFails(s) \/ TakeChunk(s)
                                 \/ StillWanted(s) \/ GiveUp(s) \/ Push(s) \/ StatsLook(s) \/ FreeTheSlot(s)
        PROVE  UNCHANGED conn
    BY <2>2 DEF Handshake, StartSession, Hello, Kick, Answer, Header, MakeReady, Receive, ReceiveFails,
                TakeChunk, StillWanted, GiveUp, Push, StatsLook, FreeTheSlot
  <2>3. ASSUME NEW s \in Slots, CloseSocket(s) PROVE \E d, st : conn' = [conn EXCEPT ![d].state = st]
    BY <2>3 DEF CloseSocket
  <2>4. ASSUME NEW m \in Markers, Mark(m)
        PROVE  UNCHANGED conn \/ \E d, st : conn' = [conn EXCEPT ![d].state = st]
    BY <2>4 DEF Mark, MarkLock, MarkShutdown
  <2>5. CASE Server
    BY <1>1, <2>5, ZenonT(40) DEF Server, Accept, Reject
  <2>6. CASE Peers \/ UNCHANGED vars
    BY <1>1, <2>6 DEF Peers, PeerDies, FallSilent, vars
  <2> QED
    BY <1>1, <2>1, <2>2, <2>3, <2>4, <2>5, <2>6 DEF Next, Write
<1>3. writer[s][w].pc = "write" /\ writer[s][w].conn = open[writer[s][w].fd]
  <2>1. writer[s][w].pc = "write"
    BY <1>2 DEF WriteAll
  <2>2. MutexHeld
    BY <1>0 DEF Owned
  <2> QED
    BY <2>1, <2>2 DEF MutexHeld
<1>4. c = writer[s][w].conn /\ writer[s][w].msg = "chunk"
  BY <1>0, <1>2, <1>3 DEF WriteAll, ConnRecs
<1> QED
  BY <1>3, <1>4 DEF GivenInv, Handshaken, ChunkGiven

\* On every connection ServerSettings and the codec header come before the first
\* chunk, whatever the other writers of its socket do.
THEOREM HandshakeComesFirst == Spec => HandshakeFirst
<1>1. GivenInv /\ [Next]_vars =>
         [\A c \in Conns : "chunk" \in conn'[c].got \ conn[c].got
             => {"settings", "codec"} \subseteq conn[c].got]_vars
  BY ChunkStep
<1> QED
  BY <1>1, GivenInit, GivenStep, PTL DEF Spec, HandshakeFirst

-----------------------------------------------------------------------------
(* Of two connections of one client one is on its way out *)

\* A mark under way is taken to its end: nobody overwrites it.
LEMMA MarkKept ==
    ASSUME OwnInv, MarksApart, [Next]_vars, NEW m \in Markers, mark[m].pc # "idle"
    PROVE  mark'[m] = mark[m] \/ MarkLock(m) \/ MarkShutdown(m)
<1>0. mark \in [Markers -> MarkRecs]
  BY DEF OwnInv, TypeOK
<1>1. CASE UNCHANGED mark
  BY <1>1
<1>2. ASSUME NEW n \in Markers, Mark(n), n # m PROVE mark'[m] = mark[m]
  <2>1. CASE MarkShutdown(n)
    BY <1>0, <1>2, <2>1 DEF MarkShutdown
  <2>2. CASE MarkLock(n)
    BY <1>0, <1>2, <2>2 DEF MarkLock
  <2> QED
    BY <1>2, <2>1, <2>2 DEF Mark
<1>3. ASSUME NEW s \in Slots, StatsLook(s) PROVE mark'[m] = mark[m]
  <2>1. m # <<"stats", s>>
    BY <1>3 DEF StatsLook
  <2> QED
    BY <1>0, <1>3, <2>1 DEF StatsLook
<1>4. ASSUME NEW s \in Slots, NEW t \in Slots, Kick(s, t) PROVE mark'[m] = mark[m]
  <2>1. m # <<"task", s>>
    BY <1>4 DEF Kick
  <2> QED
    BY <1>0, <1>4, <2>1 DEF Kick
<1>5. ASSUME NEW s \in Slots, NEW w \in Writers, Write(s, w) PROVE mark'[m] = mark[m]
  <2>1. writer[s][w].pc # "idle"
    BY <1>5 DEF Write, BeginWrite, WriteAll, WriteNothing, WritePart, NotAllowed, MutexTimeout
  <2>2. w = "sender" => m # <<"sender", s>>
    BY <2>1 DEF MarksApart
  <2> QED
    BY <1>0, <1>5, <2>2
       DEF Write, BeginWrite, WriteAll, WriteNothing, WritePart, NotAllowed, MutexTimeout, Outcome
<1>6. ASSUME NEW s \in Slots,
             \/ StartSession(s) \/ (\E id \in Ids : Hello(s, id)) \/ Answer(s) \/ Header(s) \/ MakeReady(s)
             \/ Receive(s) \/ ReceiveFails(s) \/ FreeTheSlot(s) \/ CloseSocket(s)
             \/ TakeChunk(s) \/ StillWanted(s) \/ GiveUp(s) \/ Push(s)
      PROVE  UNCHANGED mark
  BY <1>6 DEF StartSession, Hello, Answer, Header, MakeReady, Receive, ReceiveFails, FreeTheSlot,
              CloseSocket, TakeChunk, StillWanted, GiveUp, Push
<1>7. CASE Server \/ Peers \/ UNCHANGED vars
  <2>1. UNCHANGED mark
    BY <1>7 DEF Server, Accept, Reject, Peers, PeerDies, FallSilent, vars
  <2> QED
    BY <2>1
<1>8. CASE \E n \in Markers : Mark(n)
  BY <1>2, <1>8 DEF Mark
<1> QED
  BY <1>1, <1>3, <1>4, <1>5, <1>6, <1>7, <1>8 DEF Next, Handshake

\* The clients a task has still to kick: one goes only by being marked.
LEMMA KickKept ==
    ASSUME OwnInv, MarksApart, [Next]_vars, NEW t \in Slots, NEW s \in task[t].kick
    PROVE  s \in task'[t].kick \/ Kick(t, s)
<1>0. TypeOK /\ task \in [Slots -> TaskRecs] /\ \A u \in Slots : task[u] \in TaskRecs
  BY DEF OwnInv, TypeOK
<1>1. task[t].pc = "kick"
  BY DEF MarksApart, At
<1>2. CASE task'[t].kick = task[t].kick
  BY <1>2
<1>3. ASSUME NEW u \in Slots, NEW pc, Goto(u, pc) PROVE task'[t].kick = task[t].kick
  BY <1>0, <1>3, GotoRows
<1>4. ASSUME NEW u \in Slots, NEW f \in Fds, Accept(u, f) PROVE task'[t].kick = task[t].kick
  BY <1>0, <1>4, AcceptRows
<1>5. ASSUME NEW u \in Slots, NEW v \in Slots, Kick(u, v), ~Kick(t, s) PROVE s \in task'[t].kick
  <2>1. CASE u = t
    <3>1. v # s /\ task'[t] = [task[t] EXCEPT !.kick = @ \ {v}]
      BY <1>0, <1>5, <2>1 DEF Kick
    <3> QED
      BY <1>0, <3>1 DEF TaskRecs
  <2>2. CASE u # t
    BY <1>0, <1>5, <2>2 DEF Kick
  <2> QED
    BY <2>1, <2>2
<1>6. ASSUME NEW u \in Slots, StartSession(u) \/ CloseSocket(u) PROVE task'[t].kick = task[t].kick
  <2>1. u # t
    BY <1>0, <1>1, <1>6, StartRows, CloseRows
  <2> QED
    BY <1>0, <1>6, <2>1, StartRows, CloseRows
<1>7. ASSUME NEW u \in Slots, NEW id \in Ids, Hello(u, id) PROVE task'[t].kick = task[t].kick
  <2>1. u # t
    BY <1>0, <1>1, <1>7, HelloRows
  <2> QED
    BY <1>0, <1>7, <2>1, HelloRows
<1>8. ASSUME NEW u \in Slots, NEW w \in Writers, Write(u, w) PROVE task'[t].kick = task[t].kick
  <2>1. UNCHANGED task \/ \E pc : Goto(u, pc)
    BY <1>8 DEF Write, BeginWrite, WriteAll, WriteNothing, WritePart, NotAllowed, MutexTimeout, Outcome
  <2> QED
    BY <1>3, <2>1
<1>9. ASSUME NEW u \in Slots,
             \/ Answer(u) \/ Header(u) \/ MakeReady(u) \/ Receive(u) \/ ReceiveFails(u) \/ FreeTheSlot(u)
             \/ TakeChunk(u) \/ StillWanted(u) \/ GiveUp(u) \/ Push(u) \/ StatsLook(u)
      PROVE  task'[t].kick = task[t].kick
  <2>1. UNCHANGED task \/ \E pc : Goto(u, pc)
    BY <1>9 DEF Answer, Header, MakeReady, Receive, ReceiveFails, FreeTheSlot, TakeChunk, StillWanted,
                GiveUp, Push, StatsLook
  <2> QED
    BY <1>3, <2>1
<1>10. CASE Reject \/ Peers \/ UNCHANGED vars \/ \E m \in Markers : Mark(m)
  <2>1. UNCHANGED task
    BY <1>10 DEF Reject, Peers, PeerDies, FallSilent, Mark, MarkLock, MarkShutdown, vars
  <2> QED
    BY <2>1
<1> QED
  BY <1>2, <1>4, <1>5, <1>6, <1>7, <1>8, <1>9, <1>10 DEF Next, Server, Handshake

\* A client's id is set by its Hello and taken back when the slot is claimed
\* again, which is also when its task is woken.
LEMMA IdKept ==
    ASSUME OwnInv, [Next]_vars, NEW s \in Slots,
           \A id \in Ids : ~Hello(s, id), \A f \in Fds : ~Accept(s, f)
    PROVE  slot'[s].id = slot[s].id /\ (task'[s].woken => task[s].woken)
<1>0. /\ TypeOK /\ task \in [Slots -> TaskRecs] /\ \A u \in Slots : task[u] \in TaskRecs
      /\ slot \in [Slots -> SlotRecs] /\ \A u \in Slots : slot[u] \in SlotRecs
  BY DEF OwnInv, TypeOK
<1>1. CASE SlotSame
  <2>1. task'[s].woken => task[s].woken
    BY <1>1 DEF SlotSame
  <2>2. CASE UNCHANGED slot
    BY <2>1, <2>2
  <2>3. ASSUME NEW u \in Slots, FallSilent(u) PROVE slot'[s].id = slot[s].id
    BY <1>0, <2>3 DEF FallSilent, SlotRecs
  <2>4. ASSUME NEW m \in Markers, MarkLock(m) PROVE slot'[s].id = slot[s].id
    BY <1>0, <2>4 DEF MarkLock, SlotRecs
  <2>5. ASSUME NEW u \in Slots, MakeReady(u) \/ Receive(u) PROVE slot'[s].id = slot[s].id
    BY <1>0, <2>5 DEF MakeReady, Receive, SlotRecs
  <2>6. ASSUME NEW u \in Slots, NEW id \in Ids, Hello(u, id) PROVE slot'[s].id = slot[s].id
    BY <1>0, <2>6, HelloRows
  <2>7. ASSUME NEW u \in Slots, FreeTheSlot(u) PROVE slot'[s].id = slot[s].id
    BY <1>0, <2>7 DEF FreeTheSlot, SlotRecs
  <2>8. ASSUME NEW u \in Slots, NEW f \in Fds, Accept(u, f) PROVE slot'[s].id = slot[s].id
    BY <1>0, <2>8, AcceptRows
  <2>9. ASSUME NEW u \in Slots, NEW w \in Writers, Write(u, w) PROVE UNCHANGED slot
    BY <2>9 DEF Write, BeginWrite, WriteAll, WriteNothing, WritePart, NotAllowed, MutexTimeout
  <2>10. ASSUME NEW u \in Slots,
                \/ StartSession(u) \/ (\E t \in Slots : Kick(u, t)) \/ Answer(u) \/ Header(u)
                \/ ReceiveFails(u) \/ CloseSocket(u) \/ TakeChunk(u) \/ StillWanted(u) \/ GiveUp(u)
                \/ Push(u) \/ StatsLook(u)
         PROVE  UNCHANGED slot
    BY <2>10 DEF StartSession, Kick, Answer, Header, ReceiveFails, CloseSocket, TakeChunk, StillWanted,
                 GiveUp, Push, StatsLook
  <2>11. CASE Reject \/ Peers \/ UNCHANGED vars \/ \E m \in Markers : Mark(m)
    BY <2>2, <2>3, <2>4, <2>1, <2>11 DEF Reject, Peers, PeerDies, Mark, MarkShutdown, vars
  <2> QED
    BY <2>1, <2>2, <2>5, <2>6, <2>7, <2>8, <2>9, <2>10, <2>11 DEF Next, Server, Handshake
<1>2. ASSUME NEW u \in Slots, NEW f \in Fds, Accept(u, f)
      PROVE  slot'[s].id = slot[s].id /\ (task'[s].woken => task[s].woken)
  BY <1>0, <1>2, AcceptRows
<1>3. ASSUME NEW u \in Slots, StartSession(u)
      PROVE  slot'[s].id = slot[s].id /\ (task'[s].woken => task[s].woken)
  BY <1>0, <1>3, StartRows
<1>4. ASSUME NEW u \in Slots, FreeTheSlot(u)
      PROVE  slot'[s].id = slot[s].id /\ (task'[s].woken => task[s].woken)
  <2>1. slot'[s].id = slot[s].id
    BY <1>0, <1>4 DEF FreeTheSlot, SlotRecs
  <2>2. task'[s].woken = task[s].woken
    BY <1>0, <1>4, FreeRows
  <2> QED
    BY <2>1, <2>2
<1>5. ASSUME NEW u \in Slots, CloseSocket(u)
      PROVE  slot'[s].id = slot[s].id /\ (task'[s].woken => task[s].woken)
  <2>1. task'[s].woken = task[s].woken /\ UNCHANGED slot
    BY <1>0, <1>5, CloseRows
  <2> QED
    BY <2>1
<1>6. ASSUME NEW t \in Slots, Handshake(t) \/ Receive(t) \/ ReceiveFails(t)
                               \/ TakeChunk(t) \/ StillWanted(t) \/ GiveUp(t) \/ Push(t)
      PROVE  StartSession(t) \/ SlotSame
  BY <1>0, <1>6, OwnMoves DEF Handshake, OwnInv
<1>7. CASE \/ Reject \/ Peers \/ UNCHANGED vars
           \/ \E m \in Markers : Mark(m)
           \/ \E t \in Slots : StatsLook(t)
  BY <1>0, <1>1, <1>7, RestSame DEF Reject, SlotSame
<1> QED
  BY <1>0, <1>1, <1>2, <1>3, <1>4, <1>5, <1>6, <1>7, OwnWrite DEF Next, Server, OwnInv

LEMMA MarksApartStep ==
    ASSUME OwnInv, MarksApart, [Next]_vars
    PROVE  MarksApart'
<1>0. /\ TypeOK /\ task \in [Slots -> TaskRecs] /\ \A u \in Slots : task[u] \in TaskRecs
      /\ mark \in [Markers -> MarkRecs]
      /\ OwnInv'
  BY OwnStep DEF OwnInv, TypeOK
<1>1. ASSUME NEW s \in Slots, slot'[s].active, slot'[s].id # NoId PROVE InSession(s)'
  <2>1. \A f \in Fds : ~Accept(s, f)
    BY <1>0, <1>1, AcceptRows
  <2>2. ASSUME NEW id \in Ids, Hello(s, id) PROVE InSession(s)'
    BY <1>0, <2>2, HelloRows DEF InSession
  <2>3. CASE \A id \in Ids : ~Hello(s, id)
    <3>1. slot'[s].id = slot[s].id /\ (task'[s].woken => task[s].woken)
      BY <2>1, <2>3, IdKept
    <3>2. ~task[s].woken
      BY <1>1, <3>1 DEF MarksApart, OwnInv, Owned, SlotLife
    <3> QED
      BY <1>0, <1>1, <3>1, <3>2 DEF OwnInv, Owned, SlotLife
  <2> QED
    BY <2>2, <2>3
<1>2. ASSUME NEW s \in Slots, "sender" \in Writers, writer'[s]["sender"].pc # "idle"
      PROVE  mark'[<<"sender", s>>].pc = "idle"
  <2> DEFINE m == <<"sender", s>>
  <2>0. m \in Markers
    BY DEF Markers
  <2>1. CASE writer[s]["sender"].pc # "idle"
    <3>1. mark[m].pc = "idle"
      BY <1>2, <2>1 DEF MarksApart
    <3>2. CASE UNCHANGED mark
      BY <3>1, <3>2
    <3>3. ASSUME NEW n \in Markers, Mark(n) PROVE mark'[m].pc = "idle"
      <4>1. n # m
        BY <3>1, <3>3 DEF Mark, MarkLock, MarkShutdown
      <4>2. mark'[m] = mark[m]
        <5>1. CASE MarkShutdown(n)
          BY <1>0, <2>0, <4>1, <5>1 DEF MarkShutdown
        <5>2. CASE MarkLock(n)
          BY <1>0, <2>0, <4>1, <5>2 DEF MarkLock
        <5> QED
          BY <3>3, <5>1, <5>2 DEF Mark
      <4> QED
        BY <3>1, <4>2
    <3>4. ASSUME NEW t \in Slots, NEW w \in Writers, Write(t, w), ~(t = s /\ w = "sender")
          PROVE  mark'[m].pc = "idle"
      <4>1. mark'[m] = mark[m]
        BY <1>0, <2>0, <3>4
           DEF Write, BeginWrite, WriteAll, WriteNothing, WritePart, NotAllowed, MutexTimeout, Outcome
      <4> QED
        BY <3>1, <4>1
    <3>5. ASSUME Write(s, "sender") PROVE mark'[m].pc = "idle"
      <4>1. CASE UNCHANGED mark
        BY <3>1, <4>1
      <4>2. CASE ~UNCHANGED mark
        <5>1. PICK rc \in {-1, 0, 1} : Outcome(s, "sender", rc)
          BY <3>5, <4>2 DEF Write, BeginWrite, WriteAll, WriteNothing, WritePart, NotAllowed, MutexTimeout
        <5>2. rc # 1 /\ writer' = [writer EXCEPT ![s]["sender"] = IdleWrite]
          BY <4>2, <5>1 DEF Outcome
        <5>3. writer \in [Slots -> [Writers -> WriterRecs]] /\ writer[s] \in [Writers -> WriterRecs]
          BY <1>0 DEF TypeOK
        <5> QED
          BY <1>2, <5>2, <5>3 DEF IdleWrite
      <4> QED
        BY <4>1, <4>2
    <3>6. ASSUME NEW t \in Slots, StatsLook(t) \/ \E u \in Slots : Kick(t, u) PROVE mark'[m].pc = "idle"
      <4>1. mark'[m] = mark[m]
        BY <1>0, <2>0, <3>6 DEF StatsLook, Kick
      <4> QED
        BY <3>1, <4>1
    <3>7. ASSUME NEW t \in Slots,
                 \/ StartSession(t) \/ (\E id \in Ids : Hello(t, id)) \/ Answer(t) \/ Header(t)
                 \/ MakeReady(t) \/ Receive(t) \/ ReceiveFails(t) \/ FreeTheSlot(t) \/ CloseSocket(t)
                 \/ TakeChunk(t) \/ StillWanted(t) \/ GiveUp(t) \/ Push(t)
          PROVE  UNCHANGED mark
      BY <3>7 DEF StartSession, Hello, Answer, Header, MakeReady, Receive, ReceiveFails, FreeTheSlot,
                  CloseSocket, TakeChunk, StillWanted, GiveUp, Push
    <3>8. CASE Server \/ Peers \/ UNCHANGED vars
      <4>1. UNCHANGED mark
        BY <3>8 DEF Server, Accept, Reject, Peers, PeerDies, FallSilent, vars
      <4> QED
        BY <3>2, <4>1
    <3> QED
      BY <3>2, <3>3, <3>4, <3>5, <3>6, <3>7, <3>8 DEF Next, Handshake
  <2>2. CASE writer[s]["sender"].pc = "idle"
    <3>1. CASE TakeChunk(s)
      BY <3>1 DEF TakeChunk
    <3>2. CASE ~TakeChunk(s)
      <4>1. writer'[s]["sender"] = writer[s]["sender"] \/ writer'[s]["sender"].pc = "idle"
        <5>1. ASSUME NEW t \in Slots, NEW w \in Writers, Write(t, w) PROVE writer'[s]["sender"] = writer[s]["sender"]
          <6>1. t # s \/ w # "sender"
            BY <2>2, <5>1 DEF Write, BeginWrite, WriteAll, WriteNothing, WritePart, NotAllowed, MutexTimeout
          <6>2. BeginWrite(t, w) \/ \E rc \in {-1, 0, 1} : Outcome(t, w, rc)
            BY <5>1 DEF Write, WriteAll, WriteNothing, WritePart, NotAllowed, MutexTimeout
          <6> QED
            BY <1>0, <1>2, <6>1, <6>2, OtherRow
        <5>2. ASSUME NEW t \in Slots, StillWanted(t) \/ GiveUp(t) PROVE writer'[s]["sender"] = writer[s]["sender"]
          <6>1. t # s
            BY <2>2, <5>2 DEF StillWanted, GiveUp
          <6> QED
            BY <1>0, <1>2, <5>2, <6>1, OtherRow
        <5>3. ASSUME NEW t \in Slots, TakeChunk(t) PROVE writer'[s]["sender"] = writer[s]["sender"]
          <6>1. t # s /\ \E msg : Post(t, "sender", msg)
            BY <3>2, <5>3 DEF TakeChunk
          <6> QED
            BY <1>0, <1>2, <6>1, OtherRow
        <5>4. ASSUME NEW t \in Slots, NEW w \in Writers, w # "sender", \E msg : Post(t, w, msg)
              PROVE  writer'[s]["sender"] = writer[s]["sender"]
          BY <1>0, <1>2, <5>4, OtherRow
        <5>5. ASSUME NEW t \in Slots, Handshake(t) \/ Receive(t) \/ ReceiveFails(t) \/ FreeTheSlot(t)
                                       \/ CloseSocket(t) \/ Push(t)
              PROVE  UNCHANGED writer \/ \E w \in Writers \ {"sender"} : \E msg : Post(t, w, msg)
          BY <5>5, TableAssumption
             DEF Handshake, StartSession, Hello, Kick, Answer, Header, MakeReady, Receive, ReceiveFails,
                 FreeTheSlot, CloseSocket, Push
        <5>6. CASE \/ Server \/ Peers \/ UNCHANGED vars
                   \/ \E n \in Markers : Mark(n)
                   \/ \E t \in Slots : StatsLook(t)
          <6>1. UNCHANGED writer
            BY <5>6 DEF Server, Accept, Reject, Peers, PeerDies, FallSilent, Mark, MarkLock, MarkShutdown,
                        StatsLook, vars
          <6> QED
            BY <6>1
        <5> QED
          BY <5>1, <5>2, <5>3, <5>4, <5>5, <5>6 DEF Next
      <4> QED
        BY <1>2, <2>2, <4>1
    <3> QED
      BY <1>2, <3>1, <3>2 DEF TakeChunk
  <2> QED
    BY <2>1, <2>2
<1>3. ASSUME NEW t \in Slots, task'[t].kick # {} PROVE At(t, "kick")'
  <2>1. CASE \E id \in Ids : Hello(t, id)
    BY <1>0, <2>1, HelloRows DEF At
  <2>2. CASE \E u \in Slots : Kick(t, u)
    BY <1>0, <2>2 DEF Kick, TaskRecs, At
  <2>3. CASE /\ \A id \in Ids : ~Hello(t, id)
             /\ \A u \in Slots : ~Kick(t, u)
    <3>1. task'[t].kick = {} \/ (task'[t].kick = task[t].kick /\ (task'[t].pc = task[t].pc \/ task[t].pc # "kick"
                                                              \/ task[t].kick = {}))
      <4>1. CASE task'[t] = task[t]
        BY <4>1
      <4>2. ASSUME NEW u \in Slots, NEW f \in Fds, Accept(u, f)
            PROVE  task'[t].kick = task[t].kick /\ task'[t].pc = task[t].pc
        BY <1>0, <4>2, AcceptRows
      <4>3. ASSUME NEW u \in Slots, u # t, Handshake(u) \/ Receive(u) \/ ReceiveFails(u) \/ FreeTheSlot(u)
                                              \/ CloseSocket(u)
            PROVE  task'[t] = task[t]
        <5>1. ASSUME NEW id \in Ids, Hello(u, id) PROVE task'[t] = task[t]
          BY <1>0, <4>3, <5>1, HelloRows
        <5>2. CASE StartSession(u) \/ FreeTheSlot(u) \/ CloseSocket(u)
          BY <1>0, <4>3, <5>2, StartRows, FreeRows, CloseRows
        <5>3. ASSUME NEW v \in Slots, Kick(u, v) PROVE task'[t] = task[t]
          BY <1>0, <4>3, <5>3 DEF Kick
        <5>4. CASE UNCHANGED task \/ \E pc : Goto(u, pc)
          BY <1>0, <4>3, <5>4 DEF Goto
        <5> QED
          BY <4>3, <5>1, <5>2, <5>3, <5>4 DEF Handshake, Answer, Header, MakeReady, Receive, ReceiveFails
      <4>4. CASE StartSession(t)
        BY <1>0, <4>4, StartRows
      <4>5. CASE CloseSocket(t) \/ FreeTheSlot(t)
        BY <1>0, <4>5, CloseRows, FreeRows
      <4>6. CASE Answer(t)
        BY <1>0, <4>6, GotoRows DEF Answer, At
      <4>7. CASE Header(t) \/ MakeReady(t) \/ Receive(t) \/ ReceiveFails(t)
        BY <1>0, <4>7, GotoRows DEF Header, MakeReady, Receive, ReceiveFails, At
      <4>8. ASSUME NEW u \in Slots, NEW w \in Writers, Write(u, w)
            PROVE  task'[t].kick = task[t].kick /\ (task'[t].pc = task[t].pc \/ task[t].pc # "kick")
        <5>1. CASE UNCHANGED task
          BY <5>1
        <5>2. ASSUME NEW pc, Goto(u, pc), task[u].pc # "kick"
              PROVE  task'[t].kick = task[t].kick /\ (task'[t].pc = task[t].pc \/ task[t].pc # "kick")
          BY <1>0, <5>2, GotoRows
        <5>3. UNCHANGED task \/ \E pc : Goto(u, pc) /\ task[u].pc # "kick"
          BY <4>8 DEF Write, BeginWrite, WriteAll, WriteNothing, WritePart, NotAllowed, MutexTimeout,
                      Outcome, At
        <5> QED
          BY <5>1, <5>2, <5>3
      <4>9. ASSUME NEW u \in Slots,
                   TakeChunk(u) \/ StillWanted(u) \/ GiveUp(u) \/ Push(u) \/ StatsLook(u)
            PROVE  UNCHANGED task
        BY <4>9 DEF TakeChunk, StillWanted, GiveUp, Push, StatsLook
      <4>10. CASE \/ Reject \/ Peers \/ UNCHANGED vars
                  \/ \E n \in Markers : Mark(n)
        <5>1. UNCHANGED task
          BY <4>10 DEF Reject, Peers, PeerDies, FallSilent, Mark, MarkLock, MarkShutdown, vars
        <5> QED
          BY <5>1
      <4> QED
        BY <2>3, <4>1, <4>2, <4>3, <4>4, <4>5, <4>6, <4>7, <4>8, <4>9, <4>10 DEF Next, Server, Handshake
    <3> QED
      BY <1>3, <3>1 DEF MarksApart, At
  <2> QED
    BY <2>1, <2>2, <2>3
<1> QED
  BY <1>1, <1>2, <1>3 DEF MarksApart

\* A connection on its way out stays so until its slot is free.
LEMMA DoomedKept ==
    ASSUME OwnInv, MarksApart, [Next]_vars, NEW s \in Slots, InSession(s), InSession(s)', Doomed(s)
    PROVE  Doomed(s)'
<1>0. /\ TypeOK /\ mark \in [Markers -> MarkRecs] /\ task \in [Slots -> TaskRecs]
      /\ conn \in [Conns -> ConnRecs]
  BY DEF OwnInv, TypeOK
<1>1. /\ slot[s].active /\ slot[s].fd \in Fds /\ open[slot[s].fd] \in 1 .. made
      /\ slot'[s].fd = slot[s].fd /\ task'[s].fd = slot[s].fd /\ task[s].fd = slot[s].fd
      /\ open'[slot[s].fd] = open[slot[s].fd] /\ open[slot[s].fd] \in Conns
  <2>1. open[slot[s].fd] \in 1 .. made => open[slot[s].fd] \in Conns
    BY <1>0, TableAssumption DEF TypeOK, Conns
  <2> QED
    BY <2>1, SessionKept
<1>2. CASE Socket(s).state # "open"
  <2>1. Socket(s)'.state # "open"
    BY <1>0, <1>1, <1>2, ConnsKept DEF Socket
  <2> QED
    BY <2>1 DEF Doomed
<1>3. CASE At(s, "close")
  <2>1. At(s, "close")'
    <3>1. CASE task'[s].pc = task[s].pc
      BY <1>3, <3>1 DEF At
    <3>2. ASSUME NEW u \in Slots, NEW pc, Goto(u, pc), task[u].pc # "close" PROVE task'[s].pc = task[s].pc
      BY <1>0, <1>3, <3>2, GotoRows DEF At
    <3>3. ASSUME NEW u \in Slots, NEW f \in Fds, Accept(u, f) PROVE task'[s].pc = task[s].pc
      BY <1>0, <3>3, AcceptRows
    <3>4. ASSUME NEW u \in Slots, StartSession(u) \/ CloseSocket(u) \/ \E id \in Ids : Hello(u, id)
          PROVE  task'[s].pc = task[s].pc
      BY <1>0, <1>3, <3>4, StartRows, CloseRows, HelloRows DEF At
    <3>5. ASSUME NEW u \in Slots, FreeTheSlot(u) PROVE task'[s].pc = task[s].pc
      BY <1>0, <3>5, FreeRows DEF InSession
    <3>6. ASSUME NEW u \in Slots, NEW v \in Slots, Kick(u, v) PROVE task'[s].pc = task[s].pc
      BY <1>0, <1>3, <3>6 DEF Kick, At
    <3>7. ASSUME NEW u \in Slots, NEW w \in Writers, Write(u, w)
          PROVE  UNCHANGED task \/ \E pc : Goto(u, pc) /\ task[u].pc # "close"
      BY <3>7 DEF Write, BeginWrite, WriteAll, WriteNothing, WritePart, NotAllowed, MutexTimeout, Outcome, At
    <3>8. ASSUME NEW u \in Slots, \/ Answer(u) \/ Header(u) \/ MakeReady(u) \/ Receive(u) \/ ReceiveFails(u)
                                  \/ TakeChunk(u) \/ StillWanted(u) \/ GiveUp(u) \/ Push(u) \/ StatsLook(u)
          PROVE  UNCHANGED task \/ \E pc : Goto(u, pc) /\ task[u].pc # "close"
      BY <3>8 DEF Answer, Header, MakeReady, Receive, ReceiveFails, TakeChunk, StillWanted, GiveUp, Push,
                  StatsLook, At
    <3>9. CASE \/ Reject \/ Peers \/ UNCHANGED vars
               \/ \E n \in Markers : Mark(n)
      <4>1. UNCHANGED task
        BY <3>9 DEF Reject, Peers, PeerDies, FallSilent, Mark, MarkLock, MarkShutdown, vars
      <4> QED
        BY <3>1, <4>1
    <3> QED
      BY <3>1, <3>2, <3>3, <3>4, <3>5, <3>6, <3>7, <3>8, <3>9 DEF Next, Server, Handshake
  <2> QED
    BY <2>1 DEF Doomed
<1>4. ASSUME NEW t \in Slots, s \in task[t].kick PROVE Doomed(s)'
  <2>1. CASE s \in task'[t].kick
    BY <2>1 DEF Doomed
  <2>2. CASE Kick(t, s)
    <3>1. <<"task", t>> \in Markers
      BY DEF Markers
    <3>2. mark'[<<"task", t>>] = [IdleMark(s) EXCEPT !.pc = "lock"]
      BY <1>0, <2>2, <3>1 DEF Kick
    <3>3. mark'[<<"task", t>>].pc = "lock" /\ mark'[<<"task", t>>].slot = s
      BY <3>2 DEF IdleMark
    <3> QED
      BY <3>1, <3>3 DEF Doomed
  <2> QED
    BY <1>4, <2>1, <2>2, KickKept
<1>5. ASSUME NEW m \in Markers, mark[m].pc = "lock", mark[m].slot = s PROVE Doomed(s)'
  <2>1. CASE mark'[m] = mark[m]
    BY <1>5, <2>1 DEF Doomed
  <2>2. CASE MarkLock(m)
    <3>1. mark[m] \in MarkRecs /\ mark'[m] = [mark[m] EXCEPT !.pc = "shutdown", !.fd = slot[s].fd]
      BY <1>0, <1>1, <1>5, <2>2 DEF MarkLock
    <3>2. mark'[m].pc = "shutdown" /\ mark'[m].fd = slot'[s].fd
      BY <1>1, <3>1 DEF MarkRecs
    <3> QED
      BY <3>2 DEF Doomed
  <2> QED
    BY <1>5, <2>1, <2>2, MarkKept DEF MarkShutdown
<1>6. ASSUME NEW m \in Markers, mark[m].pc = "shutdown", mark[m].fd = slot[s].fd PROVE Doomed(s)'
  <2>1. CASE mark'[m] = mark[m]
    BY <1>1, <1>6, <2>1 DEF Doomed
  <2>2. CASE MarkShutdown(m)
    <3> DEFINE c == open[slot[s].fd]
    <3>1. c # 0 /\ conn' = [conn EXCEPT ![c].state = "shut"]
      BY <1>0, <1>1, <1>6, <2>2 DEF MarkShutdown
    <3>2. c \in Conns /\ conn[c] \in ConnRecs
      BY <1>0, <1>1
    <3>3. conn'[c].state = "shut"
      <4> HIDE DEF c
      <4> QED
        BY <1>0, <3>1, <3>2 DEF ConnRecs
    <3> QED
      BY <1>1, <3>3 DEF Doomed, Socket
  <2> QED
    BY <1>6, <2>1, <2>2, MarkKept DEF MarkLock
<1> QED
  BY <1>2, <1>3, <1>4, <1>5, <1>6 DEF Doomed

\* A session starts for a woken task only.
LEMMA NoSessionFromNothing ==
    ASSUME OwnInv, [Next]_vars, NEW s \in Slots, ~InSession(s), ~task[s].woken
    PROVE  ~InSession(s)'
<1>0. TypeOK /\ Owned /\ task \in [Slots -> TaskRecs]
  BY DEF OwnInv, TypeOK
<1>1. CASE SlotSame
  BY <1>1 DEF SlotSame, InSession
<1>2. ASSUME NEW u \in Slots, NEW f \in Fds, Accept(u, f) PROVE ~InSession(s)'
  BY <1>0, <1>2, AcceptRows DEF InSession
<1>3. ASSUME NEW u \in Slots, StartSession(u) \/ FreeTheSlot(u) \/ CloseSocket(u) PROVE ~InSession(s)'
  BY <1>0, <1>3, StartRows, FreeRows, CloseRows DEF InSession
<1>4. ASSUME NEW t \in Slots, Handshake(t) \/ Receive(t) \/ ReceiveFails(t)
                               \/ TakeChunk(t) \/ StillWanted(t) \/ GiveUp(t) \/ Push(t)
      PROVE  StartSession(t) \/ SlotSame
  BY <1>0, <1>4, OwnMoves DEF Handshake
<1>5. CASE \/ Reject \/ Peers \/ UNCHANGED vars
           \/ \E m \in Markers : Mark(m)
           \/ \E t \in Slots : StatsLook(t)
  BY <1>0, <1>1, <1>5, RestSame DEF Reject, SlotSame
<1> QED
  BY <1>0, <1>1, <1>2, <1>3, <1>4, <1>5, OwnWrite DEF Next, Server

LEMMA TwinStep ==
    ASSUME OwnInv, MarksApart, DuplicateDoomed, [Next]_vars
    PROVE  DuplicateDoomed'
<1> SUFFICES ASSUME NEW a \in Slots, NEW b \in Slots, Twins(a, b)'
             PROVE  Doomed(a)' \/ Doomed(b)'
  BY DEF DuplicateDoomed
<1>1. TypeOK /\ OwnInv' /\ MarksApart'
  BY OwnStep, MarksApartStep DEF OwnInv
\* A slot that has an id had its session before the step.
<1>2. ASSUME NEW s \in Slots, slot'[s].active, slot'[s].id # NoId
      PROVE  InSession(s)' /\ InSession(s) /\ slot[s].active
             /\ (slot'[s].id = slot[s].id \/ \E id \in Ids : Hello(s, id))
  <2>1. InSession(s)'
    BY <1>1, <1>2 DEF MarksApart
  <2>2. \A f \in Fds : ~Accept(s, f)
    BY <1>1, <1>2, AcceptRows
  <2>3. CASE \E id \in Ids : Hello(s, id)
    <3>1. InSession(s)
      BY <1>1, <2>3, HelloRows DEF InSession
    <3> QED
      BY <2>1, <2>3, <3>1 DEF OwnInv, Owned, SlotLife
  <2>4. CASE \A id \in Ids : ~Hello(s, id)
    <3>1. slot'[s].id = slot[s].id /\ (task'[s].woken => task[s].woken)
      BY <2>2, <2>4, IdKept
    <3>2. slot[s].active
      <4>1. CASE ~slot[s].active
        <5>1. ~InSession(s) /\ ~task[s].woken
          BY <1>1, <4>1 DEF OwnInv, Owned, SlotLife
        <5>2. ~InSession(s)'
          BY <5>1, NoSessionFromNothing
        <5> QED
          BY <2>1, <5>2
      <4> QED
        BY <4>1
    <3>3. InSession(s)
      BY <1>2, <3>1, <3>2 DEF MarksApart
    <3> QED
      BY <2>1, <3>1, <3>2, <3>3
  <2> QED
    BY <2>3, <2>4
<1>3. /\ a # b /\ slot'[a].active /\ slot'[b].active /\ slot'[a].id = slot'[b].id
      /\ slot'[a].id # NoId /\ slot'[b].id # NoId
  BY DEF Twins
<1>4. ASSUME NEW s \in Slots, NEW t \in Slots, s # t, slot'[s].id = slot'[t].id, slot[t].active,
             NEW id \in Ids, Hello(s, id)
      PROVE  Doomed(t)'
  <2>1. slot'[s].id = id /\ slot'[t] = slot[t]
    BY <1>1, <1>4, HelloRows
  <2>2. t \in task'[s].kick
    <3>1. task'[s].kick = {u \in Slots \ {s} : slot[u].active /\ slot[u].id = id}
      BY <1>1, <1>4, HelloRows
    <3> QED
      BY <1>4, <2>1, <3>1
  <2> QED
    BY <2>2 DEF Doomed
<1>5. CASE (\E id \in Ids : Hello(a, id)) \/ (\E id \in Ids : Hello(b, id))
  BY <1>2, <1>3, <1>4, <1>5
<1>6. CASE ~(\E id \in Ids : Hello(a, id)) /\ ~(\E id \in Ids : Hello(b, id))
  <2>1. Twins(a, b)
    BY <1>2, <1>3, <1>6 DEF Twins
  <2>2. Doomed(a) \/ Doomed(b)
    BY <2>1 DEF DuplicateDoomed
  <2> QED
    BY <1>2, <1>3, <2>2, DoomedKept
<1> QED
  BY <1>5, <1>6

LEMMA TwinInit == Init => TwinInv
<1> SUFFICES ASSUME Init PROVE MarksApart /\ DuplicateDoomed
  BY OwnInit DEF TwinInv
<1>1. \A s \in Slots : ~slot[s].active /\ task[s].kick = {} /\ \A w \in Writers : writer[s][w].pc = "idle"
  BY DEF Init, FreeSlot, IdleWrite
<1> QED
  BY <1>1 DEF MarksApart, DuplicateDoomed, Twins

\* However the handshakes of two connections with one id overlap, one of the two
\* is being shut down.
THEOREM TwinDoomed == Spec => []DuplicateDoomed
<1>1. TwinInv /\ [Next]_vars => TwinInv'
  BY OwnStep, MarksApartStep, TwinStep DEF TwinInv
<1>2. TwinInv => DuplicateDoomed
  BY DEF TwinInv
<1> QED
  BY <1>1, <1>2, TwinInit, PTL DEF Spec
=============================================================================
