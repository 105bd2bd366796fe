------------------------------ MODULE Announce ------------------------------
(***************************************************************************)
(* Voice announcements: the phone app (VoiceAnnounceService.kt), its       *)
(* control connection (snapcontrol.c) and its audio packets, and the       *)
(* server's side (voice_announce.c), where JSON-RPC handlers and the UDP   *)
(* task voice_server_task share the announcement state under one mutex.    *)
(*                                                                         *)
(* The state also stands for what is switched together with it under that  *)
(* mutex: the encoder's complexity, the own speaker and the flag that      *)
(* Settings pushes.  Times are in ticks.  A packet carries the session its *)
(* phone was armed for, which the code does not know, to say what the code *)
(* may mix up.                                                             *)
(***************************************************************************)
EXTENDS Integers, FiniteSets

CONSTANTS
    Phones,
    Fds,       \* descriptors of control connections
    Addrs,     \* addresses of phones, or of the relays they are behind
    AddrOf,    \* the address of every phone
    NoFd,      \* -1
    AnyAddr,   \* owner address 0: accept any sender
    Silence,   \* VOICE_SILENCE_LIMIT_US
    Grace,     \* VOICE_START_GRACE_US
    Limit,     \* VOICE_MAX_DURATION_US
    MaxLag,    \* bound: ticks that pass during one round of voice_server_task
    MaxTries,  \* bound: times an app is asked to announce
    MaxSeq,    \* bound: packets of one announcement
    MaxFlight  \* bound: packets under way at a time

ASSUME AnnounceAssumption ==
    /\ AddrOf \in [Phones -> Addrs] /\ AnyAddr \notin Addrs /\ NoFd \notin Fds
    /\ Fds \subseteq Nat /\ IsFiniteSet(Fds) /\ IsFiniteSet(Phones)
    /\ Cardinality(Fds) >= Cardinality(Phones)
    /\ {Silence, Grace, MaxLag, MaxTries, MaxSeq, MaxFlight} \subseteq Nat
    /\ Limit \in Nat /\ Silence < Grace /\ Grace < Limit

VARIABLES
    st,    \* s_active, s_owner_fd, s_owner_ip, s_session and the age of s_started_us
    phone, \* the app and its control connection
    net,   \* audio packets on their way
    task,  \* voice_server_task
    fed,   \* the newest packet of this session the task has received, and when
    tries

vars == <<st, phone, net, task, fed, tries>>

Session == 0 .. MaxTries
Seqs    == 0 .. MaxSeq
MaxAge  == Limit + MaxLag + 1
NoPacket == [addr |-> AnyAddr, run |-> 0, seq |-> 0]
Packets == [addr : Addrs, run : Session, seq : Seqs]

IdleState == [active |-> FALSE, fd |-> NoFd, addr |-> AnyAddr, session |-> 0, age |-> 0]
IdlePhone == [pc |-> "idle", fd |-> NoFd, run |-> 0, seq |-> 0, asked |-> FALSE, capturing |-> FALSE]
NotFed    == [any |-> FALSE, seq |-> 0, ago |-> 0]
FreshTask == [pc |-> "recv", pkt |-> NoPacket, lag |-> 0, active |-> FALSE, session |-> 0,
              addr |-> AnyAddr, age |-> 0, seen |-> 0, audio |-> FALSE, run |-> 0, seq |-> 0,
              ago |-> 0]

States  == [active : BOOLEAN, fd : Fds \cup {NoFd}, addr : Addrs \cup {AnyAddr},
            session : Session, age : 0 .. MaxAge]
Apps    == [pc : {"idle", "answered", "checked", "onair", "leaving", "closing", "ended", "lost"},
            fd : Fds \cup {NoFd}, run : Session, seq : 0 .. MaxSeq + 1,
            asked : BOOLEAN, capturing : BOOLEAN]
Tasks   == [pc : {"recv", "round"}, pkt : Packets \cup {NoPacket}, lag : 0 .. MaxLag,
            active : BOOLEAN, session : Session, addr : Addrs \cup {AnyAddr}, age : 0 .. MaxAge,
            seen : Session, audio : BOOLEAN, run : Session, seq : Seqs, ago : 0 .. MaxAge]
Feeds   == [any : BOOLEAN, seq : Seqs, ago : 0 .. MaxAge]

TypeOK ==
    /\ st \in States /\ phone \in [Phones -> Apps] /\ task \in Tasks /\ fed \in Feeds
    /\ net \subseteq Packets /\ Cardinality(net) <= MaxFlight
    /\ tries \in Session
    /\ st.active <=> st.fd # NoFd

Init ==
    /\ st = IdleState
    /\ phone = [p \in Phones |-> IdlePhone]
    /\ net = {} /\ task = FreshTask /\ fed = NotFed /\ tries = 0

-----------------------------------------------------------------------------
(* The announcement state, changed under s_state_mutex.                     *)

\* stop_locked; the owner's address and the start are not read any more.
Stopped == [IdleState EXCEPT !.session = st.session]

\* voice_announce_rpc_start, for a connection whose address can be had.
Started(fd, p) == [active |-> TRUE, fd |-> fd, addr |-> AddrOf[p],
                   session |-> st.session + 1, age |-> 0]

-----------------------------------------------------------------------------
(* The app, and ctrl_conn_task for its connection.                          *)

Used == {phone[q].fd : q \in Phones}

Move(p, pc) == phone' = [phone EXCEPT ![p].pc = pc]

\* The app leaves: packet numbers and the wish to stop matter no more.
Leave(p, pc) == phone' = [phone EXCEPT ![p].pc = pc, ![p].seq = 0, ![p].asked = FALSE,
                                       ![p].capturing = FALSE]

\* accept gives out the lowest descriptor that is free.
FreeFd == CHOOSE f \in Fds \ Used : \A g \in Fds \ Used : f <= g

\* ACTION_START: the app connects and asks with Voice.Start, which is refused
\* (run 0) while any announcement runs.
Start(p) ==
    /\ phone[p].pc = "idle" /\ tries < MaxTries
    /\ tries' = tries + 1
    /\ phone' = [phone EXCEPT ![p] = [IdlePhone EXCEPT !.pc = "answered", !.fd = FreeFd,
                                                      !.run = IF st.active THEN 0 ELSE st.session + 1]]
    /\ IF st.active
       THEN UNCHANGED <<st, fed>>
       ELSE /\ st' = Started(FreeFd, p)
            /\ fed' = NotFed
    /\ UNCHANGED <<net, task>>

\* ACTION_STOP, the notification's button or a lost Wi-Fi: requestStop.
AskStop(p) ==
    /\ phone[p].pc \in {"answered", "checked", "onair"} /\ ~phone[p].asked
    /\ phone' = [phone EXCEPT ![p].asked = TRUE, ![p].capturing = FALSE]
    /\ UNCHANGED <<st, net, task, fed, tries>>

\* The answer: leave when refused, with Voice.Stop when armed but no longer
\* wanted.
Check(p) ==
    /\ phone[p].pc = "answered"
    /\ CASE phone[p].run = 0                    -> Leave(p, "closing")
         [] phone[p].run # 0 /\ phone[p].asked  -> Leave(p, "leaving")
         [] phone[p].run # 0 /\ ~phone[p].asked -> Move(p, "checked")
    /\ UNCHANGED <<st, net, task, fed, tries>>

\* The answer does not arrive in time: the app leaves without Voice.Stop.
AnswerLost(p) ==
    /\ phone[p].pc = "answered"
    /\ Leave(p, "closing")
    /\ UNCHANGED <<st, net, task, fed, tries>>

\* From here on the network is watched and the microphone runs.
GoOnAir(p) ==
    /\ phone[p].pc = "checked"
    /\ phone' = [phone EXCEPT ![p].pc = "onair", ![p].capturing = TRUE]
    /\ UNCHANGED <<st, net, task, fed, tries>>

\* A packet; its number starts at 0 for every announcement.  It may be lost.
Send(p) ==
    LET q == phone[p] IN
    /\ q.pc = "onair" /\ q.capturing /\ q.seq <= MaxSeq
    /\ phone' = [phone EXCEPT ![p].seq = @ + 1]
    /\ \/ net' = net
       \/ /\ Cardinality(net) < MaxFlight
          /\ net' = net \cup {[addr |-> AddrOf[p], run |-> q.run, seq |-> q.seq]}
    /\ UNCHANGED <<st, task, fed, tries>>

\* The capture loop notices that it shall end, or fails.
StopCapture(p) ==
    /\ phone[p].pc = "onair"
    /\ Leave(p, "leaving")
    /\ UNCHANGED <<st, net, task, fed, tries>>

\* Voice.Stop, from any connection; the app goes on although it may fail.
RpcStop(p) ==
    /\ phone[p].pc = "leaving"
    /\ Move(p, "closing")
    /\ st' \in {Stopped, st}
    /\ UNCHANGED <<net, task, fed, tries>>

\* The phone is gone without a word; its connection stays open.
Vanish(p) ==
    /\ phone[p].pc \in {"answered", "onair"}
    /\ Leave(p, "lost")
    /\ UNCHANGED <<st, net, task, fed, tries>>

\* What of a connection's end concerns the announcement.
Disconnect(fd) == IF st.active /\ st.fd = fd THEN Stopped ELSE st

\* Mutant: a disconnect says nothing to the announcement.
OnDisconnectNobody(p) ==
    /\ phone[p].pc = "closing"
    /\ Move(p, "ended")
    /\ UNCHANGED <<st, net, task, fed, tries>>

\* ctrl_conn_task ends: first voice_announce_on_control_disconnect ...
OnDisconnect(p) ==
    /\ phone[p].pc = "closing"
    /\ st' = Disconnect(phone[p].fd)
    /\ Move(p, "ended")
    /\ UNCHANGED <<net, task, fed, tries>>

\* ... then the descriptor is closed and may be given to another connection.
CloseFd(p) ==
    /\ phone[p].pc = "ended"
    /\ phone' = [phone EXCEPT ![p] = IdlePhone]
    /\ UNCHANGED <<st, net, task, fed, tries>>

-----------------------------------------------------------------------------
(* voice_server_task.                                                       *)

\* A packet of this very announcement that comes in order.
Newer(k) == k # NoPacket /\ k.run = st.session /\ (fed.any => k.seq > fed.seq)

\* recvfrom: a packet, or nothing within VOICE_POLL_MS; then the time, and
\* the copy of the state taken under the mutex.
Recv ==
    /\ task.pc = "recv"
    /\ \E k \in net \cup {NoPacket} :
         /\ net' = net \ {k}
         /\ task' = [task EXCEPT !.pc = "round", !.pkt = k, !.active = st.active,
                       !.session = st.session, !.addr = st.addr, !.age = st.age]
         /\ fed' = CASE ~st.active  -> NotFed
                     [] st.active /\ Newer(k)  -> [any |-> TRUE, seq |-> k.seq, ago |-> 0]
                     [] st.active /\ ~Newer(k) -> fed
    /\ UNCHANGED <<st, phone, tries>>

\* A session not seen before: what was heard of the last one is forgotten.
\* Nor does it matter once an announcement is over.
Noticed == IF task.session = task.seen /\ task.active THEN task
           ELSE [task EXCEPT !.seen = task.session, !.audio = FALSE, !.run = 0, !.seq = 0, !.ago = 0]

\* Back to recvfrom; what the round copied is copied anew.
Again(t) == [t EXCEPT !.pc = "recv", !.pkt = NoPacket, !.lag = 0, !.active = FALSE,
                      !.session = 0, !.addr = AnyAddr, !.age = 0]

\* Audio from the owner's address that is newer than the last: task.audio
\* says that there was one (have_audio and have_phone_sequence change alike).
Heard(t) ==
    /\ t.pkt # NoPacket
    /\ t.addr \in {AnyAddr, t.pkt.addr}
    /\ t.audio => t.pkt.seq > t.seq

Taken(t) == IF Heard(t) THEN [t EXCEPT !.audio = TRUE, !.run = t.pkt.run, !.seq = t.pkt.seq,
                                       !.ago = t.lag]
            ELSE t

\* Mutant: the limits are looked at only once there was audio.
TimedOutHeard(t) == t.audio /\ (t.age > Limit \/ t.ago - t.lag > Silence)

\* 3 min, 1 s without audio, or 3 s without any.
TimedOut(t) ==
    \/ t.age > Limit
    \/ t.audio /\ t.ago - t.lag > Silence
    \/ ~t.audio /\ t.age > Grace

\* Mutant: whatever runs is stopped.
ExpireAny(t) == IF st.active THEN Stopped ELSE st

\* Only the announcement that was looked at is stopped.
Expire(t) == IF st.active /\ st.session = t.session THEN Stopped ELSE st

\* The rest of the round; relaying and priming change nothing here.
Round ==
    LET n == Noticed
        t == Taken(n)
    IN
    /\ task.pc = "round"
    /\ IF ~n.active
       THEN /\ task' = Again(n)
            /\ UNCHANGED st
       ELSE /\ task' = Again(t)
            /\ st' = IF TimedOut(t) THEN Expire(t) ELSE st
    /\ UNCHANGED <<phone, net, fed, tries>>

-----------------------------------------------------------------------------
Older(a) == IF a < MaxAge THEN a + 1 ELSE a

\* Time passes; a round of the task takes no longer than MaxLag.
Tick ==
    /\ task.pc = "recv" \/ task.lag < MaxLag
    /\ st' = IF st.active THEN [st EXCEPT !.age = Older(@)] ELSE st
    /\ task' = [task EXCEPT !.lag = IF task.pc = "recv" THEN 0 ELSE @ + 1,
                            !.ago = IF task.audio THEN Older(@) ELSE @]
    /\ fed' = IF fed.any THEN [fed EXCEPT !.ago = Older(@)] ELSE fed
    /\ UNCHANGED <<phone, net, tries>>

TaskStep == Recv \/ Round
AppStep(p) == Check(p) \/ GoOnAir(p) \/ StopCapture(p) \/ RpcStop(p)
              \/ OnDisconnect(p) \/ CloseFd(p)

Next ==
    \/ \E p \in Phones : Start(p) \/ AskStop(p) \/ AnswerLost(p) \/ Send(p) \/ Vanish(p) \/ AppStep(p)
    \/ TaskStep \/ Tick

Spec == Init /\ [][Next]_vars

\* The task polls and time passes (strong fairness, for a round that takes
\* longer than MaxLag would hold it back); nothing is asked of the apps.
FairSpec == Spec /\ WF_vars(TaskStep) /\ SF_vars(Tick)

-----------------------------------------------------------------------------
(* An announcement belongs to the connection that started it: its          *)
(* descriptor is never one that has been closed or given to somebody else, *)
(* whose disconnect would then end it.                                     *)
OwnerOpen ==
    st.active => \E p \in Phones : phone[p].fd = st.fd /\ phone[p].run = st.session

\* The last packet the task took is not of the announcement that runs.
Stray == \/ task.audio /\ task.seen = st.session /\ task.run # st.session
         \/ task.pkt # NoPacket /\ task.pkt.run # st.session

(* A watchdog stops an announcement only when the limit it names has       *)
(* passed for this very announcement, counting every packet that reached   *)
(* the task in order -- unless a packet of another one was taken for its   *)
(* own, which starts from a number of its own and locks the owner out.     *)
WatchdogsRight ==
    [][Round /\ st.active /\ ~st'.active
         => \/ st.age - task.lag > Limit
            \/ fed.any /\ fed.ago - task.lag > Silence
            \/ ~fed.any /\ st.age - task.lag > Grace
            \/ Stray]_vars

(* Whatever becomes of the phone that started it, an announcement ends and *)
(* the music comes back.                                                   *)
AlwaysEnds == st.active ~> ~st.active
=============================================================================
