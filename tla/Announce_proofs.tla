-------------------------- MODULE Announce_proofs --------------------------
(***************************************************************************)
(* Proofs about voice announcements for any number of phones, descriptors, *)
(* packets and tries: an announcement belongs to a connection that is      *)
(* still open, and no watchdog ends one whose limit has not passed.        *)
(***************************************************************************)
EXTENDS Announce, FiniteSetTheorems, WellFoundedInduction, TLAPS

\* The bounds are numbers.
LEMMA Bounds ==
    /\ Silence \in Nat /\ Grace \in Nat /\ Limit \in Nat /\ MaxLag \in Nat
    /\ MaxTries \in Nat /\ MaxSeq \in Nat /\ MaxFlight \in Nat
BY AnnounceAssumption

\* A set of descriptors that is not empty has a lowest one: the one with the
\* fewest below it.
LEMMA LowestFd ==
    ASSUME NEW T \in SUBSET Fds, T # {}
    PROVE  \E f \in T : \A g \in T : f <= g
<1> DEFINE Below(f) == {g \in T : g < f}
           Belows   == {Below(f) : f \in T}
<1>1. T \subseteq Nat /\ IsFiniteSet(T)
  BY AnnounceAssumption, FS_Subset
<1>2. PICK A \in Belows : \A B \in Belows : ~(<<B, A>> \in StrictSubsetOrdering(T))
  <2>1. IsWellFoundedOn(StrictSubsetOrdering(T), FiniteSubsetsOf(T))
    BY FS_StrictSubsetOrderingWellFounded
  <2>2. FiniteSubsetsOf(T) = SUBSET T
    BY <1>1, FS_FiniteSubsetsOfFinite
  <2>3. Belows \subseteq SUBSET T /\ Belows # {}
    OBVIOUS
  <2> HIDE DEF Belows
  <2> QED
    BY <2>1, <2>2, <2>3, WFMin
<1>3. PICK f \in T : A = Below(f)
  BY <1>2
<1>4. ASSUME NEW g \in T PROVE f <= g
  <2>1. SUFFICES ASSUME g < f PROVE FALSE
    BY <1>1
  <2>2. Below(g) \subseteq Below(f)
    <3>1. \A h \in T : h < g => h < f
      BY <1>1, <2>1
    <3> QED
      BY <3>1
  <2>3. g \in Below(f) /\ g \notin Below(g)
    BY <1>1, <2>1
  <2>4. Below(g) \in Belows /\ <<Below(g), Below(f)>> \in StrictSubsetOrdering(T)
    BY <2>2, <2>3 DEF StrictSubsetOrdering
  <2>5. Below(g) \in Belows /\ <<Below(g), A>> \in StrictSubsetOrdering(T)
    BY <1>3, <2>4
  <2> HIDE DEF Below, Belows
  <2> QED
    BY <1>2, <2>5
<1> QED
  BY <1>4
-----------------------------------------------------------------------------
\* A phone that has no connection holds no descriptor, and once it was told
\* that a connection ended, the announcement is not that connection's.
NoStale ==
    \A p \in Phones : /\ phone[p].pc = "idle" => phone[p].fd = NoFd
                      /\ phone[p].pc = "ended" /\ st.active => st.fd # phone[p].fd

\* Sessions are counted by the tries, and packets under way can be counted.
Counted == st.session <= tries /\ IsFiniteSet(net)

\* The inductive invariant.
OwnerInv == TypeOK /\ OwnerOpen /\ NoStale /\ Counted

\* A phone without a connection finds a descriptor nobody has: there are at
\* least as many as phones.
LEMMA FreeOne ==
    ASSUME TypeOK, NoStale, NEW p \in Phones, phone[p].pc = "idle"
    PROVE  FreeFd \in Fds /\ \A q \in Phones : phone[q].fd # FreeFd
<1>1. Fds \ Used # {}
  <2> SUFFICES ASSUME Fds \subseteq Used PROVE FALSE
    OBVIOUS
  <2> DEFINE Others == Phones \ {p}
             holder == [f \in Fds |-> CHOOSE q \in Phones : phone[q].fd = f]
  <2>1. ASSUME NEW f \in Fds PROVE holder[f] \in Others /\ phone[holder[f]].fd = f
    <3>1. \E q \in Phones : phone[q].fd = f
      BY DEF Used
    <3>2. holder[f] \in Phones /\ phone[holder[f]].fd = f
      BY <3>1
    <3>3. phone[p].fd = NoFd /\ f # NoFd
      BY AnnounceAssumption DEF NoStale
    <3> QED
      BY <3>2, <3>3
  <2>2. holder \in [Fds -> Others]
    BY <2>1
  <2>3. IsFiniteSet(Others) /\ Cardinality(Others) = Cardinality(Phones) - 1
    BY AnnounceAssumption, FS_RemoveElement
  <2>4. Cardinality(Others) < Cardinality(Fds)
    BY <2>3, AnnounceAssumption, FS_CardinalityType
  <2>5. IsFiniteSet(Fds) /\ IsFiniteSet(Others)
    BY <2>3, AnnounceAssumption
  <2> HIDE DEF holder, Others
  <2>6. \E f, g \in Fds : f # g /\ holder[f] = holder[g]
    <3>1. \A h \in [Fds -> Others] : \E f, g \in Fds : f # g /\ h[f] = h[g]
      BY <2>4, <2>5, FS_PigeonHole, SMTT(30)
    <3> QED
      BY <2>2, <3>1
  <2> QED
    BY <2>1, <2>6
<1>2. \E f \in Fds \ Used : \A g \in Fds \ Used : f <= g
  BY <1>1, LowestFd
<1>3. FreeFd \in Fds \ Used
  BY <1>2 DEF FreeFd
<1> QED
  BY <1>3 DEF Used

\* The initial state.
LEMMA OwnerInit == Init => OwnerInv
<1> SUFFICES ASSUME Init PROVE OwnerInv
  OBVIOUS
<1>1. IsFiniteSet(net) /\ Cardinality(net) = 0
  BY FS_EmptySet DEF Init
<1> QED
  BY <1>1, Bounds DEF Init, OwnerInv, TypeOK, OwnerOpen, NoStale, Counted, IdleState, IdlePhone,
     NotFed, FreshTask, States, Apps, Tasks, Feeds, Session, Seqs, MaxAge

-----------------------------------------------------------------------------
\* What one phone does for itself keeps the announcement where it is.
LEMMA PhoneMoves ==
    ASSUME OwnerInv, NEW p \in Phones, UNCHANGED <<st, net, task, fed, tries>>,
           NEW a \in Apps, phone' = [phone EXCEPT ![p] = a],
           a.fd = phone[p].fd, a.run = phone[p].run, a.pc \notin {"idle", "ended"}
    PROVE  OwnerInv'
<1>1. /\ phone \in [Phones -> Apps] /\ phone' \in [Phones -> Apps]
      /\ \A q \in Phones : phone'[q] = IF q = p THEN a ELSE phone[q]
  BY DEF OwnerInv, TypeOK
<1>2. TypeOK'
  BY <1>1 DEF OwnerInv, TypeOK
<1>3. OwnerOpen'
  BY <1>1 DEF OwnerInv, OwnerOpen
<1>4. NoStale'
  BY <1>1 DEF OwnerInv, NoStale
<1> QED
  BY <1>2, <1>3, <1>4 DEF OwnerInv, Counted

\* The steps of one phone.
LEMMA PhoneStep ==
    ASSUME OwnerInv, NEW p \in Phones,
           \/ AskStop(p) \/ AnswerLost(p) \/ Vanish(p) \/ Check(p) \/ GoOnAir(p) \/ StopCapture(p)
    PROVE  OwnerInv'
<1> DEFINE Pcs == {"answered", "checked", "onair", "leaving", "closing", "lost"}
<1>1. phone[p] \in Apps /\ 0 \in 0 .. MaxSeq + 1
  BY Bounds DEF OwnerInv, TypeOK
<1>2. ASSUME NEW pc \in Pcs, Leave(p, pc), UNCHANGED <<st, net, task, fed, tries>>
      PROVE OwnerInv'
  <2> DEFINE a == [phone[p] EXCEPT !.pc = pc, !.seq = 0, !.asked = FALSE, !.capturing = FALSE]
  <2>1. a \in Apps /\ a.fd = phone[p].fd /\ a.run = phone[p].run /\ a.pc \notin {"idle", "ended"}
    BY <1>1, <1>2 DEF Apps
  <2>2. phone' = [phone EXCEPT ![p] = a]
    BY <1>2 DEF Leave, OwnerInv, TypeOK
  <2> QED
    BY <1>2, <2>1, <2>2, PhoneMoves
<1>3. ASSUME NEW pc \in Pcs, Move(p, pc), UNCHANGED <<st, net, task, fed, tries>>
      PROVE OwnerInv'
  <2> DEFINE a == [phone[p] EXCEPT !.pc = pc]
  <2>1. a \in Apps /\ a.fd = phone[p].fd /\ a.run = phone[p].run /\ a.pc \notin {"idle", "ended"}
    BY <1>1, <1>3 DEF Apps
  <2>2. phone' = [phone EXCEPT ![p] = a]
    BY <1>3 DEF Move, OwnerInv, TypeOK
  <2> QED
    BY <1>3, <2>1, <2>2, PhoneMoves
<1>4. CASE AskStop(p)
  <2> DEFINE a == [phone[p] EXCEPT !.asked = TRUE, !.capturing = FALSE]
  <2>1. a \in Apps /\ a.fd = phone[p].fd /\ a.run = phone[p].run /\ a.pc \notin {"idle", "ended"}
    BY <1>1, <1>4 DEF Apps, AskStop
  <2>2. phone' = [phone EXCEPT ![p] = a]
    BY <1>4 DEF AskStop, OwnerInv, TypeOK
  <2> QED
    BY <1>4, <2>1, <2>2, PhoneMoves DEF AskStop
<1>5. CASE GoOnAir(p)
  <2> DEFINE a == [phone[p] EXCEPT !.pc = "onair", !.capturing = TRUE]
  <2>1. a \in Apps /\ a.fd = phone[p].fd /\ a.run = phone[p].run /\ a.pc \notin {"idle", "ended"}
    BY <1>1, <1>5 DEF Apps, GoOnAir
  <2>2. phone' = [phone EXCEPT ![p] = a]
    BY <1>5 DEF GoOnAir, OwnerInv, TypeOK
  <2> QED
    BY <1>5, <2>1, <2>2, PhoneMoves DEF GoOnAir
<1>6. CASE Check(p)
  <2>1. \/ Leave(p, "closing") \/ Leave(p, "leaving") \/ Move(p, "checked")
    BY <1>1, <1>6 DEF Check, Apps
  <2> QED
    BY <1>2, <1>3, <1>6, <2>1 DEF Check
<1>7. CASE AnswerLost(p) \/ Vanish(p) \/ StopCapture(p)
  BY <1>2, <1>7 DEF AnswerLost, Vanish, StopCapture
<1> QED
  BY <1>4, <1>5, <1>6, <1>7

-----------------------------------------------------------------------------
\* A stopped announcement is a well-typed one that has no owner.
LEMMA StoppedState ==
    ASSUME OwnerInv
    PROVE  Stopped \in States /\ ~Stopped.active /\ Stopped.fd = NoFd
           /\ Stopped.session = st.session
<1>1. st.session \in Session /\ 0 \in 0 .. MaxAge
  BY Bounds DEF OwnerInv, TypeOK, States, MaxAge
<1> QED
  BY <1>1 DEF States, Stopped, IdleState

\* An announcement that begins belongs to the connection that asked for it.
LEMMA StartStep ==
    ASSUME OwnerInv, NEW p \in Phones, Start(p)
    PROVE  OwnerInv'
<1> DEFINE a == [IdlePhone EXCEPT !.pc = "answered", !.fd = FreeFd,
                                  !.run = IF st.active THEN 0 ELSE st.session + 1]
<1>1. FreeFd \in Fds /\ FreeFd # NoFd /\ \A q \in Phones : phone[q].fd # FreeFd
  BY AnnounceAssumption, FreeOne DEF OwnerInv, Start
<1>2. /\ tries \in 0 .. MaxTries /\ tries < MaxTries /\ tries' = tries + 1
      /\ st.session \in 0 .. MaxTries /\ st.session <= tries /\ st \in States
  BY DEF OwnerInv, TypeOK, Start, States, Session, Counted
<1>3. st.session + 1 \in Session /\ tries' \in Session
  BY Bounds, <1>2 DEF Session
<1>4. a \in Apps /\ a.fd = FreeFd /\ a.pc = "answered"
      /\ a.run = IF st.active THEN 0 ELSE st.session + 1
  <2>1. 0 \in Session /\ 0 \in 0 .. MaxSeq + 1
    BY Bounds DEF Session
  <2>2. (IF st.active THEN 0 ELSE st.session + 1) \in Session
    BY <1>3, <2>1
  <2> QED
    BY <1>1, <2>1, <2>2 DEF IdlePhone, Apps
<1>5. /\ phone \in [Phones -> Apps] /\ phone' \in [Phones -> Apps]
      /\ \A q \in Phones : phone'[q] = IF q = p THEN a ELSE phone[q]
  BY <1>4 DEF OwnerInv, TypeOK, Start
<1>6. phone[p].fd = NoFd /\ UNCHANGED <<net, task>>
  BY DEF OwnerInv, NoStale, Start
<1> HIDE DEF a
<1>7. CASE st.active
  <2>1. UNCHANGED <<st, fed>>
    BY <1>7 DEF Start
  <2>2. TypeOK'
    BY <1>3, <1>5, <1>6, <2>1 DEF OwnerInv, TypeOK
  <2>3. OwnerOpen'
    BY <1>5, <1>6, <2>1 DEF OwnerInv, TypeOK, OwnerOpen
  <2>4. NoStale'
    BY <1>4, <1>5, <2>1 DEF OwnerInv, NoStale
  <2>5. Counted'
    BY <1>2, <1>6, <2>1 DEF OwnerInv, Counted
  <2> QED
    BY <2>2, <2>3, <2>4, <2>5 DEF OwnerInv
<1>8. CASE ~st.active
  <2>1. st' = Started(FreeFd, p) /\ fed' = NotFed
    BY <1>8 DEF Start
  <2>2. st' \in States /\ st'.active /\ st'.fd = FreeFd /\ st'.session = st.session + 1
    BY <1>1, <1>3, <2>1, Bounds, AnnounceAssumption DEF Started, States, MaxAge
  <2>3. fed' \in Feeds
    BY <2>1, Bounds DEF NotFed, Feeds, Seqs, MaxAge
  <2>4. TypeOK'
    BY <1>1, <1>3, <1>5, <1>6, <2>2, <2>3 DEF OwnerInv, TypeOK
  <2>5. OwnerOpen'
    BY <1>4, <1>5, <1>8, <2>2 DEF OwnerOpen
  <2>6. NoStale'
    BY <1>1, <1>4, <1>5, <2>2 DEF OwnerInv, NoStale
  <2>7. Counted'
    BY <1>2, <1>6, <2>2 DEF OwnerInv, Counted
  <2> QED
    BY <2>4, <2>5, <2>6, <2>7 DEF OwnerInv
<1> QED
  BY <1>7, <1>8

\* A packet is sent by nobody who is not on air, and only so many are under way.
LEMMA SendStep ==
    ASSUME OwnerInv, NEW p \in Phones, Send(p)
    PROVE  OwnerInv'
<1>1. /\ phone \in [Phones -> Apps] /\ phone[p] \in Apps
      /\ phone[p].pc = "onair" /\ phone[p].seq \in 0 .. MaxSeq
      /\ UNCHANGED <<st, task, fed, tries>>
  BY Bounds DEF OwnerInv, TypeOK, Send, Apps
<1>2. PICK a : /\ a = [phone[p] EXCEPT !.seq = @ + 1]
               /\ phone' = [phone EXCEPT ![p] = a]
  BY <1>1 DEF Send
<1>3. a \in Apps /\ a.pc = "onair" /\ a.fd = phone[p].fd /\ a.run = phone[p].run
  BY Bounds, <1>1, <1>2 DEF Apps
<1>4. /\ phone' \in [Phones -> Apps]
      /\ \A q \in Phones : phone'[q] = IF q = p THEN a ELSE phone[q]
  BY <1>1, <1>2, <1>3
<1>5. net' \subseteq Packets /\ Cardinality(net') <= MaxFlight /\ IsFiniteSet(net')
  <2>1. CASE net' = net
    BY <2>1 DEF OwnerInv, TypeOK, Counted
  <2>2. CASE /\ Cardinality(net) < MaxFlight
             /\ net' = net \cup {[addr |-> AddrOf[p], run |-> phone[p].run, seq |-> phone[p].seq]}
    <3> DEFINE k == [addr |-> AddrOf[p], run |-> phone[p].run, seq |-> phone[p].seq]
    <3>0. net' = net \cup {k}
      BY <2>2
    <3>1. k \in Packets
      BY <1>1, AnnounceAssumption DEF Packets, Apps, Seqs
    <3> HIDE DEF k
    <3>2. IsFiniteSet(net) /\ Cardinality(net) \in Nat
      BY FS_CardinalityType DEF OwnerInv, Counted
    <3>3. IsFiniteSet(net') /\ Cardinality(net') <= Cardinality(net) + 1
      <4>1. /\ IsFiniteSet(net \cup {k})
            /\ Cardinality(net \cup {k}) = IF k \in net THEN Cardinality(net)
                                                        ELSE Cardinality(net) + 1
        BY <3>2, FS_AddElement
      <4> QED
        BY <3>0, <3>2, <4>1
    <3>4. net' \subseteq Packets
      BY <3>0, <3>1 DEF OwnerInv, TypeOK
    <3> QED
      <4>1. Cardinality(net') \in Nat
        BY <3>3, FS_CardinalityType
      <4> QED
        BY <2>2, <3>2, <3>3, <3>4, <4>1, Bounds
  <2> QED
    BY <2>1, <2>2 DEF Send
<1>6. TypeOK' /\ Counted'
  BY <1>1, <1>4, <1>5 DEF OwnerInv, TypeOK, Counted
<1>7. OwnerOpen' /\ NoStale'
  BY <1>1, <1>3, <1>4 DEF OwnerInv, OwnerOpen, NoStale
<1> QED
  BY <1>6, <1>7 DEF OwnerInv

\* Leaving: Voice.Stop, the end of the connection, and its descriptor closed.
LEMMA LeaveStep ==
    ASSUME OwnerInv, NEW p \in Phones, RpcStop(p) \/ OnDisconnect(p) \/ CloseFd(p)
    PROVE  OwnerInv'
<1>1. phone \in [Phones -> Apps] /\ phone[p] \in Apps /\ UNCHANGED <<net, task, fed, tries>>
  BY DEF OwnerInv, TypeOK, RpcStop, OnDisconnect, CloseFd
<1>2. ASSUME NEW a \in Apps, phone' = [phone EXCEPT ![p] = a], st' \in {st, Stopped},
             a.pc # "idle" => a.fd = phone[p].fd /\ a.run = phone[p].run,
             a.pc = "idle" => a.fd = NoFd /\ phone[p].pc = "ended" /\ st' = st,
             a.pc = "ended" => (st'.active => st'.fd # a.fd)
      PROVE  OwnerInv'
  <2>1. /\ phone' \in [Phones -> Apps]
        /\ \A q \in Phones : phone'[q] = IF q = p THEN a ELSE phone[q]
    BY <1>1, <1>2
  <2>2. st' \in States /\ (st'.active => st' = st) /\ (st'.active <=> st'.fd # NoFd)
        /\ st'.session = st.session
    BY <1>2, StoppedState DEF OwnerInv, TypeOK
  <2>3. TypeOK'
    BY <1>1, <2>1, <2>2 DEF OwnerInv, TypeOK
  <2>4. OwnerOpen'
    <3>1. SUFFICES ASSUME st'.active
                   PROVE  \E q \in Phones : phone'[q].fd = st'.fd /\ phone'[q].run = st'.session
      BY DEF OwnerOpen
    <3>2. PICK q \in Phones : phone[q].fd = st.fd /\ phone[q].run = st.session
      BY <2>2, <3>1 DEF OwnerInv, OwnerOpen
    <3>3. q = p => a.pc # "idle"
      BY <1>2, <2>2, <3>1, <3>2 DEF OwnerInv, NoStale
    <3> QED
      BY <1>2, <2>1, <2>2, <3>1, <3>2, <3>3
  <2>5. NoStale'
    BY <1>2, <2>1, <2>2 DEF OwnerInv, NoStale
  <2> QED
    BY <1>1, <2>2, <2>3, <2>4, <2>5 DEF OwnerInv, Counted
<1>3. CASE RpcStop(p)
  <2> DEFINE a == [phone[p] EXCEPT !.pc = "closing"]
  <2>1. a \in Apps /\ a.pc = "closing" /\ a.fd = phone[p].fd /\ a.run = phone[p].run
    BY <1>1 DEF Apps
  <2>2. phone' = [phone EXCEPT ![p] = a] /\ st' \in {st, Stopped}
    BY <1>1, <1>3 DEF RpcStop, Move
  <2> QED
    BY <1>2, <2>1, <2>2
<1>4. CASE OnDisconnect(p)
  <2> DEFINE a == [phone[p] EXCEPT !.pc = "ended"]
  <2>1. a \in Apps /\ a.pc = "ended" /\ a.fd = phone[p].fd /\ a.run = phone[p].run
    BY <1>1 DEF Apps
  <2>2. phone' = [phone EXCEPT ![p] = a]
    BY <1>1, <1>4 DEF OnDisconnect, Move
  <2>3. st' \in {st, Stopped} /\ (st'.active => st'.fd # phone[p].fd)
    BY <1>4, StoppedState DEF OnDisconnect, Disconnect
  <2> QED
    BY <1>2, <2>1, <2>2, <2>3
<1>5. CASE CloseFd(p)
  <2>1. IdlePhone \in Apps /\ IdlePhone.pc = "idle" /\ IdlePhone.fd = NoFd
    BY Bounds DEF IdlePhone, Apps, Session
  <2>2. phone' = [phone EXCEPT ![p] = IdlePhone] /\ st' = st /\ phone[p].pc = "ended"
    BY <1>5 DEF CloseFd
  <2> QED
    BY <1>2, <2>1, <2>2
<1> QED
  BY <1>3, <1>4, <1>5

\* The steps of voice_server_task, which at most stop the announcement.
LEMMA TaskKeeps ==
    ASSUME OwnerInv, UNCHANGED <<phone, tries>>, task' \in Tasks, fed' \in Feeds,
           net' \in SUBSET net, st' \in {st, Stopped}
    PROVE  OwnerInv'
<1>1. st' \in States /\ (st'.active => st' = st) /\ (st'.active <=> st'.fd # NoFd)
      /\ st'.session = st.session
  BY StoppedState DEF OwnerInv, TypeOK
<1>2. IsFiniteSet(net) /\ net \subseteq Packets /\ Cardinality(net) <= MaxFlight
      /\ Cardinality(net) \in Nat
  BY FS_CardinalityType DEF OwnerInv, TypeOK, Counted
<1>3. IsFiniteSet(net') /\ Cardinality(net') <= Cardinality(net) /\ Cardinality(net') \in Nat
  BY <1>2, FS_Subset, FS_CardinalityType
<1>4. net' \subseteq Packets /\ Cardinality(net') <= MaxFlight
  BY <1>2, <1>3, Bounds
<1>5. TypeOK'
  BY <1>1, <1>4 DEF OwnerInv, TypeOK
<1>6. OwnerOpen' /\ NoStale'
  BY <1>1 DEF OwnerInv, OwnerOpen, NoStale
<1> QED
  BY <1>1, <1>3, <1>5, <1>6 DEF OwnerInv, Counted

LEMMA RecvStep == OwnerInv /\ Recv => OwnerInv'
<1> SUFFICES ASSUME OwnerInv, Recv PROVE OwnerInv'
  OBVIOUS
<1>1. task \in Tasks /\ st \in States /\ fed \in Feeds /\ net \subseteq Packets
  BY DEF OwnerInv, TypeOK
<1>2. PICK k \in net \cup {NoPacket} :
         /\ net' = net \ {k}
         /\ task' = [task EXCEPT !.pc = "round", !.pkt = k, !.active = st.active,
                       !.session = st.session, !.addr = st.addr, !.age = st.age]
         /\ fed' = CASE ~st.active  -> NotFed
                     [] st.active /\ Newer(k)  -> [any |-> TRUE, seq |-> k.seq, ago |-> 0]
                     [] st.active /\ ~Newer(k) -> fed
  BY DEF Recv
<1>3. task' \in Tasks
  BY <1>1, <1>2 DEF Tasks, States
<1>4. fed' \in Feeds
  <2>1. NotFed \in Feeds
    BY Bounds DEF NotFed, Feeds, Seqs, MaxAge
  <2>2. Newer(k) => [any |-> TRUE, seq |-> k.seq, ago |-> 0] \in Feeds
    BY <1>1, Bounds DEF Newer, Packets, Feeds, MaxAge
  <2> QED
    BY <1>1, <1>2, <2>1, <2>2 DEF States
<1> QED
  BY <1>2, <1>3, <1>4, TaskKeeps DEF Recv

\* A task that has noticed a new session is as well-typed as before.
LEMMA NoticedType ==
    ASSUME task \in Tasks
    PROVE  Noticed \in Tasks
<1>1. 0 \in Session /\ 0 \in Seqs /\ 0 \in 0 .. MaxAge
  BY Bounds DEF Session, Seqs, MaxAge
<1> QED
  BY <1>1 DEF Noticed, Tasks

LEMMA RoundStep == OwnerInv /\ Round => OwnerInv'
<1> SUFFICES ASSUME OwnerInv, Round PROVE OwnerInv'
  OBVIOUS
<1>1. task \in Tasks /\ fed \in Feeds /\ NoPacket = [addr |-> AnyAddr, run |-> 0, seq |-> 0]
  BY DEF OwnerInv, TypeOK, NoPacket
<1>2. 0 \in Session /\ 0 \in Seqs /\ 0 \in 0 .. MaxAge /\ 0 \in 0 .. MaxLag
      /\ 0 .. MaxLag \subseteq 0 .. MaxAge
  BY Bounds DEF Session, Seqs, MaxAge
<1>3. Noticed \in Tasks
  BY <1>1, NoticedType
<1>4. \A t \in Tasks : Again(t) \in Tasks
  BY <1>2 DEF Again, Tasks
<1>5. ASSUME NEW t \in Tasks PROVE Taken(t) \in Tasks
  <2>1. CASE Heard(t)
    <3>1. t.pkt \in Packets /\ t.pkt.run \in Session /\ t.pkt.seq \in Seqs
          /\ t.lag \in 0 .. MaxAge
      BY <1>2, <2>1 DEF Heard, Tasks, Packets
    <3> QED
      BY <2>1, <3>1 DEF Taken, Tasks
  <2> QED
    BY <1>5, <2>1 DEF Taken
<1>6. task' \in Tasks
  BY <1>3, <1>4, <1>5 DEF Round
<1>7. st' \in {st, Stopped}
  BY DEF Round, Expire
<1> QED
  BY <1>1, <1>6, <1>7, TaskKeeps DEF Round

\* Time passes.
LEMMA TickStep == OwnerInv /\ Tick => OwnerInv'
<1> SUFFICES ASSUME OwnerInv, Tick PROVE OwnerInv'
  OBVIOUS
<1>1. st \in States /\ task \in Tasks /\ fed \in Feeds /\ UNCHANGED <<phone, net, tries>>
  BY DEF OwnerInv, TypeOK, Tick
<1>2. \A n \in 0 .. MaxAge : Older(n) \in 0 .. MaxAge
  BY Bounds DEF Older, MaxAge
<1>3. st' \in States /\ st'.active = st.active /\ st'.fd = st.fd /\ st'.session = st.session
  BY <1>1, <1>2 DEF Tick, States
<1>4. task' \in Tasks
  <2>1. (IF task.pc = "recv" THEN 0 ELSE task.lag + 1) \in 0 .. MaxLag
    BY <1>1, Bounds DEF Tick, Tasks
  <2>2. (IF task.audio THEN Older(task.ago) ELSE task.ago) \in 0 .. MaxAge
    BY <1>1, <1>2 DEF Tasks
  <2> QED
    BY <1>1, <2>1, <2>2 DEF Tick, Tasks
<1>5. fed' \in Feeds
  BY <1>1, <1>2 DEF Tick, Feeds
<1> QED
  BY <1>1, <1>3, <1>4, <1>5 DEF OwnerInv, TypeOK, OwnerOpen, NoStale, Counted

\* Every step keeps the invariant.
LEMMA OwnerStep == OwnerInv /\ [Next]_vars => OwnerInv'
<1> SUFFICES ASSUME OwnerInv, [Next]_vars PROVE OwnerInv'
  OBVIOUS
<1>1. CASE UNCHANGED vars
  BY <1>1 DEF vars, OwnerInv, TypeOK, OwnerOpen, NoStale, Counted
<1>2. CASE \E p \in Phones : Start(p) \/ AskStop(p) \/ AnswerLost(p) \/ Send(p) \/ Vanish(p)
                             \/ AppStep(p)
  BY <1>2, StartStep, PhoneStep, SendStep, LeaveStep DEF AppStep
<1>3. CASE TaskStep \/ Tick
  BY <1>3, RecvStep, RoundStep, TickStep DEF TaskStep
<1> QED
  BY <1>1, <1>2, <1>3 DEF Next

-----------------------------------------------------------------------------
\* The variables of the announcement, the apps, the packets and the task keep
\* their types (voice_announce.c, snapcontrol.c).
THEOREM TypeCorrect == Spec => []TypeOK
<1>1. OwnerInv => TypeOK
  BY DEF OwnerInv
<1> QED
  BY <1>1, OwnerInit, OwnerStep, PTL DEF Spec

\* An announcement that runs belongs to the connection that started it, and
\* that connection's descriptor has not been closed: ctrl_conn_task tells
\* voice_announce.c of the end before it closes the descriptor, and accept
\* gives out only descriptors that are free.
THEOREM OwnerStaysOpen == Spec => []OwnerOpen
<1>1. OwnerInv => OwnerOpen
  BY DEF OwnerInv
<1> QED
  BY <1>1, OwnerInit, OwnerStep, PTL DEF Spec

-----------------------------------------------------------------------------
(* What the task knows of the announcement that runs                         *)

Within == task.pc = "round"

\* The task's copy of the state is one of this announcement.
Current == Within /\ task.session = st.session

\* Sessions never go back: nobody has a number that was not given out, and an
\* announcement that runs has one.
Numbered ==
    /\ st.active => st.session >= 1
    /\ \A p \in Phones : phone[p].run <= st.session
    /\ \A k \in net : k.run <= st.session
    /\ task.seen <= st.session
    /\ Within => /\ task.session <= st.session /\ task.seen <= task.session
                 /\ task.pkt.run <= st.session
    /\ ~Within => task.lag = 0

\* Whatever carries the number of the announcement that runs comes from its
\* owner's address: phones, packets under way, and what the task is looking at.
FromOwner ==
    st.active =>
        /\ \A p \in Phones : phone[p].run = st.session => AddrOf[p] = st.addr
        /\ \A k \in net : k.run = st.session => k.addr = st.addr
        /\ Within /\ task.pkt # NoPacket /\ task.pkt.run = st.session => task.pkt.addr = st.addr

\* A copy of this announcement found it running, and its age is as old as the
\* round, but for what is not counted beyond MaxAge.
CopyRight ==
    st.active /\ Current =>
        /\ task.active /\ task.addr = st.addr
        /\ st.age >= task.age + task.lag \/ st.age = MaxAge

\* The task is at the packet that was received last.
AtNewest ==
    /\ Current /\ task.pkt # NoPacket /\ task.pkt.run = st.session
    /\ task.pkt.seq = fed.seq /\ fed.ago = task.lag

\* The task has taken a packet as new as the newest of this announcement, its
\* own or one that locks the owner out.
CaughtUp == task.seen = st.session /\ task.audio /\ task.seq >= fed.seq

\* What was received in order the task has taken, or is about to; and what it
\* took last, if it is of this announcement, is what was received last, unless
\* something newer has just come.
TaskFollows ==
    st.active =>
        /\ fed.any => AtNewest \/ CaughtUp
        /\ Current /\ task.pkt # NoPacket /\ task.pkt.run = st.session
             => fed.any /\ task.pkt.seq <= fed.seq
        /\ task.seen = st.session /\ task.audio /\ task.run = st.session
             => /\ fed.any /\ task.seq <= fed.seq
                /\ task.seq = fed.seq => task.ago = fed.ago

Watched  == Numbered /\ FromOwner /\ CopyRight /\ TaskFollows
WatchInv == OwnerInv /\ Watched

-----------------------------------------------------------------------------
(* The steps of the apps                                                     *)

\* The numbers are numbers, and nothing received is no packet.
LEMMA WatchTypes ==
    ASSUME TypeOK
    PROVE  /\ st.session \in Nat /\ st.age \in Nat /\ st.age <= MaxAge
           /\ task.session \in Nat /\ task.seen \in Nat /\ task.seq \in Nat
           /\ task.lag \in Nat /\ task.lag <= MaxLag /\ task.age \in Nat /\ task.age <= MaxAge
           /\ task.ago \in Nat /\ fed.seq \in Nat /\ fed.ago \in Nat
           /\ task.audio \in BOOLEAN /\ fed.any \in BOOLEAN /\ st.active \in BOOLEAN
           /\ task.active \in BOOLEAN /\ task.pc \in {"recv", "round"}
           /\ \A p \in Phones : phone[p].run \in Nat
           /\ \A k \in net : k.run \in Nat /\ k.seq \in Nat /\ k # NoPacket
           /\ task.pkt.run \in Nat /\ task.pkt.seq \in Nat
<1>1. st \in States /\ task \in Tasks /\ fed \in Feeds /\ net \subseteq Packets
      /\ phone \in [Phones -> Apps]
  BY DEF TypeOK
<1>2. st.session \in Nat /\ st.age \in Nat /\ st.age <= MaxAge /\ st.active \in BOOLEAN
  BY <1>1, Bounds DEF States, Session, MaxAge
<1>3. /\ task.session \in Nat /\ task.seen \in Nat /\ task.seq \in Nat
      /\ task.lag \in Nat /\ task.lag <= MaxLag /\ task.age \in Nat /\ task.age <= MaxAge
      /\ task.ago \in Nat /\ task.audio \in BOOLEAN /\ task.active \in BOOLEAN
      /\ task.pc \in {"recv", "round"} /\ task.pkt \in Packets \cup {NoPacket}
  BY <1>1, Bounds DEF Tasks, Session, Seqs, MaxAge
<1>4. fed.seq \in Nat /\ fed.ago \in Nat /\ fed.any \in BOOLEAN
  BY <1>1, Bounds DEF Feeds, Seqs, MaxAge
<1>5. \A p \in Phones : phone[p].run \in Nat
  BY <1>1, Bounds DEF Apps, Session
<1>6. \A k \in Packets : k.run \in Nat /\ k.seq \in Nat /\ k # NoPacket
  BY Bounds, AnnounceAssumption DEF Packets, Session, Seqs, NoPacket
<1>7. task.pkt.run \in Nat /\ task.pkt.seq \in Nat
  BY <1>3, <1>6 DEF NoPacket
<1> QED
  BY <1>1, <1>2, <1>3, <1>4, <1>5, <1>6, <1>7

LEMMA WatchInit == Init => Watched
<1> SUFFICES ASSUME Init PROVE Watched
  OBVIOUS
<1>1. /\ ~st.active /\ st.session = 0 /\ net = {} /\ \A p \in Phones : phone[p].run = 0
      /\ task.pc = "recv" /\ task.seen = 0 /\ task.lag = 0
  BY DEF Init, IdleState, IdlePhone, FreshTask
<1> QED
  BY <1>1 DEF Watched, Numbered, FromOwner, CopyRight, TaskFollows, Within, Current

\* Nothing but phones changes, and no phone gets a session.
LEMMA PhonesWatched ==
    ASSUME WatchInv, UNCHANGED <<st, net, task, fed>>,
           \A q \in Phones : phone'[q].run \in {0, phone[q].run}
    PROVE  Watched'
<1>1. st.session \in Nat
  BY WatchTypes DEF WatchInv, OwnerInv
<1>2. Numbered' /\ FromOwner'
  BY <1>1 DEF WatchInv, Watched, Numbered, FromOwner, Within
<1>3. CopyRight' /\ TaskFollows'
  BY DEF WatchInv, Watched, CopyRight, TaskFollows, Current, Within, AtNewest, CaughtUp
<1> QED
  BY <1>2, <1>3 DEF Watched

\* The announcement is stopped; nobody's number changes.
LEMMA StopWatched ==
    ASSUME WatchInv, st' = Stopped, UNCHANGED <<net, task, fed>>,
           \A q \in Phones : phone'[q].run \in {0, phone[q].run}
    PROVE  Watched'
<1>1. st.session \in Nat /\ ~st'.active /\ st'.session = st.session
  BY WatchTypes, StoppedState DEF WatchInv, OwnerInv
<1> QED
  BY <1>1 DEF WatchInv, Watched, Numbered, FromOwner, CopyRight, TaskFollows, Within

\* An announcement that begins has a number nobody has seen.
LEMMA StartWatched ==
    ASSUME WatchInv, NEW p \in Phones, Start(p)
    PROVE  Watched'
<1>0. phone \in [Phones -> Apps] /\ UNCHANGED <<net, task>>
  BY DEF WatchInv, OwnerInv, TypeOK, Start
<1>1. \A q \in Phones : phone'[q] = IF q = p
         THEN [IdlePhone EXCEPT !.pc = "answered", !.fd = FreeFd,
                                !.run = IF st.active THEN 0 ELSE st.session + 1]
         ELSE phone[q]
  BY <1>0 DEF Start
<1>2. phone'[p].run = IF st.active THEN 0 ELSE st.session + 1
  BY <1>1 DEF IdlePhone
<1>3. CASE st.active
  <2>1. UNCHANGED <<st, fed>>
    BY <1>3 DEF Start
  <2> QED
    BY <1>0, <1>1, <1>2, <1>3, <2>1, PhonesWatched
<1>4. CASE ~st.active
  <2>1. st'.session = st.session + 1 /\ st'.addr = AddrOf[p] /\ ~fed'.any
    BY <1>4 DEF Start, Started, NotFed
  <2>2. /\ st.session \in Nat /\ task.session \in Nat /\ task.seen \in Nat
        /\ \A q \in Phones : phone[q].run \in Nat
        /\ \A k \in net : k.run \in Nat
        /\ task.pkt.run \in Nat
    BY WatchTypes DEF WatchInv, OwnerInv
  <2>3. /\ \A q \in Phones : phone[q].run <= st.session
        /\ \A k \in net : k.run <= st.session
        /\ task.seen <= st.session
        /\ Within => /\ task.session <= st.session /\ task.seen <= task.session
                     /\ task.pkt.run <= st.session
        /\ ~Within => task.lag = 0
    BY DEF WatchInv, Watched, Numbered
  <2>4. Numbered'
    BY <1>0, <1>1, <1>2, <1>4, <2>1, <2>2, <2>3 DEF Numbered, Within
  <2>5. ~Current' /\ task'.seen # st'.session
    BY <1>0, <2>1, <2>2, <2>3 DEF Current, Within
  <2>6. FromOwner'
    <3>1. \A q \in Phones : phone'[q].run = st'.session => q = p
      BY <1>1, <2>1, <2>2, <2>3
    <3>2. \A k \in net' : k.run # st'.session
      BY <1>0, <2>1, <2>2, <2>3
    <3>3. Within' => task'.pkt.run # st'.session
      BY <1>0, <2>1, <2>2, <2>3 DEF Within
    <3> QED
      BY <2>1, <3>1, <3>2, <3>3 DEF FromOwner
  <2> QED
    BY <2>1, <2>4, <2>5, <2>6 DEF Watched, CopyRight, TaskFollows
<1> QED
  BY <1>3, <1>4

\* A packet carries the number and the address of the phone that sends it.
LEMMA SendWatched ==
    ASSUME WatchInv, NEW p \in Phones, Send(p)
    PROVE  Watched'
<1>1. /\ phone \in [Phones -> Apps] /\ UNCHANGED <<st, task, fed>>
      /\ \A q \in Phones : phone'[q].run = phone[q].run
  BY DEF WatchInv, OwnerInv, TypeOK, Send, Apps
<1>2. \A k \in net' : k \in net \/ (k.addr = AddrOf[p] /\ k.run = phone[p].run)
  BY DEF Send
<1>3. Numbered' /\ FromOwner'
  BY <1>1, <1>2 DEF WatchInv, Watched, Numbered, FromOwner, Within
<1>4. CopyRight' /\ TaskFollows'
  BY <1>1 DEF WatchInv, Watched, CopyRight, TaskFollows, Current, Within, AtNewest, CaughtUp
<1> QED
  BY <1>3, <1>4 DEF Watched

\* All other steps of a phone.
LEMMA AppWatched ==
    ASSUME WatchInv, NEW p \in Phones,
           \/ AskStop(p) \/ AnswerLost(p) \/ Vanish(p) \/ AppStep(p)
    PROVE  Watched'
<1>1. phone \in [Phones -> Apps] /\ phone[p] \in Apps /\ UNCHANGED <<net, task, fed>>
  BY DEF WatchInv, OwnerInv, TypeOK, AskStop, AnswerLost, Vanish, AppStep, Check, GoOnAir,
     StopCapture, RpcStop, OnDisconnect, CloseFd
<1>2. st' \in {st, Stopped}
  BY DEF AskStop, AnswerLost, Vanish, AppStep, Check, GoOnAir, StopCapture, RpcStop,
     OnDisconnect, Disconnect, CloseFd
<1>3. \A q \in Phones : phone'[q].run \in {0, phone[q].run}
  <2>1. ASSUME NEW pc, Leave(p, pc) \/ Move(p, pc) PROVE \A q \in Phones : phone'[q].run = phone[q].run
    BY <1>1, <2>1 DEF Leave, Move, Apps
  <2>2. CASE Check(p)
    <3>1. \E pc \in {"closing", "leaving", "checked"} : Leave(p, pc) \/ Move(p, pc)
      BY <1>1, <2>2 DEF Check, Apps
    <3> QED
      BY <2>1, <3>1
  <2>3. CASE AskStop(p) \/ GoOnAir(p)
    BY <1>1, <2>3 DEF AskStop, GoOnAir, Apps
  <2>4. CASE CloseFd(p)
    BY <1>1, <2>4 DEF CloseFd, IdlePhone
  <2>5. CASE AnswerLost(p) \/ Vanish(p) \/ StopCapture(p) \/ RpcStop(p) \/ OnDisconnect(p)
    BY <2>1, <2>5 DEF AnswerLost, Vanish, StopCapture, RpcStop, OnDisconnect
  <2> QED
    BY <2>2, <2>3, <2>4, <2>5 DEF AppStep
<1> QED
  BY <1>1, <1>2, <1>3, PhonesWatched, StopWatched
-----------------------------------------------------------------------------
(* The steps of voice_server_task, and time                                  *)

\* What a packet received says: it is of no session to come, and if it is of
\* the announcement that runs it comes from the owner's address.
LEMMA RecvWatched ==
    ASSUME WatchInv, Recv
    PROVE  Watched'
<1>0. /\ task \in Tasks /\ task.pc = "recv" /\ UNCHANGED <<st, phone, tries>>
      /\ TypeOK /\ Numbered /\ FromOwner /\ CopyRight /\ TaskFollows
  BY DEF WatchInv, Watched, OwnerInv, TypeOK, Recv
<1>1. PICK k \in net \cup {NoPacket} :
         /\ net' = net \ {k}
         /\ task' = [task EXCEPT !.pc = "round", !.pkt = k, !.active = st.active,
                       !.session = st.session, !.addr = st.addr, !.age = st.age]
         /\ fed' = CASE ~st.active  -> NotFed
                     [] st.active /\ Newer(k)  -> [any |-> TRUE, seq |-> k.seq, ago |-> 0]
                     [] st.active /\ ~Newer(k) -> fed
  BY DEF Recv
<1>2. /\ task'.pc = "round" /\ task'.pkt = k /\ task'.active = st.active
      /\ task'.session = st.session /\ task'.addr = st.addr /\ task'.age = st.age
      /\ task'.lag = task.lag /\ task'.seen = task.seen /\ task'.audio = task.audio
      /\ task'.run = task.run /\ task'.seq = task.seq /\ task'.ago = task.ago
  BY <1>0, <1>1 DEF Tasks
<1>3. /\ st.session \in Nat /\ st.age \in Nat /\ task.seq \in Nat /\ fed.seq \in Nat
      /\ st.active \in BOOLEAN /\ task.lag = 0 /\ task.seen <= st.session
  BY <1>0, WatchTypes DEF Numbered, Within
<1>4. /\ k.run \in Nat /\ k.seq \in Nat /\ k.run <= st.session
      /\ st.active /\ k # NoPacket /\ k.run = st.session => k.addr = st.addr
  <2>1. CASE k \in net
    BY <1>0, <2>1, WatchTypes DEF Numbered, FromOwner
  <2>2. CASE k = NoPacket
    BY <1>3, <2>2 DEF NoPacket
  <2> QED
    BY <2>1, <2>2
<1>5. Numbered' /\ FromOwner'
  BY <1>0, <1>1, <1>2, <1>3, <1>4 DEF Numbered, FromOwner, Within
<1>6. CopyRight'
  BY <1>0, <1>2, <1>3 DEF CopyRight, Current, Within
<1>7. TaskFollows'
  <2> SUFFICES ASSUME st.active PROVE TaskFollows'
    BY <1>0 DEF TaskFollows
  <2>1. fed.any => CaughtUp
    BY <1>0 DEF TaskFollows, AtNewest, Current, Within
  <2>2. task.seen = st.session /\ task.audio /\ task.run = st.session
          => /\ fed.any /\ task.seq <= fed.seq
             /\ task.seq = fed.seq => task.ago = fed.ago
    BY <1>0 DEF TaskFollows
  <2>3. CASE Newer(k)
    <3>1. fed' = [any |-> TRUE, seq |-> k.seq, ago |-> 0]
      BY <1>1, <2>3
    <3>2. k # NoPacket /\ k.run = st.session /\ (fed.any => k.seq > fed.seq)
      BY <2>3 DEF Newer
    <3>3. AtNewest'
      BY <1>0, <1>2, <1>3, <3>1, <3>2 DEF AtNewest, Current, Within
    <3>4. task.seen = st.session /\ task.audio /\ task.run = st.session => task.seq < k.seq
      BY <1>3, <1>4, <2>2, <3>2
    <3> QED
      BY <1>0, <1>2, <1>3, <1>4, <3>1, <3>3, <3>4 DEF TaskFollows
  <2>4. CASE ~Newer(k)
    <3>1. fed' = fed
      BY <1>1, <2>4
    <3>2. CaughtUp' = CaughtUp
      BY <1>0, <1>2, <3>1 DEF CaughtUp
    <3>3. k # NoPacket /\ k.run = st.session => fed.any /\ k.seq <= fed.seq
      BY <1>3, <1>4, <2>4 DEF Newer
    <3> QED
      BY <1>0, <1>2, <2>1, <2>2, <3>1, <3>2, <3>3 DEF TaskFollows, Current
  <2> QED
    BY <2>3, <2>4
<1> QED
  BY <1>5, <1>6, <1>7 DEF Watched

\* Time passes for the announcement, the copies of it and the packets alike.
LEMMA TickWatched ==
    ASSUME WatchInv, Tick
    PROVE  Watched'
<1>0. /\ st \in States /\ task \in Tasks /\ fed \in Feeds /\ UNCHANGED <<phone, net, tries>>
      /\ TypeOK /\ Numbered /\ FromOwner /\ CopyRight /\ TaskFollows
  BY DEF WatchInv, Watched, OwnerInv, TypeOK, Tick
<1>1. /\ st'.active = st.active /\ st'.session = st.session /\ st'.addr = st.addr
      /\ st'.age = IF st.active THEN Older(st.age) ELSE st.age
  BY <1>0 DEF Tick, States
<1>2. /\ task'.pc = task.pc /\ task'.pkt = task.pkt /\ task'.active = task.active
      /\ task'.session = task.session /\ task'.addr = task.addr /\ task'.age = task.age
      /\ task'.lag = (IF task.pc = "recv" THEN 0 ELSE task.lag + 1)
      /\ task'.seen = task.seen /\ task'.audio = task.audio
      /\ task'.run = task.run /\ task'.seq = task.seq
      /\ task'.ago = (IF task.audio THEN Older(task.ago) ELSE task.ago)
  BY <1>0 DEF Tick, Tasks
<1>3. /\ fed'.any = fed.any /\ fed'.seq = fed.seq
      /\ fed'.ago = IF fed.any THEN Older(fed.ago) ELSE fed.ago
  BY <1>0 DEF Tick, Feeds
<1>4. Numbered' /\ FromOwner'
  <2>1. Within' = Within /\ (~Within => task'.lag = 0)
    BY <1>0, <1>2, WatchTypes DEF Within
  <2>2. Numbered'
    BY <1>0, <1>1, <1>2, <2>1 DEF Numbered
  <2>3. FromOwner'
    BY <1>0, <1>1, <1>2, <2>1 DEF FromOwner
  <2> QED
    BY <2>2, <2>3
<1>5. CopyRight'
  <2>1. /\ st.age \in Nat /\ st.age <= MaxAge /\ task.age \in Nat /\ task.lag \in Nat
    BY <1>0, WatchTypes
  <2>2. CASE st.active /\ Current
    <3>1. /\ task.active /\ task.addr = st.addr
          /\ st.age >= task.age + task.lag \/ st.age = MaxAge
      BY <1>0, <2>2 DEF CopyRight
    <3>2. task'.lag = task.lag + 1 /\ st'.age = IF st.age < MaxAge THEN st.age + 1 ELSE st.age
      BY <1>1, <1>2, <2>2 DEF Current, Within, Older
    <3>3. MaxAge \in Nat /\ MaxAge' = MaxAge
      BY Bounds DEF MaxAge
    <3>4. st'.age >= task'.age + task'.lag \/ st'.age = MaxAge
      BY <1>2, <2>1, <3>1, <3>2, <3>3
    <3> QED
      BY <1>1, <1>2, <3>1, <3>3, <3>4 DEF CopyRight
  <2>3. CASE ~(st.active /\ Current)
    BY <1>1, <1>2, <2>3 DEF CopyRight, Current, Within
  <2> QED
    BY <2>2, <2>3
<1>6. AtNewest /\ fed.any => AtNewest'
  <2> SUFFICES ASSUME AtNewest, fed.any PROVE AtNewest'
    OBVIOUS
  <2>1. task.pc = "round" /\ task.lag \in Nat /\ task.lag < MaxLag /\ fed.ago = task.lag
    BY <1>0, WatchTypes DEF Tick, AtNewest, Current, Within
  <2>2. Older(fed.ago) = task.lag + 1
    BY <2>1, Bounds DEF Older, MaxAge
  <2> QED
    BY <1>1, <1>2, <1>3, <2>1, <2>2 DEF AtNewest, Current, Within
<1>7. TaskFollows'
  BY <1>0, <1>1, <1>2, <1>3, <1>6 DEF TaskFollows, Current, Within, CaughtUp
<1> QED
  BY <1>4, <1>5, <1>7 DEF Watched
\* What voice_server_task knows when it comes to judge: nothing that was
\* received in order is left behind, and no packet of this announcement is
\* taken unless it is the newest.
LEMMA Judged ==
    ASSUME WatchInv, Within, st.active, NEW n, n = Noticed
    PROVE  /\ Current => task.active
           /\ n.audio \/ task.seen = st.session => n = task /\ task.session = task.seen
           /\ n.seen = task.session
           /\ fed.any => Current
           /\ fed.any /\ ~Heard(n) => CaughtUp
           /\ fed.any /\ Heard(n) => task.pkt.seq >= fed.seq
           /\ Current /\ Heard(n) /\ task.pkt.run = st.session => fed.any /\ AtNewest
<1>0. task \in Tasks /\ Numbered /\ FromOwner /\ CopyRight /\ TaskFollows
  BY DEF WatchInv, Watched, OwnerInv, TypeOK
<1>1. /\ st.session \in Nat /\ task.session \in Nat /\ task.seen \in Nat /\ task.seq \in Nat
      /\ task.pkt.seq \in Nat /\ fed.seq \in Nat
      /\ task.seen <= task.session /\ task.session <= st.session
  BY <1>0, WatchTypes DEF WatchInv, OwnerInv, Numbered
<1>2. /\ n.pkt = task.pkt /\ n.addr = task.addr /\ n.seen = task.session
      /\ (n = task /\ task.session = task.seen) \/ ~n.audio
  BY <1>0 DEF Noticed, Tasks
<1>3. Current => task.active /\ task.addr = st.addr
  BY <1>0 DEF CopyRight
<1>4. task.seen = st.session => Current /\ n = task /\ task.session = task.seen
  BY <1>1, <1>3 DEF Noticed, Current
<1>5. CaughtUp => Current /\ n = task /\ task.audio /\ task.seq >= fed.seq
  BY <1>4 DEF CaughtUp
<1>6. AtNewest /\ ~Heard(n) => CaughtUp
  <2> SUFFICES ASSUME AtNewest, ~Heard(n) PROVE CaughtUp
    OBVIOUS
  <2>1. Current /\ task.pkt # NoPacket /\ task.pkt.run = st.session /\ task.pkt.seq = fed.seq
    BY DEF AtNewest
  <2>2. n.addr = n.pkt.addr /\ n.pkt # NoPacket
    BY <1>0, <1>2, <1>3, <2>1 DEF FromOwner, Current
  <2>3. n.audio /\ ~(n.pkt.seq > n.seq)
    BY <2>2 DEF Heard
  <2>4. n = task /\ task.session = task.seen
    BY <1>2, <2>3
  <2> QED
    BY <1>1, <2>1, <2>3, <2>4 DEF CaughtUp, Current
<1>7. fed.any => AtNewest \/ CaughtUp
  BY <1>0 DEF TaskFollows
<1>8. CaughtUp /\ Heard(n) => task.pkt.seq > fed.seq
  BY <1>1, <1>5 DEF Heard
<1>9. Current /\ Heard(n) /\ task.pkt.run = st.session => fed.any /\ task.pkt.seq <= fed.seq
  BY <1>0, <1>2 DEF TaskFollows, Heard
<1>10. fed.any => Current
  BY <1>5, <1>7 DEF AtNewest
<1>11. fed.any /\ Heard(n) => task.pkt.seq >= fed.seq
  BY <1>1, <1>7, <1>8 DEF AtNewest
<1>12. Current /\ Heard(n) /\ task.pkt.run = st.session => fed.any /\ AtNewest
  BY <1>1, <1>7, <1>8, <1>9
<1> QED
  BY <1>2, <1>3, <1>4, <1>6, <1>7, <1>10, <1>11, <1>12

\* What the task remembers after a round.
LEMMA RoundEnds ==
    ASSUME TypeOK, Round, NEW n, n = Noticed, NEW t, t = Taken(n)
    PROVE  /\ task.pc = "round" /\ UNCHANGED <<phone, net, fed, tries>>
           /\ task'.pc = "recv" /\ task'.lag = 0 /\ task'.pkt = NoPacket
           /\ n.active = task.active /\ n.pkt = task.pkt
           /\ task'.seen = n.seen
           /\ task.active /\ Heard(n)
                => task'.audio /\ task'.run = task.pkt.run /\ task'.seq = task.pkt.seq
                   /\ task'.ago = task.lag
           /\ ~(task.active /\ Heard(n))
                => task'.audio = n.audio /\ task'.run = n.run /\ task'.seq = n.seq
                   /\ task'.ago = n.ago
           /\ st' = st \/ (st' = Stopped /\ task.active /\ TimedOut(t)
                             /\ st.active /\ st.session = task.session)
<1>1. task \in Tasks /\ task.pc = "round" /\ UNCHANGED <<phone, net, fed, tries>>
  BY DEF TypeOK, Round
<1>2. /\ n.active = task.active /\ n.pkt = task.pkt /\ n.lag = task.lag
      /\ n.session = task.session
      /\ DOMAIN n = DOMAIN task
  BY <1>1 DEF Noticed, Tasks
<1>3. n \in Tasks
  BY <1>1, NoticedType
<1>4. /\ t.session = n.session /\ t.seen = n.seen
      /\ Heard(n) => t.audio /\ t.run = n.pkt.run /\ t.seq = n.pkt.seq /\ t.ago = n.lag
      /\ ~Heard(n) => t = n
  BY <1>3 DEF Taken, Tasks
<1>5. \A u \in {n, t} : /\ Again(u).pc = "recv" /\ Again(u).lag = 0 /\ Again(u).pkt = NoPacket
                        /\ Again(u).seen = u.seen /\ Again(u).audio = u.audio
                        /\ Again(u).run = u.run /\ Again(u).seq = u.seq /\ Again(u).ago = u.ago
  BY <1>3 DEF Taken, Again, Tasks
<1>6. task' = IF task.active THEN Again(t) ELSE Again(n)
  BY <1>2 DEF Round
<1>7. st' = st \/ (st' = Stopped /\ task.active /\ TimedOut(t)
                     /\ st.active /\ st.session = task.session)
  BY <1>2, <1>4 DEF Round, Expire
<1> QED
  BY <1>1, <1>2, <1>4, <1>5, <1>6, <1>7

LEMMA RoundWatched ==
    ASSUME WatchInv, Round
    PROVE  Watched'
<1> DEFINE n == Noticed
           t == Taken(n)
<1>0. /\ TypeOK /\ Numbered /\ FromOwner /\ TaskFollows
  BY DEF WatchInv, Watched, OwnerInv
<1>1. /\ task.pc = "round" /\ UNCHANGED <<phone, net, fed, tries>>
      /\ task'.pc = "recv" /\ task'.lag = 0 /\ task'.pkt = NoPacket
      /\ task'.seen = n.seen
      /\ task.active /\ Heard(n)
           => task'.audio /\ task'.run = task.pkt.run /\ task'.seq = task.pkt.seq
              /\ task'.ago = task.lag
      /\ ~(task.active /\ Heard(n))
           => task'.audio = n.audio /\ task'.run = n.run /\ task'.seq = n.seq
              /\ task'.ago = n.ago
      /\ st' \in {st, Stopped}
  BY <1>0, RoundEnds
<1>2. st'.session = st.session /\ (st'.active => st' = st /\ st.active)
  BY <1>1, StoppedState DEF WatchInv
<1>3. n.seen = task.session
  BY <1>0 DEF Noticed, TypeOK, Tasks
<1> HIDE DEF n, t
<1>4. Numbered' /\ FromOwner' /\ CopyRight'
  BY <1>0, <1>1, <1>2, <1>3 DEF Numbered, FromOwner, CopyRight, Within, Current
<1>5. ASSUME st'.active PROVE TaskFollows'
  <2>1. st' = st /\ st.active /\ Within
    BY <1>1, <1>2, <1>5 DEF Within
  <2>2. /\ Current => task.active
        /\ n.audio \/ task.seen = st.session => n = task /\ task.session = task.seen
        /\ fed.any => Current
        /\ fed.any /\ ~Heard(n) => CaughtUp
        /\ fed.any /\ Heard(n) => task.pkt.seq >= fed.seq
        /\ Current /\ Heard(n) /\ task.pkt.run = st.session => fed.any /\ AtNewest
    BY <2>1, Judged DEF n
  <2>3. fed.any => CaughtUp'
    <3>1. CASE Heard(n)
      BY <1>1, <1>3, <2>1, <2>2, <3>1 DEF CaughtUp, Current
    <3>2. CASE ~Heard(n)
      BY <1>1, <1>3, <2>1, <2>2, <3>2 DEF CaughtUp, Current
    <3> QED
      BY <3>1, <3>2
  <2>4. ASSUME task'.seen = st.session, task'.audio, task'.run = st.session
        PROVE  fed.any /\ task'.seq <= fed.seq /\ (task'.seq = fed.seq => task'.ago = fed.ago)
    <3>1. Current /\ task.active
      BY <1>1, <1>3, <2>1, <2>2, <2>4 DEF Current
    <3>2. CASE Heard(n)
      <4>1. fed.any /\ AtNewest /\ task'.seq = task.pkt.seq /\ task'.ago = task.lag
        BY <1>1, <2>2, <2>4, <3>1, <3>2
      <4>2. fed.seq \in Nat
        BY <1>0, WatchTypes
      <4> QED
        BY <4>1, <4>2 DEF AtNewest
    <3>3. CASE ~Heard(n)
      <4>1. n = task /\ task.audio /\ task.run = st.session /\ task.seen = st.session
            /\ task'.seq = task.seq /\ task'.ago = task.ago
        BY <1>1, <2>2, <2>4, <3>1, <3>3 DEF Current
      <4> QED
        BY <1>0, <2>1, <4>1 DEF TaskFollows
    <3> QED
      BY <3>2, <3>3
  <2>5. ~Current'
    BY <1>1 DEF Current, Within
  <2> QED
    BY <1>1, <2>1, <2>3, <2>4, <2>5 DEF TaskFollows
<1>6. TaskFollows'
  BY <1>5 DEF TaskFollows
<1> QED
  BY <1>4, <1>6 DEF Watched

\* Every step keeps what the task knows.
LEMMA WatchStep == WatchInv /\ [Next]_vars => WatchInv'
<1> SUFFICES ASSUME WatchInv, [Next]_vars PROVE Watched'
  BY OwnerStep DEF WatchInv
<1>1. CASE UNCHANGED vars
  BY <1>1, PhonesWatched DEF vars
<1>2. CASE \E p \in Phones : Start(p) \/ AskStop(p) \/ AnswerLost(p) \/ Send(p) \/ Vanish(p)
                             \/ AppStep(p)
  BY <1>2, StartWatched, SendWatched, AppWatched
<1>3. CASE TaskStep \/ Tick
  BY <1>3, RecvWatched, RoundWatched, TickWatched DEF TaskStep
<1> QED
  BY <1>1, <1>2, <1>3 DEF Next

\* A round that ends the announcement that runs has a limit to show for it.
LEMMA ExpiryRight ==
    ASSUME WatchInv, Round, st.active, ~st'.active
    PROVE  \/ st.age - task.lag > Limit
           \/ fed.any /\ fed.ago - task.lag > Silence
           \/ ~fed.any /\ st.age - task.lag > Grace
           \/ Stray
<1> DEFINE n == Noticed
           t == Taken(n)
<1>0. TypeOK /\ CopyRight /\ TaskFollows /\ task \in Tasks
  BY DEF WatchInv, Watched, OwnerInv, TypeOK
<1>1. /\ task.pc = "round" /\ task.active /\ TimedOut(t) /\ st.session = task.session
  BY <1>0, RoundEnds
<1>2. /\ n.age = task.age /\ n.lag = task.lag
      /\ t.age = n.age /\ t.lag = n.lag
      /\ Heard(n) => t.audio /\ t.ago = n.lag
      /\ ~Heard(n) => t = n
  <2>1. n \in Tasks /\ n.age = task.age /\ n.lag = task.lag
    BY <1>0, NoticedType DEF Noticed, Tasks
  <2> HIDE DEF n
  <2> QED
    BY <2>1 DEF Taken, Tasks
<1>3. Within /\ Current
  BY <1>1 DEF Current, Within
<1>4. /\ n.audio => n = task /\ task.session = task.seen
      /\ fed.any /\ ~Heard(n) => CaughtUp
      /\ task.seen = st.session => n = task
  BY <1>3, Judged
<1> HIDE DEF n, t
<1>5. /\ st.age \in Nat /\ task.age \in Nat /\ task.lag \in Nat /\ task.lag <= MaxLag
      /\ task.ago \in Nat /\ fed.ago \in Nat /\ task.seq \in Nat /\ fed.seq \in Nat
  BY <1>0, WatchTypes
<1>6. st.age - task.lag >= task.age \/ st.age - task.lag > Limit
  <2>1. st.age >= task.age + task.lag \/ st.age = MaxAge
    BY <1>0, <1>3 DEF CopyRight
  <2> QED
    BY <1>5, <2>1, Bounds DEF MaxAge
<1>7. CASE t.age > Limit
  BY <1>2, <1>5, <1>6, <1>7, Bounds
<1>8. CASE t.audio /\ t.ago - t.lag > Silence
  <2>1. ~Heard(n)
    BY <1>2, <1>5, <1>8, Bounds
  <2>2. n = task /\ task.session = task.seen /\ task.audio /\ task.ago - task.lag > Silence
    BY <1>2, <1>4, <1>8, <2>1
  <2>3. CASE task.run = st.session
    <3>1. fed.any /\ task.seq <= fed.seq /\ (task.seq = fed.seq => task.ago = fed.ago)
      BY <1>0, <1>1, <2>2, <2>3 DEF TaskFollows
    <3>2. task.seq >= fed.seq
      BY <1>4, <2>1, <3>1 DEF CaughtUp
    <3> QED
      BY <1>5, <2>2, <3>1, <3>2
  <2>4. CASE task.run # st.session
    BY <1>1, <2>2, <2>4 DEF Stray
  <2> QED
    BY <2>3, <2>4
<1>9. CASE ~t.audio /\ t.age > Grace
  <2>1. ~Heard(n) /\ ~n.audio
    BY <1>2, <1>9
  <2>2. ~fed.any
    BY <1>4, <2>1 DEF CaughtUp
  <2> QED
    BY <1>2, <1>5, <1>6, <1>9, <2>2, Bounds
<1> QED
  BY <1>1, <1>7, <1>8, <1>9 DEF TimedOut

\* The inductive invariant behind the watchdogs of voice_server_task: numbers
\* of sessions, what carries them, the copy the task took, and what it heard.
THEOREM WatchInvariant == Spec => []WatchInv
<1>1. Init => WatchInv
  BY OwnerInit, WatchInit DEF WatchInv
<1> QED
  BY <1>1, WatchStep, PTL DEF Spec

\* A watchdog of voice_server_task ends an announcement only when the limit it
\* names has passed for this announcement, although the task works on a copy
\* of the state and counts packets that name no announcement; but for a packet
\* of another announcement that was taken for one of this.
THEOREM WatchdogsAreRight == Spec => WatchdogsRight
<1>1. WatchInv /\ [Next]_vars =>
        [Round /\ st.active /\ ~st'.active
           => \/ st.age - task.lag > Limit
              \/ fed.any /\ fed.ago - task.lag > Silence
              \/ ~fed.any /\ st.age - task.lag > Grace
              \/ Stray]_vars
  BY ExpiryRight
<1> QED
  BY <1>1, WatchInvariant, PTL DEF Spec, WatchdogsRight

=============================================================================
