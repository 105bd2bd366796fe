-------------------------- MODULE ChunkPool_proofs --------------------------
(***************************************************************************)
(* Proofs about the fan-out for every pool size, queue depth and number of *)
(* client slots: type correctness, what the sequence check guarantees, the *)
(* order in which references wait, and that the fan-out is a LiveStream    *)
(* however long a sender is held up.                                       *)
(***************************************************************************)
EXTENDS ChunkPool, SequenceTheorems, TLAPS

\* Dropping the first of a client's references leaves a list of references.
LEMMA TailOfItems ==
    ASSUME NEW q \in Seq(Items), q # <<>>
    PROVE  /\ Head(q) \in Items
           /\ Tail(q) \in Seq(Items)
           /\ Len(Tail(q)) = Len(q) - 1
           /\ \A k \in 1 .. Len(Tail(q)) : Tail(q)[k] = q[k + 1]
BY HeadTailProperties, SMTT(20)

\* A pool has a first slot.
LEMMA PoolSlots == PoolSize \in Nat \ {0} /\ 0 \in Slots
<1>1. PoolSize \in Nat \ {0}
  BY PoolAssumption
<1> QED
  BY <1>1 DEF Slots

\* A reference audio_task posts names a slot of the pool.
LEMMA ReferenceType ==
    ASSUME TypeOK, NEW c \in Clients
    PROVE  Reference(c) \in Items
<1>1. writePos \in 0 .. PoolSize - 1 /\ PoolSize \in Nat \ {0}
  BY PoolSlots DEF TypeOK, Slots
<1>2. (IF writePos = 0 THEN PoolSize - 1 ELSE writePos - 1) \in Slots
  BY <1>1 DEF Slots
<1>3. written \in Nat /\ audio.session[c] \in Nat
  BY DEF TypeOK, AudioStates
<1> QED
  BY <1>2, <1>3 DEF Reference, Items

\* Ending a client's turn keeps audio_task's record well-typed.
LEMMA DonePostingType ==
    ASSUME TypeOK, NEW c \in Clients
    PROVE  /\ DonePosting(c) \in AudioStates
           /\ DonePosting(c).pc \in {"capture", "post"}
BY DEF TypeOK, DonePosting, AudioStates

\* The initial state is well-typed.
LEMMA TypeInit == Init => TypeOK
<1> SUFFICES ASSUME Init PROVE TypeOK
  OBVIOUS
<1>1. 0 \in Slots
  BY PoolSlots
<1>2. <<>> \in Seq(Items)
  BY EmptySeq
<1> QED
  BY <1>1, <1>2 DEF Init, TypeOK, NoItem, Items, Nothing, NoOwners, Chunks, AudioStates, ConnStates, Copies, Sendings

\* Every step of every task keeps the state well-typed.
LEMMA TypeStep == TypeOK /\ [Next]_vars => TypeOK'
<1> SUFFICES ASSUME TypeOK, [Next]_vars PROVE TypeOK'
  OBVIOUS
<1>1. CASE Tick
  BY <1>1 DEF Tick, TypeOK
<1>2. ASSUME NEW c \in Clients, Connection(c) PROVE TypeOK'
  <2>1. CASE Accept(c)
    <3>1. conn' \in [Clients -> ConnStates]
      BY <2>1 DEF Accept, TypeOK, ConnStates
    <3>2. Nothing \in Sendings
      BY DEF Nothing, Sendings
    <3>3. sent' \in [Clients -> Sendings]
      BY <2>1, <3>2 DEF Accept, TypeOK
    <3> QED
      BY <2>1, <3>1, <3>3 DEF Accept, TypeOK
  <2>2. CASE ResetQueue(c)
    <3>1. <<>> \in Seq(Items)
      BY EmptySeq
    <3> QED
      BY <2>2, <3>1 DEF ResetQueue, TypeOK, ConnStates
  <2>3. CASE BecomeReady(c)
    BY <2>3 DEF BecomeReady, TypeOK, ConnStates
  <2>4. CASE Close(c)
    BY <2>4 DEF Close, TypeOK, ConnStates
  <2> QED
    BY <1>2, <2>1, <2>2, <2>3, <2>4 DEF Connection
<1>3. CASE Audio
  <2>1. CASE Collect
    BY <2>1 DEF Collect, TypeOK, Ready, AudioStates, ConnStates
  <2>2. CASE FillHeader
    BY <2>2 DEF FillHeader, TypeOK, AudioStates, Chunks
  <2>3. CASE FillData
    BY <2>3 DEF FillData, TypeOK, AudioStates, Chunks
  <2>4. CASE Publish
    <3>1. writePos' \in Slots /\ written' \in Nat
      BY <2>4, PoolSlots DEF Publish, TypeOK, Slots
    <3>2. captured' \in Seq(Nat)
      <4>1. captured \in Seq(Nat) /\ audio.ts \in Nat
        BY DEF TypeOK, AudioStates
      <4>2. Append(captured, audio.ts) \in Seq(Nat)
        BY <4>1, AppendProperties
      <4> QED
        BY <2>4, <4>2 DEF Publish
    <3> QED
      BY <2>4, <3>1, <3>2 DEF Publish, TypeOK, AudioStates, Chunks
  <2>5. ASSUME NEW c \in Clients, Post(c) PROVE TypeOK'
    <3>1. Reference(c) \in Items
      BY ReferenceType
    <3>2. queue' \in [Clients -> Seq(Items)]
      <4>1. queue[c] \in Seq(Items)
        BY DEF TypeOK
      <4>2. Append(queue[c], Reference(c)) \in Seq(Items)
        BY <3>1, <4>1, AppendProperties
      <4> QED
        BY <2>5, <4>2 DEF Post, TypeOK
    <3>3. sender' \in [Clients -> Copies]
      BY <2>5, ZenonT(40) DEF Post, Wake, TypeOK, Copies
    <3> QED
      BY <2>5, <3>2, <3>3, DonePostingType DEF Post, TypeOK
  <2>6. ASSUME NEW c \in Clients, QueueFull(c) PROVE TypeOK'
    BY <2>6 DEF QueueFull, TypeOK, AudioStates
  <2>7. ASSUME NEW c \in Clients, Evict(c) PROVE TypeOK'
    <3>1. Reference(c) \in Items
      BY ReferenceType
    <3>2. queue' \in [Clients -> Seq(Items)]
      <4>1. queue[c] \in Seq(Items)
        BY DEF TypeOK
      <4>2. (IF queue[c] = <<>> THEN <<>> ELSE Tail(queue[c])) \in Seq(Items)
        BY <4>1, TailOfItems, EmptySeq
      <4>3. Append(IF queue[c] = <<>> THEN <<>> ELSE Tail(queue[c]), Reference(c)) \in Seq(Items)
        BY <3>1, <4>2, AppendProperties
      <4> QED
        BY <2>7, <4>3 DEF Evict, TypeOK
    <3>3. sender' \in [Clients -> Copies]
      BY <2>7, ZenonT(40) DEF Evict, Wake, TypeOK, Copies
    <3> QED
      BY <2>7, <3>2, <3>3, DonePostingType DEF Evict, TypeOK
  <2> QED
    BY <1>3, <2>1, <2>2, <2>3, <2>4, <2>5, <2>6, <2>7 DEF Audio
<1>4. ASSUME NEW c \in Clients, Sender(c) PROVE TypeOK'
  <2>0. Idle(now) \in Copies
    <3>1. 0 \in Slots
      BY PoolSlots
    <3> QED
      BY <3>1 DEF Idle, NoItem, Items, Copies, TypeOK
  <2>1. CASE Dequeue(c)
    <3>1. queue[c] \in Seq(Items) /\ queue[c] # <<>>
      BY <2>1 DEF Dequeue, TypeOK
    <3>2. Head(queue[c]) \in Items /\ Tail(queue[c]) \in Seq(Items)
      BY <3>1, TailOfItems
    <3> QED
      BY <2>0, <2>1, <3>2 DEF Dequeue, TypeOK, Idle, Copies
  <2>2. CASE CheckAge(c)
    <3>1. CASE now - SlotOf(c).ts > MaxAge
      BY <2>0, <2>2, <3>1 DEF CheckAge, Finish, TypeOK, Copies
    <3>2. CASE ~(now - SlotOf(c).ts > MaxAge)
      <4>1. sender' = [sender EXCEPT ![c].pc = "header", ![c].since = now]
        BY <2>2, <3>2 DEF CheckAge
      <4>2. sender' \in [Clients -> Copies]
        BY <4>1, ZenonT(40) DEF TypeOK, Copies
      <4> QED
        BY <2>2, <4>2 DEF CheckAge, TypeOK
    <3> QED
      BY <3>1, <3>2
  <2>3. CASE CopyHeader(c)
    BY <2>3, ZenonT(40) DEF CopyHeader, SlotOf, TypeOK, Items, Copies, Chunks
  <2>4. CASE CopyData(c)
    BY <2>4, ZenonT(40) DEF CopyData, SlotOf, TypeOK, Items, Copies, Chunks
  <2>5. CASE Verify(c)
    <3>1. CASE SlotOf(c).seq = sender[c].item.seq
      <4>1. sender' = [sender EXCEPT ![c].pc = "send"]
        BY <2>5, <3>1 DEF Verify, Goto
      <4>2. sender' \in [Clients -> Copies]
        BY <4>1 DEF TypeOK, Copies
      <4> QED
        BY <2>5, <4>2 DEF Verify, TypeOK
    <3>2. CASE ~(SlotOf(c).seq = sender[c].item.seq)
      BY <2>0, <2>5, <3>2 DEF Verify, Finish, TypeOK, Copies
    <3> QED
      BY <3>1, <3>2
  <2>6. CASE SendDone(c)
    BY <2>0, <2>6 DEF SendDone, Finish, TypeOK, Items, Copies, Sendings
  <2>7. CASE SendBusy(c)
    BY <2>7 DEF SendBusy, Goto, TypeOK, Copies
  <2>8. CASE SendFailed(c)
    BY <2>0, <2>8 DEF SendFailed, Finish, TypeOK, Copies, ConnStates
  <2>9. CASE StillWanted(c)
    <3>1. CASE Ready(c)
      <4>1. [sender[c] EXCEPT !.pc = "age", !.ts = 0, !.data = 0] \in Copies
        BY DEF TypeOK, Copies
      <4>2. sender' \in [Clients -> Copies]
        BY <2>9, <3>1, <4>1 DEF StillWanted, TypeOK
      <4> QED
        BY <2>9, <4>2 DEF StillWanted, TypeOK
    <3>2. CASE ~(Ready(c))
      BY <2>0, <2>9, <3>2 DEF StillWanted, Finish, TypeOK, Copies
    <3> QED
      BY <3>1, <3>2
  <2> QED
    BY <1>4, <2>1, <2>2, <2>3, <2>4, <2>5, <2>6, <2>7, <2>8, <2>9 DEF Sender
<1>5. CASE UNCHANGED vars
  BY <1>5 DEF vars, TypeOK
<1> QED
  BY <1>1, <1>2, <1>3, <1>4, <1>5 DEF Next

\* Every reachable state of the fan-out is well-typed; in particular the write
\* position and every queued reference stay inside the pool (audio_task).
THEOREM TypeCorrect == Spec => []TypeOK
<1>1. Init => TypeOK
  BY TypeInit
<1>2. TypeOK /\ [Next]_vars => TypeOK'
  BY TypeStep
<1> QED
  BY <1>1, <1>2, PTL DEF Spec

-----------------------------------------------------------------------------
\* Before the first frame nothing is issued, half written or copied.
LEMMA CheckInit == Init => CheckInv
<1> SUFFICES ASSUME Init PROVE CheckInv
  OBVIOUS
<1>1. TypeOK
  BY TypeInit
<1>2. SequencesIssued
  BY DEF Init, SequencesIssued, NoItem
<1>3. SlotsWhole
  BY DEF Init, SlotsWhole
<1>4. CopiesFaithful
  BY DEF Init, CopiesFaithful
<1>5. HeaderIsNewest
  BY DEF Init, HeaderIsNewest
<1> QED
  BY <1>1, <1>2, <1>3, <1>4, <1>5 DEF CheckInv

\* No step reissues a sequence number.
LEMMA SequencesStep == CheckInv /\ [Next]_vars => SequencesIssued'
<1> SUFFICES ASSUME CheckInv, [Next]_vars PROVE SequencesIssued'
  OBVIOUS
<1>0. TypeOK /\ SequencesIssued
  BY DEF CheckInv
<1>1. CASE Tick
  BY <1>0, <1>1 DEF Tick, SequencesIssued
<1>2. ASSUME NEW c \in Clients, Connection(c) PROVE SequencesIssued'
  <2>1. UNCHANGED <<pool, written, sender>>
    BY <1>2 DEF Connection, Accept, ResetQueue, BecomeReady, Close
  <2>2. \A d \in Clients : queue'[d] = queue[d] \/ queue'[d] = <<>>
    BY <1>0, <1>2 DEF Connection, Accept, ResetQueue, BecomeReady, Close, TypeOK
  <2>3. \A d \in Clients : \A k \in 1 .. Len(queue'[d]) : queue'[d][k].seq <= written
    BY <1>0, <2>2 DEF SequencesIssued
  <2> QED
    BY <1>0, <2>1, <2>3 DEF SequencesIssued
<1>3. CASE Audio
  <2>1. CASE Collect
    BY <1>0, <2>1 DEF Collect, SequencesIssued
  <2>2. CASE FillHeader
    BY <1>0, <2>2 DEF FillHeader, SequencesIssued, TypeOK, Chunks
  <2>3. CASE FillData
    BY <1>0, <2>3 DEF FillData, SequencesIssued, TypeOK, Chunks
  <2>4. CASE Publish
    <3>1. \A i \in Slots : pool'[i].seq <= written'
      <4>1. written \in Nat /\ written' = written + 1
        BY <1>0, <2>4 DEF Publish, TypeOK
      <4>2. ASSUME NEW i \in Slots PROVE pool'[i].seq = written + 1 \/ pool'[i] = pool[i]
        BY <1>0, <2>4 DEF Publish, TypeOK, Chunks
      <4>3. \A i \in Slots : pool[i].seq \in Nat /\ pool[i].seq <= written
        BY <1>0 DEF SequencesIssued, TypeOK, Chunks
      <4> QED
        BY <4>1, <4>2, <4>3
    <3>2. \A c \in Clients : sender[c].item.seq \in Nat
      BY <1>0 DEF TypeOK, Copies, Items
    <3>3. \A c \in Clients : \A k \in 1 .. Len(queue[c]) : queue[c][k].seq \in Nat
      <4>1. ASSUME NEW c \in Clients, NEW k \in 1 .. Len(queue[c]) PROVE queue[c][k] \in Items
        <5>1. queue[c] \in Seq(Items)
          BY <1>0 DEF TypeOK
        <5> QED
          BY <5>1, ElementOfSeq
      <4> QED
        BY <4>1 DEF Items
    <3> QED
      BY <1>0, <2>4, <3>1, <3>2, <3>3 DEF Publish, SequencesIssued, TypeOK
  <2>5. ASSUME NEW c \in Clients, Post(c) PROVE SequencesIssued'
    <3>1. Reference(c) \in Items /\ Reference(c).seq = written
      BY <1>0, ReferenceType DEF Reference
    <3>2. \A k \in 1 .. Len(queue'[c]) : queue'[c][k].seq <= written
      <4>1. queue[c] \in Seq(Items) /\ written \in Nat
        BY <1>0 DEF TypeOK
      <4>2. queue'[c] = Append(queue[c], Reference(c))
        BY <1>0, <2>5 DEF Post, TypeOK
      <4>3. \A k \in 1 .. Len(queue[c]) : queue[c][k].seq <= written
        BY <1>0 DEF SequencesIssued
      <4> HIDE DEF Reference
      <4> QED
        BY <3>1, <4>1, <4>2, <4>3, AppendProperties
    <3>3. \A d \in Clients : sender'[d].item = sender[d].item
      BY <1>0, <2>5 DEF Post, Wake, TypeOK, Copies
    <3>4. \A d \in Clients : d # c => queue'[d] = queue[d]
      BY <1>0, <2>5 DEF Post, TypeOK
    <3> QED
      BY <1>0, <2>5, <3>2, <3>3, <3>4 DEF Post, SequencesIssued
  <2>6. ASSUME NEW c \in Clients, QueueFull(c) PROVE SequencesIssued'
    BY <1>0, <2>6 DEF QueueFull, SequencesIssued
  <2>7. ASSUME NEW c \in Clients, Evict(c) PROVE SequencesIssued'
    <3> DEFINE rest == IF queue[c] = <<>> THEN <<>> ELSE Tail(queue[c])
    <3>1. Reference(c) \in Items /\ Reference(c).seq = written
      BY <1>0, ReferenceType DEF Reference
    <3>2. rest \in Seq(Items) /\ \A k \in 1 .. Len(rest) : rest[k].seq <= written
      <4>1. queue[c] \in Seq(Items)
        BY <1>0 DEF TypeOK
      <4>2. \A k \in 1 .. Len(queue[c]) : queue[c][k].seq <= written
        BY <1>0 DEF SequencesIssued
      <4>3. CASE queue[c] = <<>>
        BY <4>3, EmptySeq
      <4>4. CASE queue[c] # <<>>
        <5>1. /\ Tail(queue[c]) \in Seq(Items)
              /\ Len(Tail(queue[c])) = Len(queue[c]) - 1
              /\ \A k \in 1 .. Len(Tail(queue[c])) : Tail(queue[c])[k] = queue[c][k + 1]
          BY <4>1, <4>4, TailOfItems
        <5>2. \A k \in 1 .. Len(Tail(queue[c])) : k + 1 \in 1 .. Len(queue[c])
          BY <4>1, <5>1, LenProperties
        <5> QED
          BY <4>2, <4>4, <5>1, <5>2
      <4> QED
        BY <4>3, <4>4
    <3>3. \A k \in 1 .. Len(queue'[c]) : queue'[c][k].seq <= written
      <4>1. queue'[c] = Append(rest, Reference(c)) /\ written \in Nat
        BY <1>0, <2>7 DEF Evict, TypeOK
      <4> HIDE DEF rest
      <4> QED
        BY <3>1, <3>2, <4>1, AppendProperties
    <3>4. \A d \in Clients : sender'[d].item = sender[d].item
      BY <1>0, <2>7 DEF Evict, Wake, TypeOK, Copies
    <3>5. \A d \in Clients : d # c => queue'[d] = queue[d]
      BY <1>0, <2>7 DEF Evict, TypeOK
    <3> QED
      BY <1>0, <2>7, <3>3, <3>4, <3>5 DEF Evict, SequencesIssued
  <2> QED
    BY <1>3, <2>1, <2>2, <2>3, <2>4, <2>5, <2>6, <2>7 DEF Audio
<1>4. ASSUME NEW c \in Clients, Sender(c) PROVE SequencesIssued'
  <2>0. /\ Idle(now).item.seq <= written
        /\ \A d \in Clients : sender[d] \in Copies
    BY <1>0 DEF Idle, NoItem, TypeOK
  <2>1. CASE Dequeue(c)
    <3>1. queue[c] \in Seq(Items) /\ queue[c] # <<>>
      BY <1>0, <2>1 DEF Dequeue, TypeOK
    <3>2. /\ Head(queue[c]) = queue[c][1]
          /\ Len(Tail(queue[c])) = Len(queue[c]) - 1
          /\ \A k \in 1 .. Len(Tail(queue[c])) : Tail(queue[c])[k] = queue[c][k + 1]
          /\ Len(queue[c]) \in Nat \ {0}
      BY <3>1, TailOfItems, HeadTailProperties, EmptySeq, LenProperties
    <3>3. Head(queue[c]).seq <= written
      BY <1>0, <3>2 DEF SequencesIssued
    <3>4. \A k \in 1 .. Len(queue'[c]) : queue'[c][k].seq <= written
      BY <1>0, <2>1, <3>2 DEF Dequeue, SequencesIssued, TypeOK
    <3>5. \A d \in Clients : d # c => queue'[d] = queue[d] /\ sender'[d] = sender[d]
      BY <1>0, <2>1 DEF Dequeue, TypeOK
    <3>6. sender'[c].item.seq <= written
      BY <1>0, <2>0, <2>1, <3>3 DEF Dequeue, TypeOK, Idle
    <3> QED
      BY <1>0, <2>1, <3>4, <3>5, <3>6 DEF Dequeue, SequencesIssued
  <2>2. CASE ~Dequeue(c)
    <3>1. UNCHANGED <<pool, written, queue>>
      BY <1>4, <2>2 DEF Sender, CheckAge, CopyHeader, CopyData, Verify, SendDone, SendBusy,
                        SendFailed, StillWanted
    <3>2. sender' = [sender EXCEPT ![c] = Idle(now)] \/ sender'[c].item = sender[c].item
      <4>1. sender \in [Clients -> Copies] /\ sender[c] \in Copies
        BY <1>0 DEF TypeOK
      <4>2. CASE CheckAge(c)
        BY <4>1, <4>2 DEF CheckAge, Finish, Copies
      <4>3. CASE CopyHeader(c) \/ CopyData(c)
        BY <4>1, <4>3 DEF CopyHeader, CopyData, Copies
      <4>4. CASE Verify(c) \/ SendBusy(c)
        BY <4>1, <4>4 DEF Verify, SendBusy, Goto, Finish, Copies
      <4>5. CASE SendDone(c) \/ SendFailed(c)
        BY <4>5 DEF SendDone, SendFailed, Finish
      <4>6. CASE StillWanted(c)
        BY <4>1, <4>6, ZenonT(40) DEF StillWanted, Finish, Copies
      <4> QED
        BY <1>4, <2>2, <4>2, <4>3, <4>4, <4>5, <4>6 DEF Sender
    <3>3. \A d \in Clients : d # c => sender'[d] = sender[d]
      BY <1>0, <1>4, <2>2 DEF Sender, CheckAge, CopyHeader, CopyData, Verify, SendDone,
                        SendBusy, SendFailed, StillWanted, Finish, Goto, TypeOK
    <3>4. sender'[c].item.seq <= written
      BY <1>0, <2>0, <3>2 DEF TypeOK, SequencesIssued
    <3> QED
      BY <1>0, <3>1, <3>3, <3>4 DEF SequencesIssued
  <2> QED
    BY <2>1, <2>2
<1>5. CASE UNCHANGED vars
  BY <1>0, <1>5 DEF vars, SequencesIssued
<1> QED
  BY <1>1, <1>2, <1>3, <1>4, <1>5 DEF Next

\* Only audio_task writes the pool, and it writes both halves of a slot.
LEMMA SlotsStep == CheckInv /\ [Next]_vars => SlotsWhole'
<1> SUFFICES ASSUME CheckInv, [Next]_vars PROVE SlotsWhole'
  OBVIOUS
<1>0. TypeOK /\ SlotsWhole
  BY DEF CheckInv
<1>1. CASE Audio
  <2>1. CASE FillHeader
    BY <1>0, <2>1 DEF FillHeader, SlotsWhole, TypeOK, Chunks, AudioStates
  <2>2. CASE FillData
    <3>1. pool'[writePos].ts = pool[writePos].ts /\ pool'[writePos].data = audio.ts
      BY <1>0, <2>2 DEF FillData, TypeOK, Chunks
    <3>2. pool[writePos].ts = audio.ts
      BY <1>0, <2>2 DEF FillData, CheckInv, HeaderIsNewest
    <3>3. \A i \in Slots : i # writePos => pool'[i] = pool[i]
      BY <1>0, <2>2 DEF FillData, TypeOK
    <3> QED
      BY <1>0, <2>2, <3>1, <3>2, <3>3 DEF FillData, SlotsWhole
  <2>3. CASE Publish
    <3>1. \A i \in Slots : pool'[i].ts = pool[i].ts /\ pool'[i].data = pool[i].data
      BY <1>0, <2>3 DEF Publish, TypeOK, Chunks
    <3> QED
      BY <1>0, <2>3, <3>1 DEF Publish, SlotsWhole
  <2>4. CASE Collect
    BY <1>0, <2>4 DEF Collect, SlotsWhole
  <2>5. ASSUME NEW c \in Clients, Post(c) \/ QueueFull(c) \/ Evict(c) PROVE SlotsWhole'
    <3>1. pool' = pool /\ audio.pc # "data"
      BY <2>5 DEF Post, QueueFull, Evict
    <3> QED
      BY <1>0, <3>1 DEF SlotsWhole
  <2> QED
    BY <1>1, <2>1, <2>2, <2>3, <2>4, <2>5 DEF Audio
<1>2. CASE UNCHANGED <<pool, audio, writePos>>
  BY <1>0, <1>2 DEF SlotsWhole
<1>3. CASE Tick \/ \E c \in Clients : Connection(c)
  BY <1>2, <1>3 DEF Tick, Connection, Accept, ResetQueue, BecomeReady, Close
<1>4. CASE \E c \in Clients : Sender(c)
  BY <1>2, <1>4 DEF Sender, Dequeue, CheckAge, CopyHeader, CopyData, Verify, SendDone, SendBusy,
                    SendFailed, StillWanted
<1> QED
  BY <1>1, <1>2, <1>3, <1>4 DEF Next, vars

\* Between its two writes a slot carries the capture time of the new frame.
LEMMA HeaderStep == CheckInv /\ [Next]_vars => HeaderIsNewest'
<1> SUFFICES ASSUME CheckInv, [Next]_vars PROVE HeaderIsNewest'
  OBVIOUS
<1>0. TypeOK /\ HeaderIsNewest
  BY DEF CheckInv
<1>1. CASE FillHeader
  BY <1>0, <1>1 DEF FillHeader, HeaderIsNewest, TypeOK, Chunks, AudioStates
<1>2. CASE Audio /\ ~FillHeader
  <2>1. audio'.pc # "data"
    <3>1. audio \in AudioStates
      BY <1>0 DEF TypeOK
    <3>2. CASE Collect \/ FillData \/ Publish
      BY <3>1, <3>2 DEF Collect, FillData, Publish, AudioStates
    <3>3. ASSUME NEW c \in Clients, Post(c) \/ QueueFull(c) \/ Evict(c) PROVE audio'.pc # "data"
      BY <1>0, <3>1, <3>3, DonePostingType DEF Post, QueueFull, Evict, AudioStates
    <3> QED
      BY <1>2, <3>2, <3>3 DEF Audio
  <2> QED
    BY <2>1 DEF HeaderIsNewest
<1>3. CASE UNCHANGED <<pool, audio, writePos>>
  BY <1>0, <1>3 DEF HeaderIsNewest
<1>4. CASE Tick \/ \E c \in Clients : Connection(c)
  BY <1>3, <1>4 DEF Tick, Connection, Accept, ResetQueue, BecomeReady, Close
<1>5. CASE \E c \in Clients : Sender(c)
  BY <1>3, <1>5 DEF Sender, Dequeue, CheckAge, CopyHeader, CopyData, Verify, SendDone, SendBusy,
                    SendFailed, StillWanted
<1> QED
  BY <1>1, <1>2, <1>3, <1>4, <1>5 DEF Next, vars

\* A copy loses its slot only to a refill, which changes the sequence number.
LEMMA CopiesStep == CheckInv /\ [Next]_vars => CopiesFaithful'
<1> SUFFICES ASSUME CheckInv, [Next]_vars PROVE CopiesFaithful'
  OBVIOUS
<1>0. TypeOK /\ SequencesIssued /\ CopiesFaithful
  BY DEF CheckInv
<1>a. \A c \in Clients : sender[c] \in Copies /\ sender[c].item.slot \in Slots
  BY <1>0 DEF TypeOK, Copies, Items
<1>1. CASE Tick
  BY <1>0, <1>1 DEF Tick, CopiesFaithful, SlotOf, Refilling, At
<1>2. ASSUME NEW c \in Clients, Connection(c) PROVE CopiesFaithful'
  <2>1. UNCHANGED <<pool, writePos, audio, sender>>
    BY <1>2 DEF Connection, Accept, ResetQueue, BecomeReady, Close
  <2> QED
    BY <1>0, <2>1 DEF CopiesFaithful, SlotOf, Refilling, At
<1>3. CASE Audio
  <2>1. CASE Collect
    <3>1. UNCHANGED <<pool, sender, writePos>> /\ ~Refilling(writePos)
      BY <2>1 DEF Collect, Refilling
    <3>2. \A i \in Slots : ~Refilling(i)
      BY <2>1 DEF Collect, Refilling
    <3> QED
      BY <1>0, <1>a, <3>1, <3>2 DEF CopiesFaithful, SlotOf, At
  <2>2. CASE FillHeader \/ FillData
    <3>1. /\ UNCHANGED <<sender, writePos>>
          /\ audio'.pc \in {"data", "publish"}
          /\ \A i \in Slots : i # writePos => pool'[i] = pool[i]
      BY <1>0, <2>2 DEF FillHeader, FillData, TypeOK, AudioStates
    <3>2. ASSUME NEW c \in Clients, ~Refilling(sender[c].item.slot)'
          PROVE  /\ sender[c].item.slot # writePos
                 /\ ~Refilling(sender[c].item.slot)
                 /\ pool'[sender[c].item.slot] = pool[sender[c].item.slot]
      BY <1>a, <3>1, <3>2 DEF Refilling
    <3> QED
      BY <1>0, <3>1, <3>2 DEF CopiesFaithful, SlotOf, At
  <2>3. CASE Publish
    <3>1. /\ sender' = sender
          /\ written \in Nat
          /\ pool'[writePos].seq = written + 1
          /\ \A i \in Slots : i # writePos => pool'[i] = pool[i] /\ ~Refilling(i)
      BY <1>0, <2>3 DEF Publish, TypeOK, Chunks, Refilling
    <3>2. \A c \in Clients : /\ sender[c].item.seq \in Nat
                             /\ sender[c].item.seq <= written
      BY <1>0 DEF SequencesIssued, TypeOK, Copies, Items
    <3>3. ASSUME NEW c \in Clients, pool'[sender[c].item.slot].seq = sender[c].item.seq
          PROVE  sender[c].item.slot # writePos
      BY <3>1, <3>2, <3>3
    <3> QED
      BY <1>0, <1>a, <3>1, <3>3 DEF CopiesFaithful, SlotOf, At
  <2>4. ASSUME NEW c \in Clients, Post(c) \/ QueueFull(c) \/ Evict(c) PROVE CopiesFaithful'
    <3>1. UNCHANGED <<pool, writePos>> /\ \A i \in Slots : ~Refilling(i)
      BY <2>4 DEF Post, QueueFull, Evict, Refilling
    <3>2. \A d \in Clients : /\ sender'[d].pc = sender[d].pc
                             /\ sender'[d].item = sender[d].item
                             /\ sender'[d].ts = sender[d].ts
                             /\ sender'[d].data = sender[d].data
      <4>1. sender \in [Clients -> Copies]
        BY <1>0 DEF TypeOK
      <4>2. sender' = sender \/ sender' = [sender EXCEPT ![c].since = now]
        BY <2>4 DEF Post, QueueFull, Evict, Wake
      <4> QED
        BY <4>1, <4>2 DEF Copies
    <3> QED
      BY <1>0, <1>a, <3>1, <3>2 DEF CopiesFaithful, SlotOf, At
  <2> QED
    BY <1>3, <2>1, <2>2, <2>3, <2>4 DEF Audio
<1>4. ASSUME NEW c \in Clients, Sender(c) PROVE CopiesFaithful'
  <2>1. UNCHANGED <<pool, writePos, audio>>
    BY <1>4 DEF Sender, Dequeue, CheckAge, CopyHeader, CopyData, Verify, SendDone, SendBusy,
                SendFailed, StillWanted
  <2>2. \A d \in Clients : d # c => sender'[d] = sender[d]
    BY <1>0, <1>4 DEF Sender, Dequeue, CheckAge, CopyHeader, CopyData, Verify, SendDone, SendBusy,
                SendFailed, StillWanted, Finish, Goto, TypeOK
  <2>3. CASE CopyHeader(c)
    <3>1. /\ sender'[c].pc = "data" /\ sender'[c].item = sender[c].item
          /\ sender'[c].ts = SlotOf(c).ts
      BY <1>0, <1>a, <2>3 DEF CopyHeader, TypeOK, Copies
    <3> QED
      BY <1>0, <2>1, <2>2, <3>1 DEF CopiesFaithful, SlotOf, Refilling, At
  <2>4. CASE CopyData(c)
    <3>1. /\ sender'[c].pc = "verify" /\ sender'[c].item = sender[c].item
          /\ sender'[c].ts = sender[c].ts /\ sender'[c].data = SlotOf(c).data
          /\ sender[c].pc = "data"
      BY <1>0, <1>a, <2>4 DEF CopyData, TypeOK, Copies, At
    <3> QED
      BY <1>0, <2>1, <2>2, <3>1 DEF CopiesFaithful, SlotOf, Refilling, At
  <2>5. CASE ~CopyHeader(c) /\ ~CopyData(c)
    <3>1. sender'[c].pc \notin {"data", "verify"}
      <4>1. sender \in [Clients -> Copies]
        BY <1>0 DEF TypeOK
      <4>2. Idle(now).pc = "idle"
        BY DEF Idle
      <4>3. CASE Dequeue(c)
        BY <4>1, <4>3 DEF Dequeue, Idle
      <4>4. CASE CheckAge(c)
        BY <4>1, <4>2, <4>4 DEF CheckAge, Finish, Copies
      <4>5. CASE Verify(c) \/ SendBusy(c)
        BY <4>1, <4>2, <4>5 DEF Verify, SendBusy, Goto, Finish, Copies
      <4>6. CASE SendDone(c) \/ SendFailed(c)
        BY <4>1, <4>2, <4>6 DEF SendDone, SendFailed, Finish
      <4>7. CASE StillWanted(c)
        BY <4>1, <4>2, <4>7 DEF StillWanted, Finish, Copies
      <4> QED
        BY <1>4, <2>5, <4>3, <4>4, <4>5, <4>6, <4>7 DEF Sender
    <3> QED
      BY <1>0, <2>1, <2>2, <3>1 DEF CopiesFaithful, SlotOf, Refilling, At
  <2> QED
    BY <2>3, <2>4, <2>5
<1>5. CASE UNCHANGED vars
  BY <1>0, <1>5 DEF vars, CopiesFaithful, SlotOf, Refilling, At
<1> QED
  BY <1>1, <1>2, <1>3, <1>4, <1>5 DEF Next

\* The inductive invariant behind the sequence check holds for every pool.
THEOREM CheckInvariant == Spec => []CheckInv
<1>1. Init => CheckInv
  BY CheckInit
<1>2. CheckInv /\ [Next]_vars => CheckInv'
  BY TypeStep, SequencesStep, SlotsStep, HeaderStep, CopiesStep DEF CheckInv
<1> QED
  BY <1>1, <1>2, PTL DEF Spec

\* The invariant leaves the check to be fooled only by a refill.
LEMMA CheckSound == CheckInv => CheckFooledOnlyByRefill
<1> SUFFICES ASSUME CheckInv, NEW c \in Clients,
                    At(c, "verify"), SlotOf(c).seq = sender[c].item.seq,
                    ~Refilling(sender[c].item.slot)
             PROVE  /\ sender[c].ts = SlotOf(c).ts
                    /\ sender[c].data = SlotOf(c).data
                    /\ sender[c].ts = sender[c].data
  BY DEF CheckFooledOnlyByRefill
<1>1. sender[c].ts = SlotOf(c).ts /\ sender[c].data = SlotOf(c).data
  BY DEF CheckInv, CopiesFaithful, At
<1>2. SlotOf(c).ts = SlotOf(c).data
  <2>1. sender[c].item.slot \in Slots
    BY DEF CheckInv, TypeOK, Copies, Items
  <2> QED
    BY <2>1 DEF CheckInv, SlotsWhole, SlotOf, Refilling
<1> QED
  BY <1>1, <1>2

\* With any pool size, queue depth, number of clients and any timing whatever,
\* a copy that passes the sequence check (send_wire_chunk) is one whole chunk
\* unless audio_task is rewriting its slot at that moment.
THEOREM SequenceCheckSound == Spec => []CheckFooledOnlyByRefill
BY CheckSound, CheckInvariant, PTL

-----------------------------------------------------------------------------
(* How far a reference can fall behind audio_task *)

\* audio_task has a frame it has not published yet; it has published one it
\* has not posted to every client yet.
Filling == audio.pc \in {"header", "data", "publish"}
Posting == audio.pc \in {"post", "evict"}

\* Frames captured so far; how many of them came after the one reference r
\* names; and the most that can have come at or after time t.
Captured   == IF Filling THEN written + 1 ELSE written
Lag(r)     == Captured - r.seq
Since(t)   == IF audio.ts >= t THEN audio.ts - t + 1 ELSE 0
Pending(c) == IF c \in audio.todo THEN 1 ELSE 0
Busy(c)    == ~At(c, "idle")

\* The newest chunk client c can have been posted a reference to.
LastPosted(c) == IF Posting /\ c \in audio.todo THEN written - 1 ELSE written

\* Where audio_task is and what it holds.
AudioInTurn ==
    /\ audio.ts <= now
    /\ Filling => audio.ts >= 1
    /\ audio.pc = "capture" => audio.todo = {}
    /\ audio.full \subseteq audio.todo
    /\ Posting => written >= 1
    /\ audio.pc \in {"data", "publish"} => pool[writePos].ts = audio.ts

\* Slot i was last published PoolSize or fewer chunks ago; this is its chunk,
\* unless it was never published.
Turn(i) == IF i < writePos THEN written - writePos + 1 + i
           ELSE written - writePos + 1 + i - PoolSize
Ring == \A i \in Slots : pool[i].seq = IF Turn(i) > 0 THEN Turn(i) ELSE 0

\* Frames are captured a period or more apart, so a slot's chunk is at least
\* as many periods old as it is chunks old.
Older(chunk, t, n) ==
    /\ chunk.seq = 0 => chunk.ts = 0
    /\ chunk.seq # 0 => chunk.ts >= 1 /\ t - chunk.ts >= n - chunk.seq
Paced == \A i \in Slots : ~Refilling(i) => Older(pool[i], audio.ts, Captured)

\* Chunks are numbered in capture order.
InCaptureOrder ==
    \A i, j \in Slots :
        ~Refilling(i) /\ ~Refilling(j) /\ pool[i].seq < pool[j].seq => pool[i].ts < pool[j].ts

PoolInv == AudioInTurn /\ Ring /\ Paced /\ InCaptureOrder

\* A sender with work looked at an age no longer than MaxStall ago.
OnTime(c) ==
    /\ sender[c].since <= now
    /\ Busy(c) \/ queue[c] # <<>> => now - sender[c].since <= MaxStall

\* What was sent, what is being sent, what waits in the queue and what is
\* still to be posted are in the order of their numbers.
InOrder(c) ==
    /\ Len(queue[c]) <= QueueDepth
    /\ sent[c].seq <= LastPosted(c)
    /\ sender[c].item.seq <= LastPosted(c)
    /\ Busy(c) => sent[c].seq < sender[c].item.seq
    /\ \A k \in 1 .. Len(queue[c]) :
         /\ queue[c][k].seq <= LastPosted(c)
         /\ sent[c].seq < queue[c][k].seq
         /\ Busy(c) => sender[c].item.seq < queue[c][k].seq
    /\ \A j, k \in 1 .. Len(queue[c]) : j < k => queue[c][j].seq < queue[c][k].seq

\* The stalls a sender can still have before it takes the next reference.
Stalls(c) == IF At(c, "idle") THEN MaxStall + MaxStall
             ELSE IF At(c, "age") THEN 0 ELSE MaxStall

\* While a client is not ready it is posted nothing, but for the chunk that
\* was under way when its queue was reset: that reference falls behind with
\* every frame, for as long as the sender holds the chunk it is at.
Unposted(c) ==
    /\ Len(queue[c]) + Pending(c) <= 1
    /\ \A k \in 1 .. Len(queue[c]) : Lag(queue[c][k]) <= Since(sender[c].since) + Stalls(c)

\* Once it is ready it is posted every chunk, so a reference is as far behind
\* as there are references behind it: all but that first one.
Posted(c) ==
    \A k \in 1 .. Len(queue[c]) :
        \/ Lag(queue[c][k]) <= Len(queue[c]) - k + Pending(c)
        \/ /\ k = 1
           /\ Lag(queue[c][k]) <= Len(queue[c]) + Pending(c) + MaxStall + MaxStall
        \/ /\ k = 1 /\ At(c, "idle")
           /\ Lag(queue[c][k]) <= Since(sender[c].since) + MaxStall + MaxStall

NotFarBehind(c) ==
    /\ conn[c].state = "handshake" => Unposted(c)
    /\ conn[c].state = "ready" => Posted(c)

ClientInv(c) == OnTime(c) /\ InOrder(c) /\ NotFarBehind(c)

FanInv == PoolInv /\ \A c \in Clients : ClientInv(c)

-----------------------------------------------------------------------------
(* What steps do to the rows of the clients *)

\* The references of a queue have numbers and name slots.
LEMMA ItemFields ==
    ASSUME NEW q \in Seq(Items)
    PROVE  /\ Len(q) \in Nat
           /\ \A k \in 1 .. Len(q) : q[k] \in Items /\ q[k].seq \in Nat /\ q[k].slot \in Slots
<1>1. Len(q) \in Nat
  BY LenProperties
<1>2. \A k \in 1 .. Len(q) : q[k] \in Items
  BY ElementOfSeq
<1> QED
  BY <1>1, <1>2 DEF Items

\* The types the steps below need.
LEMMA RowTypes ==
    ASSUME TypeOK, NEW c \in Clients
    PROVE  /\ now \in Nat /\ written \in Nat /\ audio.ts \in Nat
           /\ audio.pc \in {"capture", "header", "data", "publish", "post", "evict"}
           /\ sender[c].since \in Nat /\ sender[c].item.seq \in Nat /\ sender[c].ts \in Nat
           /\ sender[c].item.slot \in Slots
           /\ sender[c].pc \in {"idle", "age", "header", "data", "verify", "send", "wanted"}
           /\ sent[c].seq \in Nat /\ sent[c].ts \in Nat
           /\ queue[c] \in Seq(Items)
           /\ conn[c].state \in {"free", "accepted", "handshake", "ready", "failed"}
           /\ PoolSize \in Nat \ {0} /\ QueueDepth \in Nat \ {0}
           /\ MaxStall \in Nat /\ MaxAge \in Nat
<1>1. sender[c] \in Copies /\ sent[c] \in Sendings /\ conn[c] \in ConnStates
  BY DEF TypeOK
<1>2. sender[c].item \in Items
  BY <1>1 DEF Copies
<1> QED
  BY <1>1, <1>2, PoolAssumption DEF TypeOK, Copies, Items, Sendings, ConnStates, AudioStates

\* What a sender does after it took a reference.
LEMMA SenderRow ==
    ASSUME TypeOK, NEW c \in Clients, Sender(c), ~Dequeue(c)
    PROVE  /\ UNCHANGED <<now, pool, writePos, written, audio, queue>>
           /\ \A d \in Clients : d # c => /\ sender'[d] = sender[d] /\ conn'[d] = conn[d]
                                          /\ sent'[d] = sent[d]
           /\ sender[c].pc # "idle"
           /\ conn'[c] = conn[c] \/ conn'[c].state = "failed"
           /\ \/ sent'[c] = sent[c]
              \/ sender'[c] = Idle(now) /\ sent'[c].seq = sender[c].item.seq
           /\ \/ sender'[c] = Idle(now)
              \/ /\ sender'[c].item = sender[c].item /\ sender'[c].pc # "idle"
                 /\ \/ /\ sender[c].pc = "age" /\ sender'[c].pc = "header"
                       /\ sender'[c].since = now
                    \/ /\ sender'[c].since = sender[c].since /\ sender[c].pc # "age"
                       /\ sender'[c].pc = "age" => conn[c].state = "ready"
<1>0. sender \in [Clients -> Copies] /\ sender[c] \in Copies /\ sent \in [Clients -> Sendings]
      /\ conn \in [Clients -> ConnStates]
  BY DEF TypeOK
<1>1. CASE CheckAge(c)
  <2>1. CASE now - SlotOf(c).ts > MaxAge
    BY <1>0, <1>1, <2>1 DEF CheckAge, Finish, At
  <2>2. CASE ~(now - SlotOf(c).ts > MaxAge)
    <3>1. sender' = [sender EXCEPT ![c].pc = "header", ![c].since = now]
      BY <1>1, <2>2 DEF CheckAge
    <3>2. sender'[c].item = sender[c].item /\ sender'[c].pc = "header" /\ sender'[c].since = now
      BY <1>0, <3>1 DEF Copies
    <3> QED
      BY <1>0, <1>1, <3>1, <3>2 DEF CheckAge, At
  <2> QED
    BY <2>1, <2>2
<1>2. CASE CopyHeader(c)
  <2>1. sender'[c].item = sender[c].item /\ sender'[c].pc = "data" /\ sender'[c].since = sender[c].since
    BY <1>0, <1>2 DEF CopyHeader, Copies
  <2> QED
    BY <1>0, <1>2, <2>1 DEF CopyHeader, At
<1>3. CASE CopyData(c)
  <2>1. sender'[c].item = sender[c].item /\ sender'[c].pc = "verify" /\ sender'[c].since = sender[c].since
    BY <1>0, <1>3 DEF CopyData, Copies
  <2> QED
    BY <1>0, <1>3, <2>1 DEF CopyData, At
<1>4. CASE Verify(c)
  <2>1. CASE SlotOf(c).seq = sender[c].item.seq
    <3>1. sender' = [sender EXCEPT ![c].pc = "send"]
      BY <1>4, <2>1 DEF Verify, Goto
    <3>2. sender'[c].item = sender[c].item /\ sender'[c].pc = "send" /\ sender'[c].since = sender[c].since
      BY <1>0, <3>1 DEF Copies
    <3> QED
      BY <1>0, <1>4, <3>1, <3>2 DEF Verify, At
  <2>2. CASE SlotOf(c).seq # sender[c].item.seq
    BY <1>0, <1>4, <2>2 DEF Verify, Finish, At
  <2> QED
    BY <2>1, <2>2
<1>5. CASE SendDone(c)
  BY <1>0, <1>5 DEF SendDone, Finish, At
<1>6. CASE SendBusy(c)
  <2>1. sender'[c].item = sender[c].item /\ sender'[c].pc = "wanted" /\ sender'[c].since = sender[c].since
    BY <1>0, <1>6 DEF SendBusy, Goto, Copies
  <2> QED
    BY <1>0, <1>6, <2>1 DEF SendBusy, Goto, At
<1>7. CASE SendFailed(c)
  <2>1. conn'[c] = conn[c] \/ conn'[c].state = "failed"
    BY <1>0, <1>7 DEF SendFailed, ConnStates
  <2> QED
    BY <1>0, <1>7, <2>1 DEF SendFailed, Finish, At
<1>8. CASE StillWanted(c)
  <2>1. CASE Ready(c)
    <3> DEFINE r == [sender[c] EXCEPT !.pc = "age", !.ts = 0, !.data = 0]
    <3>1. r.item = sender[c].item /\ r.pc = "age" /\ r.since = sender[c].since
      BY <1>0 DEF Copies
    <3>2. sender' = [sender EXCEPT ![c] = r]
      BY <1>8, <2>1 DEF StillWanted
    <3> HIDE DEF r
    <3> QED
      BY <1>0, <1>8, <2>1, <3>1, <3>2 DEF StillWanted, At, Ready
  <2>2. CASE ~Ready(c)
    BY <1>0, <1>8, <2>2 DEF StillWanted, Finish, At
  <2> QED
    BY <2>1, <2>2
<1> QED
  BY <1>1, <1>2, <1>3, <1>4, <1>5, <1>6, <1>7, <1>8 DEF Sender

-----------------------------------------------------------------------------
(* The pool's side *)

\* Nothing is captured at first.
LEMMA PoolInit == Init => PoolInv
<1> SUFFICES ASSUME Init PROVE PoolInv
  OBVIOUS
<1>0. PoolSize \in Nat \ {0}
  BY PoolSlots
<1>1. AudioInTurn
  BY DEF Init, AudioInTurn, Filling, Posting
<1>2. Ring
  BY <1>0 DEF Init, Ring, Turn, Slots
<1>3. Paced /\ InCaptureOrder
  BY DEF Init, Paced, Older, InCaptureOrder
<1> QED
  BY <1>1, <1>2, <1>3 DEF PoolInv

\* Steps that leave the pool and audio_task's frame alone.
LEMMA PoolFrame ==
    ASSUME TypeOK, PoolInv, UNCHANGED <<pool, writePos, written>>, now' >= now, now' \in Nat,
           audio'.ts = audio.ts, Filling' = Filling, AudioInTurn',
           audio'.pc \in {"data", "publish"} <=> audio.pc \in {"data", "publish"}
    PROVE  PoolInv'
<1>1. Ring'
  BY DEF PoolInv, Ring, Turn
<1>2. \A i \in Slots : Refilling(i)' = Refilling(i)
  BY DEF Refilling
<1>3. Captured' = Captured
  BY DEF Captured
<1>4. Paced'
  BY <1>2, <1>3 DEF PoolInv, Paced
<1>5. InCaptureOrder'
  BY <1>2 DEF PoolInv, InCaptureOrder
<1> QED
  BY <1>1, <1>4, <1>5 DEF PoolInv

\* Collect: the new frame is later than every chunk in the pool.
LEMMA PoolCollect == TypeOK /\ PoolInv /\ Collect => PoolInv'
<1> SUFFICES ASSUME TypeOK, PoolInv, Collect PROVE PoolInv'
  OBVIOUS
<1>0. /\ now \in Nat /\ audio.ts \in Nat /\ written \in Nat /\ pool \in [Slots -> Chunks]
      /\ audio.ts < now /\ audio.pc = "capture"
      /\ audio'.pc = "header" /\ audio'.ts = now /\ audio'.full = {}
      /\ UNCHANGED <<now, pool, writePos, written>>
  BY DEF TypeOK, AudioStates, Collect
<1>1. AudioInTurn'
  BY <1>0 DEF AudioInTurn, Filling, Posting
<1>2. Ring'
  BY <1>0 DEF PoolInv, Ring, Turn
<1>3. \A i \in Slots : ~Refilling(i) /\ ~Refilling(i)'
  BY <1>0 DEF Refilling
<1>4. Captured' = written + 1 /\ Captured = written
  BY <1>0 DEF Captured, Filling
<1>5. Paced'
  <2> SUFFICES ASSUME NEW i \in Slots
               PROVE  Older(pool[i], now, written + 1)
    BY <1>0, <1>4 DEF Paced
  <2>1. pool[i].seq \in Nat /\ pool[i].ts \in Nat
    BY <1>0 DEF Chunks
  <2>2. Older(pool[i], audio.ts, written)
    BY <1>3, <1>4 DEF PoolInv, Paced
  <2> QED
    BY <1>0, <2>1, <2>2 DEF Older
<1>6. InCaptureOrder'
  BY <1>0, <1>3 DEF PoolInv, InCaptureOrder
<1> QED
  BY <1>1, <1>2, <1>5, <1>6 DEF PoolInv

\* FillHeader and FillData: the slot leaves the ring, the others stay.
LEMMA PoolFill == TypeOK /\ PoolInv /\ (FillHeader \/ FillData) => PoolInv'
<1> SUFFICES ASSUME TypeOK, PoolInv, FillHeader \/ FillData PROVE PoolInv'
  OBVIOUS
<1>0. /\ now \in Nat /\ audio.ts \in Nat /\ written \in Nat /\ pool \in [Slots -> Chunks]
      /\ writePos \in Slots /\ audio \in AudioStates
      /\ UNCHANGED <<now, writePos, written>>
      /\ audio.pc \in {"header", "data"} /\ audio'.pc \in {"data", "publish"}
      /\ audio'.ts = audio.ts /\ audio'.full = audio.full /\ audio'.todo = audio.todo
  BY DEF TypeOK, AudioStates, FillHeader, FillData
<1>1. /\ \A i \in Slots : pool'[i].seq = pool[i].seq
      /\ \A i \in Slots : i # writePos => pool'[i] = pool[i]
  BY <1>0 DEF FillHeader, FillData, Chunks
<1>2. pool'[writePos].ts = audio.ts
  <2>1. CASE FillHeader
    BY <1>0, <2>1 DEF FillHeader, Chunks
  <2>2. CASE FillData
    <3>1. pool[writePos].ts = audio.ts
      BY <2>2 DEF FillData, PoolInv, AudioInTurn
    <3> QED
      BY <1>0, <2>2, <3>1 DEF FillData, Chunks
  <2> QED
    BY <2>1, <2>2
<1>3. AudioInTurn'
  BY <1>0, <1>2 DEF PoolInv, AudioInTurn, Filling, Posting
<1>4. Ring'
  BY <1>0, <1>1 DEF PoolInv, Ring, Turn
<1>5. Captured' = Captured
  BY <1>0 DEF Captured, Filling
<1>6. \A i \in Slots : ~Refilling(i)' => ~Refilling(i) /\ pool'[i] = pool[i]
  BY <1>0, <1>1 DEF Refilling
<1>7. Paced'
  BY <1>0, <1>5, <1>6 DEF PoolInv, Paced
<1>8. InCaptureOrder'
  BY <1>6 DEF PoolInv, InCaptureOrder
<1> QED
  BY <1>3, <1>4, <1>7, <1>8 DEF PoolInv

\* Publish: the slot is back with the newest number and the newest frame, and
\* the oldest slot is next.
LEMMA PoolPublish == CheckInv /\ PoolInv /\ Publish => PoolInv'
<1> SUFFICES ASSUME CheckInv, PoolInv, Publish PROVE PoolInv'
  OBVIOUS
<1>a. TypeOK /\ SequencesIssued
  BY DEF CheckInv
<1>0. /\ now \in Nat /\ audio.ts \in Nat /\ written \in Nat /\ pool \in [Slots -> Chunks]
      /\ writePos \in Slots /\ audio \in AudioStates
      /\ now' = now /\ written' = written + 1
      /\ writePos' = IF writePos + 1 = PoolSize THEN 0 ELSE writePos + 1
      /\ audio.pc = "publish" /\ audio'.pc = IF audio.todo = {} THEN "capture" ELSE "post"
      /\ audio'.ts = audio.ts /\ audio'.full = audio.full /\ audio'.todo = audio.todo
  BY <1>a DEF TypeOK, AudioStates, Publish
<1>1. /\ pool'[writePos].seq = written + 1 /\ pool'[writePos].ts = pool[writePos].ts
      /\ \A i \in Slots : i # writePos => pool'[i] = pool[i]
  BY <1>0 DEF Publish, Chunks
<1>2. audio.ts >= 1 /\ pool[writePos].ts = audio.ts
  BY <1>0 DEF PoolInv, AudioInTurn, Filling
<1>3. AudioInTurn'
  BY <1>0, <1>2 DEF PoolInv, AudioInTurn, Filling, Posting
<1>4. Ring'
  <2> SUFFICES ASSUME NEW i \in Slots
               PROVE  pool'[i].seq = IF Turn(i)' > 0 THEN Turn(i)' ELSE 0
    BY DEF Ring
  <2>0. PoolSize \in Nat \ {0} /\ i \in 0 .. PoolSize - 1 /\ writePos \in 0 .. PoolSize - 1
    BY <1>0, PoolSlots DEF Slots
  <2>1. CASE i = writePos
    <3>1. Turn(i)' = written + 1
      BY <1>0, <2>0, <2>1 DEF Turn
    <3> QED
      BY <1>0, <1>1, <2>1, <3>1
  <2>2. CASE i # writePos
    <3>1. Turn(i)' = Turn(i)
      BY <1>0, <2>0, <2>2 DEF Turn
    <3> QED
      BY <1>1, <2>2, <3>1 DEF PoolInv, Ring
  <2> QED
    BY <2>1, <2>2
<1>5. Captured' = written + 1 /\ Captured = written + 1
  BY <1>0 DEF Captured, Filling
<1>6. \A i \in Slots : ~Refilling(i)' /\ (i # writePos => ~Refilling(i))
  BY <1>0 DEF Refilling
<1>7. \A i \in Slots : pool[i].seq \in Nat /\ pool[i].ts \in Nat /\ pool[i].seq <= written
  BY <1>a, <1>0 DEF SequencesIssued, Chunks
<1>8. \A i \in Slots : i # writePos => Older(pool[i], audio.ts, written + 1)
  BY <1>5, <1>6 DEF PoolInv, Paced
<1>9. Paced'
  <2> SUFFICES ASSUME NEW i \in Slots
               PROVE  Older(pool'[i], audio.ts, written + 1)
    BY <1>0, <1>5 DEF Paced
  <2>1. CASE i = writePos
    BY <1>0, <1>1, <1>2, <2>1 DEF Older
  <2>2. CASE i # writePos
    BY <1>1, <1>8, <2>2
  <2> QED
    BY <2>1, <2>2
<1>10. InCaptureOrder'
  <2> SUFFICES ASSUME NEW i \in Slots, NEW j \in Slots, pool'[i].seq < pool'[j].seq
               PROVE  pool'[i].ts < pool'[j].ts
    BY DEF InCaptureOrder
  <2>1. CASE i = writePos
    <3>1. j # writePos
      BY <1>0, <1>1, <2>1
    <3> QED
      BY <1>0, <1>1, <1>7, <2>1, <3>1
  <2>2. CASE i # writePos /\ j = writePos
    <3>1. pool[i].ts < audio.ts
      BY <1>0, <1>2, <1>7, <1>8, <2>2 DEF Older
    <3> QED
      BY <1>1, <1>2, <2>2, <3>1
  <2>3. CASE i # writePos /\ j # writePos
    BY <1>1, <1>6, <2>3 DEF PoolInv, InCaptureOrder
  <2> QED
    BY <2>1, <2>2, <2>3
<1> QED
  BY <1>3, <1>4, <1>9, <1>10 DEF PoolInv

\* Whatever is done to a client's turn, audio_task keeps its frame.
LEMMA PostingRow ==
    ASSUME TypeOK, PoolInv, NEW c \in Clients, Post(c) \/ QueueFull(c) \/ Evict(c)
    PROVE  /\ UNCHANGED <<now, pool, writePos, written, conn, sent>>
           /\ audio'.ts = audio.ts /\ Posting /\ c \in audio.todo
           /\ \/ QueueFull(c) /\ audio'.todo = audio.todo /\ Posting'
              \/ /\ ~QueueFull(c) /\ audio'.todo = audio.todo \ {c}
                 /\ audio.todo # {c} => Posting'
                 /\ audio.todo = {c} => audio'.pc = "capture"
           /\ AudioInTurn' /\ ~Filling /\ ~Filling'
<1>0. audio \in AudioStates /\ AudioInTurn
  BY DEF TypeOK, PoolInv
<1>1. CASE QueueFull(c)
  <2>1. audio'.pc = "evict" /\ audio'.full = {c} /\ audio'.todo = audio.todo /\ audio'.ts = audio.ts
    BY <1>0, <1>1 DEF QueueFull, AudioStates
  <2> QED
    BY <1>0, <1>1, <2>1 DEF QueueFull, AudioInTurn, Posting, Filling
<1>2. CASE Post(c) \/ Evict(c)
  <2>1. /\ audio' = DonePosting(c) /\ audio.pc \in {"post", "evict"} /\ c \in audio.todo
        /\ UNCHANGED <<now, pool, writePos, written, conn, sent>>
    BY <1>0, <1>2 DEF Post, Evict, AudioInTurn
  <2>2. /\ audio'.todo = audio.todo \ {c} /\ audio'.full = {} /\ audio'.ts = audio.ts
        /\ audio'.pc = IF audio.todo = {c} THEN "capture" ELSE "post"
    BY <1>0, <2>1 DEF DonePosting, AudioStates
  <2>3. ~QueueFull(c)
    <3>1. audio'.pc # "evict"
      BY <2>2
    <3> QED
      BY <1>0, <3>1 DEF QueueFull, AudioStates
  <2> QED
    BY <1>0, <2>1, <2>2, <2>3 DEF AudioInTurn, Posting, Filling
<1> QED
  BY <1>1, <1>2

\* Every step keeps the pool in turn.
LEMMA PoolStep == CheckInv /\ PoolInv /\ [Next]_vars => PoolInv'
<1> SUFFICES ASSUME CheckInv, PoolInv, [Next]_vars PROVE PoolInv'
  OBVIOUS
<1>0. TypeOK /\ AudioInTurn /\ now \in Nat
  BY DEF CheckInv, TypeOK, PoolInv
<1>1. CASE Collect \/ FillHeader \/ FillData \/ Publish
  BY <1>0, <1>1, PoolCollect, PoolFill, PoolPublish
<1>2. CASE \E c \in Clients : Post(c) \/ QueueFull(c) \/ Evict(c)
  <2>1. PICK c \in Clients : Post(c) \/ QueueFull(c) \/ Evict(c)
    BY <1>2
  <2>2. /\ UNCHANGED <<now, pool, writePos, written>> /\ audio'.ts = audio.ts
        /\ AudioInTurn' /\ ~Filling /\ ~Filling'
    BY <1>0, <2>1, PostingRow
  <2>3. audio.pc \notin {"data", "publish"} /\ audio'.pc \notin {"data", "publish"}
    BY <2>2 DEF Filling
  <2>4. Filling' = Filling
    BY <2>2 DEF Filling
  <2> QED
    BY <1>0, <2>2, <2>3, <2>4, PoolFrame
<1>3. CASE UNCHANGED <<pool, writePos, written, audio>> /\ now' \in Nat /\ now' >= now
  <2>1. AudioInTurn'
    <3>1. audio.ts \in Nat
      BY <1>0 DEF TypeOK, AudioStates
    <3> QED
      BY <1>0, <1>3, <3>1 DEF AudioInTurn, Filling, Posting
  <2>2. Filling' = Filling
    BY <1>3 DEF Filling
  <2> QED
    BY <1>0, <1>3, <2>1, <2>2, PoolFrame
<1>4. CASE Tick
  BY <1>0, <1>3, <1>4 DEF Tick
<1>5. CASE (\E c \in Clients : Connection(c) \/ Sender(c)) \/ UNCHANGED vars
  <2>1. UNCHANGED <<now, pool, writePos, written, audio>>
    BY <1>5 DEF Connection, Accept, ResetQueue, BecomeReady, Close, Sender, Dequeue, CheckAge,
                CopyHeader, CopyData, Verify, SendDone, SendBusy, SendFailed, StillWanted, vars
  <2> QED
    BY <1>0, <1>3, <2>1
<1> QED
  BY <1>1, <1>2, <1>4, <1>5 DEF Next, Audio

-----------------------------------------------------------------------------
(* The clients' side: what keeps each part *)

\* The order of a client's references is untouched.
LEMMA KeepsOrder ==
    ASSUME NEW d \in Clients, InOrder(d), LastPosted(d)' = LastPosted(d),
           queue'[d] = queue[d], sender'[d] = sender[d], sent'[d] = sent[d]
    PROVE  InOrder(d)'
BY DEF InOrder, Busy, At

\* A client's references fall no further behind.
LEMMA KeepsLag ==
    ASSUME NEW d \in Clients, NotFarBehind(d),
           audio'.ts = audio.ts, Captured' = Captured, Pending(d)' = Pending(d),
           queue'[d] = queue[d], sender'[d] = sender[d], conn'[d] = conn[d]
    PROVE  NotFarBehind(d)'
<1>1. Stalls(d)' = Stalls(d) /\ At(d, "idle")' = At(d, "idle")
  BY DEF Stalls, At
<1>2. \A k : Lag(queue[d][k])' = Lag(queue[d][k])
  BY DEF Lag
<1>3. Since(sender[d].since)' = Since(sender[d].since)
  BY DEF Since
<1>4. Unposted(d) => Unposted(d)'
  BY <1>1, <1>2, <1>3 DEF Unposted
<1>5. Posted(d) => Posted(d)'
  BY <1>1, <1>2, <1>3 DEF Posted
<1> QED
  BY <1>4, <1>5 DEF NotFarBehind

\* Time stands still for a client nothing happens to.
LEMMA KeepsTime ==
    ASSUME NEW d \in Clients, OnTime(d), now' = now,
           queue'[d] = queue[d], sender'[d] = sender[d]
    PROVE  OnTime(d)'
BY DEF OnTime, Busy, At

\* All three.
LEMMA KeepsClient ==
    ASSUME NEW d \in Clients, ClientInv(d), now' = now, audio'.ts = audio.ts,
           Captured' = Captured, Pending(d)' = Pending(d), LastPosted(d)' = LastPosted(d),
           queue'[d] = queue[d], sender'[d] = sender[d], sent'[d] = sent[d], conn'[d] = conn[d]
    PROVE  ClientInv(d)'
BY KeepsOrder, KeepsLag, KeepsTime DEF ClientInv

\* What nobody but audio_task changes.
LEMMA AudioFrame ==
    ASSUME UNCHANGED <<written, audio>>, NEW d \in Clients
    PROVE  Captured' = Captured /\ Pending(d)' = Pending(d) /\ LastPosted(d)' = LastPosted(d)
BY DEF Captured, Filling, Pending, LastPosted, Posting

\* Nothing has happened yet.
LEMMA ClientInit == Init => \A c \in Clients : ClientInv(c)
<1> SUFFICES ASSUME Init, NEW c \in Clients PROVE ClientInv(c)
  OBVIOUS
<1>0. queue[c] = <<>> /\ Len(queue[c]) = 0 /\ sender[c].pc = "idle" /\ sender[c].since = 0
      /\ sender[c].item.seq = 0 /\ sent[c].seq = 0 /\ conn[c].state = "free"
      /\ now = 1 /\ written = 0 /\ audio.pc = "capture"
  BY DEF Init, NoItem, Nothing
<1>1. OnTime(c)
  BY <1>0, PoolAssumption DEF OnTime, Busy, At
<1>2. LastPosted(c) = 0
  BY <1>0 DEF LastPosted, Posting
<1>3. InOrder(c)
  BY <1>0, <1>2, PoolAssumption DEF InOrder, Busy, At
<1>4. NotFarBehind(c)
  BY <1>0 DEF NotFarBehind
<1> QED
  BY <1>1, <1>3, <1>4 DEF ClientInv

\* Tick: no sender with work is allowed to be late.
LEMMA TickStep ==
    ASSUME TypeOK, Tick, NEW c \in Clients, ClientInv(c)
    PROVE  ClientInv(c)'
<1>0. /\ now \in Nat /\ now' = now + 1 /\ sender[c].since \in Nat /\ MaxStall \in Nat
      /\ UNCHANGED <<written, audio, conn, queue, sender, sent>>
      /\ Busy(c) \/ queue[c] # <<>> => now - sender[c].since < MaxStall
  BY RowTypes DEF Tick, Busy
<1>1. Captured' = Captured /\ Pending(c)' = Pending(c) /\ LastPosted(c)' = LastPosted(c)
  BY <1>0, AudioFrame
<1>2. InOrder(c)' /\ NotFarBehind(c)'
  BY <1>0, <1>1, KeepsOrder, KeepsLag DEF ClientInv
<1>3. Busy(c)' = Busy(c)
  BY <1>0 DEF Busy, At
<1>4. OnTime(c)'
  BY <1>0, <1>3 DEF ClientInv, OnTime
<1> QED
  BY <1>2, <1>4 DEF ClientInv

-----------------------------------------------------------------------------
(* Connections *)

\* Accept: what the slot's last connection was sent is forgotten.
LEMMA AcceptStep ==
    ASSUME TypeOK, NEW c \in Clients, ClientInv(c), AudioInTurn, Accept(c)
    PROVE  ClientInv(c)'
<1>0. /\ UNCHANGED <<now, written, audio, queue, sender>>
      /\ conn'[c].state = "accepted" /\ sent'[c].seq = 0
  BY DEF Accept, TypeOK, Nothing
<1>1. OnTime(c)'
  BY <1>0, KeepsTime DEF ClientInv
<1>2. NotFarBehind(c)'
  BY <1>0 DEF NotFarBehind
<1>3. LastPosted(c)' = LastPosted(c) /\ LastPosted(c) \in Nat
  <2>1. written \in Nat /\ (Posting => written >= 1)
    BY RowTypes DEF AudioInTurn
  <2> QED
    BY <1>0, <2>1, AudioFrame DEF LastPosted
<1>4. \A k \in 1 .. Len(queue[c]) : queue[c][k].seq \in Nat
  BY RowTypes, ItemFields
<1>5. Busy(c)' = Busy(c)
  BY <1>0 DEF Busy, At
<1>6. sent[c].seq \in Nat /\ sender[c].item.seq \in Nat
  BY RowTypes
<1>7. InOrder(c)'
  BY <1>0, <1>3, <1>4, <1>5, <1>6 DEF ClientInv, InOrder
<1> QED
  BY <1>1, <1>2, <1>7 DEF ClientInv

\* ResetQueue: nothing waits, and one chunk at most is to be posted.
LEMMA ResetQueueStep ==
    ASSUME TypeOK, NEW c \in Clients, ClientInv(c), ResetQueue(c)
    PROVE  ClientInv(c)'
<1>0. /\ UNCHANGED <<now, written, audio, sender, sent>>
      /\ queue'[c] = <<>> /\ Len(queue'[c]) = 0
      /\ conn'[c].state = "handshake"
  BY DEF ResetQueue, TypeOK, ConnStates
<1>1. Busy(c)' = Busy(c) /\ LastPosted(c)' = LastPosted(c) /\ QueueDepth \in Nat
  BY <1>0, AudioFrame, RowTypes DEF Busy, At
<1>2. OnTime(c)'
  BY <1>0, <1>1 DEF ClientInv, OnTime
<1>3. InOrder(c)'
  BY <1>0, <1>1 DEF ClientInv, InOrder
<1>4. Pending(c)' <= 1 /\ Pending(c)' \in Nat
  BY DEF Pending
<1>5. Unposted(c)'
  BY <1>0, <1>4 DEF Unposted
<1>6. NotFarBehind(c)'
  BY <1>0, <1>5 DEF NotFarBehind
<1> QED
  BY <1>2, <1>3, <1>6 DEF ClientInv

\* The frames that can have come in a stall.
LEMMA SinceBound ==
    ASSUME NEW t \in Nat, NEW n \in Nat, n - t <= MaxStall, audio.ts \in Nat, audio.ts <= n,
           MaxStall \in Nat
    PROVE  Since(t) \in Nat /\ Since(t) <= MaxStall + 1
BY DEF Since

\* Numbers the lags are made of.
LEMMA LagTypes ==
    ASSUME TypeOK, NEW c \in Clients
    PROVE  /\ Captured \in Nat /\ Pending(c) \in {0, 1} /\ Stalls(c) \in Nat
           /\ \A t \in Nat : Since(t) \in Nat
           /\ \A n \in Nat : \A r : r.seq = n => Lag(r) \in Int
           /\ \A k \in 1 .. Len(queue[c]) : Lag(queue[c][k]) \in Int
<1>0. written \in Nat /\ audio.ts \in Nat /\ MaxStall \in Nat /\ queue[c] \in Seq(Items)
  BY RowTypes
<1>1. Captured \in Nat
  BY <1>0 DEF Captured
<1>2. Pending(c) \in {0, 1} /\ Stalls(c) \in Nat
  BY <1>0 DEF Pending, Stalls
<1>3. \A t \in Nat : Since(t) \in Nat
  BY <1>0 DEF Since
<1>4. \A n \in Nat : \A r : r.seq = n => Lag(r) \in Int
  BY <1>1 DEF Lag
<1>5. \A k \in 1 .. Len(queue[c]) : Lag(queue[c][k]) \in Int
  BY <1>0, <1>4, ItemFields
<1> QED
  BY <1>1, <1>2, <1>3, <1>4, <1>5

\* BecomeReady: one reference at most waits, as far behind as the handshake
\* and the sender's stalls let it fall.
LEMMA BecomeReadyStep ==
    ASSUME TypeOK, NEW c \in Clients, ClientInv(c), AudioInTurn, BecomeReady(c)
    PROVE  ClientInv(c)'
<1>0. /\ UNCHANGED <<now, written, audio, queue, sender, sent>>
      /\ conn[c].state = "handshake" /\ conn'[c].state = "ready"
  BY DEF BecomeReady, TypeOK, ConnStates
<1>1. Captured' = Captured /\ Pending(c)' = Pending(c) /\ LastPosted(c)' = LastPosted(c)
  BY <1>0, AudioFrame
<1>2. OnTime(c)' /\ InOrder(c)'
  BY <1>0, <1>1, KeepsTime, KeepsOrder DEF ClientInv
<1>3. /\ Len(queue[c]) \in Nat /\ Len(queue[c]) + Pending(c) <= 1
      /\ \A k \in 1 .. Len(queue[c]) :
           Lag(queue[c][k]) <= Since(sender[c].since) + Stalls(c)
  BY <1>0, RowTypes, ItemFields DEF ClientInv, NotFarBehind, Unposted
<1>4. Posted(c)
  <2> SUFFICES ASSUME NEW k \in 1 .. Len(queue[c])
               PROVE  \/ k = 1 /\ Lag(queue[c][k]) <= Len(queue[c]) + Pending(c) + MaxStall + MaxStall
                      \/ /\ k = 1 /\ At(c, "idle")
                         /\ Lag(queue[c][k]) <= Since(sender[c].since) + MaxStall + MaxStall
    BY DEF Posted
  <2>a. /\ Pending(c) \in {0, 1} /\ Stalls(c) \in Nat
        /\ Lag(queue[c][k]) \in Int /\ Since(sender[c].since) \in Nat
    <3>1. sender[c].since \in Nat
      BY RowTypes
    <3> QED
      BY <3>1, LagTypes
  <2>b. k = 1 /\ Len(queue[c]) = 1
    <3> DEFINE n == Len(queue[c])
               p == Pending(c)
    <3>1. n \in Nat /\ p \in Nat /\ n + p <= 1 /\ k \in 1 .. n
      BY <1>3, <2>a
    <3> HIDE DEF n, p
    <3>2. k = 1 /\ n = 1
      BY <3>1
    <3> QED
      BY <3>2 DEF n
  <2>1. k = 1 /\ Len(queue[c]) = 1 /\ Pending(c) \in {0, 1} /\ MaxStall \in Nat
        /\ Lag(queue[c][k]) \in Int /\ Since(sender[c].since) \in Nat /\ Stalls(c) \in Nat
    BY <2>a, <2>b, PoolAssumption
  <2>2. Lag(queue[c][k]) <= Since(sender[c].since) + Stalls(c)
    BY <1>3
  <2>3. CASE At(c, "idle")
    BY <2>1, <2>2, <2>3 DEF Stalls
  <2>4. CASE ~At(c, "idle")
    <3>1. now - sender[c].since <= MaxStall
      BY <2>4 DEF ClientInv, OnTime, Busy
    <3>2. Since(sender[c].since) <= MaxStall + 1
      BY <3>1, SinceBound, RowTypes DEF AudioInTurn
    <3>3. Stalls(c) <= MaxStall
      BY <2>1, <2>4 DEF Stalls
    <3> QED
      BY <2>1, <2>2, <3>2, <3>3
  <2> QED
    BY <2>3, <2>4
<1>5. Posted(c)'
  <2>1. \A k : Lag(queue[c][k])' = Lag(queue[c][k])
    BY <1>0, <1>1 DEF Lag
  <2>2. Since(sender[c].since)' = Since(sender[c].since) /\ At(c, "idle")' = At(c, "idle")
    BY <1>0 DEF Since, At
  <2> QED
    BY <1>0, <1>1, <1>4, <2>1, <2>2 DEF Posted
<1>6. NotFarBehind(c)'
  BY <1>0, <1>5 DEF NotFarBehind
<1> QED
  BY <1>2, <1>6 DEF ClientInv

\* Close: a free slot is posted nothing.
LEMMA CloseStep ==
    ASSUME TypeOK, NEW c \in Clients, ClientInv(c), Close(c)
    PROVE  ClientInv(c)'
<1>0. /\ UNCHANGED <<now, written, audio, queue, sender, sent>> /\ conn'[c].state = "free"
  BY DEF Close, TypeOK, ConnStates
<1>1. LastPosted(c)' = LastPosted(c)
  BY <1>0, AudioFrame
<1>2. NotFarBehind(c)'
  BY <1>0 DEF NotFarBehind
<1> QED
  BY <1>0, <1>1, <1>2, KeepsTime, KeepsOrder DEF ClientInv

\* A connection's step concerns its own slot.
LEMMA ConnectionStep ==
    ASSUME TypeOK, AudioInTurn, \A c \in Clients : ClientInv(c), NEW c \in Clients, Connection(c)
    PROVE  \A d \in Clients : ClientInv(d)'
<1>1. ClientInv(c)'
  BY AcceptStep, ResetQueueStep, BecomeReadyStep, CloseStep DEF Connection
<1>2. ASSUME NEW d \in Clients, d # c PROVE ClientInv(d)'
  <2>1. /\ UNCHANGED <<now, written, audio, sender>>
        /\ queue'[d] = queue[d] /\ sent'[d] = sent[d] /\ conn'[d] = conn[d]
    BY <1>2 DEF Connection, Accept, ResetQueue, BecomeReady, Close, TypeOK
  <2> QED
    BY <2>1, AudioFrame, KeepsClient
<1> QED
  BY <1>1, <1>2

-----------------------------------------------------------------------------
(* audio_task and the clients *)

\* A newer chunk that is posted to nobody yet keeps the order.
LEMMA RaisesOrder ==
    ASSUME TypeOK, NEW d \in Clients, InOrder(d),
           LastPosted(d) \in Int, LastPosted(d)' \in Int, LastPosted(d)' >= LastPosted(d),
           queue'[d] = queue[d], sender'[d] = sender[d], sent'[d] = sent[d]
    PROVE  InOrder(d)'
<1>0. \A k \in 1 .. Len(queue[d]) : queue[d][k].seq \in Nat
  BY RowTypes, ItemFields
<1>1. sent[d].seq \in Nat /\ sender[d].item.seq \in Nat
  BY RowTypes
<1>2. Busy(d)' = Busy(d)
  BY DEF Busy, At
<1>3. /\ Len(queue[d]) <= QueueDepth
      /\ sent[d].seq <= LastPosted(d) /\ sender[d].item.seq <= LastPosted(d)
      /\ Busy(d) => sent[d].seq < sender[d].item.seq
      /\ \A k \in 1 .. Len(queue[d]) :
           /\ queue[d][k].seq <= LastPosted(d) /\ sent[d].seq < queue[d][k].seq
           /\ Busy(d) => sender[d].item.seq < queue[d][k].seq
      /\ \A j, k \in 1 .. Len(queue[d]) : j < k => queue[d][j].seq < queue[d][k].seq
  BY DEF InOrder
<1>4. sent[d].seq <= LastPosted(d)' /\ sender[d].item.seq <= LastPosted(d)'
  BY <1>1, <1>3
<1>5. \A k \in 1 .. Len(queue[d]) : queue[d][k].seq <= LastPosted(d)'
  BY <1>0, <1>3
<1> QED
  BY <1>2, <1>3, <1>4, <1>5 DEF InOrder

\* Collect: every reference falls one behind; a ready client gets one more.
LEMMA CollectStep ==
    ASSUME TypeOK, AudioInTurn, Collect, NEW d \in Clients, ClientInv(d)
    PROVE  ClientInv(d)'
<1>0. /\ UNCHANGED <<now, written, conn, queue, sender, sent>>
      /\ audio.pc = "capture" /\ audio'.pc = "header" /\ audio'.ts = now /\ audio.ts < now
      /\ audio.todo = {} /\ audio'.todo = {c \in Clients : Ready(c)}
  BY DEF Collect, AudioInTurn, TypeOK, AudioStates
<1>1. /\ Captured = written /\ Captured' = written + 1
      /\ Pending(d) = 0 /\ Pending(d)' = IF conn[d].state = "ready" THEN 1 ELSE 0
      /\ LastPosted(d)' = LastPosted(d)
  BY <1>0 DEF Captured, Filling, Pending, Posting, LastPosted, Ready
<1>2. OnTime(d)' /\ InOrder(d)'
  BY <1>0, <1>1, KeepsTime, KeepsOrder DEF ClientInv
<1>3. /\ written \in Nat /\ MaxStall \in Nat /\ Len(queue[d]) \in Nat /\ Stalls(d) \in Nat
      /\ \A k \in 1 .. Len(queue[d]) : queue[d][k].seq \in Nat
  BY RowTypes, ItemFields, LagTypes
<1>4. Since(sender[d].since)' \in Nat /\ Since(sender[d].since) \in Nat
      /\ Since(sender[d].since)' >= Since(sender[d].since) + 1
  <2>1. sender[d].since \in Nat /\ now \in Nat /\ audio.ts \in Nat /\ sender[d].since <= now
    BY RowTypes DEF ClientInv, OnTime
  <2>2. Since(sender[d].since)' = now - sender[d].since + 1
    BY <1>0, <2>1 DEF Since
  <2> QED
    BY <1>0, <2>1, <2>2 DEF Since
<1>5. \A k \in 1 .. Len(queue[d]) :
        /\ Lag(queue[d][k]) = written - queue[d][k].seq
        /\ Lag(queue[d][k])' = written + 1 - queue[d][k].seq
  <2> TAKE k \in 1 .. Len(queue[d])
  <2>1. Captured = written /\ Captured' = written + 1 /\ queue' = queue
    BY <1>0, <1>1
  <2>2. Lag(queue[d][k]) = Captured - queue[d][k].seq
    BY DEF Lag
  <2>3. Lag(queue[d][k])' = Captured' - queue'[d][k].seq
    BY DEF Lag
  <2>4. written \in Int /\ queue[d][k].seq \in Int
    BY <1>3
  <2> QED
    BY <2>1, <2>2, <2>3, <2>4
<1>6. Stalls(d)' = Stalls(d) /\ At(d, "idle")' = At(d, "idle")
  BY <1>0 DEF Stalls, At
<1>7. ASSUME conn[d].state = "handshake" PROVE Unposted(d)'
  <2>1. Len(queue[d]) + Pending(d)' <= 1
    BY <1>1, <1>7 DEF ClientInv, NotFarBehind, Unposted
  <2>2. ASSUME NEW k \in 1 .. Len(queue[d])
        PROVE  Lag(queue[d][k])' <= Since(sender[d].since)' + Stalls(d)'
    <3>1. Lag(queue[d][k]) <= Since(sender[d].since) + Stalls(d)
      BY <1>7 DEF ClientInv, NotFarBehind, Unposted
    <3>2. Lag(queue[d][k]) \in Int /\ Lag(queue[d][k])' = Lag(queue[d][k]) + 1
      BY <1>3, <1>5, SMTT(30)
    <3> QED
      BY <1>3, <1>4, <1>6, <3>1, <3>2
  <2> QED
    BY <1>0, <2>1, <2>2 DEF Unposted
<1>8. ASSUME conn[d].state = "ready" PROVE Posted(d)'
  <2> SUFFICES ASSUME NEW k \in 1 .. Len(queue[d])
               PROVE  \/ Lag(queue[d][k])' <= Len(queue[d]) - k + 1
                      \/ /\ k = 1
                         /\ Lag(queue[d][k])' <= Len(queue[d]) + 1 + MaxStall + MaxStall
                      \/ /\ k = 1 /\ At(d, "idle")
                         /\ Lag(queue[d][k])' <= Since(sender[d].since)' + MaxStall + MaxStall
    BY <1>0, <1>1, <1>6, <1>8 DEF Posted
  <2>1. \/ Lag(queue[d][k]) <= Len(queue[d]) - k
        \/ k = 1 /\ Lag(queue[d][k]) <= Len(queue[d]) + MaxStall + MaxStall
        \/ /\ k = 1 /\ At(d, "idle")
           /\ Lag(queue[d][k]) <= Since(sender[d].since) + MaxStall + MaxStall
    <3>1. \/ Lag(queue[d][k]) <= Len(queue[d]) - k + Pending(d)
          \/ k = 1 /\ Lag(queue[d][k]) <= Len(queue[d]) + Pending(d) + MaxStall + MaxStall
          \/ /\ k = 1 /\ At(d, "idle")
             /\ Lag(queue[d][k]) <= Since(sender[d].since) + MaxStall + MaxStall
      BY <1>8 DEF ClientInv, NotFarBehind, Posted
    <3>2. Pending(d) = 0
      BY <1>1
    <3> QED
      BY <1>3, <3>1, <3>2
  <2>2. Lag(queue[d][k]) \in Int /\ Lag(queue[d][k])' = Lag(queue[d][k]) + 1
    BY <1>3, <1>5
  <2>3. CASE Lag(queue[d][k]) <= Len(queue[d]) - k
    BY <1>3, <2>2, <2>3
  <2>4. CASE k = 1 /\ Lag(queue[d][k]) <= Len(queue[d]) + MaxStall + MaxStall
    BY <1>3, <2>2, <2>4
  <2>5. CASE /\ k = 1 /\ At(d, "idle")
             /\ Lag(queue[d][k]) <= Since(sender[d].since) + MaxStall + MaxStall
    BY <1>3, <1>4, <2>2, <2>5
  <2> QED
    BY <2>1, <2>3, <2>4, <2>5
<1> QED
  BY <1>0, <1>2, <1>7, <1>8 DEF ClientInv, NotFarBehind

\* FillHeader and FillData post nothing.
LEMMA FillStep ==
    ASSUME TypeOK, FillHeader \/ FillData, NEW d \in Clients, ClientInv(d)
    PROVE  ClientInv(d)'
<1>0. /\ UNCHANGED <<now, written, conn, queue, sender, sent>>
      /\ audio.pc \in {"header", "data"} /\ audio'.pc \in {"data", "publish"}
      /\ audio'.ts = audio.ts /\ audio'.todo = audio.todo
  BY DEF FillHeader, FillData, TypeOK, AudioStates
<1>1. Captured' = Captured /\ Pending(d)' = Pending(d) /\ LastPosted(d)' = LastPosted(d)
  BY <1>0 DEF Captured, Filling, Pending, LastPosted, Posting
<1> QED
  BY <1>0, <1>1, KeepsClient

\* Publish: the chunk has a number, and is still to be posted.
LEMMA PublishStep ==
    ASSUME TypeOK, Publish, NEW d \in Clients, ClientInv(d)
    PROVE  ClientInv(d)'
<1>0. /\ UNCHANGED <<now, conn, queue, sender, sent>>
      /\ written \in Nat /\ written' = written + 1
      /\ audio.pc = "publish" /\ audio'.pc = IF audio.todo = {} THEN "capture" ELSE "post"
      /\ audio'.ts = audio.ts /\ audio'.todo = audio.todo
  BY DEF Publish, TypeOK, AudioStates
<1>1. Captured' = Captured /\ Pending(d)' = Pending(d)
  BY <1>0 DEF Captured, Filling, Pending
<1>2. LastPosted(d) = written /\ LastPosted(d)' \in {written, written + 1}
  <2>1. LastPosted(d) = written
    BY <1>0 DEF LastPosted, Posting
  <2>2. LastPosted(d)' \in {written, written + 1}
    BY <1>0 DEF LastPosted, Posting
  <2> QED
    BY <2>1, <2>2
<1>3. InOrder(d)'
  <2>1. LastPosted(d) \in Int /\ LastPosted(d)' \in Int /\ LastPosted(d)' >= LastPosted(d)
    BY <1>0, <1>2
  <2> QED
    BY <1>0, <2>1, RaisesOrder DEF ClientInv
<1> QED
  BY <1>0, <1>1, <1>3, KeepsTime, KeepsLag DEF ClientInv

\* QueueFull: the reference is still to be posted.
LEMMA QueueFullStep ==
    ASSUME TypeOK, PoolInv, NEW c \in Clients, QueueFull(c), NEW d \in Clients, ClientInv(d)
    PROVE  ClientInv(d)'
<1>0. /\ UNCHANGED <<now, written, conn, queue, sender, sent>>
      /\ audio.pc = "post" /\ audio'.pc = "evict"
      /\ audio'.ts = audio.ts /\ audio'.todo = audio.todo
  BY DEF QueueFull, TypeOK, AudioStates
<1>1. Captured' = Captured /\ Pending(d)' = Pending(d) /\ LastPosted(d)' = LastPosted(d)
  BY <1>0 DEF Captured, Filling, Pending, LastPosted, Posting
<1> QED
  BY <1>0, <1>1, KeepsClient

\* Post and Evict: n references are dropped from the front of the queue and
\* the newest goes to its end.
LEMMA PostedRow ==
    ASSUME TypeOK, NEW c \in Clients, Len(queue[c]) <= QueueDepth, Post(c) \/ Evict(c)
    PROVE  /\ \A d \in Clients : d # c => queue'[d] = queue[d] /\ sender'[d] = sender[d]
           /\ sender'[c].pc = sender[c].pc /\ sender'[c].item = sender[c].item
           /\ sender'[c].ts = sender[c].ts
           /\ sender'[c].since =
                IF sender[c].pc = "idle" /\ queue[c] = <<>> THEN now ELSE sender[c].since
           /\ queue'[c] \in Seq(Items) /\ queue'[c] # <<>>
           /\ \E n \in {0, 1} :
                /\ n <= Len(queue[c]) /\ Len(queue'[c]) = Len(queue[c]) - n + 1
                /\ Len(queue'[c]) <= QueueDepth
                /\ \A k \in 1 .. Len(queue[c]) - n : queue'[c][k] = queue[c][k + n]
                /\ queue'[c][Len(queue'[c])] = Reference(c)
<1>0. /\ queue \in [Clients -> Seq(Items)] /\ queue[c] \in Seq(Items)
      /\ sender \in [Clients -> Copies] /\ sender[c] \in Copies
      /\ Reference(c) \in Items /\ QueueDepth \in Nat \ {0} /\ Len(queue[c]) \in Nat
  BY ReferenceType, PoolAssumption, ItemFields DEF TypeOK
<1>1. Wake(c)
  BY DEF Post, Evict
<1>2. /\ \A d \in Clients : d # c => sender'[d] = sender[d]
      /\ sender'[c].pc = sender[c].pc /\ sender'[c].item = sender[c].item
      /\ sender'[c].ts = sender[c].ts
      /\ sender'[c].since =
           IF sender[c].pc = "idle" /\ queue[c] = <<>> THEN now ELSE sender[c].since
  <2>1. CASE sender[c].pc = "idle" /\ queue[c] = <<>>
    <3>1. sender' = [sender EXCEPT ![c].since = now]
      BY <1>1, <2>1 DEF Wake
    <3> QED
      BY <1>0, <2>1, <3>1 DEF Copies
  <2>2. CASE ~(sender[c].pc = "idle" /\ queue[c] = <<>>)
    <3>1. sender' = sender
      BY <1>1, <2>2 DEF Wake
    <3> QED
      BY <2>2, <3>1
  <2> QED
    BY <2>1, <2>2
<1>3. CASE Post(c)
  <2>1. /\ Len(queue[c]) < QueueDepth /\ queue'[c] = Append(queue[c], Reference(c))
        /\ \A d \in Clients : d # c => queue'[d] = queue[d]
    BY <1>0, <1>3 DEF Post
  <2> HIDE DEF Reference
  <2>2. /\ queue'[c] \in Seq(Items) /\ queue'[c] # <<>> /\ Len(queue'[c]) = Len(queue[c]) + 1
        /\ \A k \in 1 .. Len(queue[c]) : queue'[c][k] = queue[c][k]
        /\ queue'[c][Len(queue[c]) + 1] = Reference(c)
    BY <1>0, <2>1, AppendProperties
  <2>3. /\ 0 <= Len(queue[c]) /\ Len(queue'[c]) = Len(queue[c]) - 0 + 1
        /\ Len(queue'[c]) <= QueueDepth
        /\ \A k \in 1 .. Len(queue[c]) - 0 : queue'[c][k] = queue[c][k + 0]
        /\ queue'[c][Len(queue'[c])] = Reference(c)
    BY <1>0, <2>1, <2>2
  <2> QED
    BY <1>2, <2>1, <2>2, <2>3
<1>4. CASE Evict(c)
  <2> DEFINE r == IF queue[c] = <<>> THEN <<>> ELSE Tail(queue[c])
             n == IF queue[c] = <<>> THEN 0 ELSE 1
  <2>1. queue'[c] = Append(r, Reference(c)) /\ \A d \in Clients : d # c => queue'[d] = queue[d]
    BY <1>0, <1>4 DEF Evict
  <2>2. /\ r \in Seq(Items) /\ Len(r) = Len(queue[c]) - n /\ n \in {0, 1} /\ n <= Len(queue[c])
        /\ Len(r) < QueueDepth /\ Len(r) \in Nat
        /\ \A k \in 1 .. Len(r) : r[k] = queue[c][k + n]
    <3>1. CASE queue[c] = <<>>
      BY <1>0, <3>1, EmptySeq
    <3>2. CASE queue[c] # <<>>
      <4>1. /\ Tail(queue[c]) \in Seq(Items) /\ Len(Tail(queue[c])) = Len(queue[c]) - 1
            /\ \A k \in 1 .. Len(Tail(queue[c])) : Tail(queue[c])[k] = queue[c][k + 1]
        BY <1>0, <3>2, TailOfItems
      <4>2. Len(queue[c]) # 0
        BY <1>0, <3>2, EmptySeq
      <4> QED
        BY <1>0, <3>2, <4>1, <4>2
    <3> QED
      BY <3>1, <3>2
  <2> HIDE DEF r, n, Reference
  <2>3. /\ queue'[c] \in Seq(Items) /\ queue'[c] # <<>> /\ Len(queue'[c]) = Len(r) + 1
        /\ \A k \in 1 .. Len(r) : queue'[c][k] = r[k]
        /\ queue'[c][Len(r) + 1] = Reference(c)
    BY <1>0, <2>1, <2>2, AppendProperties
  <2>4. /\ Len(queue'[c]) = Len(queue[c]) - n + 1 /\ Len(queue'[c]) <= QueueDepth
        /\ \A k \in 1 .. Len(queue[c]) - n : queue'[c][k] = queue[c][k + n]
        /\ queue'[c][Len(queue'[c])] = Reference(c)
    BY <1>0, <2>2, <2>3
  <2> QED
    BY <1>2, <2>1, <2>2, <2>3, <2>4
<1> QED
  BY <1>3, <1>4

\* Post and Evict: the newest reference is last in number and in the queue,
\* and only the references behind it are left as far behind as before.
LEMMA PostedStep ==
    ASSUME TypeOK, TypeOK', PoolInv, NEW c \in Clients, Post(c) \/ Evict(c), ClientInv(c)
    PROVE  ClientInv(c)'
<1> DEFINE q == queue[c]
           r == queue'[c]
<1>0. /\ UNCHANGED <<now, written, conn, sent>> /\ audio'.ts = audio.ts
      /\ Posting /\ c \in audio.todo /\ c \notin audio'.todo
      /\ ~Filling /\ ~Filling' /\ written >= 1
  <2>1. ~QueueFull(c)
    BY DEF QueueFull, Post, Evict, TypeOK, DonePosting, AudioStates
  <2>2. /\ UNCHANGED <<now, written, conn, sent>> /\ audio'.ts = audio.ts
        /\ Posting /\ c \in audio.todo /\ c \notin audio'.todo /\ ~Filling /\ ~Filling'
    BY <2>1, PostingRow
  <2> QED
    BY <2>2 DEF PoolInv, AudioInTurn
<1>1. /\ Captured = written /\ Captured' = written
      /\ Pending(c) = 1 /\ Pending(c)' = 0
      /\ LastPosted(c) = written - 1 /\ LastPosted(c)' = written
  <2>1. Captured = written /\ Captured' = written
    BY <1>0 DEF Captured
  <2> QED
    BY <1>0, <2>1 DEF Pending, LastPosted
<1>2. Len(queue[c]) <= QueueDepth
  BY DEF ClientInv, InOrder
<1>3. PICK n \in {0, 1} :
        /\ n <= Len(q) /\ Len(r) = Len(q) - n + 1 /\ Len(r) <= QueueDepth
        /\ \A k \in 1 .. Len(q) - n : r[k] = q[k + n]
        /\ r[Len(r)] = Reference(c)
  BY <1>2, PostedRow
<1>4. /\ sender'[c].pc = sender[c].pc /\ sender'[c].item = sender[c].item
      /\ sender'[c].since = IF sender[c].pc = "idle" /\ q = <<>> THEN now ELSE sender[c].since
      /\ r \in Seq(Items) /\ r # <<>>
  BY <1>2, PostedRow
<1>5. /\ q \in Seq(Items) /\ Len(q) \in Nat /\ Len(r) \in Nat /\ written \in Nat /\ MaxStall \in Nat
      /\ \A k \in 1 .. Len(q) : q[k].seq \in Nat
      /\ \A k \in 1 .. Len(r) : r[k].seq \in Nat
      /\ sent[c].seq \in Nat /\ sender[c].item.seq \in Nat /\ now \in Nat
      /\ sender[c].since \in Nat
  BY <1>4, RowTypes, ItemFields
<1>6. Reference(c).seq = written
  BY DEF Reference
<1>7. Busy(c)' = Busy(c) /\ At(c, "idle")' = At(c, "idle") /\ Stalls(c)' = Stalls(c)
  BY <1>4 DEF Busy, At, Stalls
<1> HIDE DEF q, r
<1>8. \A k \in 1 .. Len(r) : k = Len(r) \/ (k \in 1 .. Len(q) - n /\ k + n \in 1 .. Len(q))
  BY <1>3, <1>5
<1>9. OnTime(c)'
  <2>1. CASE sender[c].pc = "idle" /\ q = <<>>
    BY <1>0, <1>4, <1>5, <2>1, PoolAssumption DEF OnTime
  <2>2. CASE ~(sender[c].pc = "idle" /\ q = <<>>)
    <3>1. sender'[c].since = sender[c].since
      BY <1>4, <2>2
    <3>2. sender[c].since <= now /\ now - sender[c].since <= MaxStall
      BY <2>2 DEF ClientInv, OnTime, Busy, At, q
    <3> QED
      BY <1>0, <3>1, <3>2 DEF OnTime
  <2> QED
    BY <2>1, <2>2
<1>10. InOrder(c)'
  <2>0. /\ sent[c].seq <= written - 1 /\ sender[c].item.seq <= written - 1
        /\ Busy(c) => sent[c].seq < sender[c].item.seq
        /\ \A k \in 1 .. Len(q) :
             /\ q[k].seq <= written - 1 /\ sent[c].seq < q[k].seq
             /\ Busy(c) => sender[c].item.seq < q[k].seq
        /\ \A j, k \in 1 .. Len(q) : j < k => q[j].seq < q[k].seq
    BY <1>1 DEF ClientInv, InOrder, q
  <2>1. ASSUME NEW k \in 1 .. Len(r)
        PROVE  /\ r[k].seq <= written /\ sent[c].seq < r[k].seq
               /\ Busy(c) => sender[c].item.seq < r[k].seq
    <3>1. CASE k = Len(r)
      <4>1. r[k].seq = written
        BY <1>3, <1>6, <3>1
      <4>2. /\ written \in Nat /\ sent[c].seq \in Nat /\ sender[c].item.seq \in Nat
            /\ sent[c].seq <= written - 1 /\ sender[c].item.seq <= written - 1
        BY <1>5, <2>0
      <4> QED
        BY <4>1, <4>2
    <3>2. CASE k \in 1 .. Len(q) - n /\ k + n \in 1 .. Len(q)
      <4>1. r[k] = q[k + n]
        BY <1>3, <3>2
      <4>2. q[k + n].seq \in Nat /\ q[k + n].seq <= written - 1 /\ sent[c].seq < q[k + n].seq
            /\ (Busy(c) => sender[c].item.seq < q[k + n].seq)
        BY <1>5, <2>0, <3>2
      <4> QED
        BY <1>5, <4>1, <4>2
    <3> QED
      BY <1>8, <3>1, <3>2
  <2>2. ASSUME NEW j \in 1 .. Len(r), NEW k \in 1 .. Len(r), j < k
        PROVE  r[j].seq < r[k].seq
    <3>1. j \in 1 .. Len(q) - n /\ j + n \in 1 .. Len(q) /\ r[j] = q[j + n]
      BY <1>3, <1>5, <1>8, <2>2
    <3>2. q[j + n].seq <= written - 1 /\ q[j + n].seq \in Nat
      BY <1>5, <2>0, <3>1
    <3>3. CASE k = Len(r)
      BY <1>3, <1>5, <1>6, <3>1, <3>2, <3>3
    <3>4. CASE k \in 1 .. Len(q) - n /\ k + n \in 1 .. Len(q)
      <4>1. r[k] = q[k + n]
        BY <1>3, <3>4
      <4>2. j + n < k + n
        BY <2>2, <1>3
      <4> QED
        BY <2>0, <3>1, <3>4, <4>1, <4>2
    <3> QED
      BY <1>8, <3>3, <3>4
  <2>3. sent[c].seq <= written /\ sender[c].item.seq <= written
    BY <1>5, <2>0
  <2> QED
    BY <1>0, <1>1, <1>3, <1>4, <1>7, <2>0, <2>1, <2>2, <2>3 DEF InOrder, r
<1>11. \A k \in 1 .. Len(q) : Lag(q[k]) = written - q[k].seq
  BY <1>1, <1>5 DEF Lag
<1>12. \A k \in 1 .. Len(r) : Lag(queue[c][k])' = written - r[k].seq
  <2> TAKE k \in 1 .. Len(r)
  <2>1. Lag(queue[c][k])' = Captured' - queue'[c][k].seq
    BY DEF Lag
  <2> QED
    BY <1>1, <1>5, <2>1 DEF r
<1>13. ASSUME conn[c].state = "handshake" PROVE Unposted(c)'
  <2>1. Len(q) = 0
    <3>1. Len(q) + 1 <= 1
      BY <1>1, <1>13 DEF ClientInv, NotFarBehind, Unposted, q
    <3> QED
      BY <1>5, <3>1
  <2>2. Len(r) = 1 /\ r[1].seq = written
    BY <1>3, <1>5, <1>6, <2>1
  <2>3. Since(sender[c].since)' \in Nat /\ Stalls(c)' \in Nat
    <3>1. sender'[c].since \in Nat
      BY <1>4, <1>5
    <3>2. audio.ts \in Nat
      BY RowTypes
    <3>3. Stalls(c) \in Nat
      BY LagTypes
    <3> QED
      BY <1>0, <1>7, <3>1, <3>2, <3>3 DEF Since
  <2>4. ASSUME NEW k \in 1 .. Len(r) PROVE Lag(queue[c][k])' = 0
    BY <1>5, <1>12, <2>2
  <2>5. \A k \in 1 .. Len(queue[c])' : Lag(queue[c][k])' <= Since(sender[c].since)' + Stalls(c)'
    <3> TAKE k \in 1 .. Len(queue[c])'
    <3>1. Lag(queue[c][k])' = 0
      BY <2>4 DEF r
    <3> QED
      BY <2>3, <3>1
  <2>6. Len(queue[c])' + Pending(c)' <= 1
    BY <1>1, <2>2 DEF r
  <2> QED
    BY <2>5, <2>6 DEF Unposted
<1>14. ASSUME conn[c].state = "ready" PROVE Posted(c)'
  <2> SUFFICES ASSUME NEW k \in 1 .. Len(r)
               PROVE  \/ Lag(queue[c][k])' <= Len(r) - k + 0
                      \/ /\ k = 1
                         /\ Lag(queue[c][k])' <= Len(r) + 0 + MaxStall + MaxStall
                      \/ /\ k = 1 /\ At(c, "idle")
                         /\ Lag(queue[c][k])' <= Since(sender[c].since)' + MaxStall + MaxStall
    BY <1>1, <1>7 DEF Posted, r
  <2>0. Lag(queue[c][k])' = written - r[k].seq /\ r[k].seq \in Nat
    BY <1>5, <1>12
  <2>1. CASE k = Len(r)
    BY <1>3, <1>5, <1>6, <2>0, <2>1
  <2>2. CASE k \in 1 .. Len(q) - n /\ k + n \in 1 .. Len(q)
    <3>1. r[k] = q[k + n] /\ Lag(queue[c][k])' = Lag(q[k + n]) /\ Lag(q[k + n]) \in Int
      BY <1>3, <1>5, <1>11, <2>0, <2>2
    <3>2. \/ Lag(q[k + n]) <= Len(q) - (k + n) + 1
          \/ /\ k + n = 1
             /\ Lag(q[k + n]) <= Len(q) + 1 + MaxStall + MaxStall
          \/ /\ k + n = 1 /\ At(c, "idle")
             /\ Lag(q[k + n]) <= Since(sender[c].since) + MaxStall + MaxStall
      BY <1>1, <1>14, <2>2 DEF ClientInv, NotFarBehind, Posted, q
    <3>3. CASE Lag(q[k + n]) <= Len(q) - (k + n) + 1
      BY <1>3, <1>5, <3>1, <3>3
    <3>4. CASE k + n = 1 /\ Lag(q[k + n]) <= Len(q) + 1 + MaxStall + MaxStall
      BY <1>3, <1>5, <3>1, <3>4
    <3>5. CASE /\ k + n = 1 /\ At(c, "idle")
               /\ Lag(q[k + n]) <= Since(sender[c].since) + MaxStall + MaxStall
      <4>1. k = 1 /\ q # <<>>
        <5>1. k = 1 /\ Len(q) # 0
          BY <1>3, <1>5, <2>2, <3>5
        <5> QED
          BY <5>1, EmptySeq
      <4>2. Since(sender[c].since)' = Since(sender[c].since)
        BY <1>0, <1>4, <4>1 DEF Since
      <4> QED
        BY <3>1, <3>5, <4>1, <4>2
    <3> QED
      BY <3>2, <3>3, <3>4, <3>5
  <2> QED
    BY <1>8, <2>1, <2>2
<1> QED
  BY <1>0, <1>9, <1>10, <1>13, <1>14 DEF ClientInv, NotFarBehind

\* Every step of audio_task keeps every client's part.
LEMMA AudioStep ==
    ASSUME TypeOK, TypeOK', PoolInv, \A c \in Clients : ClientInv(c), Audio
    PROVE  \A d \in Clients : ClientInv(d)'
<1> TAKE d \in Clients
<1>0. AudioInTurn /\ ClientInv(d)
  BY DEF PoolInv
<1>1. CASE Collect \/ FillHeader \/ FillData \/ Publish
  BY <1>0, <1>1, CollectStep, FillStep, PublishStep
<1>2. ASSUME NEW c \in Clients, QueueFull(c) PROVE ClientInv(d)'
  BY <1>0, <1>2, QueueFullStep
<1>3. ASSUME NEW c \in Clients, Post(c) \/ Evict(c) PROVE ClientInv(d)'
  <2>1. CASE d = c
    BY <1>0, <1>3, <2>1, PostedStep
  <2>2. CASE d # c
    <3>1. ~QueueFull(c)
      BY <1>3 DEF QueueFull, Post, Evict, TypeOK, DonePosting, AudioStates
    <3>2. /\ UNCHANGED <<now, written, conn, sent>> /\ audio'.ts = audio.ts
          /\ Posting /\ audio'.todo = audio.todo \ {c} /\ ~Filling /\ ~Filling'
          /\ audio.todo # {c} => Posting'
      BY <1>3, <3>1, PostingRow
    <3>3. Captured' = Captured /\ Pending(d)' = Pending(d)
      BY <2>2, <3>2 DEF Captured, Pending
    <3>4. LastPosted(d)' = LastPosted(d)
      <4>1. CASE d \in audio.todo
        BY <2>2, <3>2, <4>1 DEF LastPosted
      <4>2. CASE d \notin audio.todo
        BY <3>2, <4>2 DEF LastPosted
      <4> QED
        BY <4>1, <4>2
    <3>5. Len(queue[c]) <= QueueDepth
      BY DEF ClientInv, InOrder
    <3>6. queue'[d] = queue[d] /\ sender'[d] = sender[d]
      BY <1>3, <2>2, <3>5, PostedRow
    <3> QED
      BY <1>0, <3>2, <3>3, <3>4, <3>6, KeepsClient
  <2> QED
    BY <2>1, <2>2
<1> QED
  BY <1>1, <1>2, <1>3 DEF Audio

-----------------------------------------------------------------------------
(* sender_task *)

\* A later look at the clock loses the frames of one stall at most.
LEMMA SinceMoves ==
    ASSUME NEW t \in Nat, NEW n \in Nat, t <= n, n - t <= MaxStall,
           audio.ts \in Nat, audio.ts <= n, MaxStall \in Nat
    PROVE  /\ Since(t) \in Nat /\ Since(n) \in Nat
           /\ Since(t) <= Since(n) + MaxStall
BY DEF Since

\* Dequeue: the first reference, the only one that can be far behind, leaves.
LEMMA DequeueStep ==
    ASSUME TypeOK, NEW c \in Clients, ClientInv(c), AudioInTurn, Dequeue(c)
    PROVE  ClientInv(c)'
<1> DEFINE q == queue[c]
           r == queue'[c]
<1>0. /\ UNCHANGED <<now, written, audio, conn, sent>> /\ sender[c].pc = "idle"
      /\ q \in Seq(Items) /\ q # <<>> /\ r = Tail(q)
      /\ \/ /\ sender'[c].item = q[1] /\ sender'[c].since = now
         \/ sender'[c] = Idle(now)
  <2>1. sender'[c] = IF Ready(c) THEN [Idle(now) EXCEPT !.pc = "age", !.item = Head(q)]
                                 ELSE Idle(now)
    BY DEF Dequeue, TypeOK
  <2>2. q \in Seq(Items) /\ q # <<>> /\ r = Tail(q)
    BY DEF Dequeue, TypeOK
  <2>3. Head(q) = q[1]
    BY <2>2
  <2>4. sender'[c] = Idle(now) \/ (sender'[c].item = q[1] /\ sender'[c].since = now)
    <3> HIDE DEF q
    <3>1. CASE Ready(c)
      <4>1. sender'[c] = [Idle(now) EXCEPT !.pc = "age", !.item = Head(q)]
        BY <2>1, <3>1
      <4> QED
        BY <2>3, <4>1 DEF Idle
    <3>2. CASE ~Ready(c)
      BY <2>1, <3>2
    <3> QED
      BY <3>1, <3>2
  <2> QED
    BY <2>2, <2>4 DEF Dequeue, At
<1>1. Captured' = Captured /\ Pending(c)' = Pending(c) /\ LastPosted(c)' = LastPosted(c)
  BY <1>0, AudioFrame
<1>2. sender'[c].since = now /\ (sender'[c].item = q[1] \/ sender'[c] = Idle(now))
  BY <1>0 DEF Idle
<1>3. /\ Len(q) \in Nat \ {0} /\ Len(r) = Len(q) - 1 /\ Len(r) \in Nat
      /\ \A k \in 1 .. Len(r) : r[k] = q[k + 1] /\ k + 1 \in 1 .. Len(q)
      /\ 1 \in 1 .. Len(q)
  <2>1. Len(q) \in Nat /\ Len(q) # 0
    BY <1>0, ItemFields, EmptySeq
  <2>2. Len(r) = Len(q) - 1 /\ \A k \in 1 .. Len(r) : r[k] = q[k + 1]
    BY <1>0, TailOfItems
  <2> QED
    BY <2>1, <2>2
<1>4. /\ \A k \in 1 .. Len(q) : q[k].seq \in Nat
      /\ sent[c].seq \in Nat /\ now \in Nat /\ MaxStall \in Nat /\ written \in Nat
      /\ QueueDepth \in Nat
  BY <1>0, RowTypes, ItemFields
<1>5. LastPosted(c) \in Nat
  <2>1. Posting => written >= 1
    BY DEF AudioInTurn
  <2> QED
    BY <1>4, <2>1 DEF LastPosted
<1>6. OnTime(c)'
  BY <1>0, <1>2, <1>4 DEF OnTime
<1> HIDE DEF q, r
<1>7. InOrder(c)'
  <2>0. /\ Len(q) <= QueueDepth /\ sent[c].seq <= LastPosted(c)
        /\ \A k \in 1 .. Len(q) : q[k].seq <= LastPosted(c) /\ sent[c].seq < q[k].seq
        /\ \A j, k \in 1 .. Len(q) : j < k => q[j].seq < q[k].seq
    BY DEF ClientInv, InOrder, q
  <2>1. \A k \in 1 .. Len(r) : /\ r[k].seq <= LastPosted(c) /\ sent[c].seq < r[k].seq
                               /\ q[1].seq < r[k].seq
    <3> TAKE k \in 1 .. Len(r)
    <3>1. r[k] = q[k + 1] /\ k + 1 \in 1 .. Len(q) /\ 1 < k + 1
      BY <1>3
    <3> QED
      BY <1>3, <2>0, <3>1
  <2>2. \A j, k \in 1 .. Len(r) : j < k => r[j].seq < r[k].seq
    <3> SUFFICES ASSUME NEW j \in 1 .. Len(r), NEW k \in 1 .. Len(r), j < k
                 PROVE  r[j].seq < r[k].seq
      OBVIOUS
    <3>1. r[j] = q[j + 1] /\ j + 1 \in 1 .. Len(q) /\ r[k] = q[k + 1] /\ k + 1 \in 1 .. Len(q)
      BY <1>3
    <3>2. j + 1 < k + 1
      OBVIOUS
    <3> QED
      BY <2>0, <3>1, <3>2
  <2>3. Len(r) <= QueueDepth
    BY <1>3, <1>4, <2>0
  <2>4. CASE sender'[c].item = q[1]
    <3>1. sender'[c].item.seq <= LastPosted(c) /\ sent[c].seq < sender'[c].item.seq
      BY <1>3, <2>0, <2>4
    <3> QED
      BY <1>0, <1>1, <2>0, <2>1, <2>2, <2>3, <2>4, <3>1 DEF InOrder, r
  <2>5. CASE sender'[c] = Idle(now)
    <3>1. sender'[c].item.seq = 0 /\ ~Busy(c)'
      BY <2>5 DEF Idle, NoItem, Busy, At
    <3>2. sender'[c].item.seq <= LastPosted(c)
      BY <1>5, <3>1
    <3> QED
      BY <1>0, <1>1, <2>0, <2>1, <2>2, <2>3, <3>1, <3>2 DEF InOrder, r
  <2> QED
    BY <1>2, <2>4, <2>5
<1>8. \A k \in 1 .. Len(r) : Lag(queue[c][k])' = Lag(q[k + 1])
  <2> TAKE k \in 1 .. Len(r)
  <2>1. Lag(queue[c][k])' = Captured' - queue'[c][k].seq
    BY DEF Lag
  <2>2. queue'[c][k] = q[k + 1]
    BY <1>3 DEF r
  <2> QED
    BY <1>1, <2>1, <2>2 DEF Lag
<1>9. ASSUME conn[c].state = "handshake" PROVE Unposted(c)'
  <2>1. Len(q) + Pending(c) <= 1 /\ Pending(c) \in {0, 1}
    BY <1>9, LagTypes DEF ClientInv, NotFarBehind, Unposted, q
  <2>2. Len(r) = 0 /\ Len(r) + Pending(c) <= 1
    <3> DEFINE p == Pending(c)
    <3>1. p \in Nat /\ Len(q) + p <= 1
      BY <2>1
    <3> HIDE DEF p
    <3>2. Len(r) = 0 /\ Len(r) + p <= 1
      BY <1>3, <3>1
    <3> QED
      BY <3>2 DEF p
  <2> QED
    BY <1>1, <2>2 DEF Unposted, r
<1>10. ASSUME conn[c].state = "ready" PROVE Posted(c)'
  <2> SUFFICES ASSUME NEW k \in 1 .. Len(r)
               PROVE  Lag(queue[c][k])' <= Len(r) - k + Pending(c)
    BY <1>1 DEF Posted, r
  <2>1. k + 1 \in 1 .. Len(q) /\ k + 1 # 1
    BY <1>3
  <2>2. Lag(q[k + 1]) <= Len(q) - (k + 1) + Pending(c)
    BY <1>10, <2>1 DEF ClientInv, NotFarBehind, Posted, q
  <2>3. Len(q) - (k + 1) = Len(r) - k
    BY <1>3
  <2> QED
    BY <1>8, <2>2, <2>3
<1> QED
  BY <1>0, <1>6, <1>7, <1>9, <1>10 DEF ClientInv, NotFarBehind

\* The other steps of a sender: it takes nothing from the queue, and what it
\* loses of its time it has in stalls to come.
LEMMA WorkingStep ==
    ASSUME TypeOK, NEW c \in Clients, ClientInv(c), AudioInTurn, Sender(c), ~Dequeue(c)
    PROVE  ClientInv(c)'
<1>0. /\ UNCHANGED <<now, pool, writePos, written, audio, queue>>
      /\ sender[c].pc # "idle"
      /\ conn'[c] = conn[c] \/ conn'[c].state = "failed"
      /\ \/ sent'[c] = sent[c]
         \/ sender'[c] = Idle(now) /\ sent'[c].seq = sender[c].item.seq
      /\ \/ sender'[c] = Idle(now)
         \/ /\ sender'[c].item = sender[c].item /\ sender'[c].pc # "idle"
            /\ \/ /\ sender[c].pc = "age" /\ sender'[c].pc = "header"
                  /\ sender'[c].since = now
               \/ /\ sender'[c].since = sender[c].since /\ sender[c].pc # "age"
                  /\ sender'[c].pc = "age" => conn[c].state = "ready"
  BY SenderRow
<1>1. Captured' = Captured /\ Pending(c)' = Pending(c) /\ LastPosted(c)' = LastPosted(c)
  BY <1>0, AudioFrame
<1>2. /\ now \in Nat /\ MaxStall \in Nat /\ sender[c].since \in Nat /\ audio.ts \in Nat
      /\ written \in Nat /\ sent[c].seq \in Nat /\ sender[c].item.seq \in Nat
      /\ \A k \in 1 .. Len(queue[c]) : queue[c][k].seq \in Nat
  BY RowTypes, ItemFields
<1>3. Busy(c) /\ ~At(c, "idle") /\ sender[c].since <= now /\ now - sender[c].since <= MaxStall
  BY <1>0 DEF ClientInv, OnTime, Busy, At
<1>4. sender'[c].since \in {now, sender[c].since}
  BY <1>0 DEF Idle
<1>5. OnTime(c)'
  BY <1>0, <1>2, <1>3, <1>4 DEF OnTime
<1>6. InOrder(c)'
  <2>0. /\ Len(queue[c]) <= QueueDepth
        /\ sent[c].seq <= LastPosted(c) /\ sender[c].item.seq <= LastPosted(c)
        /\ sent[c].seq < sender[c].item.seq
        /\ \A k \in 1 .. Len(queue[c]) :
             /\ queue[c][k].seq <= LastPosted(c) /\ sent[c].seq < queue[c][k].seq
             /\ sender[c].item.seq < queue[c][k].seq
        /\ \A j, k \in 1 .. Len(queue[c]) : j < k => queue[c][j].seq < queue[c][k].seq
    BY <1>3 DEF ClientInv, InOrder
  <2>1. CASE sender'[c] = Idle(now)
    <3>1. sender'[c].item.seq = 0 /\ ~Busy(c)'
      BY <2>1 DEF Idle, NoItem, Busy, At
    <3>2. sender'[c].item.seq <= LastPosted(c)
      <4>1. LastPosted(c) \in Nat
        <5>1. Posting => written >= 1
          BY DEF AudioInTurn
        <5> QED
          BY <1>2, <5>1 DEF LastPosted
      <4> QED
        BY <3>1, <4>1
    <3>3. sent'[c].seq \in {sent[c].seq, sender[c].item.seq}
      BY <1>0
    <3>4. /\ sent'[c].seq <= LastPosted(c)
          /\ \A k \in 1 .. Len(queue[c]) : sent'[c].seq < queue[c][k].seq
      BY <2>0, <3>3
    <3> QED
      BY <1>0, <1>1, <2>0, <3>1, <3>2, <3>4 DEF InOrder
  <2>2. CASE sender'[c] # Idle(now)
    <3>1. sent'[c] = sent[c] /\ sender'[c].item = sender[c].item
      BY <1>0, <2>2
    <3> QED
      BY <1>0, <1>1, <2>0, <3>1 DEF InOrder
  <2> QED
    BY <2>1, <2>2
<1>7. \A k \in 1 .. Len(queue[c]) : /\ Lag(queue[c][k])' = Lag(queue[c][k])
                                    /\ Lag(queue[c][k]) \in Int
  <2>1. \A k \in 1 .. Len(queue[c]) : Lag(queue[c][k])' = Lag(queue[c][k])
    BY <1>0, <1>1 DEF Lag
  <2> QED
    BY <2>1, LagTypes
<1>8. ASSUME conn[c].state = "handshake" PROVE Unposted(c)'
  <2>1. /\ Len(queue[c]) + Pending(c) <= 1
        /\ \A k \in 1 .. Len(queue[c]) :
             Lag(queue[c][k]) <= Since(sender[c].since) + Stalls(c)
    BY <1>8 DEF ClientInv, NotFarBehind, Unposted
  <2>2. /\ Since(sender[c].since) \in Nat /\ Since(now) \in Nat
        /\ Since(sender[c].since) <= Since(now) + MaxStall
    BY <1>2, <1>3, SinceMoves DEF AudioInTurn
  <2>3. /\ Since(now)' = Since(now)
        /\ sender'[c].since = now => Since(sender[c].since)' = Since(now)
        /\ sender'[c].since = sender[c].since
             => Since(sender[c].since)' = Since(sender[c].since)
    BY <1>0 DEF Since
  <2>4. Since(sender[c].since)' + Stalls(c)' >= Since(sender[c].since) + Stalls(c)
        /\ Since(sender[c].since)' + Stalls(c)' \in Nat /\ Stalls(c) \in Nat
    <3>1. CASE sender'[c] = Idle(now)
      <4>1. Stalls(c)' = MaxStall + MaxStall /\ Since(sender[c].since)' = Since(now)
        BY <2>3, <3>1 DEF Stalls, At, Idle
      <4>2. Stalls(c) \in {0, MaxStall}
        BY <1>0 DEF Stalls, At
      <4> QED
        BY <1>2, <2>2, <4>1, <4>2
    <3>2. CASE /\ sender[c].pc = "age" /\ sender'[c].pc = "header"
               /\ sender'[c].since = now
      <4>1. Stalls(c) = 0 /\ Stalls(c)' = MaxStall /\ Since(sender[c].since)' = Since(now)
        BY <2>3, <3>2 DEF Stalls, At
      <4> QED
        BY <1>2, <2>2, <4>1
    <3>3. CASE /\ sender'[c].since = sender[c].since /\ sender[c].pc # "age"
               /\ sender'[c].pc # "age" /\ sender'[c].pc # "idle"
      <4>1. Stalls(c) = MaxStall /\ Stalls(c)' = MaxStall
            /\ Since(sender[c].since)' = Since(sender[c].since)
        BY <1>0, <2>3, <3>3 DEF Stalls, At
      <4> QED
        BY <1>2, <2>2, <4>1
    <3> QED
      BY <1>0, <1>8, <3>1, <3>2, <3>3
  <2>5. \A k \in 1 .. Len(queue[c]) :
          Lag(queue[c][k])' <= Since(sender[c].since)' + Stalls(c)'
    <3> TAKE k \in 1 .. Len(queue[c])
    <3>1. Lag(queue[c][k]) \in Int /\ Lag(queue[c][k])' = Lag(queue[c][k])
          /\ Lag(queue[c][k]) <= Since(sender[c].since) + Stalls(c)
      BY <1>7, <2>1
    <3> QED
      BY <2>2, <2>4, <3>1
  <2> QED
    BY <1>0, <1>1, <2>1, <2>5 DEF Unposted
<1>9. ASSUME conn[c].state = "ready" PROVE Posted(c)'
  <2> SUFFICES ASSUME NEW k \in 1 .. Len(queue[c])
               PROVE  \/ Lag(queue[c][k])' <= Len(queue[c]) - k + Pending(c)
                      \/ /\ k = 1
                         /\ Lag(queue[c][k])' <= Len(queue[c]) + Pending(c) + MaxStall + MaxStall
    BY <1>0, <1>1 DEF Posted
  <2> QED
    BY <1>3, <1>7, <1>9 DEF ClientInv, NotFarBehind, Posted
<1> QED
  BY <1>0, <1>5, <1>6, <1>8, <1>9 DEF ClientInv, NotFarBehind

\* A sender's step concerns its own client.
LEMMA SenderStep ==
    ASSUME TypeOK, AudioInTurn, \A c \in Clients : ClientInv(c), NEW c \in Clients, Sender(c)
    PROVE  \A d \in Clients : ClientInv(d)'
<1>1. ClientInv(c)'
  BY DequeueStep, WorkingStep
<1>2. ASSUME NEW d \in Clients, d # c PROVE ClientInv(d)'
  <2>1. UNCHANGED <<now, written, audio>> /\ queue'[d] = queue[d] /\ sender'[d] = sender[d]
        /\ sent'[d] = sent[d] /\ conn'[d] = conn[d]
    <3>1. CASE Dequeue(c)
      BY <1>2, <3>1 DEF Dequeue, TypeOK
    <3>2. CASE ~Dequeue(c)
      BY <1>2, <3>2, SenderRow
    <3> QED
      BY <3>1, <3>2
  <2> QED
    BY <2>1, AudioFrame, KeepsClient
<1> QED
  BY <1>1, <1>2

-----------------------------------------------------------------------------
\* Every step keeps the pool and every client in order.
LEMMA FanStep == CheckInv /\ CheckInv' /\ FanInv /\ [Next]_vars => FanInv'
<1> SUFFICES ASSUME CheckInv, CheckInv', FanInv, [Next]_vars PROVE FanInv'
  OBVIOUS
<1>0. TypeOK /\ TypeOK' /\ PoolInv /\ AudioInTurn /\ \A c \in Clients : ClientInv(c)
  BY DEF CheckInv, FanInv, PoolInv
<1>1. PoolInv'
  BY <1>0, PoolStep
<1>2. \A d \in Clients : ClientInv(d)'
  <2>1. CASE Tick
    BY <1>0, <2>1, TickStep
  <2>2. CASE Audio
    BY <1>0, <2>2, AudioStep
  <2>3. ASSUME NEW c \in Clients, Connection(c) PROVE \A d \in Clients : ClientInv(d)'
    BY <1>0, <2>3, ConnectionStep
  <2>4. ASSUME NEW c \in Clients, Sender(c) PROVE \A d \in Clients : ClientInv(d)'
    BY <1>0, <2>4, SenderStep
  <2>5. CASE UNCHANGED vars
    <3> TAKE d \in Clients
    <3>1. UNCHANGED <<now, written, audio, queue, sender, sent, conn>>
      BY <2>5 DEF vars
    <3> QED
      BY <1>0, <3>1, AudioFrame, KeepsClient
  <2> QED
    BY <2>1, <2>2, <2>3, <2>4, <2>5 DEF Next
<1> QED
  BY <1>1, <1>2 DEF FanInv

\* For every pool, queue and stall: the pool is a ring of chunks in capture
\* order, references stay in order, and all but the first of a queue are as
\* many chunks behind audio_task as there are references behind them.
THEOREM FanInvariant == Spec => []FanInv
<1>1. Init => FanInv
  BY PoolInit, ClientInit DEF FanInv
<1>2. CheckInv /\ CheckInv' /\ FanInv /\ [Next]_vars => FanInv'
  BY FanStep
<1> QED
  BY <1>1, <1>2, CheckInvariant, PTL DEF Spec

-----------------------------------------------------------------------------
(* The stream, whatever the stalls *)

\* Chunks are numbered in capture order, one frame period or more apart; a slot
\* that is not being rewritten holds the chunk of its number, and one that is
\* keeps the old payload until the new one is written over it.
Numbered ==
    /\ Len(captured) = written
    /\ \A m, n \in 1 .. written : m < n => captured[m] < captured[n]
    /\ \A n \in 1 .. written : captured[n] >= 1 /\ audio.ts - captured[n] >= Captured - n
    /\ \A i \in Slots : pool[i].seq >= 1 =>
         /\ ~Refilling(i) => pool[i].ts = captured[pool[i].seq]
         /\ audio.pc = "data" /\ writePos = i => pool[i].data = captured[pool[i].seq]

\* The slot still has the chunk the sender's reference names, captured at Due;
\* audio_task is writing the next one over it.
Named(c)  == SlotOf(c).seq = sender[c].item.seq
Due(c)    == captured[sender[c].item.seq]
Struck(c) == Refilling(sender[c].item.slot)

\* What may go out for the chunk captured at t: header h and payload d are its
\* own, or some of them of a chunk captured a whole pool later; and the header is
\* no older than the limit.
Sendable(t, h, d, limit) ==
    /\ h >= limit
    /\ \/ h = t /\ d = t
       \/ \E u \in t + PoolSize .. audio.ts : h \in {t, u} /\ d \in {t, u}

\* A chunk that is looked at, copied or sent.
Copied(c) ==
    /\ At(c, "header") /\ Named(c) => SlotOf(c).ts >= sender[c].since - MaxAge
    /\ sender[c].pc \in {"data", "verify"} /\ Named(c) =>
         /\ sender[c].ts >= sender[c].since - MaxAge
         /\ sender[c].ts = Due(c) \/ (Struck(c) /\ sender[c].ts = audio.ts)
         /\ At(c, "verify") => \/ sender[c].data = Due(c)
                               \/ Struck(c) /\ sender[c].data = audio.ts
    /\ At(c, "send") =>
         Sendable(Due(c), sender[c].ts, sender[c].data, sender[c].since - MaxAge)

StreamInv == Numbered /\ \A c \in Clients : Copied(c)

\* Nothing is sent or copied yet.
LEMMA StreamInit == Init => StreamInv
<1> SUFFICES ASSUME Init PROVE StreamInv
  OBVIOUS
<1>1. Numbered
  <2>1. written = 0 /\ captured = <<>> /\ \A i \in Slots : pool[i].seq = 0
    BY DEF Init
  <2> QED
    BY <2>1 DEF Numbered
<1>2. \A c \in Clients : Copied(c)
  BY DEF Init, Copied, At
<1> QED
  BY <1>1, <1>2 DEF StreamInv

\* The capture times are recorded as numbers, and for every number of the pool.
LEMMA CaptureTypes ==
    ASSUME CheckInv, Numbered
    PROVE  /\ \A n \in 1 .. written : captured[n] \in Nat
           /\ written \in Nat /\ audio.ts \in Nat
           /\ \A i \in Slots : /\ pool[i].seq \in Nat /\ pool[i].ts \in Nat /\ pool[i].data \in Nat
                               /\ pool[i].seq <= written
<1>1. captured \in Seq(Nat) /\ written \in Nat /\ audio.ts \in Nat /\ pool \in [Slots -> Chunks]
  BY DEF CheckInv, TypeOK, AudioStates
<1>2. Len(captured) = written
  BY DEF Numbered
<1>3. \A n \in 1 .. written : captured[n] \in Nat
  BY <1>1, <1>2, ElementOfSeq
<1>4. \A i \in Slots : pool[i].seq <= written
  BY DEF CheckInv, SequencesIssued
<1> QED
  BY <1>1, <1>3, <1>4 DEF Chunks

\* A number keeps its capture time.
LEMMA CapturesStay ==
    ASSUME CheckInv, Numbered, [Next]_vars, NEW n \in 1 .. written
    PROVE  captured'[n] = captured[n]
<1>1. CASE Publish
  <2>1. captured' = Append(captured, audio.ts) /\ captured \in Seq(Nat) /\ audio.ts \in Nat
    BY <1>1 DEF Publish, CheckInv, TypeOK, AudioStates
  <2>2. n \in 1 .. Len(captured)
    BY DEF Numbered
  <2> QED
    BY <2>1, <2>2, AppendProperties
<1>2. CASE ~Publish
  <2>1. captured' = captured
    BY <1>2 DEF Next, Tick, Audio, Collect, FillHeader, FillData, Post, QueueFull, Evict,
                Connection, Accept, ResetQueue, BecomeReady, Close, Sender, Dequeue, CheckAge,
                CopyHeader, CopyData, Verify, SendDone, SendBusy, SendFailed, StillWanted, vars
  <2> QED
    BY <2>1
<1> QED
  BY <1>1, <1>2

\* Publish: the next number goes to the frame just written.
LEMMA NumberedPublish ==
    ASSUME CheckInv, PoolInv, Numbered, Publish PROVE Numbered'
<1>0. /\ audio.pc = "publish" /\ audio'.pc \in {"capture", "post"} /\ audio'.ts = audio.ts
      /\ written' = written + 1 /\ captured' = Append(captured, audio.ts)
      /\ pool \in [Slots -> Chunks] /\ writePos \in Slots /\ captured \in Seq(Nat)
  BY DEF Publish, CheckInv, TypeOK, AudioStates
<1>1. /\ pool'[writePos].seq = written + 1 /\ pool'[writePos].ts = audio.ts
      /\ \A i \in Slots : i # writePos => pool'[i] = pool[i]
  <2>1. pool[writePos].ts = audio.ts
    BY <1>0 DEF PoolInv, AudioInTurn
  <2> QED
    BY <1>0, <2>1 DEF Publish, Chunks
<1>2. /\ \A n \in 1 .. written : captured[n] \in Nat
      /\ written \in Nat /\ audio.ts \in Nat /\ audio.ts >= 1
      /\ \A i \in Slots : pool[i].seq \in Nat /\ pool[i].seq <= written
  BY <1>0, CaptureTypes DEF PoolInv, AudioInTurn, Filling
<1>3. /\ Len(captured') = written' /\ captured'[written + 1] = audio.ts
      /\ \A n \in 1 .. written : captured'[n] = captured[n]
  BY <1>0, <1>2, AppendProperties DEF Numbered
<1>4. Captured = written + 1 /\ Captured' = written + 1
  BY <1>0 DEF Captured, Filling
<1>5. \A n \in 1 .. written : captured[n] >= 1 /\ audio.ts - captured[n] >= written + 1 - n
  BY <1>4 DEF Numbered
<1>6. \A n \in 1 .. written : captured[n] < audio.ts
  BY <1>2, <1>5
<1>7. ASSUME NEW m \in 1 .. written + 1, NEW n \in 1 .. written + 1, m < n
      PROVE  captured'[m] < captured'[n]
  <2>1. m \in 1 .. written /\ captured'[m] = captured[m]
    BY <1>2, <1>3, <1>7
  <2>2. CASE n = written + 1
    BY <1>3, <1>6, <2>1, <2>2
  <2>3. CASE n # written + 1
    <3>1. n \in 1 .. written /\ captured'[n] = captured[n]
      BY <1>2, <1>3, <2>3
    <3> QED
      BY <1>7, <2>1, <3>1 DEF Numbered
  <2> QED
    BY <2>2, <2>3
<1>8. ASSUME NEW n \in 1 .. written + 1
      PROVE  captured'[n] >= 1 /\ audio.ts - captured'[n] >= written + 1 - n
  <2>1. CASE n = written + 1
    BY <1>2, <1>3, <2>1
  <2>2. CASE n # written + 1
    BY <1>2, <1>3, <1>5, <2>2
  <2> QED
    BY <2>1, <2>2
<1>9. ASSUME NEW i \in Slots, pool'[i].seq >= 1
      PROVE  pool'[i].ts = captured'[pool'[i].seq]
  <2>1. CASE i = writePos
    BY <1>1, <1>3, <2>1
  <2>2. CASE i # writePos
    <3>1. ~Refilling(i) /\ pool'[i] = pool[i] /\ pool[i].seq \in 1 .. written
      BY <1>1, <1>2, <1>9, <2>2 DEF Refilling
    <3> QED
      BY <1>3, <1>9, <3>1 DEF Numbered
  <2> QED
    BY <2>1, <2>2
<1>10. \A m, n \in 1 .. written' : m < n => captured'[m] < captured'[n]
  BY <1>0, <1>7
<1>11. \A n \in 1 .. written' :
         captured'[n] >= 1 /\ audio'.ts - captured'[n] >= Captured' - n
  <2> TAKE n \in 1 .. written'
  <2>1. n \in 1 .. written + 1
    BY <1>0
  <2>2. captured'[n] >= 1 /\ audio.ts - captured'[n] >= written + 1 - n
    BY <1>8, <2>1
  <2>3. captured'[n] \in Nat /\ Captured' \in Nat /\ n \in Nat
    BY <1>2, <1>3, <1>4, <2>1
  <2>4. audio'.ts - captured'[n] = audio.ts - captured'[n]
    BY <1>0
  <2>5. Captured' - n = written + 1 - n
    BY <1>0, <1>2, <2>1, <2>3 DEF Captured, Filling
  <2> QED
    BY <1>2, <2>2, <2>3, <2>4, <2>5
<1>12. audio'.pc # "data" /\ \A i \in Slots :
         pool'[i].seq >= 1 => pool'[i].ts = captured'[pool'[i].seq]
  BY <1>0, <1>9
<1> QED
  BY <1>3, <1>10, <1>11, <1>12 DEF Numbered

\* Collect: the new frame is later than all numbered ones.
LEMMA NumberedCollect ==
    ASSUME CheckInv, PoolInv, Numbered, Collect PROVE Numbered'
<1>0. /\ audio.pc = "capture" /\ audio'.pc = "header" /\ audio'.ts = now /\ audio.ts < now
      /\ UNCHANGED <<pool, writePos, written, captured>> /\ now \in Nat
  BY DEF Collect, CheckInv, TypeOK, AudioStates
<1>1. \A n \in 1 .. written : captured[n] \in Nat
  BY CaptureTypes
<1>2. Captured = written /\ Captured' = written + 1 /\ written \in Nat /\ audio.ts \in Nat
  BY <1>0, CaptureTypes DEF Captured, Filling
<1>3. \A n \in 1 .. written : audio.ts - captured[n] >= written - n
  BY <1>2 DEF Numbered
<1>4. \A n \in 1 .. written : now - captured[n] >= written + 1 - n
  BY <1>0, <1>1, <1>2, <1>3
<1>5. \A i \in Slots : ~Refilling(i) /\ ~(audio'.pc = "data" /\ writePos' = i)
  BY <1>0 DEF Refilling
<1> QED
  BY <1>0, <1>2, <1>4, <1>5 DEF Numbered

\* FillHeader and FillData: the slot loses its chunk piece by piece.
LEMMA NumberedFill ==
    ASSUME CheckInv, PoolInv, Numbered, FillHeader \/ FillData PROVE Numbered'
<1>0. /\ audio.pc \in {"header", "data"} /\ audio'.pc \in {"data", "publish"}
      /\ audio'.pc = "data" <=> audio.pc = "header"
      /\ audio'.ts = audio.ts /\ UNCHANGED <<writePos, written, captured>>
      /\ pool \in [Slots -> Chunks] /\ writePos \in Slots
  BY DEF FillHeader, FillData, CheckInv, TypeOK, AudioStates
<1>1. /\ \A i \in Slots : pool'[i].seq = pool[i].seq
      /\ \A i \in Slots : i # writePos => pool'[i] = pool[i]
      /\ audio.pc = "header" => pool'[writePos].data = pool[writePos].data
  BY <1>0 DEF FillHeader, FillData, Chunks
<1>2. Captured' = Captured
  BY <1>0 DEF Captured, Filling
<1>3. ASSUME NEW i \in Slots, pool'[i].seq >= 1, ~Refilling(i)'
      PROVE  pool'[i].ts = captured[pool'[i].seq]
  <2>1. i # writePos /\ ~Refilling(i)
    BY <1>0, <1>3 DEF Refilling
  <2> QED
    BY <1>1, <1>3, <2>1 DEF Numbered
<1>4. ASSUME NEW i \in Slots, pool'[i].seq >= 1, audio'.pc = "data", writePos' = i
      PROVE  pool'[i].data = captured[pool'[i].seq]
  <2>1. audio.pc = "header" /\ i = writePos /\ ~Refilling(i)
    BY <1>0, <1>4 DEF Refilling
  <2>2. pool[i].ts = pool[i].data
    BY <2>1 DEF CheckInv, SlotsWhole
  <2>3. pool[i].ts = captured[pool[i].seq]
    BY <1>1, <1>4, <2>1 DEF Numbered
  <2> QED
    BY <1>1, <2>1, <2>2, <2>3
<1> QED
  BY <1>0, <1>2, <1>3, <1>4 DEF Numbered

\* Every other step leaves pool and numbers alone.
LEMMA NumberedStep ==
    ASSUME CheckInv, PoolInv, Numbered, [Next]_vars PROVE Numbered'
<1>0. TypeOK
  BY DEF CheckInv
<1>1. CASE Collect \/ FillHeader \/ FillData \/ Publish
  BY <1>1, NumberedCollect, NumberedFill, NumberedPublish
<1>2. CASE /\ UNCHANGED <<pool, writePos, written, captured>> /\ audio'.ts = audio.ts
           /\ Filling' = Filling
           /\ audio' # audio => ~Filling /\ ~Filling'
  <2>1. Captured' = Captured
    BY <1>2 DEF Captured
  <2>2. \A i \in Slots : /\ Refilling(i)' = Refilling(i)
                         /\ audio'.pc = "data" /\ writePos' = i <=> audio.pc = "data" /\ writePos = i
    <3>1. CASE audio' = audio
      BY <1>2, <3>1 DEF Refilling
    <3>2. CASE audio' # audio
      <4>1. audio.pc \notin {"data", "publish"} /\ audio'.pc \notin {"data", "publish"}
        BY <1>2, <3>2 DEF Filling
      <4> QED
        BY <4>1 DEF Refilling
    <3> QED
      BY <3>1, <3>2
  <2> QED
    BY <1>2, <2>1, <2>2 DEF Numbered
<1>3. ASSUME NEW c \in Clients, Post(c) \/ QueueFull(c) \/ Evict(c) PROVE Numbered'
  <2>1. UNCHANGED <<pool, writePos, written, captured>> /\ audio'.ts = audio.ts
        /\ ~Filling /\ ~Filling'
    BY <1>0, <1>3, PostingRow DEF Post, QueueFull, Evict
  <2>2. Filling' = Filling
    BY <2>1 DEF Filling
  <2> QED
    BY <1>2, <2>1, <2>2
<1>4. CASE Tick \/ (\E c \in Clients : Connection(c) \/ Sender(c)) \/ UNCHANGED vars
  <2>1. UNCHANGED <<pool, writePos, written, captured, audio>>
    BY <1>4 DEF Tick, Connection, Accept, ResetQueue, BecomeReady, Close, Sender, Dequeue, CheckAge,
                CopyHeader, CopyData, Verify, SendDone, SendBusy, SendFailed, StillWanted, vars
  <2>2. Filling' = Filling
    BY <2>1 DEF Filling
  <2> QED
    BY <1>2, <2>1, <2>2
<1> QED
  BY <1>1, <1>3, <1>4 DEF Next, Audio

-----------------------------------------------------------------------------
(* What a sender copies *)

\* The numbers of a sender at work are issued ones.
LEMMA NumbersIssued ==
    ASSUME TypeOK, NEW c \in Clients, ClientInv(c)
    PROVE  /\ sent[c].seq \in Nat /\ sent[c].seq <= written
           /\ sender[c].item.seq \in Nat /\ sender[c].item.seq <= written
           /\ Busy(c) => sender[c].item.seq \in 1 .. written /\ sent[c].seq < sender[c].item.seq
<1>1. LastPosted(c) <= written /\ LastPosted(c) \in Int /\ written \in Nat
  BY RowTypes DEF LastPosted
<1>2. sent[c].seq <= LastPosted(c) /\ sender[c].item.seq <= LastPosted(c)
      /\ (Busy(c) => sent[c].seq < sender[c].item.seq)
  BY DEF ClientInv, InOrder
<1>3. sent[c].seq \in Nat /\ sender[c].item.seq \in Nat
  BY RowTypes
<1> QED
  BY <1>1, <1>2, <1>3

\* A chunk in the slot audio_task fills next, or is filling, is a whole pool
\* behind.
LEMMA OldestLag ==
    ASSUME TypeOK, PoolInv, Filling, NEW r \in Items, r.slot = writePos, r.seq >= 1,
           pool[writePos].seq = r.seq
    PROVE  Lag(r) = PoolSize
<1>0. PoolSize \in Nat \ {0} /\ written \in Nat /\ writePos \in Slots /\ r.seq \in Nat
      /\ writePos \in Nat
  BY PoolSlots DEF TypeOK, Items, Slots
<1>1. Turn(writePos) = written + 1 - PoolSize
  BY <1>0 DEF Turn
<1>2. r.seq = written + 1 - PoolSize
  <2>1. pool[writePos].seq = IF Turn(writePos) > 0 THEN Turn(writePos) ELSE 0
    BY <1>0 DEF PoolInv, Ring
  <2> QED
    BY <1>0, <1>1, <2>1
<1>3. Captured = written + 1
  BY DEF Captured
<1> QED
  BY <1>0, <1>2, <1>3 DEF Lag
\* The chunk under audio_task's hands is a whole pool later than the one the
\* slot's number still names.
LEMMA StruckLater ==
    ASSUME CheckInv, PoolInv, Numbered, NEW c \in Clients, Struck(c), Named(c),
           sender[c].item.seq \in 1 .. written
    PROVE  /\ Due(c) + PoolSize \in Nat /\ Due(c) + PoolSize <= audio.ts
           /\ Due(c) # audio.ts /\ SlotOf(c).ts = audio.ts
<1>0. TypeOK /\ audio.pc \in {"data", "publish"} /\ writePos = sender[c].item.slot
      /\ pool[writePos].seq = sender[c].item.seq
  BY DEF CheckInv, Struck, Refilling, Named, SlotOf
<1>1. sender[c].item \in Items
  BY <1>0 DEF TypeOK, Copies
<1>2. Lag(sender[c].item) = PoolSize
  BY <1>0, <1>1, OldestLag DEF Filling
<1>3. Due(c) \in Nat /\ audio.ts \in Nat /\ PoolSize \in Nat \ {0}
  BY CaptureTypes, PoolSlots DEF Due
<1>4. audio.ts - Due(c) >= Captured - sender[c].item.seq
  BY DEF Numbered, Due
<1>5. audio.ts - Due(c) >= PoolSize
  BY <1>2, <1>4 DEF Lag
<1>6. SlotOf(c).ts = audio.ts
  BY <1>0 DEF PoolInv, AudioInTurn, SlotOf
<1> QED
  BY <1>3, <1>5, <1>6

\* What could be sent can still be sent when a frame more is captured.
LEMMA SendableLater ==
    ASSUME NEW t \in Nat, NEW h, NEW d, NEW limit, Sendable(t, h, d, limit),
           audio.ts \in Nat, audio'.ts \in Nat, audio'.ts >= audio.ts
    PROVE  Sendable(t, h, d, limit)'
<1>0. PoolSize \in Nat
  BY PoolSlots
<1>1. t + PoolSize .. audio.ts \subseteq t + PoolSize .. audio'.ts
  BY <1>0
<1> QED
  BY <1>1 DEF Sendable

\* The timestamp of the slot a reference names.
LEMMA SlotTimes ==
    ASSUME TypeOK, NEW c \in Clients
    PROVE  /\ SlotOf(c).ts \in Nat /\ sender[c].item.slot \in Slots
           /\ sender[c].since \in Nat /\ MaxAge \in Nat
BY RowTypes, PoolAssumption DEF TypeOK, SlotOf, Chunks, Copies, Items

\* A client whose slot keeps its chunk, or whose sender is idle.
LEMMA KeepsCopied ==
    ASSUME CheckInv, PoolInv, Numbered, [Next]_vars, NEW c \in Clients, ClientInv(c), Copied(c),
           sender'[c] = sender[c] \/ sender'[c].pc = "idle",
           audio.ts \in Nat, audio'.ts \in Nat, audio'.ts >= audio.ts,
           SlotOf(c).ts \in Nat, SlotOf(c)'.ts \in Nat,
           Named(c)' => /\ Named(c)
                        /\ SlotOf(c)'.ts >= SlotOf(c).ts
                        /\ Struck(c) => Struck(c)' /\ audio'.ts = audio.ts
    PROVE  Copied(c)'
<1>1. CASE sender'[c].pc \in {"idle", "age", "wanted"}
  BY <1>1 DEF Copied, At
<1>2. CASE sender'[c] = sender[c] /\ sender[c].pc \notin {"idle", "age", "wanted"}
  <2>1. sender[c].item.seq \in 1 .. written
    BY <1>2, NumbersIssued DEF Busy, At, CheckInv
  <2>2. Due(c)' = Due(c) /\ Due(c) \in Nat
    BY <1>2, <2>1, CapturesStay, CaptureTypes DEF Due
  <2>3. /\ At(c, "header")' = At(c, "header") /\ At(c, "verify")' = At(c, "verify")
        /\ At(c, "send")' = At(c, "send")
    BY <1>2 DEF At
  <2>4. At(c, "header")' /\ Named(c)' => SlotOf(c)'.ts >= sender'[c].since - MaxAge
    <3> SUFFICES ASSUME At(c, "header")', Named(c)'
                 PROVE  SlotOf(c)'.ts >= sender'[c].since - MaxAge
      OBVIOUS
    <3>1. /\ SlotOf(c)'.ts >= SlotOf(c).ts /\ SlotOf(c).ts >= sender[c].since - MaxAge
          /\ sender'[c].since = sender[c].since
      BY <1>2, <2>3 DEF Copied
    <3>2. /\ SlotOf(c).ts \in Nat /\ SlotOf(c)'.ts \in Nat /\ sender[c].since \in Nat
          /\ MaxAge \in Nat
      BY SlotTimes DEF CheckInv
    <3> QED
      BY <3>1, <3>2
  <2>5. sender'[c].pc \in {"data", "verify"} /\ Named(c)' =>
         /\ sender'[c].ts >= sender'[c].since - MaxAge
         /\ sender'[c].ts = Due(c)' \/ (Struck(c)' /\ sender'[c].ts = audio'.ts)
         /\ At(c, "verify")' => \/ sender'[c].data = Due(c)'
                                \/ Struck(c)' /\ sender'[c].data = audio'.ts
    BY <1>2, <2>2, <2>3 DEF Copied
  <2>6. At(c, "send")' =>
         Sendable(Due(c), sender[c].ts, sender[c].data, sender[c].since - MaxAge)'
    <3> SUFFICES ASSUME At(c, "send")
                 PROVE  Sendable(Due(c), sender[c].ts, sender[c].data, sender[c].since - MaxAge)'
      BY <2>3
    <3>1. /\ sender[c].ts \in Nat /\ sender[c].data \in Nat
          /\ sender[c].since - MaxAge \in Int
      <4>1. TypeOK /\ sender[c] \in Copies
        BY DEF CheckInv, TypeOK
      <4> QED
        BY <4>1, SlotTimes DEF Copies
    <3>2. PICK t \in Nat, h \in Nat, d \in Nat, limit \in Int :
               /\ t = Due(c) /\ h = sender[c].ts /\ d = sender[c].data
               /\ limit = sender[c].since - MaxAge
      BY <2>2, <3>1
    <3>3. Sendable(t, h, d, limit)
      BY <3>2 DEF Copied
    <3>4. Sendable(t, h, d, limit)'
      BY <3>3, SendableLater
    <3>5. t = Due(c)' /\ h = sender'[c].ts /\ d = sender'[c].data /\ limit = sender'[c].since - MaxAge
      BY <1>2, <2>2, <3>2
    <3> QED
      BY <3>4, <3>5 DEF Sendable
  <2> QED
    BY <2>4, <2>5, <2>6 DEF Copied
<1> QED
  BY <1>1, <1>2

\* Collect: nothing is being rewritten, and nothing is yet.
LEMMA CollectCopied ==
    ASSUME CheckInv, FanInv, Numbered, Collect, NEW c \in Clients, Copied(c)
    PROVE  Copied(c)'
<1>0. /\ TypeOK /\ PoolInv /\ ClientInv(c) /\ [Next]_vars
  BY DEF CheckInv, FanInv, Next, Audio
<1>1. /\ UNCHANGED <<pool, writePos, sender>> /\ audio.pc = "capture"
      /\ audio'.ts = now /\ audio.ts < now /\ now \in Nat /\ audio.ts \in Nat
  BY <1>0 DEF Collect, TypeOK, AudioStates
<1>2. ~Struck(c) /\ Named(c)' = Named(c) /\ SlotOf(c)' = SlotOf(c) /\ SlotOf(c).ts \in Nat
  BY <1>0, <1>1, SlotTimes DEF Struck, Refilling, Named, SlotOf
<1> QED
  BY <1>0, <1>1, <1>2, KeepsCopied

\* FillHeader, FillData and Publish: the slot a reference names may be the one,
\* until it gets its new number.
LEMMA FillCopied ==
    ASSUME CheckInv, FanInv, Numbered, FillHeader \/ FillData \/ Publish,
           NEW c \in Clients, Copied(c)
    PROVE  Copied(c)'
<1>0. /\ TypeOK /\ PoolInv /\ ClientInv(c) /\ [Next]_vars
  BY DEF CheckInv, FanInv, Next, Audio
<1>1. /\ sender' = sender /\ audio'.ts = audio.ts /\ audio.ts \in Nat
      /\ \A i \in Slots : i # writePos => pool'[i] = pool[i]
      /\ ~Publish => /\ writePos' = writePos /\ pool'[writePos].seq = pool[writePos].seq
                     /\ audio'.pc \in {"data", "publish"}
      /\ Publish => pool'[writePos].seq = written + 1
  <2>1. CASE FillHeader \/ FillData
    <3>1. audio.pc \in {"header", "data"} /\ audio'.pc \in {"data", "publish"}
          /\ audio'.ts = audio.ts /\ audio.ts \in Nat
      BY <1>0, <2>1 DEF FillHeader, FillData, TypeOK, AudioStates
    <3>2. ~Publish
      BY <3>1 DEF Publish
    <3> QED
      BY <1>0, <2>1, <3>1, <3>2 DEF FillHeader, FillData, TypeOK, Chunks
  <2>2. CASE Publish
    <3>1. audio'.ts = audio.ts /\ audio.ts \in Nat
      BY <1>0, <2>2 DEF Publish, TypeOK, AudioStates
    <3> QED
      BY <1>0, <2>2, <3>1 DEF Publish, TypeOK, Chunks
  <2> QED
    BY <2>1, <2>2
<1>2. sender[c].item.slot \in Slots /\ sender[c].item.seq \in Nat
      /\ sender[c].item.seq <= written /\ written \in Nat
  BY <1>0, RowTypes, NumbersIssued
<1>3. /\ SlotOf(c)' = pool'[sender[c].item.slot]
      /\ SlotOf(c).ts \in Nat /\ SlotOf(c)'.ts \in Nat
      /\ SlotOf(c)'.ts \in {SlotOf(c).ts, audio.ts}
  <2>1. SlotOf(c)' = pool'[sender[c].item.slot] /\ SlotOf(c).ts \in Nat
    BY <1>0, <1>1, SlotTimes DEF SlotOf
  <2>2. pool'[sender[c].item.slot].ts \in {SlotOf(c).ts, audio.ts}
    <3>1. CASE FillHeader
      BY <1>0, <1>2, <3>1 DEF FillHeader, SlotOf, TypeOK, Chunks
    <3>2. CASE FillData
      BY <1>0, <1>2, <3>2 DEF FillData, SlotOf, TypeOK, Chunks
    <3>3. CASE Publish
      BY <1>0, <1>2, <3>3 DEF Publish, SlotOf, TypeOK, Chunks
    <3> QED
      BY <3>1, <3>2, <3>3
  <2> QED
    BY <1>1, <2>1, <2>2
<1>4. CASE sender[c].item.slot # writePos
  <2>1. ~Struck(c) /\ SlotOf(c)' = SlotOf(c) /\ Named(c)' = Named(c)
    BY <1>1, <1>2, <1>3, <1>4 DEF Struck, Refilling, SlotOf, Named
  <2> QED
    BY <1>0, <1>1, <1>3, <2>1, KeepsCopied
<1>5. CASE sender[c].item.slot = writePos /\ ~Publish
  <2>1. Struck(c)' /\ Named(c)' = Named(c)
    BY <1>1, <1>3, <1>5 DEF Struck, Refilling, SlotOf, Named
  <2>2. CASE Busy(c)
    <3>1. sender[c].item.seq \in 1 .. written
      BY <1>0, <2>2, NumbersIssued
    <3>2. Named(c) => SlotOf(c).ts <= audio.ts
      <4>1. CASE Named(c) /\ Struck(c)
        BY <1>0, <1>1, <3>1, <4>1, StruckLater
      <4>2. CASE Named(c) /\ ~Struck(c)
        <5>1. SlotOf(c).ts = Due(c) /\ Due(c) \in Nat
          <6>1. sender[c].item.seq >= 1 /\ captured[sender[c].item.seq] \in Nat
            BY <1>2, <3>1, CaptureTypes
          <6>2. pool[sender[c].item.slot].ts = captured[pool[sender[c].item.slot].seq]
            BY <1>2, <4>2, <6>1 DEF Numbered, Named, SlotOf, Struck
          <6> QED
            BY <4>2, <6>1, <6>2 DEF Named, SlotOf, Due
        <5>2. audio.ts - Due(c) >= Captured - sender[c].item.seq
          BY <3>1 DEF Numbered, Due
        <5>3. Captured \in Nat /\ Captured >= written
          BY <1>2 DEF Captured
        <5> QED
          BY <1>1, <1>2, <5>1, <5>2, <5>3
      <4> QED
        BY <4>1, <4>2
    <3>3. Named(c)' => SlotOf(c)'.ts >= SlotOf(c).ts
      BY <1>1, <1>3, <2>1, <3>2
    <3> QED
      BY <1>0, <1>1, <1>3, <2>1, <3>3, KeepsCopied
  <2>3. CASE ~Busy(c)
    BY <1>1, <2>3 DEF Busy, At, Copied
  <2> QED
    BY <2>2, <2>3
<1>6. CASE sender[c].item.slot = writePos /\ Publish
  <2>1. ~Named(c)'
    BY <1>1, <1>2, <1>3, <1>6 DEF Named
  <2> QED
    BY <1>0, <1>1, <1>3, <2>1, KeepsCopied
<1> QED
  BY <1>4, <1>5, <1>6

\* Every step that leaves the pool, the sender's work and audio_task's frame alone.
LEMMA OtherCopied ==
    ASSUME CheckInv, FanInv, Numbered, [Next]_vars, NEW c \in Clients, Copied(c),
           sender'[c] = sender[c] \/ sender'[c].pc = "idle",
           UNCHANGED <<pool, writePos>>, audio'.ts = audio.ts,
           audio' # audio => ~Filling /\ ~Filling'
    PROVE  Copied(c)'
<1>0. TypeOK /\ PoolInv /\ ClientInv(c) /\ audio.ts \in Nat
  BY DEF CheckInv, FanInv, TypeOK, AudioStates
<1>1. CASE sender'[c] = sender[c]
  <2>1. Named(c)' = Named(c) /\ SlotOf(c)' = SlotOf(c) /\ SlotOf(c).ts \in Nat
    BY <1>0, <1>1, SlotTimes DEF Named, SlotOf
  <2>2. Struck(c) => Struck(c)'
    BY <1>1 DEF Struck, Refilling, Filling
  <2> QED
    BY <1>0, <1>1, <2>1, <2>2, KeepsCopied
<1>2. CASE sender'[c].pc = "idle"
  BY <1>2 DEF Copied, At
<1> QED
  BY <1>1, <1>2

\* The sender's own steps: what it copies of the slot is the chunk named, or
\* the one being written over it.
LEMMA WorkingCopied ==
    ASSUME CheckInv, FanInv, Numbered, NEW c \in Clients, Sender(c), ~Dequeue(c), Copied(c)
    PROVE  Copied(c)'
<1>0. /\ TypeOK /\ PoolInv /\ ClientInv(c) /\ [Next]_vars
  BY DEF CheckInv, FanInv, Next
<1>1. UNCHANGED <<now, pool, writePos, written, audio>> /\ audio.ts \in Nat
  BY <1>0, SenderRow, RowTypes
<1>2. /\ sender \in [Clients -> Copies] /\ sender[c] \in Copies
      /\ sender[c].item.slot \in Slots /\ SlotOf(c) \in Chunks
      /\ Idle(now).pc = "idle"
  BY <1>0, RowTypes DEF TypeOK, SlotOf, Idle
<1>3. CASE sender'[c].pc \in {"idle", "age", "wanted"}
  BY <1>3 DEF Copied, At
<1>4. ASSUME sender'[c].item = sender[c].item, Busy(c)
      PROVE  /\ SlotOf(c)' = SlotOf(c) /\ Named(c)' = Named(c) /\ Struck(c)' = Struck(c)
             /\ Due(c)' = Due(c) /\ Due(c) \in Nat /\ sender[c].item.seq \in 1 .. written
  <2>1. sender[c].item.seq \in 1 .. written
    BY <1>0, <1>4, NumbersIssued
  <2>2. Due(c)' = Due(c) /\ Due(c) \in Nat
    BY <1>0, <1>4, <2>1, CapturesStay, CaptureTypes DEF Due
  <2> QED
    BY <1>1, <1>4, <2>1, <2>2 DEF SlotOf, Named, Struck, Refilling
<1>5. ASSUME sender[c].item.seq \in 1 .. written, Named(c), ~Struck(c)
      PROVE  SlotOf(c).ts = Due(c)
  BY <1>2, <1>5, CaptureTypes DEF Numbered, Named, Struck, SlotOf, Due
<1>6. CASE CheckAge(c)
  <2>1. CASE now - SlotOf(c).ts > MaxAge
    <3>1. sender'[c].pc = "idle"
      BY <1>2, <1>6, <2>1 DEF CheckAge, Finish
    <3> QED
      BY <1>3, <3>1
  <2>2. CASE ~(now - SlotOf(c).ts > MaxAge)
    <3>1. sender' = [sender EXCEPT ![c].pc = "header", ![c].since = now] /\ sender[c].pc = "age"
      BY <1>6, <2>2 DEF CheckAge, At
    <3>2. sender'[c].item = sender[c].item /\ sender'[c].pc = "header" /\ sender'[c].since = now
      BY <1>2, <3>1 DEF Copies
    <3>3. SlotOf(c).ts >= now - MaxAge
      <4>1. SlotOf(c).ts \in Nat /\ now \in Nat /\ MaxAge \in Nat
        BY <1>0, <1>2, RowTypes DEF Chunks
      <4> QED
        BY <2>2, <4>1
    <3>4. SlotOf(c)' = SlotOf(c)
      BY <1>4, <3>1, <3>2 DEF Busy, At
    <3> QED
      BY <3>2, <3>3, <3>4 DEF Copied, At
  <2> QED
    BY <2>1, <2>2
<1>7. CASE CopyHeader(c)
  <2>1. /\ sender'[c].item = sender[c].item /\ sender'[c].since = sender[c].since
        /\ sender'[c].pc = "data" /\ sender'[c].ts = SlotOf(c).ts /\ sender[c].pc = "header"
    BY <1>2, <1>7 DEF CopyHeader, Copies, At
  <2>2. /\ SlotOf(c)' = SlotOf(c) /\ Named(c)' = Named(c) /\ Struck(c)' = Struck(c)
        /\ Due(c)' = Due(c) /\ sender[c].item.seq \in 1 .. written
    BY <1>4, <2>1 DEF Busy, At
  <2>3. Named(c) => /\ SlotOf(c).ts >= sender[c].since - MaxAge
                    /\ SlotOf(c).ts = Due(c) \/ (Struck(c) /\ SlotOf(c).ts = audio.ts)
    <3>1. Named(c) => SlotOf(c).ts >= sender[c].since - MaxAge
      BY <2>1 DEF Copied, At
    <3>2. Named(c) /\ Struck(c) => SlotOf(c).ts = audio.ts
      BY <1>0, <2>2, StruckLater
    <3>3. Named(c) /\ ~Struck(c) => SlotOf(c).ts = Due(c)
      BY <1>5, <2>2
    <3> QED
      BY <3>1, <3>2, <3>3
  <2>4. Named(c)' => /\ sender'[c].ts >= sender'[c].since - MaxAge
                     /\ sender'[c].ts = Due(c)' \/ (Struck(c)' /\ sender'[c].ts = audio'.ts)
    BY <1>1, <2>1, <2>2, <2>3
  <2>5. ~At(c, "header")' /\ ~At(c, "verify")' /\ ~At(c, "send")'
    BY <2>1 DEF At
  <2> QED
    BY <2>4, <2>5 DEF Copied
<1>8. CASE CopyData(c)
  <2>1. /\ sender'[c].item = sender[c].item /\ sender'[c].since = sender[c].since
        /\ sender'[c].pc = "verify" /\ sender'[c].ts = sender[c].ts
        /\ sender'[c].data = SlotOf(c).data /\ sender[c].pc = "data"
    BY <1>2, <1>8 DEF CopyData, Copies, At
  <2>2. /\ SlotOf(c)' = SlotOf(c) /\ Named(c)' = Named(c) /\ Struck(c)' = Struck(c)
        /\ Due(c)' = Due(c) /\ sender[c].item.seq \in 1 .. written
    BY <1>4, <2>1 DEF Busy, At
  <2>3. Named(c) => /\ sender[c].ts >= sender[c].since - MaxAge
                    /\ sender[c].ts = Due(c) \/ (Struck(c) /\ sender[c].ts = audio.ts)
    BY <2>1 DEF Copied
  <2>4. Named(c) => \/ SlotOf(c).data = Due(c)
                    \/ Struck(c) /\ SlotOf(c).data = audio.ts
    <3>1. CASE audio.pc = "data" /\ writePos = sender[c].item.slot
      BY <1>2, <2>2, <3>1 DEF Numbered, Named, SlotOf, Due
    <3>2. CASE ~(audio.pc = "data" /\ writePos = sender[c].item.slot)
      <4>1. SlotOf(c).data = SlotOf(c).ts
        BY <1>2, <3>2 DEF CheckInv, SlotsWhole, SlotOf
      <4>2. Named(c) /\ Struck(c) => SlotOf(c).ts = audio.ts
        BY <1>0, <2>2, StruckLater
      <4> QED
        BY <1>5, <2>2, <4>1, <4>2
    <3> QED
      BY <3>1, <3>2
  <2>5. Named(c)' => /\ sender'[c].ts >= sender'[c].since - MaxAge
                     /\ sender'[c].ts = Due(c)' \/ (Struck(c)' /\ sender'[c].ts = audio'.ts)
                     /\ \/ sender'[c].data = Due(c)'
                        \/ Struck(c)' /\ sender'[c].data = audio'.ts
    BY <1>1, <2>1, <2>2, <2>3, <2>4
  <2>6. ~At(c, "header")' /\ ~At(c, "send")'
    BY <2>1 DEF At
  <2> QED
    BY <2>5, <2>6 DEF Copied
<1>9. CASE Verify(c)
  <2>1. CASE Named(c)
    <3>1. sender' = [sender EXCEPT ![c].pc = "send"] /\ sender[c].pc = "verify"
      BY <1>9, <2>1 DEF Verify, Goto, At, Named
    <3>2. /\ sender'[c].item = sender[c].item /\ sender'[c].since = sender[c].since
          /\ sender'[c].pc = "send" /\ sender'[c].ts = sender[c].ts
          /\ sender'[c].data = sender[c].data
      BY <1>2, <3>1 DEF Copies
    <3>3. Due(c)' = Due(c) /\ Due(c) \in Nat /\ sender[c].item.seq \in 1 .. written
      BY <1>4, <3>1, <3>2 DEF Busy, At
    <3>4. /\ sender[c].ts >= sender[c].since - MaxAge
          /\ sender[c].ts = Due(c) \/ (Struck(c) /\ sender[c].ts = audio.ts)
          /\ \/ sender[c].data = Due(c)
             \/ Struck(c) /\ sender[c].data = audio.ts
      BY <2>1, <3>1 DEF Copied, At
    <3>5. Struck(c) => audio.ts \in Due(c) + PoolSize .. audio.ts /\ Due(c) # audio.ts
      BY <1>0, <1>1, <2>1, <3>3, StruckLater
    <3>6. Sendable(Due(c), sender[c].ts, sender[c].data, sender[c].since - MaxAge)
      BY <3>4, <3>5 DEF Sendable
    <3>7. Sendable(Due(c), sender[c].ts, sender[c].data, sender[c].since - MaxAge)'
      <4>1. audio'.ts = audio.ts
        BY <1>1
      <4> HIDE DEF Due
      <4>2. Sendable(Due(c), sender[c].ts, sender[c].data, sender[c].since - MaxAge)'
              <=> Sendable(Due(c), sender[c].ts, sender[c].data, sender[c].since - MaxAge)
        BY <3>2, <3>3, <4>1 DEF Sendable
      <4> QED
        BY <3>6, <4>2
    <3>8. ~At(c, "header")' /\ ~At(c, "data")' /\ ~At(c, "verify")'
      BY <3>2 DEF At
    <3> QED
      BY <3>2, <3>7, <3>8 DEF Copied, At
  <2>2. CASE ~Named(c)
    <3>1. sender'[c].pc = "idle"
      BY <1>2, <1>9, <2>2 DEF Verify, Finish, Named
    <3> QED
      BY <1>3, <3>1
  <2> QED
    BY <2>1, <2>2
<1>10. CASE SendDone(c) \/ SendFailed(c)
  <2>1. sender'[c].pc = "idle"
    BY <1>2, <1>10 DEF SendDone, SendFailed, Finish
  <2> QED
    BY <1>3, <2>1
<1>11. CASE SendBusy(c)
  <2>1. sender'[c].pc = "wanted"
    BY <1>2, <1>11 DEF SendBusy, Goto
  <2> QED
    BY <1>3, <2>1
<1>12. CASE StillWanted(c)
  <2>1. sender'[c].pc \in {"idle", "age"}
    BY <1>2, <1>12 DEF StillWanted, Finish, Copies
  <2> QED
    BY <1>3, <2>1
<1> QED
  BY <1>6, <1>7, <1>8, <1>9, <1>10, <1>11, <1>12 DEF Sender

\* Dequeue: nothing is copied yet.
LEMMA DequeueCopied ==
    ASSUME TypeOK, NEW c \in Clients, Dequeue(c)
    PROVE  Copied(c)'
<1>1. sender'[c].pc \in {"idle", "age"}
  BY DEF Dequeue, TypeOK, Idle
<1> QED
  BY <1>1 DEF Copied, At

\* Every step of every task keeps the stream.
LEMMA StreamStep == CheckInv /\ FanInv /\ StreamInv /\ [Next]_vars => StreamInv'
<1> SUFFICES ASSUME CheckInv, FanInv, StreamInv, [Next]_vars, NEW d \in Clients
             PROVE  Copied(d)'
  BY NumberedStep DEF StreamInv, FanInv
<1>0. Copied(d) /\ Numbered /\ TypeOK /\ PoolInv /\ sender \in [Clients -> Copies]
  BY DEF StreamInv, CheckInv, FanInv, TypeOK
<1>1. CASE Collect
  BY <1>0, <1>1, CollectCopied
<1>2. CASE FillHeader \/ FillData \/ Publish
  BY <1>0, <1>2, FillCopied
<1>3. ASSUME NEW c \in Clients, Post(c) \/ QueueFull(c) \/ Evict(c) PROVE Copied(d)'
  <2>1. /\ UNCHANGED <<pool, writePos>> /\ audio'.ts = audio.ts /\ ~Filling /\ ~Filling'
    BY <1>0, <1>3, PostingRow
  <2>2. sender' = sender \/ (sender[c].pc = "idle" /\ sender' = [sender EXCEPT ![c].since = now])
    BY <1>3 DEF Post, QueueFull, Evict, Wake
  <2>3. sender'[d] = sender[d] \/ sender'[d].pc = "idle"
    BY <1>0, <2>2 DEF Copies
  <2> QED
    BY <1>0, <2>1, <2>3, OtherCopied
<1>4. CASE UNCHANGED <<pool, writePos, audio>> /\ sender'[d] = sender[d]
  BY <1>0, <1>4, OtherCopied
<1>5. CASE Tick \/ (\E c \in Clients : Connection(c)) \/ UNCHANGED vars
  <2>1. UNCHANGED <<pool, writePos, audio, sender>>
    BY <1>5 DEF Tick, Connection, Accept, ResetQueue, BecomeReady, Close, vars
  <2> QED
    BY <1>4, <2>1
<1>6. ASSUME NEW c \in Clients, Sender(c) PROVE Copied(d)'
  <2>1. CASE c = d
    BY <1>0, <1>6, <2>1, DequeueCopied, WorkingCopied
  <2>2. CASE c # d /\ Dequeue(c)
    <3>1. UNCHANGED <<pool, writePos, audio>> /\ sender'[d] = sender[d]
      BY <1>0, <2>2 DEF Dequeue
    <3> QED
      BY <1>4, <3>1
  <2>3. CASE c # d /\ ~Dequeue(c)
    <3>1. UNCHANGED <<pool, writePos, audio>> /\ sender'[d] = sender[d]
      BY <1>0, <1>6, <2>3, SenderRow
    <3> QED
      BY <1>4, <3>1
  <2> QED
    BY <2>1, <2>2, <2>3
<1> QED
  BY <1>1, <1>2, <1>3, <1>5, <1>6 DEF Next, Audio

\* However long a sender is held up: numbers follow capture times, and what it
\* has checked is the chunk its reference names, in time, or a mix with the one
\* a whole pool later that is being written over it (send_wire_chunk).
THEOREM StreamInvariant == Spec => []StreamInv
<1>1. Init => StreamInv
  BY StreamInit
<1>2. CheckInv /\ FanInv /\ StreamInv /\ [Next]_vars => StreamInv'
  BY StreamStep
<1> QED
  BY <1>1, <1>2, CheckInvariant, FanInvariant, PTL DEF Spec

-----------------------------------------------------------------------------
(* The fan-out implements LiveStream *)

LEMMA StreamInitMaps == Init => Stream!Init
BY DEF Init, Nothing, CaptureOf, Stream!Init, Stream!Silence

\* What each listener has heard, in LiveStream's terms.
Heard == [c \in Clients |-> [ts |-> sent[c].ts, data |-> sent[c].data,
                             of |-> CaptureOf(sent[c].seq)]]

\* A step that sends nothing leaves what was heard as it is.
LEMMA HeardStays ==
    ASSUME CheckInv, FanInv, Numbered, [Next]_vars, sent' = sent
    PROVE  Heard' = Heard
<1> SUFFICES ASSUME NEW c \in Clients PROVE CaptureOf(sent[c].seq)' = CaptureOf(sent[c].seq)
  BY DEF Heard
<1>1. sent[c].seq = 0 \/ sent[c].seq \in 1 .. written
  BY NumbersIssued, CaptureTypes DEF CheckInv, FanInv
<1>2. sent'[c].seq = sent[c].seq
  OBVIOUS
<1> QED
  BY <1>1, <1>2, CapturesStay DEF CaptureOf

\* A chunk is sent: the next of the stream, or a mix with a later one.
LEMMA SendMaps ==
    ASSUME CheckInv, FanInv, StreamInv, NEW c \in Clients, SendDone(c)
    PROVE  Stream!Next
<1> DEFINE t == Due(c)
           h == sender[c].ts
           d == sender[c].data
<1>0. /\ TypeOK /\ Numbered /\ Copied(c) /\ ClientInv(c) /\ sent \in [Clients -> Sendings]
      /\ [Next]_vars
  BY DEF CheckInv, StreamInv, FanInv, TypeOK, Next, Sender
<1>1. /\ UNCHANGED <<now, audio, captured>> /\ sender[c].pc = "send"
      /\ sent' = [sent EXCEPT ![c] = [seq |-> sender[c].item.seq, ts |-> h, data |-> d,
                                      session |-> sender[c].item.session]]
  BY DEF SendDone, At
<1>2. /\ sender[c].item.seq \in 1 .. written /\ sent[c].seq \in Nat /\ sent[c].seq <= written
      /\ sent[c].seq < sender[c].item.seq
  BY <1>0, <1>1, NumbersIssued DEF Busy, At
<1>3. /\ now \in Nat /\ audio.ts \in Nat /\ sender[c].since \in Nat /\ written \in Nat
      /\ MaxAge \in Nat /\ MaxStall \in Nat /\ PoolSize \in Nat \ {0} /\ t \in Nat
      /\ now - sender[c].since <= MaxStall
  <2>1. now - sender[c].since <= MaxStall
    BY <1>0, <1>1 DEF ClientInv, OnTime, Busy, At
  <2> QED
    BY <1>0, <1>2, <2>1, RowTypes, CaptureTypes DEF Due
<1>4. Sendable(t, h, d, sender[c].since - MaxAge)
  BY <1>0, <1>1 DEF Copied, At
<1>5. now - h <= MaxAge + MaxStall
  <2>1. h \in Nat /\ h >= sender[c].since - MaxAge
    BY <1>0, <1>4 DEF Sendable, TypeOK, Copies
  <2> QED
    BY <1>3, <2>1
<1>6. t <= audio.ts /\ CaptureOf(sent[c].seq) \in Nat /\ CaptureOf(sent[c].seq) < t
  <2>1. t >= 1 /\ audio.ts - t >= Captured - sender[c].item.seq
    BY <1>0, <1>2 DEF Numbered, Due
  <2>2. Captured \in Nat /\ Captured >= written
    BY <1>3 DEF Captured
  <2>3. t <= audio.ts
    BY <1>2, <1>3, <2>1, <2>2
  <2>4. CASE sent[c].seq = 0
    BY <1>3, <2>1, <2>3, <2>4 DEF CaptureOf
  <2>5. CASE sent[c].seq # 0
    <3>1. sent[c].seq \in 1 .. written
      BY <1>2, <1>3, <2>5
    <3>2. captured[sent[c].seq] < t /\ captured[sent[c].seq] \in Nat
      BY <1>0, <1>2, <3>1, CaptureTypes DEF Numbered, Due
    <3> QED
      BY <2>3, <2>5, <3>2 DEF CaptureOf
  <2> QED
    BY <2>4, <2>5
<1>7. Heard' = [Heard EXCEPT ![c] = [ts |-> h, data |-> d, of |-> t]]
  <2> SUFFICES ASSUME NEW e \in Clients
               PROVE  Heard'[e] = IF e = c THEN [ts |-> h, data |-> d, of |-> t] ELSE Heard[e]
    BY DEF Heard
  <2>1. CASE e = c
    <3>1. sent'[c] = [seq |-> sender[c].item.seq, ts |-> h, data |-> d,
                      session |-> sender[c].item.session]
      BY <1>0, <1>1
    <3>2. sent'[c].seq = sender[c].item.seq /\ sent'[c].seq # 0
      BY <1>2, <1>3, <3>1
    <3>3. CaptureOf(sent[c].seq)' = t
      BY <1>1, <3>2 DEF CaptureOf, Due
    <3>4. Heard'[e] = [ts |-> sent'[c].ts, data |-> sent'[c].data, of |-> CaptureOf(sent[c].seq)']
      BY <2>1 DEF Heard
    <3> QED
      BY <2>1, <3>1, <3>3, <3>4
  <2>2. CASE e # c
    BY <1>0, <1>1, <2>2 DEF Heard, CaptureOf
  <2> QED
    BY <2>1, <2>2
<1>8. Heard[c].of = CaptureOf(sent[c].seq)
  BY DEF Heard
<1>9. t \in Heard[c].of + 1 .. audio.ts
  BY <1>3, <1>6, <1>8
<1> HIDE DEF t, h, d
<1>10. CASE h = t /\ d = t
  <2>1. \A s : s = t => Stream!Deliver(c, s)
    BY <1>1, <1>5, <1>7, <1>10 DEF Stream!Deliver, Heard
  <2>2. \E s \in Heard[c].of + 1 .. audio.ts : Stream!Deliver(c, s)
    BY <1>9, <2>1
  <2> QED
    BY <2>2 DEF Stream!Next, Heard
<1>11. CASE ~(h = t /\ d = t)
  <2>1. PICK u \in t + PoolSize .. audio.ts : h \in {t, u} /\ d \in {t, u}
    BY <1>4, <1>11 DEF Sendable
  <2>2. u \in t .. audio.ts /\ t + PoolSize <= u
    BY <1>3, <2>1
  <2>3. Stream!Tear(c, t, u)
    BY <1>1, <1>5, <1>7, <2>1, <2>2 DEF Stream!Tear, Heard
  <2>4. \E s \in Heard[c].of + 1 .. audio.ts : \E v \in s .. audio.ts : Stream!Tear(c, s, v)
    BY <1>9, <2>2, <2>3
  <2> QED
    BY <2>4 DEF Stream!Next, Heard
<1> QED
  BY <1>10, <1>11

\* Time passes, a frame is captured, a slot is taken by a new connection or a
\* chunk is sent; nothing else is seen of the fan-out from outside.
LEMMA StreamStepMaps ==
    CheckInv /\ FanInv /\ StreamInv /\ [Next]_vars => [Stream!Next]_(Stream!streamVars)
<1> SUFFICES ASSUME CheckInv, FanInv, StreamInv, [Next]_vars
             PROVE  [Stream!Next]_(Stream!streamVars)
  OBVIOUS
<1>0. TypeOK /\ PoolInv /\ Numbered
  BY DEF CheckInv, FanInv, StreamInv
<1>1. CASE now' = now /\ audio'.ts = audio.ts /\ sent' = sent
  <2>1. Heard' = Heard
    BY <1>0, <1>1, HeardStays
  <2> QED
    BY <1>1, <2>1 DEF Stream!streamVars, Heard
<1>2. CASE Tick
  <2>1. Heard' = Heard
    BY <1>0, <1>2, HeardStays DEF Tick
  <2> QED
    BY <1>2, <2>1 DEF Tick, Stream!Next, Stream!Pass, Heard
<1>3. CASE Collect
  <2>1. audio.ts < now /\ audio'.ts = now /\ now' = now /\ sent' = sent
    BY <1>0, <1>3 DEF Collect, TypeOK, AudioStates
  <2>2. Heard' = Heard
    BY <1>0, <2>1, HeardStays
  <2> QED
    BY <2>1, <2>2 DEF Stream!Next, Stream!Capture, Heard
<1>4. ASSUME NEW c \in Clients, Accept(c) PROVE Stream!Next
  <2>1. /\ UNCHANGED <<now, audio, captured>>
        /\ sent' = [sent EXCEPT ![c] = Nothing] /\ sent \in [Clients -> Sendings]
    BY <1>0, <1>4 DEF Accept, TypeOK
  <2>2. Heard' = [Heard EXCEPT ![c] = [ts |-> 0, data |-> 0, of |-> 0]]
    BY <2>1 DEF Nothing, Heard, CaptureOf
  <2>3. Stream!Reconnect(c)
    BY <2>1, <2>2 DEF Stream!Reconnect, Stream!Silence, Heard
  <2> QED
    BY <2>3 DEF Stream!Next
<1>5. ASSUME NEW c \in Clients, SendDone(c) PROVE Stream!Next
  BY <1>5, SendMaps
<1>6. CASE Audio /\ ~Collect
  <2>1. CASE FillHeader \/ FillData \/ Publish
    <3>1. now' = now /\ audio'.ts = audio.ts /\ sent' = sent
      BY <1>0, <2>1 DEF FillHeader, FillData, Publish, TypeOK, AudioStates
    <3> QED
      BY <1>1, <3>1
  <2>2. ASSUME NEW c \in Clients, Post(c) \/ QueueFull(c) \/ Evict(c)
        PROVE  now' = now /\ audio'.ts = audio.ts /\ sent' = sent
    BY <1>0, <2>2, PostingRow
  <2> QED
    BY <1>1, <1>6, <2>1, <2>2 DEF Audio
<1>7. ASSUME NEW c \in Clients, Connection(c), ~Accept(c)
      PROVE  now' = now /\ audio'.ts = audio.ts /\ sent' = sent
  BY <1>7 DEF Connection, ResetQueue, BecomeReady, Close
<1>8. ASSUME NEW c \in Clients, Sender(c), ~SendDone(c)
      PROVE  now' = now /\ audio'.ts = audio.ts /\ sent' = sent
  BY <1>8 DEF Sender, Dequeue, CheckAge, CopyHeader, CopyData, Verify, SendBusy, SendFailed,
              StillWanted
<1>9. CASE UNCHANGED vars
  BY <1>1, <1>9 DEF vars
<1> QED
  BY <1>1, <1>2, <1>3, <1>4, <1>5, <1>6, <1>7, <1>8, <1>9 DEF Next

\* For every number of slots and listeners, queue depth, age limit and length
\* of stalls: what the listeners hear of the fan-out is a LiveStream, in order,
\* none twice, each chunk whole and in time or mixed with one a whole pool
\* later, through evictions, retries, refills and reconnections (audio_task,
\* sender_task).
THEOREM ImplementsLiveStream == Spec => IsLiveStream
<1>1. Init => Stream!Init
  BY StreamInitMaps
<1>2. CheckInv /\ FanInv /\ StreamInv /\ [Next]_vars => [Stream!Next]_(Stream!streamVars)
  BY StreamStepMaps
<1> QED
  BY <1>1, <1>2, CheckInvariant, FanInvariant, StreamInvariant, PTL
     DEF Spec, IsLiveStream, Stream!Spec

-----------------------------------------------------------------------------
(* What a connection finds of the one before it in its slot                  *)

Stale(c, k) == queue[c][k].session # conn[c].session

\* audio_task is to post client c a reference for a connection that is gone.
Overtaken(c) == c \in audio.todo /\ audio.session[c] # conn[c].session

\* At most one stale reference waits, and none as long as one is to come.
StaleOnce(c) ==
    conn[c].state \in {"handshake", "ready"} =>
        /\ \A i, j \in 1 .. Len(queue[c]) : Stale(c, i) /\ Stale(c, j) => i = j
        /\ Overtaken(c) => \A k \in 1 .. Len(queue[c]) : ~Stale(c, k)

\* What leaves the turn and the connection alone, and the queue or its front.
LEMMA KeepsStale ==
    ASSUME NEW c \in Clients, StaleOnce(c), TypeOK, TypeOK',
           Overtaken(c)' => Overtaken(c), conn'[c].session = conn[c].session,
           conn'[c].state \in {"handshake", "ready"} => conn[c].state \in {"handshake", "ready"},
           NEW n \in Nat, Len(queue'[c]) = Len(queue[c]) - n,
           \A k \in 1 .. Len(queue'[c]) : queue'[c][k] = queue[c][k + n]
    PROVE  StaleOnce(c)'
<1>1. Len(queue[c]) \in Nat /\ Len(queue'[c]) \in Nat
  BY ItemFields DEF TypeOK
<1>2. \A k \in 1 .. Len(queue'[c]) : k + n \in 1 .. Len(queue[c]) /\ (Stale(c, k)' => Stale(c, k + n))
  <2> TAKE k \in 1 .. Len(queue'[c])
  <2>1. k + n \in 1 .. Len(queue[c])
    BY <1>1
  <2>2. queue'[c][k] = queue[c][k + n]
    OBVIOUS
  <2>3. Stale(c, k)' <=> queue'[c][k].session # conn'[c].session
    BY DEF Stale
  <2> QED
    BY <2>1, <2>2, <2>3 DEF Stale
<1>3. \A i, j \in 1 .. Len(queue'[c]) : i + n = j + n => i = j
  BY <1>1
<1> SUFFICES ASSUME conn'[c].state \in {"handshake", "ready"}
             PROVE  /\ \A i, j \in 1 .. Len(queue'[c]) : Stale(c, i)' /\ Stale(c, j)' => i = j
                    /\ Overtaken(c)' => \A k \in 1 .. Len(queue'[c]) : ~Stale(c, k)'
  BY DEF StaleOnce
<1>4. /\ \A i, j \in 1 .. Len(queue[c]) : Stale(c, i) /\ Stale(c, j) => i = j
      /\ Overtaken(c) => \A k \in 1 .. Len(queue[c]) : ~Stale(c, k)
  BY DEF StaleOnce
<1> QED
  BY <1>2, <1>3, <1>4

\* What leaves queue, turn and connection alone.
LEMMA KeepsQueue ==
    ASSUME NEW c \in Clients, StaleOnce(c), TypeOK, TypeOK', UNCHANGED <<queue[c], conn[c]>>,
           Overtaken(c)' => Overtaken(c)
    PROVE  StaleOnce(c)'
<1>1. Len(queue[c]) \in Nat
  BY ItemFields DEF TypeOK
<1>2. Len(queue'[c]) = Len(queue[c]) - 0 /\ \A k \in 1 .. Len(queue'[c]) : queue'[c][k] = queue[c][k + 0]
  BY <1>1
<1> QED
  BY <1>2, KeepsStale

LEMMA StaleConnection ==
    ASSUME TypeOK, TypeOK', NEW d \in Clients, Connection(d), NEW c \in Clients, StaleOnce(c)
    PROVE  StaleOnce(c)'
<1>0. conn \in [Clients -> ConnStates] /\ queue \in [Clients -> Seq(Items)] /\ audio' = audio
  BY DEF TypeOK, Connection, Accept, ResetQueue, BecomeReady, Close
<1>1. CASE c # d
  <2>1. UNCHANGED <<queue[c], conn[c]>>
    BY <1>0, <1>1 DEF Connection, Accept, ResetQueue, BecomeReady, Close
  <2> QED
    BY <1>0, <2>1, KeepsQueue DEF Overtaken
<1>2. CASE c = d
  <2>1. CASE Accept(d) \/ Close(d)
    <3>1. conn'[c].state \notin {"handshake", "ready"}
      BY <1>0, <1>2, <2>1 DEF Accept, Close, ConnStates
    <3> QED
      BY <3>1 DEF StaleOnce
  <2>2. CASE ResetQueue(d)
    <3>1. queue'[c] = <<>>
      BY <1>0, <1>2, <2>2 DEF ResetQueue
    <3>2. 1 .. Len(queue'[c]) = {}
      BY <3>1
    <3> QED
      BY <3>2 DEF StaleOnce
  <2>3. CASE BecomeReady(d)
    <3>1. /\ conn'[c].session = conn[c].session /\ conn[c].state = "handshake"
          /\ queue' = queue
      BY <1>0, <1>2, <2>3 DEF BecomeReady, ConnStates
    <3>2. Len(queue[c]) \in Nat
      BY <1>0, ItemFields
    <3>3. Len(queue'[c]) = Len(queue[c]) - 0 /\ \A k \in 1 .. Len(queue'[c]) : queue'[c][k] = queue[c][k + 0]
      BY <3>1, <3>2
    <3> QED
      BY <1>0, <3>1, <3>3, KeepsStale DEF Overtaken
  <2> QED
    BY <2>1, <2>2, <2>3 DEF Connection
<1> QED
  BY <1>1, <1>2

LEMMA StaleCollect ==
    ASSUME TypeOK, TypeOK', Collect \/ FillHeader \/ FillData \/ Publish, NEW c \in Clients, StaleOnce(c)
    PROVE  StaleOnce(c)'
<1>1. UNCHANGED <<queue, conn>>
  BY DEF Collect, FillHeader, FillData, Publish
<1>2. Overtaken(c)' => Overtaken(c)
  <2>1. CASE Collect
    <3>1. /\ audio'.todo = {e \in Clients : Ready(e)}
          /\ audio'.session = [e \in Clients |-> IF Ready(e) THEN conn[e].session ELSE 0]
      BY <2>1 DEF Collect
    <3> QED
      BY <1>1, <3>1 DEF Overtaken
  <2>2. CASE FillHeader \/ FillData \/ Publish
    <3>1. audio'.todo = audio.todo /\ audio'.session = audio.session
      BY <2>2 DEF FillHeader, FillData, Publish, TypeOK, AudioStates
    <3> QED
      BY <1>1, <3>1 DEF Overtaken
  <2> QED
    BY <2>1, <2>2
<1> QED
  BY <1>1, <1>2, KeepsQueue

LEMMA StalePosting ==
    ASSUME TypeOK, TypeOK', PoolInv, NEW d \in Clients, Post(d) \/ QueueFull(d) \/ Evict(d),
           Len(queue[d]) <= QueueDepth, NEW c \in Clients, StaleOnce(c)
    PROVE  StaleOnce(c)'
<1>0. audio \in AudioStates /\ queue \in [Clients -> Seq(Items)] /\ conn' = conn /\ d \in audio.todo
  BY PostingRow DEF TypeOK
<1>1. CASE QueueFull(d)
  <2>1. queue' = queue /\ audio'.todo = audio.todo /\ audio'.session = audio.session
    BY <1>0, <1>1 DEF QueueFull, AudioStates
  <2> QED
    BY <1>0, <2>1, KeepsQueue DEF Overtaken
<1>2. CASE Post(d) \/ Evict(d)
  <2>1. /\ audio'.todo = audio.todo \ {d}
        /\ \A e \in Clients : e # d => audio'.session[e] = audio.session[e]
    <3>1. audio' = DonePosting(d)
      BY <1>2 DEF Post, Evict
    <3>2. audio.session \in [Clients -> Nat]
      BY <1>0 DEF AudioStates
    <3>3. audio'.todo = audio.todo \ {d} /\ audio'.session = [audio.session EXCEPT ![d] = 0]
      BY <1>0, <3>1 DEF DonePosting, AudioStates
    <3> QED
      BY <3>2, <3>3
  <2>2. CASE c # d
    <3>1. queue'[c] = queue[c]
      BY <1>2, <2>2, PostedRow
    <3> QED
      BY <1>0, <2>1, <2>2, <3>1, KeepsQueue DEF Overtaken
  <2>3. CASE c = d
    <3>0. Len(queue[c]) \in Nat /\ Len(queue'[c]) \in Nat
      BY ItemFields DEF TypeOK
    <3>1. PICK n \in {0, 1} :
            /\ n <= Len(queue[c]) /\ Len(queue'[c]) = Len(queue[c]) - n + 1
            /\ \A k \in 1 .. Len(queue[c]) - n : queue'[c][k] = queue[c][k + n]
            /\ queue'[c][Len(queue'[c])] = Reference(c)
      <4>1. Post(c) \/ Evict(c)
        BY <1>2, <2>3
      <4>2. Len(queue[c]) <= QueueDepth
        BY <2>3
      <4> HIDE DEF Reference
      <4>3. \E n \in {0, 1} :
              /\ n <= Len(queue[c]) /\ Len(queue'[c]) = Len(queue[c]) - n + 1
              /\ Len(queue'[c]) <= QueueDepth
              /\ \A k \in 1 .. Len(queue[c]) - n : queue'[c][k] = queue[c][k + n]
              /\ queue'[c][Len(queue'[c])] = Reference(c)
        BY <4>1, <4>2, PostedRow
      <4> QED
        BY <4>3
    <3>2. ~Overtaken(c)'
      BY <2>1, <2>3 DEF Overtaken
    <3>3. \A k \in 1 .. Len(queue'[c]) :
            \/ k = Len(queue'[c])
            \/ k + n \in 1 .. Len(queue[c]) /\ (Stale(c, k)' => Stale(c, k + n))
      BY <1>0, <3>0, <3>1 DEF Stale
    <3>4. \A k \in Nat : k = Len(queue'[c]) /\ Stale(c, k)' => Overtaken(c)
      <4>1. Reference(c).session = audio.session[c]
        BY DEF Reference
      <4>2. conn'[c].session = conn[c].session /\ c \in audio.todo
        BY <1>0, <2>3
      <4> HIDE DEF Reference
      <4> SUFFICES ASSUME NEW k \in Nat, k = Len(queue'[c]), queue'[c][k].session # conn'[c].session
                   PROVE  audio.session[c] # conn[c].session
        BY <4>2 DEF Stale, Overtaken
      <4>3. queue'[c][k] = Reference(c)
        BY <3>1
      <4> QED
        BY <4>1, <4>2, <4>3
    <3>5. \A i, j \in 1 .. Len(queue'[c]) : i + n = j + n => i = j
      BY <3>0, <3>1
    <3>6. SUFFICES ASSUME conn[c].state \in {"handshake", "ready"},
                          NEW i \in 1 .. Len(queue'[c]), NEW j \in 1 .. Len(queue'[c]),
                          Stale(c, i)', Stale(c, j)'
                   PROVE  i = j
      BY <1>0, <3>2 DEF StaleOnce
    <3>7. /\ \A h, k \in 1 .. Len(queue[c]) : Stale(c, h) /\ Stale(c, k) => h = k
          /\ Overtaken(c) => \A k \in 1 .. Len(queue[c]) : ~Stale(c, k)
      BY <3>6 DEF StaleOnce
    <3>8. CASE Overtaken(c)
      BY <3>3, <3>6, <3>7, <3>8
    <3>9. CASE ~Overtaken(c)
      <4>1. i # Len(queue'[c]) /\ j # Len(queue'[c])
        BY <3>0, <3>4, <3>6, <3>9
      <4>2. /\ i + n \in 1 .. Len(queue[c]) /\ Stale(c, i + n)
            /\ j + n \in 1 .. Len(queue[c]) /\ Stale(c, j + n)
        BY <3>3, <3>6, <4>1
      <4> QED
        BY <3>5, <3>7, <4>2
    <3> QED
      BY <3>8, <3>9
  <2> QED
    BY <2>2, <2>3
<1> QED
  BY <1>1, <1>2

LEMMA StaleSender ==
    ASSUME TypeOK, TypeOK', NEW d \in Clients, Sender(d), NEW c \in Clients, StaleOnce(c)
    PROVE  StaleOnce(c)'
<1>0. conn \in [Clients -> ConnStates] /\ queue \in [Clients -> Seq(Items)]
  BY DEF TypeOK
<1>1. CASE Dequeue(d)
  <2>1. UNCHANGED <<conn, audio>>
    BY <1>1 DEF Dequeue
  <2>2. CASE c # d
    <3>1. queue'[c] = queue[c]
      BY <1>0, <1>1, <2>2 DEF Dequeue
    <3> QED
      BY <2>1, <3>1, KeepsQueue DEF Overtaken
  <2>3. CASE c = d
    <3>1. queue[c] # <<>> /\ queue'[c] = Tail(queue[c])
      BY <1>0, <1>1, <2>3 DEF Dequeue
    <3>2. Len(queue'[c]) = Len(queue[c]) - 1 /\ \A k \in 1 .. Len(queue'[c]) : queue'[c][k] = queue[c][k + 1]
      BY <1>0, <3>1, TailOfItems
    <3> QED
      BY <2>1, <3>2, KeepsStale DEF Overtaken
  <2> QED
    BY <2>2, <2>3
<1>2. CASE ~Dequeue(d)
  <2>1. /\ UNCHANGED <<audio, queue>>
        /\ c # d => conn'[c] = conn[c]
        /\ conn'[d] = conn[d] \/ conn'[d].state = "failed"
    BY <1>2, SenderRow
  <2>2. CASE conn'[c] = conn[c]
    BY <2>1, <2>2, KeepsQueue DEF Overtaken
  <2>3. CASE conn'[c].state = "failed"
    BY <2>3 DEF StaleOnce
  <2> QED
    BY <2>1, <2>2, <2>3
<1> QED
  BY <1>1, <1>2

LEMMA StaleStep ==
    ASSUME CheckInv, CheckInv', FanInv, [Next]_vars, \A c \in Clients : StaleOnce(c)
    PROVE  \A c \in Clients : StaleOnce(c)'
<1>0. TypeOK /\ TypeOK' /\ PoolInv /\ \A d \in Clients : Len(queue[d]) <= QueueDepth
  BY DEF CheckInv, FanInv, ClientInv, InOrder
<1> TAKE c \in Clients
<1>1. CASE Tick \/ UNCHANGED vars
  <2>1. UNCHANGED <<queue, conn, audio>>
    BY <1>1 DEF Tick, vars
  <2> QED
    BY <1>0, <2>1, KeepsQueue DEF Overtaken
<1>2. CASE Audio
  BY <1>0, <1>2, StaleCollect, StalePosting DEF Audio
<1>3. ASSUME NEW d \in Clients, Connection(d) \/ Sender(d) PROVE StaleOnce(c)'
  BY <1>0, <1>3, StaleConnection, StaleSender
<1> QED
  BY <1>1, <1>2, <1>3 DEF Next

\* Whatever the sizes, a new connection finds at most one reference of an
\* earlier one in its queue: the one audio_task was about to post when the
\* queue was reset (server_task, audio_task).
THEOREM FewStaleHolds == Spec => []FewStale
<1>1. Init => \A c \in Clients : StaleOnce(c)
  BY DEF Init, StaleOnce
<1>2. CheckInv /\ CheckInv' /\ FanInv /\ (\A c \in Clients : StaleOnce(c)) /\ [Next]_vars
        => (\A c \in Clients : StaleOnce(c))'
  BY StaleStep
<1>3. (\A c \in Clients : StaleOnce(c)) => FewStale
  BY DEF FewStale, StaleOnce, Stale
<1> QED
  BY <1>1, <1>2, <1>3, CheckInvariant, FanInvariant, PTL DEF Spec

=============================================================================
