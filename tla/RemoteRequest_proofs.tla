------------------------ MODULE RemoteRequest_proofs ------------------------
(***************************************************************************)
(* Proofs about remote requests for any number of callers, client slots    *)
(* and clients: a successful call returns the answer of the client it      *)
(* asked to the request it made.                                           *)
(***************************************************************************)
EXTENDS RemoteRequest, SequenceTheorems, TLAPS

\* The bounds are numbers, and nobody is called "free".
LEMMA Bounds ==
    /\ MaxAsk \in Nat /\ MaxConn \in Nat /\ LastId \in Nat \ {0} /\ MaxAsk <= LastId
    /\ NoSlot \notin Slots /\ "free" \notin Callers
BY RemoteAssumption, NoWrap

\* Taking the first answer off a slot's inbox leaves the others.
LEMMA RestOfInbox ==
    ASSUME NEW q \in Seq(Messages), q # <<>>
    PROVE  /\ Head(q) \in Messages /\ Head(q) = q[1] /\ 1 \in 1 .. Len(q)
           /\ Tail(q) \in Seq(Messages)
           /\ \A k \in 1 .. Len(Tail(q)) : k + 1 \in 1 .. Len(q) /\ Tail(q)[k] = q[k + 1]
BY HeadTailProperties, EmptySeq, SMTT(20)

\* An answer put into an inbox is the last of it.
LEMMA MoreInInbox ==
    ASSUME NEW q \in Seq(Messages), NEW m \in Messages
    PROVE  /\ Append(q, m) \in Seq(Messages)
           /\ \A k \in 1 .. Len(Append(q, m)) :
                 Append(q, m)[k] = m \/ (k \in 1 .. Len(q) /\ Append(q, m)[k] = q[k])
BY AppendProperties, LenProperties, SMTT(20)

\* A call that goes on to another place, perhaps with a result, is a call.
LEMMA CallGoesOn ==
    ASSUME call \in [Callers -> Calls], NEW r \in Callers,
           NEW pc \in {"idle", "drain", "find", "send", "wait", "collect"}
    PROVE  /\ [call EXCEPT ![r].pc = pc] \in [Callers -> Calls]
           /\ \A result \in Results :
                 [call EXCEPT ![r].pc = pc, ![r].result = result] \in [Callers -> Calls]
<1>1. call[r] \in Calls
  OBVIOUS
<1>2. [call[r] EXCEPT !.pc = pc] \in Calls
  BY <1>1 DEF Calls
<1>3. ASSUME NEW result \in Results
      PROVE  [call EXCEPT ![r].pc = pc, ![r].result = result] \in [Callers -> Calls]
  <2> DEFINE c == [call[r] EXCEPT !.pc = pc, !.result = result]
  <2>1. c \in Calls
    BY <1>1 DEF Calls
  <2>2. [call EXCEPT ![r].pc = pc, ![r].result = result] = [call EXCEPT ![r] = c]
    OBVIOUS
  <2> HIDE DEF c
  <2> QED
    BY <2>1, <2>2
<1>4. [call EXCEPT ![r].pc = pc] \in [Callers -> Calls]
  BY <1>2
<1> QED
  BY <1>3, <1>4

-----------------------------------------------------------------------------
\* The initial state is well-typed.
LEMMA TypeInit == Init => TypeOK
<1> SUFFICES ASSUME Init PROVE TypeOK
  OBVIOUS
<1>1. <<>> \in Seq(Messages)
  BY EmptySeq
<1> QED
  BY <1>1, Bounds DEF Init, TypeOK, Vacant, Occupants, IdleRemote, Records, None, Answers, Calls,
     Results, Names

\* Every step keeps the state well-typed.
LEMMA TypeStep == AnswerInv /\ [Next]_vars => TypeOK'
<1> SUFFICES ASSUME AnswerInv, [Next]_vars PROVE TypeOK'
  OBVIOUS
<1>t. TypeOK
  BY DEF AnswerInv
<1>r. {"none", "ok", "not_found", "fail", "timeout", "invalid_state"} \subseteq Results
  BY DEF Results
<1>0. <<>> \in Seq(Messages)
  BY EmptySeq
<1>1. ASSUME NEW s \in Slots, Slot(s) PROVE TypeOK'
  <2>1. ASSUME NEW c \in Clients, Connect(s, c) PROVE TypeOK'
    BY Bounds, <1>t, <1>0, <2>1 DEF Connect, TypeOK, Occupants, Names
  <2>2. CASE BecomeReady(s)
    BY <1>t, <2>2, ZenonT(40) DEF BecomeReady, TypeOK, Occupants
  <2>3. CASE ClientAnswers(s)
    <3>1. PICK g \in got : inbox' = [inbox EXCEPT ![s] = Append(@, [id |-> g.id, req |-> g.req,
                                                                    by |-> g.client])]
      BY <2>3 DEF ClientAnswers
    <3>2. [id |-> g.id, req |-> g.req, by |-> g.client] \in Messages
      BY <1>t DEF TypeOK, Requests, Messages
    <3>3. inbox' \in [Slots -> Seq(Messages)]
      BY <1>t, <3>1, <3>2, MoreInInbox DEF TypeOK
    <3> QED
      BY <1>t, <2>3, <3>3 DEF ClientAnswers, TypeOK
  <2>4. CASE TakeAnswer(s)
    <3>1. inbox[s] \in Seq(Messages) /\ inbox[s] # <<>>
      BY <1>t, <2>4 DEF TakeAnswer, TypeOK
    <3>2. Head(inbox[s]) \in Messages /\ inbox' \in [Slots -> Seq(Messages)]
      BY <1>t, <2>4, <3>1, RestOfInbox DEF TakeAnswer, TypeOK
    <3>3. [req |-> Head(inbox[s]).req, by |-> Head(inbox[s]).by] \in Answers
      BY <3>2 DEF Messages, Answers
    <3>4. remote' \in Records
      BY <1>t, <2>4, <3>3 DEF TakeAnswer, TypeOK, Records
    <3>5. occ' \in [Slots -> Occupants]
      <4>1. occ' = occ \/ occ' = [occ EXCEPT ![s].pc = "give"]
        BY <2>4 DEF TakeAnswer
      <4> QED
        BY <1>t, <4>1, ZenonT(40) DEF TypeOK, Occupants
    <3> QED
      BY <1>t, <2>4, <3>2, <3>4, <3>5 DEF TakeAnswer, TypeOK
  <2>5. CASE Give(s)
    <3>1. occ' \in [Slots -> Occupants]
      BY <1>t, <2>5, ZenonT(40) DEF Give, TypeOK, Occupants
    <3> QED
      BY <1>t, <2>5, <3>1 DEF Give, TypeOK
  <2>6. CASE CloseLock(s)
    <3>1. remote' \in Records
      BY <1>t, <2>6 DEF CloseLock, TypeOK, Records
    <3>2. occ' \in [Slots -> Occupants]
      BY <1>t, <2>6, SMTT(30) DEF CloseLock, TypeOK, Occupants
    <3> QED
      BY <1>t, <2>6, <3>1, <3>2 DEF CloseLock, TypeOK
  <2>7. CASE CloseDone(s)
    BY Bounds, <1>t, <1>0, <2>7 DEF CloseDone, TypeOK, Occupants, Vacant, Names
  <2> QED
    BY <1>1, <2>1, <2>2, <2>3, <2>4, <2>5, <2>6, <2>7 DEF Slot
<1>2. ASSUME NEW r \in Callers, Caller(r) PROVE TypeOK'
  <2>1. ASSUME NEW c \in Clients, Enter(r, c) PROVE TypeOK'
    BY Bounds, <1>t, <2>1 DEF Enter, TypeOK, Calls, Results, Names, None, Answers
  <2>2. CASE Drain(r)
    <3>1. call' \in [Callers -> Calls]
      BY <1>t, <2>2, CallGoesOn DEF Drain, TypeOK
    <3> QED
      BY <1>t, <2>2, <3>1 DEF Drain, TypeOK
  <2>3. CASE Find(r)
    <3>1. NextId \in 0 .. LastId
      BY Bounds, <1>t DEF NextId, TypeOK
    <3>2. None \in Answers
      BY Bounds DEF None, Answers, Names
    <3>3. CASE \E s \in Slots : remote' = [slot |-> s, id |-> NextId, answer |-> None,
                                          failed |-> FALSE]
                                /\ nextId' = NextId /\ UNCHANGED holder
                                /\ call' = [call EXCEPT ![r].pc = "send", ![r].slot = s]
      <4>1. remote' \in Records /\ nextId' \in 0 .. LastId
        BY Bounds, <1>t, <3>1, <3>2, <3>3 DEF Records
      <4>2. PICK s \in Slots : call' = [call EXCEPT ![r].pc = "send", ![r].slot = s]
        BY <3>3
      <4>3. call' \in [Callers -> Calls]
        BY <1>t, <4>2, ZenonT(40) DEF TypeOK, Calls
      <4> QED
        BY <1>t, <2>3, <3>3, <4>1, <4>3 DEF Find, TypeOK
    <3>4. CASE call' = [call EXCEPT ![r].pc = "idle", ![r].result = "not_found"]
               /\ holder' = "free" /\ UNCHANGED <<nextId, remote>>
      <4>1. call' \in [Callers -> Calls]
        BY <1>t, <1>r, <3>4, CallGoesOn DEF TypeOK
      <4> QED
        BY <1>t, <2>3, <3>4, <4>1 DEF Find, TypeOK
    <3> QED
      BY <2>3, <3>3, <3>4 DEF Find
  <2>4. CASE SendRequest(r)
    <3>1. call[r].slot \in Slots
      BY <1>t, <2>4 DEF SendRequest, AnswerInv, Alone, Asking, RecordOwned
    <3>2. occ[call[r].slot] \in Occupants /\ call[r] \in Calls /\ remote \in Records
      BY <1>t, <3>1 DEF TypeOK
    <3>3. [req |-> call[r].req, id |-> remote.id, conn |-> occ[call[r].slot].conn,
           client |-> occ[call[r].slot].client] \in Requests
      BY <3>2 DEF Calls, Records, Occupants, Requests
    <3>4. got' \subseteq Requests
      BY <1>t, <2>4, <3>3 DEF SendRequest, TypeOK
    <3>5. call' \in [Callers -> Calls]
      BY <1>t, <2>4, CallGoesOn DEF SendRequest, TypeOK
    <3> QED
      BY <1>t, <2>4, <3>4, <3>5 DEF SendRequest, TypeOK
  <2>5. CASE SendFails(r)
    <3>1. call' \in [Callers -> Calls]
      BY <1>t, <1>r, <2>5, CallGoesOn DEF SendFails, TypeOK
    <3> QED
      BY <1>t, <2>5, <3>1 DEF SendFails, TypeOK
  <2>6. CASE Wake(r)
    <3>1. call' \in [Callers -> Calls]
      BY <1>t, <1>r, <2>6, CallGoesOn DEF Wake, TypeOK
    <3> QED
      BY <1>t, <2>6, <3>1 DEF Wake, TypeOK
  <2>7. CASE Expire(r)
    <3>1. call' \in [Callers -> Calls]
      BY <1>t, <1>r, <2>7, CallGoesOn DEF Expire, TypeOK
    <3> QED
      BY <1>t, <2>7, <3>1 DEF Expire, TypeOK
  <2>8. CASE Collect(r)
    <3>1. None \in Answers
      BY Bounds DEF None, Answers, Names
    <3>2. remote' \in Records
      BY <1>t, <2>8, <3>1 DEF Collect, TypeOK, Records, IdleRemote
    <3>3. remote.answer \in Answers
      BY <1>t DEF TypeOK, Records
    <3>4. call' \in [Callers -> Calls]
      <4> DEFINE bad == remote.failed \/ remote.answer = None
                 res == IF call[r].result = "ok" /\ bad THEN "invalid_state" ELSE call[r].result
                 ans == IF call[r].result = "ok" THEN remote.answer ELSE None
                 now == [call[r] EXCEPT !.pc = "idle", !.result = res, !.answer = ans]
      <4>1. call \in [Callers -> Calls] /\ call[r] \in Calls
        BY <1>t DEF TypeOK
      <4>2. call' = [call EXCEPT ![r] = now]
        BY <2>8, <4>1 DEF Collect, Calls
      <4>3. res \in Results /\ ans \in Answers
        BY <1>r, <3>1, <3>3, <4>1 DEF Calls
      <4> HIDE DEF res, ans
      <4>4. now \in Calls
        BY <4>1, <4>3 DEF Calls
      <4> QED
        BY <4>1, <4>2, <4>4
    <3> QED
      BY <1>t, <2>8, <3>2, <3>4 DEF Collect, TypeOK
  <2> QED
    BY <1>2, <2>1, <2>2, <2>3, <2>4, <2>5, <2>6, <2>7, <2>8 DEF Caller
<1>3. CASE UNCHANGED vars
  BY <1>t, <1>3 DEF vars, TypeOK
<1> QED
  BY <1>1, <1>2, <1>3 DEF Next

-----------------------------------------------------------------------------
(* What a step of a slot, and of a caller, may touch *)

\* Whatever lies in an inbox after a step of a slot lay there before or is the
\* answer to a request some client had got.
LEMMA InboxFrame ==
    ASSUME AnswerInv, NEW s \in Slots, Slot(s),
           NEW t \in Slots, NEW i \in 1 .. Len(inbox'[t])
    PROVE  \/ \E j \in 1 .. Len(inbox[t]) : inbox'[t][i] = inbox[t][j]
           \/ \E g \in got : inbox'[t][i] = [id |-> g.id, req |-> g.req, by |-> g.client]
<1>1. inbox \in [Slots -> Seq(Messages)] /\ got \subseteq Requests
  BY DEF AnswerInv, TypeOK
<1>2. CASE UNCHANGED inbox \/ inbox' = [inbox EXCEPT ![s] = <<>>]
  <2>1. inbox'[t] = inbox[t] \/ inbox'[t] = <<>>
    BY <1>1, <1>2
  <2>2. inbox'[t] = inbox[t]
    BY <2>1, EmptySeq
  <2> QED
    BY <2>2
<1>3. CASE ClientAnswers(s)
  <2>1. PICK g \in got : inbox' = [inbox EXCEPT ![s] = Append(@, [id |-> g.id, req |-> g.req,
                                                                  by |-> g.client])]
    BY <1>3 DEF ClientAnswers
  <2>2. [id |-> g.id, req |-> g.req, by |-> g.client] \in Messages
    BY <1>1 DEF Requests, Messages
  <2>3. CASE t = s
    <3>1. inbox'[t] = Append(inbox[t], [id |-> g.id, req |-> g.req, by |-> g.client])
      BY <1>1, <2>1, <2>3
    <3> QED
      BY <1>1, <2>2, <3>1, MoreInInbox
  <2>4. CASE t # s
    BY <1>1, <2>1, <2>4
  <2> QED
    BY <2>3, <2>4
<1>4. CASE TakeAnswer(s)
  <2>1. inbox[s] # <<>> /\ inbox' = [inbox EXCEPT ![s] = Tail(@)]
    BY <1>4 DEF TakeAnswer
  <2>2. CASE t = s
    <3>1. inbox'[t] = Tail(inbox[t]) /\ inbox[t] \in Seq(Messages) /\ inbox[t] # <<>>
      BY <1>1, <2>1, <2>2
    <3>2. i + 1 \in 1 .. Len(inbox[t]) /\ Tail(inbox[t])[i] = inbox[t][i + 1]
      BY <3>1, RestOfInbox
    <3>3. inbox'[t][i] = inbox[t][i + 1]
      BY <3>1, <3>2
    <3> QED
      BY <3>2, <3>3
  <2>3. CASE t # s
    BY <1>1, <2>1, <2>3
  <2> QED
    BY <2>2, <2>3
<1> QED
  BY <1>2, <1>3, <1>4 DEF Slot, Connect, BecomeReady, Give, CloseLock, CloseDone

\* A step of a slot leaves the callers and the ids alone, takes requests away at
\* most, and changes the record in one of two ways: an answer with its id is
\* stored, or the connection it waits on is reported lost.
LEMMA SlotFrame ==
    ASSUME AnswerInv, NEW s \in Slots, Slot(s)
    PROVE  /\ UNCHANGED <<asked, holder, nextId, call>>
           /\ got' \subseteq got
           /\ \/ UNCHANGED remote
              \/ /\ remote.slot = s /\ ~remote.failed /\ inbox[s] # <<>>
                 /\ remote.id = Head(inbox[s]).id
                 /\ remote' = [remote EXCEPT !.answer = [req |-> Head(inbox[s]).req,
                                                         by |-> Head(inbox[s]).by]]
              \/ remote.slot = s /\ remote.answer = None /\ remote' = [remote EXCEPT !.failed = TRUE]
<1>1. CASE \E c \in Clients : Connect(s, c)
  BY <1>1 DEF Connect
<1>2. CASE BecomeReady(s)
  BY <1>2 DEF BecomeReady
<1>3. CASE ClientAnswers(s)
  BY <1>3 DEF ClientAnswers
<1>4. CASE TakeAnswer(s)
  BY <1>4 DEF TakeAnswer
<1>5. CASE Give(s)
  BY <1>5 DEF Give
<1>6. CASE CloseLock(s)
  BY <1>6 DEF CloseLock
<1>7. CASE CloseDone(s)
  BY <1>7 DEF CloseDone
<1> QED
  BY <1>1, <1>2, <1>3, <1>4, <1>5, <1>6, <1>7 DEF Slot

\* A caller in the middle of a request holds the mutex; nobody else is.
LEMMA OnlyHolder ==
    ASSUME AnswerInv, NEW r \in Callers, Caller(r)
    PROVE  /\ UNCHANGED <<conns, occ, inbox>>
           /\ call \in [Callers -> Calls]
           /\ \A q \in Callers \ {r} : call'[q] = call[q] /\ call[q].pc = "idle"
           /\ holder = r \/ (holder = "free" /\ \E c \in Clients : Enter(r, c))
<1>1. call \in [Callers -> Calls]
  BY DEF AnswerInv, TypeOK
<1>2. UNCHANGED <<conns, occ, inbox>>
  BY DEF Caller, Enter, Drain, Find, SendRequest, SendFails, Wake, Expire, Collect
<1>3. holder = r \/ (holder = "free" /\ \E c \in Clients : Enter(r, c))
  BY DEF Caller, Enter, Drain, Find, SendRequest, SendFails, Wake, Expire, Collect,
         AnswerInv, Alone
<1>4. ASSUME NEW q \in Callers \ {r} PROVE call'[q] = call[q]
  BY <1>1, <1>4 DEF Caller, Enter, Drain, Find, SendRequest, SendFails, Wake, Expire, Collect
<1>5. ASSUME NEW q \in Callers \ {r} PROVE call[q].pc = "idle"
  BY <1>3, <1>5, Bounds DEF AnswerInv, Alone
<1> QED
  BY <1>1, <1>2, <1>3, <1>4, <1>5

\* A step of a caller is one of eight, of which the holder of the mutex takes all
\* but the first.
LEMMA CallerStep ==
    ASSUME AnswerInv, NEW r \in Callers, Caller(r)
    PROVE  \/ \E c \in Clients : Enter(r, c)
           \/ holder = r /\ (\/ Drain(r) \/ Find(r) \/ SendRequest(r) \/ SendFails(r)
                             \/ Wake(r) \/ Expire(r) \/ Collect(r))
BY OnlyHolder DEF Caller, Drain, Find, SendRequest, SendFails, Wake, Expire, Collect, AnswerInv, Alone

\* Between its search and its collection a request keeps its name, target and
\* slot, and the record and the ids stay as they are.
LEMMA AskingOn ==
    ASSUME AnswerInv, NEW r \in Callers, holder = r,
           SendRequest(r) \/ SendFails(r) \/ Wake(r) \/ Expire(r)
    PROVE  /\ UNCHANGED <<asked, holder, remote, nextId, conns, occ, inbox>>
           /\ Asking /\ Asking'
           /\ call'[r].pc \in {"wait", "collect"}
           /\ call'[r].req = call[r].req /\ call'[r].target = call[r].target
           /\ call'[r].slot = call[r].slot
<1>1. call \in [Callers -> Calls]
  BY DEF AnswerInv, TypeOK
<1>2. CASE SendRequest(r)
  BY <1>1, <1>2 DEF SendRequest, Asking, Calls
<1>3. CASE SendFails(r)
  BY <1>1, <1>3 DEF SendFails, Asking, Calls
<1>4. CASE Wake(r)
  BY <1>1, <1>4 DEF Wake, Asking, Calls
<1>5. CASE Expire(r)
  BY <1>1, <1>5 DEF Expire, Asking, Calls
<1> QED
  BY <1>2, <1>3, <1>4, <1>5

-----------------------------------------------------------------------------
(* Every part of the invariant is preserved *)

\* Nobody else starts while a request is going on.
LEMMA AloneStep == AnswerInv /\ [Next]_vars => Alone'
<1> SUFFICES ASSUME AnswerInv, [Next]_vars PROVE Alone'
  OBVIOUS
<1>t. call \in [Callers -> Calls] /\ Alone
  BY DEF AnswerInv, TypeOK
<1>1. ASSUME NEW s \in Slots, Slot(s) PROVE Alone'
  BY <1>t, <1>1, SlotFrame DEF Alone
<1>2. ASSUME NEW r \in Callers, Caller(r) PROVE Alone'
  <2>1. \A q \in Callers \ {r} : call'[q].pc = "idle"
    BY <1>2, OnlyHolder
  <2>2. call'[r].pc = "idle" \/ holder' = r
    <3>1. CASE \E c \in Clients : Enter(r, c)
      BY <3>1 DEF Enter
    <3>2. CASE holder = r /\ Drain(r)
      BY <3>2 DEF Drain
    <3>3. CASE holder = r /\ Find(r)
      BY <1>t, <3>3 DEF Find, Calls
    <3>4. CASE holder = r /\ (SendRequest(r) \/ SendFails(r) \/ Wake(r) \/ Expire(r))
      BY <3>4, AskingOn
    <3>5. CASE Collect(r)
      BY <1>t, <3>5 DEF Collect, Calls
    <3> QED
      BY <1>2, <3>1, <3>2, <3>3, <3>4, <3>5, CallerStep
  <2> QED
    BY <2>1, <2>2 DEF Alone
<1>3. CASE UNCHANGED vars
  BY <1>t, <1>3 DEF vars, Alone
<1> QED
  BY <1>1, <1>2, <1>3 DEF Next

\* The record stays the holder's, and is empty again when the mutex is free.
LEMMA RecordStep == AnswerInv /\ [Next]_vars => RecordOwned'
<1> SUFFICES ASSUME AnswerInv, [Next]_vars PROVE RecordOwned'
  OBVIOUS
<1>t. call \in [Callers -> Calls] /\ remote \in Records /\ RecordOwned
  BY DEF AnswerInv, TypeOK
<1>1. ASSUME NEW s \in Slots, Slot(s) PROVE RecordOwned'
  <2>1. UNCHANGED <<holder, nextId, call>> /\ (Asking' <=> Asking)
    BY <1>1, SlotFrame DEF Asking
  <2>2. CASE Asking
    <3>1. remote'.slot = remote.slot /\ remote'.id = remote.id
      BY <1>t, <1>1, SlotFrame DEF Records
    <3> QED
      BY <1>t, <2>1, <2>2, <3>1 DEF RecordOwned
  <2>3. CASE ~Asking
    <3>1. remote.slot = NoSlot
      BY <1>t, <2>3 DEF RecordOwned, IdleRemote
    <3>2. UNCHANGED remote
      BY <1>1, <3>1, SlotFrame, Bounds
    <3> QED
      BY <1>t, <2>1, <2>3, <3>2 DEF RecordOwned
  <2> QED
    BY <2>2, <2>3
<1>2. ASSUME NEW r \in Callers, Caller(r) PROVE RecordOwned'
  <2>1. CASE \E c \in Clients : Enter(r, c)
    <3>1. ~Asking /\ ~Asking' /\ UNCHANGED remote
      BY <1>t, <2>1, Bounds DEF Enter, Asking
    <3> QED
      BY <1>t, <3>1 DEF RecordOwned
  <2>2. CASE holder = r /\ Drain(r)
    <3>1. ~Asking /\ ~Asking' /\ UNCHANGED remote
      BY <1>t, <2>2 DEF Drain, Asking, Calls
    <3> QED
      BY <1>t, <3>1 DEF RecordOwned
  <2>3. CASE holder = r /\ Find(r)
    <3>1. CASE UNCHANGED remote /\ holder' = "free"
      <4>1. ~Asking /\ ~Asking'
        BY <2>3, <3>1, Bounds DEF Find, Asking
      <4> QED
        BY <1>t, <3>1, <4>1 DEF RecordOwned
    <3>2. ASSUME NEW s \in Slots, nextId' = NextId, holder' = holder,
                 remote' = [slot |-> s, id |-> NextId, answer |-> None, failed |-> FALSE],
                 call' = [call EXCEPT ![r].pc = "send", ![r].slot = s]
          PROVE  RecordOwned'
      <4>1. call'[r].pc = "send" /\ call'[r].slot = s
        BY <1>t, <3>2 DEF Calls
      <4>2. Asking'
        BY <2>3, <3>2, <4>1 DEF Asking
      <4> QED
        BY <2>3, <3>2, <4>1, <4>2 DEF RecordOwned
    <3> QED
      BY <2>3, <3>1, <3>2 DEF Find
  <2>4. CASE holder = r /\ (SendRequest(r) \/ SendFails(r) \/ Wake(r) \/ Expire(r))
    BY <1>t, <2>4, AskingOn DEF RecordOwned
  <2>5. CASE Collect(r)
    <3>1. ~Asking'
      BY <2>5, Bounds DEF Collect, Asking
    <3>2. remote' = [IdleRemote EXCEPT !.id = remote'.id]
      BY <2>5 DEF Collect, IdleRemote
    <3> QED
      BY <3>1, <3>2 DEF RecordOwned
  <2> QED
    BY <1>2, <2>1, <2>2, <2>3, <2>4, <2>5, CallerStep
<1>3. CASE UNCHANGED vars
  BY <1>t, <1>3 DEF vars, RecordOwned, Asking
<1> QED
  BY <1>1, <1>2, <1>3 DEF Next

\* Ids stay issued in order: a search takes the next one.
LEMMA IdsStep == AnswerInv /\ [Next]_vars => IdsIssued'
<1> SUFFICES ASSUME AnswerInv, [Next]_vars PROVE IdsIssued'
  OBVIOUS
<1>t. /\ call \in [Callers -> Calls] /\ inbox \in [Slots -> Seq(Messages)] /\ IdsIssued
      /\ asked \in 0 .. MaxAsk /\ nextId \in 0 .. LastId /\ got \subseteq Requests
  BY DEF AnswerInv, TypeOK
<1>i. ASSUME UNCHANGED inbox, nextId' \in Int, nextId <= nextId'
      PROVE  \A t \in Slots : \A i \in 1 .. Len(inbox'[t]) : inbox'[t][i].id <= nextId'
  <2>1. \A t \in Slots : \A i \in 1 .. Len(inbox[t]) : inbox[t][i].id \in 0 .. LastId
    <3> SUFFICES ASSUME NEW t \in Slots, NEW i \in 1 .. Len(inbox[t])
                 PROVE  inbox[t][i].id \in 0 .. LastId
      OBVIOUS
    <3>1. inbox[t] \in Seq(Messages)
      BY <1>t
    <3>2. inbox[t][i] \in Messages
      BY <3>1, ElementOfSeq
    <3> QED
      BY <3>2 DEF Messages
  <2> QED
    BY <1>t, <1>i, <2>1, Bounds DEF IdsIssued
<1>1. ASSUME NEW s \in Slots, Slot(s) PROVE IdsIssued'
  <2>1. UNCHANGED <<asked, holder, nextId, call>> /\ got' \subseteq got
    BY <1>1, SlotFrame
  <2>2. ASSUME NEW t \in Slots, NEW i \in 1 .. Len(inbox'[t]) PROVE inbox'[t][i].id <= nextId
    <3>1. \/ \E j \in 1 .. Len(inbox[t]) : inbox'[t][i] = inbox[t][j]
          \/ \E g \in got : inbox'[t][i] = [id |-> g.id, req |-> g.req, by |-> g.client]
      BY <1>1, <2>2, InboxFrame
    <3>2. CASE \E j \in 1 .. Len(inbox[t]) : inbox'[t][i] = inbox[t][j]
      BY <1>t, <3>2 DEF IdsIssued
    <3>3. CASE \E g \in got : inbox'[t][i] = [id |-> g.id, req |-> g.req, by |-> g.client]
      BY <1>t, <3>3 DEF IdsIssued
    <3> QED
      BY <3>1, <3>2, <3>3
  <2> QED
    BY <1>t, <2>1, <2>2 DEF IdsIssued
<1>2. ASSUME NEW r \in Callers, Caller(r) PROVE IdsIssued'
  <2>1. CASE \E c \in Clients : Enter(r, c)
    BY <1>t, <1>i, <2>1, Bounds DEF Enter, IdsIssued
  <2>2. CASE holder = r /\ Drain(r)
    BY <1>t, <1>i, <2>2, Bounds DEF Drain, IdsIssued
  <2>3. CASE holder = r /\ Find(r)
    <3>1. CASE holder' = "free" /\ UNCHANGED nextId
      BY <1>t, <1>i, <2>3, <3>1, Bounds DEF Find, IdsIssued
    <3>2. ASSUME NEW s \in Slots, nextId' = NextId, holder' = holder,
                 call' = [call EXCEPT ![r].pc = "send", ![r].slot = s]
          PROVE  IdsIssued'
      <4>1. nextId < asked /\ UNCHANGED <<asked, got, inbox>> /\ call'[r].pc = "send"
        BY <1>t, <2>3, <3>2 DEF Find, IdsIssued, Calls
      <4>2. nextId' = nextId + 1
        BY <1>t, <3>2, <4>1, Bounds DEF NextId
      <4>3. \A g \in got : g.id \in 0 .. LastId
        BY <1>t DEF Requests
      <4>4. \A g \in got' : g.id <= nextId'
        BY <1>t, <4>1, <4>2, <4>3, Bounds DEF IdsIssued
      <4> QED
        BY <1>t, <1>i, <2>3, <3>2, <4>1, <4>2, <4>4, Bounds DEF IdsIssued
    <3> QED
      BY <2>3, <3>1, <3>2 DEF Find
  <2>4. CASE holder = r /\ (SendRequest(r) \/ SendFails(r) \/ Wake(r) \/ Expire(r))
    <3>1. got' \subseteq got \/ \E g : g.id = remote.id /\ got' = got \cup {g}
      <4>1. CASE SendRequest(r)
        BY <4>1 DEF SendRequest
      <4> QED
        BY <2>4, <4>1 DEF SendFails, Wake, Expire
    <3>2. remote.id = nextId
      BY <2>4, AskingOn DEF AnswerInv, RecordOwned
    <3>3. \A g \in got' : g.id <= nextId
      BY <1>t, <3>1, <3>2 DEF IdsIssued
    <3> QED
      BY <1>t, <1>i, <2>4, <3>3, AskingOn DEF IdsIssued
  <2>5. CASE Collect(r)
    BY <1>t, <1>i, <2>5, Bounds DEF Collect, IdsIssued
  <2> QED
    BY <1>2, <2>1, <2>2, <2>3, <2>4, <2>5, CallerStep
<1>3. CASE UNCHANGED vars
  BY <1>t, <1>3 DEF vars, IdsIssued
<1> QED
  BY <1>1, <1>2, <1>3 DEF Next

\* A client is ready only while its connection holds the slot.
LEMMA SeatedStep == AnswerInv /\ [Next]_vars => Seated'
<1> SUFFICES ASSUME AnswerInv, [Next]_vars PROVE Seated'
  OBVIOUS
<1>t. occ \in [Slots -> Occupants] /\ Seated /\ conns \in 0 .. MaxConn
  BY DEF AnswerInv, TypeOK
<1>1. ASSUME NEW s \in Slots, Slot(s) PROVE Seated'
  <2>1. ASSUME NEW c \in Clients, Connect(s, c) PROVE Seated'
    BY <1>t, <2>1, Bounds DEF Connect, Seated
  <2>2. CASE BecomeReady(s)
    BY <1>t, <2>2 DEF BecomeReady, Seated, Occupants
  <2>3. CASE ClientAnswers(s)
    BY <1>t, <2>3 DEF ClientAnswers, Seated
  <2>4. CASE TakeAnswer(s)
    <3>1. occ[s].pc = "loop" /\ (occ' = occ \/ occ' = [occ EXCEPT ![s].pc = "give"])
      BY <2>4 DEF TakeAnswer
    <3> QED
      BY <1>t, <3>1 DEF Seated, Occupants
  <2>5. CASE Give(s)
    BY <1>t, <2>5 DEF Give, Seated, Occupants
  <2>6. CASE CloseLock(s)
    BY <1>t, <2>6 DEF CloseLock, Seated, Occupants
  <2>7. CASE CloseDone(s)
    BY <1>t, <2>7 DEF CloseDone, Seated, Vacant
  <2> QED
    BY <1>1, <2>1, <2>2, <2>3, <2>4, <2>5, <2>6, <2>7 DEF Slot
<1>2. ASSUME NEW r \in Callers, Caller(r) PROVE Seated'
  BY <1>t, <1>2, OnlyHolder DEF Seated
<1>3. CASE UNCHANGED vars
  BY <1>t, <1>3 DEF vars, Seated
<1> QED
  BY <1>1, <1>2, <1>3 DEF Next

\* A search takes an id that no request a client has got and no answer on its way
\* carries.
LEMMA FreshId ==
    ASSUME AnswerInv, NEW r \in Callers, holder = r, Find(r), nextId' = NextId
    PROVE  /\ UNCHANGED <<got, inbox>>
           /\ \A g \in got : g.id # nextId'
           /\ \A t \in Slots : \A i \in 1 .. Len(inbox[t]) : inbox[t][i].id # nextId'
<1>1. nextId \in 0 .. LastId /\ asked \in 0 .. MaxAsk /\ got \subseteq Requests
  BY DEF AnswerInv, TypeOK
<1>2. nextId < asked
  BY DEF Find, AnswerInv, IdsIssued
<1>3. nextId' = nextId + 1
  BY <1>1, <1>2, Bounds DEF NextId
<1>4. ~(nextId + 1 <= nextId)
  BY <1>1, Bounds
<1>5. UNCHANGED <<got, inbox>>
  BY DEF Find
<1>6. \A g \in got : g.id <= nextId
  BY DEF AnswerInv, IdsIssued
<1>7. \A t \in Slots : \A i \in 1 .. Len(inbox[t]) : inbox[t][i].id <= nextId
  BY DEF AnswerInv, IdsIssued
<1> QED
  BY <1>3, <1>4, <1>5, <1>6, <1>7

\* A client that is ready stays so until its connection is closed.
LEMMA SuitsOn ==
    ASSUME AnswerInv, NEW s \in Slots, Slot(s), NEW x \in Slots, NEW c, Suits(x, c)
    PROVE  Suits(x, c)' \/ (x = s /\ CloseLock(s))
<1>t. occ \in [Slots -> Occupants] /\ Seated
  BY DEF AnswerInv, TypeOK
<1>r. occ[x].ready /\ c \in Ours /\ occ[x].client = c /\ occ[x].pc \in {"loop", "give"}
  BY <1>t DEF Suits, Seated
<1>1. ASSUME NEW d \in Clients, Connect(s, d) PROVE Suits(x, c)'
  <2>1. x # s
    BY <1>t, <1>r, <1>1 DEF Connect, Seated
  <2> QED
    BY <1>t, <1>r, <1>1, <2>1 DEF Connect, Suits
<1>2. CASE BecomeReady(s)
  BY <1>t, <1>r, <1>2 DEF BecomeReady, Suits, Occupants
<1>3. CASE ClientAnswers(s)
  BY <1>r, <1>3 DEF ClientAnswers, Suits
<1>4. CASE TakeAnswer(s)
  <2>1. occ' = occ \/ occ' = [occ EXCEPT ![s].pc = "give"]
    BY <1>4 DEF TakeAnswer
  <2> QED
    BY <1>t, <1>r, <2>1 DEF Suits, Occupants
<1>5. CASE Give(s)
  BY <1>t, <1>r, <1>5 DEF Give, Suits, Occupants
<1>6. CASE CloseLock(s)
  BY <1>t, <1>r, <1>6 DEF CloseLock, Suits, Occupants
<1>7. CASE CloseDone(s)
  BY <1>t, <1>r, <1>7 DEF CloseDone, Suits
<1> QED
  BY <1>1, <1>2, <1>3, <1>4, <1>5, <1>6, <1>7 DEF Slot

\* The head of the inbox is one of its answers.
LEMMA HeadInInbox ==
    ASSUME AnswerInv, NEW s \in Slots, inbox[s] # <<>>
    PROVE  \E i \in 1 .. Len(inbox[s]) : Head(inbox[s]) = inbox[s][i]
<1>1. inbox[s] \in Seq(Messages)
  BY DEF AnswerInv, TypeOK
<1> QED
  BY <1>1, RestOfInbox

\* Until the request is sent nothing carries its id, and a lost client is known.
LEMMA NotSentStep == AnswerInv /\ [Next]_vars => NotSentYet'
<1> SUFFICES ASSUME AnswerInv, [Next]_vars PROVE NotSentYet'
  OBVIOUS
<1>t. call \in [Callers -> Calls] /\ remote \in Records /\ NotSentYet /\ RecordOwned
  BY DEF AnswerInv, TypeOK
<1>1. ASSUME NEW s \in Slots, Slot(s) PROVE NotSentYet'
  <2>1. UNCHANGED <<holder, nextId, call>> /\ got' \subseteq got /\ (Asking' <=> Asking)
    BY <1>1, SlotFrame DEF Asking
  <2> SUFFICES ASSUME Asking, call[holder].pc = "send"
               PROVE  /\ remote'.answer = None
                      /\ \A g \in got' : g.id # nextId
                      /\ \A t \in Slots : \A i \in 1 .. Len(inbox'[t]) : inbox'[t][i].id # nextId
                      /\ remote'.failed \/ Suits(remote.slot, call[holder].target)'
    <3>1. remote'.slot = remote.slot
      BY <1>t, <1>1, SlotFrame DEF Records
    <3> QED
      BY <2>1, <3>1 DEF NotSentYet, Suits
  <2>2. /\ remote.answer = None /\ remote.slot \in Slots /\ remote.id = nextId
        /\ \A g \in got : g.id # nextId
        /\ \A t \in Slots : \A i \in 1 .. Len(inbox[t]) : inbox[t][i].id # nextId
        /\ remote.failed \/ Suits(remote.slot, call[holder].target)
    BY <1>t DEF NotSentYet, RecordOwned
  <2>3. UNCHANGED remote
        \/ (remote.slot = s /\ remote.answer = None /\ remote' = [remote EXCEPT !.failed = TRUE])
    <3>1. ~(inbox[s] # <<>> /\ remote.id = Head(inbox[s]).id)
      BY <2>2, HeadInInbox
    <3> QED
      BY <1>1, <3>1, SlotFrame
  <2>4. remote'.answer = None
    BY <1>t, <2>2, <2>3 DEF Records
  <2>5. \A g \in got' : g.id # nextId
    BY <2>1, <2>2
  <2>6. ASSUME NEW t \in Slots, NEW i \in 1 .. Len(inbox'[t]) PROVE inbox'[t][i].id # nextId
    <3>1. \/ \E j \in 1 .. Len(inbox[t]) : inbox'[t][i] = inbox[t][j]
          \/ \E g \in got : inbox'[t][i] = [id |-> g.id, req |-> g.req, by |-> g.client]
      BY <1>1, <2>6, InboxFrame
    <3>2. CASE \E j \in 1 .. Len(inbox[t]) : inbox'[t][i] = inbox[t][j]
      BY <2>2, <3>2
    <3>3. CASE \E g \in got : inbox'[t][i] = [id |-> g.id, req |-> g.req, by |-> g.client]
      BY <2>2, <3>3
    <3> QED
      BY <3>1, <3>2, <3>3
  <2>7. remote'.failed \/ Suits(remote.slot, call[holder].target)'
    <3>1. remote.failed => remote'.failed
      BY <1>t, <2>3 DEF Records
    <3>2. ASSUME ~remote.failed, remote.slot = s, CloseLock(s) PROVE remote'.failed
      BY <1>t, <2>2, <3>2 DEF CloseLock, Records
    <3>3. ASSUME Suits(remote.slot, call[holder].target), ~(remote.slot = s /\ CloseLock(s))
          PROVE  occ'[remote.slot].ready /\ call[holder].target \in Ours
                 /\ occ'[remote.slot].client = call[holder].target
      BY <1>1, <2>2, <3>3, SuitsOn DEF Suits
    <3>4. remote'.failed \/ remote'.slot = remote.slot
      BY <1>t, <2>3 DEF Records
    <3> QED
      BY <2>1, <2>2, <3>1, <3>2, <3>3, <3>4 DEF Suits
  <2> QED
    BY <2>4, <2>5, <2>6, <2>7
<1>2. ASSUME NEW r \in Callers, Caller(r) PROVE NotSentYet'
  <2>1. CASE \E c \in Clients : Enter(r, c)
    BY <1>t, <2>1 DEF Enter, NotSentYet, Asking
  <2>2. CASE holder = r /\ Drain(r)
    BY <1>t, <2>2 DEF Drain, NotSentYet, Asking, Calls
  <2>3. CASE holder = r /\ Find(r)
    <3>1. CASE holder' = "free"
      BY <3>1, Bounds DEF NotSentYet, Asking
    <3>2. ASSUME NEW s \in Slots, Suits(s, call[r].target), nextId' = NextId, holder' = holder,
                 remote' = [slot |-> s, id |-> NextId, answer |-> None, failed |-> FALSE],
                 call' = [call EXCEPT ![r].pc = "send", ![r].slot = s]
          PROVE  NotSentYet'
      <4>0. UNCHANGED occ
        BY <2>3 DEF Find
      <4>1. call'[r].target = call[r].target
        BY <1>t, <3>2 DEF Calls
      <4>2. Suits(remote.slot, call[holder].target)'
        BY <2>3, <3>2, <4>0, <4>1 DEF Suits
      <4> QED
        BY <2>3, <3>2, <4>2, FreshId DEF NotSentYet
    <3> QED
      BY <2>3, <3>1, <3>2 DEF Find
  <2>4. CASE holder = r /\ (SendRequest(r) \/ SendFails(r) \/ Wake(r) \/ Expire(r))
    BY <2>4, AskingOn DEF NotSentYet
  <2>5. CASE Collect(r)
    BY <2>5, Bounds DEF Collect, NotSentYet, Asking
  <2> QED
    BY <1>2, <2>1, <2>2, <2>3, <2>4, <2>5, CallerStep
<1>3. CASE UNCHANGED vars
  BY <1>t, <1>3 DEF vars, NotSentYet, Asking, Suits
<1> QED
  BY <1>1, <1>2, <1>3 DEF Next

\* Once the request is out, what carries its id belongs to it and comes from the
\* client asked, unless the record knows that this client is gone.
LEMMA MatchingStep == AnswerInv /\ [Next]_vars => Matching'
<1> SUFFICES ASSUME AnswerInv, [Next]_vars PROVE Matching'
  OBVIOUS
<1>t. call \in [Callers -> Calls] /\ remote \in Records /\ Matching /\ RecordOwned
  BY DEF AnswerInv, TypeOK
<1>1. ASSUME NEW s \in Slots, Slot(s) PROVE Matching'
  <2>1. UNCHANGED <<holder, nextId, call>> /\ got' \subseteq got /\ (Asking' <=> Asking)
    BY <1>1, SlotFrame DEF Asking
  <2> DEFINE req == call[holder].req
             target == call[holder].target
  <2> SUFFICES ASSUME Asking
               PROVE  /\ \A g \in got' : g.id = nextId
                            => g.req = req /\ (remote'.failed \/ g.client = target)
                      /\ \A t \in Slots : \A i \in 1 .. Len(inbox'[t]) :
                            inbox'[t][i].id = nextId
                               => /\ inbox'[t][i].req = req
                                  /\ remote'.failed \/ inbox'[t][i].by = target
                      /\ remote'.answer # None
                            => remote'.answer = [req |-> req, by |-> target]
    BY <2>1 DEF Matching
  <2>2. /\ remote.id = nextId
        /\ \A g \in got : g.id = nextId => g.req = req /\ (remote.failed \/ g.client = target)
        /\ \A t \in Slots : \A i \in 1 .. Len(inbox[t]) : inbox[t][i].id = nextId
              => inbox[t][i].req = req /\ (remote.failed \/ inbox[t][i].by = target)
        /\ remote.answer # None => remote.answer = [req |-> req, by |-> target]
    BY <1>t DEF Matching, RecordOwned
  <2> HIDE DEF req, target
  <2>3. remote.failed => remote'.failed
    BY <1>t, <1>1, SlotFrame DEF Records
  <2>4. \A g \in got' : g.id = nextId => g.req = req /\ (remote'.failed \/ g.client = target)
    BY <2>1, <2>2, <2>3
  <2>5. ASSUME NEW t \in Slots, NEW i \in 1 .. Len(inbox'[t]), inbox'[t][i].id = nextId
        PROVE  inbox'[t][i].req = req /\ (remote'.failed \/ inbox'[t][i].by = target)
    <3>1. \/ \E j \in 1 .. Len(inbox[t]) : inbox'[t][i] = inbox[t][j]
          \/ \E g \in got : inbox'[t][i] = [id |-> g.id, req |-> g.req, by |-> g.client]
      BY <1>1, <2>5, InboxFrame
    <3>2. CASE \E j \in 1 .. Len(inbox[t]) : inbox'[t][i] = inbox[t][j]
      BY <2>2, <2>3, <2>5, <3>2
    <3>3. CASE \E g \in got : inbox'[t][i] = [id |-> g.id, req |-> g.req, by |-> g.client]
      BY <2>2, <2>3, <2>5, <3>3
    <3> QED
      BY <3>1, <3>2, <3>3
  <2>6. remote'.answer # None => remote'.answer = [req |-> req, by |-> target]
    <3>1. CASE UNCHANGED remote
      BY <2>2, <3>1
    <3>2. CASE /\ ~remote.failed /\ inbox[s] # <<>> /\ remote.id = Head(inbox[s]).id
               /\ remote' = [remote EXCEPT !.answer = [req |-> Head(inbox[s]).req,
                                                       by |-> Head(inbox[s]).by]]
      <4>1. Head(inbox[s]).req = req /\ Head(inbox[s]).by = target
        BY <2>2, <3>2, HeadInInbox
      <4> QED
        BY <1>t, <3>2, <4>1 DEF Records
    <3>3. CASE remote.answer = None /\ remote' = [remote EXCEPT !.failed = TRUE]
      BY <1>t, <3>3 DEF Records
    <3> QED
      BY <1>1, <3>1, <3>2, <3>3, SlotFrame
  <2> QED
    BY <2>4, <2>5, <2>6
<1>2. ASSUME NEW r \in Callers, Caller(r) PROVE Matching'
  <2>1. CASE \E c \in Clients : Enter(r, c)
    BY <1>t, <2>1 DEF Enter, Matching, Asking
  <2>2. CASE holder = r /\ Drain(r)
    BY <1>t, <2>2 DEF Drain, Matching, Asking, Calls
  <2>3. CASE holder = r /\ Find(r)
    <3>1. CASE holder' = "free"
      BY <3>1, Bounds DEF Matching, Asking
    <3>2. ASSUME NEW s \in Slots, nextId' = NextId,
                 remote' = [slot |-> s, id |-> NextId, answer |-> None, failed |-> FALSE]
          PROVE  Matching'
      BY <2>3, <3>2, FreshId DEF Matching
    <3> QED
      BY <2>3, <3>1, <3>2 DEF Find
  <2>4. CASE holder = r /\ SendRequest(r)
    <3> DEFINE o == occ[call[r].slot]
               g == [req |-> call[r].req, id |-> remote.id, conn |-> o.conn, client |-> o.client]
    <3>1. got' = got \cup {g} /\ g.req = call[r].req /\ g.id = remote.id /\ g.client = o.client
      BY <2>4 DEF SendRequest
    <3> HIDE DEF g
    <3>2. remote.failed \/ g.client = call[r].target
      BY <2>4, <3>1, AskingOn, ZenonT(40) DEF AnswerInv, NotSentYet, RecordOwned, SendRequest, Suits
    <3>3. \A h \in got' : h.id = nextId
             => h.req = call[r].req /\ (remote.failed \/ h.client = call[r].target)
      BY <1>t, <2>4, <3>1, <3>2, AskingOn DEF Matching
    <3> QED
      BY <1>t, <2>4, <3>3, AskingOn DEF Matching
  <2>5. CASE holder = r /\ (SendFails(r) \/ Wake(r) \/ Expire(r))
    <3>1. UNCHANGED got
      BY <2>5 DEF SendFails, Wake, Expire
    <3> QED
      BY <1>t, <2>5, <3>1, AskingOn DEF Matching
  <2>6. CASE Collect(r)
    BY <2>6, Bounds DEF Collect, Matching, Asking
  <2> QED
    BY <1>2, <2>1, <2>2, <2>3, <2>4, <2>5, <2>6, CallerStep
<1>3. CASE UNCHANGED vars
  BY <1>t, <1>3 DEF vars, Matching, Asking
<1> QED
  BY <1>1, <1>2, <1>3 DEF Next

\* A call that ends well takes the answer the record holds, which is its own.
LEMMA AnswerStep == AnswerInv /\ [Next]_vars => RightAnswer'
<1> SUFFICES ASSUME AnswerInv, [Next]_vars PROVE RightAnswer'
  OBVIOUS
<1>t. call \in [Callers -> Calls] /\ RightAnswer
  BY DEF AnswerInv, TypeOK
<1>1. ASSUME NEW s \in Slots, Slot(s) PROVE RightAnswer'
  BY <1>t, <1>1, SlotFrame DEF RightAnswer
<1>2. ASSUME NEW r \in Callers, Caller(r) PROVE RightAnswer'
  <2>1. \A q \in Callers \ {r} : call'[q] = call[q]
    BY <1>2, OnlyHolder
  <2>2. ASSUME call'[r].pc = "idle", call'[r].result = "ok"
        PROVE  call'[r].answer = [req |-> call'[r].req, by |-> call'[r].target]
    <3>1. CASE \E c \in Clients : Enter(r, c)
      BY <1>t, <2>2, <3>1 DEF Enter
    <3>2. CASE holder = r /\ Drain(r)
      BY <1>t, <2>2, <3>2 DEF Drain, Calls
    <3>3. CASE holder = r /\ Find(r)
      BY <1>t, <2>2, <3>3 DEF Find, Calls
    <3>4. CASE holder = r /\ (SendRequest(r) \/ SendFails(r) \/ Wake(r) \/ Expire(r))
      BY <2>2, <3>4, AskingOn
    <3>5. CASE holder = r /\ Collect(r)
      <4>1. remote.answer # None /\ call[r].result = "ok"
        BY <1>t, <2>2, <3>5 DEF Collect, Calls
      <4>2. call'[r].answer = remote.answer /\ call'[r].req = call[r].req
            /\ call'[r].target = call[r].target
        BY <1>t, <3>5, <4>1 DEF Collect, Calls
      <4>3. Asking
        BY <3>5 DEF Collect, Asking
      <4> QED
        BY <3>5, <4>1, <4>2, <4>3 DEF AnswerInv, Matching
    <3> QED
      BY <1>2, <3>1, <3>2, <3>3, <3>4, <3>5, CallerStep
  <2> QED
    BY <1>t, <2>1, <2>2 DEF RightAnswer
<1>3. CASE UNCHANGED vars
  BY <1>t, <1>3 DEF vars, RightAnswer
<1> QED
  BY <1>1, <1>2, <1>3 DEF Next

-----------------------------------------------------------------------------
\* Initially nobody asks and nothing is on its way.
LEMMA AnswerInit == Init => AnswerInv
<1> SUFFICES ASSUME Init PROVE AnswerInv
  OBVIOUS
<1>1. ~Asking
  BY Bounds DEF Init, Asking
<1>2. \A s \in Slots : Len(inbox[s]) = 0
  BY EmptySeq DEF Init
<1>3. Alone /\ RecordOwned
  BY <1>1 DEF Init, Alone, RecordOwned, IdleRemote
<1>4. IdsIssued
  BY <1>2, Bounds DEF Init, IdsIssued
<1>5. Seated /\ RightAnswer
  BY DEF Init, Seated, RightAnswer, Vacant
<1>6. NotSentYet /\ Matching
  BY <1>1 DEF NotSentYet, Matching
<1> QED
  BY <1>3, <1>4, <1>5, <1>6, TypeInit DEF AnswerInv

\* The whole invariant holds in every reachable state.
THEOREM AnswerInvariant == Spec => []AnswerInv
<1>1. AnswerInv /\ [Next]_vars => AnswerInv'
  BY TypeStep, AloneStep, RecordStep, IdsStep, SeatedStep, NotSentStep, MatchingStep, AnswerStep
     DEF AnswerInv
<1> QED
  BY <1>1, AnswerInit, PTL DEF Spec

\* Every variable keeps its type: in particular the semaphore stays binary and
\* message ids stay in their range (snapserver_remote_request).
THEOREM TypeCorrect == Spec => []TypeOK
<1>1. AnswerInv => TypeOK
  BY DEF AnswerInv
<1> QED
  BY <1>1, AnswerInvariant, PTL

\* A successful call returns the answer of the client it asked to the request it
\* made, for any number of callers, slots, clients and connections.
THEOREM AnswersRight == Spec => []RightAnswer
<1>1. AnswerInv => RightAnswer
  BY DEF AnswerInv
<1> QED
  BY <1>1, AnswerInvariant, PTL

\* While nobody holds the mutex the record is empty: no answer is left behind and
\* none can be taken in.
THEOREM RecordEmptyBetween == Spec => []EmptyBetween
<1>1. AnswerInv => EmptyBetween
  BY Bounds DEF AnswerInv, RecordOwned, Asking, EmptyBetween, IdleRemote
<1> QED
  BY <1>1, AnswerInvariant, PTL
=============================================================================
