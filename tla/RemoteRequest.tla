--------------------------- MODULE RemoteRequest ---------------------------
(***************************************************************************)
(* snapserver_remote_request: tasks of the web server ask one of our own   *)
(* clients a question over its Snapcast connection and wait for the        *)
(* answer.  The answer arrives in the client_task of the client's slot,    *)
(* which stores it under the lock and gives the semaphore after the lock;  *)
(* close_client reports a lost connection the same way.  There is one      *)
(* request record and one semaphore for all.                               *)
(*                                                                         *)
(* Slots change hands at any time: a connection is a new number, said by a *)
(* client to be its own, with or without SnapMesh.                         *)
(***************************************************************************)
EXTENDS Integers, Sequences

CONSTANTS
    Callers,  \* tasks that call snapserver_remote_request
    Slots,    \* s_clients
    Ours,     \* clients that say SnapMesh in their Hello
    Foreign,  \* clients that do not
    NoSlot,   \* -1
    LastId,   \* largest message id, after which 1 follows
    MaxAsk,   \* bound: requests
    MaxConn   \* bound: connections

ASSUME RemoteAssumption ==
    /\ NoSlot \notin Slots /\ "free" \notin Callers
    /\ LastId \in Nat \ {0} /\ MaxAsk \in Nat /\ MaxConn \in Nat

\* No answer is held back for as long as message ids take to come around.
ASSUME NoWrap == MaxAsk <= LastId

VARIABLES
    asked,  \* requests made so far; a request is named by its number
    conns,  \* connections made so far
    occ,    \* who holds each slot and how far its client_task is
    inbox,  \* answers on their way to each slot's client_task
    holder, \* s_remote_mutex
    remote, \* s_remote
    nextId, \* s_remote_next_id
    done,   \* s_remote_done, a binary semaphore
    call,   \* every caller: where it is, its request, and the last result
    got     \* requests clients have got and not answered

vars == <<asked, conns, occ, inbox, holder, remote, nextId, done, call, got>>

Clients   == Ours \cup Foreign
Names     == Clients \cup {"none"}
None      == [req |-> 0, by |-> "none"]
IdleRemote == [slot |-> NoSlot, id |-> 0, answer |-> None, failed |-> FALSE]
Vacant    == [conn |-> 0, client |-> "none", ready |-> FALSE, pc |-> "parked"]
Results   == {"none", "ok", "not_found", "fail", "timeout", "invalid_state"}

Occupants == [conn : 0 .. MaxConn, client : Names, ready : BOOLEAN,
              pc : {"parked", "hello", "loop", "give", "wake", "close"}]
Messages  == [id : 0 .. LastId, req : 0 .. MaxAsk, by : Names]
Answers   == [req : 0 .. MaxAsk, by : Names]
Records   == [slot : Slots \cup {NoSlot}, id : 0 .. LastId, answer : Answers, failed : BOOLEAN]
Calls     == [pc : {"idle", "drain", "find", "send", "wait", "collect"},
              req : 0 .. MaxAsk, target : Names, slot : Slots \cup {NoSlot},
              result : Results, answer : Answers]
Requests  == [req : 0 .. MaxAsk, id : 0 .. LastId, conn : 0 .. MaxConn, client : Names]

TypeOK ==
    /\ asked \in 0 .. MaxAsk
    /\ conns \in 0 .. MaxConn
    /\ occ \in [Slots -> Occupants]
    /\ inbox \in [Slots -> Seq(Messages)]
    /\ holder \in Callers \cup {"free"}
    /\ remote \in Records
    /\ nextId \in 0 .. LastId
    /\ done \in 0 .. 1
    /\ call \in [Callers -> Calls]
    /\ got \subseteq Requests

Init ==
    /\ asked = 0 /\ conns = 0
    /\ occ = [s \in Slots |-> Vacant]
    /\ inbox = [s \in Slots |-> <<>>]
    /\ holder = "free"
    /\ remote = IdleRemote
    /\ nextId = 0
    /\ done = 0
    /\ call = [r \in Callers |-> [pc |-> "idle", req |-> 0, target |-> "none", slot |-> NoSlot,
                                  result |-> "none", answer |-> None]]
    /\ got = {}

-----------------------------------------------------------------------------
(* The slots *)

\* server_task claims a free slot.
Connect(s, c) ==
    /\ occ[s].conn = 0 /\ conns < MaxConn
    /\ conns' = conns + 1
    /\ occ' = [occ EXCEPT ![s] = [conn |-> conns + 1, client |-> c, ready |-> FALSE,
                                  pc |-> "hello"]]
    /\ inbox' = [inbox EXCEPT ![s] = <<>>]
    /\ UNCHANGED <<asked, holder, remote, nextId, done, call, got>>

\* The handshake of client_session is through.
BecomeReady(s) ==
    /\ occ[s].pc = "hello"
    /\ occ' = [occ EXCEPT ![s].pc = "loop", ![s].ready = TRUE]
    /\ UNCHANGED <<asked, conns, inbox, holder, remote, nextId, done, call, got>>

\* A client answers a request it got, quickly, late, or never.
ClientAnswers(s) ==
    \E g \in got :
        /\ g.conn = occ[s].conn
        /\ got' = got \ {g}
        /\ inbox' = [inbox EXCEPT ![s] = Append(@, [id |-> g.id, req |-> g.req,
                                                    by |-> g.client])]
        /\ UNCHANGED <<asked, conns, occ, holder, remote, nextId, done, call>>

\* Faulty variant: the message id is not compared.
TakeAny(s) ==
    /\ occ[s].pc = "loop" /\ inbox[s] # <<>>
    /\ inbox' = [inbox EXCEPT ![s] = Tail(@)]
    /\ LET a == Head(inbox[s]) IN
       IF remote.slot = s /\ remote.answer = None /\ ~remote.failed
       THEN /\ remote' = [remote EXCEPT !.answer = [req |-> a.req, by |-> a.by]]
            /\ occ' = [occ EXCEPT ![s].pc = "give"]
       ELSE UNCHANGED <<remote, occ>>
    /\ UNCHANGED <<asked, conns, holder, nextId, done, call, got>>

\* client_session: an answer nobody waits for any more is dropped.
TakeAnswer(s) ==
    /\ occ[s].pc = "loop" /\ inbox[s] # <<>>
    /\ inbox' = [inbox EXCEPT ![s] = Tail(@)]
    /\ LET a == Head(inbox[s]) IN
       IF remote.slot = s /\ remote.id = a.id /\ remote.answer = None /\ ~remote.failed
       THEN /\ remote' = [remote EXCEPT !.answer = [req |-> a.req, by |-> a.by]]
            /\ occ' = [occ EXCEPT ![s].pc = "give"]
       ELSE UNCHANGED <<remote, occ>>
    /\ UNCHANGED <<asked, conns, holder, nextId, done, call, got>>

\* xSemaphoreGive after the lock: the waiting caller may go on.
Give(s) ==
    /\ occ[s].pc \in {"give", "wake"}
    /\ done' = 1
    /\ occ' = [occ EXCEPT ![s].pc = IF @ = "give" THEN "loop" ELSE "close"]
    /\ UNCHANGED <<asked, conns, inbox, holder, remote, nextId, call, got>>

\* close_client frees the slot and fails the request waiting on it ...
CloseLock(s) ==
    LET wake == remote.slot = s /\ remote.answer = None /\ ~remote.failed IN
    /\ occ[s].pc \in {"hello", "loop"}
    /\ remote' = IF wake THEN [remote EXCEPT !.failed = TRUE] ELSE remote
    /\ occ' = [occ EXCEPT ![s].ready = FALSE, ![s].pc = IF wake THEN "wake" ELSE "close"]
    /\ UNCHANGED <<asked, conns, inbox, holder, nextId, done, call, got>>

\* ... and its client_task is parked again.
CloseDone(s) ==
    /\ occ[s].pc = "close"
    /\ occ' = [occ EXCEPT ![s] = Vacant]
    /\ got' = {g \in got : g.conn # occ[s].conn}
    /\ inbox' = [inbox EXCEPT ![s] = <<>>]
    /\ UNCHANGED <<asked, conns, holder, remote, nextId, done, call>>

-----------------------------------------------------------------------------
(* snapserver_remote_request *)

\* s_remote_mutex: one request at a time.
Enter(r, c) ==
    /\ call[r].pc = "idle" /\ holder = "free" /\ asked < MaxAsk
    /\ asked' = asked + 1
    /\ holder' = r
    /\ call' = [call EXCEPT ![r] = [pc |-> "drain", req |-> asked + 1, target |-> c,
                                    slot |-> NoSlot, result |-> "none", answer |-> None]]
    /\ UNCHANGED <<conns, occ, inbox, remote, nextId, done, got>>

\* A give that came too late for the request before is taken back.
Drain(r) ==
    /\ call[r].pc = "drain"
    /\ done' = 0
    /\ call' = [call EXCEPT ![r].pc = "find"]
    /\ UNCHANGED <<asked, conns, occ, inbox, holder, remote, nextId, got>>

Suits(s, c) == occ[s].ready /\ c \in Ours /\ occ[s].client = c

NextId == IF nextId = LastId THEN 1 ELSE nextId + 1

\* Under the lock: a ready slot of ours with this client id is noted.
Find(r) ==
    /\ call[r].pc = "find"
    /\ \/ \E s \in Slots :
            /\ Suits(s, call[r].target)
            /\ nextId' = NextId
            /\ remote' = [slot |-> s, id |-> NextId, answer |-> None, failed |-> FALSE]
            /\ call' = [call EXCEPT ![r].pc = "send", ![r].slot = s]
            /\ UNCHANGED holder
       \/ /\ \A s \in Slots : ~Suits(s, call[r].target)
          /\ call' = [call EXCEPT ![r].pc = "idle", ![r].result = "not_found"]
          /\ holder' = "free"
          /\ UNCHANGED <<nextId, remote>>
    /\ UNCHANGED <<asked, conns, occ, inbox, done, got>>

\* client_send_msg to whoever is ready in that slot by now.
SendRequest(r) ==
    LET o == occ[call[r].slot] IN
    /\ call[r].pc = "send"
    /\ o.ready
    /\ got' = got \cup {[req |-> call[r].req, id |-> remote.id, conn |-> o.conn,
                         client |-> o.client]}
    /\ call' = [call EXCEPT ![r].pc = "wait"]
    /\ UNCHANGED <<asked, conns, occ, inbox, holder, remote, nextId, done>>

\* The slot is not ready, its mutex is taken, or the socket fails.
SendFails(r) ==
    /\ call[r].pc = "send"
    /\ call' = [call EXCEPT ![r].pc = "collect", ![r].result = "fail"]
    /\ UNCHANGED <<asked, conns, occ, inbox, holder, remote, nextId, done, got>>

\* The semaphore was given ...
Wake(r) ==
    /\ call[r].pc = "wait" /\ done = 1
    /\ done' = 0
    /\ call' = [call EXCEPT ![r].pc = "collect", ![r].result = "ok"]
    /\ UNCHANGED <<asked, conns, occ, inbox, holder, remote, nextId, got>>

\* ... or timeout_ms is over.
Expire(r) ==
    /\ call[r].pc = "wait" /\ done = 0
    /\ call' = [call EXCEPT ![r].pc = "collect", ![r].result = "timeout"]
    /\ UNCHANGED <<asked, conns, occ, inbox, holder, remote, nextId, done, got>>

\* Faulty variant: a request that timed out leaves its record standing.
CollectKeeps(r) ==
    LET bad == remote.failed \/ remote.answer = None IN
    /\ call[r].pc = "collect"
    /\ call' = [call EXCEPT ![r].pc = "idle",
                            ![r].result = IF @ = "ok" /\ bad THEN "invalid_state" ELSE @,
                            ![r].answer = IF call[r].result = "ok" THEN remote.answer ELSE None]
    /\ remote' = IF call[r].result = "timeout" THEN remote
                 ELSE [IdleRemote EXCEPT !.id = remote.id]
    /\ holder' = "free"
    /\ UNCHANGED <<asked, conns, occ, inbox, nextId, done, got>>

\* Under the lock the record is emptied, then the mutex is given back.
Collect(r) ==
    LET bad == remote.failed \/ remote.answer = None IN
    /\ call[r].pc = "collect"
    /\ call' = [call EXCEPT ![r].pc = "idle",
                            ![r].result = IF @ = "ok" /\ bad THEN "invalid_state" ELSE @,
                            ![r].answer = IF call[r].result = "ok" THEN remote.answer ELSE None]
    /\ remote' = [IdleRemote EXCEPT !.id = remote.id]
    /\ holder' = "free"
    /\ UNCHANGED <<asked, conns, occ, inbox, nextId, done, got>>

-----------------------------------------------------------------------------
Slot(s) ==
    \/ \E c \in Clients : Connect(s, c)
    \/ BecomeReady(s) \/ ClientAnswers(s) \/ TakeAnswer(s) \/ Give(s)
    \/ CloseLock(s) \/ CloseDone(s)

Caller(r) ==
    \/ \E c \in Clients : Enter(r, c)
    \/ Drain(r) \/ Find(r) \/ SendRequest(r) \/ SendFails(r) \/ Wake(r) \/ Expire(r)
    \/ Collect(r)

Next == (\E s \in Slots : Slot(s)) \/ (\E r \in Callers : Caller(r))

Spec == Init /\ [][Next]_vars

-----------------------------------------------------------------------------
(* Properties *)

\* A successful call returns the answer of the client that was asked to this
\* very request, whatever answers are late and whoever took the slot over
\* (snapserver_remote_request, client_session).
RightAnswer ==
    \A r \in Callers :
        call[r].pc = "idle" /\ call[r].result = "ok"
            => call[r].answer = [req |-> call[r].req, by |-> call[r].target]

\* Between two requests the record is empty: no answer is left behind that
\* nobody would free, and none can be taken in (snapserver_remote_request).
EmptyBetween ==
    holder = "free" => remote.slot = NoSlot /\ remote.answer = None

\* Why they hold, as an inductive invariant: only the holder of the mutex is in
\* the middle of a request (snapserver_remote_request), ...
Asking == holder \in Callers /\ call[holder].pc \in {"send", "wait", "collect"}
Alone  == \A r \in Callers : call[r].pc # "idle" => holder = r

\* ... the record stands for its request and is empty otherwise, ...
RecordOwned ==
    IF Asking
    THEN /\ remote.slot \in Slots /\ remote.slot = call[holder].slot
         /\ remote.id = nextId
    ELSE remote = [IdleRemote EXCEPT !.id = remote.id]

\* ... message ids are issued in order, one at most for each request, ...
IdsIssued ==
    /\ nextId <= asked
    /\ holder \in Callers /\ call[holder].pc \in {"drain", "find"} => nextId < asked
    /\ \A g \in got : g.id <= nextId
    /\ \A s \in Slots : \A i \in 1 .. Len(inbox[s]) : inbox[s][i].id <= nextId

\* ... a client is ready only while its connection holds the slot, ...
Seated ==
    \A s \in Slots : /\ occ[s].pc # "parked" => occ[s].conn # 0
                     /\ occ[s].ready => occ[s].pc \in {"loop", "give"}

\* ... before the request is sent nothing carries its id, and the client chosen
\* is still there, or the record knows that it is gone, ...
NotSentYet ==
    Asking /\ call[holder].pc = "send" =>
        /\ remote.answer = None
        /\ \A g \in got : g.id # nextId
        /\ \A s \in Slots : \A i \in 1 .. Len(inbox[s]) : inbox[s][i].id # nextId
        /\ remote.failed \/ Suits(remote.slot, call[holder].target)

\* ... and afterwards whatever carries it belongs to this request.
Matching ==
    Asking =>
        /\ \A g \in got : g.id = nextId
              => g.req = call[holder].req /\ (remote.failed \/ g.client = call[holder].target)
        /\ \A s \in Slots : \A i \in 1 .. Len(inbox[s]) : inbox[s][i].id = nextId
              => /\ inbox[s][i].req = call[holder].req
                 /\ remote.failed \/ inbox[s][i].by = call[holder].target
        /\ remote.answer # None
              => remote.answer = [req |-> call[holder].req, by |-> call[holder].target]

AnswerInv ==
    TypeOK /\ Alone /\ RecordOwned /\ IdsIssued /\ Seated /\ NotSentYet /\ Matching /\ RightAnswer
=============================================================================
