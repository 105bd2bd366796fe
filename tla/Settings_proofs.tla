--------------------------- MODULE Settings_proofs ---------------------------
(***************************************************************************)
(* Proofs about the settings of the clients, for any slots, ids,           *)
(* controllers, connections, requests and announcements: what a client was *)
(* told by a push nobody crossed is what it is listed with, what is stored *)
(* for a client is what it has, as far as an entry holds it and has not   *)
(* made room for another one, and a controller that listens misses         *)
(* nothing, whichever of the calls overlap.                                *)
(***************************************************************************)
EXTENDS Settings, TLAPS

-----------------------------------------------------------------------------
(* The values of the variables *)

SlotRecs == [state : {"free", "accepted", "settings", "ready"}, id : Ids \cup {NoId},
             vol : Settable, name : Names \cup {NoName}, sent : Silence]
ToldRecs == [vol : Settable, sil : Silence]
PushRecs == [at : {"idle", "settings", "flag", "record", "send"},
             slot : Slots \cup {None}, vol : Settable, sil : Silence]
Reqs     == [what : {"none", "volume", "name"}, id : Ids \cup {NoId},
             slot : Slots \cup {None}, entry : Entries]
Shown    == UNION {[S -> SlotRecs] : S \in SUBSET Slots}
Lists    == Shown \cup {None}
CtrlRecs == [pc : {"idle", "entry", "live", "put", "push", "seen", "update", "gone"},
             req : Reqs, seen : Lists, last : Lists, shown : Lists, spoke : BOOLEAN]

Shapes ==
    /\ slot \in [Slots -> SlotRecs] /\ told \in [Slots -> ToldRecs \cup {None}]
    /\ store \in [Ids -> Fitting \cup {None}]
    /\ age \in [of : [Ids -> Nat], newest : Nat]
    /\ ann \in [on : BOOLEAN, session : 0 .. MaxTurns]
    /\ voice \in [on : BOOLEAN, session : 0 .. MaxTurns, left : SUBSET Slots]
    /\ push \in [Tasks -> PushRecs]
    /\ \A t \in Tasks : push[t].at = "idle" <=> push[t].slot = None
    /\ ctrl \in [Controllers -> CtrlRecs]
    /\ made \in 0 .. MaxConn /\ asked \in 0 .. MaxAsked
    /\ mixed \subseteq Slots /\ raced \subseteq Ids /\ forgotten \subseteq Ids
    /\ undone \subseteq Controllers

-----------------------------------------------------------------------------
(* The inductive invariants *)

Busy(c) == ctrl[c].pc \in {"entry", "live", "put"}

\* A controller has a request exactly while it stores it and a push exactly
\* while it waits for it; one that only listens does neither.
CtrlInTurn(c) ==
    /\ Busy(c) => ctrl[c].req.what # "none" /\ ctrl[c].req.slot \in Slots /\ ctrl[c].req.id \in Ids
    /\ ~Busy(c) => ctrl[c].req = IdleReq
    /\ ctrl[c].pc = "push" <=> push[c].at # "idle"
    /\ ~ctrl[c].spoke => ctrl[c].pc \in {"idle", "update", "gone"}

\* A session pushes to its own slot during its handshake; before Hello it
\* has nothing but the defaults.
SlotInTurn(s) ==
    /\ push[s].at # "idle" => push[s].slot = s /\ slot[s].state = "settings"
    /\ slot[s].state = "accepted" => slot[s].id = NoId /\ slot[s].vol = DefaultVol

Turns == (\A c \in Controllers : CtrlInTurn(c)) /\ (\A s \in Slots : SlotInTurn(s))

Sound == Shapes /\ Turns

\* Pushes that hold a copy of the slot's settings; whether a fresher copy is
\* to come.
Copied(s) == {t \in Tasks : push[t].at \in {"flag", "record", "send"} /\ push[t].slot = s}
ToCome(s) == \/ \E t \in Tasks : push[t].at = "settings" /\ push[t].slot = s
             \/ \E c \in Controllers : ctrl[c].req.what = "volume" /\ ctrl[c].req.slot = s

\* On a slot whose pushes nobody crossed one copy is under way at most.  It is
\* what the slot has, or a fresher one is to come; and so is what was told,
\* once nothing is under way.
CarriedTo(s) ==
    /\ \A t, u \in Copied(s) : t = u
    /\ \A t \in Copied(s) : /\ push[t].vol = slot[s].vol \/ ToCome(s)
                            /\ push[t].at = "send" => push[t].sil = slot[s].sent
    /\ slot[s].state \in {"settings", "ready"} /\ Copied(s) = {} /\ ~ToCome(s)
         => told[s] = [vol |-> slot[s].vol, sil |-> slot[s].sent]

Carried == \A s \in Slots \ mixed : CarriedTo(s)

\* What Hello restores.
Stored(i) == IF store[i] = None THEN [vol |-> DefaultVol, name |-> NoName] ELSE store[i]
Has(s)    == [vol |-> slot[s].vol, name |-> slot[s].name]

\* The name is the one the client has, or it went with an entry of the client
\* that made room for another.
NameKept(i, n, s) == n = slot[s].name \/ (i \in forgotten /\ n = NoName)

\* The store has what the connection has, as far as it holds it.
Agrees(i, s) ==
    /\ store[i] = None => i \in forgotten \/ Has(s) = [vol |-> DefaultVol, name |-> NoName]
    /\ store[i] # None => store[i].vol = Clamp(slot[s].vol) /\ NameKept(i, store[i].name, s)

\* An id whose requests nobody crossed has one connection and one request at
\* most.  The store agrees with the connection, but for what the request is
\* about to put there.
KeptFor(i) ==
    /\ \A r, s \in Found(i) : r = s
    /\ \A c, d \in Storing(i) : c = d
    /\ \A s \in Found(i) :
         /\ Storing(i) = {} => Agrees(i, s)
         /\ \A c \in Storing(i) :
              /\ ctrl[c].pc = "entry" /\ ctrl[c].req.what = "volume"
                   => NameKept(i, Stored(i).name, s)
              /\ ctrl[c].pc = "entry" /\ ctrl[c].req.what = "name"
                   => NameKept(i, ctrl[c].req.entry.name, s)
              /\ ctrl[c].pc = "live" => NameKept(i, ctrl[c].req.entry.name, s)
              /\ ctrl[c].pc = "put"  => /\ ctrl[c].req.entry.vol = slot[s].vol
                                        /\ NameKept(i, ctrl[c].req.entry.name, s)

Kept == \A i \in Ids \ raced : KeptFor(i)

SettingsInv == Sound /\ Carried /\ Kept /\ NothingMissed

-----------------------------------------------------------------------------
(* Types and turns *)

\* The tasks are different ones.
LEMMA TaskKinds ==
    /\ Voice \in Tasks /\ Controllers \subseteq Tasks /\ Slots \subseteq Tasks
    /\ \A c \in Controllers : c \notin Slots /\ c # Voice
    /\ \A s \in Slots : s \notin Controllers /\ s # Voice /\ s # None
BY SettingsAssumption DEF Tasks

\* The model's type invariant says less of what controllers were shown.
LEMMA ShapesAreTypes == Shapes => TypeOK
BY DEF Shapes, TypeOK, SlotRecs, ToldRecs, PushRecs, Reqs, CtrlRecs

\* Values that mean nothing is there.
LEMMA Blanks ==
    /\ FreeSlot \in SlotRecs /\ FreeSlot.id = NoId /\ FreeSlot.vol = DefaultVol
    /\ IdlePush \in PushRecs /\ IdlePush.at = "idle" /\ IdlePush.slot = None
    /\ IdleReq \in Reqs /\ IdleReq.slot = None /\ IdleReq.what = "none" /\ IdleReq.id = NoId
    /\ Quiet \in Silence /\ None \in Lists /\ None \notin Slots /\ NoId \notin Ids
<1>1. Quiet \in Silence
  BY DEF Quiet, Silence
<1>2. DefaultVol \in Settable /\ None \notin Slots /\ NoId \notin Ids
  BY SettingsAssumption DEF Settable
<1>3. FreeSlot \in SlotRecs /\ FreeSlot.id = NoId /\ FreeSlot.vol = DefaultVol
  BY <1>1, <1>2 DEF FreeSlot, SlotRecs
<1>4. IdlePush \in PushRecs /\ IdlePush.at = "idle" /\ IdlePush.slot = None
  BY <1>1, <1>2 DEF IdlePush, PushRecs
<1>5. [vol |-> DefaultVol, name |-> NoName] \in Entries
  BY <1>2 DEF Entries
<1>6. IdleReq \in Reqs /\ IdleReq.slot = None /\ IdleReq.what = "none" /\ IdleReq.id = NoId
  BY <1>5 DEF IdleReq, Reqs
<1>7. None \in Lists
  BY DEF Lists
<1> QED
  BY <1>1, <1>2, <1>3, <1>4, <1>6, <1>7

\* What an entry holds of a value it holds without change.
LEMMA Clamps ==
    ASSUME NEW v \in Settable
    PROVE  v \in Int /\ Clamp(v) \in Settable /\ Clamp(Clamp(v)) = Clamp(v)
<1>1. Limit \in Nat /\ Vols \subseteq Int /\ DefaultVol \in Int /\ Clamp(DefaultVol) = DefaultVol
  BY SettingsAssumption
<1>2. \A u \in Int : Clamp(u) \in Int /\ Clamp(Clamp(u)) = Clamp(u)
  BY <1>1 DEF Clamp
<1>3. v \in Int
  BY <1>1, <1>2 DEF Settable
<1>4. Clamp(v) \in Settable
  BY <1>1, <1>2 DEF Settable
<1> QED
  BY <1>2, <1>3, <1>4

\* One task's push, one slot, one controller changes.
PushTurn(t, p) == push' = [push EXCEPT ![t] = p]
SlotTurn(s, r) == slot' = [slot EXCEPT ![s] = r]
CtrlTurn(c, k) == ctrl' = [ctrl EXCEPT ![c] = k]

LEMMA PushTurns ==
    ASSUME Shapes, NEW t \in Tasks, NEW p \in PushRecs, PushTurn(t, p), p.at = "idle" <=> p.slot = None
    PROVE  /\ push' \in [Tasks -> PushRecs] /\ push'[t] = p
           /\ \A u \in Tasks : u # t => push'[u] = push[u]
           /\ \A u \in Tasks : push'[u].at = "idle" <=> push'[u].slot = None
BY DEF PushTurn, Shapes

LEMMA SlotTurns ==
    ASSUME Shapes, NEW s \in Slots, NEW r \in SlotRecs, SlotTurn(s, r)
    PROVE  /\ slot' \in [Slots -> SlotRecs] /\ slot'[s] = r
           /\ \A o \in Slots : o # s => slot'[o] = slot[o]
BY DEF SlotTurn, Shapes

LEMMA CtrlTurns ==
    ASSUME Shapes, NEW c \in Controllers, NEW k \in CtrlRecs, CtrlTurn(c, k)
    PROVE  /\ ctrl' \in [Controllers -> CtrlRecs] /\ ctrl'[c] = k
           /\ \A d \in Controllers : d # c => ctrl'[d] = ctrl[d]
BY DEF CtrlTurn, Shapes

\* A push that is under way has a slot.
LEMMA PushHasSlot ==
    ASSUME Shapes, NEW t \in Tasks, push[t].at # "idle" PROVE push[t].slot \in Slots
BY DEF Shapes, PushRecs

\* A push begins.
LEMMA Begins ==
    ASSUME Shapes, NEW t \in Tasks, NEW s \in Slots, push' = StartPush(t, s)
    PROVE  \E p \in PushRecs : PushTurn(t, p) /\ p.at = "settings" /\ p.slot = s
<1> DEFINE p == [IdlePush EXCEPT !.at = "settings", !.slot = s]
<1>1. p \in PushRecs /\ p.at = "settings" /\ p.slot = s
  BY Blanks DEF PushRecs
<1>2. PushTurn(t, p)
  BY DEF StartPush, PushTurn
<1> HIDE DEF p
<1> QED
  BY <1>1, <1>2

-----------------------------------------------------------------------------
(* What the steps do: pushes and connections *)

LEMMA PushSettingsRow ==
    ASSUME Shapes, NEW t \in Tasks, PushSettings(t)
    PROVE  /\ push[t].at = "settings" /\ push[t].slot \in Slots
           /\ \E p \in PushRecs : /\ PushTurn(t, p) /\ p.at = "flag" /\ p.slot = push[t].slot
                                  /\ p.vol = slot[push[t].slot].vol
           /\ mixed' = IF Pushing(push[t].slot) = {t} THEN mixed \ {push[t].slot}
                       ELSE mixed \cup {push[t].slot}
           /\ UNCHANGED <<slot, told, store, age, ann, voice, ctrl, made, asked, raced, forgotten>>
<1>1. push[t].slot \in Slots
  BY PushHasSlot DEF PushSettings
<1>2. slot[push[t].slot].vol \in Settable
  BY <1>1 DEF Shapes, SlotRecs
<1> DEFINE p == [push[t] EXCEPT !.at = "flag", !.vol = slot[push[t].slot].vol]
<1>3. p \in PushRecs /\ p.at = "flag" /\ p.slot = push[t].slot /\ p.vol = slot[push[t].slot].vol
  BY <1>2 DEF Shapes, PushRecs
<1>4. PushTurn(t, p)
  BY DEF PushSettings, PushTurn, Shapes
<1> HIDE DEF p
<1> QED
  BY <1>1, <1>3, <1>4 DEF PushSettings

LEMMA PushFlagRow ==
    ASSUME Shapes, NEW t \in Tasks, PushFlag(t)
    PROVE  /\ push[t].at = "flag" /\ push[t].slot \in Slots
           /\ \E p \in PushRecs : /\ PushTurn(t, p) /\ p.at = "record" /\ p.slot = push[t].slot
                                  /\ p.vol = push[t].vol
           /\ UNCHANGED <<slot, told, store, age, ann, voice, ctrl, made, asked, mixed, raced, forgotten>>
<1>1. push[t].slot \in Slots
  BY PushHasSlot DEF PushFlag
<1> DEFINE m == ann.on /\ slot[push[t].slot].id \notin Own
           p == [push[t] EXCEPT !.at = "record", !.sil = [ann |-> ann.on, mute |-> m]]
<1>2. ann.on \in BOOLEAN /\ m \in BOOLEAN
  BY DEF Shapes
<1>4. PushTurn(t, p)
  BY DEF PushFlag, PushTurn, Shapes
<1> HIDE DEF m
<1>3. p \in PushRecs /\ p.at = "record" /\ p.slot = push[t].slot /\ p.vol = push[t].vol
  <2>1. [ann |-> ann.on, mute |-> m] \in Silence
    BY <1>2 DEF Silence
  <2> QED
    BY <2>1 DEF Shapes, PushRecs
<1> HIDE DEF p
<1> QED
  BY <1>1, <1>3, <1>4 DEF PushFlag

LEMMA PushRecordRow ==
    ASSUME Shapes, NEW t \in Tasks, PushRecord(t)
    PROVE  /\ push[t].at = "record" /\ push[t].slot \in Slots
           /\ \E p \in PushRecs : /\ PushTurn(t, p) /\ p.at = "send" /\ p.slot = push[t].slot
                                  /\ p.vol = push[t].vol /\ p.sil = push[t].sil
           /\ \E r \in SlotRecs : /\ SlotTurn(push[t].slot, r) /\ r.sent = push[t].sil
                                  /\ r.state = slot[push[t].slot].state
                                  /\ r.id = slot[push[t].slot].id
                                  /\ r.vol = slot[push[t].slot].vol
                                  /\ r.name = slot[push[t].slot].name
           /\ UNCHANGED <<told, store, age, ann, voice, ctrl, made, asked, mixed, raced, forgotten>>
<1>1. push[t].slot \in Slots
  BY PushHasSlot DEF PushRecord
<1> DEFINE s == push[t].slot
           p == [push[t] EXCEPT !.at = "send"]
           r == [slot[s] EXCEPT !.sent = push[t].sil]
<1>2. p \in PushRecs /\ p.at = "send" /\ p.slot = s /\ p.vol = push[t].vol /\ p.sil = push[t].sil
  BY DEF Shapes, PushRecs
<1>3. /\ r \in SlotRecs /\ r.sent = push[t].sil /\ r.state = slot[s].state
      /\ r.id = slot[s].id /\ r.vol = slot[s].vol /\ r.name = slot[s].name
  <2>1. slot[s] \in SlotRecs
    BY <1>1 DEF Shapes
  <2>2. push[t].sil \in Silence
    BY DEF Shapes, PushRecs
  <2> QED
    BY <2>1, <2>2 DEF SlotRecs
<1>4. PushTurn(t, p) /\ SlotTurn(s, r)
  BY <1>1 DEF PushRecord, PushTurn, SlotTurn, Shapes
<1> HIDE DEF p, r
<1> QED
  BY <1>1, <1>2, <1>3, <1>4 DEF PushRecord

\* The caller of a push goes on.
CallerGoesOn(t) ==
    \/ t \notin Controllers /\ ctrl' = ctrl
    \/ /\ t \in Controllers
       /\ \E k \in CtrlRecs : /\ CtrlTurn(t, k) /\ k.pc = "seen" /\ k.req = ctrl[t].req
                              /\ k.seen = ctrl[t].seen /\ k.last = ctrl[t].last
                              /\ k.shown = ctrl[t].shown /\ k.spoke = ctrl[t].spoke

LEMMA Callers ==
    ASSUME Shapes, NEW t \in Tasks, NEW ok \in BOOLEAN, Return(t, ok)
    PROVE  CallerGoesOn(t)
<1>1. CASE t \in Controllers
  <2> DEFINE k == [ctrl[t] EXCEPT !.pc = "seen"]
  <2>1. /\ k \in CtrlRecs /\ k.pc = "seen" /\ k.req = ctrl[t].req
        /\ k.seen = ctrl[t].seen /\ k.last = ctrl[t].last
        /\ k.shown = ctrl[t].shown /\ k.spoke = ctrl[t].spoke
    BY <1>1 DEF Shapes, CtrlRecs
  <2>2. CtrlTurn(t, k)
    BY <1>1 DEF Return, CtrlTurn, Shapes
  <2> HIDE DEF k
  <2> QED
    BY <1>1, <2>1, <2>2 DEF CallerGoesOn
<1>2. CASE t \notin Controllers
  BY <1>2 DEF Return, CallerGoesOn
<1> QED
  BY <1>1, <1>2

LEMMA PushSendRow ==
    ASSUME Shapes, NEW t \in Tasks, PushSend(t)
    PROVE  /\ push[t].at = "send" /\ push[t].slot \in Slots
           /\ told' \in [Slots -> ToldRecs \cup {None}]
           /\ told'[push[t].slot] = [vol |-> push[t].vol, sil |-> push[t].sil]
           /\ \A o \in Slots : o # push[t].slot => told'[o] = told[o]
           /\ PushTurn(t, IdlePush) /\ CallerGoesOn(t)
           /\ UNCHANGED <<slot, store, age, ann, voice, made, asked, mixed, raced, forgotten>>
<1>1. push[t].slot \in Slots
  BY PushHasSlot DEF PushSend
<1>2. [vol |-> push[t].vol, sil |-> push[t].sil] \in ToldRecs
  BY DEF Shapes, PushRecs, ToldRecs
<1>3. told' = [told EXCEPT ![push[t].slot] = [vol |-> push[t].vol, sil |-> push[t].sil]]
  BY DEF PushSend
<1>4. /\ told' \in [Slots -> ToldRecs \cup {None}]
      /\ told'[push[t].slot] = [vol |-> push[t].vol, sil |-> push[t].sil]
      /\ \A o \in Slots : o # push[t].slot => told'[o] = told[o]
  BY <1>1, <1>2, <1>3 DEF Shapes
<1>5. Return(t, TRUE)
  BY DEF PushSend
<1>6. CallerGoesOn(t)
  BY <1>5, Callers
<1>7. PushTurn(t, IdlePush) /\ slot' = slot
  BY <1>5 DEF Return, PushTurn
<1> QED
  BY <1>1, <1>4, <1>6, <1>7 DEF PushSend

LEMMA PushRefusedRow ==
    ASSUME Shapes, NEW t \in Tasks, PushRefused(t)
    PROVE  /\ push[t].at = "send" /\ push[t].slot \in Slots /\ mixed' = mixed \cup {push[t].slot}
           /\ told' \in [Slots -> ToldRecs \cup {None}]
           /\ \A o \in Slots : o # push[t].slot => told'[o] = told[o]
           /\ PushTurn(t, IdlePush) /\ CallerGoesOn(t)
           /\ \/ slot' = slot
              \/ /\ t \in Slots /\ slot[t].state = "settings"
                 /\ \E r \in SlotRecs : /\ SlotTurn(t, r) /\ r.state = "free"
                                        /\ r.id = slot[t].id /\ r.vol = slot[t].vol
                                        /\ r.name = slot[t].name /\ r.sent = slot[t].sent
           /\ UNCHANGED <<store, age, ann, voice, made, asked, raced, forgotten>>
<1>1. push[t].slot \in Slots
  BY PushHasSlot DEF PushRefused
<1>2. /\ told' \in [Slots -> ToldRecs \cup {None}]
      /\ \A o \in Slots : o # push[t].slot => told'[o] = told[o]
  BY <1>1 DEF PushRefused, Shapes
<1>3. Return(t, FALSE)
  BY DEF PushRefused
<1>4. CallerGoesOn(t)
  BY <1>3, Callers
<1>5. CASE t \in Slots /\ slot[t].state = "settings"
  <2> DEFINE r == [slot[t] EXCEPT !.state = "free"]
  <2>1. /\ r \in SlotRecs /\ r.state = "free" /\ r.id = slot[t].id /\ r.vol = slot[t].vol
        /\ r.name = slot[t].name /\ r.sent = slot[t].sent
    BY <1>5 DEF Shapes, SlotRecs
  <2>2. SlotTurn(t, r) /\ PushTurn(t, IdlePush)
    BY <1>3, <1>5 DEF Return, SlotTurn, PushTurn, Shapes
  <2> HIDE DEF r
  <2> QED
    BY <1>1, <1>2, <1>4, <1>5, <2>1, <2>2 DEF PushRefused
<1>6. CASE ~(t \in Slots /\ slot[t].state = "settings")
  <2>1. slot' = slot /\ PushTurn(t, IdlePush)
    BY <1>3, <1>6 DEF Return, PushTurn
  <2> QED
    BY <1>1, <1>2, <1>4, <2>1 DEF PushRefused
<1> QED
  BY <1>5, <1>6

LEMMA AcceptRow ==
    ASSUME Shapes, NEW s \in Slots, Accept(s)
    PROVE  /\ slot[s].state = "free" /\ push[s].at = "idle" /\ made' \in 0 .. MaxConn
           /\ \E r \in SlotRecs : /\ SlotTurn(s, r) /\ r.state = "accepted" /\ r.id = NoId
                                  /\ r.vol = DefaultVol
           /\ told' \in [Slots -> ToldRecs \cup {None}]
           /\ \A o \in Slots : o # s => told'[o] = told[o]
           /\ mixed' = IF Pushing(s) = {} THEN mixed \ {s} ELSE mixed \cup {s}
           /\ UNCHANGED <<store, age, ann, voice, push, ctrl, asked, raced, forgotten>>
<1> DEFINE r == [FreeSlot EXCEPT !.state = "accepted"]
<1>1. r \in SlotRecs /\ r.state = "accepted" /\ r.id = NoId /\ r.vol = DefaultVol
  BY Blanks DEF SlotRecs
<1>2. SlotTurn(s, r)
  BY DEF Accept, SlotTurn
<1> HIDE DEF r
<1>3. made' \in 0 .. MaxConn
  BY SettingsAssumption DEF Accept, Shapes
<1>4. /\ told' \in [Slots -> ToldRecs \cup {None}]
      /\ \A o \in Slots : o # s => told'[o] = told[o]
  BY DEF Accept, Shapes
<1> QED
  BY <1>1, <1>2, <1>3, <1>4 DEF Accept

LEMMA HelloRow ==
    ASSUME Shapes, NEW s \in Slots, NEW i \in Ids, Hello(s, i)
    PROVE  /\ slot[s].state = "accepted"
           /\ \E r \in SlotRecs :
                /\ SlotTurn(s, r) /\ r.state = "settings" /\ r.id = i /\ r.sent = slot[s].sent
                /\ r.vol = IF store[i] = None THEN slot[s].vol ELSE store[i].vol
                /\ r.name = IF store[i] = None THEN NoName ELSE store[i].name
           /\ raced' = IF Storing(i) # {} \/ \E o \in Slots \ {s} : Active(o) /\ slot[o].id = i
                       THEN raced \cup {i} ELSE raced \ {i}
           /\ forgotten' = forgotten \ {i}
           /\ \E p \in PushRecs : PushTurn(s, p) /\ p.at = "settings" /\ p.slot = s
           /\ UNCHANGED <<told, store, age, ann, voice, ctrl, made, asked, mixed>>
<1> DEFINE v == IF store[i] = None THEN slot[s].vol ELSE store[i].vol
           n == IF store[i] = None THEN NoName ELSE store[i].name
           r == [slot[s] EXCEPT !.state = "settings", !.id = i, !.vol = v, !.name = n]
<1>1. v \in Settable /\ n \in Names \cup {NoName}
  BY DEF Shapes, SlotRecs, Fitting, Entries
<1>2. SlotTurn(s, r)
  BY DEF Hello, SlotTurn, Shapes, SlotRecs
<1>3. \E p \in PushRecs : PushTurn(s, p) /\ p.at = "settings" /\ p.slot = s
  BY TaskKinds, Begins DEF Hello
<1> HIDE DEF v, n
<1>4. /\ r \in SlotRecs /\ r.state = "settings" /\ r.id = i /\ r.sent = slot[s].sent
      /\ r.vol = v /\ r.name = n
  <2>1. slot[s] \in SlotRecs
    BY DEF Shapes
  <2> QED
    BY <1>1, <2>1, Zenon DEF SlotRecs
<1> HIDE DEF r
<1>5. \E q \in SlotRecs :
        /\ SlotTurn(s, q) /\ q.state = "settings" /\ q.id = i /\ q.sent = slot[s].sent
        /\ q.vol = IF store[i] = None THEN slot[s].vol ELSE store[i].vol
        /\ q.name = IF store[i] = None THEN NoName ELSE store[i].name
  BY <1>2, <1>4 DEF v, n
<1> QED
  BY <1>3, <1>5 DEF Hello

LEMMA StateRow ==
    ASSUME Shapes, NEW s \in Slots, NEW st \in {"free", "ready"},
           slot' = [slot EXCEPT ![s].state = st]
    PROVE  \E r \in SlotRecs : /\ SlotTurn(s, r) /\ r.state = st /\ r.id = slot[s].id
                               /\ r.vol = slot[s].vol /\ r.name = slot[s].name
                               /\ r.sent = slot[s].sent
<1> DEFINE r == [slot[s] EXCEPT !.state = st]
<1>1. /\ r \in SlotRecs /\ r.state = st /\ r.id = slot[s].id
      /\ r.vol = slot[s].vol /\ r.name = slot[s].name /\ r.sent = slot[s].sent
  BY SMTT(30) DEF Shapes, SlotRecs
<1>2. SlotTurn(s, r)
  BY DEF SlotTurn, Shapes
<1> HIDE DEF r
<1> QED
  BY <1>1, <1>2

LEMMA CloseRow ==
    ASSUME Shapes, NEW s \in Slots, Close(s)
    PROVE  /\ Active(s) /\ push[s].at = "idle"
           /\ \E r \in SlotRecs : /\ SlotTurn(s, r) /\ r.state = "free" /\ r.id = slot[s].id
                                  /\ r.vol = slot[s].vol /\ r.name = slot[s].name
                                  /\ r.sent = slot[s].sent
           /\ told' \in [Slots -> ToldRecs \cup {None}]
           /\ \A o \in Slots : o # s => told'[o] = told[o]
           /\ UNCHANGED <<store, age, ann, voice, push, ctrl, made, asked, mixed, raced, forgotten>>
<1>1. /\ told' \in [Slots -> ToldRecs \cup {None}]
      /\ \A o \in Slots : o # s => told'[o] = told[o]
  BY DEF Close, Shapes
<1> QED
  BY <1>1, StateRow DEF Close

LEMMA RefreshRow ==
    ASSUME Shapes, NEW s \in Slots, Refresh(s)
    PROVE  /\ push[Voice].at = "idle"
           /\ voice' \in [on : BOOLEAN, session : 0 .. MaxTurns, left : SUBSET Slots]
           /\ \/ push' = push
              \/ \E p \in PushRecs : PushTurn(Voice, p) /\ p.at = "settings" /\ p.slot = s
           /\ UNCHANGED <<slot, told, store, age, ann, ctrl, made, asked, mixed, raced, forgotten>>
<1>1. \/ push' = push
      \/ \E p \in PushRecs : PushTurn(Voice, p) /\ p.at = "settings" /\ p.slot = s
  BY TaskKinds, Begins DEF Refresh
<1>2. voice' \in [on : BOOLEAN, session : 0 .. MaxTurns, left : SUBSET Slots]
  BY DEF Refresh, Shapes
<1> QED
  BY <1>1, <1>2 DEF Refresh
-----------------------------------------------------------------------------
(* What the steps do: control connections *)

\* A request of controller c changed the client on slot s.
ChangeBegun(c, what, i) ==
    \E s \in Found(i), r \in SlotRecs, k \in CtrlRecs :
      /\ SlotTurn(s, r) /\ r.state = slot[s].state /\ r.id = slot[s].id /\ r.sent = slot[s].sent
      /\ what = "volume" => r.name = slot[s].name
      /\ what = "name"   => r.vol = slot[s].vol /\ k.req.entry.name = r.name
      /\ CtrlTurn(c, k) /\ k.pc = "entry" /\ k.spoke = TRUE
      /\ k.req.what = what /\ k.req.id = i /\ k.req.slot = s
      /\ raced' = IF Storing(i) # {} THEN raced \cup {i} ELSE raced

\* The controller answers without having changed anything.
Answered(c) == \E k \in CtrlRecs : CtrlTurn(c, k) /\ k.pc = "seen" /\ k.req = ctrl[c].req /\ k.spoke = TRUE

LEMMA ApplyRow ==
    ASSUME Shapes, NEW c \in Controllers, NEW what \in {"volume", "name"}, NEW i \in Ids, NEW new,
           what = "volume" => new \in Settable, what = "name" => new \in Names,
           Apply(c, what, i, new)
    PROVE  /\ ctrl[c].pc = "idle" /\ asked' \in 0 .. MaxAsked
           /\ \/ Answered(c) /\ UNCHANGED <<slot, raced>>
              \/ ChangeBegun(c, what, i)
           /\ UNCHANGED <<told, store, age, ann, voice, push, made, mixed, forgotten>>
<1>1. asked' \in 0 .. MaxAsked /\ ctrl[c].pc = "idle"
  <2>1. asked' = asked + 1 /\ asked < MaxAsked /\ ctrl[c].pc = "idle"
    BY DEF Apply
  <2>2. asked \in 0 .. MaxAsked
    BY DEF Shapes
  <2> QED
    BY <2>1, <2>2, SettingsAssumption
<1>2. ctrl[c] \in CtrlRecs
  BY DEF Shapes
<1>3. CASE Found(i) = {}
  <2> DEFINE k == [ctrl[c] EXCEPT !.pc = "seen", !.spoke = TRUE]
  <2>1. k \in CtrlRecs /\ k.pc = "seen" /\ k.req = ctrl[c].req /\ k.spoke = TRUE
    BY <1>2 DEF CtrlRecs
  <2>2. CtrlTurn(c, k) /\ UNCHANGED <<slot, raced>>
    BY <1>3 DEF Apply, CtrlTurn, Shapes
  <2> HIDE DEF k
  <2>3. Answered(c)
    BY <2>1, <2>2 DEF Answered
  <2> QED
    BY <1>1, <2>2, <2>3 DEF Apply
<1>4. CASE Found(i) # {}
  <2>1. PICK s \in Found(i) :
           /\ slot' = IF what = "volume" THEN [slot EXCEPT ![s].vol = new]
                                         ELSE [slot EXCEPT ![s].name = new]
           /\ ctrl' = [ctrl EXCEPT ![c].pc = "entry", ![c].spoke = TRUE,
                         ![c].req = [IdleReq EXCEPT !.what = what, !.id = i, !.slot = s,
                                       !.entry.name = IF what = "name" THEN new ELSE NoName]]
           /\ raced' = IF Storing(i) # {} THEN raced \cup {i} ELSE raced
    BY <1>4 DEF Apply
  <2>2. s \in Slots /\ slot[s] \in SlotRecs
    BY DEF Found, Shapes
  <2> DEFINE n == IF what = "name" THEN new ELSE NoName
             q == [IdleReq EXCEPT !.what = what, !.id = i, !.slot = s, !.entry.name = n]
             k == [ctrl[c] EXCEPT !.pc = "entry", !.spoke = TRUE, !.req = q]
             r == IF what = "volume" THEN [slot[s] EXCEPT !.vol = new]
                                     ELSE [slot[s] EXCEPT !.name = new]
  <2>3. /\ r \in SlotRecs /\ r.state = slot[s].state /\ r.id = slot[s].id /\ r.sent = slot[s].sent
        /\ what = "volume" => r.name = slot[s].name
        /\ what = "name"   => r.vol = slot[s].vol /\ r.name = new
    BY <2>2 DEF SlotRecs
  <2>4. SlotTurn(s, r)
    BY <2>1, <2>2 DEF SlotTurn, Shapes
  <2>5. CtrlTurn(c, k)
    <3>1. ctrl' = [ctrl EXCEPT ![c].pc = "entry", ![c].spoke = TRUE, ![c].req = q]
      BY <2>1
    <3> HIDE DEF q
    <3> QED
      BY <3>1 DEF CtrlTurn, Shapes
  <2>6. n \in Names \cup {NoName} /\ (what = "name" => n = new)
    OBVIOUS
  <2> HIDE DEF r, n
  <2>7. q \in Reqs /\ q.what = what /\ q.id = i /\ q.slot = s /\ q.entry.name = n
    BY <2>2, <2>6, Blanks DEF Reqs, Entries
  <2> HIDE DEF q
  <2>8. k \in CtrlRecs /\ k.pc = "entry" /\ k.spoke = TRUE /\ k.req = q
    BY <1>2, <2>7 DEF CtrlRecs
  <2> HIDE DEF k
  <2>9. ChangeBegun(c, what, i)
    BY <2>1, <2>3, <2>4, <2>5, <2>6, <2>7, <2>8 DEF ChangeBegun
  <2> QED
    BY <1>1, <2>9 DEF Apply
<1> QED
  BY <1>3, <1>4

\* The request is dealt with; a volume is pushed.
Settled(c) ==
    \E k \in CtrlRecs :
      /\ CtrlTurn(c, k) /\ k.req = IdleReq /\ k.spoke = ctrl[c].spoke
      /\ \/ /\ ctrl[c].req.what = "volume" /\ k.pc = "push"
            /\ \E p \in PushRecs : PushTurn(c, p) /\ p.at = "settings" /\ p.slot = ctrl[c].req.slot
         \/ ctrl[c].req.what # "volume" /\ k.pc = "seen" /\ push' = push

LEMMA SettledRow ==
    ASSUME Shapes, NEW c \in Controllers, ctrl[c].req.slot \in Slots, AfterStore(c)
    PROVE  Settled(c)
<1>1. ctrl[c] \in CtrlRecs
  BY DEF Shapes
<1>2. CASE ctrl[c].req.what = "volume"
  <2> DEFINE k == [ctrl[c] EXCEPT !.pc = "push", !.req = IdleReq]
  <2>1. k \in CtrlRecs /\ k.pc = "push" /\ k.req = IdleReq /\ k.spoke = ctrl[c].spoke
    BY <1>1, Blanks DEF CtrlRecs
  <2>2. CtrlTurn(c, k) /\ push' = StartPush(c, ctrl[c].req.slot)
    BY <1>2 DEF AfterStore, CtrlTurn, Shapes
  <2> HIDE DEF k
  <2>3. \E p \in PushRecs : PushTurn(c, p) /\ p.at = "settings" /\ p.slot = ctrl[c].req.slot
    BY <2>2, TaskKinds, Begins
  <2> QED
    BY <1>2, <2>1, <2>2, <2>3 DEF Settled
<1>3. CASE ctrl[c].req.what # "volume"
  <2> DEFINE k == [ctrl[c] EXCEPT !.pc = "seen", !.req = IdleReq]
  <2>1. k \in CtrlRecs /\ k.pc = "seen" /\ k.req = IdleReq /\ k.spoke = ctrl[c].spoke
    BY <1>1, Blanks DEF CtrlRecs
  <2>2. CtrlTurn(c, k) /\ push' = push
    BY <1>3 DEF AfterStore, CtrlTurn, Shapes
  <2> HIDE DEF k
  <2> QED
    BY <1>3, <2>1, <2>2 DEF Settled
<1> QED
  BY <1>2, <1>3

LEMMA RememberNameRow ==
    ASSUME Shapes, NEW c \in Controllers, ctrl[c].req.id \in Ids, RememberName(c)
    PROVE  /\ ctrl[c].pc = "entry"
           /\ \E k \in CtrlRecs :
                /\ CtrlTurn(c, k) /\ k.pc = "live" /\ k.spoke = ctrl[c].spoke
                /\ k.req.what = ctrl[c].req.what /\ k.req.id = ctrl[c].req.id
                /\ k.req.slot = ctrl[c].req.slot
                /\ k.req.entry.name = IF ctrl[c].req.what = "name" THEN ctrl[c].req.entry.name
                                      ELSE Stored(ctrl[c].req.id).name
           /\ UNCHANGED <<slot, told, store, age, ann, voice, push, made, asked, mixed, raced, forgotten>>
<1> DEFINE q == ctrl[c].req
           n == IF q.what = "name" THEN q.entry.name
                ELSE IF store[q.id] = None THEN NoName ELSE store[q.id].name
           k == [ctrl[c] EXCEPT !.pc = "live", !.req.entry.name = n]
<1>1. ctrl[c] \in CtrlRecs
  BY DEF Shapes
<1>2. q \in Reqs /\ q.entry \in Entries
  BY <1>1 DEF CtrlRecs, Reqs
<1>3. q.entry.name \in Names \cup {NoName}
  BY <1>2 DEF Entries
<1>4. store[q.id] \in Entries \cup {None}
  BY DEF Shapes, Fitting
<1>5. n \in Names \cup {NoName}
  BY <1>3, <1>4 DEF Entries
<1>6. CtrlTurn(c, k)
  <2>1. ctrl' = [ctrl EXCEPT ![c].pc = "live", ![c].req.entry.name = n]
    BY DEF RememberName
  <2>2. ctrl \in [Controllers -> CtrlRecs]
    BY DEF Shapes
  <2> HIDE DEF n
  <2> QED
    BY <2>1, <2>2, Zenon DEF CtrlTurn
<1>7. n = IF q.what = "name" THEN q.entry.name ELSE Stored(q.id).name
  BY DEF Stored
<1> HIDE DEF n
<1>8. /\ k \in CtrlRecs /\ k.pc = "live" /\ k.spoke = ctrl[c].spoke
      /\ k.req.what = q.what /\ k.req.id = q.id /\ k.req.slot = q.slot /\ k.req.entry.name = n
  BY <1>1, <1>2, <1>5 DEF CtrlRecs, Reqs, Entries
<1> HIDE DEF k
<1> QED
  BY <1>6, <1>7, <1>8 DEF RememberName

LEMMA RememberLiveRow ==
    ASSUME Shapes, NEW c \in Controllers, ctrl[c].req.slot \in Slots, RememberLive(c)
    PROVE  /\ ctrl[c].pc = "live"
           /\ \/ Found(ctrl[c].req.id) = {} /\ Settled(c)
              \/ /\ push' = push
                 /\ \E s \in Found(ctrl[c].req.id), k \in CtrlRecs :
                      /\ CtrlTurn(c, k) /\ k.pc = "put" /\ k.spoke = ctrl[c].spoke
                      /\ k.req.what = ctrl[c].req.what /\ k.req.id = ctrl[c].req.id
                      /\ k.req.slot = ctrl[c].req.slot
                      /\ k.req.entry = [vol |-> slot[s].vol, name |-> ctrl[c].req.entry.name]
           /\ UNCHANGED <<slot, told, store, age, ann, voice, made, asked, mixed, raced, forgotten>>
<1>1. CASE Found(ctrl[c].req.id) = {}
  BY <1>1, SettledRow DEF RememberLive
<1>2. CASE Found(ctrl[c].req.id) # {}
  <2>1. push' = push
    BY <1>2 DEF RememberLive
  <2>2. PICK s \in Found(ctrl[c].req.id) :
           ctrl' = [ctrl EXCEPT ![c].pc = "put", ![c].req.entry.vol = slot[s].vol]
    BY <1>2 DEF RememberLive
  <2> DEFINE v == slot[s].vol
             q == ctrl[c].req
             k == [ctrl[c] EXCEPT !.pc = "put", !.req.entry.vol = v]
  <2>3. ctrl[c] \in CtrlRecs /\ s \in Slots
    BY DEF Shapes, Found
  <2>4. v \in Settable
    BY <2>3 DEF Shapes, SlotRecs
  <2>5. q \in Reqs /\ q.entry \in Entries
    BY <2>3 DEF CtrlRecs, Reqs
  <2>6. CtrlTurn(c, k)
    <3>1. ctrl' = [ctrl EXCEPT ![c].pc = "put", ![c].req.entry.vol = v]
      BY <2>2
    <3>2. ctrl \in [Controllers -> CtrlRecs]
      BY DEF Shapes
    <3> HIDE DEF v
    <3> QED
      BY <3>1, <3>2, Zenon DEF CtrlTurn
  <2>7. /\ k \in CtrlRecs /\ k.pc = "put" /\ k.spoke = ctrl[c].spoke
        /\ k.req.what = q.what /\ k.req.id = q.id /\ k.req.slot = q.slot
        /\ k.req.entry = [vol |-> v, name |-> q.entry.name]
    <3> HIDE DEF v
    <3> QED
      BY <2>3, <2>4, <2>5 DEF CtrlRecs, Reqs, Entries
  <2> HIDE DEF k
  <2> QED
    BY <2>1, <2>6, <2>7 DEF RememberLive
<1> QED
  BY <1>1, <1>2

LEMMA RememberPutRow ==
    ASSUME Shapes, NEW c \in Controllers, ctrl[c].req.slot \in Slots, ctrl[c].req.id \in Ids,
           RememberPut(c)
    PROVE  /\ ctrl[c].pc = "put"
           /\ store' \in [Ids -> Fitting \cup {None}] /\ age' \in [of : [Ids -> Nat], newest : Nat]
           /\ store'[ctrl[c].req.id] # None
           /\ store'[ctrl[c].req.id].vol = Clamp(ctrl[c].req.entry.vol)
           /\ store'[ctrl[c].req.id].name = ctrl[c].req.entry.name
           /\ forgotten' \subseteq Ids /\ forgotten \subseteq forgotten'
           /\ \A j \in Ids : j # ctrl[c].req.id
                => store'[j] = store[j] \/ (store'[j] = None /\ j \in forgotten')
           /\ Settled(c)
           /\ UNCHANGED <<slot, told, ann, voice, made, asked, mixed, raced>>
<1> DEFINE i == ctrl[c].req.id
           q == ctrl[c].req.entry
           e == [q EXCEPT !.vol = Clamp(@)]
<1>1. q \in Entries
  BY DEF Shapes, CtrlRecs, Reqs
<1>2. e \in Fitting /\ e # None /\ e.vol = Clamp(q.vol) /\ e.name = q.name
  <2>1. e \in Entries /\ e.vol = Clamp(q.vol) /\ e.name = q.name
    BY <1>1, Clamps DEF Entries
  <2>2. Clamp(e.vol) = e.vol
    BY <1>1, <2>1, Clamps DEF Entries
  <2> HIDE DEF e
  <2> QED
    BY <2>1, <2>2, SettingsAssumption DEF Fitting
<1>3. Put(i, e)
  BY DEF RememberPut
<1>4. Settled(c)
  BY SettledRow DEF RememberPut
<1>5. \A out \in Evicted(i) : out \subseteq Ids
  BY DEF Evicted, Oldest, HasEntry
<1> HIDE DEF e
<1>6. /\ store' \in [Ids -> Fitting \cup {None}] /\ store'[i] = e
      /\ age' \in [of : [Ids -> Nat], newest : Nat]
      /\ forgotten' \subseteq Ids /\ forgotten \subseteq forgotten'
      /\ \A j \in Ids : j # i => store'[j] = store[j] \/ (store'[j] = None /\ j \in forgotten')
  <2>1. CASE store[i] = e
    BY <1>3, <2>1 DEF Put, Shapes
  <2>2. CASE store[i] # e
    <3>1. PICK out \in Evicted(i) :
            /\ store' = [j \in Ids |-> IF j = i THEN e ELSE IF j \in out THEN None ELSE store[j]]
            /\ age' = [of |-> [age.of EXCEPT ![i] = age.newest + 1], newest |-> age.newest + 1]
            /\ forgotten' = forgotten \cup out
      BY <1>3, <2>2 DEF Put
    <3>2. age' \in [of : [Ids -> Nat], newest : Nat]
      BY <3>1 DEF Shapes
    <3> QED
      BY <1>2, <1>5, <3>1, <3>2 DEF Shapes
  <2> QED
    BY <2>1, <2>2
<1> QED
  BY <1>2, <1>4, <1>6 DEF RememberPut

\* What a controller is shown is a list of slots.
LEMMA ListingShown ==
    ASSUME Shapes PROVE Listing \in Lists
<1> DEFINE S == {r \in Slots : Live(r)}
<1>1. \A s \in S : [slot[s] EXCEPT !.sent = Quiet] \in SlotRecs
  BY Blanks DEF Shapes, SlotRecs
<1>2. Listing \in [S -> SlotRecs]
  BY <1>1 DEF Listing
<1>3. S \in SUBSET Slots
  OBVIOUS
<1> HIDE DEF S
<1> QED
  BY <1>2, <1>3 DEF Lists, Shown

LEMMA GetStatusRow ==
    ASSUME Shapes, NEW c \in Controllers, GetStatus(c)
    PROVE  /\ ctrl[c].pc = "idle" /\ asked' \in 0 .. MaxAsked /\ Answered(c)
           /\ UNCHANGED <<slot, told, store, age, ann, voice, push, made, mixed, raced, forgotten>>
<1> DEFINE k == [ctrl[c] EXCEPT !.pc = "seen", !.shown = Listing, !.spoke = TRUE]
<1>1. ctrl[c] \in CtrlRecs
  BY DEF Shapes
<1>2. k \in CtrlRecs /\ k.pc = "seen" /\ k.req = ctrl[c].req /\ k.spoke = TRUE
  BY <1>1, ListingShown DEF CtrlRecs
<1>3. CtrlTurn(c, k)
  BY DEF GetStatus, CtrlTurn, Shapes
<1> HIDE DEF k
<1>4. asked' \in 0 .. MaxAsked
  BY SettingsAssumption DEF GetStatus, Shapes
<1> QED
  BY <1>2, <1>3, <1>4 DEF GetStatus, Answered

\* The controller looks at the list or is shown it, and has no request.
Looks(c) ==
    \E k \in CtrlRecs :
      /\ CtrlTurn(c, k) /\ k.pc \in {"idle", "update", "gone"}
      /\ k.req = ctrl[c].req /\ k.spoke = ctrl[c].spoke
      /\ \/ ctrl[c].pc = "seen"
         \/ ctrl[c].pc = "idle" /\ k.last = ctrl[c].last /\ k.shown = ctrl[c].shown
         \/ ctrl[c].pc = "update" /\ k.shown = Listing
         \/ ctrl[c].pc \in {"idle", "update"} /\ k.last = None /\ k.shown = None

LEMMA LookRow ==
    ASSUME Shapes, NEW c \in Controllers, Seen(c) \/ Poll(c) \/ Update(c) \/ HangUp(c)
    PROVE  /\ Looks(c)
           /\ UNCHANGED <<slot, told, store, age, ann, voice, push, made, asked, mixed, raced, forgotten>>
<1>1. ctrl[c] \in CtrlRecs /\ None \in Lists /\ Listing \in Lists /\ Hash = Listing
  BY Blanks, ListingShown DEF Shapes, Hash
<1>2. CASE Seen(c)
  <2> DEFINE h == IF c \in Watched THEN Hash ELSE None
             k == [ctrl[c] EXCEPT !.pc = "idle", !.last = h]
  <2>1. CtrlTurn(c, k) /\ h \in Lists
    BY <1>1, <1>2 DEF Seen, CtrlTurn, Shapes
  <2> HIDE DEF h
  <2>2. k \in CtrlRecs /\ k.pc = "idle" /\ k.req = ctrl[c].req /\ k.spoke = ctrl[c].spoke
    BY <1>1, <2>1 DEF CtrlRecs
  <2> HIDE DEF k
  <2> QED
    BY <1>2, <2>1, <2>2 DEF Seen, Looks
<1>3. CASE Poll(c)
  <2> DEFINE k == [ctrl[c] EXCEPT !.pc = "update", !.seen = Hash]
  <2>1. CtrlTurn(c, k)
    BY <1>3 DEF Poll, CtrlTurn, Shapes
  <2>2. /\ k \in CtrlRecs /\ k.pc = "update" /\ k.req = ctrl[c].req /\ k.spoke = ctrl[c].spoke
        /\ k.last = ctrl[c].last /\ k.shown = ctrl[c].shown
    BY <1>1 DEF CtrlRecs
  <2> HIDE DEF k
  <2> QED
    BY <1>3, <2>1, <2>2 DEF Poll, Looks
<1>4. CASE Update(c)
  <2> DEFINE k == [ctrl[c] EXCEPT !.pc = "idle", !.shown = Listing, !.last = ctrl[c].seen,
                                  !.seen = None]
  <2>1. CtrlTurn(c, k)
    BY <1>4 DEF Update, CtrlTurn, Shapes
  <2>2. /\ k \in CtrlRecs /\ k.pc = "idle" /\ k.req = ctrl[c].req /\ k.spoke = ctrl[c].spoke
        /\ k.shown = Listing
    BY <1>1 DEF CtrlRecs
  <2> HIDE DEF k
  <2> QED
    BY <1>4, <2>1, <2>2 DEF Update, Looks
<1>5. CASE HangUp(c)
  <2> DEFINE k == [ctrl[c] EXCEPT !.pc = "gone", !.seen = None, !.last = None, !.shown = None]
  <2>1. CtrlTurn(c, k)
    BY <1>5 DEF HangUp, CtrlTurn, Shapes
  <2>2. /\ k \in CtrlRecs /\ k.pc = "gone" /\ k.req = ctrl[c].req /\ k.spoke = ctrl[c].spoke
        /\ k.last = None /\ k.shown = None
    BY <1>1 DEF CtrlRecs
  <2> HIDE DEF k
  <2> QED
    BY <1>5, <2>1, <2>2 DEF HangUp, Looks
<1> QED
  BY <1>2, <1>3, <1>4, <1>5

-----------------------------------------------------------------------------
(* What a step leaves alone *)

\* A controller that has only listened looks away, or was shown what there is.
Attentive(c) ==
    \/ ctrl'[c].spoke
    \/ ctrl'[c].spoke = ctrl[c].spoke /\ ctrl'[c].last = ctrl[c].last /\ ctrl'[c].shown = ctrl[c].shown
    \/ ctrl'[c].last = Hash' => ctrl'[c].shown = Listing'

\* What every step of the model is shown to do.
Preserved == Shapes' /\ Turns' /\ Carried' /\ Kept' /\ (\A c \in Controllers : Attentive(c))

LEMMA CtrlStays ==
    ASSUME NEW c \in Controllers, CtrlInTurn(c), ctrl'[c] = ctrl[c], push'[c] = push[c]
    PROVE  CtrlInTurn(c)' /\ Attentive(c)
BY DEF CtrlInTurn, Busy, Attentive

LEMMA SlotStays ==
    ASSUME NEW s \in Slots, SlotInTurn(s), slot'[s] = slot[s], push'[s] = push[s]
    PROVE  SlotInTurn(s)'
BY DEF SlotInTurn

\* The controller that waited for a push is an ordinary one again.
LEMMA CallerStays ==
    ASSUME Sound, NEW t \in Tasks, push[t].at # "idle", PushTurn(t, IdlePush), CallerGoesOn(t)
    PROVE  /\ ctrl' \in [Controllers -> CtrlRecs]
           /\ \A c \in Controllers : /\ CtrlInTurn(c)' /\ Attentive(c)
                                     /\ ctrl'[c].req = ctrl[c].req
                                     /\ Busy(c)' <=> Busy(c)
                                     /\ Busy(c) => ctrl'[c] = ctrl[c]
<1>1. /\ push'[t] = IdlePush /\ IdlePush.at = "idle"
      /\ \A u \in Tasks : u # t => push'[u] = push[u]
  BY Blanks, PushTurns DEF Sound
<1>2. CASE t \notin Controllers
  <2>1. \A c \in Controllers : ctrl'[c] = ctrl[c] /\ push'[c] = push[c] /\ CtrlInTurn(c)
    BY <1>1, <1>2, TaskKinds DEF CallerGoesOn, Sound, Turns
  <2>2. ctrl' \in [Controllers -> CtrlRecs]
    BY <1>2 DEF CallerGoesOn, Sound, Shapes
  <2> QED
    BY <2>1, <2>2, CtrlStays DEF Busy
<1>3. CASE t \in Controllers
  <2>1. PICK k \in CtrlRecs : /\ CtrlTurn(t, k) /\ k.pc = "seen" /\ k.req = ctrl[t].req
                              /\ k.last = ctrl[t].last /\ k.shown = ctrl[t].shown
                              /\ k.spoke = ctrl[t].spoke
    BY <1>3 DEF CallerGoesOn
  <2>2. /\ ctrl' \in [Controllers -> CtrlRecs] /\ ctrl'[t] = k
        /\ \A d \in Controllers : d # t => ctrl'[d] = ctrl[d]
    BY <1>3, <2>1, CtrlTurns DEF Sound
  <2>3. CtrlInTurn(t) /\ ctrl[t].pc = "push"
    BY <1>3 DEF Sound, Turns, CtrlInTurn
  <2>4. ~Busy(t) /\ ctrl[t].req = IdleReq /\ ctrl[t].spoke
    BY <2>3 DEF CtrlInTurn, Busy, Sound, Shapes, CtrlRecs
  <2>5. CtrlInTurn(t)' /\ Attentive(t) /\ ~Busy(t)' /\ ctrl'[t].req = ctrl[t].req
    BY <1>1, <2>1, <2>2, <2>4 DEF CtrlInTurn, Attentive, Busy
  <2>6. ASSUME NEW c \in Controllers, c # t
        PROVE  CtrlInTurn(c)' /\ Attentive(c) /\ ctrl'[c] = ctrl[c]
    BY <1>1, <2>2, <2>6, TaskKinds, CtrlStays DEF Sound, Turns
  <2> QED
    BY <2>2, <2>4, <2>5, <2>6 DEF Busy
<1> QED
  BY <1>2, <1>3

\* The copies of a slot stay, and a fresher one is to come or nothing that
\* they are compared with changes.
LEMMA CarriedStays ==
    ASSUME NEW s, CarriedTo(s), Copied(s)' = Copied(s),
           \A t \in Copied(s) : /\ push'[t].vol = push[t].vol
                                /\ push'[t].at = "send" => push'[t].sil = slot'[s].sent,
           \/ ToCome(s)'
           \/ /\ ~ToCome(s) /\ slot'[s].vol = slot[s].vol
              /\ slot'[s].state \in {"settings", "ready"} /\ Copied(s) = {}
                   => /\ slot[s].state \in {"settings", "ready"}
                      /\ told'[s] = told[s] /\ slot'[s].sent = slot[s].sent
    PROVE  CarriedTo(s)'
<1>1. \A t, u \in Copied(s)' : t = u
  BY DEF CarriedTo
<1>2. \A t \in Copied(s)' : /\ push'[t].vol = slot'[s].vol \/ ToCome(s)'
                            /\ push'[t].at = "send" => push'[t].sil = slot'[s].sent
  BY DEF CarriedTo
<1>3. slot'[s].state \in {"settings", "ready"} /\ Copied(s)' = {} /\ ~ToCome(s)'
        => told'[s] = [vol |-> slot'[s].vol, sil |-> slot'[s].sent]
  BY DEF CarriedTo
<1> QED
  BY <1>1, <1>2, <1>3 DEF CarriedTo

\* Nothing of a slot's pushes and requests changes.
LEMMA CarriedUntouched ==
    ASSUME NEW s, CarriedTo(s),
           \A t \in Tasks : push'[t] = push[t]
                            \/ /\ push[t].slot # s \/ push[t].at \notin {"settings", "flag", "record", "send"}
                               /\ push'[t].slot # s \/ push'[t].at \notin {"flag", "record", "send"},
           \A c \in Controllers : ctrl[c].req.what = "volume" /\ ctrl[c].req.slot = s
                                    => \/ ctrl'[c].req.what = "volume" /\ ctrl'[c].req.slot = s
                                       \/ \E t \in Tasks : push'[t].at = "settings" /\ push'[t].slot = s,
           slot'[s].sent = slot[s].sent,
           \/ ToCome(s)'
           \/ slot'[s].state \notin {"settings", "ready"} /\ slot'[s].vol = slot[s].vol
           \/ slot'[s].vol = slot[s].vol /\ slot[s].state \in {"settings", "ready"} /\ told'[s] = told[s]
    PROVE  CarriedTo(s)'
<1>1. Copied(s)' = Copied(s)
  BY DEF Copied
<1>2. \A t \in Copied(s) : push'[t] = push[t]
  BY DEF Copied
<1>3. ToCome(s) => ToCome(s)'
  BY DEF ToCome
<1>4. \A t \in Copied(s) : /\ push'[t].vol = push[t].vol
                           /\ push'[t].at = "send" => push'[t].sil = slot'[s].sent
  BY <1>2 DEF CarriedTo
<1> QED
  BY <1>1, <1>3, <1>4, CarriedStays

\* What is stored stays, or it made room for another entry.
LEMMA AgreesStays ==
    ASSUME NEW i, NEW s, slot'[s].vol = slot[s].vol, slot'[s].name = slot[s].name,
           \/ store'[i] = store[i] /\ (i \in forgotten => i \in forgotten')
           \/ store'[i] = None /\ i \in forgotten'
    PROVE  /\ Agrees(i, s) => Agrees(i, s)'
           /\ NameKept(i, Stored(i).name, s) => NameKept(i, Stored(i).name, s)'
           /\ \A n : NameKept(i, n, s) => (n = slot'[s].name \/ (i \in forgotten' /\ n = NoName))
<1>1. CASE store'[i] = store[i] /\ (i \in forgotten => i \in forgotten')
  BY <1>1 DEF Agrees, NameKept, Stored, Has
<1>2. CASE store'[i] = None /\ i \in forgotten'
  BY <1>2 DEF Agrees, NameKept, Stored
<1> QED
  BY <1>1, <1>2

\* The name that is stored is the one the client has.
LEMMA AgreesName ==
    ASSUME NEW i, NEW s, Agrees(i, s) PROVE NameKept(i, Stored(i).name, s)
BY DEF Agrees, NameKept, Stored, Has

\* No connection of the id came, no request for it began or went on.
LEMMA KeptStays ==
    ASSUME NEW i, KeptFor(i), Found(i)' \subseteq Found(i),
           \A s \in Found(i)' : slot'[s].vol = slot[s].vol /\ slot'[s].name = slot[s].name,
           Storing(i)' = Storing(i),
           \A c \in Storing(i) : ctrl'[c].pc = ctrl[c].pc /\ ctrl'[c].req = ctrl[c].req,
           \/ store'[i] = store[i] /\ (i \in forgotten => i \in forgotten')
           \/ store'[i] = None /\ i \in forgotten'
    PROVE  KeptFor(i)'
<1>1. ASSUME NEW s \in Found(i)'
      PROVE  /\ s \in Found(i) /\ slot'[s].vol = slot[s].vol
             /\ Agrees(i, s) => Agrees(i, s)'
             /\ NameKept(i, Stored(i).name, s) => NameKept(i, Stored(i).name, s)'
             /\ \A n : NameKept(i, n, s) => (n = slot'[s].name \/ (i \in forgotten' /\ n = NoName))
  BY AgreesStays
<1>2. \A r, s \in Found(i)' : r = s
  BY DEF KeptFor
<1>3. \A c, d \in Storing(i)' : c = d
  BY DEF KeptFor
<1>4. ASSUME NEW s \in Found(i)', NEW c \in Storing(i)'
      PROVE  /\ ctrl'[c].pc = "entry" /\ ctrl'[c].req.what = "volume"
                  => NameKept(i, Stored(i).name, s)'
             /\ ctrl'[c].pc = "entry" /\ ctrl'[c].req.what = "name"
                  => NameKept(i, ctrl[c].req.entry.name, s)'
             /\ ctrl'[c].pc = "live" => NameKept(i, ctrl[c].req.entry.name, s)'
             /\ ctrl'[c].pc = "put"  => /\ ctrl'[c].req.entry.vol = slot'[s].vol
                                        /\ NameKept(i, ctrl[c].req.entry.name, s)'
  <2>1. c \in Storing(i) /\ ctrl'[c].pc = ctrl[c].pc /\ ctrl'[c].req = ctrl[c].req
    OBVIOUS
  <2>2. NameKept(i, ctrl[c].req.entry.name, s) => NameKept(i, ctrl[c].req.entry.name, s)'
    BY <1>1, <2>1 DEF NameKept
  <2> QED
    BY <1>1, <2>1, <2>2 DEF KeptFor
<1>5. \A s \in Found(i)' : Storing(i)' = {} => Agrees(i, s)'
  BY <1>1 DEF KeptFor
<1> QED
  BY <1>2, <1>3, <1>4, <1>5 DEF KeptFor

\* Slots keep what they have and are active no more than before; requests are
\* what they were.
LEMMA KeptUntouched ==
    ASSUME Kept, store' = store, raced' = raced, forgotten' = forgotten,
           \A s \in Slots : \/ slot'[s].state \notin {"accepted", "settings", "ready"}
                            \/ slot'[s].id = NoId
                            \/ /\ slot'[s].id = slot[s].id /\ slot'[s].vol = slot[s].vol
                               /\ slot'[s].name = slot[s].name /\ Active(s),
           \A c \in Controllers : (Busy(c)' <=> Busy(c)) /\ (Busy(c) => ctrl'[c] = ctrl[c])
    PROVE  Kept'
<1> SUFFICES ASSUME NEW i \in Ids \ raced PROVE KeptFor(i)'
  BY DEF Kept
<1>1. KeptFor(i) /\ i # NoId
  BY SettingsAssumption DEF Kept
<1>2. /\ Found(i)' \subseteq Found(i)
      /\ \A s \in Found(i)' : slot'[s].vol = slot[s].vol /\ slot'[s].name = slot[s].name
  BY <1>1 DEF Found, Active
<1>3. Storing(i)' = Storing(i) /\ \A c \in Storing(i) : ctrl'[c] = ctrl[c]
  BY DEF Storing, Busy
<1>4. store'[i] = store[i] /\ (i \in forgotten => i \in forgotten')
  OBVIOUS
<1> QED
  BY <1>1, <1>2, <1>3, <1>4, KeptStays

-----------------------------------------------------------------------------
(* The steps of a push *)

\* A push reads the settings or the flag: the copy is under way.
LEMMA PushReadStep ==
    ASSUME Sound, Carried, Kept, undone' \subseteq Controllers, NEW t \in Tasks,
           PushSettings(t) \/ PushFlag(t)
    PROVE  Preserved
<1>1. UNCHANGED <<slot, told, store, age, ann, voice, ctrl, made, asked, raced, forgotten>>
  BY PushSettingsRow, PushFlagRow DEF Sound
<1>2. push[t].slot \in Slots /\ push[t].at \in {"settings", "flag"}
  BY PushSettingsRow, PushFlagRow DEF Sound
<1>3. PICK p \in PushRecs : /\ PushTurn(t, p) /\ p.slot = push[t].slot
                            /\ p.at = IF push[t].at = "settings" THEN "flag" ELSE "record"
                            /\ p.vol = IF push[t].at = "settings" THEN slot[push[t].slot].vol
                                       ELSE push[t].vol
  BY PushSettingsRow, PushFlagRow DEF Sound
<1>4. /\ push' \in [Tasks -> PushRecs] /\ push'[t] = p
      /\ \A u \in Tasks : u # t => push'[u] = push[u]
      /\ \A u \in Tasks : push'[u].at = "idle" <=> push'[u].slot = None
  BY <1>2, <1>3, PushTurns, Blanks DEF Sound
<1>5. IF push[t].at = "settings"
      THEN mixed' = IF Pushing(push[t].slot) = {t} THEN mixed \ {push[t].slot}
                    ELSE mixed \cup {push[t].slot}
      ELSE mixed' = mixed
  BY PushSettingsRow, PushFlagRow DEF Sound
<1>6. Shapes'
  BY <1>1, <1>2, <1>4, <1>5 DEF Sound, Shapes
<1>7. \A c \in Controllers : CtrlInTurn(c)' /\ Attentive(c)
  BY <1>1, <1>2, <1>3, <1>4, TaskKinds DEF Sound, Turns, CtrlInTurn, Busy, Attentive
<1>8. \A s \in Slots : SlotInTurn(s)'
  BY <1>1, <1>2, <1>3, <1>4, TaskKinds DEF Sound, Turns, SlotInTurn
<1>9. Carried'
  <2> SUFFICES ASSUME NEW s \in Slots \ mixed' PROVE CarriedTo(s)'
    BY DEF Carried
  <2>1. CASE s # push[t].slot
    <3>1. CarriedTo(s)
      BY <1>5, <2>1 DEF Carried
    <3> QED
      BY <1>1, <1>3, <1>4, <2>1, <3>1, CarriedUntouched DEF CarriedTo, ToCome, Copied
  <2>2. CASE s = push[t].slot /\ push[t].at = "settings"
    <3>1. Pushing(s) = {t}
      BY <1>5, <2>2
    <3>2. Copied(s)' = {t}
      BY <1>3, <1>4, <2>2, <3>1 DEF Copied, Pushing
    <3>3. push'[t].vol = slot'[s].vol /\ push'[t].at = "flag"
      BY <1>1, <1>3, <1>4, <2>2
    <3> QED
      BY <3>2, <3>3 DEF CarriedTo
  <2>3. CASE s = push[t].slot /\ push[t].at = "flag"
    <3>1. CarriedTo(s)
      BY <1>5, <2>3 DEF Carried
    <3>2. Copied(s)' = Copied(s) /\ t \in Copied(s)
      BY <1>3, <1>4, <2>3 DEF Copied
    <3>3. ToCome(s)' <=> ToCome(s)
      BY <1>1, <1>3, <1>4, <2>3 DEF ToCome
    <3>4. \A u \in Copied(s) : /\ push'[u].vol = push[u].vol
                               /\ push'[u].at = "send" => push'[u].sil = slot'[s].sent
      BY <1>1, <1>3, <1>4, <2>3, <3>1 DEF CarriedTo, Copied
    <3> QED
      BY <1>1, <3>1, <3>2, <3>3, <3>4, CarriedStays
  <2> QED
    BY <1>2, <2>1, <2>2, <2>3
<1>10. Kept'
  BY <1>1, KeptUntouched DEF Active, Busy
<1> QED
  BY <1>6, <1>7, <1>8, <1>9, <1>10 DEF Preserved, Turns

\* The flags are recorded as sent.
LEMMA PushRecordStep ==
    ASSUME Sound, Carried, Kept, undone' \subseteq Controllers, NEW t \in Tasks, PushRecord(t)
    PROVE  Preserved
<1> DEFINE z == push[t].slot
<1>1. /\ UNCHANGED <<told, store, age, ann, voice, ctrl, made, asked, mixed, raced, forgotten>>
      /\ z \in Slots /\ push[t].at = "record"
  BY PushRecordRow DEF Sound
<1>2. PICK p \in PushRecs : /\ PushTurn(t, p) /\ p.at = "send" /\ p.slot = z
                            /\ p.vol = push[t].vol /\ p.sil = push[t].sil
  BY PushRecordRow DEF Sound
<1>3. PICK r \in SlotRecs : /\ SlotTurn(z, r) /\ r.sent = push[t].sil
                            /\ r.state = slot[z].state /\ r.id = slot[z].id
                            /\ r.vol = slot[z].vol /\ r.name = slot[z].name
  BY PushRecordRow DEF Sound
<1>4. /\ push' \in [Tasks -> PushRecs] /\ push'[t] = p
      /\ \A u \in Tasks : u # t => push'[u] = push[u]
      /\ \A u \in Tasks : push'[u].at = "idle" <=> push'[u].slot = None
  BY <1>1, <1>2, PushTurns, Blanks DEF Sound
<1>5. /\ slot' \in [Slots -> SlotRecs] /\ slot'[z] = r
      /\ \A o \in Slots : o # z => slot'[o] = slot[o]
  BY <1>1, <1>3, SlotTurns DEF Sound
<1>6. \A s \in Slots : /\ slot'[s].state = slot[s].state /\ slot'[s].id = slot[s].id
                       /\ slot'[s].vol = slot[s].vol /\ slot'[s].name = slot[s].name
  BY <1>3, <1>5
<1>7. Shapes'
  BY <1>1, <1>4, <1>5 DEF Sound, Shapes
<1>8. \A c \in Controllers : CtrlInTurn(c)' /\ Attentive(c)
  BY <1>1, <1>2, <1>4, TaskKinds DEF Sound, Turns, CtrlInTurn, Busy, Attentive
<1>9. \A s \in Slots : SlotInTurn(s)'
  BY <1>1, <1>2, <1>4, <1>6, TaskKinds DEF Sound, Turns, SlotInTurn
<1>10. Carried'
  <2> SUFFICES ASSUME NEW s \in Slots \ mixed PROVE CarriedTo(s)'
    BY <1>1 DEF Carried
  <2>1. CarriedTo(s)
    BY DEF Carried
  <2>2. CASE s # z
    BY <1>1, <1>2, <1>4, <1>5, <2>1, <2>2, CarriedUntouched DEF CarriedTo, ToCome, Copied
  <2>3. CASE s = z
    <3>1. Copied(s)' = Copied(s) /\ t \in Copied(s)
      BY <1>1, <1>2, <1>4, <2>3 DEF Copied
    <3>2. \A u \in Copied(s) : u = t
      BY <2>1, <3>1 DEF CarriedTo
    <3>3. ToCome(s)' <=> ToCome(s)
      BY <1>1, <1>2, <1>4, <2>3 DEF ToCome
    <3>4. \A u \in Copied(s) : /\ push'[u].vol = push[u].vol
                               /\ push'[u].at = "send" => push'[u].sil = slot'[s].sent
      BY <1>2, <1>3, <1>4, <1>5, <2>3, <3>2
    <3> QED
      BY <1>6, <2>1, <3>1, <3>3, <3>4, CarriedStays
  <2> QED
    BY <2>2, <2>3
<1>11. Kept'
  BY <1>1, <1>6, KeptUntouched DEF Active, Busy
<1> QED
  BY <1>7, <1>8, <1>9, <1>10, <1>11 DEF Preserved, Turns

\* The only push that knows the slot's settings reaches the client.
LEMMA PushSendStep ==
    ASSUME Sound, Carried, Kept, undone' \subseteq Controllers, NEW t \in Tasks, PushSend(t)
    PROVE  Preserved
<1> DEFINE z == push[t].slot
<1>1. /\ UNCHANGED <<slot, store, age, ann, voice, made, asked, mixed, raced, forgotten>>
      /\ z \in Slots /\ push[t].at = "send" /\ PushTurn(t, IdlePush) /\ CallerGoesOn(t)
  BY PushSendRow DEF Sound
<1>2. /\ told' \in [Slots -> ToldRecs \cup {None}]
      /\ told'[z] = [vol |-> push[t].vol, sil |-> push[t].sil]
      /\ \A o \in Slots : o # z => told'[o] = told[o]
  BY PushSendRow DEF Sound
<1>3. /\ push' \in [Tasks -> PushRecs] /\ push'[t] = IdlePush /\ IdlePush.at = "idle"
      /\ \A u \in Tasks : u # t => push'[u] = push[u]
      /\ \A u \in Tasks : push'[u].at = "idle" <=> push'[u].slot = None
  BY <1>1, PushTurns, Blanks DEF Sound
<1>4. /\ ctrl' \in [Controllers -> CtrlRecs]
      /\ \A c \in Controllers : /\ CtrlInTurn(c)' /\ Attentive(c)
                                /\ ctrl'[c].req = ctrl[c].req
                                /\ Busy(c)' <=> Busy(c)
                                /\ Busy(c) => ctrl'[c] = ctrl[c]
  BY <1>1, CallerStays
<1>5. Shapes'
  BY <1>1, <1>2, <1>3, <1>4 DEF Sound, Shapes
<1>6. \A s \in Slots : SlotInTurn(s)'
  BY <1>1, <1>3, TaskKinds DEF Sound, Turns, SlotInTurn
<1>7. Carried'
  <2> SUFFICES ASSUME NEW s \in Slots \ mixed PROVE CarriedTo(s)'
    BY <1>1 DEF Carried
  <2>1. CarriedTo(s)
    BY DEF Carried
  <2>2. ToCome(s)' <=> ToCome(s)
    BY <1>1, <1>3, <1>4 DEF ToCome
  <2>3. CASE s # z
    BY <1>1, <1>2, <1>3, <1>4, <2>1, <2>2, <2>3, CarriedUntouched DEF CarriedTo, ToCome, Copied
  <2>4. CASE s = z
    <3>1. t \in Copied(s) /\ \A u \in Copied(s) : u = t
      BY <1>1, <2>1, <2>4 DEF CarriedTo, Copied
    <3>2. Copied(s)' = {}
      BY <1>3, <3>1 DEF Copied
    <3>3. ~ToCome(s) => push[t].vol = slot[s].vol /\ push[t].sil = slot[s].sent
      BY <1>1, <2>1, <3>1 DEF CarriedTo
    <3>4. ~ToCome(s)' => told'[s] = [vol |-> slot'[s].vol, sil |-> slot'[s].sent]
      BY <1>1, <1>2, <2>2, <2>4, <3>3
    <3> QED
      BY <3>2, <3>4 DEF CarriedTo
  <2> QED
    BY <2>3, <2>4
<1>8. Kept'
  BY <1>1, <1>4, KeptUntouched DEF Active
<1> QED
  BY <1>4, <1>5, <1>6, <1>7, <1>8 DEF Preserved, Turns

\* A push that is dropped marks its slot.
LEMMA PushRefusedStep ==
    ASSUME Sound, Carried, Kept, undone' \subseteq Controllers, NEW t \in Tasks, PushRefused(t)
    PROVE  Preserved
<1> DEFINE z == push[t].slot
<1>1. /\ UNCHANGED <<store, age, ann, voice, made, asked, raced, forgotten>> /\ mixed' = mixed \cup {z}
      /\ z \in Slots /\ push[t].at = "send" /\ PushTurn(t, IdlePush) /\ CallerGoesOn(t)
      /\ told' \in [Slots -> ToldRecs \cup {None}]
      /\ \A o \in Slots : o # z => told'[o] = told[o]
  BY PushRefusedRow DEF Sound
<1>2. /\ slot' \in [Slots -> SlotRecs]
      /\ \A s \in Slots : \/ slot'[s] = slot[s]
                          \/ /\ s = t /\ s = z /\ slot'[s].state = "free"
                             /\ slot'[s].sent = slot[s].sent
  <2>1. CASE slot' = slot
    BY <2>1 DEF Sound, Shapes
  <2>2. CASE slot' # slot
    <3>1. t \in Slots
      BY <2>2, PushRefusedRow DEF Sound
    <3>2. z = t
      BY <1>1, <3>1 DEF Sound, Turns, SlotInTurn
    <3>3. PICK r \in SlotRecs : SlotTurn(t, r) /\ r.state = "free" /\ r.sent = slot[t].sent
      BY <2>2, PushRefusedRow DEF Sound
    <3>4. /\ slot' \in [Slots -> SlotRecs] /\ slot'[t] = r
          /\ \A o \in Slots : o # t => slot'[o] = slot[o]
      BY <3>1, <3>3, SlotTurns DEF Sound
    <3> QED
      BY <3>2, <3>3, <3>4
  <2> QED
    BY <2>1, <2>2
<1>3. /\ push' \in [Tasks -> PushRecs] /\ push'[t] = IdlePush /\ IdlePush.at = "idle"
      /\ \A u \in Tasks : u # t => push'[u] = push[u]
      /\ \A u \in Tasks : push'[u].at = "idle" <=> push'[u].slot = None
  BY <1>1, PushTurns, Blanks DEF Sound
<1>4. /\ ctrl' \in [Controllers -> CtrlRecs]
      /\ \A c \in Controllers : /\ CtrlInTurn(c)' /\ Attentive(c)
                                /\ ctrl'[c].req = ctrl[c].req
                                /\ Busy(c)' <=> Busy(c)
                                /\ Busy(c) => ctrl'[c] = ctrl[c]
  BY <1>1, CallerStays
<1>5. Shapes'
  BY <1>1, <1>2, <1>3, <1>4 DEF Sound, Shapes
<1>6. \A s \in Slots : SlotInTurn(s)'
  BY <1>1, <1>2, <1>3, TaskKinds DEF Sound, Turns, SlotInTurn
<1>7. Carried'
  <2> SUFFICES ASSUME NEW s \in Slots \ mixed' PROVE CarriedTo(s)'
    BY DEF Carried
  <2>1. CarriedTo(s) /\ s # z
    BY <1>1 DEF Carried
  <2>2. ToCome(s)' <=> ToCome(s)
    BY <1>1, <1>3, <1>4 DEF ToCome
  <2>3. Copied(s)' = Copied(s)
    BY <1>1, <1>3, <2>1 DEF Copied
  <2>4. slot'[s] = slot[s] /\ told'[s] = told[s]
    BY <1>1, <1>2, <2>1
  <2>5. \A u \in Copied(s) : push'[u] = push[u]
    BY <1>1, <1>3, <2>1 DEF Copied
  <2>6. \A u \in Copied(s) : push[u].at = "send" => push[u].sil = slot[s].sent
    BY <2>1 DEF CarriedTo
  <2> QED
    BY <2>1, <2>2, <2>3, <2>4, <2>5, <2>6, CarriedStays
<1>8. Kept'
  BY <1>1, <1>2, <1>4, KeptUntouched DEF Active, Sound, Shapes, SlotRecs
<1> QED
  BY <1>4, <1>5, <1>6, <1>7, <1>8 DEF Preserved, Turns

-----------------------------------------------------------------------------
(* The steps of a connection and of an announcement *)

LEMMA AcceptStep ==
    ASSUME Sound, Carried, Kept, undone' \subseteq Controllers, NEW z \in Slots, Accept(z)
    PROVE  Preserved
<1>1. /\ UNCHANGED <<store, age, ann, voice, push, ctrl, asked, raced, forgotten>>
      /\ slot[z].state = "free" /\ push[z].at = "idle" /\ made' \in 0 .. MaxConn
      /\ told' \in [Slots -> ToldRecs \cup {None}]
      /\ \A o \in Slots : o # z => told'[o] = told[o]
      /\ mixed' = IF Pushing(z) = {} THEN mixed \ {z} ELSE mixed \cup {z}
  BY AcceptRow DEF Sound
<1>2. PICK r \in SlotRecs : SlotTurn(z, r) /\ r.state = "accepted" /\ r.id = NoId /\ r.vol = DefaultVol
  BY AcceptRow DEF Sound
<1>3. /\ slot' \in [Slots -> SlotRecs] /\ slot'[z] = r
      /\ \A o \in Slots : o # z => slot'[o] = slot[o]
  BY <1>2, SlotTurns DEF Sound
<1>4. Shapes'
  BY <1>1, <1>3 DEF Sound, Shapes
<1>5. \A c \in Controllers : CtrlInTurn(c)' /\ Attentive(c)
  BY <1>1, CtrlStays DEF Sound, Turns
<1>6. \A s \in Slots : SlotInTurn(s)'
  BY <1>1, <1>2, <1>3 DEF Sound, Turns, SlotInTurn
<1>7. Carried'
  <2> SUFFICES ASSUME NEW s \in Slots \ mixed' PROVE CarriedTo(s)'
    BY DEF Carried
  <2>1. CASE s # z
    <3>1. CarriedTo(s) /\ slot'[s] = slot[s] /\ told'[s] = told[s]
      BY <1>1, <1>3, <2>1 DEF Carried
    <3>2. Copied(s)' = Copied(s) /\ (ToCome(s)' <=> ToCome(s))
      BY <1>1 DEF Copied, ToCome
    <3> QED
      BY <1>1, <3>1, <3>2 DEF CarriedTo
  <2>2. CASE s = z
    <3>1. Pushing(s) = {}
      BY <1>1, <2>2
    <3>2. Copied(s)' = {}
      BY <1>1, <3>1 DEF Copied, Pushing
    <3> QED
      BY <1>2, <1>3, <2>2, <3>2 DEF CarriedTo
  <2> QED
    BY <2>1, <2>2
<1>8. Kept'
  <2>1. \A s \in Slots : \/ slot'[s].state \notin {"accepted", "settings", "ready"}
                         \/ slot'[s].id = NoId
                         \/ /\ slot'[s].id = slot[s].id /\ slot'[s].vol = slot[s].vol
                            /\ slot'[s].name = slot[s].name /\ Active(s)
    BY <1>2, <1>3 DEF Active
  <2> QED
    BY <1>1, <2>1, KeptUntouched DEF Busy
<1> QED
  BY <1>4, <1>5, <1>6, <1>7, <1>8 DEF Preserved, Turns

\* The connection is ready, or ends: what its slot has stays.
LEMMA StateStep ==
    ASSUME Sound, Carried, Kept, undone' \subseteq Controllers, NEW z \in Slots,
           Ready(z) \/ Close(z)
    PROVE  Preserved
<1>1. /\ UNCHANGED <<store, age, ann, voice, push, ctrl, made, asked, mixed, raced, forgotten>>
      /\ Active(z) /\ push[z].at = "idle"
      /\ told' \in [Slots -> ToldRecs \cup {None}]
      /\ \A o \in Slots : o # z => told'[o] = told[o]
  BY CloseRow DEF Sound, Shapes, Ready, Active
<1>2. PICK r \in SlotRecs : /\ SlotTurn(z, r) /\ r.id = slot[z].id
                            /\ r.vol = slot[z].vol /\ r.name = slot[z].name
                            /\ r.sent = slot[z].sent
                            /\ \/ r.state = "free"
                               \/ /\ r.state = "ready" /\ slot[z].state = "settings"
                                  /\ told'[z] = told[z]
  BY CloseRow, StateRow DEF Sound, Ready
<1>3. /\ slot' \in [Slots -> SlotRecs] /\ slot'[z] = r
      /\ \A o \in Slots : o # z => slot'[o] = slot[o]
  BY <1>2, SlotTurns DEF Sound
<1>4. Shapes'
  BY <1>1, <1>3 DEF Sound, Shapes
<1>5. \A c \in Controllers : CtrlInTurn(c)' /\ Attentive(c)
  BY <1>1, CtrlStays DEF Sound, Turns
<1>6. \A s \in Slots : SlotInTurn(s)'
  BY <1>1, <1>2, <1>3 DEF Sound, Turns, SlotInTurn
<1>7. Carried'
  <2> SUFFICES ASSUME NEW s \in Slots \ mixed PROVE CarriedTo(s)'
    BY <1>1 DEF Carried
  <2>1. CarriedTo(s)
    BY DEF Carried
  <2>2. Copied(s)' = Copied(s) /\ (ToCome(s)' <=> ToCome(s))
    BY <1>1 DEF Copied, ToCome
  <2>3. \A u \in Copied(s) : push[u].at = "send" => push[u].sil = slot[s].sent
    BY <2>1 DEF CarriedTo
  <2>4. CASE s # z
    BY <1>1, <1>3, <2>1, <2>2, <2>4 DEF CarriedTo
  <2>5. CASE s = z
    BY <1>1, <1>2, <1>3, <2>1, <2>2, <2>3, <2>5, CarriedStays
  <2> QED
    BY <2>4, <2>5
<1>8. Kept'
  <2>1. \A s \in Slots : \/ slot'[s].state \notin {"accepted", "settings", "ready"}
                         \/ slot'[s].id = NoId
                         \/ /\ slot'[s].id = slot[s].id /\ slot'[s].vol = slot[s].vol
                            /\ slot'[s].name = slot[s].name /\ Active(s)
    BY <1>1, <1>2, <1>3 DEF Active
  <2> QED
    BY <1>1, <2>1, KeptUntouched DEF Busy
<1> QED
  BY <1>4, <1>5, <1>6, <1>7, <1>8 DEF Preserved, Turns

\* What is remembered comes back, unless a request or another connection of
\* the same id is about to change it.
LEMMA HelloStep ==
    ASSUME Sound, Carried, Kept, undone' \subseteq Controllers, NEW z \in Slots, NEW i \in Ids,
           Hello(z, i)
    PROVE  Preserved
<1>1. /\ UNCHANGED <<told, store, age, ann, voice, ctrl, made, asked, mixed>>
      /\ slot[z].state = "accepted"
      /\ raced' = IF Storing(i) # {} \/ \E o \in Slots \ {z} : Active(o) /\ slot[o].id = i
                  THEN raced \cup {i} ELSE raced \ {i}
      /\ forgotten' = forgotten \ {i}
  BY HelloRow DEF Sound
<1>2. PICK r \in SlotRecs :
        /\ SlotTurn(z, r) /\ r.state = "settings" /\ r.id = i /\ r.sent = slot[z].sent
        /\ r.vol = IF store[i] = None THEN slot[z].vol ELSE store[i].vol
        /\ r.name = IF store[i] = None THEN NoName ELSE store[i].name
  BY HelloRow DEF Sound
<1>3. PICK p \in PushRecs : PushTurn(z, p) /\ p.at = "settings" /\ p.slot = z
  BY HelloRow DEF Sound
<1>4. /\ slot' \in [Slots -> SlotRecs] /\ slot'[z] = r
      /\ \A o \in Slots : o # z => slot'[o] = slot[o]
  BY <1>2, SlotTurns DEF Sound
<1>5. z \in Tasks
  BY TaskKinds
<1>6. /\ push' \in [Tasks -> PushRecs] /\ push'[z] = p
      /\ \A u \in Tasks : u # z => push'[u] = push[u]
      /\ \A u \in Tasks : push'[u].at = "idle" <=> push'[u].slot = None
  BY <1>3, <1>5, PushTurns, Blanks DEF Sound
<1>7. push[z].at = "idle" /\ slot[z].id = NoId /\ slot[z].vol = DefaultVol
  BY <1>1 DEF Sound, Turns, SlotInTurn
<1>8. Shapes'
  BY <1>1, <1>4, <1>6 DEF Sound, Shapes
<1>9. \A c \in Controllers : CtrlInTurn(c)' /\ Attentive(c)
  BY <1>1, <1>6, TaskKinds, CtrlStays DEF Sound, Turns
<1>10. \A s \in Slots : SlotInTurn(s)'
  BY <1>2, <1>3, <1>4, <1>6, TaskKinds DEF Sound, Turns, SlotInTurn
<1>11. Carried'
  <2> SUFFICES ASSUME NEW s \in Slots \ mixed PROVE CarriedTo(s)'
    BY <1>1 DEF Carried
  <2>1. CarriedTo(s)
    BY DEF Carried
  <2>2. Copied(s)' = Copied(s) /\ \A u \in Copied(s) : push'[u] = push[u]
    BY <1>3, <1>6, <1>7 DEF Copied
  <2>3. \A u \in Copied(s) : push[u].at = "send" => push[u].sil = slot[s].sent
    BY <2>1 DEF CarriedTo
  <2>4. CASE s # z
    <3>1. ToCome(s)' <=> ToCome(s)
      BY <1>1, <1>3, <1>6, <1>7, <2>4 DEF ToCome
    <3> QED
      BY <1>1, <1>4, <2>1, <2>2, <2>3, <2>4, <3>1, CarriedStays
  <2>5. CASE s = z
    <3>1. ToCome(s)'
      BY <1>3, <1>5, <1>6, <2>5 DEF ToCome
    <3> QED
      BY <1>2, <1>4, <2>1, <2>2, <2>3, <2>5, <3>1, CarriedStays
  <2> QED
    BY <2>4, <2>5
<1>12. Kept'
  <2> SUFFICES ASSUME NEW j \in Ids \ raced' PROVE KeptFor(j)'
    BY DEF Kept
  <2>1. j # NoId /\ Storing(j)' = Storing(j) /\ store'[j] = store[j]
    BY <1>1, Blanks DEF Storing
  <2>2. CASE j # i
    <3>1. KeptFor(j) /\ (j \in forgotten => j \in forgotten')
      BY <1>1, <2>2 DEF Kept
    <3>2. Found(j)' \subseteq Found(j) /\ \A s \in Found(j)' : slot'[s] = slot[s]
      BY <1>2, <1>4, <2>2 DEF Found, Active
    <3> QED
      BY <1>1, <2>1, <3>1, <3>2, KeptStays
  <2>3. CASE j = i
    <3>1. Storing(i) = {} /\ \A o \in Slots \ {z} : ~(Active(o) /\ slot[o].id = i)
      BY <1>1, <2>3
    <3>2. \A s \in Found(i)' : s = z
      BY <1>4, <3>1 DEF Found, Active
    <3>3. Agrees(i, z)'
      <4>1. CASE store[i] = None
        BY <1>2, <1>4, <1>7, <2>1, <2>3, <4>1 DEF Agrees, Has
      <4>2. CASE store[i] # None
        <5>1. store[i].vol = Clamp(store[i].vol)
          BY <4>2 DEF Sound, Shapes, Fitting
        <5>2. slot'[z].vol = store[i].vol /\ slot'[z].name = store[i].name
          BY <1>2, <1>4, <4>2
        <5> QED
          BY <2>1, <2>3, <4>2, <5>1, <5>2 DEF Agrees, NameKept
      <4> QED
        BY <4>1, <4>2
    <3> QED
      BY <2>1, <2>3, <3>1, <3>2, <3>3 DEF KeptFor
  <2> QED
    BY <2>2, <2>3
<1> QED
  BY <1>8, <1>9, <1>10, <1>11, <1>12 DEF Preserved, Turns

\* The voice task refreshes a slot, or sees an announcement turn.
LEMMA VoiceStep ==
    ASSUME Sound, Carried, Kept, undone' \subseteq Controllers,
           (\E z \in Slots : Refresh(z)) \/ Turn \/ Notice
    PROVE  Preserved
<1>1. /\ UNCHANGED <<slot, told, store, age, ctrl, made, mixed, raced, forgotten>>
      /\ asked' \in 0 .. MaxAsked
  <2>1. UNCHANGED <<slot, told, store, age, ctrl, made, mixed, raced, forgotten>>
    BY DEF Refresh, Turn, Notice
  <2>2. asked' = asked \/ (asked' = asked + 1 /\ asked < MaxAsked)
    BY DEF Refresh, Turn, Notice
  <2>3. asked \in 0 .. MaxAsked
    BY DEF Sound, Shapes
  <2> QED
    BY <2>1, <2>2, <2>3, SettingsAssumption
<1>2. /\ ann' \in [on : BOOLEAN, session : 0 .. MaxTurns]
      /\ voice' \in [on : BOOLEAN, session : 0 .. MaxTurns, left : SUBSET Slots]
  <2>1. CASE \E z \in Slots : Refresh(z)
    BY <2>1, RefreshRow DEF Refresh, Sound, Shapes
  <2>2. CASE Turn
    <3>1. /\ ann.on \in BOOLEAN /\ ann.session \in 0 .. MaxTurns /\ ann.session < MaxTurns
          /\ ann' = [on |-> ~ann.on, session |-> ann.session + 1] /\ voice' = voice
      BY <2>2 DEF Turn, Sound, Shapes
    <3>2. ann.session + 1 \in 0 .. MaxTurns
      BY <3>1, SettingsAssumption
    <3>3. (~ann.on) \in BOOLEAN
      OBVIOUS
    <3> QED
      BY <3>1, <3>2, <3>3 DEF Sound, Shapes
  <2>3. CASE Notice
    BY <2>3 DEF Notice, Sound, Shapes
  <2> QED
    BY <2>1, <2>2, <2>3
<1>3. \/ push' = push
      \/ /\ push[Voice].at = "idle"
         /\ \E p \in PushRecs : PushTurn(Voice, p) /\ p.at = "settings" /\ p.slot \in Slots
  BY RefreshRow DEF Turn, Notice, Sound
<1>4. /\ push' \in [Tasks -> PushRecs]
      /\ \A u \in Tasks : u # Voice => push'[u] = push[u]
      /\ \A u \in Tasks : push'[u].at = "idle" <=> push'[u].slot = None
      /\ \/ push'[Voice] = push[Voice]
         \/ push[Voice].at = "idle" /\ push'[Voice].at = "settings"
  <2>1. CASE push' = push
    BY <2>1 DEF Sound, Shapes
  <2>2. CASE push' # push
    <3>1. PICK p \in PushRecs : PushTurn(Voice, p) /\ p.at = "settings" /\ p.slot \in Slots
      BY <1>3, <2>2
    <3> QED
      BY <1>3, <2>2, <3>1, TaskKinds, Blanks, PushTurns DEF Sound
  <2> QED
    BY <2>1, <2>2
<1>5. Shapes'
  BY <1>1, <1>2, <1>4 DEF Sound, Shapes
<1>6. \A c \in Controllers : CtrlInTurn(c)' /\ Attentive(c)
  BY <1>1, <1>4, TaskKinds, CtrlStays DEF Sound, Turns
<1>7. \A s \in Slots : SlotInTurn(s)'
  BY <1>1, <1>4, TaskKinds, SlotStays DEF Sound, Turns
<1>8. Carried'
  <2> SUFFICES ASSUME NEW s \in Slots \ mixed PROVE CarriedTo(s)'
    BY <1>1 DEF Carried
  <2>1. CarriedTo(s)
    BY DEF Carried
  <2>2. Copied(s)' = Copied(s) /\ \A u \in Copied(s) : push'[u] = push[u]
    BY <1>4 DEF Copied
  <2>3. ToCome(s) => ToCome(s)'
    BY <1>1, <1>4 DEF ToCome
  <2>4. \A u \in Copied(s) : push[u].at = "send" => push[u].sil = slot[s].sent
    BY <2>1 DEF CarriedTo
  <2> QED
    BY <1>1, <2>1, <2>2, <2>3, <2>4, CarriedStays
<1>9. Kept'
  BY <1>1, KeptUntouched DEF Active, Busy
<1> QED
  BY <1>5, <1>6, <1>7, <1>8, <1>9 DEF Preserved, Turns

-----------------------------------------------------------------------------
(* The steps of a controller *)

\* The controller's record changes, no push and no slot does.
LEMMA OneCtrl ==
    ASSUME Sound, NEW c \in Controllers, NEW k \in CtrlRecs, CtrlTurn(c, k), push' = push
    PROVE  /\ ctrl' \in [Controllers -> CtrlRecs] /\ ctrl'[c] = k
           /\ \A d \in Controllers : d # c => /\ ctrl'[d] = ctrl[d]
                                              /\ CtrlInTurn(d)' /\ Attentive(d)
BY CtrlTurns, CtrlStays DEF Sound, Turns

\* Answering, or looking at the list, touches no request.
LEMMA WatchStep ==
    ASSUME Sound, Carried, Kept, undone' \subseteq Controllers, NEW c \in Controllers,
           asked' \in 0 .. MaxAsked, Looks(c) \/ (Answered(c) /\ ctrl[c].pc = "idle"),
           UNCHANGED <<slot, told, store, age, ann, voice, push, made, mixed, raced, forgotten>>
    PROVE  Preserved
<1>1. ~Busy(c) /\ ctrl[c].req = IdleReq /\ ctrl[c].pc # "push"
  BY DEF Sound, Turns, CtrlInTurn, Busy, Looks
<1>2. PICK k \in CtrlRecs :
        /\ CtrlTurn(c, k) /\ k.pc \in {"idle", "update", "gone", "seen"} /\ k.req = ctrl[c].req
        /\ \/ k.spoke = TRUE
           \/ k.spoke = ctrl[c].spoke /\ k.pc # "seen"
        /\ \/ k.spoke = TRUE \/ ctrl[c].pc = "seen"
           \/ k.last = ctrl[c].last /\ k.shown = ctrl[c].shown
           \/ k.shown = Listing
           \/ k.last = None /\ k.shown = None
  BY DEF Looks, Answered
<1>3. /\ ctrl' \in [Controllers -> CtrlRecs] /\ ctrl'[c] = k
      /\ \A d \in Controllers : d # c => /\ ctrl'[d] = ctrl[d]
                                         /\ CtrlInTurn(d)' /\ Attentive(d)
  BY <1>2, OneCtrl
<1>4. CtrlInTurn(c)
  BY DEF Sound, Turns
<1>5. CtrlInTurn(c)'
  BY <1>1, <1>2, <1>3, <1>4 DEF CtrlInTurn, Busy
<1>6. Listing' = Listing /\ Hash' = Listing
  BY DEF Listing, Hash, Live
<1>7. ctrl[c].spoke \in BOOLEAN
  BY DEF Sound, Shapes, CtrlRecs
<1>8. Attentive(c)
  <2>1. CASE k.spoke
    BY <1>3, <2>1 DEF Attentive
  <2>2. CASE ~k.spoke
    <3>1. k.spoke = ctrl[c].spoke /\ ctrl[c].pc # "seen"
      BY <1>2, <1>4, <2>2 DEF CtrlInTurn
    <3> QED
      BY <1>2, <1>3, <1>6, <2>2, <3>1 DEF Attentive
  <2> QED
    BY <2>1, <2>2
<1>9. \A d \in Controllers : ctrl'[d].req = ctrl[d].req /\ (Busy(d)' <=> Busy(d))
                             /\ (Busy(d) => ctrl'[d] = ctrl[d])
  BY <1>1, <1>2, <1>3 DEF Busy
<1>10. Shapes'
  BY <1>3 DEF Sound, Shapes
<1>11. \A s \in Slots : SlotInTurn(s)'
  BY DEF Sound, Turns, SlotInTurn
<1>12. Carried'
  <2>1. ASSUME NEW s \in Slots PROVE Copied(s)' = Copied(s) /\ (ToCome(s)' <=> ToCome(s))
    BY <1>9 DEF Copied, ToCome
  <2> QED
    BY <2>1 DEF Carried, CarriedTo
<1>13. Kept'
  BY <1>9, KeptUntouched DEF Active
<1> QED
  BY <1>3, <1>5, <1>8, <1>10, <1>11, <1>12, <1>13 DEF Preserved, Turns

\* A controller changes a client's volume or name.
LEMMA ChangeStep ==
    ASSUME Sound, Carried, Kept, undone' \subseteq Controllers, NEW c \in Controllers,
           NEW what \in {"volume", "name"}, NEW i \in Ids, asked' \in 0 .. MaxAsked,
           ctrl[c].pc = "idle", ChangeBegun(c, what, i),
           UNCHANGED <<told, store, age, ann, voice, push, made, mixed, forgotten>>
    PROVE  Preserved
<1>1. PICK z \in Found(i), r \in SlotRecs, k \in CtrlRecs :
        /\ SlotTurn(z, r) /\ r.state = slot[z].state /\ r.id = slot[z].id /\ r.sent = slot[z].sent
        /\ what = "volume" => r.name = slot[z].name
        /\ what = "name"   => r.vol = slot[z].vol /\ k.req.entry.name = r.name
        /\ CtrlTurn(c, k) /\ k.pc = "entry" /\ k.spoke = TRUE
        /\ k.req.what = what /\ k.req.id = i /\ k.req.slot = z
        /\ raced' = IF Storing(i) # {} THEN raced \cup {i} ELSE raced
  BY DEF ChangeBegun
<1>2. z \in Slots /\ Active(z) /\ slot[z].id = i /\ i # NoId
  BY Blanks DEF Found
<1>3. /\ slot' \in [Slots -> SlotRecs] /\ slot'[z] = r
      /\ \A o \in Slots : o # z => slot'[o] = slot[o]
  BY <1>1, <1>2, SlotTurns DEF Sound
<1>4. /\ ctrl' \in [Controllers -> CtrlRecs] /\ ctrl'[c] = k
      /\ \A d \in Controllers : d # c => /\ ctrl'[d] = ctrl[d]
                                         /\ CtrlInTurn(d)' /\ Attentive(d)
  BY <1>1, OneCtrl
<1>5. ~Busy(c) /\ ctrl[c].req = IdleReq /\ push[c].at = "idle" /\ IdleReq.what = "none"
  BY TaskKinds, Blanks DEF Sound, Turns, CtrlInTurn, Busy
<1>6. CtrlInTurn(c)' /\ Attentive(c)
  BY <1>1, <1>2, <1>4, <1>5 DEF CtrlInTurn, Busy, Attentive
<1>7. \A s \in Slots : /\ slot'[s].state = slot[s].state /\ slot'[s].id = slot[s].id
                       /\ slot'[s].sent = slot[s].sent
  BY <1>1, <1>3
<1>8. Shapes'
  BY <1>1, <1>3, <1>4 DEF Sound, Shapes
<1>9. \A s \in Slots : SlotInTurn(s)'
  BY <1>1, <1>2, <1>3 DEF Sound, Turns, SlotInTurn
<1>10. Carried'
  <2> SUFFICES ASSUME NEW s \in Slots \ mixed PROVE CarriedTo(s)'
    BY DEF Carried
  <2>1. CarriedTo(s)
    BY DEF Carried
  <2>2. Copied(s)' = Copied(s) /\ \A u \in Copied(s) : push'[u] = push[u]
    BY DEF Copied
  <2>3. \A u \in Copied(s) : push[u].at = "send" => push[u].sil = slot[s].sent
    BY <2>1 DEF CarriedTo
  <2>4. ToCome(s) => ToCome(s)'
    BY <1>4, <1>5 DEF ToCome
  <2>5. slot'[s].vol = slot[s].vol \/ ToCome(s)'
    <3>1. CASE s = z /\ what = "volume"
      BY <1>1, <1>4, <3>1 DEF ToCome
    <3>2. CASE s # z \/ what = "name"
      BY <1>1, <1>3, <3>2
    <3> QED
      BY <3>1, <3>2
  <2> QED
    BY <1>7, <2>1, <2>2, <2>3, <2>4, <2>5, CarriedStays
<1>11. \A j \in Ids : Found(j)' = Found(j)
  BY <1>7 DEF Found, Active
<1>12. Kept'
  <2> SUFFICES ASSUME NEW j \in Ids \ raced' PROVE KeptFor(j)'
    BY DEF Kept
  <2>1. KeptFor(j) /\ Stored(j)' = Stored(j)
    BY <1>1 DEF Kept, Stored
  <2>2. CASE j # i
    <3>1. \A s \in Found(j)' : slot'[s].vol = slot[s].vol /\ slot'[s].name = slot[s].name
      BY <1>2, <1>3, <1>11, <2>2 DEF Found
    <3>2. Storing(j)' = Storing(j) /\ \A d \in Storing(j) : ctrl'[d] = ctrl[d]
      BY <1>1, <1>4, <1>5, <2>2 DEF Storing, Busy
    <3> QED
      BY <1>11, <2>1, <3>1, <3>2, KeptStays
  <2>3. CASE j = i
    <3>1. Storing(i) = {}
      BY <1>1, <2>3
    <3>2. Storing(i)' = {c}
      BY <1>1, <1>4, <3>1 DEF Storing
    <3>3. \A s \in Found(i)' : s = z
      BY <1>11, <2>1, <2>3 DEF KeptFor
    <3>4. NameKept(i, Stored(i).name, z)
      BY <2>1, <2>3, <3>1, AgreesName DEF KeptFor
    <3>5. what = "volume" => NameKept(i, Stored(i).name, z)'
      BY <1>1, <1>3, <2>1, <2>3, <3>4 DEF NameKept
    <3>6. what = "name" => NameKept(i, ctrl[c].req.entry.name, z)'
      BY <1>1, <1>3, <1>4 DEF NameKept
    <3> QED
      BY <1>1, <1>4, <2>3, <3>2, <3>3, <3>5, <3>6 DEF KeptFor
  <2> QED
    BY <2>2, <2>3
<1> QED
  BY <1>4, <1>6, <1>8, <1>9, <1>10, <1>12 DEF Preserved, Turns

\* A request that goes on: the volume it sets is still to come.
LEMMA RequestGoesOn ==
    ASSUME Sound, NEW c \in Controllers, Busy(c), NEW k \in CtrlRecs, CtrlTurn(c, k), push' = push,
           k.pc \in {"live", "put"}, k.spoke = ctrl[c].spoke, k.req.what = ctrl[c].req.what,
           k.req.id = ctrl[c].req.id, k.req.slot = ctrl[c].req.slot
    PROVE  /\ ctrl' \in [Controllers -> CtrlRecs] /\ ctrl'[c] = k
           /\ \A d \in Controllers : d # c => ctrl'[d] = ctrl[d]
           /\ \A d \in Controllers : CtrlInTurn(d)' /\ Attentive(d)
           /\ \A s \in Slots : ToCome(s)' <=> ToCome(s)
           /\ \A i \in Ids : Storing(i)' = Storing(i)
<1>1. /\ ctrl' \in [Controllers -> CtrlRecs] /\ ctrl'[c] = k
      /\ \A d \in Controllers : d # c => /\ ctrl'[d] = ctrl[d]
                                         /\ CtrlInTurn(d)' /\ Attentive(d)
  BY OneCtrl
<1>2. CtrlInTurn(c) /\ ctrl[c].spoke \in BOOLEAN
  BY DEF Sound, Turns, Shapes, CtrlRecs
<1>3. ctrl[c].spoke
  BY <1>2 DEF CtrlInTurn, Busy
<1>4. CtrlInTurn(c)' /\ Attentive(c)
  BY <1>1, <1>2, <1>3 DEF CtrlInTurn, Busy, Attentive
<1>5. \A s \in Slots : ToCome(s)' <=> ToCome(s)
  BY <1>1 DEF ToCome
<1>6. \A i \in Ids : Storing(i)' = Storing(i)
  BY <1>1 DEF Storing, Busy
<1> QED
  BY <1>1, <1>4, <1>5, <1>6

\* A request that is settled: the volume it set is being pushed.
LEMMA RequestSettled ==
    ASSUME Sound, NEW c \in Controllers, Busy(c), Settled(c)
    PROVE  /\ ctrl' \in [Controllers -> CtrlRecs] /\ push' \in [Tasks -> PushRecs]
           /\ \A u \in Tasks : push'[u].at = "idle" <=> push'[u].slot = None
           /\ \A d \in Controllers : d # c => ctrl'[d] = ctrl[d]
           /\ \A d \in Controllers : CtrlInTurn(d)' /\ Attentive(d)
           /\ \A u \in Slots : push'[u] = push[u]
           /\ \A s \in Slots : /\ Copied(s)' = Copied(s)
                               /\ \A u \in Copied(s) : push'[u] = push[u]
                               /\ ToCome(s) => ToCome(s)'
           /\ \A i \in Ids : Storing(i)' = Storing(i) \ {c}
<1>1. PICK k \in CtrlRecs :
        /\ CtrlTurn(c, k) /\ k.req = IdleReq /\ k.spoke = ctrl[c].spoke
        /\ \/ /\ ctrl[c].req.what = "volume" /\ k.pc = "push"
              /\ \E p \in PushRecs : PushTurn(c, p) /\ p.at = "settings" /\ p.slot = ctrl[c].req.slot
           \/ ctrl[c].req.what # "volume" /\ k.pc = "seen" /\ push' = push
  BY DEF Settled
<1>2. /\ ctrl' \in [Controllers -> CtrlRecs] /\ ctrl'[c] = k
      /\ \A d \in Controllers : d # c => ctrl'[d] = ctrl[d]
  BY <1>1, CtrlTurns DEF Sound
<1>3. CtrlInTurn(c) /\ ctrl[c].spoke \in BOOLEAN /\ ctrl[c].req.slot \in Slots
  BY DEF Sound, Turns, Shapes, CtrlRecs, CtrlInTurn
<1>4. ctrl[c].spoke /\ push[c].at = "idle" /\ c \in Tasks
  BY <1>3, TaskKinds DEF CtrlInTurn, Busy
<1>5. /\ push' \in [Tasks -> PushRecs]
      /\ \A u \in Tasks : push'[u].at = "idle" <=> push'[u].slot = None
      /\ \A u \in Tasks : u # c => push'[u] = push[u]
      /\ \/ /\ ctrl[c].req.what = "volume" /\ k.pc = "push"
            /\ push'[c].at = "settings" /\ push'[c].slot = ctrl[c].req.slot
         \/ ctrl[c].req.what # "volume" /\ k.pc = "seen" /\ push'[c] = push[c]
  <2>1. CASE ctrl[c].req.what = "volume"
    <3>1. PICK p \in PushRecs : PushTurn(c, p) /\ p.at = "settings" /\ p.slot = ctrl[c].req.slot
      BY <1>1, <2>1
    <3>2. p.at = "idle" <=> p.slot = None
      BY <1>3, <3>1, Blanks
    <3> QED
      BY <1>1, <1>4, <2>1, <3>1, <3>2, PushTurns DEF Sound
  <2>2. CASE ctrl[c].req.what # "volume"
    BY <1>1, <2>2 DEF Sound, Shapes
  <2> QED
    BY <2>1, <2>2
<1>6. CtrlInTurn(c)' /\ Attentive(c)
  BY <1>1, <1>2, <1>3, <1>4, <1>5 DEF CtrlInTurn, Busy, Attentive
<1>7. ASSUME NEW d \in Controllers, d # c PROVE CtrlInTurn(d)' /\ Attentive(d)
  BY <1>2, <1>5, <1>7, TaskKinds, CtrlStays DEF Sound, Turns
<1>8. \A u \in Slots : push'[u] = push[u]
  BY <1>5, TaskKinds
<1>9. ASSUME NEW s \in Slots
      PROVE  /\ Copied(s)' = Copied(s) /\ \A u \in Copied(s) : push'[u] = push[u]
             /\ ToCome(s) => ToCome(s)'
  <2>1. Copied(s)' = Copied(s) /\ \A u \in Copied(s) : push'[u] = push[u]
    BY <1>4, <1>5 DEF Copied
  <2>2. ToCome(s) => ToCome(s)'
    BY <1>2, <1>4, <1>5 DEF ToCome
  <2> QED
    BY <2>1, <2>2
<1>10. \A i \in Ids : Storing(i)' = Storing(i) \ {c}
  BY <1>1, <1>2 DEF Storing
<1> QED
  BY <1>2, <1>5, <1>6, <1>7, <1>8, <1>9, <1>10

\* remember_settings takes the stored name for a volume.
LEMMA RememberNameStep ==
    ASSUME Sound, Carried, Kept, undone' \subseteq Controllers, NEW c \in Controllers,
           RememberName(c)
    PROVE  Preserved
<1>1. /\ ctrl[c].pc = "entry" /\ Busy(c) /\ CtrlInTurn(c)
      /\ UNCHANGED <<slot, told, store, age, ann, voice, push, made, asked, mixed, raced, forgotten>>
  BY DEF RememberName, Busy, Sound, Turns
<1> DEFINE i == ctrl[c].req.id
<1>2. i \in Ids /\ ctrl[c].req.what # "none" /\ ctrl[c].req.slot \in Slots
  BY <1>1 DEF CtrlInTurn
<1>3. PICK k \in CtrlRecs :
        /\ CtrlTurn(c, k) /\ k.pc = "live" /\ k.spoke = ctrl[c].spoke
        /\ k.req.what = ctrl[c].req.what /\ k.req.id = i /\ k.req.slot = ctrl[c].req.slot
        /\ k.req.entry.name = IF ctrl[c].req.what = "name" THEN ctrl[c].req.entry.name
                              ELSE Stored(i).name
  BY <1>2, RememberNameRow DEF Sound
<1>4. /\ ctrl' \in [Controllers -> CtrlRecs] /\ ctrl'[c] = k
      /\ \A d \in Controllers : d # c => ctrl'[d] = ctrl[d]
      /\ \A d \in Controllers : CtrlInTurn(d)' /\ Attentive(d)
      /\ \A s \in Slots : ToCome(s)' <=> ToCome(s)
      /\ \A j \in Ids : Storing(j)' = Storing(j)
  BY <1>1, <1>3, RequestGoesOn
<1>5. Shapes'
  BY <1>1, <1>4 DEF Sound, Shapes
<1>6. \A s \in Slots : SlotInTurn(s)'
  BY <1>1 DEF Sound, Turns, SlotInTurn
<1>7. Carried'
  BY <1>1, <1>4 DEF Carried, CarriedTo, Copied
<1>8. Kept'
  <2> SUFFICES ASSUME NEW j \in Ids \ raced PROVE KeptFor(j)'
    BY <1>1 DEF Kept
  <2>1. KeptFor(j) /\ Found(j)' = Found(j) /\ Storing(j)' = Storing(j)
    BY <1>1, <1>4 DEF Kept, Found, Active
  <2>2. CASE j # i
    <3>1. \A d \in Storing(j) : ctrl'[d] = ctrl[d]
      BY <1>4, <2>2 DEF Storing
    <3> QED
      BY <1>1, <2>1, <3>1, KeptStays
  <2>3. CASE j = i
    <3>1. c \in Storing(i) /\ \A d \in Storing(i) : d = c
      BY <1>1, <2>1, <2>3 DEF KeptFor, Storing
    <3>2. ctrl[c].req.what \in {"volume", "name"}
      BY <1>2 DEF Sound, Shapes, CtrlRecs, Reqs
    <3>3. \A s \in Found(i) : NameKept(i, k.req.entry.name, s)
      BY <1>1, <1>3, <2>1, <2>3, <3>1, <3>2 DEF KeptFor
    <3>4. \A s \in Found(j) : NameKept(j, ctrl[c].req.entry.name, s)'
      BY <1>1, <1>4, <2>3, <3>3 DEF NameKept
    <3>5. Storing(j)' = {c} /\ ctrl'[c].pc = "live" /\ Found(j)' = Found(j)
      BY <1>3, <1>4, <2>1, <2>3, <3>1
    <3>6. \A r, s \in Found(j)' : r = s
      BY <2>1 DEF KeptFor
    <3> QED
      BY <3>4, <3>5, <3>6, SMTT(30) DEF KeptFor
  <2> QED
    BY <2>2, <2>3
<1> QED
  BY <1>4, <1>5, <1>6, <1>7, <1>8 DEF Preserved, Turns

\* What is the same in the two ways a request is settled.
LEMMA SettledStep ==
    ASSUME Sound, Carried, undone' \subseteq Controllers, NEW c \in Controllers, Busy(c),
           Settled(c), store' \in [Ids -> Fitting \cup {None}],
           age' \in [of : [Ids -> Nat], newest : Nat], forgotten' \subseteq Ids,
           UNCHANGED <<slot, told, ann, voice, made, asked, mixed, raced>>
    PROVE  Shapes' /\ Turns' /\ Carried' /\ (\A d \in Controllers : Attentive(d))
<1>1. /\ ctrl' \in [Controllers -> CtrlRecs] /\ push' \in [Tasks -> PushRecs]
      /\ \A u \in Tasks : push'[u].at = "idle" <=> push'[u].slot = None
      /\ \A d \in Controllers : CtrlInTurn(d)' /\ Attentive(d)
      /\ \A u \in Slots : push'[u] = push[u]
      /\ \A s \in Slots : /\ Copied(s)' = Copied(s)
                          /\ \A u \in Copied(s) : push'[u] = push[u]
                          /\ ToCome(s) => ToCome(s)'
  BY RequestSettled
<1>2. Shapes'
  BY <1>1 DEF Sound, Shapes
<1>3. \A s \in Slots : SlotInTurn(s)'
  BY <1>1 DEF Sound, Turns, SlotInTurn
<1>4. Carried'
  <2> SUFFICES ASSUME NEW s \in Slots \ mixed PROVE CarriedTo(s)'
    BY DEF Carried
  <2>1. CarriedTo(s)
    BY DEF Carried
  <2>2. \A u \in Copied(s) : push[u].at = "send" => push[u].sil = slot[s].sent
    BY <2>1 DEF CarriedTo
  <2> QED
    BY <1>1, <2>1, <2>2, CarriedStays
<1> QED
  BY <1>1, <1>2, <1>3, <1>4 DEF Turns

\* ... and what the client has; one that is gone is not remembered.
LEMMA RememberLiveStep ==
    ASSUME Sound, Carried, Kept, undone' \subseteq Controllers, NEW c \in Controllers,
           RememberLive(c)
    PROVE  Preserved
<1>1. /\ ctrl[c].pc = "live" /\ Busy(c) /\ CtrlInTurn(c)
      /\ UNCHANGED <<slot, told, store, age, ann, voice, made, asked, mixed, raced, forgotten>>
  BY DEF RememberLive, Busy, Sound, Turns
<1> DEFINE i == ctrl[c].req.id
<1>2. i \in Ids /\ ctrl[c].req.slot \in Slots
  BY <1>1 DEF CtrlInTurn
<1>3. \A j \in Ids \ raced : KeptFor(j) /\ Found(j)' = Found(j) /\ Stored(j)' = Stored(j)
  BY <1>1 DEF Kept, Found, Active, Stored
<1>4. CASE Found(i) = {} /\ Settled(c)
  <2>1. Shapes' /\ Turns' /\ Carried' /\ \A d \in Controllers : Attentive(d)
    BY <1>1, <1>4, SettledStep DEF Sound, Shapes
  <2>2. /\ \A d \in Controllers : d # c => ctrl'[d] = ctrl[d]
        /\ \A j \in Ids : Storing(j)' = Storing(j) \ {c}
    BY <1>1, <1>4, RequestSettled
  <2>3. ASSUME NEW j \in Ids \ raced PROVE KeptFor(j)'
    <3>1. CASE j # i
      <4>1. Storing(j)' = Storing(j) /\ \A d \in Storing(j) : ctrl'[d] = ctrl[d]
        BY <2>2, <3>1 DEF Storing
      <4> QED
        BY <1>1, <1>3, <4>1, KeptStays
    <3>2. CASE j = i
      <4>1. Found(j)' = {} /\ \A d, e \in Storing(j)' : d = e
        BY <1>3, <1>4, <2>2, <3>2 DEF KeptFor
      <4> QED
        BY <4>1 DEF KeptFor
    <3> QED
      BY <3>1, <3>2
  <2>4. Kept'
    BY <1>1, <2>3 DEF Kept
  <2> QED
    BY <2>1, <2>4 DEF Preserved
<1>5. CASE ~(Found(i) = {} /\ Settled(c))
  <2>1. push' = push
    BY <1>2, <1>5, RememberLiveRow DEF Sound
  <2>2. PICK z \in Found(i), k \in CtrlRecs :
          /\ CtrlTurn(c, k) /\ k.pc = "put" /\ k.spoke = ctrl[c].spoke
          /\ k.req.what = ctrl[c].req.what /\ k.req.id = i /\ k.req.slot = ctrl[c].req.slot
          /\ k.req.entry = [vol |-> slot[z].vol, name |-> ctrl[c].req.entry.name]
    BY <1>2, <1>5, RememberLiveRow DEF Sound
  <2>3. /\ ctrl' \in [Controllers -> CtrlRecs] /\ ctrl'[c] = k
        /\ \A d \in Controllers : d # c => ctrl'[d] = ctrl[d]
        /\ \A d \in Controllers : CtrlInTurn(d)' /\ Attentive(d)
        /\ \A s \in Slots : ToCome(s)' <=> ToCome(s)
        /\ \A j \in Ids : Storing(j)' = Storing(j)
    BY <1>1, <2>1, <2>2, RequestGoesOn
  <2>4. Shapes'
    BY <1>1, <2>1, <2>3 DEF Sound, Shapes
  <2>5. \A s \in Slots : SlotInTurn(s)'
    BY <1>1, <2>1 DEF Sound, Turns, SlotInTurn
  <2>6. Carried'
    BY <1>1, <2>1, <2>3 DEF Carried, CarriedTo, Copied
  <2>7. ASSUME NEW j \in Ids \ raced PROVE KeptFor(j)'
    <3>1. CASE j # i
      <4>1. \A d \in Storing(j) : ctrl'[d] = ctrl[d]
        BY <2>3, <3>1 DEF Storing
      <4> QED
        BY <1>1, <1>3, <2>3, <4>1, KeptStays
    <3>2. CASE j = i
      <4>1. c \in Storing(i) /\ \A d \in Storing(i) : d = c
        BY <1>1, <1>3, <3>2 DEF KeptFor, Storing
      <4>2. \A s \in Found(i) : s = z /\ NameKept(i, ctrl[c].req.entry.name, s)
        BY <1>1, <1>3, <3>2, <4>1 DEF KeptFor
      <4>3. \A s \in Found(i) : /\ ctrl'[c].req.entry.vol = slot'[s].vol
                                /\ NameKept(i, ctrl[c].req.entry.name, s)'
        BY <1>1, <2>2, <2>3, <4>2 DEF NameKept
      <4> QED
        BY <1>3, <2>2, <2>3, <3>2, <4>1, <4>3, SMTT(30) DEF KeptFor
    <3> QED
      BY <3>1, <3>2
  <2>8. Kept'
    BY <1>1, <2>7 DEF Kept
  <2> QED
    BY <2>3, <2>4, <2>5, <2>6, <2>8 DEF Preserved, Turns
<1> QED
  BY <1>4, <1>5

\* The entry is stored: it is what the client has.
LEMMA RememberPutStep ==
    ASSUME Sound, Carried, Kept, undone' \subseteq Controllers, NEW c \in Controllers,
           RememberPut(c)
    PROVE  Preserved
<1>1. ctrl[c].pc = "put" /\ Busy(c) /\ CtrlInTurn(c)
  BY DEF RememberPut, Busy, Sound, Turns
<1> DEFINE i == ctrl[c].req.id
<1>2. i \in Ids /\ ctrl[c].req.slot \in Slots
  BY <1>1 DEF CtrlInTurn
<1>3. /\ store' \in [Ids -> Fitting \cup {None}] /\ age' \in [of : [Ids -> Nat], newest : Nat]
      /\ store'[i] # None /\ store'[i].vol = Clamp(ctrl[c].req.entry.vol)
      /\ store'[i].name = ctrl[c].req.entry.name
      /\ forgotten' \subseteq Ids /\ forgotten \subseteq forgotten'
      /\ \A j \in Ids : j # i => store'[j] = store[j] \/ (store'[j] = None /\ j \in forgotten')
      /\ Settled(c)
      /\ UNCHANGED <<slot, told, ann, voice, made, asked, mixed, raced>>
  BY <1>2, RememberPutRow DEF Sound
<1>4. Shapes' /\ Turns' /\ Carried' /\ \A d \in Controllers : Attentive(d)
  BY <1>1, <1>3, SettledStep
<1>5. /\ \A d \in Controllers : d # c => ctrl'[d] = ctrl[d]
      /\ \A j \in Ids : Storing(j)' = Storing(j) \ {c}
  BY <1>1, <1>3, RequestSettled
<1>6. ASSUME NEW j \in Ids \ raced PROVE KeptFor(j)'
  <2>1. KeptFor(j) /\ Found(j)' = Found(j)
    BY <1>3 DEF Kept, Found, Active
  <2>2. CASE j # i
    <3>1. Storing(j)' = Storing(j) /\ \A d \in Storing(j) : ctrl'[d] = ctrl[d]
      BY <1>5, <2>2 DEF Storing
    <3> QED
      BY <1>3, <2>1, <2>2, <3>1, KeptStays
  <2>3. CASE j = i
    <3>1. c \in Storing(i) /\ \A d \in Storing(i) : d = c
      BY <1>1, <2>1, <2>3 DEF KeptFor, Storing
    <3>2. Storing(j)' = {}
      BY <1>5, <2>3, <3>1
    <3>3. \A s \in Found(i) : /\ ctrl[c].req.entry.vol = slot[s].vol
                              /\ NameKept(i, ctrl[c].req.entry.name, s)
      BY <1>1, <2>1, <2>3, <3>1 DEF KeptFor
    <3>4. \A s \in Found(j) : Agrees(j, s)'
      BY <1>3, <2>3, <3>3 DEF Agrees, NameKept
    <3> QED
      BY <2>1, <3>2, <3>4 DEF KeptFor
  <2> QED
    BY <2>2, <2>3
<1>7. Kept'
  BY <1>3, <1>6 DEF Kept
<1> QED
  BY <1>4, <1>7 DEF Preserved

-----------------------------------------------------------------------------
(* The invariant *)

\* A change of the list that takes the hash back to what a controller knows
\* is noted; any other one the controller sees at its next poll.
LEMMA MissedStep ==
    ASSUME NothingMissed, Tracked, \A c \in Controllers : Attentive(c)
    PROVE  NothingMissed'
<1> SUFFICES ASSUME NEW c \in Watched \ undone', ~ctrl'[c].spoke, ctrl'[c].last = Hash'
             PROVE  ctrl'[c].shown = Listing'
  BY DEF NothingMissed
<1>1. Attentive(c) /\ c \notin undone
  BY SettingsAssumption DEF Tracked
<1>2. CASE Hash' = Hash
  BY <1>1, <1>2 DEF NothingMissed, Attentive, Hash
<1>3. CASE Hash' # Hash
  <2>1. Hash' # ctrl[c].last
    BY <1>3 DEF Tracked
  <2> QED
    BY <1>1, <2>1 DEF Attentive
<1> QED
  BY <1>2, <1>3

LEMMA InitInv ==
    Init => SettingsInv
<1> SUFFICES ASSUME Init PROVE SettingsInv
  OBVIOUS
<1>1. Shapes
  <2>1. \A t \in Tasks : push[t] = IdlePush
    BY DEF Init
  <2>2. slot \in [Slots -> SlotRecs] /\ push \in [Tasks -> PushRecs]
    BY Blanks DEF Init
  <2>3. ctrl \in [Controllers -> CtrlRecs]
    BY Blanks DEF Init, CtrlRecs
  <2>4. ann \in [on : BOOLEAN, session : 0 .. MaxTurns]
    BY SettingsAssumption DEF Init
  <2>5. voice \in [on : BOOLEAN, session : 0 .. MaxTurns, left : SUBSET Slots]
    BY SettingsAssumption DEF Init
  <2>6. \A t \in Tasks : push[t].at = "idle" <=> push[t].slot = None
    BY <2>1, Blanks
  <2>7. PICK b \in Starts : made = b.made /\ asked = b.asked /\ store = b.store
    BY DEF Init
  <2>8. /\ made \in 0 .. MaxConn /\ asked \in 0 .. MaxAsked
        /\ store \in [Ids -> Fitting \cup {None}]
    BY <2>7, SettingsAssumption
  <2>9. /\ told \in [Slots -> ToldRecs \cup {None}] /\ age \in [of : [Ids -> Nat], newest : Nat]
        /\ mixed \subseteq Slots /\ raced \subseteq Ids /\ forgotten \subseteq Ids
        /\ undone \subseteq Controllers
    BY DEF Init
  <2> QED
    BY <2>2, <2>3, <2>4, <2>5, <2>6, <2>8, <2>9 DEF Shapes
<1>2. Turns
  <2>1. ASSUME NEW c \in Controllers PROVE CtrlInTurn(c)
    BY TaskKinds, Blanks DEF Init, CtrlInTurn, Busy
  <2>2. ASSUME NEW s \in Slots PROVE SlotInTurn(s)
    BY TaskKinds, Blanks DEF Init, SlotInTurn, FreeSlot
  <2> QED
    BY <2>1, <2>2 DEF Turns
<1>3. Carried
  BY Blanks DEF Init, Carried, CarriedTo, Copied, FreeSlot
<1>4. Kept
  <2>1. \A i \in Ids : Found(i) = {} /\ Storing(i) = {}
    BY DEF Init, Found, Active, FreeSlot, Storing
  <2> QED
    BY <2>1 DEF Kept, KeptFor
<1>5. NothingMissed
  <2>1. ASSUME NEW c \in Watched PROVE ctrl[c].last = ctrl[c].shown
    BY SettingsAssumption DEF Init
  <2> QED
    BY <2>1 DEF NothingMissed, Hash
<1> QED
  BY <1>1, <1>2, <1>3, <1>4, <1>5 DEF SettingsInv, Sound

LEMMA StepPreserves ==
    ASSUME Sound, Carried, Kept, undone' \subseteq Controllers, Step
    PROVE  Preserved
<1>1. CASE \E t \in Tasks : PushStep(t)
  BY <1>1, PushReadStep, PushRecordStep, PushSendStep, PushRefusedStep DEF PushStep
<1>2. CASE \E s \in Slots : Accept(s) \/ Ready(s) \/ Close(s) \/ \E i \in Ids : Hello(s, i)
  BY <1>2, AcceptStep, StateStep, HelloStep
<1>3. CASE (\E s \in Slots : Refresh(s)) \/ Turn \/ Notice
  BY <1>3, VoiceStep
<1>4. CASE \E c \in Controllers : SetVolume(c) \/ SetName(c)
  <2>1. PICK c \in Controllers, what \in {"volume", "name"}, i \in Ids, new \in Settable \cup Names :
           /\ Apply(c, what, i, new)
           /\ what = "volume" => new \in Settable
           /\ what = "name" => new \in Names
    BY <1>4 DEF SetVolume, SetName, Settable
  <2>2. /\ ctrl[c].pc = "idle" /\ asked' \in 0 .. MaxAsked
        /\ \/ Answered(c) /\ UNCHANGED <<slot, raced>>
           \/ ChangeBegun(c, what, i)
        /\ UNCHANGED <<told, store, age, ann, voice, push, made, mixed, forgotten>>
    BY <2>1, ApplyRow DEF Sound
  <2> QED
    BY <2>2, WatchStep, ChangeStep
<1>5. CASE \E c \in Controllers : GetStatus(c)
  <2>1. PICK c \in Controllers : GetStatus(c)
    BY <1>5
  <2>2. /\ ctrl[c].pc = "idle" /\ asked' \in 0 .. MaxAsked /\ Answered(c)
        /\ UNCHANGED <<slot, told, store, age, ann, voice, push, made, mixed, raced, forgotten>>
    BY <2>1, GetStatusRow DEF Sound
  <2> QED
    BY <2>2, WatchStep
<1>6. CASE \E c \in Controllers : Seen(c) \/ Poll(c) \/ Update(c) \/ HangUp(c)
  <2>1. PICK c \in Controllers : Seen(c) \/ Poll(c) \/ Update(c) \/ HangUp(c)
    BY <1>6
  <2>2. /\ Looks(c)
        /\ UNCHANGED <<slot, told, store, age, ann, voice, push, made, asked, mixed, raced, forgotten>>
    BY <2>1, LookRow DEF Sound
  <2>3. asked' \in 0 .. MaxAsked
    BY <2>2 DEF Sound, Shapes
  <2> QED
    BY <2>2, <2>3, WatchStep
<1>7. CASE \E c \in Controllers : RememberName(c) \/ RememberLive(c) \/ RememberPut(c)
  BY <1>7, RememberNameStep, RememberLiveStep, RememberPutStep
<1> QED
  BY <1>1, <1>2, <1>3, <1>4, <1>5, <1>6, <1>7 DEF Step, CtrlStep

LEMMA InductiveStep ==
    SettingsInv /\ [Next]_vars => SettingsInv'
<1> SUFFICES ASSUME SettingsInv, [Next]_vars PROVE SettingsInv'
  OBVIOUS
<1>1. Sound /\ Carried /\ Kept /\ NothingMissed
  BY DEF SettingsInv
<1>2. CASE Next
  <2>1. Step /\ Tracked
    BY <1>2 DEF Next
  <2>2. undone' \subseteq Controllers
    BY <1>1, <2>1, SettingsAssumption DEF Tracked, Sound, Shapes
  <2>3. Preserved
    BY <1>1, <2>1, <2>2, StepPreserves
  <2>4. NothingMissed'
    BY <1>1, <2>1, <2>3, MissedStep DEF Preserved
  <2> QED
    BY <2>3, <2>4 DEF Preserved, SettingsInv, Sound
<1>3. CASE UNCHANGED vars
  <2>1. UNCHANGED <<slot, told, store, age, ann, voice, push, ctrl, made, asked, mixed, raced, forgotten, undone>>
    BY <1>3 DEF vars
  <2>2. Sound'
    BY <1>1, <2>1 DEF Sound, Shapes, Turns, CtrlInTurn, SlotInTurn, Busy
  <2>3. Carried'
    BY <1>1, <2>1 DEF Carried, CarriedTo, Copied, ToCome
  <2>4. Kept'
    BY <1>1, <2>1 DEF Kept, KeptFor, Agrees, NameKept, Found, Active, Storing, Stored, Has
  <2>5. NothingMissed'
    BY <1>1, <2>1 DEF NothingMissed, Hash, Listing, Live
  <2> QED
    BY <2>2, <2>3, <2>4, <2>5 DEF SettingsInv
<1> QED
  BY <1>2, <1>3

-----------------------------------------------------------------------------
(* The inductive invariant holds: every task is where its slot's state says *)
(* it is; what was told, stored and shown is what the slots have, but for   *)
(* what is still under way.                                                 *)
THEOREM SettingsCorrect == Spec => []SettingsInv
BY InitInv, InductiveStep, PTL DEF Spec

(* The type invariant of the model holds for every number of slots, ids,    *)
(* controllers and announcements: a push is idle exactly when it has no     *)
(* slot.                                                                    *)
THEOREM TypeCorrect == Spec => []TypeOK
<1>1. SettingsInv => TypeOK
  BY ShapesAreTypes DEF SettingsInv, Sound
<1> QED
  BY <1>1, SettingsCorrect, PTL

(* A client that is ready and that nobody's push crossed has been told the  *)
(* volume, mute and latency it is listed with and the flags it is recorded  *)
(* with: send_server_settings may be preempted between its reads, its       *)
(* record and its send by any number of tasks.                              *)
THEOREM ToldIsSet == Spec => []ToldWhatIsSet
<1>1. SettingsInv => ToldWhatIsSet
  <2> SUFFICES ASSUME SettingsInv, NEW s \in Slots, Live(s), Pushing(s) = {}, s \notin mixed,
                      \A c \in Controllers : ctrl[c].req.slot # s
               PROVE  told[s] = [vol |-> slot[s].vol, sil |-> slot[s].sent]
    BY DEF ToldWhatIsSet
  <2>1. CarriedTo(s)
    BY DEF SettingsInv, Carried
  <2>2. Copied(s) = {} /\ ~ToCome(s)
    BY DEF Pushing, Copied, ToCome
  <2> QED
    BY <2>1, <2>2 DEF CarriedTo, Live
<1> QED
  BY <1>1, SettingsCorrect, PTL

(* A reconnect gives a client back what it has now, as far as client_store  *)
(* holds it: once no request for the client is between its change in RAM    *)
(* and its entry, the entry is the client's, clamped as client_store_put    *)
(* does, or it made room for another entry; and this although requests for  *)
(* other clients and other connections interleave with its own at every     *)
(* step, unless two of its own overlapped since the last Hello.             *)
THEOREM StoredIsSet == Spec => []StoredAsSet
<1>1. SettingsInv => StoredAsSet
  <2> SUFFICES ASSUME SettingsInv, NEW s \in Slots, NEW i \in Ids \ raced,
                      Active(s), slot[s].id = i, Storing(i) = {}
               PROVE  IF store[i] = None
                      THEN i \in forgotten \/ (slot[s].vol = DefaultVol /\ slot[s].name = NoName)
                      ELSE /\ store[i].vol = Clamp(slot[s].vol)
                           /\ \/ store[i].name = slot[s].name
                              \/ i \in forgotten /\ store[i].name = NoName
    BY DEF StoredAsSet
  <2>1. KeptFor(i) /\ s \in Found(i)
    BY DEF SettingsInv, Kept, Found
  <2>2. Agrees(i, s)
    BY <2>1 DEF KeptFor
  <2> QED
    BY <2>2 DEF Agrees, NameKept, Has
<1> QED
  BY <1>1, SettingsCorrect, PTL

(* A controller that only listens and whose remembered hash is the present  *)
(* one has been shown the present list, unless a change was taken back      *)
(* before it looked: however the poll, the update and the changes of others *)
(* interleave.                                                              *)
THEOREM ListenerMissesNothing == Spec => []NothingMissed
<1>1. SettingsInv => NothingMissed
  BY DEF SettingsInv
<1> QED
  BY <1>1, SettingsCorrect, PTL

=============================================================================
