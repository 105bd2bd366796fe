------------------------------ MODULE Settings ------------------------------
(***************************************************************************)
(* The settings of the clients and who pushes them.  Connections of the    *)
(* control server (snapcontrol.c) change a client's volume or name; the    *)
(* handshake restores what client_store remembers; voice_server_task tells *)
(* every client when an announcement begins and ends.  All of them use     *)
(* send_server_settings, which reads the settings, reads and records the   *)
(* announcement flag and sends the message in separate steps, so the calls *)
(* of several tasks for one slot overlap.                                  *)
(*                                                                         *)
(* Volume, mute and latency are one value (vol), which every setter treats *)
(* alike; of it client_store keeps what fits its entry, as it does of a    *)
(* latency.  The list a controller shows is what client_set_hash covers.   *)
(***************************************************************************)
EXTENDS Integers, FiniteSets

CONSTANTS
    Slots,       \* s_clients
    Ids,         \* client ids
    Own,         \* the ids of our own clients, which say SnapMesh in Hello
    NoId,        \* the empty id of a client that has not said Hello
    Controllers, \* control connections
    Watched,     \* those whose controller's screen the model follows
    Voice,       \* voice_server_task
    Vols,        \* settings a controller chooses
    Names,       \* names a controller chooses
    DefaultVol,  \* what server_task gives a new connection
    Limit,       \* INT16_MAX: the largest latency an entry of client_store holds
    Room,        \* CLIENT_STORE_MAX
    NoName,      \* no stored name: the client keeps the one it reports
    None,        \* nothing told, stored or shown yet
    MaxConn,     \* bound: connections made
    MaxAsked,    \* bound: requests of controllers, starts and stops of announcements
    MaxTurns,    \* bound: of them, starts and stops
    Starts       \* bound: starting points: what of the first two bounds is used up,
                 \* which controllers are there, what client_store_init loads

\* client_store_put: what its entry holds of a latency.
Clamp(v) == IF v > Limit THEN Limit ELSE IF v < -Limit - 1 THEN -Limit - 1 ELSE v

Settable == Vols \cup {Clamp(v) : v \in Vols} \cup {DefaultVol}
Entries  == [vol : Settable, name : Names \cup {NoName}]
Fitting  == {e \in Entries : Clamp(e.vol) = e.vol}

ASSUME SettingsAssumption ==
    /\ MaxConn \in Nat /\ MaxAsked \in Nat /\ MaxTurns \in Nat
    /\ Limit \in Nat /\ Room \in Nat \ {0} /\ Vols \subseteq Int
    /\ DefaultVol \in Int /\ Clamp(DefaultVol) = DefaultVol
    /\ Own \subseteq Ids /\ NoId \notin Ids
    /\ Watched \subseteq Controllers
    /\ Controllers \cap Slots = {} /\ Voice \notin Controllers \cup Slots
    /\ None \notin Ids \cup Slots \cup Entries /\ NoName \notin Names
    /\ \A b \in Starts : /\ b.made \in 0 .. MaxConn /\ b.asked \in 0 .. MaxAsked
                        /\ b.store \in [Ids -> Fitting \cup {None}]

VARIABLES
    slot,  \* client_t: the connection's state and settings
    told,  \* the last ServerSettings on the slot's connection
    store, \* client_store, as client_store_get sees it
    age,   \* stored_t.seq of its entries, and s_seq
    ann,   \* s_announcement_active and the session that set it
    voice, \* voice_server_task: what it has seen, the slots left to refresh
    push,  \* the send_server_settings call of every task
    ctrl,  \* ctrl_conn_task: its request and what its controller shows
    made, asked, \* connections and requests so far
    mixed, \* slots whose last push was refused or crossed by another one
    raced, \* ids whose requests overlapped each other or another connection, ...
    forgotten, \* ... whose entry made room for another one since their Hello
    undone \* controllers for which a change was taken back unseen

vars == <<slot, told, store, age, ann, voice, push, ctrl, made, asked, mixed, raced,
          forgotten, undone>>

Tasks   == Controllers \cup Slots \cup {Voice}
Silence == [ann : BOOLEAN, mute : BOOLEAN]
Quiet   == [ann |-> FALSE, mute |-> FALSE]

FreeSlot == [state |-> "free", id |-> NoId, vol |-> DefaultVol, name |-> NoName, sent |-> Quiet]
IdlePush == [at |-> "idle", slot |-> None, vol |-> DefaultVol, sil |-> Quiet]
IdleReq  == [what |-> "none", id |-> NoId, slot |-> None,
             entry |-> [vol |-> DefaultVol, name |-> NoName]]

Active(s) == slot[s].state \in {"accepted", "settings", "ready"}
Live(s)   == slot[s].state = "ready"
Pushing(s) == {t \in Tasks : push[t].at # "idle" /\ push[t].slot = s}
\* A request between its change in RAM and the entry it stores.
Storing(i) == {c \in Controllers : ctrl[c].req.id = i /\ ctrl[c].pc \in {"entry", "live", "put"}}

TypeOK ==
    /\ slot \in [Slots -> [state : {"free", "accepted", "settings", "ready"},
                           id : Ids \cup {NoId}, vol : Settable, name : Names \cup {NoName},
                           sent : Silence]]
    /\ told \in [Slots -> [vol : Settable, sil : Silence] \cup {None}]
    /\ store \in [Ids -> Fitting \cup {None}]
    /\ age \in [of : [Ids -> Nat], newest : Nat]
    /\ ann \in [on : BOOLEAN, session : 0 .. MaxTurns]
    /\ voice \in [on : BOOLEAN, session : 0 .. MaxTurns, left : SUBSET Slots]
    /\ push \in [Tasks -> [at : {"idle", "settings", "flag", "record", "send"},
                           slot : Slots \cup {None}, vol : Settable, sil : Silence]]
    /\ \A t \in Tasks : push[t].at = "idle" <=> push[t].slot = None
    /\ \A c \in Controllers :
         /\ ctrl[c].pc \in {"idle", "entry", "live", "put", "push", "seen", "update", "gone"}
         /\ ctrl[c].req \in [what : {"none", "volume", "name"}, id : Ids \cup {NoId},
                             slot : Slots \cup {None}, entry : Entries]
         /\ ctrl[c].spoke \in BOOLEAN
    /\ made \in 0 .. MaxConn /\ asked \in 0 .. MaxAsked
    /\ mixed \subseteq Slots /\ raced \subseteq Ids /\ forgotten \subseteq Ids
    /\ undone \subseteq Controllers

Init ==
    /\ slot = [s \in Slots |-> FreeSlot]
    /\ told = [s \in Slots |-> None]
    /\ ann = [on |-> FALSE, session |-> 0]
    /\ voice = [on |-> FALSE, session |-> 0, left |-> {}]
    /\ push = [t \in Tasks |-> IdlePush]
    /\ age = [of |-> [i \in Ids |-> 0], newest |-> 0]
    /\ \E b \in Starts :
         /\ made = b.made /\ asked = b.asked /\ store = b.store
         /\ ctrl = [c \in Controllers |->
                       [pc |-> IF c \in b.there THEN "idle" ELSE "gone",
                        req |-> IdleReq, seen |-> None, last |-> None, shown |-> None,
                        spoke |-> FALSE]]
    /\ mixed = {} /\ raced = {} /\ forgotten = {} /\ undone = {}

-----------------------------------------------------------------------------
(* send_server_settings, called by task t for the slot s.                   *)

StartPush(t, s) == [push EXCEPT ![t] = [IdlePush EXCEPT !.at = "settings", !.slot = s]]

\* Volume, mute and latency are copied under the lock.  The push is alone on
\* its slot as long as nobody else is in one.
PushSettings(t) ==
    LET s == push[t].slot IN
    /\ push[t].at = "settings"
    /\ push' = [push EXCEPT ![t].at = "flag", ![t].vol = slot[s].vol]
    /\ mixed' = IF Pushing(s) = {t} THEN mixed \ {s} ELSE mixed \cup {s}
    /\ UNCHANGED <<slot, told, store, age, ann, voice, ctrl, made, asked, raced, forgotten>>

\* The announcement is folded into the mute of a foreign client.
PushFlag(t) ==
    LET s == push[t].slot IN
    /\ push[t].at = "flag"
    /\ push' = [push EXCEPT ![t].at = "record",
                  ![t].sil = [ann |-> ann.on, mute |-> ann.on /\ slot[s].id \notin Own]]
    /\ UNCHANGED <<slot, told, store, age, ann, voice, ctrl, made, asked, mixed, raced, forgotten>>

\* The flags count as sent before the message is.
PushRecord(t) ==
    /\ push[t].at = "record"
    /\ push' = [push EXCEPT ![t].at = "send"]
    /\ slot' = [slot EXCEPT ![push[t].slot].sent = push[t].sil]
    /\ UNCHANGED <<told, store, age, ann, voice, ctrl, made, asked, mixed, raced, forgotten>>

\* What the caller does next: a failed handshake push ends the session, every
\* other caller ignores the result.
Return(t, ok) ==
    /\ push' = [push EXCEPT ![t] = IdlePush]
    /\ ctrl' = IF t \in Controllers THEN [ctrl EXCEPT ![t].pc = "seen"] ELSE ctrl
    /\ slot' = IF t \in Slots /\ slot[t].state = "settings" /\ ~ok
               THEN [slot EXCEPT ![t].state = "free"] ELSE slot

\* The message goes to whatever connection the slot has by now.
PushSend(t) ==
    LET s == push[t].slot IN
    /\ push[t].at = "send" /\ Active(s)
    /\ told' = [told EXCEPT ![s] = [vol |-> push[t].vol, sil |-> push[t].sil]]
    /\ Return(t, TRUE)
    /\ UNCHANGED <<store, age, ann, voice, made, asked, mixed, raced, forgotten>>

\* The slot is free, or the send mutex was not to be had in time: the message
\* is dropped.
PushRefused(t) ==
    LET s == push[t].slot IN
    /\ push[t].at = "send"
    /\ mixed' = mixed \cup {s}
    /\ told' = IF t = s THEN [told EXCEPT ![s] = None] ELSE told
    /\ Return(t, FALSE)
    /\ UNCHANGED <<store, age, ann, voice, made, asked, raced, forgotten>>

-----------------------------------------------------------------------------
(* A connection of a client: accepted, Hello, settings, ready, gone.        *)

Accept(s) ==
    /\ slot[s].state = "free" /\ push[s].at = "idle" /\ made < MaxConn
    /\ made' = made + 1
    /\ slot' = [slot EXCEPT ![s] = [FreeSlot EXCEPT !.state = "accepted"]]
    /\ told' = [told EXCEPT ![s] = None]
    /\ mixed' = IF Pushing(s) = {} THEN mixed \ {s} ELSE mixed \cup {s}
    /\ UNCHANGED <<store, age, ann, voice, push, ctrl, asked, raced, forgotten>>

\* Mutant: of what is remembered only the name is restored.
HelloNameOnly(s, i) ==
    /\ slot[s].state = "accepted"
    /\ slot' = [slot EXCEPT ![s].state = "settings", ![s].id = i,
                  ![s].name = IF store[i] = None THEN NoName ELSE store[i].name]
    /\ raced' = raced \ {i}
    /\ forgotten' = forgotten \ {i}
    /\ push' = StartPush(s, s)
    /\ UNCHANGED <<told, store, age, ann, voice, ctrl, made, asked, mixed>>

\* handle_hello: the remembered settings replace the defaults, and the push
\* that answers the Hello begins.  What a connection left that nothing crosses
\* starts from what is stored.
Hello(s, i) ==
    /\ slot[s].state = "accepted"
    /\ slot' = [slot EXCEPT ![s].state = "settings", ![s].id = i,
                  ![s].vol  = IF store[i] = None THEN @ ELSE store[i].vol,
                  ![s].name = IF store[i] = None THEN NoName ELSE store[i].name]
    /\ raced' = IF Storing(i) # {} \/ \E o \in Slots \ {s} : Active(o) /\ slot[o].id = i
                THEN raced \cup {i} ELSE raced \ {i}
    /\ forgotten' = forgotten \ {i}
    /\ push' = StartPush(s, s)
    /\ UNCHANGED <<told, store, age, ann, voice, ctrl, made, asked, mixed>>

\* The codec header is out as well: from here on refreshes include the slot.
Ready(s) ==
    /\ slot[s].state = "settings" /\ push[s].at = "idle"
    /\ slot' = [slot EXCEPT ![s].state = "ready"]
    /\ UNCHANGED <<told, store, age, ann, voice, push, ctrl, made, asked, mixed, raced, forgotten>>

\* The connection ends, what the slot said of it stays; a push of another task may still be under way.
Close(s) ==
    /\ Active(s) /\ push[s].at = "idle"
    /\ slot' = [slot EXCEPT ![s].state = "free"]
    /\ told' = [told EXCEPT ![s] = None]
    /\ UNCHANGED <<store, age, ann, voice, push, ctrl, made, asked, mixed, raced, forgotten>>

-----------------------------------------------------------------------------
(* A control connection.                                                    *)

\* find_client_by_id_unsafe: the connection of the id, NoId being no id.
Found(i) == {s \in Slots : Active(s) /\ slot[s].id = i}

\* What a status or an update shows, and the hash that changes with it.
Listing == [s \in {r \in Slots : Live(r)} |-> [slot[s] EXCEPT !.sent = Quiet]]
Hash    == Listing

\* The part of Client.SetVolume, SetLatency and SetName that changes the
\* client; an unknown client is answered all the same.  The answer echoes the
\* request and shows nothing of what others changed.
Apply(c, what, i, new) ==
    /\ ctrl[c].pc = "idle" /\ asked < MaxAsked
    /\ asked' = asked + 1
    /\ IF Found(i) = {}
       THEN /\ ctrl' = [ctrl EXCEPT ![c].pc = "seen", ![c].spoke = TRUE]
            /\ UNCHANGED <<slot, raced, forgotten>>
       ELSE \E s \in Found(i) :
              /\ slot' = IF what = "volume" THEN [slot EXCEPT ![s].vol = new]
                                            ELSE [slot EXCEPT ![s].name = new]
              /\ ctrl' = [ctrl EXCEPT ![c].pc = "entry", ![c].spoke = TRUE,
                            ![c].req = [IdleReq EXCEPT !.what = what, !.id = i, !.slot = s,
                                          !.entry.name = IF what = "name" THEN new ELSE NoName]]
              /\ raced' = IF Storing(i) # {} THEN raced \cup {i} ELSE raced
    /\ UNCHANGED <<told, store, age, ann, voice, push, made, mixed, forgotten>>

SetVolume(c) == \E i \in Ids, v \in Vols : Apply(c, "volume", i, v)
SetName(c)   == \E i \in Ids, n \in Names : Apply(c, "name", i, n)

\* Mutant: the new volume is stored but not pushed.
AfterStoreSilent(c) ==
    /\ ctrl' = [ctrl EXCEPT ![c].pc = "seen", ![c].req = IdleReq]
    /\ UNCHANGED push

\* Mutant: the client found by the setter is looked up again too late.
AfterStoreLost(c) ==
    /\ push' = StartPush(c, IdleReq.slot)
    /\ ctrl' = [ctrl EXCEPT ![c].pc = "push", ![c].req = IdleReq]

\* A rename has nothing to push.
AfterStore(c) ==
    IF ctrl[c].req.what = "volume"
    THEN /\ push' = StartPush(c, ctrl[c].req.slot)
         /\ ctrl' = [ctrl EXCEPT ![c].pc = "push", ![c].req = IdleReq]
    ELSE /\ ctrl' = [ctrl EXCEPT ![c].pc = "seen", ![c].req = IdleReq]
         /\ UNCHANGED push

\* remember_settings: a volume keeps the name that is stored now ...
RememberName(c) ==
    LET i == ctrl[c].req.id IN
    /\ ctrl[c].pc = "entry"
    /\ ctrl' = [ctrl EXCEPT ![c].pc = "live",
                  ![c].req.entry.name = IF ctrl[c].req.what = "name" THEN @
                                        ELSE IF store[i] = None THEN NoName ELSE store[i].name]
    /\ UNCHANGED <<slot, told, store, age, ann, voice, push, made, asked, mixed, raced, forgotten>>

\* ... and the volume is what the client has by now; a client that is gone
\* is not remembered.
RememberLive(c) ==
    LET found == Found(ctrl[c].req.id) IN
    /\ ctrl[c].pc = "live"
    /\ IF found = {} THEN AfterStore(c)
       ELSE /\ \E s \in found :
                 ctrl' = [ctrl EXCEPT ![c].pc = "put", ![c].req.entry.vol = slot[s].vol]
            /\ UNCHANGED push
    /\ UNCHANGED <<slot, told, store, age, ann, voice, made, asked, mixed, raced, forgotten>>

\* client_store_put: a new entry takes the place of the one written longest ago
\* when there is none left; an unchanged one stays as old as it is.
HasEntry   == {i \in Ids : store[i] # None}
Oldest     == {i \in HasEntry : \A j \in HasEntry : age.of[i] <= age.of[j]}
Evicted(i) == IF i \notin HasEntry /\ Cardinality(HasEntry) >= Room
              THEN {{j} : j \in Oldest} ELSE {{}}

Put(i, entry) ==
    IF store[i] = entry THEN UNCHANGED <<store, age, forgotten>>
    ELSE \E out \in Evicted(i) :
           /\ store' = [j \in Ids |-> IF j = i THEN entry ELSE IF j \in out THEN None ELSE store[j]]
           /\ age' = [of |-> [age.of EXCEPT ![i] = age.newest + 1], newest |-> age.newest + 1]
           /\ forgotten' = forgotten \cup out

RememberPut(c) ==
    LET entry == ctrl[c].req.entry IN
    /\ ctrl[c].pc = "put"
    /\ Put(ctrl[c].req.id, [entry EXCEPT !.vol = Clamp(@)])
    /\ AfterStore(c)
    /\ UNCHANGED <<slot, told, ann, voice, made, asked, mixed, raced>>

\* Server.GetStatus shows everything.
GetStatus(c) ==
    /\ ctrl[c].pc = "idle" /\ c \in Watched /\ asked < MaxAsked
    /\ asked' = asked + 1
    /\ ctrl' = [ctrl EXCEPT ![c].pc = "seen", ![c].shown = Listing, ![c].spoke = TRUE]
    /\ UNCHANGED <<slot, told, store, age, ann, voice, push, made, mixed, raced, forgotten>>

\* After every request the present state counts as known to the controller.
Seen(c) ==
    /\ ctrl[c].pc = "seen"
    /\ ctrl' = [ctrl EXCEPT ![c].pc = "idle", ![c].last = IF c \in Watched THEN Hash ELSE None]
    /\ UNCHANGED <<slot, told, store, age, ann, voice, push, made, asked, mixed, raced, forgotten>>

\* The receive timeout: the hash is taken first ...
Poll(c) ==
    /\ ctrl[c].pc = "idle" /\ c \in Watched /\ ctrl[c].last # Hash
    /\ ctrl' = [ctrl EXCEPT ![c].pc = "update", ![c].seen = Hash]
    /\ UNCHANGED <<slot, told, store, age, ann, voice, push, made, asked, mixed, raced, forgotten>>

\* Mutant: the list is taken first and the hash when it has been sent.
UpdateThenHash(c) ==
    /\ ctrl[c].pc = "update"
    /\ ctrl' = [ctrl EXCEPT ![c].pc = "idle", ![c].shown = ctrl[c].seen, ![c].last = Hash,
                            ![c].seen = None]
    /\ UNCHANGED <<slot, told, store, age, ann, voice, push, made, asked, mixed, raced, forgotten>>

\* ... then Server.OnUpdate is built and sent, and the hash taken before it
\* is the one remembered.
Update(c) ==
    /\ ctrl[c].pc = "update"
    /\ ctrl' = [ctrl EXCEPT ![c].pc = "idle", ![c].shown = Listing, ![c].last = ctrl[c].seen,
                            ![c].seen = None]
    /\ UNCHANGED <<slot, told, store, age, ann, voice, push, made, asked, mixed, raced, forgotten>>

\* An update that cannot be sent, or the controller hanging up, ends it.
HangUp(c) ==
    /\ ctrl[c].pc \in {"idle", "update"} /\ c \in Watched
    /\ ctrl' = [ctrl EXCEPT ![c].pc = "gone", ![c].seen = None, ![c].last = None, ![c].shown = None]
    /\ UNCHANGED <<slot, told, store, age, ann, voice, push, made, asked, mixed, raced, forgotten>>

-----------------------------------------------------------------------------
(* Announcements.                                                           *)

\* snapserver_set_announcement, called when one starts or ends.
Turn ==
    /\ ann.session < MaxTurns /\ asked < MaxAsked
    /\ asked' = asked + 1
    /\ ann' = [on |-> ~ann.on, session |-> ann.session + 1]
    /\ UNCHANGED <<slot, told, store, age, voice, push, ctrl, made, mixed, raced, forgotten>>

\* Mutant: no refresh but the one at the start and the end.
NoticeOnce ==
    /\ voice.left = {} /\ push[Voice].at = "idle" /\ ann.session # voice.session
    /\ voice' = [on |-> ann.on, session |-> ann.session, left |-> Slots]
    /\ UNCHANGED <<slot, told, store, age, ann, push, ctrl, made, asked, mixed, raced, forgotten>>

\* voice_server_task finds a change, or a second of a running announcement
\* has passed: snapserver_refresh_announcement visits every slot.
Notice ==
    /\ voice.left = {} /\ push[Voice].at = "idle"
    /\ \/ ann.session # voice.session
       \/ ann.on
    /\ voice' = [on |-> ann.on, session |-> ann.session, left |-> Slots]
    /\ UNCHANGED <<slot, told, store, age, ann, push, ctrl, made, asked, mixed, raced, forgotten>>

\* What refresh_announcement holds a live client to be owed: it goes by the
\* flags recorded for the last push, whether or not they arrived.
Due(s, on)  == [ann |-> on, mute |-> on /\ slot[s].id \notin Own]
Owed(s, on) == slot[s].sent # Due(s, on)

Refresh(s) ==
    /\ s \in voice.left /\ push[Voice].at = "idle"
    /\ voice' = [voice EXCEPT !.left = @ \ {s}]
    /\ push' = IF Live(s) /\ Owed(s, voice.on) THEN StartPush(Voice, s) ELSE push
    /\ UNCHANGED <<slot, told, store, age, ann, ctrl, made, asked, mixed, raced, forgotten>>

-----------------------------------------------------------------------------
PushStep(t) == PushSettings(t) \/ PushFlag(t) \/ PushRecord(t) \/ PushSend(t) \/ PushRefused(t)
CtrlStep(c) == RememberName(c) \/ RememberLive(c) \/ RememberPut(c) \/ Seen(c)
                \/ Poll(c) \/ Update(c)

Step ==
    \/ \E t \in Tasks : PushStep(t)
    \/ \E s \in Slots : Accept(s) \/ Ready(s) \/ Close(s) \/ Refresh(s) \/ \E i \in Ids : Hello(s, i)
    \/ \E c \in Controllers : SetVolume(c) \/ SetName(c) \/ GetStatus(c) \/ HangUp(c) \/ CtrlStep(c)
    \/ Turn \/ Notice

\* The list is back at what a controller's hash remembers.
Tracked ==
    undone' = undone \cup {c \in Watched : Hash' # Hash /\ Hash' = ctrl[c].last}

Next == Step /\ Tracked

Spec == Init /\ [][Next]_vars

\* voice_server_task runs on, and a push that has begun comes to its end: the
\* send mutex and the socket are waited for with a timeout.  Controllers,
\* sessions, clients and phones may otherwise stop at any point.
Fairness ==
    /\ WF_vars(Notice /\ Tracked)
    /\ WF_vars(PushStep(Voice) /\ Tracked)
    /\ WF_vars((\E t \in Tasks \ {Voice} : PushStep(t)) /\ Tracked)
    /\ \A s \in Slots : WF_vars(Refresh(s) /\ Tracked)

FairSpec == Spec /\ Fairness

-----------------------------------------------------------------------------
(* Whatever the tasks did to each other, a live client that the last push  *)
(* reached undisturbed has been told the settings it is listed with and    *)
(* the flags it is recorded with: a setter that changes a client after its *)
(* push has read the settings pushes again.                                *)
ToldWhatIsSet ==
    \A s \in Slots :
      Live(s) /\ Pushing(s) = {} /\ s \notin mixed
        /\ (\A c \in Controllers : ctrl[c].req.slot # s)
        => told[s] = [vol |-> slot[s].vol, sil |-> slot[s].sent]

(* A reconnect gives a client back what it has now, as far as an entry of  *)
(* client_store holds it: once no request for the client is under way its   *)
(* entry agrees with the table, or it made room for another one.  Then the  *)
(* next volume is stored without the name.  Requests that overlapped are    *)
(* excepted until the next Hello (the hazard of remember_settings).         *)
StoredAsSet ==
    \A s \in Slots : \A i \in Ids \ raced :
      Active(s) /\ slot[s].id = i /\ Storing(i) = {}
        => IF store[i] = None
           THEN i \in forgotten \/ (slot[s].vol = DefaultVol /\ slot[s].name = NoName)
           ELSE /\ store[i].vol = Clamp(slot[s].vol)
                /\ \/ store[i].name = slot[s].name
                   \/ i \in forgotten /\ store[i].name = NoName

(* A client that became ready behind the back of an announcement's first   *)
(* refresh hears of it by a later one as long as the announcement runs,    *)
(* unless a push to it was refused or crossed: its flags are recorded all  *)
(* the same, and no refresh makes up for it.                               *)
LateJoinerTold ==
    \A s \in Slots :
      (ann.on /\ Live(s) /\ told[s].sil # Due(s, TRUE))
        ~> (~ann.on \/ ~Live(s) \/ s \in mixed \/ told[s].sil = Due(s, TRUE))

(* A controller that only listens misses nothing: when the hash it is      *)
(* compared with says that it is up to date it has been shown the list as  *)
(* it is, unless a change was taken back between two polls.  The hash that *)
(* is remembered is older than the list that was sent.                     *)
NothingMissed ==
    \A c \in Watched \ undone :
      ~ctrl[c].spoke /\ ctrl[c].last = Hash => ctrl[c].shown = Listing
=============================================================================
