--------------------------- MODULE Client_proofs ---------------------------
(***************************************************************************)
(* Proofs about the client's connection for any number of attempts,        *)
(* timeouts and failures: snap_task never waits for a network it has, the  *)
(* events that wait for the event task are bounded, however often          *)
(* snap_task drops the link itself, and the offset it publishes settles on *)
(* one clock of the server.                                                *)
(*                                                                         *)
(* The last part is about the sink the connection feeds (Playback): its    *)
(* labels stay exact and its echoes are brief.                             *)
(***************************************************************************)
EXTENDS Client, Playback, TLAPS, FiniteSetTheorems, WellFoundedInduction

-----------------------------------------------------------------------------
(* The inductive invariants *)

\* What the event task is about to do, and what that says of the flag.  Before
\* the first start snap_task is off.
Announcing ==
    /\ ev = "start" => At("off")
    /\ ev \in {"down", "abort", "aborting"} => ~up

\* Unless the event task is between flag and bits, who waits for the long bit
\* while the flag is set finds it set.
WakeInv ==
    /\ Announcing
    /\ At("wait") /\ up /\ ev # "up" => Available \in bits

\* "ip" and "gone" are posted in turn, and the last one tells what the link is.
InTurn ==
    \A i \in 1 .. Len(events) :
        events[i] = "ip" <=> (Len(events) - i) % 2 = (IF net.link THEN 0 ELSE 1)

\* Events posted, the next "ip" included while the link is down.
Backlog == Len(events) + (IF net.link THEN 0 ELSE 1)

\* Drops of the link that snap_task may still make before it takes up another
\* "ip": the one it is at, and one that starts from the flag as it was seen.
Dropping == snap.pc \in {"down bits", "drop link"}
Trying   == up \/ snap.pc \in {"connect", "connecting", "failed", "down"}
Drops    == (IF Dropping THEN 1 ELSE 0) + (IF Trying THEN 1 ELSE 0)

\* Only failures of the link make the backlog grow: a drop of snap_task's own
\* was paid for by an "ip" that was taken up.
Bounded == Backlog + 2 * Drops <= 2 * net.trouble + 2

LinkInv == LinkTypeOK /\ InTurn /\ Bounded

-----------------------------------------------------------------------------
(* Arithmetic and sequences *)

\* Numbers are even and odd in turn.
LEMMA Parity ==
    ASSUME NEW n \in Int
    PROVE  /\ n % 2 \in {0, 1}
           /\ (n + 1) % 2 = 0 <=> n % 2 = 1
           /\ (2 * n) % 2 = 0
OBVIOUS

\* The values the events have, and what TypeOK says of them.
Events == {"gone", "ip"}

LEMMA EventsAreSeq ==
    ASSUME NEW k \in Nat, NEW q
    PROVE  q \in UNION {[1 .. n -> Events] : n \in 0 .. k} <=> q \in Seq(Events) /\ Len(q) <= k
<1>1. ASSUME q \in UNION {[1 .. n -> Events] : n \in 0 .. k} PROVE q \in Seq(Events) /\ Len(q) <= k
  <2>1. PICK n \in 0 .. k : q \in [1 .. n -> Events]
    BY <1>1
  <2>2. q \in Seq(Events) /\ Len(q) = n
    BY <2>1
  <2> QED
    BY <2>1, <2>2
<1>2. ASSUME q \in Seq(Events), Len(q) <= k PROVE q \in UNION {[1 .. n -> Events] : n \in 0 .. k}
  <2>1. Len(q) \in 0 .. k /\ q \in [1 .. Len(q) -> Events]
    BY <1>2
  <2> QED
    BY <2>1
<1> QED
  BY <1>1, <1>2

\* Events in turn, seen from the last one back, and how far they go.
Turns(q, link) == \A i \in 1 .. Len(q) : q[i] = "ip" <=> (Len(q) - i) % 2 = (IF link THEN 0 ELSE 1)
Length(q, link) == Len(q) + (IF link THEN 0 ELSE 1)

\* Posting the event that tells of the change of the link.
LEMMA PostTurns ==
    ASSUME NEW q \in Seq(Events), NEW link \in BOOLEAN, Turns(q, link)
    PROVE  /\ link  => Turns(Append(q, "gone"), FALSE)
           /\ ~link => Turns(Append(q, "ip"), TRUE)
<1> DEFINE e == IF link THEN "gone" ELSE "ip"
           r == Append(q, e)
<1>1. r \in Seq(Events) /\ Len(r) = Len(q) + 1 /\ Len(q) \in Nat
  BY DEF Events
<1>2. ASSUME NEW i \in 1 .. Len(r)
      PROVE  r[i] = "ip" <=> (Len(r) - i) % 2 = (IF ~link THEN 0 ELSE 1)
  <2>1. CASE i = Len(r)
    <3>1. r[i] = e /\ Len(r) - i = 0
      BY <1>1, <2>1
    <3>2. 0 % 2 = 0
      OBVIOUS
    <3> QED
      BY <3>1, <3>2
  <2>2. CASE i # Len(r)
    <3>1. i \in 1 .. Len(q) /\ r[i] = q[i]
      BY <1>1, <2>2
    <3>2. q[i] = "ip" <=> (Len(q) - i) % 2 = (IF link THEN 0 ELSE 1)
      BY <3>1 DEF Turns
    <3>3. Len(q) - i \in Int /\ Len(r) - i = (Len(q) - i) + 1
      BY <1>1, <3>1
    <3> HIDE DEF r, e
    <3>4. (Len(r) - i) % 2 = 0 <=> (Len(q) - i) % 2 = 1
      BY <3>3, Parity
    <3>5. (Len(r) - i) % 2 \in {0, 1} /\ (Len(q) - i) % 2 \in {0, 1}
      BY <1>1, <3>3, Parity
    <3> QED
      BY <3>1, <3>2, <3>4, <3>5
  <2> QED
    BY <2>1, <2>2
<1>3. CASE link
  <2>1. r = Append(q, "gone")
    BY <1>3
  <2>2. \A i \in 1 .. Len(r) : r[i] = "ip" <=> (Len(r) - i) % 2 = 1
    BY <1>2, <1>3
  <2> QED
    BY <1>3, <2>1, <2>2 DEF Turns
<1>4. CASE ~link
  <2>1. r = Append(q, "ip")
    BY <1>4
  <2>2. \A i \in 1 .. Len(r) : r[i] = "ip" <=> (Len(r) - i) % 2 = 0
    BY <1>2, <1>4
  <2> QED
    BY <1>4, <2>1, <2>2 DEF Turns
<1> QED
  BY <1>3, <1>4

\* Taking one up leaves the others in turn; the number of those there are, the
\* next "ip" included, tells which one it was.
LEMMA TakeTurns ==
    ASSUME NEW q \in Seq(Events), NEW link \in BOOLEAN, Turns(q, link), q # <<>>
    PROVE  /\ Tail(q) \in Seq(Events) /\ Turns(Tail(q), link)
           /\ Length(Tail(q), link) = Length(q, link) - 1
           /\ Head(q) = "ip" <=> Length(q, link) % 2 = 1
<1>1. Tail(q) \in Seq(Events) /\ Len(Tail(q)) = Len(q) - 1 /\ Len(q) \in Nat \ {0}
  OBVIOUS
<1>2. \A i \in 1 .. Len(Tail(q)) : i + 1 \in 1 .. Len(q) /\ Tail(q)[i] = q[i + 1]
  BY <1>1
<1>3. Turns(Tail(q), link)
  <2> SUFFICES ASSUME NEW i \in 1 .. Len(Tail(q))
               PROVE  Tail(q)[i] = "ip" <=> (Len(Tail(q)) - i) % 2 = (IF link THEN 0 ELSE 1)
    BY DEF Turns
  <2>1. Len(Tail(q)) - i = Len(q) - (i + 1)
    BY <1>1
  <2> QED
    BY <1>2, <2>1 DEF Turns
<1>4. Head(q) = "ip" <=> Length(q, link) % 2 = 1
  <2>1. Head(q) = "ip" <=> (Len(q) - 1) % 2 = (IF link THEN 0 ELSE 1)
    BY <1>1 DEF Turns
  <2>2. Len(q) - 1 \in Int /\ Len(q) = (Len(q) - 1) + 1
    BY <1>1
  <2>3. /\ (Len(q) - 1) % 2 \in {0, 1} /\ Len(q) % 2 \in {0, 1} /\ (Len(q) + 1) % 2 \in {0, 1}
        /\ Len(q) % 2 = 0 <=> (Len(q) - 1) % 2 = 1
        /\ (Len(q) + 1) % 2 = 0 <=> Len(q) % 2 = 1
    <3>1. \A n \in Int : n % 2 \in {0, 1} /\ ((n + 1) % 2 = 0 <=> n % 2 = 1)
      BY Parity
    <3> QED
      BY <1>1, <2>2, <3>1
  <2>4. CASE link
    <3>1. Length(q, link) = Len(q)
      BY <1>1, <2>4 DEF Length
    <3> QED
      BY <2>1, <2>3, <2>4, <3>1
  <2>5. CASE ~link
    <3>1. Length(q, link) = Len(q) + 1
      BY <2>5 DEF Length
    <3> QED
      BY <2>1, <2>3, <2>5, <3>1
  <2> QED
    BY <2>4, <2>5
<1>5. Length(Tail(q), link) = Length(q, link) - 1
  <2>1. CASE link
    BY <1>1, <2>1 DEF Length
  <2>2. CASE ~link
    BY <1>1, <2>2 DEF Length
  <2> QED
    BY <2>1, <2>2
<1> QED
  BY <1>1, <1>3, <1>4, <1>5

-----------------------------------------------------------------------------
(* The link, its events and the flag *)

\* The states of snap_task and of the link.
NetRecs  == [link : BOOLEAN, server : BOOLEAN, trouble : 0 .. MaxTrouble]
Pcs == {"off", "top", "wait", "connect", "connecting", "failed", "down", "down bits",
        "drop link", "retry", "check", "assign", "hello", "close", "unset",
        "lost", "sleep"} \cup Reading
SnapRecs == [pc : Pcs, failed : 0 .. Attempts - 1, quiet : 0 .. Stall - 1]

LEMMA Bounds == MaxTrouble \in Nat /\ Attempts \in Nat \ {0} /\ Stall \in Nat \ {0}
BY ClientAssumption

\* The type invariant, with the events as a sequence.
LEMMA LinkTypes ==
    LinkTypeOK <=> /\ net \in NetRecs
                   /\ events \in Seq(Events) /\ Len(events) <= 2 * MaxTrouble + 3
                   /\ up \in BOOLEAN /\ bits \subseteq {Available, Changed} /\ open \in BOOLEAN
                   /\ ev \in {"idle", "up", "start", "down", "abort", "aborting"}
                   /\ snap \in SnapRecs
                   /\ tcp \in {"none", "ok", "dead", "broken", "shut"}
                   /\ codec \in BOOLEAN
<1>1. 2 * MaxTrouble + 3 \in Nat
  BY Bounds
<1>2. events \in UNION {[1 .. n -> Events] : n \in 0 .. 2 * MaxTrouble + 3}
        <=> events \in Seq(Events) /\ Len(events) <= 2 * MaxTrouble + 3
  BY <1>1, EventsAreSeq
<1> QED
  BY <1>2 DEF LinkTypeOK, NetRecs, SnapRecs, Pcs, Events

\* What Goto leaves of snap_task.
LEMMA GotoRow ==
    ASSUME snap \in SnapRecs, NEW pc \in Pcs, Goto(pc)
    PROVE  snap' \in SnapRecs /\ snap'.pc = pc
<1>1. 0 \in 0 .. Stall - 1
  BY Bounds
<1> QED
  BY <1>1 DEF Goto, SnapRecs

\* The variables besides the link and the events have their types.
Rest ==
    /\ up \in BOOLEAN /\ bits \subseteq {Available, Changed} /\ open \in BOOLEAN
    /\ ev \in {"idle", "up", "start", "down", "abort", "aborting"}
    /\ snap \in SnapRecs
    /\ tcp \in {"none", "ok", "dead", "broken", "shut"}
    /\ codec \in BOOLEAN

\* What the invariant says of the numbers in it.
LEMMA Numbers ==
    ASSUME LinkInv
    PROVE  /\ Rest /\ net \in NetRecs /\ net.link \in BOOLEAN /\ net.trouble \in Nat
           /\ events \in Seq(Events) /\ Turns(events, net.link)
           /\ Backlog = Length(events, net.link) /\ Backlog \in Nat
           /\ Drops \in 0 .. 2 /\ Backlog + 2 * Drops <= 2 * net.trouble + 2
<1>1. Rest /\ net \in NetRecs /\ events \in Seq(Events)
  BY LinkTypes DEF LinkInv, Rest
<1>2. Turns(events, net.link)
  BY DEF LinkInv, InTurn, Turns
<1>3. Backlog = Length(events, net.link) /\ Backlog \in Nat
  BY <1>1 DEF Backlog, Length
<1>4. Drops \in 0 .. 2 /\ Backlog + 2 * Drops <= 2 * net.trouble + 2
  BY DEF Drops, LinkInv, Bounded
<1>5. net.link \in BOOLEAN /\ net.trouble \in Nat
  BY <1>1, Bounds DEF NetRecs
<1> QED
  BY <1>1, <1>2, <1>3, <1>4, <1>5

\* The invariant from its parts after a step.
LEMMA LinkParts ==
    ASSUME Rest', net' \in NetRecs, events' \in Seq(Events), Turns(events', net'.link),
           Length(events', net'.link) + 2 * Drops' <= 2 * net'.trouble + 2
    PROVE  LinkInv'
<1>1. Bounded' /\ InTurn'
  BY DEF Bounded, InTurn, Turns, Backlog, Length
<1>2. Len(events') <= 2 * MaxTrouble + 3
  <2>1. Drops' \in 0 .. 2
    BY DEF Drops
  <2>2. /\ net'.trouble \in 0 .. MaxTrouble /\ Len(events') \in Nat
        /\ Length(events', net'.link) >= Len(events') /\ Length(events', net'.link) \in Nat
    BY DEF NetRecs, Length
  <2> QED
    BY <2>1, <2>2, Bounds
<1>3. events' \in UNION {[1 .. n -> Events] : n \in 0 .. 2 * MaxTrouble + 3}
  <2>1. 2 * MaxTrouble + 3 \in Nat
    BY Bounds
  <2> QED
    BY <1>2, <2>1, EventsAreSeq
<1>4. LinkTypeOK'
  BY <1>3 DEF LinkTypeOK, Rest, NetRecs, SnapRecs, Pcs, Events
<1> QED
  BY <1>1, <1>4 DEF LinkInv

\* The link and the events are left alone, and no drop is added.
LEMMA LinkFrame ==
    ASSUME LinkInv, Rest', net' \in NetRecs, net'.link = net.link, net'.trouble >= net.trouble,
           events' = events, Drops' <= Drops
    PROVE  LinkInv'
<1>1. Length(events', net'.link) = Backlog /\ Turns(events', net'.link)
  BY Numbers
<1>2. Drops' \in 0 .. 2 /\ net'.trouble \in 0 .. MaxTrouble
  BY DEF Drops, NetRecs
<1>3. Backlog + 2 * Drops' <= 2 * net'.trouble + 2
  <2>1. /\ Backlog \in Nat /\ Drops \in 0 .. 2 /\ net.trouble \in Nat
        /\ Backlog + 2 * Drops <= 2 * net.trouble + 2
    BY Numbers
  <2> QED
    BY <1>2, <2>1, Bounds
<1> QED
  BY <1>1, <1>3, Numbers, LinkParts

\* The link goes and "gone" is posted: paid for by a failure that is counted,
\* or by one of the drops snap_task was still to make.
LEMMA LinkGone ==
    ASSUME LinkInv, Rest', net' \in NetRecs, net.link = TRUE, net'.link = FALSE,
           events' = Append(events, "gone"),
           Drops' + 1 + net.trouble <= Drops + net'.trouble
    PROVE  LinkInv'
<1>1. events' \in Seq(Events) /\ Turns(events', net'.link)
  <2>1. Turns(Append(events, "gone"), FALSE)
    BY Numbers, PostTurns
  <2>2. Append(events, "gone") \in Seq(Events)
    BY Numbers DEF Events
  <2> QED
    BY <2>1, <2>2 DEF Turns
<1>2. Drops' \in 0 .. 2 /\ net'.trouble \in Nat
  BY Bounds DEF Drops, NetRecs
<1>3. Len(events') = Len(events) + 1 /\ Len(events) \in Nat
  BY Numbers DEF Events
<1>4. /\ Backlog = Length(events, net.link) /\ Backlog \in Nat
      /\ Drops \in 0 .. 2 /\ net.trouble \in Nat
      /\ Backlog + 2 * Drops <= 2 * net.trouble + 2
  BY Numbers
<1>5. Length(events', net'.link) = Backlog + 2
  BY <1>3, <1>4 DEF Length
<1>6. Backlog + 2 + 2 * Drops' <= 2 * net'.trouble + 2
  <2>1. \A b, d, e, t, u \in Int :
           b + 2 * d <= 2 * t + 2 /\ e + 1 + t <= d + u => b + 2 + 2 * e <= 2 * u + 2
    OBVIOUS
  <2>2. Backlog \in Int /\ Drops \in Int /\ Drops' \in Int /\ net.trouble \in Int /\ net'.trouble \in Int
    BY <1>2, <1>4
  <2> QED
    BY <1>4, <2>1, <2>2
<1> QED
  BY <1>1, <1>5, <1>6, LinkParts

\* The link comes back and "ip" is posted, which was counted already.
LEMMA LinkBack ==
    ASSUME LinkInv, Rest', net' \in NetRecs, net.link = FALSE, net'.link = TRUE,
           events' = Append(events, "ip"), net'.trouble = net.trouble, Drops' <= Drops
    PROVE  LinkInv'
<1>1. events' \in Seq(Events) /\ Turns(events', net'.link)
  <2>1. Turns(Append(events, "ip"), TRUE)
    BY Numbers, PostTurns
  <2>2. Append(events, "ip") \in Seq(Events)
    BY Numbers DEF Events
  <2> QED
    BY <2>1, <2>2 DEF Turns
<1>2. Drops' \in 0 .. 2
  BY DEF Drops
<1>3. Len(events') = Len(events) + 1 /\ Len(events) \in Nat
  BY Numbers DEF Events
<1>4. /\ Backlog = Length(events, net.link) /\ Backlog \in Nat
      /\ Drops \in 0 .. 2 /\ net.trouble \in Nat
      /\ Backlog + 2 * Drops <= 2 * net.trouble + 2
  BY Numbers
<1>5. Length(events', net'.link) = Backlog
  BY <1>3, <1>4 DEF Length
<1>6. Backlog + 2 * Drops' <= 2 * net'.trouble + 2
  BY <1>2, <1>4
<1> QED
  BY <1>1, <1>5, <1>6, LinkParts

\* An event is taken up; an "ip" may allow one more drop.
LEMMA LinkTake ==
    ASSUME LinkInv, Rest', net' = net, events # <<>>, events' = Tail(events),
           Drops' <= Drops + (IF Head(events) = "ip" THEN 1 ELSE 0)
    PROVE  LinkInv'
<1>1. /\ events' \in Seq(Events) /\ Turns(events', net'.link)
      /\ Length(events', net'.link) = Backlog - 1
      /\ Head(events) = "ip" <=> Backlog % 2 = 1
  BY Numbers, TakeTurns
<1>2. Drops' \in 0 .. 2 /\ net'.trouble = net.trouble
  BY DEF Drops
<1>3. /\ Backlog \in Nat /\ Drops \in 0 .. 2 /\ net.trouble \in Nat
      /\ Backlog + 2 * Drops <= 2 * net.trouble + 2
  BY Numbers, Bounds
<1>4. Backlog - 1 + 2 * Drops' <= 2 * net.trouble + 2
  <2>1. CASE Head(events) = "ip"
    <3>1. Backlog # 2 * (net.trouble + 1 - Drops)
      <4>1. net.trouble + 1 - Drops \in Int
        BY <1>3
      <4>2. (2 * (net.trouble + 1 - Drops)) % 2 = 0
        BY <4>1, Parity
      <4> QED
        BY <1>1, <2>1, <4>2
    <3>2. Drops' <= Drops + 1
      BY <2>1
    <3> QED
      BY <1>2, <1>3, <3>1, <3>2, SMTT(30)
  <2>2. CASE Head(events) # "ip"
    <3>1. Drops' <= Drops
      BY <1>3, <2>2
    <3> QED
      BY <1>2, <1>3, <3>1
  <2> QED
    BY <2>1, <2>2
<1> QED
  BY <1>1, <1>2, <1>4, Numbers, LinkParts

-----------------------------------------------------------------------------
(* Every step keeps the link's invariant *)

\* Drops from what they are counted for.
LEMMA DropsCount ==
    /\ Drops \in 0 .. 2 /\ Drops' \in 0 .. 2
    /\ (Dropping' => Dropping) /\ (Trying' => Trying) => Drops' <= Drops
    /\ (Dropping' => Dropping) => Drops' <= Drops + 1
    /\ Trying /\ ~Trying' => Drops' <= Drops
    /\ Dropping /\ ~Dropping' /\ (Trying' => Trying) => Drops' + 1 <= Drops
BY DEF Drops

LEMMA LinkInit == Init => LinkInv
<1> SUFFICES ASSUME Init PROVE LinkInv
  OBVIOUS
<1>1. snap \in SnapRecs /\ net \in NetRecs
  BY Bounds DEF Init, SnapRecs, NetRecs, Pcs
<1>2. LinkTypeOK
  <2>1. events \in Seq(Events) /\ Len(events) <= 2 * MaxTrouble + 3
    BY Bounds DEF Init
  <2>2. /\ up \in BOOLEAN /\ bits \subseteq {Available, Changed} /\ open \in BOOLEAN
        /\ ev = "idle" /\ tcp = "none" /\ codec \in BOOLEAN
    BY DEF Init
  <2> QED
    BY <1>1, <2>1, <2>2, LinkTypes
<1>3. InTurn
  BY DEF Init, InTurn
<1>4. Bounded
  <2>1. Backlog = 1 /\ Drops = 0 /\ net.trouble = 0
    BY DEF Init, Backlog, Drops, Dropping, Trying
  <2> QED
    BY <2>1 DEF Bounded
<1> QED
  BY <1>2, <1>3, <1>4 DEF LinkInv

\* Steps of Mesh-Lite and the server.
LEMMA EnvironmentKeepsLink ==
    ASSUME LinkInv, Environment
    PROVE  LinkInv'
<1>1. Rest /\ net \in NetRecs /\ net.link \in BOOLEAN /\ net.trouble \in Nat
  BY Numbers
<1>2. net.link = TRUE \/ net.link = FALSE
  BY <1>1
<1>3. ASSUME UNCHANGED <<up, snap>> PROVE Drops' <= Drops /\ Drops \in 0 .. 2 /\ Drops' \in 0 .. 2
  <2>1. (Dropping' <=> Dropping) /\ (Trying' <=> Trying)
    BY <1>3 DEF Dropping, Trying
  <2> QED
    BY <2>1, DropsCount
<1>4. CASE LinkUp
  <2>1. /\ net' \in NetRecs /\ net.link = FALSE /\ net'.link = TRUE /\ net'.trouble = net.trouble
        /\ events' = Append(events, "ip")
    BY <1>1, <1>2, <1>4 DEF LinkUp, NetRecs
  <2>2. Rest' /\ Drops' <= Drops
    BY <1>1, <1>3, <1>4 DEF LinkUp, Rest
  <2> QED
    BY <2>1, <2>2, LinkBack
<1>5. CASE LinkLost
  <2>1. /\ net' \in NetRecs /\ net.link = TRUE /\ net'.link = FALSE
        /\ net'.trouble = net.trouble + 1 /\ events' = Append(events, "gone")
    <3>1. net.trouble + 1 \in 0 .. MaxTrouble
      BY <1>1, <1>5, Bounds DEF LinkLost
    <3> QED
      BY <1>1, <1>2, <1>5, <3>1 DEF LinkLost, NetRecs
  <2>2. Rest' /\ Drops' + 1 + net.trouble <= Drops + net'.trouble
    BY <1>1, <1>3, <1>5, <2>1 DEF LinkLost, Lost, Rest
  <2> QED
    BY <2>1, <2>2, LinkGone
<1>6. CASE ServerLost \/ ServerBack
  <2>1. net' \in NetRecs /\ net'.link = net.link /\ net'.trouble >= net.trouble
    <3>1. CASE ServerLost
      <4>1. net.trouble + 1 \in 0 .. MaxTrouble
        BY <1>1, <3>1, Bounds DEF ServerLost
      <4>2. net' = [net EXCEPT !.server = FALSE, !.trouble = @ + 1]
        BY <3>1 DEF ServerLost
      <4>3. net' \in NetRecs
        BY <1>1, <4>1, <4>2 DEF NetRecs
      <4>4. net'.link = net.link /\ net'.trouble = net.trouble + 1
        BY <1>1, <4>2 DEF NetRecs
      <4> QED
        BY <1>1, <4>3, <4>4
    <3>2. CASE ServerBack
      <4>1. net' = [net EXCEPT !.server = TRUE]
        BY <3>2 DEF ServerBack
      <4>2. net' \in NetRecs
        BY <1>1, <4>1 DEF NetRecs
      <4>3. net'.link = net.link /\ net'.trouble = net.trouble
        BY <1>1, <4>1 DEF NetRecs
      <4> QED
        BY <1>1, <4>2, <4>3
    <3> QED
      BY <1>6, <3>1, <3>2
  <2>2. Rest' /\ Drops' <= Drops /\ events' = events
    BY <1>1, <1>3, <1>6 DEF ServerLost, ServerBack, Lost, Rest
  <2> QED
    BY <2>1, <2>2, LinkFrame
<1> QED
  BY <1>4, <1>5, <1>6 DEF Environment

\* Steps of the event task: only the first one of each call takes up an event.
LEMMA EventTaskKeepsLink ==
    ASSUME LinkInv, EventTask
    PROVE  LinkInv'
<1>1. Rest /\ net \in NetRecs /\ net.trouble \in Nat /\ Drops \in 0 .. 2
  BY Numbers
<1>2. CASE SetAvailable
  <2>1. Rest' /\ net' = net /\ snap' = snap
    BY <1>1, <1>2 DEF SetAvailable, Rest
  <2>2. CASE events # <<>> /\ Head(events) = "ip" /\ events' = Tail(events)
    <3>1. Drops' <= Drops + 1
      BY <2>1, DropsCount DEF Dropping, Trying
    <3>2. Drops' <= Drops + (IF Head(events) = "ip" THEN 1 ELSE 0)
      BY <2>2, <3>1
    <3> QED
      BY <2>1, <2>2, <3>2, LinkTake
  <2>3. CASE UNCHANGED <<events, up>>
    <3>1. Drops' <= Drops
      BY <1>1, <2>1, <2>3, DropsCount DEF Dropping, Trying
    <3> QED
      BY <1>1, <2>1, <2>3, <3>1, LinkFrame
  <2> QED
    BY <1>2, <2>2, <2>3 DEF SetAvailable
<1>3. CASE SetGone
  <2>1. Rest' /\ net' = net /\ snap' = snap
    BY <1>1, <1>3 DEF SetGone, Rest
  <2>2. CASE events # <<>> /\ Head(events) = "gone" /\ events' = Tail(events) /\ up' = FALSE
    <3>1. Drops' <= Drops
      BY <2>1, <2>2, DropsCount DEF Dropping, Trying
    <3>2. Drops' <= Drops + (IF Head(events) = "ip" THEN 1 ELSE 0)
      BY <1>1, <2>2, <3>1
    <3> QED
      BY <2>1, <2>2, <3>2, LinkTake
  <2>3. CASE UNCHANGED <<events, up>>
    <3>1. Drops' <= Drops
      BY <1>1, <2>1, <2>3, DropsCount DEF Dropping, Trying
    <3> QED
      BY <1>1, <2>1, <2>3, <3>1, LinkFrame
  <2> QED
    BY <1>3, <2>2, <2>3 DEF SetGone
<1>4. CASE StartClient
  <2>1. snap' \in SnapRecs /\ snap'.pc = "top"
    BY <1>1, <1>4, GotoRow DEF StartClient, Rest, Pcs
  <2>2. Rest' /\ UNCHANGED <<net, events, up>>
    BY <1>1, <1>4, <2>1 DEF StartClient, Rest
  <2>3. Drops' <= Drops
    BY <2>1, <2>2, DropsCount DEF Dropping, Trying
  <2> QED
    BY <1>1, <2>2, <2>3, LinkFrame
<1>5. CASE AbortOpen
  <2>1. Rest' /\ UNCHANGED <<net, events, up, snap>>
    BY <1>1, <1>5 DEF AbortOpen, Rest
  <2>2. Drops' <= Drops
    BY <2>1, DropsCount DEF Dropping, Trying
  <2> QED
    BY <1>1, <2>1, <2>2, LinkFrame
<1> QED
  BY <1>2, <1>3, <1>4, <1>5 DEF EventTask

\* Counting attempts and timeouts.
LEMMA CountRow ==
    ASSUME snap \in SnapRecs, NEW pc \in Pcs, NEW n \in 0 .. Attempts - 1, NEW q \in 0 .. Stall - 1
    PROVE  /\ [snap EXCEPT !.failed = n, !.pc = pc] \in SnapRecs
           /\ [snap EXCEPT !.failed = n, !.pc = pc].pc = pc
           /\ [snap EXCEPT !.pc = pc, !.quiet = q] \in SnapRecs
           /\ [snap EXCEPT !.pc = pc, !.quiet = q].pc = pc
           /\ [snap EXCEPT !.quiet = q] \in SnapRecs
           /\ [snap EXCEPT !.quiet = q].pc = snap.pc
BY DEF SnapRecs

\* Steps of snap_task that neither touch the link nor begin a drop.
LEMMA SnapFrame ==
    ASSUME LinkInv, UNCHANGED <<net, events, up, ev>>, snap' \in SnapRecs,
           Dropping' => Dropping, Trying' => Trying,
           bits' \subseteq {Available, Changed}, open' \in BOOLEAN,
           tcp' \in {"none", "ok", "dead", "broken", "shut"}, codec' \in BOOLEAN
    PROVE  LinkInv'
<1>1. Rest /\ net \in NetRecs /\ net.trouble \in Nat
  BY Numbers
<1>2. Rest' /\ Drops' <= Drops
  BY <1>1, DropsCount DEF Rest
<1> QED
  BY <1>1, <1>2, LinkFrame

\* The steps up to a connection.
LEMMA ConnectingKeepsLink ==
    ASSUME LinkInv, Top \/ Wait \/ Connect \/ Failed \/ Sleep \/ TakeSocket
    PROVE  LinkInv'
<1>1. Rest
  BY Numbers
<1>2. CASE Top
  <2>1. snap' \in SnapRecs /\ snap'.pc = (IF up THEN "connect" ELSE "wait")
    BY <1>1, <1>2, GotoRow DEF Top, Rest, Pcs
  <2>2. (Dropping' => Dropping) /\ (Trying' => Trying)
    BY <1>2, <2>1 DEF Top, Dropping, Trying
  <2> QED
    BY <1>1, <1>2, <2>1, <2>2, SnapFrame DEF Top, Rest
<1>3. CASE Wait
  <2>1. snap' \in SnapRecs /\ snap'.pc = "top"
    BY <1>1, <1>3, GotoRow DEF Wait, Rest, Pcs
  <2>2. (Dropping' => Dropping) /\ (Trying' => Trying)
    BY <1>3, <2>1 DEF Wait, Dropping, Trying
  <2> QED
    BY <1>1, <1>3, <2>1, <2>2, SnapFrame DEF Wait, Rest
<1>4. CASE Connect
  <2>1. /\ snap' \in SnapRecs /\ snap'.pc \in {"connecting", "failed", "check"}
        /\ snap.pc \in {"connect", "connecting"} /\ tcp' \in {tcp, "ok"}
    <3>1. CASE At("connect") /\ Goto(IF up THEN "connecting" ELSE "failed") /\ UNCHANGED tcp
      BY <1>1, <3>1, GotoRow DEF Rest, Pcs, At
    <3>2. CASE At("connecting") /\ Goto("check") /\ tcp' = "ok"
      BY <1>1, <3>2, GotoRow DEF Rest, Pcs, At
    <3>3. CASE At("connecting") /\ Goto("failed") /\ UNCHANGED tcp
      BY <1>1, <3>3, GotoRow DEF Rest, Pcs, At
    <3> QED
      BY <1>4, <3>1, <3>2, <3>3 DEF Connect
  <2>2. (Dropping' => Dropping) /\ (Trying' => Trying)
    BY <2>1 DEF Dropping, Trying
  <2> QED
    BY <1>1, <1>4, <2>1, <2>2, SnapFrame DEF Connect, Rest
<1>5. CASE Failed
  <2>1. snap' \in SnapRecs /\ snap'.pc \in {"down", "retry"} /\ snap.pc = "failed"
    <3>1. snap.failed \in 0 .. Attempts - 1 /\ snap.pc = "failed"
      BY <1>1, <1>5 DEF Rest, SnapRecs, Failed, At
    <3>2. CASE snap.failed + 1 >= Attempts
      <4>1. snap' = [snap EXCEPT !.failed = 0, !.pc = "down"]
        BY <1>5, <3>2 DEF Failed
      <4>2. 0 \in 0 .. Attempts - 1 /\ 0 \in 0 .. Stall - 1
        BY Bounds
      <4> QED
        BY <1>1, <3>1, <4>1, <4>2, CountRow DEF Rest, Pcs
    <3>3. CASE ~(snap.failed + 1 >= Attempts)
      <4>1. snap' = [snap EXCEPT !.failed = snap.failed + 1, !.pc = "retry"]
        BY <1>5, <3>3 DEF Failed
      <4>2. snap.failed + 1 \in 0 .. Attempts - 1
        BY <3>1, <3>3, Bounds
      <4>3. 0 \in 0 .. Stall - 1
        BY Bounds
      <4> QED
        BY <1>1, <3>1, <4>1, <4>2, <4>3, CountRow DEF Rest, Pcs
    <3> QED
      BY <3>2, <3>3
  <2>2. (Dropping' => Dropping) /\ (Trying' => Trying)
    BY <2>1 DEF Dropping, Trying
  <2> QED
    BY <1>1, <1>5, <2>1, <2>2, SnapFrame DEF Failed, Rest
<1>6. CASE Sleep
  <2>1. snap' \in SnapRecs /\ snap'.pc \in {"sleep", "top"} /\ bits' \subseteq {Available, Changed}
    <3>1. CASE Goto(IF up THEN "sleep" ELSE "top") /\ UNCHANGED bits
      BY <1>1, <3>1, GotoRow DEF Rest, Pcs
    <3>2. CASE Goto("top") /\ bits' = {}
      BY <1>1, <3>2, GotoRow DEF Rest, Pcs
    <3>3. CASE Goto("top") /\ UNCHANGED bits
      BY <1>1, <3>3, GotoRow DEF Rest, Pcs
    <3> QED
      BY <1>6, <3>1, <3>2, <3>3 DEF Sleep
  <2>2. (Dropping' => Dropping) /\ (Trying' => Trying)
    BY <1>6, <2>1 DEF Sleep, Dropping, Trying
  <2> QED
    BY <1>1, <1>6, <2>1, <2>2, SnapFrame DEF Sleep, Rest
<1>7. CASE TakeSocket
  <2>1. /\ snap' \in SnapRecs /\ snap'.pc \in {"assign", "top", "hello"}
        /\ tcp' \in {tcp, "none"} /\ open' \in BOOLEAN /\ codec' \in BOOLEAN
    <3>1. CASE /\ At("check")
               /\ snap' = [snap EXCEPT !.failed = 0, !.pc = IF up THEN "assign" ELSE "top"]
               /\ tcp' = IF up THEN tcp ELSE "none"
               /\ UNCHANGED <<open, codec>>
      <4>1. 0 \in 0 .. Attempts - 1 /\ 0 \in 0 .. Stall - 1
        BY Bounds
      <4>2. \A pc \in Pcs : LET r == [snap EXCEPT !.failed = 0, !.pc = pc]
                            IN  r \in SnapRecs /\ r.pc = pc
        BY <1>1, <4>1, CountRow DEF Rest
      <4>3. (IF up THEN "assign" ELSE "top") \in Pcs \cap {"assign", "top"}
        BY DEF Pcs
      <4>4. snap' \in SnapRecs /\ snap'.pc \in {"assign", "top"}
        BY <3>1, <4>2, <4>3
      <4> QED
        BY <1>1, <3>1, <4>4 DEF Rest
    <3>2. CASE Goto("hello") /\ open' = TRUE /\ codec' = FALSE /\ UNCHANGED tcp
      BY <1>1, <3>2, GotoRow DEF Rest, Pcs
    <3> QED
      BY <1>7, <3>1, <3>2 DEF TakeSocket
  <2>2. (Dropping' => Dropping) /\ (Trying' => Trying)
    BY <1>7, <2>1 DEF TakeSocket, Dropping, Trying
  <2> QED
    BY <1>1, <1>7, <2>1, <2>2, SnapFrame DEF TakeSocket, Rest
<1> QED
  BY <1>2, <1>3, <1>4, <1>5, <1>6, <1>7

\* The forced rejoin: the drop that is begun was one still to be made, and the
\* one that is made is counted no more.
LEMMA RejoinKeepsLink ==
    ASSUME LinkInv, GiveUpNetwork \/ DropLink
    PROVE  LinkInv'
<1>1. Rest /\ net \in NetRecs /\ net.link \in BOOLEAN /\ net.trouble \in Nat
  BY Numbers
<1>2. CASE GiveUpNetwork
  <2>1. CASE At("down") /\ up' = FALSE /\ Goto(IF up THEN "down bits" ELSE "drop link") /\ UNCHANGED bits
    <3>1. snap' \in SnapRecs /\ snap'.pc \in {"down bits", "drop link"} /\ snap.pc = "down"
      BY <1>1, <2>1, GotoRow DEF Rest, Pcs, At
    <3>2. Trying /\ ~Trying'
      BY <2>1, <3>1 DEF Trying
    <3>3. Rest' /\ UNCHANGED <<net, events>>
      BY <1>1, <1>2, <2>1, <3>1 DEF GiveUpNetwork, Rest
    <3> QED
      BY <1>1, <3>2, <3>3, DropsCount, LinkFrame
  <2>2. CASE At("down bits") /\ Goto("drop link") /\ UNCHANGED up
             /\ bits' = (bits \ {Available}) \cup {Changed}
    <3>1. snap' \in SnapRecs /\ snap'.pc = "drop link" /\ snap.pc = "down bits"
      BY <1>1, <2>2, GotoRow DEF Rest, Pcs, At
    <3>2. (Dropping' => Dropping) /\ (Trying' => Trying)
      BY <2>2, <3>1 DEF Dropping, Trying
    <3> QED
      BY <1>1, <1>2, <2>2, <3>1, <3>2, SnapFrame DEF GiveUpNetwork, Rest
  <2> QED
    BY <1>2, <2>1, <2>2 DEF GiveUpNetwork
<1>3. CASE DropLink
  <2>1. snap' \in SnapRecs /\ snap'.pc = "retry" /\ snap.pc = "drop link"
    BY <1>1, <1>3, GotoRow DEF DropLink, Rest, Pcs, At
  <2>2. Rest' /\ net' = [net EXCEPT !.link = FALSE]
    BY <1>1, <1>3, <2>1 DEF DropLink, Rest
  <2>3. Dropping /\ ~Dropping' /\ (Trying' => Trying)
    BY <1>3, <2>1 DEF DropLink, Dropping, Trying
  <2>4. net' \in NetRecs
    BY <1>1, <2>2 DEF NetRecs
  <2>5. net'.link = FALSE
    BY <1>1, <2>2 DEF NetRecs
  <2>6. net'.trouble = net.trouble /\ net.trouble \in Nat
    <3>1. net'.trouble = net.trouble
      BY <1>1, <2>2 DEF NetRecs
    <3> QED
      BY <3>1, Numbers
  <2>7. Drops' + 1 <= Drops /\ Drops \in 0 .. 2 /\ Drops' \in 0 .. 2
    BY <2>3, DropsCount
  <2>8. /\ Drops' + 1 + net.trouble <= Drops + net'.trouble
        /\ Drops' <= Drops /\ net'.trouble >= net.trouble
    <3>1. \A d, e, t, u \in Int : e + 1 <= d /\ u = t => e + 1 + t <= d + u /\ e <= d /\ u >= t
      OBVIOUS
    <3>2. Drops \in Int /\ Drops' \in Int
      BY <2>7
    <3>3. net.trouble \in Int /\ net'.trouble \in Int
      BY <2>6
    <3> QED
      BY <2>6, <2>7, <3>1, <3>2, <3>3
  <2>9. CASE net.link = TRUE
    <3>1. events' = Append(events, "gone")
      BY <1>3, <2>9 DEF DropLink
    <3> QED
      BY <2>2, <2>4, <2>5, <2>9, <2>8, <3>1, LinkGone
  <2>10. CASE net.link = FALSE
    <3>1. events' = events /\ net'.link = net.link
      BY <1>3, <2>5, <2>10 DEF DropLink
    <3> QED
      BY <2>2, <2>4, <2>8, <3>1, LinkFrame
  <2> QED
    BY <1>1, <2>9, <2>10
<1> QED
  BY <1>2, <1>3

\* The steps on a connection, and its end.
LEMMA ConnectedKeepsLink ==
    ASSUME LinkInv, ReadFails \/ Read \/ Timeout \/ SayHello \/ SendTime \/ Process \/ Close
    PROVE  LinkInv'
<1>1. Rest
  BY Numbers
<1>2. /\ UNCHANGED <<net, events, up, ev>> /\ bits' = bits
      /\ tcp' \in {tcp, "none"} /\ open' \in {open, FALSE} /\ codec' \in BOOLEAN
  BY <1>1 DEF ReadFails, Read, Timeout, SayHello, SendTime, Process, Close, Rest
<1>3. snap' \in SnapRecs /\ (snap'.pc \in Reading \cup {"close", "unset", "lost", "sleep", "top"})
  <2>1. ASSUME NEW pc \in Reading \cup {"close", "unset", "lost", "sleep", "top"}, Goto(pc)
        PROVE  snap' \in SnapRecs /\ snap'.pc = pc
    BY <1>1, <2>1, GotoRow DEF Rest, Pcs
  <2>2. CASE ReadFails
    BY <2>1, <2>2 DEF ReadFails
  <2>3. CASE Read
    BY <2>1, <2>3 DEF Read, Reading
  <2>4. CASE Timeout
    <3>1. snap.quiet \in 0 .. Stall - 1 /\ snap.pc \in Reading
      BY <1>1, <2>4 DEF Rest, SnapRecs, Timeout, Reading
    <3>2. CASE snap.quiet + 1 >= Stall
      <4>1. snap' = [snap EXCEPT !.pc = "close", !.quiet = 0]
        BY <2>4, <3>2 DEF Timeout
      <4>2. 0 \in 0 .. Attempts - 1 /\ 0 \in 0 .. Stall - 1
        BY Bounds
      <4> QED
        BY <1>1, <4>1, <4>2, CountRow DEF Rest, Pcs
    <3>3. CASE ~(snap.quiet + 1 >= Stall)
      <4>1. snap' = [snap EXCEPT !.quiet = snap.quiet + 1]
        BY <2>4, <3>3 DEF Timeout
      <4>2. snap.quiet + 1 \in 0 .. Stall - 1
        BY <3>1, <3>3, Bounds
      <4>3. 0 \in 0 .. Attempts - 1 /\ "close" \in Pcs
        BY Bounds DEF Pcs
      <4> QED
        <5>1. /\ [snap EXCEPT !.quiet = snap.quiet + 1] \in SnapRecs
              /\ [snap EXCEPT !.quiet = snap.quiet + 1].pc = snap.pc
          BY <1>1, <4>2, <4>3, CountRow DEF Rest
        <5> QED
          BY <3>1, <4>1, <5>1
    <3> QED
      BY <3>2, <3>3
  <2>5. CASE SayHello
    BY <2>1, <2>5 DEF SayHello, Reading
  <2>6. CASE SendTime
    BY <1>1, <2>6 DEF SendTime, Rest, At, Reading
  <2>7. CASE Process
    BY <2>1, <2>7 DEF Process, Reading
  <2>8. CASE Close
    BY <2>1, <2>8 DEF Close
  <2> QED
    BY <2>2, <2>3, <2>4, <2>5, <2>6, <2>7, <2>8
<1>4. (Dropping' => Dropping) /\ (Trying' => Trying)
  BY <1>2, <1>3 DEF Dropping, Trying, Reading
<1> QED
  BY <1>1, <1>2, <1>3, <1>4, SnapFrame DEF Rest

LEMMA LinkStep ==
    ASSUME LinkInv, [Next]_vars
    PROVE  LinkInv'
<1>1. CASE Next
  <2>1. CASE TimeServer
    <3>1. Rest
      BY Numbers
    <3>2. UNCHANGED <<net, events, up, bits, ev, snap, open, tcp, codec>>
      BY <2>1 DEF TimeServer
    <3>3. (Dropping' => Dropping) /\ (Trying' => Trying)
      BY <3>2 DEF Dropping, Trying
    <3> QED
      BY <3>1, <3>2, <3>3, SnapFrame DEF Rest
  <2>2. CASE SnapTask
    BY <2>2, ConnectingKeepsLink, RejoinKeepsLink, ConnectedKeepsLink DEF SnapTask
  <2> QED
    BY <1>1, <2>1, <2>2, EnvironmentKeepsLink, EventTaskKeepsLink DEF Next
<1>2. CASE UNCHANGED vars
  <2>1. Rest
    BY Numbers
  <2>2. UNCHANGED <<net, events, up, bits, ev, snap, open, tcp, codec>>
    BY <1>2 DEF vars
  <2>3. (Dropping' => Dropping) /\ (Trying' => Trying)
    BY <2>2 DEF Dropping, Trying
  <2> QED
    BY <2>1, <2>2, <2>3, SnapFrame DEF Rest
<1> QED
  BY <1>1, <1>2

\* The variables have their types, and never more events wait than two for
\* every failure of the link and two more: what snap_task itself drops does
\* not add up (snapclient.c, mesh_client.c).
THEOREM LinkBounded == Spec => []LinkInv
<1>1. LinkInv /\ [Next]_vars => LinkInv'
  BY LinkStep
<1> QED
  BY LinkInit, <1>1, PTL DEF Spec

\* In particular the variables of the link, the events and snap_task keep their
\* types (snapclient.c, mesh_client.c).
THEOREM LinkTypeCorrect == Spec => []LinkTypeOK
<1>1. LinkInv => LinkTypeOK
  BY DEF LinkInv
<1> QED
  BY LinkBounded, <1>1, PTL

-----------------------------------------------------------------------------
(* Every step keeps the wake-up *)

\* Steps that leave the flag, the bits, the event task and the waiting alone.
LEMMA WakeFrame ==
    ASSUME WakeInv, UNCHANGED <<up, bits, ev>>, At("off")' <=> At("off"), At("wait")' => At("wait")
    PROVE  WakeInv'
BY DEF WakeInv, Announcing

\* The event task: a flag that is set is followed by the bits, and whoever
\* takes the bits away has taken the flag back before.
LEMMA EventTaskKeepsWake ==
    ASSUME LinkInv, WakeInv, EventTask
    PROVE  WakeInv'
<1>1. Rest
  BY Numbers
<1>2. CASE SetAvailable
  <2>1. UNCHANGED snap /\ (At("off")' <=> At("off")) /\ (At("wait")' <=> At("wait"))
    BY <1>2 DEF SetAvailable, At
  <2>2. CASE ev = "idle" /\ up' = TRUE /\ ev' = (IF up THEN "idle" ELSE "up") /\ UNCHANGED bits
    BY <1>1, <2>1, <2>2 DEF WakeInv, Announcing, Rest
  <2>3. CASE /\ ev = "up" /\ UNCHANGED up
             /\ bits' = (IF At("off") THEN bits ELSE {Available, Changed})
             /\ ev' = (IF At("off") THEN "start" ELSE "idle")
    <3>1. CASE At("off")
      <4>1. ~At("wait")
        BY <3>1 DEF At
      <4> QED
        BY <2>1, <2>3, <3>1, <4>1 DEF WakeInv, Announcing
    <3>2. CASE ~At("off")
      BY <2>1, <2>3, <3>2 DEF WakeInv, Announcing
    <3> QED
      BY <3>1, <3>2
  <2> QED
    BY <1>2, <2>2, <2>3 DEF SetAvailable
<1>3. CASE SetGone
  <2>1. UNCHANGED snap /\ (At("off")' <=> At("off")) /\ (At("wait")' <=> At("wait"))
    BY <1>3 DEF SetGone, At
  <2>2. CASE up' = FALSE /\ ev' \in {"down", "idle"}
    BY <2>1, <2>2 DEF WakeInv, Announcing
  <2>3. CASE ev = "down" /\ ev' = "abort" /\ UNCHANGED up
    BY <2>1, <2>3 DEF WakeInv, Announcing
  <2> QED
    BY <1>3, <2>2, <2>3 DEF SetGone
<1>4. CASE StartClient
  <2>1. snap'.pc = "top"
    BY <1>1, <1>4, GotoRow DEF StartClient, Rest, Pcs
  <2> QED
    BY <1>4, <2>1 DEF StartClient, WakeInv, Announcing, At
<1>5. CASE AbortOpen
  <2>1. UNCHANGED <<snap, up, bits>> /\ ev' \in {"idle", "aborting"} /\ ev \in {"abort", "aborting"}
    BY <1>5 DEF AbortOpen
  <2> QED
    BY <2>1 DEF WakeInv, Announcing, At
<1> QED
  BY <1>2, <1>3, <1>4, <1>5 DEF EventTask

\* snap_task begins to wait only after it has seen the flag down; it takes bits
\* away before that, or together with the flag.
LEMMA SnapTaskKeepsWake ==
    ASSUME LinkInv, WakeInv, SnapTask
    PROVE  WakeInv'
<1>1. Rest
  BY Numbers
<1>2. CASE Top
  <2>1. snap'.pc = (IF up THEN "connect" ELSE "wait") /\ snap.pc = "top"
    BY <1>1, <1>2, GotoRow DEF Top, Rest, Pcs, At
  <2>2. UNCHANGED <<up, bits, ev>>
    BY <1>2 DEF Top
  <2> QED
    BY <2>1, <2>2 DEF WakeInv, Announcing, At
<1>3. ASSUME ~At("off"), snap'.pc \notin {"off", "wait"}, UNCHANGED ev, up' = up \/ up' = FALSE
      PROVE  WakeInv'
  BY <1>3 DEF WakeInv, Announcing, At
<1>4. CASE GiveUpNetwork
  <2>1. ~At("off") /\ snap'.pc \in {"down bits", "drop link"}
    <3>1. CASE At("down") /\ Goto(IF up THEN "down bits" ELSE "drop link")
      BY <1>1, <3>1, GotoRow DEF Rest, Pcs, At
    <3>2. CASE At("down bits") /\ Goto("drop link")
      BY <1>1, <3>2, GotoRow DEF Rest, Pcs, At
    <3> QED
      BY <1>4, <3>1, <3>2 DEF GiveUpNetwork
  <2> QED
    BY <1>3, <1>4, <2>1 DEF GiveUpNetwork
<1>5. ASSUME NEW pc \in Pcs \ {"off", "wait"}, Goto(pc) PROVE snap'.pc \notin {"off", "wait"}
  BY <1>1, <1>5, GotoRow DEF Rest
<1>6. CASE Wait \/ Connect \/ DropLink \/ Sleep \/ TakeSocket
  <2>1. ~At("off") /\ UNCHANGED <<up, ev>>
    BY <1>6 DEF Wait, Connect, DropLink, Sleep, TakeSocket, At
  <2>2. snap'.pc \notin {"off", "wait"}
    <3>1. CASE Wait
      BY <1>5, <3>1 DEF Wait, Pcs
    <3>2. CASE Connect
      BY <1>5, <3>2 DEF Connect, Pcs
    <3>3. CASE DropLink
      BY <1>5, <3>3 DEF DropLink, Pcs
    <3>4. CASE Sleep
      BY <1>5, <3>4 DEF Sleep, Pcs
    <3>5. CASE TakeSocket
      BY <1>1, <1>5, <3>5 DEF TakeSocket, Pcs, Rest, SnapRecs
    <3> QED
      BY <1>6, <3>1, <3>2, <3>3, <3>4, <3>5
  <2> QED
    BY <1>3, <2>1, <2>2
<1>7. CASE Failed
  <2>1. ~At("off") /\ snap'.pc \in {"down", "retry"} /\ UNCHANGED <<up, ev>>
    BY <1>1, <1>7 DEF Failed, Rest, SnapRecs, At
  <2> QED
    BY <1>3, <2>1
<1>8. CASE ReadFails \/ Read \/ SayHello \/ Process \/ Close
  <2>1. ~At("off") /\ UNCHANGED <<up, ev>>
    BY <1>8 DEF ReadFails, Read, SayHello, Process, Close, At, Reading
  <2>2. snap'.pc \notin {"off", "wait"}
    <3>1. CASE ReadFails
      BY <1>5, <3>1 DEF ReadFails, Pcs
    <3>2. CASE Read
      BY <1>5, <3>2 DEF Read, Pcs, Reading
    <3>3. CASE SayHello
      BY <1>5, <3>3 DEF SayHello, Pcs, Reading
    <3>4. CASE Process
      BY <1>5, <3>4 DEF Process, Pcs, Reading
    <3>5. CASE Close
      BY <1>5, <3>5 DEF Close, Pcs
    <3> QED
      BY <1>8, <3>1, <3>2, <3>3, <3>4, <3>5
  <2> QED
    BY <1>3, <2>1, <2>2
<1>9. CASE Timeout
  <2>1. snap.pc \in {"header", "payload"} /\ snap'.pc \in {snap.pc, "close"} /\ UNCHANGED <<up, ev>>
    BY <1>1, <1>9 DEF Timeout, Rest, SnapRecs
  <2> QED
    BY <1>3, <2>1 DEF At
<1>10. CASE SendTime
  BY <1>10, WakeFrame DEF SendTime, At
<1> QED
  BY <1>2, <1>4, <1>6, <1>7, <1>8, <1>9, <1>10 DEF SnapTask

LEMMA WakeStep ==
    ASSUME LinkInv, WakeInv, [Next]_vars
    PROVE  WakeInv'
<1>1. CASE UNCHANGED <<up, bits, ev, snap>>
  BY <1>1, WakeFrame DEF At
<1>2. CASE Environment
  BY <1>1, <1>2 DEF Environment, LinkUp, LinkLost, ServerLost, ServerBack
<1>3. CASE TimeServer \/ UNCHANGED vars
  BY <1>1, <1>3 DEF TimeServer, vars
<1> QED
  BY <1>2, <1>3, EventTaskKeepsWake, SnapTaskKeepsWake DEF Next

\* snap_task never waits for the network with the flag set and the bit clear,
\* once the event task has said all it had to say: no wake-up is lost between
\* the flag and the two bits (snapclient_set_network_available, snap_task).
THEOREM WakeUpKept == Spec => []NoLostWakeUp
<1>1. Init => WakeInv
  BY DEF Init, WakeInv, Announcing, At
<1>2. LinkInv /\ WakeInv /\ [Next]_vars => WakeInv'
  BY WakeStep
<1>3. WakeInv => NoLostWakeUp
  BY DEF WakeInv, NoLostWakeUp
<1> QED
  BY LinkBounded, <1>1, <1>2, <1>3, PTL DEF Spec

-----------------------------------------------------------------------------
(* Folds over finite sets                                                    *)

Chosen(s) == CHOOSE x \in s : TRUE

IsSum(g, w, S) ==
    g = [s \in SUBSET S |-> IF s = {} THEN 0 ELSE g[s \ {Chosen(s)}] + w[Chosen(s)]]

LEMMA SumIs ==
    ASSUME NEW w, NEW S
    PROVE  FoldSet(LAMBDA i, n : n + w[i], 0, S) = (CHOOSE g : IsSum(g, w, S))[S]
BY DEF FoldSet, MapThenFoldSet, IsSum, Chosen

LEMMA SmallestSet ==
    ASSUME NEW S, IsFiniteSet(S), NEW T, T \subseteq SUBSET S, T # {}
    PROVE  \E X \in T : \A x \in X : X \ {x} \notin T
<1>1. T \subseteq FiniteSubsetsOf(S)
  BY FS_Subset DEF FiniteSubsetsOf
<1>2. PICK X \in T : \A Y \in T : <<Y, X>> \notin StrictSubsetOrdering(S)
  BY <1>1, FS_StrictSubsetOrderingWellFounded, WFMin
<1>3. ASSUME NEW x \in X, X \ {x} \in T PROVE FALSE
  BY <1>2, <1>3 DEF StrictSubsetOrdering
<1> QED
  BY <1>2, <1>3

LEMMA ChosenIn == ASSUME NEW s, s # {} PROVE Chosen(s) \in s
BY DEF Chosen

\* The recursion on the subsets of at most n elements.
Upto(g, w, S, n) ==
    \A s \in SUBSET S : Cardinality(s) <= n =>
        g[s] \in Int /\ g[s] = IF s = {} THEN 0 ELSE g[s \ {Chosen(s)}] + w[Chosen(s)]

LEMMA SumGrows ==
    ASSUME NEW S, IsFiniteSet(S), NEW w, \A i \in S : w[i] \in Int, NEW n \in Nat, n > 0,
           NEW g, Upto(g, w, S, n - 1)
    PROVE  \E h \in [SUBSET S -> Int] : Upto(h, w, S, n)
<1> DEFINE Low == {s \in SUBSET S : Cardinality(s) <= n - 1}
           h == [s \in SUBSET S |-> IF s \in Low THEN g[s]
                                    ELSE IF s \ {Chosen(s)} \in Low THEN g[s \ {Chosen(s)}] + w[Chosen(s)]
                                    ELSE 0]
<1>1. \A s \in Low : g[s] \in Int
  BY DEF Upto
<1>2. \A s \in SUBSET S : s # {} =>
        /\ Chosen(s) \in S /\ s \ {Chosen(s)} \in SUBSET S
        /\ Cardinality(s) \in Nat /\ Cardinality(s \ {Chosen(s)}) = Cardinality(s) - 1
  <2> TAKE s \in SUBSET S
  <2> HAVE s # {}
  <2>1. IsFiniteSet(s) /\ Cardinality(s) \in Nat
    BY FS_Subset, FS_CardinalityType
  <2> QED
    BY <2>1, ChosenIn, FS_RemoveElement
<1>3. \A s \in SUBSET S : Low \subseteq SUBSET S /\ (s = {} => s \in Low)
  BY FS_EmptySet
<1>4. \A s \in SUBSET S : h[s] \in Int
  BY <1>1, <1>2, <1>3
<1>5. ASSUME NEW s \in SUBSET S, Cardinality(s) <= n
      PROVE  h[s] = IF s = {} THEN 0 ELSE h[s \ {Chosen(s)}] + w[Chosen(s)]
  <2>1. CASE s = {}
    <3>1. s \in Low /\ g[s] = 0
      BY <1>3, <2>1 DEF Upto
    <3> QED
      BY <2>1, <3>1
  <2>2. CASE s # {}
    <3> DEFINE rest == s \ {Chosen(s)}
    <3>1. rest \in Low
      BY <1>2, <1>5, <2>2
    <3>2. h[rest] = g[rest]
      BY <1>3, <3>1
    <3>3. h[s] = g[rest] + w[Chosen(s)]
      <4>1. CASE s \in Low
        BY <4>1, <2>2 DEF Upto
      <4>2. CASE s \notin Low
        BY <4>2, <3>1
      <4> QED
        BY <4>1, <4>2
    <3> QED
      BY <2>2, <3>2, <3>3
  <2> QED
    BY <2>1, <2>2
<1>6. h \in [SUBSET S -> Int]
  BY <1>4
<1> HIDE DEF h
<1>7. Upto(h, w, S, n)
  BY <1>4, <1>5 DEF Upto
<1> QED
  BY <1>6, <1>7

\* There is a function that adds up the subsets one element after the other.  The
\* provers have no induction: a smallest set it stops at is a contradiction.
LEMMA SumExists ==
    ASSUME NEW S, IsFiniteSet(S), NEW w, \A i \in S : w[i] \in Int
    PROVE  \E g : IsSum(g, w, S)
<1> DEFINE T == {X \in SUBSET S : ~ \E g \in [SUBSET S -> Int] : Upto(g, w, S, Cardinality(X))}
<1>1. T = {}
  <2> SUFFICES ASSUME T # {} PROVE FALSE
    OBVIOUS
  <2>1. PICK X \in T : \A x \in X : X \ {x} \notin T
    BY SmallestSet
  <2>2. X \in SUBSET S /\ IsFiniteSet(X) /\ Cardinality(X) \in Nat
    BY FS_Subset, FS_CardinalityType
  <2>3. CASE X = {}
    <3> DEFINE z == [s \in SUBSET S |-> 0]
    <3>1. ASSUME NEW s \in SUBSET S, Cardinality(s) <= 0 PROVE s = {}
      BY <3>1, FS_Subset, FS_CardinalityType, FS_EmptySet
    <3>2. Cardinality(X) = 0
      BY <2>3, FS_EmptySet
    <3>3. Upto(z, w, S, Cardinality(X))
      BY <3>1, <3>2 DEF Upto
    <3>4. z \in [SUBSET S -> Int]
      OBVIOUS
    <3> HIDE DEF z
    <3> QED
      BY <2>2, <3>3, <3>4
  <2>4. CASE X # {}
    <3>1. PICK x \in X : TRUE
      BY <2>4
    <3>2. Cardinality(X \ {x}) = Cardinality(X) - 1 /\ Cardinality(X) > 0
      BY <2>2, <3>1, FS_RemoveElement, FS_EmptySet
    <3>3. PICK g \in [SUBSET S -> Int] : Upto(g, w, S, Cardinality(X) - 1)
      BY <2>1, <2>2, <3>1, <3>2
    <3>4. \E h \in [SUBSET S -> Int] : Upto(h, w, S, Cardinality(X))
      BY <2>2, <3>2, <3>3, SumGrows
    <3> QED
      BY <3>4
  <2> QED
    BY <2>3, <2>4
<1>2. PICK g \in [SUBSET S -> Int] : Upto(g, w, S, Cardinality(S))
  BY <1>1
<1>3. \A s \in SUBSET S : Cardinality(s) <= Cardinality(S)
  BY FS_Subset
<1>4. \A s \in SUBSET S : g[s] = IF s = {} THEN 0 ELSE g[s \ {Chosen(s)}] + w[Chosen(s)]
  BY <1>2, <1>3 DEF Upto
<1>5. IsSum(g, w, S)
  BY <1>4 DEF IsSum
<1> QED
  BY <1>5

Sum(w, S) == FoldSet(LAMBDA i, n : n + w[i], 0, S)

LEMMA SumInt ==
    ASSUME NEW S, IsFiniteSet(S), NEW w, \A i \in S : w[i] \in Int
    PROVE  Sum(w, S) \in Int
<1> DEFINE g == CHOOSE f : IsSum(f, w, S)
           T == {X \in SUBSET S : g[X] \notin Int}
<1>1. IsSum(g, w, S)
  BY SumExists
<1>2. Sum(w, S) = g[S]
  BY SumIs DEF Sum
<1> HIDE DEF g
<1>3. \A s \in SUBSET S : g[s] = IF s = {} THEN 0 ELSE g[s \ {Chosen(s)}] + w[Chosen(s)]
  BY <1>1 DEF IsSum
<1>4. ASSUME T # {} PROVE FALSE
  <2>1. PICK X \in T : \A x \in X : X \ {x} \notin T
    BY <1>4, SmallestSet
  <2> X \in SUBSET S /\ g[X] \notin Int
    OBVIOUS
  <2>2. X # {}
    <3>1. {} \in SUBSET S /\ g[{}] = 0
      BY <1>3
    <3> QED
      BY <3>1
  <2>3. Chosen(X) \in X /\ w[Chosen(X)] \in Int
    BY <2>2, ChosenIn
  <2>4. g[X \ {Chosen(X)}] \in Int
    <3>1. X \ {Chosen(X)} \notin T /\ X \ {Chosen(X)} \in SUBSET S
      BY <2>1, <2>3
    <3> QED
      BY <3>1
  <2>5. g[X] = g[X \ {Chosen(X)}] + w[Chosen(X)]
    BY <1>3, <2>2
  <2> QED
    BY <2>3, <2>4, <2>5
<1> QED
  BY <1>2, <1>4

\* A sum of zeros and ks.
LEMMA SumOfTwo ==
    ASSUME NEW S, IsFiniteSet(S), NEW k \in Int, NEW w, \A i \in S : w[i] \in {0, k}
    PROVE  Sum(w, S) = k * Cardinality({i \in S : w[i] = k})
<1> DEFINE g == CHOOSE f : IsSum(f, w, S)
           K(s) == {i \in s : w[i] = k}
           T == {X \in SUBSET S : g[X] # k * Cardinality(K(X))}
<1>0. \A i \in S : w[i] \in Int
  OBVIOUS
<1>1. IsSum(g, w, S)
  BY <1>0, SumExists
<1>2. Sum(w, S) = g[S]
  BY SumIs DEF Sum
<1> HIDE DEF g
<1>3. \A s \in SUBSET S : g[s] = IF s = {} THEN 0 ELSE g[s \ {Chosen(s)}] + w[Chosen(s)]
  BY <1>1 DEF IsSum
<1>4. ASSUME T # {} PROVE FALSE
  <2>1. PICK X \in T : \A x \in X : X \ {x} \notin T
    BY <1>4, SmallestSet
  <2>2. CASE X = {}
    <3>1. K(X) = {} /\ g[X] = 0
      BY <1>3, <2>2
    <3>2. Cardinality(K(X)) = 0
      BY <3>1, FS_EmptySet
    <3> QED
      BY <3>1, <3>2
  <2>3. CASE X # {}
    <3> DEFINE x == Chosen(X)
               n == Cardinality(K(X \ {x}))
    <3>1. x \in X /\ w[x] \in {0, k}
      BY <2>3, ChosenIn
    <3>2. IsFiniteSet(K(X)) /\ IsFiniteSet(K(X \ {x})) /\ n \in Nat
      <4>1. K(X) \in SUBSET S /\ K(X \ {x}) \in SUBSET S
        OBVIOUS
      <4> QED
        BY <4>1, FS_Subset, FS_CardinalityType
    <3>3. g[X \ {x}] = k * n /\ g[X] = g[X \ {x}] + w[x]
      BY <1>3, <2>1, <2>3, <3>1
    <3>4. CASE w[x] = k
      <4>1. K(X) = K(X \ {x}) \cup {x} /\ x \notin K(X \ {x})
        BY <3>1, <3>4
      <4>2. Cardinality(K(X)) = n + 1
        BY <3>2, <4>1, FS_AddElement
      <4> HIDE DEF n, K, x
      <4>3. k * (n + 1) = k * n + k
        BY <3>2
      <4> QED
        BY <3>3, <3>4, <4>2, <4>3
    <3>5. CASE w[x] # k
      <4>1. K(X) = K(X \ {x}) /\ w[x] = 0
        BY <3>1, <3>5
      <4>2. g[X] = k * n
        <5> HIDE DEF n, K, x
        <5>1. k * n \in Int
          BY <3>2
        <5> QED
          BY <3>3, <4>1, <5>1
      <4> QED
        BY <4>1, <4>2
    <3> QED
      BY <3>4, <3>5
  <2> QED
    BY <2>2, <2>3
<1> QED
  BY <1>2, <1>4

-----------------------------------------------------------------------------
(* The offset *)

LEMMA SyncSizes ==
    /\ MinFit \in Nat /\ MinFit > 0 /\ Window \in Nat /\ MinFit < Window
    /\ MaxRtt \in Nat /\ Jump \in Nat /\ MinSkew \in Nat /\ MinSkew > 0 /\ MaxAsks \in Nat
    /\ Bases \subseteq Int /\ 0 \in Bases /\ Skews \subseteq Bases
BY TimeSyncAssumption DEF Bases

LEMMA Quotient ==
    ASSUME NEW a \in Int, NEW m \in Nat, m > 0
    PROVE  /\ a \div m \in Int
           /\ m * (a \div m) <= a /\ a < m * (a \div m) + m
OBVIOUS

LEMMA Cancel ==
    ASSUME NEW a \in Int, NEW m \in Nat, m > 0
    PROVE  (a * m) \div m = a
<1> DEFINE q == (a * m) \div m
<1>1. q \in Int /\ m * q <= a * m /\ a * m < m * q + m
  <2>1. a * m \in Int
    OBVIOUS
  <2> QED
    BY <2>1, Quotient
<1> HIDE DEF q
<1>2. m * (a - q) = a * m - m * q /\ a - q \in Int
  BY <1>1
<1>3. CASE a - q >= 1
  <2>1. m * (a - q) >= m
    BY <1>2, <1>3
  <2> QED
    BY <1>1, <1>2, <2>1
<1>4. CASE a - q <= -1
  <2>1. m * (a - q) <= -m
    BY <1>2, <1>4
  <2> QED
    BY <1>1, <1>2, <2>1
<1>5. q = a
  BY <1>1, <1>2, <1>3, <1>4
<1> QED
  BY <1>5 DEF q

LEMMA UsedFacts ==
    ASSUME NEW n \in Nat, n > 0
    PROVE  Used(n) \in 1 .. n /\ (n <= MinFit => Used(n) = n)
<1>1. n \div 3 \in Int /\ 3 * (n \div 3) <= n /\ n < 3 * (n \div 3) + 3
  OBVIOUS
<1> QED
  BY <1>1, SyncSizes DEF Used

LEMMA FirstNumbers ==
    ASSUME NEW n \in Nat
    PROVE  IsFiniteSet(1 .. n) /\ Cardinality(1 .. n) = n
BY FS_Interval

\* Who is used of a window.
LEMMA Picked ==
    ASSUME NEW w \in Seq(Int), NEW n \in Nat, NEW S \in kSubset(n, DOMAIN w)
    PROVE  /\ S \subseteq DOMAIN w /\ IsFiniteSet(S) /\ Cardinality(S) = n
           /\ \A i \in S : w[i] \in Int
           /\ Len(w) = n => S = DOMAIN w
<1>1. S \in SUBSET (DOMAIN w) /\ Cardinality(S) = n
  BY DEF kSubset
<1>2. DOMAIN w = 1 .. Len(w) /\ Len(w) \in Nat
  OBVIOUS
<1>3. IsFiniteSet(DOMAIN w) /\ Cardinality(DOMAIN w) = Len(w)
  BY <1>2, FirstNumbers
<1> DEFINE D == DOMAIN w
<1> HIDE DEF D
<1>4. IsFiniteSet(S) /\ (Len(w) = n => S = DOMAIN w)
  <2>1. IsFiniteSet(D) /\ Cardinality(D) = Len(w) /\ S \in SUBSET D
    BY <1>1, <1>3 DEF D
  <2>2. IsFiniteSet(S) /\ (Cardinality(S) = Cardinality(D) => S = D)
    BY <2>1, FS_Subset
  <2> QED
    BY <1>1, <2>1, <2>2 DEF D
<1> HIDE DEF D
<1>5. \A i \in DOMAIN w : w[i] \in Int
  BY <1>2
<1>6. S \subseteq DOMAIN w /\ \A i \in S : w[i] \in Int
  BY <1>1, <1>5
<1> QED
  BY <1>1, <1>4, <1>6

LEMMA MeanInt ==
    ASSUME NEW w \in Seq(Int), NEW n \in Nat, n > 0, NEW S \in kSubset(n, DOMAIN w)
    PROVE  Mean(w, S) \in Int
<1>1. Sum(w, S) \in Int
  BY Picked, SumInt
<1>2. Mean(w, S) = Sum(w, S) \div n
  BY Picked DEF Mean, Sum
<1> QED
  BY <1>1, <1>2, Quotient

\* Measurements of one clock have that clock as their mean, whichever are used.
LEMMA MeanOfOne ==
    ASSUME NEW w \in Seq(Int), NEW n \in Nat, n > 0, NEW S \in kSubset(n, DOMAIN w),
           NEW v \in Int, \A i \in DOMAIN w : w[i] = v
    PROVE  Mean(w, S) = v
<1>1. \A i \in S : w[i] = v
  BY Picked
<1>2. {i \in S : w[i] = v} = S
  BY <1>1
<1>3. Sum(w, S) = v * n
  <2>1. IsFiniteSet(S) /\ Cardinality(S) = n
    BY Picked
  <2>2. \A i \in S : w[i] \in {0, v}
    BY <1>1
  <2>3. Sum(w, S) = v * Cardinality({i \in S : w[i] = v})
    BY <2>1, <2>2, SumOfTwo
  <2> QED
    BY <1>2, <2>1, <2>3
<1>4. Mean(w, S) = Sum(w, S) \div n
  BY Picked DEF Mean, Sum
<1> QED
  BY <1>3, <1>4, Cancel

\* Measurements of two clocks, before and after the adoption.
LEMMA MeanOfTwo ==
    ASSUME NEW w \in Seq(Int), Len(w) > 0, NEW k \in Int, \A i \in DOMAIN w : w[i] \in {0, k}
    PROVE  \E c \in 0 .. Len(w) :
             /\ Mean(w, DOMAIN w) = (k * c) \div Len(w)
             /\ c = Len(w) => \A i \in DOMAIN w : w[i] = k
<1> DEFINE K == {i \in DOMAIN w : w[i] = k}
<1>1. DOMAIN w = 1 .. Len(w) /\ Len(w) \in Nat
  OBVIOUS
<1>2. IsFiniteSet(DOMAIN w) /\ Cardinality(DOMAIN w) = Len(w)
  BY <1>1, FirstNumbers
<1>3. /\ IsFiniteSet(K) /\ Cardinality(K) \in Nat /\ Cardinality(K) <= Len(w)
      /\ Cardinality(K) = Len(w) => K = DOMAIN w
  BY <1>2, FS_Subset, FS_CardinalityType
<1>4. Sum(w, DOMAIN w) = k * Cardinality(K)
  BY <1>2, SumOfTwo
<1>5. Mean(w, DOMAIN w) = (k * Cardinality(K)) \div Len(w)
  BY <1>2, <1>4 DEF Mean, Sum
<1> HIDE DEF K
<1>6. Cardinality(K) \in 0 .. Len(w)
  BY <1>1, <1>3
<1>7. Cardinality(K) = Len(w) => \A i \in DOMAIN w : w[i] = k
  BY <1>3 DEF K
<1> QED
  BY <1>5, <1>6, <1>7

-----------------------------------------------------------------------------
(* What an adopted clock differs by: 60 s, while the offset may be wrong by  *)
(* 0.1 s, a round trip takes 2 s at most and three measurements are the      *)
(* first that are compared with.                                             *)
FarApart == MinSkew >= MinFit * (Jump + MaxRtt + 1)

\* Of a window that is not all of the new clock the mean is far from that clock.
LEMMA MixedIsFar ==
    ASSUME FarApart, NEW k \in Int, Abs(k) > MinSkew, NEW c \in 0 .. MinFit - 1
    PROVE  LET q == (k * c) \div MinFit IN q \in Int /\ Abs(k - q) > Jump + MaxRtt
<1> DEFINE m == MinFit
           j == Jump + MaxRtt
           q == (k * c) \div m
<1>1. m \in Nat /\ m > 0 /\ j \in Nat /\ c \in Nat /\ m - c \in Nat /\ m - c >= 1
  BY SyncSizes
<1>2. k * c \in Int /\ q \in Int /\ m * q <= k * c /\ k * c < m * q + m
  <2>1. k * c \in Int
    BY <1>1
  <2> QED
    BY <1>1, <2>1, Quotient
<1>3. m * (j + 1) <= MinSkew /\ MinSkew \in Nat
  BY SyncSizes DEF FarApart
<1> HIDE DEF m, j, q
<1>4. CASE k > 0
  <2>1. k > m * (j + 1)
    BY <1>1, <1>3, <1>4 DEF Abs
  <2>2. k * (m - c) >= k /\ k * (m - c) = m * k - k * c
    BY <1>1, <1>4
  <2>3. m * (k - q) >= k
    <3>1. m * (k - q) = m * k - m * q
      BY <1>1, <1>2
    <3>2. m * k \in Int /\ m * q \in Int
      BY <1>1, <1>2
    <3> QED
      BY <1>2, <2>2, <3>1, <3>2
  <2>4. k - q > j
    <3>1. ASSUME k - q <= j PROVE FALSE
      <4>1. m * (k - q) <= m * j
        BY <1>1, <1>2, <3>1
      <4>2. m * (j + 1) = m * j + m
        BY <1>1
      <4>3. m * j \in Int /\ m * (k - q) \in Int
        BY <1>1, <1>2
      <4> QED
        BY <1>1, <2>1, <2>3, <4>1, <4>2, <4>3
    <3> QED
      BY <1>1, <1>2, <3>1
  <2> QED
    BY <1>1, <1>2, <2>4 DEF Abs, m, j, q
<1>5. CASE k < 0
  <2>1. -k > m * (j + 1)
    BY <1>1, <1>3, <1>5 DEF Abs
  <2>2. k * (m - c) <= k /\ k * (m - c) = m * k - k * c
    BY <1>1, <1>5
  <2>3. m * (q - k) + m > -k
    <3>1. m * (q - k) = m * q - m * k
      BY <1>1, <1>2
    <3>2. m * k \in Int /\ m * q \in Int
      BY <1>1, <1>2
    <3> QED
      BY <1>1, <1>2, <2>2, <3>1, <3>2
  <2>4. q - k > j
    <3>1. ASSUME q - k <= j PROVE FALSE
      <4>1. m * (q - k) <= m * j
        BY <1>1, <1>2, <3>1
      <4>2. m * (j + 1) = m * j + m
        BY <1>1
      <4>3. m * j \in Int /\ m * (q - k) \in Int
        BY <1>1, <1>2
      <4> QED
        BY <1>1, <2>1, <2>3, <4>1, <4>2, <4>3
    <3> QED
      BY <1>1, <1>2, <3>1
  <2> QED
    BY <1>1, <1>2, <2>4 DEF Abs, m, j, q
<1>6. k # 0
  BY SyncSizes DEF Abs
<1> QED
  BY <1>4, <1>5, <1>6 DEF m, j, q

-----------------------------------------------------------------------------
(* The inductive invariants of the clocks *)

SyncTyped ==
    /\ base \in [at : Bases, synced : BOOLEAN]
    /\ asks \in Seq(Seq(Bases)) /\ Len(asks) <= MaxAsks
    /\ \A i \in 1 .. Len(asks) : Len(asks[i]) <= 2
    /\ window \in Seq(Int) /\ Len(window) <= Window
    /\ offset \in Int

\* What was measured and what is on its way is of the clock before or after the
\* adoption, and once something measured is of the second, all on its way is.
TwoClocks ==
    /\ base.at # 0 => base.synced /\ Abs(base.at) > MinSkew
    /\ \A i \in 1 .. Len(window) : window[i] \in {0, base.at}
    /\ \A i \in 1 .. Len(asks) : \A j \in 1 .. Len(asks[i]) : asks[i][j] \in {0, base.at}
    /\ \/ \A i \in 1 .. Len(window) : window[i] = 0
       \/ \A i \in 1 .. Len(asks) : \A j \in 1 .. Len(asks[i]) : asks[i][j] = base.at

\* The first MinFit measurements are all averaged; the next are compared with that.
Fitted ==
    /\ Len(window) = MinFit => offset = Mean(window, DOMAIN window)
    /\ Len(window) > MinFit => \A i \in 1 .. Len(window) : window[i] = offset

ClockInv == SyncTyped /\ TwoClocks /\ Fitted

\* All that happens to the clocks in a step of the client.
Closing == asks' \in {<<>>, asks} /\ UNCHANGED <<base, window, offset>>
SyncNext == SyncReset \/ Ask \/ Adopt \/ Stamp \/ TimeReply \/ Closing

LEMMA SyncSteps == ASSUME [Next]_vars PROVE SyncNext
<1>1. CASE Environment \/ EventTask \/ UNCHANGED vars
  BY <1>1 DEF Environment, EventTask, SyncNext, Closing, syncVars, vars
<1>2. CASE SnapTask
  <2>1. CASE SayHello
    BY <2>1 DEF SayHello, SyncNext, Closing, syncVars
  <2>2. CASE SendTime
    BY <2>2 DEF SendTime, SyncNext
  <2>3. CASE Process
    BY <2>3 DEF Process, SyncNext, Closing, syncVars
  <2>4. CASE Close
    BY <2>4 DEF Close, SyncNext, Closing
  <2>5. CASE UNCHANGED syncVars
    BY <2>5 DEF SyncNext, Closing, syncVars
  <2> QED
    BY <1>2, <2>1, <2>2, <2>3, <2>4, <2>5 DEF SnapTask
<1>3. CASE TimeServer
  BY <1>3 DEF TimeServer, SyncNext
<1> QED
  BY <1>1, <1>2, <1>3 DEF Next

LEMMA NoneLeft == ASSUME NEW T, NEW q \in Seq(T), Len(q) = 0 PROVE q = <<>>
OBVIOUS

LEMMA OnlyOne ==
    ASSUME NEW T, NEW q \in Seq(T), q # <<>>, ~(Len(q) > 1)
    PROVE  Len(q) = 1 /\ Tail(q) = <<>>
<1>1. Len(q) \in Nat /\ Len(q) # 0
  BY NoneLeft
<1>2. Len(q) = 1
  <2>1. \A n \in Nat : n # 0 /\ ~(n > 1) => n = 1
    OBVIOUS
  <2> QED
    BY <1>1, <2>1, Zenon
<1>3. Tail(q) \in Seq(T) /\ Len(Tail(q)) = 0
  BY <1>2
<1> QED
  BY <1>2, <1>3, NoneLeft

\* A reply is not counted, or is the last one expected and makes sense.
Counts(way) ==
    /\ Len(asks) = 1
    /\ way - (asks[1][2] - asks[1][1]) \in 0 .. MaxRtt

LEMMA Replied ==
    ASSUME SyncTyped, TimeReply
    PROVE  /\ asks # <<>> /\ asks' = Tail(asks) /\ base' = base
           /\ \/ UNCHANGED <<window, offset>>
              \/ \E way \in 0 .. MaxRtt + 1 :
                   LET rtt == way - (asks[1][2] - asks[1][1])
                       o   == (asks[1][1] + asks[1][2]) \div 2
                   IN /\ Counts(way) /\ asks' = <<>> /\ asks[1] \in Seq(Bases) /\ Len(asks[1]) = 2
                      /\ Publish(Insert(IF StartsOver(o, rtt) THEN <<>> ELSE window, o))
<1>1. asks # <<>> /\ Len(Head(asks)) = 2 /\ asks' = Tail(asks) /\ base' = base
  BY DEF TimeReply
<1>2. Head(asks) = asks[1] /\ asks[1] \in Seq(Bases)
  BY <1>1 DEF SyncTyped
<1>3. asks[1][1] \in Int /\ asks[1][2] \in Int
  <2>1. asks[1][1] \in Bases /\ asks[1][2] \in Bases
    BY <1>1, <1>2
  <2> QED
    BY <2>1, SyncSizes
<1>4. PICK way \in 0 .. MaxRtt + 1 :
         LET rtt == way - (asks[1][2] - asks[1][1])
             o   == (asks[1][1] + asks[1][2]) \div 2
         IN IF Len(asks) > 1 \/ rtt < 0 \/ rtt > MaxRtt
            THEN UNCHANGED <<window, offset>>
            ELSE Publish(Insert(IF StartsOver(o, rtt) THEN <<>> ELSE window, o))
  BY <1>2 DEF TimeReply
<1>5. CASE UNCHANGED <<window, offset>>
  BY <1>1, <1>5
<1>6. CASE ~ UNCHANGED <<window, offset>>
  <2>1. ~(Len(asks) > 1) /\ way - (asks[1][2] - asks[1][1]) \in 0 .. MaxRtt
    <3> DEFINE rtt == way - (asks[1][2] - asks[1][1])
    <3>1. rtt \in Int /\ MaxRtt \in Int
      BY <1>3, SyncSizes
    <3>2. ~(Len(asks) > 1) /\ ~(rtt < 0) /\ ~(rtt > MaxRtt)
      BY <1>4, <1>6
    <3> HIDE DEF rtt
    <3>3. rtt \in 0 .. MaxRtt
      BY <3>1, <3>2
    <3> QED
      BY <3>2, <3>3 DEF rtt
  <2>2. Len(asks) = 1 /\ Tail(asks) = <<>>
    <3>1. asks \in Seq(Seq(Bases))
      BY DEF SyncTyped
    <3> QED
      BY <1>1, <2>1, <3>1, OnlyOne
  <2>3. Counts(way) /\ asks' = <<>>
    BY <1>1, <2>1, <2>2 DEF Counts
  <2> QED
    BY <1>1, <1>2, <1>4, <1>6, <2>1, <2>3
<1> QED
  BY <1>5, <1>6

\* Where a measurement goes.
LEMMA Inserted ==
    ASSUME NEW w \in Seq(Int), Len(w) <= Window, NEW o \in Int
    PROVE  LET v == Insert(w, o)
           IN /\ v \in Seq(Int) /\ Len(v) = IF Len(w) < Window THEN Len(w) + 1 ELSE Window
              /\ \A i \in 1 .. Len(v) : v[i] = o \/ \E l \in 1 .. Len(w) : v[i] = w[l]
<1> Len(w) \in Nat /\ Window \in Nat /\ Window > 0
  BY SyncSizes
<1>1. CASE Len(w) < Window
  <2>1. Insert(w, o) = Append(w, o)
    BY <1>1 DEF Insert
  <2> QED
    BY <1>1, <2>1
<1>2. CASE Len(w) = Window
  <2>1. Insert(w, o) = Append(Tail(w), o) /\ Tail(w) \in Seq(Int) /\ Len(Tail(w)) = Len(w) - 1
    BY <1>2 DEF Insert
  <2>2. \A i \in 1 .. Len(w) - 1 : Tail(w)[i] = w[i + 1] /\ i + 1 \in 1 .. Len(w)
    BY <1>2
  <2> QED
    BY <1>2, <2>1, <2>2
<1> QED
  BY <1>1, <1>2

\* What is published: an integer; of up to MinFit measurements the mean.
LEMMA Published ==
    ASSUME NEW w \in Seq(Int), Len(w) > 0, Publish(w)
    PROVE  /\ window' = w /\ offset' \in Int
           /\ Len(w) <= MinFit => offset' = Mean(w, DOMAIN w)
           /\ \A v \in Int : (\A i \in DOMAIN w : w[i] = v) => offset' = v
<1>1. PICK S \in kSubset(Used(Len(w)), DOMAIN w) : window' = w /\ offset' = Mean(w, S)
  BY DEF Publish
<1>2. Len(w) \in Nat /\ Used(Len(w)) \in Nat /\ Used(Len(w)) > 0 /\ (Len(w) <= MinFit => Used(Len(w)) = Len(w))
  BY UsedFacts
<1>3. offset' \in Int
  BY <1>1, <1>2, MeanInt
<1>4. Len(w) <= MinFit => S = DOMAIN w
  BY <1>1, <1>2, Picked
<1>5. ASSUME NEW v \in Int, \A i \in DOMAIN w : w[i] = v PROVE offset' = v
  BY <1>1, <1>2, <1>5, MeanOfOne
<1> QED
  BY <1>1, <1>3, <1>4, <1>5

\* Types are kept without any condition.
LEMMA SyncTypedStep == ASSUME SyncTyped, SyncNext PROVE SyncTyped'
<1>1. CASE SyncReset \/ Closing
  <2>1. /\ <<>> \in Seq(Seq(Bases)) /\ <<>> \in Seq(Int) /\ 0 \in Int
        /\ Len(<<>>) = 0 /\ MaxAsks \in Nat /\ Window \in Nat
    BY SyncSizes
  <2>2. CASE SyncReset
    <3>1. asks' = <<>> /\ window' = <<>> /\ offset' = 0 /\ base' = base
      BY <2>2 DEF SyncReset
    <3>2. Len(asks') = 0 /\ Len(window') = 0 /\ 1 .. Len(asks') = {}
      BY <3>1
    <3> QED
      BY <2>1, <3>1, <3>2 DEF SyncTyped
  <2>3. CASE Closing
    <3>1. CASE asks' = asks
      BY <2>3, <3>1 DEF Closing, SyncTyped
    <3>2. CASE asks' = <<>>
      <4>1. Len(asks') = 0 /\ 1 .. Len(asks') = {}
        BY <3>2
      <4> QED
        BY <2>1, <2>3, <3>2, <4>1 DEF Closing, SyncTyped
    <3> QED
      BY <2>3, <3>1, <3>2 DEF Closing
  <2> QED
    BY <1>1, <2>2, <2>3
<1>2. CASE Ask
  <2>1. asks' = Append(asks, <<>>) /\ Len(asks) < MaxAsks /\ UNCHANGED <<base, window, offset>>
    BY <1>2 DEF Ask
  <2>2. <<>> \in Seq(Bases) /\ asks \in Seq(Seq(Bases)) /\ MaxAsks \in Nat
    BY SyncSizes DEF SyncTyped
  <2>3. /\ asks' \in Seq(Seq(Bases)) /\ Len(asks') = Len(asks) + 1
        /\ \A i \in 1 .. Len(asks') : IF i = Len(asks') THEN asks'[i] = <<>>
                                      ELSE i \in 1 .. Len(asks) /\ asks'[i] = asks[i]
    BY <2>1, <2>2
  <2>4. Len(asks') <= MaxAsks /\ \A i \in 1 .. Len(asks') : Len(asks'[i]) <= 2
    BY <2>1, <2>2, <2>3 DEF SyncTyped
  <2> QED
    BY <2>1, <2>3, <2>4 DEF SyncTyped
<1>3. CASE Adopt
  BY <1>3, SyncSizes DEF Adopt, SyncTyped
<1>4. CASE Stamp
  <2>1. PICK i \in DOMAIN asks : Len(asks[i]) < 2 /\ asks' = [asks EXCEPT ![i] = Append(@, base.at)]
    BY <1>4 DEF Stamp
  <2>2. UNCHANGED <<base, window, offset>> /\ base.at \in Bases /\ asks \in Seq(Seq(Bases))
    BY <1>4 DEF Stamp, SyncTyped
  <2>3. asks[i] \in Seq(Bases) /\ Append(asks[i], base.at) \in Seq(Bases) /\ Len(Append(asks[i], base.at)) <= 2
    BY <2>1, <2>2
  <2>4. asks' \in Seq(Seq(Bases)) /\ Len(asks') = Len(asks)
    BY <2>1, <2>2, <2>3
  <2>5. \A j \in 1 .. Len(asks) : asks'[j] = IF j = i THEN Append(asks[i], base.at) ELSE asks[j]
    BY <2>1, <2>2
  <2>6. \A j \in 1 .. Len(asks') : Len(asks'[j]) <= 2
    BY <2>3, <2>4, <2>5 DEF SyncTyped
  <2> QED
    BY <2>2, <2>4, <2>6 DEF SyncTyped
<1>5. CASE TimeReply
  <2>1. asks \in Seq(Seq(Bases)) /\ asks # <<>> /\ asks' = Tail(asks) /\ base' = base
    BY <1>5, Replied DEF SyncTyped
  <2>2. /\ asks' \in Seq(Seq(Bases)) /\ Len(asks') = Len(asks) - 1
        /\ \A i \in 1 .. Len(asks') : i + 1 \in 1 .. Len(asks) /\ asks'[i] = asks[i + 1]
    BY <2>1
  <2>3. Len(asks') <= MaxAsks /\ \A i \in 1 .. Len(asks') : Len(asks'[i]) <= 2
    BY <2>1, <2>2, SyncSizes DEF SyncTyped
  <2>4. window' \in Seq(Int) /\ Len(window') <= Window /\ offset' \in Int
    <3>1. CASE UNCHANGED <<window, offset>>
      BY <3>1 DEF SyncTyped
    <3>2. CASE ~ UNCHANGED <<window, offset>>
      <4>1. PICK way \in 0 .. MaxRtt + 1 :
              /\ asks[1] \in Seq(Bases) /\ Len(asks[1]) = 2
              /\ Publish(Insert(IF StartsOver((asks[1][1] + asks[1][2]) \div 2, way - (asks[1][2] - asks[1][1]))
                                THEN <<>> ELSE window, (asks[1][1] + asks[1][2]) \div 2))
        BY <1>5, <3>2, Replied
      <4> DEFINE o == (asks[1][1] + asks[1][2]) \div 2
                 w == IF StartsOver(o, way - (asks[1][2] - asks[1][1])) THEN <<>> ELSE window
      <4>2. o \in Int
        <5>1. asks[1][1] \in Bases /\ asks[1][2] \in Bases
          BY <4>1
        <5>2. asks[1][1] \in Int /\ asks[1][2] \in Int
          BY <5>1, SyncSizes
        <5>3. asks[1][1] + asks[1][2] \in Int
          BY <5>2
        <5> QED
          BY <5>3, Quotient
      <4>3. w \in Seq(Int) /\ Len(w) <= Window
        BY SyncSizes DEF SyncTyped
      <4>4. Publish(Insert(w, o))
        BY <4>1
      <4> HIDE DEF w, o
      <4>5. Insert(w, o) \in Seq(Int) /\ Len(Insert(w, o)) > 0 /\ Len(Insert(w, o)) <= Window
        BY <4>2, <4>3, Inserted, SyncSizes
      <4> QED
        BY <4>4, <4>5, Published
    <3> QED
      BY <3>1, <3>2
  <2> QED
    BY <2>1, <2>2, <2>3, <2>4 DEF SyncTyped
<1> QED
  BY <1>1, <1>2, <1>3, <1>4, <1>5 DEF SyncNext

LEMMA FarEnough == ASSUME FarApart PROVE MinSkew > MaxRtt /\ MinSkew > Jump + MaxRtt
<1> DEFINE j == Jump + MaxRtt + 1
<1>1. j \in Nat /\ MinFit \in Nat /\ MinFit > 0 /\ MinSkew >= MinFit * j
  BY SyncSizes DEF FarApart
<1>2. MinFit * j >= j
  <2> HIDE DEF j
  <2> QED
    BY <1>1
<1> QED
  BY <1>1, <1>2, SyncSizes

\* A measurement that is counted is of one clock: the adoption between its
\* stamps makes the round trip negative or too long.
LEMMA Measured ==
    ASSUME FarApart, SyncTyped, TwoClocks, NEW way \in 0 .. MaxRtt + 1, Counts(way),
           asks[1] \in Seq(Bases), Len(asks[1]) = 2
    PROVE  LET o == (asks[1][1] + asks[1][2]) \div 2
           IN /\ o \in {0, base.at} /\ base.at \in Int
              /\ o = base.at \/ \A i \in 1 .. Len(window) : window[i] = 0
<1> DEFINE k  == base.at
           s1 == asks[1][1]
           s2 == asks[1][2]
<1>1. k \in Int /\ s1 \in {0, k} /\ s2 \in {0, k}
  <2>1. k \in Bases /\ 1 \in 1 .. Len(asks) /\ 1 \in 1 .. Len(asks[1]) /\ 2 \in 1 .. Len(asks[1])
    BY DEF SyncTyped, Counts
  <2> QED
    BY <2>1, SyncSizes DEF TwoClocks
<1>2. k # 0 => Abs(k) > MinSkew
  BY DEF TwoClocks
<1>3. way - (s2 - s1) \in 0 .. MaxRtt
  BY DEF Counts
<1>4. (s1 = k /\ s2 = k) \/ \A i \in 1 .. Len(window) : window[i] = 0
  BY DEF TwoClocks, Counts
<1> HIDE DEF k, s1, s2
<1>5. s1 = s2
  BY <1>1, <1>2, <1>3, FarEnough, SyncSizes DEF Abs
<1>6. (s1 + s2) \div 2 = s1
  BY <1>1, <1>5
<1> QED
  BY <1>1, <1>4, <1>5, <1>6 DEF k, s1, s2

\* Who goes on with a window of MinFit or more measurements has one like them.
LEMMA SameClock ==
    ASSUME FarApart, ClockInv, Len(window) >= MinFit, NEW rtt \in 0 .. MaxRtt, NEW o \in {0, base.at},
           o = base.at \/ \A i \in 1 .. Len(window) : window[i] = 0, ~StartsOver(o, rtt)
    PROVE  \A i \in 1 .. Len(window) : window[i] = o
<1> DEFINE k == base.at
<1>1. /\ k \in Int /\ o \in Int /\ offset \in Int /\ window \in Seq(Int) /\ rtt \in Nat /\ rtt <= MaxRtt
      /\ (k # 0 => Abs(k) > MinSkew) /\ \A i \in DOMAIN window : window[i] \in {0, k}
  <2>1. base.at \in Int /\ rtt \in Nat /\ rtt <= MaxRtt /\ o \in Int
    <3>1. base.at \in Bases
      BY DEF ClockInv, SyncTyped
    <3>2. base.at \in Int
      BY <3>1, SyncSizes
    <3>3. o \in Int
      BY <3>2
    <3>4. rtt \in Nat /\ rtt <= MaxRtt
      BY SyncSizes
    <3> QED
      BY <3>2, <3>3, <3>4
  <2>2. offset \in Int /\ window \in Seq(Int) /\ DOMAIN window = 1 .. Len(window)
    BY DEF ClockInv, SyncTyped
  <2> QED
    BY <2>1, <2>2 DEF ClockInv, TwoClocks
<1>2. Abs(o - offset) <= Jump + MaxRtt
  BY <1>1, SyncSizes DEF StartsOver, Abs
<1>3. CASE Len(window) > MinFit
  <2>1. \A i \in 1 .. Len(window) : window[i] = offset
    BY <1>3 DEF ClockInv, Fitted
  <2>2. offset \in {0, k}
    BY <1>1, <1>3, <2>1, SyncSizes
  <2>3. o = offset
    BY <1>1, <1>2, <2>2, FarEnough, SyncSizes DEF Abs
  <2> QED
    BY <2>1, <2>3
<1>4. CASE Len(window) = MinFit
  <2>1. CASE o = k /\ k # 0
    <3>1. offset = Mean(window, DOMAIN window)
      BY <1>4 DEF ClockInv, Fitted
    <3>2. PICK c \in 0 .. MinFit :
            /\ offset = (k * c) \div MinFit
            /\ c = MinFit => \A i \in DOMAIN window : window[i] = k
      <4> HIDE DEF k
      <4> QED
        BY <1>1, <1>4, <3>1, MeanOfTwo, SyncSizes
    <3>3. c = MinFit
      <4> SUFFICES ASSUME c # MinFit PROVE FALSE
        OBVIOUS
      <4> HIDE DEF k
      <4>1. c \in 0 .. MinFit - 1
        BY SyncSizes
      <4>2. Abs(k - offset) > Jump + MaxRtt
        BY <1>1, <2>1, <3>2, <4>1, MixedIsFar
      <4>3. Abs(k - offset) <= Jump + MaxRtt
        BY <1>2, <2>1
      <4>4. Abs(k - offset) \in Int /\ Jump + MaxRtt \in Int
        BY <1>1, SyncSizes DEF Abs
      <4> QED
        BY <4>2, <4>3, <4>4
    <3> QED
      BY <1>1, <2>1, <3>2, <3>3
  <2>2. CASE o # k \/ k = 0
    BY <1>1, <2>2
  <2> QED
    BY <2>1, <2>2
<1> QED
  BY <1>1, <1>3, <1>4, SyncSizes

LEMMA ClockInit == ASSUME Init PROVE ClockInv
<1>1. base = [at |-> 0, synced |-> FALSE] /\ asks = <<>> /\ window = <<>> /\ offset = 0
  BY DEF Init, SyncInit
<1>2. Len(asks) = 0 /\ Len(window) = 0 /\ 1 .. Len(asks) = {} /\ 1 .. Len(window) = {}
  BY <1>1
<1>3. SyncTyped
  BY <1>1, <1>2, SyncSizes DEF SyncTyped
<1>4. TwoClocks
  BY <1>1, <1>2 DEF TwoClocks
<1>5. Fitted
  BY <1>2, SyncSizes DEF Fitted
<1> QED
  BY <1>3, <1>4, <1>5 DEF ClockInv

LEMMA ReplyStep ==
    ASSUME FarApart, ClockInv, TimeReply
    PROVE  TwoClocks' /\ Fitted'
<1>1. asks \in Seq(Seq(Bases)) /\ asks # <<>> /\ asks' = Tail(asks) /\ base' = base
  BY Replied DEF ClockInv, SyncTyped
<1>2. CASE UNCHANGED <<window, offset>>
  <2>1. \A i \in 1 .. Len(asks') : i + 1 \in 1 .. Len(asks) /\ asks'[i] = asks[i + 1]
    BY <1>1
  <2>2. TwoClocks'
    <3>1. /\ base.at # 0 => base.synced /\ Abs(base.at) > MinSkew
          /\ \A i \in 1 .. Len(window) : window[i] \in {0, base.at}
      BY DEF ClockInv, TwoClocks
    <3>2. \A i \in 1 .. Len(asks') : \A j \in 1 .. Len(asks'[i]) : asks'[i][j] \in {0, base.at}
      BY <2>1 DEF ClockInv, TwoClocks
    <3>3. \/ \A i \in 1 .. Len(window) : window[i] = 0
          \/ \A i \in 1 .. Len(asks') : \A j \in 1 .. Len(asks'[i]) : asks'[i][j] = base.at
      BY <2>1 DEF ClockInv, TwoClocks
    <3>4. base' = base /\ window' = window
      BY <1>1, <1>2
    <3> QED
      BY <3>1, <3>2, <3>3, <3>4 DEF TwoClocks
  <2> QED
    BY <1>2, <2>2 DEF ClockInv, Fitted
<1>3. CASE ~ UNCHANGED <<window, offset>>
  <2>1. PICK way \in 0 .. MaxRtt + 1 :
          /\ Counts(way) /\ asks' = <<>> /\ asks[1] \in Seq(Bases) /\ Len(asks[1]) = 2
          /\ Publish(Insert(IF StartsOver((asks[1][1] + asks[1][2]) \div 2, way - (asks[1][2] - asks[1][1]))
                            THEN <<>> ELSE window, (asks[1][1] + asks[1][2]) \div 2))
    BY <1>3, Replied DEF ClockInv
  <2> DEFINE rtt == way - (asks[1][2] - asks[1][1])
             o   == (asks[1][1] + asks[1][2]) \div 2
             w   == IF StartsOver(o, rtt) THEN <<>> ELSE window
             v   == Insert(w, o)
  <2>2. /\ o \in {0, base.at} /\ base.at \in Int /\ rtt \in 0 .. MaxRtt
        /\ o = base.at \/ \A i \in 1 .. Len(window) : window[i] = 0
    BY <2>1, Measured DEF ClockInv, Counts
  <2>3. Publish(v)
    BY <2>1
  <2> HIDE DEF o, rtt
  <2>4. /\ o \in Int /\ w \in Seq(Int) /\ Len(w) <= Window
        /\ \A i \in 1 .. Len(w) : i \in 1 .. Len(window) /\ w[i] = window[i]
    <3>1. window \in Seq(Int) /\ Len(window) <= Window /\ <<>> \in Seq(Int) /\ Len(<<>>) = 0
      BY DEF ClockInv, SyncTyped
    <3>2. \A i \in 1 .. Len(<<>>) : FALSE
      BY <3>1
    <3> QED
      BY <2>2, <3>1, <3>2, SyncSizes
  <2>5. ~StartsOver(o, rtt) /\ Len(window) >= MinFit => \A i \in 1 .. Len(window) : window[i] = o
    BY <2>2, SameClock
  <2>6. /\ v \in Seq(Int) /\ Len(v) = IF Len(w) < Window THEN Len(w) + 1 ELSE Window
        /\ \A i \in 1 .. Len(v) : v[i] = o \/ \E l \in 1 .. Len(w) : v[i] = w[l]
    BY <2>4, Inserted
  <2>7. Len(w) < MinFit \/ \A i \in 1 .. Len(w) : w[i] = o
    <3>1. CASE StartsOver(o, rtt)
      BY <3>1, SyncSizes
    <3>2. CASE ~StartsOver(o, rtt)
      <4>1. w = window /\ Len(window) \in Nat
        BY <2>4, <3>2
      <4> QED
        BY <2>5, <3>2, <4>1, SyncSizes
    <3> QED
      BY <3>1, <3>2
  <2> HIDE DEF w, v
  <2>8. /\ Len(w) \in Nat /\ Len(v) \in Nat /\ Len(v) > 0 /\ DOMAIN v = 1 .. Len(v)
        /\ Len(v) > MinFit => ~(Len(w) < MinFit)
    BY <2>4, <2>6, SyncSizes
  <2>9. /\ window' = v /\ (Len(v) <= MinFit => offset' = Mean(v, DOMAIN v))
        /\ (\A i \in DOMAIN v : v[i] = o) => offset' = o
    BY <2>3, <2>4, <2>6, <2>8, Published
  <2>10. Fitted'
    <3>1. ASSUME Len(window') = MinFit PROVE offset' = Mean(window', DOMAIN window')
      BY <2>8, <2>9, <3>1, SyncSizes
    <3>2. ASSUME Len(window') > MinFit PROVE \A i \in 1 .. Len(window') : window'[i] = offset'
      <4>1. \A i \in 1 .. Len(v) : v[i] = o
        BY <2>6, <2>7, <2>8, <2>9, <3>2
      <4> QED
        BY <2>8, <2>9, <4>1
    <3> QED
      BY <3>1, <3>2 DEF Fitted
  <2>11. TwoClocks'
    <3>1. \A i \in 1 .. Len(window') : window'[i] \in {0, base'.at}
      <4>1. \A l \in 1 .. Len(w) : w[l] \in {0, base.at}
        BY <2>4 DEF ClockInv, TwoClocks
      <4>2. \A i \in 1 .. Len(v) : v[i] \in {0, base.at}
        BY <2>2, <2>6, <4>1
      <4> QED
        BY <1>1, <2>9, <4>2
    <3>2. 1 .. Len(asks') = {}
      BY <2>1
    <3> QED
      BY <1>1, <3>1, <3>2 DEF ClockInv, TwoClocks
  <2> QED
    BY <2>10, <2>11
<1> QED
  BY <1>2, <1>3

LEMMA ClockStep ==
    ASSUME FarApart, ClockInv, SyncNext
    PROVE  ClockInv'
<1>0. SyncTyped'
  BY SyncTypedStep DEF ClockInv
<1>1. CASE SyncReset
  <2>1. asks' = <<>> /\ window' = <<>> /\ offset' = 0 /\ base' = base
    BY <1>1 DEF SyncReset
  <2>2. Len(window') = 0 /\ 1 .. Len(asks') = {} /\ 1 .. Len(window') = {}
    BY <2>1
  <2> QED
    BY <1>0, <2>1, <2>2, SyncSizes DEF ClockInv, TwoClocks, Fitted
<1>2. CASE Ask
  <2>1. asks' = Append(asks, <<>>) /\ UNCHANGED <<base, window, offset>> /\ asks \in Seq(Seq(Bases))
    BY <1>2 DEF Ask, ClockInv, SyncTyped
  <2>2. \A i \in 1 .. Len(asks') : \/ i \in 1 .. Len(asks) /\ asks'[i] = asks[i]
                                   \/ 1 .. Len(asks'[i]) = {}
    <3>1. \A i \in 1 .. Len(asks') : \/ i \in 1 .. Len(asks) /\ asks'[i] = asks[i]
                                     \/ asks'[i] = <<>>
      BY <2>1
    <3>2. 1 .. Len(<<>>) = {}
      OBVIOUS
    <3> QED
      BY <3>1, <3>2
  <2>3. \A i \in 1 .. Len(asks') : \A j \in 1 .. Len(asks'[i]) :
           i \in 1 .. Len(asks) /\ j \in 1 .. Len(asks[i]) /\ asks'[i][j] = asks[i][j]
    BY <2>2
  <2>4. TwoClocks'
    <3>1. \A i \in 1 .. Len(asks') : \A j \in 1 .. Len(asks'[i]) : asks'[i][j] \in {0, base.at}
      BY <2>3 DEF ClockInv, TwoClocks
    <3>2. \/ \A i \in 1 .. Len(window) : window[i] = 0
          \/ \A i \in 1 .. Len(asks') : \A j \in 1 .. Len(asks'[i]) : asks'[i][j] = base.at
      BY <2>3 DEF ClockInv, TwoClocks
    <3>3. /\ base.at # 0 => base.synced /\ Abs(base.at) > MinSkew
          /\ \A i \in 1 .. Len(window) : window[i] \in {0, base.at}
      BY DEF ClockInv, TwoClocks
    <3>4. base' = base /\ window' = window
      BY <2>1
    <3> QED
      BY <3>1, <3>2, <3>3, <3>4 DEF TwoClocks
  <2> QED
    BY <1>0, <2>1, <2>4 DEF ClockInv, Fitted
<1>3. CASE Adopt
  <2>1. PICK skew \in Skews : base' = [at |-> IF Abs(skew) > MinSkew THEN skew ELSE base.at, synced |-> TRUE]
    BY <1>3 DEF Adopt
  <2>2. ~base.synced /\ UNCHANGED <<asks, window, offset>>
    BY <1>3 DEF Adopt
  <2>3. base.at = 0
    BY <2>2 DEF ClockInv, TwoClocks
  <2>4. base'.synced /\ (base'.at = 0 \/ Abs(base'.at) > MinSkew)
    BY <2>1, <2>3
  <2>5. /\ \A i \in 1 .. Len(window) : window[i] = 0
        /\ \A i \in 1 .. Len(asks) : \A j \in 1 .. Len(asks[i]) : asks[i][j] = 0
    BY <2>3 DEF ClockInv, TwoClocks
  <2>6. TwoClocks'
    BY <2>2, <2>4, <2>5 DEF TwoClocks
  <2> QED
    BY <1>0, <2>2, <2>6 DEF ClockInv, Fitted
<1>4. CASE Stamp
  <2>1. PICK i \in DOMAIN asks : asks' = [asks EXCEPT ![i] = Append(@, base.at)]
    BY <1>4 DEF Stamp
  <2>2. UNCHANGED <<base, window, offset>> /\ asks \in Seq(Seq(Bases)) /\ base.at \in Bases
    BY <1>4 DEF Stamp, ClockInv, SyncTyped
  <2>3. /\ Len(asks') = Len(asks)
        /\ \A j \in 1 .. Len(asks) : asks'[j] = IF j = i THEN Append(asks[j], base.at) ELSE asks[j]
    BY <2>1, <2>2
  <2>4. ASSUME NEW j \in 1 .. Len(asks'), NEW m \in 1 .. Len(asks'[j])
        PROVE  asks'[j][m] = base.at \/ (j \in 1 .. Len(asks) /\ m \in 1 .. Len(asks[j]) /\ asks'[j][m] = asks[j][m])
    <3>1. asks[j] \in Seq(Bases) /\ j \in 1 .. Len(asks)
      BY <2>2, <2>3
    <3>2. CASE j = i
      <4>1. asks'[j] = Append(asks[j], base.at)
        BY <2>3, <3>1, <3>2
      <4> QED
        BY <3>1, <4>1
    <3>3. CASE j # i
      <4>1. asks'[j] = asks[j]
        BY <2>3, <3>1, <3>3
      <4> QED
        BY <3>1, <4>1
    <3> QED
      BY <3>2, <3>3
  <2>5. TwoClocks'
    <3>1. /\ base.at # 0 => base.synced /\ Abs(base.at) > MinSkew
          /\ \A l \in 1 .. Len(window) : window[l] \in {0, base.at}
      BY DEF ClockInv, TwoClocks
    <3>2. \A j \in 1 .. Len(asks') : \A m \in 1 .. Len(asks'[j]) : asks'[j][m] \in {0, base.at}
      BY <2>4 DEF ClockInv, TwoClocks
    <3>3. \/ \A l \in 1 .. Len(window) : window[l] = 0
          \/ \A j \in 1 .. Len(asks') : \A m \in 1 .. Len(asks'[j]) : asks'[j][m] = base.at
      BY <2>4 DEF ClockInv, TwoClocks
    <3>4. base' = base /\ window' = window
      BY <2>2
    <3> QED
      BY <3>1, <3>2, <3>3, <3>4 DEF TwoClocks
  <2> QED
    BY <1>0, <2>2, <2>5 DEF ClockInv, Fitted
<1>5. CASE TimeReply
  BY <1>0, <1>5, ReplyStep DEF ClockInv
<1>6. CASE Closing
  <2>1. UNCHANGED <<base, window, offset>> /\ (asks' = asks \/ 1 .. Len(asks') = {})
    <3>1. 1 .. Len(<<>>) = {}
      OBVIOUS
    <3> QED
      BY <1>6, <3>1 DEF Closing
  <2>2. TwoClocks'
    BY <2>1 DEF ClockInv, TwoClocks
  <2> QED
    BY <1>0, <2>1, <2>2 DEF ClockInv, Fitted
<1> QED
  BY <1>1, <1>2, <1>3, <1>4, <1>5, <1>6 DEF SyncNext

\* All variables of the connection keep their types: whatever the skews, no more
\* is measured than the window takes, and the offset is a number (publish_offset
\* of snapclient.c).
THEOREM TypeCorrect == Spec => []TypeOK
<1>1. Init => SyncTyped
  BY ClockInit DEF ClockInv
<1>2. SyncTyped /\ [Next]_vars => SyncTyped'
  BY SyncSteps, SyncTypedStep
<1>3. SyncTyped => SyncTypeOK
  BY DEF SyncTyped, SyncTypeOK, Range
<1>4. LinkTypeOK /\ SyncTypeOK => TypeOK
  BY DEF TypeOK
<1> QED
  BY <1>1, <1>2, <1>3, <1>4, LinkTypeCorrect, PTL DEF Spec

\* The server adopts a clock between any two stamps, but what is measured is of
\* one clock or the other, in that order (handle_time of snapserver.c,
\* handle_time_reply of snapclient.c).
THEOREM ClockInvariant == ASSUME FarApart PROVE Spec => []ClockInv
<1>1. Init => ClockInv
  BY ClockInit
<1>2. ClockInv /\ [Next]_vars => ClockInv'
  BY SyncSteps, ClockStep
<1> QED
  BY <1>1, <1>2, PTL DEF Spec

\* With more than MinFit measurements the window is of one clock, which is the
\* offset in force: the first MinFit are compared with nothing, and the mean of a
\* mixed lot is too far from the next one (handle_time_reply of snapclient.c).
THEOREM ClockSettlesHolds == ASSUME FarApart PROVE Spec => []ClockSettles
<1>1. ClockInv => ClockSettles
  <2> SUFFICES ASSUME ClockInv, Len(window) > MinFit PROVE Range(window) = {offset}
    BY DEF ClockSettles
  <2>1. window \in Seq(Int) /\ \A i \in 1 .. Len(window) : window[i] = offset
    BY DEF ClockInv, SyncTyped, Fitted
  <2>2. 1 \in DOMAIN window /\ DOMAIN window = 1 .. Len(window)
    BY <2>1, SyncSizes
  <2> QED
    BY <2>1, <2>2 DEF Range
<1> QED
  BY <1>1, ClockInvariant, PTL

-----------------------------------------------------------------------------
(* The sink that snap_task feeds: audio_sink.c, whose state the connection   *)
(* does not share.                                                           *)

\* The label of the head, what is out of the ring and what is in it add up.
Buffered == ring.head + Taken + ring.fill

\* Whoever may be between two locked sections leaves it exact.
Fed ==
    ring.valid /\ ~raced =>
        /\ feed.pc = "idle" /\ ring.fill > 0 => Buffered = ring.next - ring.pend
        /\ feed.pc = "write" => Buffered = feed.ts - ring.pend
        /\ feed.pc = "label" /\ ring.fill > 0 => Buffered = feed.ts + feed.got - ring.pend

\* A frame that was not filled leaves the ring empty.
Drawn ==
    play.pc = "advance" /\ ring.valid /\ ~raced /\ (ring.fill > 0 \/ feed.pc = "write") =>
        play.got = Frame - play.silent

Skipping == play.pc = "skip" => play.err < 0 /\ play.silent = 0
Unmoved  == live.sync = "writing" => feed.pc = "idle"

Typed == SizesFit /\ SinkTypeOK

PlayInv == Typed /\ Fed /\ Drawn /\ Skipping /\ Unmoved

\* What was read of the schedule still holds, or the row of echoes begins anew.
Seen(garbled) == echo = 0 \/ ring.head = play.err \/ play.err \in garbled

Counted ==
    /\ ctl.off < SoftFrames
    /\ play.pc \notin {"skip", "pull"} => echo <= ctl.off + 1
    /\ play.pc \in {"snap", "decide"} => Seen({Far, -Far})
    /\ play.pc = "skip" => echo <= SoftFrames /\ Seen({-Far})
    /\ play.pc = "pull" => \/ echo <= ctl.off
                           \/ echo <= SoftFrames /\ (play.sync => ~Off(ring.head - play.silent))

-----------------------------------------------------------------------------
(* Types and sizes *)

Rings == [fill : 0 .. Capacity, valid : BOOLEAN, head : Int, next : Int, pend : -Discont .. Discont]
Feeds == [pc : {"idle", "write", "label"}, ts : Int, got : 0 .. Chunk, slow : 0 .. MaxSlow]
Plays == [pc : {"top", "flush", "look", "snap", "decide", "skip", "pull", "advance", "out", "under"},
          err : Int, sync : BOOLEAN, snap : BOOLEAN, silent : 0 .. Frame, got : 0 .. Frame]
Ctls  == [src : {"none", "network", "local"}, holding : BOOLEAN, off : 0 .. SoftFrames]
Nets  == [active : BOOLEAN, sync : {"no", "yes", "writing"}, conns : 0 .. MaxConn]

LEMMA Records == 
    Typed <=> /\ SizesFit /\ ring \in Rings /\ feed \in Feeds /\ play \in Plays /\ ctl \in Ctls /\ live \in Nets
               /\ ready \in BOOLEAN /\ jump \in BOOLEAN /\ echo \in 0 .. SoftFrames + 1 /\ raced \in BOOLEAN
BY DEF Typed, SinkTypeOK, Rings, Feeds, Plays, Ctls, Nets

LEMMA RecordsNext ==
    ASSUME Typed, ring' \in Rings, feed' \in Feeds, play' \in Plays, ctl' \in Ctls, live' \in Nets,
           ready' \in BOOLEAN, jump' \in BOOLEAN, echo' \in 0 .. SoftFrames + 1, raced' \in BOOLEAN
    PROVE  Typed'
BY DEF Typed, SinkTypeOK, Rings, Feeds, Plays, Ctls, Nets

LEMMA SizesOf ==
    ASSUME SizesFit
    PROVE  /\ Frame \in Nat /\ Frame > 0 /\ Chunk \in Nat /\ Capacity \in Nat /\ Capacity > 0
           /\ SoftFrames \in Nat /\ SoftFrames > 0 /\ Discont \in Nat /\ Hard \in Nat /\ Soft \in Nat /\ Soft < Hard
           /\ MaxSlow \in Nat /\ MaxConn \in Nat /\ MaxLate \in Int /\ MaxLead \in Int
           /\ Gaps \subseteq Int /\ Arrivals \subseteq Int /\ Steps \subseteq Int
           /\ Far \in Int /\ Far > Frame /\ Far > Capacity /\ Far > Hard
<1>1. /\ Frame \in Nat /\ Frame > 0 /\ Chunk \in Nat /\ Capacity \in Nat /\ Capacity > 0
      /\ SoftFrames \in Nat /\ SoftFrames > 0 /\ Discont \in Nat /\ Hard \in Nat /\ Soft \in Nat
      /\ MaxSlow \in Nat /\ MaxConn \in Nat /\ MaxLate \in Int /\ MaxLead \in Int
      /\ Gaps \subseteq Int /\ Steps \subseteq Int /\ Soft < Hard /\ Arrivals \subseteq -MaxLate .. MaxLead
  BY DEF SizesFit
<1>2. Arrivals \subseteq Int
  BY <1>1
<1>3. Far \in Int /\ Far > Frame /\ Far > Capacity /\ Far > Hard
  BY <1>1 DEF Far
<1> QED
  BY <1>1, <1>2, <1>3

LEMMA SizeFacts ==
    ASSUME Typed
    PROVE  /\ Frame \in Nat /\ Frame > 0 /\ Chunk \in Nat /\ Capacity \in Nat /\ Capacity > 0
           /\ SoftFrames \in Nat /\ SoftFrames > 0 /\ Discont \in Nat /\ Hard \in Nat /\ Soft \in Nat /\ Soft < Hard
           /\ MaxSlow \in Nat /\ MaxConn \in Nat /\ MaxLate \in Int /\ MaxLead \in Int
           /\ Gaps \subseteq Int /\ Arrivals \subseteq Int /\ Steps \subseteq Int
           /\ Far \in Int /\ Far > Frame /\ Far > Capacity /\ Far > Hard
BY SizesOf DEF Typed

LEMMA Zeros ==
    ASSUME Typed
    PROVE  /\ 0 \in Int /\ 0 \in 0 .. Frame /\ 0 \in 0 .. Capacity /\ 0 \in 0 .. Chunk
           /\ 0 \in 0 .. MaxSlow /\ 0 \in -Discont .. Discont
BY SizeFacts

LEMMA SmallerFacts ==
    ASSUME NEW a \in Int, NEW b \in Int
    PROVE  /\ Smaller(a, b) \in Int /\ Smaller(a, b) <= a /\ Smaller(a, b) <= b
           /\ Smaller(a, b) = a \/ Smaller(a, b) = b
BY DEF Smaller

\* The fields of the state are numbers.
LEMMA SinkNumbers ==
    ASSUME Typed
    PROVE  /\ ring.fill \in Int /\ 0 <= ring.fill /\ ring.fill <= Capacity
           /\ ring.head \in Int /\ ring.next \in Int /\ ring.pend \in Int
           /\ feed.ts \in Int /\ feed.got \in Int
           /\ play.err \in Int /\ play.silent \in Int /\ 0 <= play.silent /\ play.silent <= Frame
           /\ play.got \in Int /\ 0 <= play.got /\ play.got <= Frame
           /\ ctl.off \in Int /\ 0 <= ctl.off /\ echo \in Int /\ 0 <= echo
           /\ Taken \in Int
<1>1. ring.fill \in 0 .. Capacity /\ ring.head \in Int /\ ring.next \in Int /\ ring.pend \in -Discont .. Discont
  BY DEF Typed, SinkTypeOK
<1>2. feed.ts \in Int /\ feed.got \in 0 .. Chunk
  BY DEF Typed, SinkTypeOK
<1>3. play.err \in Int /\ play.silent \in 0 .. Frame /\ play.got \in 0 .. Frame
  BY DEF Typed, SinkTypeOK
<1>4. ctl.off \in 0 .. SoftFrames /\ echo \in 0 .. SoftFrames + 1
  BY DEF Typed, SinkTypeOK
<1> QED
  BY <1>1, <1>2, <1>3, <1>4, SizeFacts DEF Taken

-----------------------------------------------------------------------------
(* Steps that leave the ring and the feeder alone *)

\* The bookkeeping of the races in a step that begins no chunk and draws none.
LEMMA NotRaced ==
    ASSUME Typed, raced' = Raced, ~(feed.pc = "idle" /\ feed'.pc = "write"), play.pc # "pull"
    PROVE  raced' = raced
<1>1. raced \in BOOLEAN
  BY DEF Typed, SinkTypeOK
<1> QED
  BY <1>1 DEF Raced, Reanchored, DriedUp

LEMMA KeepsPlay ==
    ASSUME PlayInv, UNCHANGED <<ring, feed, raced>>, play.pc # "advance", play'.pc # "advance"
    PROVE  Fed' /\ Drawn'
<1>1. Taken = 0 /\ Taken' = 0
  BY DEF Taken
<1> QED
  BY <1>1 DEF Fed, Drawn, Buffered, PlayInv

\* Where the frame goes before the schedule is looked at, and what it reads.
LEMMA BeginningTypes ==
    ASSUME Typed, Arbitrate \/ Under \/ Look \/ ReadSnap
    PROVE  /\ ctl' \in Ctls /\ play' \in Plays /\ ready' \in BOOLEAN
           /\ UNCHANGED <<ring, feed, live, jump>>
           /\ play.pc \in {"top", "under", "look", "snap"}
           /\ play'.pc \notin {"advance", "skip", "top"} /\ ctl'.off = ctl.off
           /\ Arbitrate \/ Under => play'.pc \notin {"snap", "decide", "pull"}
<1>0. ctl \in Ctls /\ play \in Plays /\ ready \in BOOLEAN /\ ring.head \in Int /\ jump \in BOOLEAN
  BY Records, SinkNumbers
<1>r. ReadyAfter \in BOOLEAN /\ NetworkSource \in {"none", "network"}
  <2>1. live.active \in BOOLEAN /\ Prebuffered \in BOOLEAN
    BY <1>0 DEF Typed, SinkTypeOK, Prebuffered
  <2> QED
    BY <1>0, <2>1 DEF ReadyAfter, NetworkSource
<1>1. CASE Arbitrate
  <2>1. PICK local \in BOOLEAN :
          LET desired == IF local THEN "local" ELSE NetworkSource
              lost    == ctl.src = "network" /\ desired = "none"
          IN
          /\ ctl' = [ctl EXCEPT !.src = IF lost THEN @ ELSE desired]
          /\ ready' = IF local THEN ready ELSE ReadyAfter
          /\ play' = [play EXCEPT !.pc = CASE lost                -> "flush"
                                           [] desired = "network" -> "look"
                                           [] desired = "local"   -> "under"
                                           [] OTHER               -> "out"]
    BY <1>1 DEF Arbitrate
  <2> DEFINE desired == IF local THEN "local" ELSE NetworkSource
             lost    == ctl.src = "network" /\ desired = "none"
             pc      == CASE lost                -> "flush"
                          [] desired = "network" -> "look"
                          [] desired = "local"   -> "under"
                          [] OTHER               -> "out"
  <2>2. desired \in {"none", "network", "local"}
    BY <1>r
  <2>3. pc \in {"flush", "look", "under", "out"}
    <3> HIDE DEF desired, lost
    <3>1. CASE lost
      BY <3>1
    <3>2. CASE ~lost
      BY <2>2, <3>2
    <3> QED
      BY <3>1, <3>2
  <2>4. /\ ctl' = [ctl EXCEPT !.src = IF lost THEN @ ELSE desired]
        /\ play' = [play EXCEPT !.pc = pc]
    BY <2>1
  <2>5. ready' \in BOOLEAN
    BY <1>0, <1>r, <2>1
  <2> HIDE DEF desired, lost, pc
  <2>6. ctl' \in Ctls /\ ctl'.off = ctl.off
    BY <1>0, <2>2, <2>4 DEF Ctls
  <2>7. play' \in Plays /\ play'.pc = pc
    BY <1>0, <2>3, <2>4 DEF Plays
  <2> QED
    BY <1>1, <2>3, <2>5, <2>6, <2>7 DEF Arbitrate
<1>2. CASE Under
  <2>1. PICK captured \in BOOLEAN :
          /\ ready' = IF captured THEN ReadyAfter ELSE ready
          /\ play' = [play EXCEPT !.pc = IF captured /\ NetworkSource = "network" THEN "look" ELSE "out"]
    BY <1>2 DEF Under
  <2>2. play' \in Plays /\ play'.pc \in {"look", "out"}
    BY <1>0, <2>1 DEF Plays
  <2> QED
    BY <1>0, <1>2, <1>r, <2>1, <2>2 DEF Under
<1>3. CASE Look
  <2>1. PICK e \in IF live.sync = "writing" THEN {ring.head, Far, -Far} ELSE {ring.head} :
          LET known == live.sync # "no" /\ ring.valid
          IN play' = [play EXCEPT !.sync = known, !.err = IF known THEN e ELSE 0,
                                  !.pc = IF known THEN "snap" ELSE "pull"]
    BY <1>3 DEF Look
  <2>2. e \in Int
    BY <1>0, <2>1, SizeFacts
  <2>3. ring.valid \in BOOLEAN
    BY DEF Typed, SinkTypeOK
  <2> DEFINE known == live.sync # "no" /\ ring.valid
             v     == IF known THEN e ELSE 0
             pc    == IF known THEN "snap" ELSE "pull"
  <2>4. play' = [play EXCEPT !.sync = known, !.err = v, !.pc = pc]
    BY <2>1
  <2>7. known \in BOOLEAN /\ v \in Int /\ pc \in {"snap", "pull"}
    BY <2>2, <2>3
  <2> HIDE DEF known, v, pc
  <2>6. play' \in Plays /\ play'.pc \in {"snap", "pull"}
    BY <1>0, <2>4, <2>7 DEF Plays
  <2>5. ctl' \in Ctls /\ ctl'.off = ctl.off
    BY <1>0, <1>3, <2>3 DEF Look, Ctls
  <2>8. ~Arbitrate /\ ~Under
    BY <1>3 DEF Look, Arbitrate, Under
  <2> QED
    BY <1>0, <1>3, <2>5, <2>6, <2>8 DEF Look
<1>4. CASE ReadSnap
  <2>1. play' \in Plays /\ play'.pc = "decide"
    BY <1>0, <1>4 DEF ReadSnap, Plays
  <2>2. ~Arbitrate /\ ~Under
    BY <1>4 DEF ReadSnap, Arbitrate, Under
  <2> QED
    BY <1>0, <1>4, <2>1, <2>2 DEF ReadSnap
<1> QED
  BY <1>1, <1>2, <1>3, <1>4

LEMMA EchoTypes == ASSUME Typed PROVE echo' = Echo => echo' \in 0 .. SoftFrames + 1
<1>1. echo \in 0 .. SoftFrames + 1 /\ SoftFrames \in Nat
  BY SizeFacts DEF Typed, SinkTypeOK
<1>2. Smaller(echo + 1, SoftFrames + 1) \in 0 .. SoftFrames + 1 /\ 0 \in 0 .. SoftFrames + 1
  BY <1>1 DEF Smaller
<1> QED
  BY <1>1, <1>2 DEF Echo

\* Whoever does not touch the ring keeps the labels.
LEMMA BeginningStep ==
    ASSUME PlayInv, Arbitrate \/ Under \/ Look \/ ReadSnap, echo' = Echo, raced' = Raced
    PROVE  PlayInv'
<1>0. Typed
  BY DEF PlayInv
<1>1. /\ ctl' \in Ctls /\ play' \in Plays /\ ready' \in BOOLEAN
      /\ UNCHANGED <<ring, feed, live, jump>>
      /\ play.pc \in {"top", "under", "look", "snap"}
      /\ play'.pc \notin {"advance", "skip", "top"}
  BY <1>0, BeginningTypes
<1>2. raced' = raced
  BY <1>0, <1>1, NotRaced
<1>3. Typed'
  BY <1>0, <1>1, <1>2, Records, RecordsNext, EchoTypes
<1>4. Fed' /\ Drawn'
  BY <1>1, <1>2, KeepsPlay
<1> QED
  BY <1>1, <1>3, <1>4 DEF PlayInv, Skipping, Unmoved

\* ring_flush: what is in the ring has no label any more.
LEMMA FlushStep ==
    ASSUME PlayInv, Flush, echo' = Echo, raced' = Raced
    PROVE  PlayInv'
<1>0. Typed /\ ring \in Rings /\ ctl \in Ctls /\ play \in Plays
  BY Records DEF PlayInv
<1>1. /\ ring' = [ring EXCEPT !.fill = 0, !.valid = FALSE]
      /\ ctl' = [ctl EXCEPT !.src = "none"] /\ play' = [play EXCEPT !.pc = "out"]
      /\ play.pc = "flush" /\ UNCHANGED <<feed, live, ready, jump>>
  BY DEF Flush
<1>2. ring' \in Rings /\ ring'.valid = FALSE
  <2>1. 0 \in 0 .. Capacity
    BY <1>0, SizeFacts
  <2> QED
    BY <1>0, <1>1, <2>1 DEF Rings
<1>3. ctl' \in Ctls /\ play' \in Plays /\ play'.pc = "out"
  BY <1>0, <1>1 DEF Ctls, Plays
<1>4. raced' = raced
  BY <1>0, <1>1, NotRaced
<1>5. Typed'
  BY <1>0, <1>1, <1>2, <1>3, <1>4, Records, RecordsNext, EchoTypes
<1> QED
  BY <1>1, <1>2, <1>3, <1>5 DEF PlayInv, Fed, Drawn, Skipping, Unmoved

\* render_network_frame: what it decides on, in numbers.
LEMMA Decided ==
    ASSUME Typed, Decide
    PROVE  \E step \in 0 .. Hard, n \in 0 .. SoftFrames :
             /\ n = OffCount(ctl.off, play.err)
             /\ step = IF play.snap \/ n >= SoftFrames THEN 0 ELSE Hard
             /\ ctl'.off = IF play.snap \/ n >= SoftFrames THEN 0 ELSE n
             /\ \/ play'.pc = "out" /\ play'.silent = 0
                \/ play'.pc = "skip" /\ play'.silent = 0 /\ play.err < -step
                \/ play'.pc = "pull" /\ play'.silent = play.err /\ 0 <= play.err /\ play.err < Frame
                \/ play'.pc = "pull" /\ play'.silent = 0 /\ -step <= play.err /\ play.err <= step
             /\ ctl' \in Ctls /\ play' \in Plays /\ play'.err = play.err /\ play'.sync = play.sync
<1>0. ctl \in Ctls /\ play \in Plays /\ ctl.off \in 0 .. SoftFrames /\ play.err \in Int
      /\ ctl.holding \in BOOLEAN
  BY Records DEF Typed, SinkTypeOK
<1> DEFINE e    == play.err
           n    == OffCount(ctl.off, e)
           step == IF play.snap \/ n >= SoftFrames THEN 0 ELSE Hard
           hold == e > step \/ (ctl.holding /\ e > 0)
           late == ~hold /\ e < -step
           left == IF hold /\ e < Frame THEN e ELSE 0
           pc   == CASE hold /\ e >= Frame -> "out"
                     [] late               -> "skip"
                     [] OTHER              -> "pull"
           off  == IF play.snap \/ n >= SoftFrames THEN 0 ELSE n
<1>1. /\ ctl' = [ctl EXCEPT !.off = off, !.holding = hold /\ e >= Frame]
      /\ play' = [play EXCEPT !.silent = left, !.snap = FALSE, !.pc = pc]
  BY DEF Decide
<1>2. n \in 0 .. SoftFrames
  BY <1>0, SizeFacts DEF OffCount, Smaller
<1>3. e \in Int
  BY <1>0
<1> HIDE DEF n, e
<1>4. step \in 0 .. Hard /\ off \in 0 .. SoftFrames
  BY <1>2, SizeFacts
<1>5. step = (IF play.snap \/ n >= SoftFrames THEN 0 ELSE Hard) /\ off = (IF play.snap \/ n >= SoftFrames THEN 0 ELSE n)
  OBVIOUS
<1> HIDE DEF step, off
<1>6. hold => e >= 0
  BY <1>3, <1>4
<1>7. ~hold => e <= step
  BY <1>3, <1>4, SizeFacts
<1>8. ~late /\ ~hold => -step <= e
  BY <1>3, <1>4, SizeFacts
<1>9. late => ~hold /\ e < -step
  OBVIOUS
<1>10. hold \in BOOLEAN
  OBVIOUS
<1> HIDE DEF hold, late
<1>11. left \in 0 .. Frame
  BY <1>3, <1>6, SizeFacts
<1>12. \/ pc = "out" /\ left = 0
       \/ pc = "skip" /\ left = 0 /\ e < -step
       \/ pc = "pull" /\ left = e /\ 0 <= e /\ e < Frame
       \/ pc = "pull" /\ left = 0 /\ -step <= e /\ e <= step
  <2>1. CASE hold /\ e >= Frame
    <3>1. ~(e < Frame)
      BY <2>1, <1>3, SizeFacts
    <3>2. pc = "out"
      BY <1>9, <2>1
    <3>3. left = 0
      BY <3>1
    <3> QED
      BY <3>2, <3>3
  <2>2. CASE hold /\ ~(e >= Frame)
    <3>1. e < Frame
      BY <2>2, <1>3, SizeFacts
    <3>2. pc = "pull" /\ left = e
      BY <2>2, <3>1, <1>9
    <3> QED
      BY <2>2, <3>1, <3>2, <1>6
  <2>3. CASE ~hold
    <3>1. left = 0
      BY <2>3
    <3>2. pc = IF late THEN "skip" ELSE "pull"
      BY <2>3
    <3> QED
      BY <2>3, <3>1, <3>2, <1>7, <1>8, <1>9
  <2> QED
    BY <2>1, <2>2, <2>3
<1>13. pc \in {"out", "skip", "pull"}
  BY <1>12
<1> HIDE DEF pc, left
<1>14. ctl' \in Ctls /\ ctl'.off = off
  BY <1>0, <1>1, <1>4 DEF Ctls
<1>15. play' \in Plays /\ play'.pc = pc /\ play'.silent = left /\ play'.err = play.err /\ play'.sync = play.sync
  BY <1>0, <1>1, <1>11, <1>13 DEF Plays
<1> QED
  BY <1>2, <1>4, <1>5, <1>12, <1>14, <1>15 DEF e, n

LEMMA DecideStep ==
    ASSUME PlayInv, Decide, echo' = Echo, raced' = Raced
    PROVE  PlayInv'
<1>0. Typed /\ play.pc = "decide" /\ UNCHANGED <<ring, feed, live, ready>> /\ jump' = FALSE
  BY DEF PlayInv, Decide
<1>1. PICK step \in 0 .. Hard :
        /\ ctl' \in Ctls /\ play' \in Plays
        /\ play'.pc \in {"out", "pull"} \/ (play'.pc = "skip" /\ play'.silent = 0 /\ play'.err < -step)
  BY <1>0, Decided
<1>2. raced' = raced
  BY <1>0, NotRaced
<1>3. Typed'
  BY <1>0, <1>1, <1>2, Records, RecordsNext, EchoTypes
<1>4. Fed' /\ Drawn'
  BY <1>0, <1>1, <1>2, KeepsPlay
<1>5. play'.pc = "skip" => play'.err < 0 /\ play'.silent = 0
  <2>1. play'.err \in Int
    BY <1>1 DEF Plays
  <2> QED
    BY <1>1, <2>1, SizeFacts
<1> QED
  BY <1>0, <1>3, <1>4, <1>5 DEF PlayInv, Skipping, Unmoved

\* timeline_resync_late: the head goes on by what is thrown away.
LEMMA SkipStep ==
    ASSUME PlayInv, Skip, echo' = Echo, raced' = Raced
    PROVE  PlayInv'
<1>0. /\ Typed /\ ring \in Rings /\ play \in Plays /\ play.err < 0
      /\ play.pc = "skip" /\ UNCHANGED <<feed, ctl, live, ready, jump>>
  BY Records DEF PlayInv, Skip, Skipping
<1> DEFINE n == Smaller(-play.err, ring.fill)
<1>1. /\ ring' = [ring EXCEPT !.fill = @ - n, !.head = @ + n]
      /\ play' = [play EXCEPT !.pc = "pull", !.err = 0]
  BY DEF Skip
<1>2. n \in Int /\ 0 <= n /\ n <= ring.fill
  <2>1. -play.err \in Int /\ 0 <= -play.err /\ ring.fill \in Int /\ 0 <= ring.fill
    BY <1>0, SinkNumbers
  <2> QED
    BY <2>1, SmallerFacts
<1> HIDE DEF n
<1>3. ring.fill - n \in 0 .. Capacity /\ ring.head + n \in Int
  BY <1>0, <1>2, SinkNumbers, SizeFacts
<1>4. /\ ring' \in Rings /\ ring'.fill = ring.fill - n /\ ring'.head = ring.head + n
      /\ ring'.valid = ring.valid /\ ring'.next = ring.next /\ ring'.pend = ring.pend
  BY <1>0, <1>1, <1>3 DEF Rings
<1>5. play' \in Plays /\ play'.pc = "pull"
  <2>1. play'.err \in Int /\ play' \in Plays
    BY <1>0, <1>1, Zeros DEF Plays
  <2> QED
    BY <1>0, <1>1, <2>1 DEF Plays
<1>6. raced' = raced
  BY <1>0, NotRaced
<1>7. Typed'
  BY <1>0, <1>4, <1>5, <1>6, Records, RecordsNext, EchoTypes
<1>8. Taken = 0 /\ Taken' = 0
  BY <1>0, <1>5 DEF Taken
<1>9. Buffered' = Buffered /\ (ring'.fill > 0 => ring.fill > 0)
  <2>1. ring'.head + ring'.fill = ring.head + ring.fill
    BY <1>0, <1>2, <1>4, SinkNumbers
  <2>2. ring'.head \in Int /\ ring'.fill \in Int
    BY <1>0, <1>2, <1>4, SinkNumbers
  <2> QED
    BY <1>0, <1>2, <1>4, <1>8, <2>1, <2>2, SinkNumbers DEF Buffered
<1>10. Fed'
  BY <1>0, <1>4, <1>6, <1>9 DEF PlayInv, Fed
<1> QED
  BY <1>0, <1>5, <1>7, <1>10 DEF PlayInv, Drawn, Skipping, Unmoved

\* ring_read: a ring that cannot fill the frame is empty then.
LEMMA PullStep ==
    ASSUME PlayInv, Pull, echo' = Echo, raced' = Raced
    PROVE  PlayInv'
<1>0. /\ Typed /\ ring \in Rings /\ play \in Plays /\ raced \in BOOLEAN
      /\ play.pc = "pull" /\ UNCHANGED <<feed, ctl, live, ready, jump>>
  BY Records DEF PlayInv, Pull
<1> DEFINE n == Smaller(Frame - play.silent, ring.fill)
<1>1. /\ ring' = [ring EXCEPT !.fill = @ - n]
      /\ play' = [play EXCEPT !.pc = "advance", !.got = n]
  BY DEF Pull
<1>2. /\ n \in Int /\ 0 <= n /\ n <= ring.fill /\ n <= Frame - play.silent
      /\ n = ring.fill \/ n = Frame - play.silent
  <2>1. Frame - play.silent \in Int /\ 0 <= Frame - play.silent /\ ring.fill \in Int /\ 0 <= ring.fill
    BY <1>0, SinkNumbers, SizeFacts
  <2> QED
    BY <2>1, SmallerFacts
<1> HIDE DEF n
<1>3. ring.fill - n \in 0 .. Capacity /\ n \in 0 .. Frame
  BY <1>0, <1>2, SinkNumbers, SizeFacts
<1>4. /\ ring' \in Rings /\ ring'.fill = ring.fill - n /\ ring'.head = ring.head
      /\ ring'.valid = ring.valid /\ ring'.next = ring.next /\ ring'.pend = ring.pend
  BY <1>0, <1>1, <1>3 DEF Rings
<1>5. play' \in Plays /\ play'.pc = "advance" /\ play'.got = n /\ play'.silent = play.silent
  BY <1>0, <1>1, <1>3 DEF Plays
<1>6. raced' = (raced \/ (feed.pc = "write" /\ n < Frame - play.silent))
  BY <1>0, <1>5 DEF Raced, Reanchored, DriedUp
<1>6a. raced' \in BOOLEAN
  BY <1>6
<1>7. Typed'
  BY <1>0, <1>4, <1>5, <1>6a, Records, RecordsNext, EchoTypes
<1>8. Taken = 0 /\ Taken' = n
  BY <1>0, <1>5 DEF Taken
<1>9. Buffered' = Buffered /\ (ring'.fill > 0 => ring.fill > 0)
  BY <1>0, <1>2, <1>4, <1>8, SinkNumbers DEF Buffered
<1>10. Fed'
  BY <1>0, <1>4, <1>6, <1>9 DEF PlayInv, Fed
<1>11. Drawn'
  <2>1. ring'.fill > 0 => n = Frame - play.silent
    BY <1>0, <1>2, <1>4, SinkNumbers
  <2>2. ~(n < Frame - play.silent) => n = Frame - play.silent
    BY <1>0, <1>2, SinkNumbers, SizeFacts
  <2> QED
    BY <1>0, <1>5, <1>6, <2>1, <2>2 DEF Drawn
<1> QED
  BY <1>0, <1>5, <1>7, <1>10, <1>11 DEF PlayInv, Skipping, Unmoved

\* timeline_advance_locked: the head goes on by the whole frame.
LEMMA AdvanceStep ==
    ASSUME PlayInv, Advance, echo' = Echo, raced' = Raced
    PROVE  PlayInv'
<1>0. /\ Typed /\ ring \in Rings /\ play.pc = "advance" /\ UNCHANGED <<feed, ctl, live, ready, jump>>
      /\ ring' = [ring EXCEPT !.head = @ + Frame - play.silent] /\ play' = [AtTop EXCEPT !.pc = "out"]
  BY Records DEF PlayInv, Advance
<1>1. ring.head + Frame - play.silent \in Int
  BY <1>0, SinkNumbers, SizeFacts
<1>2. /\ ring' \in Rings /\ ring'.fill = ring.fill /\ ring'.head = ring.head + Frame - play.silent
      /\ ring'.valid = ring.valid /\ ring'.next = ring.next /\ ring'.pend = ring.pend
  BY <1>0, <1>1 DEF Rings
<1>3. AtTop \in Plays
  BY <1>0, Zeros DEF AtTop, Plays
<1>4. play' \in Plays /\ play'.pc = "out"
  BY <1>0, <1>3 DEF Plays
<1>5. raced' = raced
  BY <1>0, NotRaced
<1>6. Typed'
  BY <1>0, <1>2, <1>4, <1>5, Records, RecordsNext, EchoTypes
<1>7. Taken = play.got /\ Taken' = 0
  BY <1>0, <1>4 DEF Taken
<1>8. play.got = Frame - play.silent => Buffered' = Buffered
  BY <1>0, <1>2, <1>7, SinkNumbers, SizeFacts DEF Buffered
<1>9. Fed'
  BY <1>0, <1>2, <1>5, <1>8 DEF PlayInv, Fed, Drawn
<1> QED
  BY <1>0, <1>4, <1>6, <1>9 DEF PlayInv, Drawn, Skipping, Unmoved

LEMMA WriteStep ==
    ASSUME PlayInv, Write, echo' = Echo, raced' = Raced
    PROVE  PlayInv'
<1>0. /\ Typed /\ ring \in Rings /\ feed \in Feeds /\ play.pc = "out" /\ UNCHANGED <<ctl, live, ready, jump>>
      /\ play' = AtTop /\ (feed.pc # "idle" => feed.slow < MaxSlow)
      /\ ring' = IF ring.fill = 0 /\ feed.pc = "idle" THEN Dry(Moved(ring, -Frame)) ELSE Moved(ring, -Frame)
      /\ feed' = IF feed.pc = "idle" THEN feed ELSE [feed EXCEPT !.ts = @ - Frame, !.slow = @ + 1]
  BY Records DEF PlayInv, Write
<1>1. 0 \in 0 .. Frame
  BY <1>0, SizeFacts
<1>2. play' \in Plays /\ play'.pc = "top"
  BY <1>0, <1>1 DEF AtTop, Plays
<1>3. feed' \in Feeds /\ feed'.pc = feed.pc /\ feed'.got = feed.got
      /\ (feed.pc # "idle" => feed'.ts = feed.ts - Frame)
  <2>1. CASE feed.pc = "idle"
    BY <1>0, <2>1
  <2>2. CASE feed.pc # "idle"
    <3>1. feed.slow + 1 \in 0 .. MaxSlow /\ feed.ts - Frame \in Int
      BY <1>0, <2>2, SizeFacts DEF Feeds
    <3> QED
      BY <1>0, <2>2, <3>1 DEF Feeds
  <2> QED
    BY <2>1, <2>2
<1>4. raced' = raced
  BY <1>0, <1>3, NotRaced
<1>5. Moved(ring, -Frame) \in Rings
  <2>1. ring.head + -Frame \in Int /\ ring.next + -Frame \in Int
    BY <1>0, SinkNumbers, SizeFacts
  <2> QED
    BY <1>0, <2>1 DEF Moved, Rings
<1>6. CASE ring.fill = 0 /\ feed.pc = "idle"
  <2> DEFINE r == Moved(ring, -Frame)
  <2>1. r.fill = 0
    BY <1>0, <1>6 DEF Moved, Rings
  <2>2. ring' = Dry(r)
    BY <1>0, <1>6
  <2>3. r \in Rings
    BY <1>5
  <2> HIDE DEF r
  <2>4. ring' \in Rings /\ ring'.fill = 0
    <3> DEFINE h == IF r.head < -MaxLate THEN -MaxLate ELSE r.head
    <3>1. h \in Int
      BY <1>0, <2>3, SizeFacts DEF Rings
    <3>2. ring' = [r EXCEPT !.head = h, !.next = 0, !.pend = 0]
      BY <2>2 DEF Dry
    <3> HIDE DEF h
    <3> QED
      BY <1>0, <2>1, <2>3, <3>1, <3>2, Zeros DEF Rings
  <2>5. Typed'
    BY <1>0, <1>2, <1>3, <1>4, <2>4, Records, RecordsNext, EchoTypes
  <2>6. Fed'
    BY <1>3, <1>6, <2>4 DEF Fed
  <2> QED
    BY <1>0, <1>2, <1>3, <2>5, <2>6 DEF PlayInv, Drawn, Skipping, Unmoved
<1>7. CASE ~(ring.fill = 0 /\ feed.pc = "idle")
  <2>1. ring' = Moved(ring, -Frame)
    BY <1>0, <1>7
  <2>2. /\ ring' \in Rings /\ ring'.fill = ring.fill /\ ring'.head = ring.head - Frame
        /\ ring'.valid = ring.valid /\ ring'.next = ring.next - Frame /\ ring'.pend = ring.pend
    <3>1. /\ ring'.fill = ring.fill /\ ring'.head = ring.head + -Frame
          /\ ring'.valid = ring.valid /\ ring'.next = ring.next + -Frame /\ ring'.pend = ring.pend
      BY <1>0, <2>1 DEF Moved, Rings
    <3> QED
      BY <1>0, <1>5, <2>1, <3>1, SinkNumbers, SizeFacts
  <2>3. Typed'
    BY <1>0, <1>2, <1>3, <1>4, <2>2, Records, RecordsNext, EchoTypes
  <2>4. Taken = 0 /\ Taken' = 0
    BY <1>0, <1>2 DEF Taken
  <2>5. Buffered' = Buffered - Frame
    BY <1>0, <2>2, <2>4, SinkNumbers, SizeFacts DEF Buffered
  <2>6. Buffered \in Int
    BY <1>0, <2>4, SinkNumbers DEF Buffered
  <2>7. Fed'
    <3> SUFFICES ASSUME ring'.valid, ~raced'
                 PROVE  /\ feed'.pc = "idle" /\ ring'.fill > 0 => Buffered' = ring'.next - ring'.pend
                        /\ feed'.pc = "write" => Buffered' = feed'.ts - ring'.pend
                        /\ feed'.pc = "label" /\ ring'.fill > 0 => Buffered' = feed'.ts + feed'.got - ring'.pend
      BY DEF Fed
    <3>1. /\ feed.pc = "idle" /\ ring.fill > 0 => Buffered = ring.next - ring.pend
          /\ feed.pc = "write" => Buffered = feed.ts - ring.pend
          /\ feed.pc = "label" /\ ring.fill > 0 => Buffered = feed.ts + feed.got - ring.pend
      BY <1>4, <2>2 DEF PlayInv, Fed
    <3> QED
      BY <1>0, <1>3, <2>2, <2>5, <2>6, <3>1, SinkNumbers, SizeFacts
  <2> QED
    BY <1>0, <1>2, <1>3, <2>3, <2>7 DEF PlayInv, Drawn, Skipping, Unmoved
<1> QED
  BY <1>6, <1>7

-----------------------------------------------------------------------------
(* snap_task keeps the labels *)

FeedEcho == echo' = IF ring'.head # ring.head THEN 0 ELSE echo

LEMMA FeedBooks ==
    ASSUME Typed, UNCHANGED play, raced' = Raced, FeedEcho
    PROVE  /\ echo' \in 0 .. SoftFrames + 1 /\ raced' \in BOOLEAN
           /\ ~(feed.pc = "idle" /\ feed'.pc = "write") => raced' = raced
<1>1. raced \in BOOLEAN /\ echo \in 0 .. SoftFrames + 1 /\ 0 \in 0 .. SoftFrames + 1
  BY SizeFacts DEF Typed, SinkTypeOK
<1>2. ~DriedUp
  BY DEF DriedUp
<1> QED
  BY <1>1, <1>2 DEF FeedEcho, Raced, Reanchored

LEMMA ConnectStep ==
    ASSUME PlayInv, Activate \/ Deactivate \/ OffsetBegin, FeedEcho, raced' = Raced
    PROVE  PlayInv'
<1>0. Typed /\ live \in Nets /\ UNCHANGED <<ring, feed, play, ctl, ready, jump>>
  BY Records DEF PlayInv, Activate, Deactivate, OffsetBegin
<1>1. live' \in Nets
  <2>1. CASE Activate
    <3>1. live.conns + 1 \in 0 .. MaxConn
      BY <1>0, <2>1, SizeFacts DEF Activate, Nets
    <3> QED
      BY <2>1, <3>1 DEF Activate, Nets
  <2>2. CASE Deactivate \/ OffsetBegin
    BY <1>0, <2>2 DEF Deactivate, OffsetBegin, Nets
  <2> QED
    BY <2>1, <2>2
<1>2. live'.sync = "writing" => feed.pc = "idle"
  BY <1>0 DEF Activate, Deactivate, OffsetBegin, Nets, PlayInv, Unmoved
<1>3. raced' = raced
  BY <1>0, FeedBooks
<1>4. Typed'
  BY <1>0, <1>1, Records, RecordsNext, FeedBooks
<1>5. Taken' = Taken /\ Buffered' = Buffered
  BY <1>0 DEF Taken, Buffered
<1> QED
  BY <1>0, <1>2, <1>3, <1>4, <1>5 DEF PlayInv, Fed, Drawn, Skipping, Unmoved

\* The offset, the buffer or the delay moved: every label moves with it.
LEMMA RetimeStep ==
    ASSUME PlayInv, OffsetEnd \/ Retime, FeedEcho, raced' = Raced
    PROVE  PlayInv'
<1>0. /\ Typed /\ ring \in Rings /\ live \in Nets /\ UNCHANGED <<feed, play, ctl, ready>>
      /\ feed.pc = "idle" /\ jump' \in BOOLEAN
  BY Records DEF PlayInv, OffsetEnd, Retime, Unmoved
<1>1. live' \in Nets
  BY <1>0 DEF OffsetEnd, Retime, Nets
<1>2. PICK d \in Int : ring' = Moved(ring, d)
  BY <1>0, SizeFacts DEF OffsetEnd, Retime
<1>3. ring.head + d \in Int /\ ring.next + d \in Int
  BY <1>0, SinkNumbers
<1>4. /\ ring' \in Rings /\ ring'.fill = ring.fill /\ ring'.head = ring.head + d
      /\ ring'.valid = ring.valid /\ ring'.next = ring.next + d /\ ring'.pend = ring.pend
  BY <1>0, <1>2, <1>3 DEF Moved, Rings
<1>5. raced' = raced
  BY <1>0, FeedBooks
<1>6. Typed'
  BY <1>0, <1>1, <1>4, Records, RecordsNext, FeedBooks
<1>7. Taken' = Taken
  BY <1>0 DEF Taken
<1>8. Fed'
  <2> SUFFICES ASSUME ring'.valid, ~raced', ring'.fill > 0
               PROVE  Buffered' = ring'.next - ring'.pend
    BY <1>0 DEF Fed
  <2>1. Buffered = ring.next - ring.pend
    BY <1>0, <1>4, <1>5 DEF PlayInv, Fed
  <2> QED
    BY <1>0, <1>4, <1>7, <2>1, SinkNumbers DEF Buffered
<1> QED
  BY <1>0, <1>4, <1>5, <1>6, <1>8 DEF PlayInv, Drawn, Skipping, Unmoved

\* What a chunk's stamp does to the labels, before the chunk is in the ring.
LEMMA FeedCheckStep ==
    ASSUME PlayInv, FeedCheck, FeedEcho, raced' = Raced
    PROVE  PlayInv'
<1>0. /\ Typed /\ ring \in Rings /\ live \in Nets /\ UNCHANGED <<play, ctl, live>>
      /\ feed.pc = "idle" /\ live.sync # "writing"
      /\ ready \in BOOLEAN /\ jump \in BOOLEAN
  BY Records DEF PlayInv, FeedCheck
<1>1. PICK ts \in IF Unlabelled THEN Arrivals ELSE {ring.next + g : g \in Gaps} :
         LET g == ts - ring.next
             p == ring.pend + g
             restart == ~Unlabelled /\ (g > Restart \/ g < -Restart)
             shift   == ~Unlabelled /\ ~restart /\ (p > Discont \/ p < -Discont)
         IN
         /\ ts \in -MaxLate .. MaxLead
         /\ ring' = CASE Unlabelled -> Anchored(ring, ts)
                      [] restart    -> Anchored([ring EXCEPT !.fill = 0], ts)
                      [] shift      -> [ring EXCEPT !.head = @ + p, !.pend = 0]
                      [] OTHER      -> [ring EXCEPT !.pend = p]
         /\ ready' = (ready /\ ~restart)
         /\ jump' = IF restart THEN FALSE ELSE jump \/ shift
         /\ feed' = [Idle EXCEPT !.pc = "write", !.ts = ts]
  BY DEF FeedCheck
<1> DEFINE g == ts - ring.next
           p == ring.pend + g
           restart == ~Unlabelled /\ (g > Restart \/ g < -Restart)
           shift   == ~Unlabelled /\ ~restart /\ (p > Discont \/ p < -Discont)
<1>2. ts \in Int
  BY <1>1, SizeFacts
<1>3. feed' \in Feeds /\ feed'.pc = "write" /\ feed'.ts = ts
  BY <1>0, <1>1, <1>2, Zeros DEF Idle, Feeds
<1>4. ready' \in BOOLEAN /\ jump' \in BOOLEAN
  BY <1>0, <1>1
<1>5. g \in Int /\ p \in Int
  BY <1>0, <1>2, SinkNumbers
<1>6. /\ Unlabelled => ring' = Anchored(ring, ts)
      /\ restart    => ring' = Anchored([ring EXCEPT !.fill = 0], ts)
      /\ shift      => ring' = [ring EXCEPT !.head = @ + p, !.pend = 0]
      /\ ~Unlabelled /\ ~restart /\ ~shift => ring' = [ring EXCEPT !.pend = p]
  <2>1. ring' = CASE Unlabelled -> Anchored(ring, ts)
                  [] restart    -> Anchored([ring EXCEPT !.fill = 0], ts)
                  [] shift      -> [ring EXCEPT !.head = @ + p, !.pend = 0]
                  [] OTHER      -> [ring EXCEPT !.pend = p]
    BY <1>1
  <2>2. (restart => ~Unlabelled) /\ (shift => ~Unlabelled /\ ~restart)
    OBVIOUS
  <2> HIDE DEF restart, shift, p
  <2> QED
    BY <2>1, <2>2
<1>7. CASE Unlabelled \/ restart
  <2>1. /\ ring' \in Rings /\ ring'.head = ts /\ ring'.pend = 0 /\ ring'.valid = TRUE
        /\ ring'.fill = IF Unlabelled THEN ring.fill ELSE 0
    BY <1>0, <1>2, <1>6, <1>7, Zeros DEF Anchored, Rings
  <2>2. ~Unlabelled => ring.fill # 0
    BY DEF Unlabelled
  <2>3. Reanchored
    BY <1>0, <1>3, <2>1, <2>2 DEF Reanchored
  <2>4. raced' = (play.pc = "advance" \/ ring'.fill # 0)
    BY <2>3 DEF Raced
  <2>5. Typed'
    BY <1>0, <1>3, <1>4, <2>1, Records, RecordsNext, FeedBooks
  <2>6. ~raced' => Taken' = 0 /\ ring'.fill = 0
    BY <1>0, <2>4 DEF Taken
  <2>7. Fed'
    BY <1>2, <1>3, <2>1, <2>6 DEF Fed, Buffered
  <2> QED
    BY <1>0, <1>3, <2>4, <2>5, <2>7 DEF PlayInv, Drawn, Skipping, Unmoved
<1>8. CASE ~Unlabelled /\ ~restart
  <2>1. /\ ring' \in Rings /\ ring'.fill = ring.fill /\ ring'.valid = ring.valid
        /\ ring'.head + ring'.pend = ring.head + p
    <3>1. CASE shift
      <4>1. ring' = [ring EXCEPT !.head = @ + p, !.pend = 0]
        BY <1>6, <3>1
      <4>3. ring.head + p \in Int
        BY <1>0, <1>5, SinkNumbers
      <4> HIDE DEF p
      <4>2. /\ ring' \in Rings /\ ring'.fill = ring.fill /\ ring'.valid = ring.valid
            /\ ring'.head = ring.head + p /\ ring'.pend = 0
        BY <1>0, <4>1, <4>3, Zeros DEF Rings
      <4> QED
        BY <1>0, <1>5, <4>2, SinkNumbers
    <3>2. CASE ~shift
      <4>1. ring' = [ring EXCEPT !.pend = p]
        BY <1>6, <1>8, <3>2
      <4>2. p \in -Discont .. Discont
        BY <1>0, <1>5, <1>8, <3>2, SizeFacts
      <4> HIDE DEF p
      <4> QED
        BY <1>0, <4>1, <4>2 DEF Rings
    <3> QED
      BY <3>1, <3>2
  <2>2. ring.valid /\ ring.fill > 0
    BY <1>0, <1>8, SinkNumbers DEF Unlabelled
  <2>3. raced' = raced
    <3>1. ~Reanchored
      BY <1>8, <2>1 DEF Reanchored
    <3>2. ~DriedUp /\ raced \in BOOLEAN
      BY <1>0 DEF DriedUp, Typed, SinkTypeOK
    <3> QED
      BY <3>1, <3>2 DEF Raced
  <2>4. Typed'
    BY <1>0, <1>3, <1>4, <2>1, Records, RecordsNext, FeedBooks
  <2>5. Fed'
    <3> SUFFICES ASSUME ~raced' PROVE Buffered' = ring'.head + Taken + ring'.fill /\ Buffered' = ts - ring'.pend
      BY <1>3 DEF Fed
    <3>1. Buffered = ring.next - ring.pend
      BY <1>0, <2>2, <2>3 DEF PlayInv, Fed
    <3>2. Taken' = Taken
      BY <1>0 DEF Taken
    <3>3. ring'.head \in Int /\ ring'.pend \in Int
      BY <2>1 DEF Rings
    <3>4. Buffered' = ring'.head + Taken + ring'.fill
      BY <3>2 DEF Buffered
    <3>5. ring.head + Taken + ring.fill = ring.next - ring.pend
      BY <3>1 DEF Buffered
    <3> QED
      BY <1>0, <1>2, <2>1, <3>3, <3>4, <3>5, SinkNumbers
  <2> QED
    BY <1>0, <1>3, <2>1, <2>2, <2>3, <2>4, <2>5 DEF PlayInv, Drawn, Skipping, Unmoved
<1> QED
  BY <1>7, <1>8

\* ring_write: the ring holds what was counted, no more than it can.
LEMMA FeedWriteStep ==
    ASSUME PlayInv, FeedWrite, FeedEcho, raced' = Raced
    PROVE  PlayInv'
<1>0. /\ Typed /\ ring \in Rings /\ feed \in Feeds /\ feed.pc = "write" /\ UNCHANGED <<play, ctl, live, ready, jump>>
  BY Records DEF PlayInv, FeedWrite
<1> DEFINE n == Smaller(Chunk, Capacity - ring.fill)
<1>1. ring' = [ring EXCEPT !.fill = @ + n] /\ feed' = [feed EXCEPT !.pc = "label", !.got = n]
  BY DEF FeedWrite
<1>2. n \in Int /\ 0 <= n /\ n <= Chunk /\ n <= Capacity - ring.fill
  <2>1. Capacity - ring.fill \in Int /\ 0 <= Capacity - ring.fill /\ Chunk \in Int /\ 0 <= Chunk
    BY <1>0, SinkNumbers, SizeFacts
  <2> QED
    BY <2>1, SmallerFacts
<1> HIDE DEF n
<1>3. ring.fill + n \in 0 .. Capacity /\ n \in 0 .. Chunk
  BY <1>0, <1>2, SinkNumbers, SizeFacts
<1>4. /\ ring' \in Rings /\ ring'.fill = ring.fill + n /\ ring'.head = ring.head
      /\ ring'.valid = ring.valid /\ ring'.pend = ring.pend
  BY <1>0, <1>1, <1>3 DEF Rings
<1>5. feed' \in Feeds /\ feed'.pc = "label" /\ feed'.got = n /\ feed'.ts = feed.ts
  BY <1>0, <1>1, <1>3 DEF Feeds
<1>6. raced' = raced
  BY <1>0, FeedBooks
<1>7. Typed'
  BY <1>0, <1>4, <1>5, Records, RecordsNext, FeedBooks
<1>8. Fed'
  <2> SUFFICES ASSUME ring'.valid, ~raced'
               PROVE  Buffered' = feed'.ts + feed'.got - ring'.pend
    BY <1>5 DEF Fed
  <2>1. Buffered = feed.ts - ring.pend
    BY <1>0, <1>4, <1>6 DEF PlayInv, Fed
  <2>2. Taken' = Taken
    BY <1>0 DEF Taken
  <2> QED
    BY <1>0, <1>2, <1>4, <1>5, <2>1, <2>2, SinkNumbers DEF Buffered
<1> QED
  BY <1>0, <1>4, <1>5, <1>6, <1>7, <1>8 DEF PlayInv, Drawn, Skipping, Unmoved

LEMMA FeedLabelStep ==
    ASSUME PlayInv, FeedLabel, FeedEcho, raced' = Raced
    PROVE  PlayInv'
<1>0. /\ Typed /\ ring \in Rings /\ feed.pc = "label" /\ UNCHANGED <<play, ctl, live, ready, jump>>
      /\ ring' = [ring EXCEPT !.next = feed.ts + feed.got] /\ feed' = Idle
  BY Records DEF PlayInv, FeedLabel
<1>1. feed.ts + feed.got \in Int
  BY <1>0, SinkNumbers
<1>2. /\ ring' \in Rings /\ ring'.fill = ring.fill /\ ring'.head = ring.head
      /\ ring'.valid = ring.valid /\ ring'.pend = ring.pend /\ ring'.next = feed.ts + feed.got
  BY <1>0, <1>1 DEF Rings
<1>3. feed' \in Feeds /\ feed'.pc = "idle"
  BY <1>0, Zeros DEF Idle, Feeds
<1>4. raced' = raced
  BY <1>0, FeedBooks
<1>5. Typed'
  BY <1>0, <1>2, <1>3, Records, RecordsNext, FeedBooks
<1>6. Taken' = Taken /\ Buffered' = Buffered
  BY <1>0, <1>2 DEF Taken, Buffered
<1>7. Fed'
  <2> SUFFICES ASSUME ring'.valid, ~raced', ring'.fill > 0
               PROVE  Buffered' = ring'.next - ring'.pend
    BY <1>3 DEF Fed
  <2>1. Buffered = feed.ts + feed.got - ring.pend
    BY <1>0, <1>2, <1>4 DEF PlayInv, Fed
  <2>2. Buffered \in Int
    BY <1>0, SinkNumbers DEF Buffered
  <2> QED
    BY <1>0, <1>2, <1>6, <2>1, <2>2, SinkNumbers
<1> QED
  BY <1>0, <1>2, <1>3, <1>4, <1>5, <1>7 DEF PlayInv, Drawn, Skipping, Unmoved

LEMMA PlayInit == ASSUME SinkInit PROVE PlayInv
<1>1. 0 \in 0 .. SoftFrames /\ 0 \in 0 .. MaxConn /\ 0 \in 0 .. SoftFrames + 1
  BY SizesOf, PlaybackAssumption
<1>z. /\ 0 \in Int /\ 0 \in 0 .. Frame /\ 0 \in 0 .. Capacity /\ 0 \in 0 .. Chunk
      /\ 0 \in 0 .. MaxSlow /\ 0 \in -Discont .. Discont
  BY SizesOf, PlaybackAssumption
<1>2. ring \in Rings /\ feed \in Feeds /\ play \in Plays
  BY <1>z DEF SinkInit, Rings, Feeds, Plays, Idle, AtTop
<1>3. ctl \in Ctls /\ live \in Nets
  BY <1>1 DEF SinkInit, Ctls, Nets
<1>4. Typed
  BY <1>1, <1>2, <1>3, Records, PlaybackAssumption DEF SinkInit
<1> QED
  BY <1>4 DEF PlayInv, SinkInit, Fed, Drawn, Skipping, Unmoved, Idle, AtTop

LEMMA PlayStep == PlayInv /\ [SinkNext]_sinkVars => PlayInv'
<1> SUFFICES ASSUME PlayInv, [SinkNext]_sinkVars PROVE PlayInv'
  OBVIOUS
<1>1. CASE Player /\ echo' = Echo /\ raced' = Raced
  <2>1. \/ Arbitrate \/ Under \/ Look \/ ReadSnap
        \/ Flush \/ Decide \/ Skip \/ Pull \/ Advance \/ Write
    BY <1>1 DEF Player
  <2> QED
    BY <1>1, <2>1, BeginningStep, FlushStep, DecideStep, SkipStep, PullStep, AdvanceStep, WriteStep
<1>2. CASE Feeder /\ FeedEcho /\ raced' = Raced
  <2>1. \/ Activate \/ Deactivate \/ OffsetBegin \/ OffsetEnd \/ Retime
        \/ FeedCheck \/ FeedWrite \/ FeedLabel
    BY <1>2 DEF Feeder
  <2> QED
    BY <1>2, <2>1, ConnectStep, RetimeStep, FeedCheckStep, FeedWriteStep, FeedLabelStep
<1>3. CASE UNCHANGED sinkVars
  BY <1>3 DEF sinkVars, PlayInv, Typed, SinkTypeOK, Fed, Drawn, Skipping, Unmoved, Buffered, Taken
<1> QED
  BY <1>1, <1>2, <1>3 DEF SinkNext, FeedEcho

\* Wherever feeder, player and connection are between two locked sections, the
\* labels add up but for what one of them is about to put right (audio_sink.c).
THEOREM PlayInvariant == SinkSpec => []PlayInv
<1> QED
  BY PlayInit, PlayStep, PTL DEF SinkSpec

\* The variables of the sink keep their types: the ring is never overfull, and a
\* frame is never longer than Frame (ring_write, ring_read of audio_sink.c).
THEOREM SinkTypeCorrect == SinkSpec => []SinkTypeOK
<1>1. PlayInv => SinkTypeOK
  BY DEF PlayInv, Typed
<1> QED
  BY <1>1, PlayInvariant, PTL

\* The label of the oldest sample is that sample's own time, but for the races of
\* audio_sink.c with an emptied or re-anchored ring (audio_sink_feed_network,
\* timeline_advance_locked).
THEOREM LabelExactHolds == SinkSpec => []LabelExact
<1>1. PlayInv => LabelExact
  <2> SUFFICES ASSUME PlayInv, Labelled, ~raced PROVE LabelError = 0
    BY DEF LabelExact
  <2>1. Typed /\ Buffered = ring.next - ring.pend
    BY DEF PlayInv, Fed, Labelled
  <2> QED
    BY <2>1, SinkNumbers DEF LabelError, Buffered
<1> QED
  BY <1>1, PlayInvariant, PTL

-----------------------------------------------------------------------------
(* How long an echo lasts *)

LEMMA EchoInit == ASSUME SinkInit PROVE Counted
BY SizesOf, PlaybackAssumption DEF SinkInit, Counted, AtTop

\* Only three steps of the player end or prolong a row of echoes.
LEMMA EchoKept ==
    ASSUME echo' = Echo, play.pc \notin {"pull", "decide", "skip"}
    PROVE  echo' = echo
BY DEF Echo

LEMMA EchoBeginning ==
    ASSUME Typed, Counted, Arbitrate \/ Under \/ Look \/ ReadSnap, echo' = Echo
    PROVE  Counted'
<1>1. /\ UNCHANGED <<ring, feed, live, jump>> /\ play.pc \in {"top", "under", "look", "snap"}
      /\ play'.pc \notin {"advance", "skip", "top"} /\ ctl'.off = ctl.off
      /\ Arbitrate \/ Under => play'.pc \notin {"snap", "decide", "pull"}
  BY BeginningTypes
<1>2. echo' = echo
  BY <1>1, EchoKept
<1>3. ctl.off < SoftFrames /\ echo <= ctl.off + 1
  BY <1>1 DEF Counted
<1>4. CASE Arbitrate \/ Under
  BY <1>1, <1>2, <1>3, <1>4 DEF Counted
<1>5. CASE Look
  <2>1. PICK e \in IF live.sync = "writing" THEN {ring.head, Far, -Far} ELSE {ring.head} :
          LET known == live.sync # "no" /\ ring.valid
          IN play' = [play EXCEPT !.sync = known, !.err = IF known THEN e ELSE 0,
                                  !.pc = IF known THEN "snap" ELSE "pull"]
    BY <1>5 DEF Look
  <2> DEFINE known == live.sync # "no" /\ ring.valid
  <2>2. play \in Plays
    BY Records
  <2>3. CASE known
    <3>1. play'.pc = "snap" /\ play'.err = e
      BY <2>1, <2>2, <2>3 DEF Plays
    <3> QED
      BY <1>1, <1>2, <1>3, <2>1, <3>1 DEF Counted, Seen
  <2>4. CASE ~known
    <3>1. play'.pc = "pull" /\ play'.sync = FALSE
      BY <2>1, <2>2, <2>4 DEF Plays
    <3>2. echo <= SoftFrames
      BY <1>3, SinkNumbers, SizeFacts
    <3> QED
      BY <1>1, <1>2, <1>3, <3>1, <3>2 DEF Counted
  <2> QED
    BY <2>3, <2>4
<1>6. CASE ReadSnap
  <2>1. play'.pc = "decide" /\ play'.err = play.err /\ play.pc = "snap"
    BY <1>6, Records DEF ReadSnap, Plays
  <2>2. Seen({Far, -Far})'
    BY <1>1, <1>2, <2>1 DEF Counted, Seen
  <2> QED
    BY <1>1, <1>2, <1>3, <2>1, <2>2 DEF Counted
<1> QED
  BY <1>4, <1>5, <1>6

\* What the player does of a frame that is off is counted, or it is put right.
LEMMA EchoDecide ==
    ASSUME Typed, Counted, Decide, echo' = Echo
    PROVE  Counted'
<1>0. play.pc = "decide" /\ UNCHANGED <<ring, feed, live, ready>>
  BY DEF Decide
<1>1. PICK step \in 0 .. Hard, n \in 0 .. SoftFrames :
         /\ n = OffCount(ctl.off, play.err)
         /\ step = IF play.snap \/ n >= SoftFrames THEN 0 ELSE Hard
         /\ ctl'.off = IF play.snap \/ n >= SoftFrames THEN 0 ELSE n
         /\ \/ play'.pc = "out" /\ play'.silent = 0
            \/ play'.pc = "skip" /\ play'.silent = 0 /\ play.err < -step
            \/ play'.pc = "pull" /\ play'.silent = play.err /\ 0 <= play.err /\ play.err < Frame
            \/ play'.pc = "pull" /\ play'.silent = 0 /\ -step <= play.err /\ play.err <= step
         /\ play'.err = play.err /\ play'.sync = play.sync
  BY Decided
<1>2. ctl'.off < SoftFrames /\ 0 <= ctl'.off /\ ctl'.off \in Int
  BY <1>1, SizeFacts
<1>3. ctl.off < SoftFrames /\ echo <= ctl.off + 1 /\ Seen({Far, -Far})
  BY <1>0 DEF Counted
<1>4. echo <= SoftFrames
  BY <1>3, SinkNumbers, SizeFacts
<1>5. play'.pc # "out" => echo' = echo
  BY <1>0 DEF Echo
<1>6. CASE play'.pc = "out"
  <2>1. echo' = 0
    BY <1>0, <1>6 DEF Echo
  <2> QED
    BY <1>2, <1>6, <2>1 DEF Counted
<1>7. CASE play'.pc = "skip"
  <2>1. play.err # Far
    BY <1>1, <1>7, SinkNumbers, SizeFacts
  <2>2. Seen({-Far})'
    BY <1>0, <1>1, <1>3, <1>5, <1>7, <2>1 DEF Seen
  <2> QED
    BY <1>2, <1>4, <1>5, <1>7, <2>2 DEF Counted
<1>8. CASE play'.pc = "pull"
  <2>1. play.err # Far /\ play.err # -Far
    BY <1>1, <1>8, SinkNumbers, SizeFacts
  <2>2. echo = 0 \/ ring.head = play.err
    BY <1>3, <2>1 DEF Seen
  <2>3. CASE echo = 0
    BY <1>2, <1>5, <1>8, <2>3 DEF Counted
  <2>4. CASE ring.head = play.err /\ (play.snap \/ n >= SoftFrames \/ play'.silent = play.err)
    <3>1. (play.err = 0 /\ play'.silent = 0) \/ play'.silent = play.err
      BY <1>1, <1>8, <2>4, SinkNumbers, SizeFacts
    <3>2. ring'.head - play'.silent = 0
      BY <1>0, <2>4, <3>1, SinkNumbers
    <3>3. ~Off(0)
      BY SizeFacts DEF Off
    <3> QED
      BY <1>2, <1>4, <1>5, <1>8, <3>2, <3>3 DEF Counted
  <2>5. CASE ring.head = play.err /\ ~(play.snap \/ n >= SoftFrames) /\ play'.silent = 0
    <3>1. ctl'.off = n
      BY <1>1, <2>5
    <3>2. CASE Off(play.err)
      <4>1. n = Smaller(ctl.off + 1, SoftFrames)
        BY <1>1, <3>2 DEF OffCount
      <4>2. n = ctl.off + 1
        BY <1>3, <2>5, <4>1, SinkNumbers, SizeFacts DEF Smaller
      <4> QED
        BY <1>2, <1>3, <1>5, <1>8, <3>1, <4>2 DEF Counted
    <3>3. CASE ~Off(play.err)
      <4>1. ring'.head - play'.silent = play.err
        BY <1>0, <2>5, SinkNumbers
      <4> QED
        BY <1>2, <1>4, <1>5, <1>8, <3>3, <4>1 DEF Counted
    <3> QED
      BY <3>2, <3>3
  <2> QED
    BY <1>1, <1>8, <2>2, <2>3, <2>4, <2>5
<1> QED
  BY <1>1, <1>6, <1>7, <1>8

LEMMA EchoSkip ==
    ASSUME Typed, Skipping, Counted, Skip, echo' = Echo
    PROVE  Counted'
<1>0. /\ ring \in Rings /\ play \in Plays /\ play.pc = "skip" /\ play.err < 0 /\ play.silent = 0
      /\ UNCHANGED <<feed, ctl, live, ready, jump>>
  BY Records DEF Skip, Skipping
<1> DEFINE n == Smaller(-play.err, ring.fill)
<1>1. /\ ring' = [ring EXCEPT !.fill = @ - n, !.head = @ + n]
      /\ play' = [play EXCEPT !.pc = "pull", !.err = 0]
  BY DEF Skip
<1>2. n \in Int /\ n <= -play.err /\ n <= ring.fill /\ (n = -play.err \/ n = ring.fill)
  <2>1. -play.err \in Int /\ ring.fill \in Int
    BY SinkNumbers
  <2> QED
    BY <2>1, SmallerFacts
<1> HIDE DEF n
<1>3. ring'.fill = ring.fill - n /\ ring'.head = ring.head + n
  BY <1>0, <1>1 DEF Rings
<1>4. play'.pc = "pull" /\ play'.silent = 0
  BY <1>0, <1>1 DEF Plays
<1>5. echo' = IF ring'.fill = 0 THEN 0 ELSE echo
  BY <1>0 DEF Echo
<1>6. ctl.off < SoftFrames /\ echo <= SoftFrames /\ Seen({-Far})
  BY <1>0 DEF Counted
<1>7. CASE ring'.fill = 0 \/ echo = 0
  BY <1>0, <1>4, <1>5, <1>6, <1>7, SinkNumbers DEF Counted
<1>8. CASE ring'.fill # 0 /\ echo # 0
  <2>1. n # ring.fill
    BY <1>3, <1>8, SinkNumbers
  <2>2. n = -play.err
    BY <1>2, <2>1
  <2>3. play.err # -Far
    BY <1>2, <2>1, <2>2, SinkNumbers, SizeFacts
  <2>4. ring.head = play.err
    BY <1>6, <1>8, <2>3 DEF Seen
  <2>5. ring'.head - play'.silent = 0
    BY <1>3, <1>4, <2>2, <2>4, SinkNumbers
  <2>6. ~Off(0)
    BY SizeFacts DEF Off
  <2> QED
    BY <1>0, <1>4, <1>5, <1>6, <1>8, <2>5, <2>6 DEF Counted
<1> QED
  BY <1>7, <1>8

LEMMA EchoPull ==
    ASSUME Typed, Counted, Pull, echo' = Echo
    PROVE  Counted'
<1>0. play.pc = "pull" /\ ctl' = ctl /\ play'.pc = "advance"
  BY Records DEF Pull, Plays
<1>1. /\ ctl.off < SoftFrames
      /\ echo <= ctl.off \/ (play.sync => ~Off(ring.head - play.silent))
  BY <1>0 DEF Counted
<1>2. echo' = 0 \/ (echo' = Smaller(echo + 1, SoftFrames + 1) /\ echo <= ctl.off)
  BY <1>0, <1>1 DEF Echo
<1>3. echo' <= ctl.off + 1
  <2>1. echo + 1 \in Int /\ SoftFrames + 1 \in Int
    BY SinkNumbers, SizeFacts
  <2>2. Smaller(echo + 1, SoftFrames + 1) <= echo + 1 /\ Smaller(echo + 1, SoftFrames + 1) \in Int
    BY <2>1, SmallerFacts
  <2> QED
    BY <1>2, <2>2, SinkNumbers
<1> QED
  BY <1>0, <1>1, <1>3 DEF Counted

LEMMA EchoRest ==
    ASSUME Typed, Counted, Flush \/ Advance \/ Write, echo' = Echo
    PROVE  Counted'
<1>1. play.pc \notin {"pull", "decide", "skip", "snap"} /\ play'.pc \in {"out", "top"} /\ ctl'.off = ctl.off
  BY Records DEF Flush, Advance, Write, AtTop, Plays, Ctls
<1>2. echo' = echo
  BY <1>1, EchoKept
<1> QED
  BY <1>1, <1>2 DEF Counted

\* A label that snap_task moves begins the row anew.
LEMMA EchoFeed ==
    ASSUME Typed, Counted, Feeder, FeedEcho
    PROVE  Counted'
<1>1. UNCHANGED <<play, ctl>>
  BY DEF Feeder, Activate, Deactivate, FeedCheck, FeedWrite, FeedLabel,
         OffsetBegin, OffsetEnd, Retime
<1>2. echo' = 0 \/ (echo' = echo /\ ring'.head = ring.head)
  BY DEF FeedEcho
<1>3. CASE echo' = 0
  BY <1>1, <1>3, SinkNumbers, SizeFacts DEF Counted, Seen
<1>4. CASE echo' = echo /\ ring'.head = ring.head
  BY <1>1, <1>4 DEF Counted, Seen
<1> QED
  BY <1>2, <1>3, <1>4

LEMMA EchoStep == PlayInv /\ Counted /\ [SinkNext]_sinkVars => Counted'
<1> SUFFICES ASSUME PlayInv, Counted, [SinkNext]_sinkVars PROVE Counted'
  OBVIOUS
<1>0. Typed /\ Skipping
  BY DEF PlayInv
<1>1. CASE Player /\ echo' = Echo
  <2>1. \/ Arbitrate \/ Under \/ Look \/ ReadSnap
        \/ Decide \/ Skip \/ Pull \/ Flush \/ Advance \/ Write
    BY <1>1 DEF Player
  <2> QED
    BY <1>0, <1>1, <2>1, EchoBeginning, EchoDecide, EchoSkip, EchoPull, EchoRest
<1>2. CASE Feeder /\ FeedEcho
  BY <1>0, <1>2, EchoFeed
<1>3. CASE UNCHANGED sinkVars
  BY <1>3 DEF sinkVars, Counted, Seen
<1> QED
  BY <1>1, <1>2, <1>3 DEF SinkNext, FeedEcho

\* Never more than SoftFrames frames in a row are off by more than the soft
\* threshold, although the step that corrects them shares its flags without a
\* lock (render_network_frame of audio_sink.c).
THEOREM EchoBriefHolds == SinkSpec => []EchoBrief
<1>1. PlayInv /\ Counted => EchoBrief
  <2> SUFFICES ASSUME Typed, Counted PROVE echo <= SoftFrames
    BY DEF PlayInv, EchoBrief
  <2>1. ctl.off < SoftFrames /\ (echo <= ctl.off \/ echo <= ctl.off + 1 \/ echo <= SoftFrames)
    BY DEF Counted
  <2> QED
    BY <2>1, SinkNumbers, SizeFacts
<1>2. SinkSpec => []Counted
  BY EchoInit, EchoStep, PlayInvariant, PTL DEF SinkSpec
<1> QED
  BY <1>1, <1>2, PlayInvariant, PTL
=============================================================================
