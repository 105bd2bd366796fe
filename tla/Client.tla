------------------------------- MODULE Client -------------------------------
(***************************************************************************)
(* The Snapcast client's connection (snapclient.c, mesh_client.c):         *)
(* snap_task connects, reads and reconnects; the event task tells it that  *)
(* the network came or went; snap_task itself drops the parent link when   *)
(* the server cannot be reached.  They share a flag, two event bits and    *)
(* the socket's number, none of them under a lock.                         *)
(*                                                                         *)
(* A message is a header and a payload, each of which comes whole, in part *)
(* or not at all; a link may also die without a word.                      *)
(***************************************************************************)
EXTENDS TimeSync

CONSTANTS
    Attempts,   \* SNAP_UNREACHABLE_ATTEMPTS
    Stall,      \* SNAP_STALL_TIMEOUT_US in receive timeouts
    MaxTrouble  \* bound: how often the link or the server goes away

ASSUME ClientAssumption == {Attempts, Stall, MaxTrouble} \subseteq Nat \ {0}

VARIABLES
    net,    \* the parent link, the server behind it, how often either failed
    events, \* posted by the Wi-Fi driver, not handled yet
    up,     \* s_network_available
    bits,   \* s_evt
    ev,     \* the event task in snapclient_set_network_available
    snap,   \* snap_task: where it is, failed_connects, timeouts in a row
    open,   \* s_sock names a socket
    tcp,    \* the connection it holds
    codec   \* s_codec and s_opus_decoder
vars == <<net, events, up, bits, ev, snap, open, tcp, codec, base, asks, window, offset>>

Available == "EVT_NETWORK_AVAILABLE"
Changed   == "EVT_STATE_CHANGED"

Reading == {"header", "in header", "payload", "in payload", "process"}

\* The variables of this module.
LinkTypeOK ==
    /\ net \in [link : BOOLEAN, server : BOOLEAN, trouble : 0 .. MaxTrouble]
    /\ events \in UNION {[1 .. n -> {"gone", "ip"}] : n \in 0 .. 2 * MaxTrouble + 3}
    /\ up \in BOOLEAN /\ bits \subseteq {Available, Changed} /\ open \in BOOLEAN
    /\ ev \in {"idle", "up", "start", "down", "abort", "aborting"}
    /\ snap \in [pc : {"off", "top", "wait", "connect", "connecting", "failed", "down", "down bits",
                       "drop link", "retry", "check", "assign", "hello", "close", "unset",
                       "lost", "sleep"} \cup Reading,
                 failed : 0 .. Attempts - 1, quiet : 0 .. Stall - 1]
    /\ tcp \in {"none", "ok", "dead", "broken", "shut"}
    /\ codec \in BOOLEAN

TypeOK == LinkTypeOK /\ SyncTypeOK

Init ==
    /\ net = [link |-> FALSE, server |-> TRUE, trouble |-> 0]
    /\ events = <<>> /\ up = FALSE /\ bits = {} /\ ev = "idle" /\ open = FALSE
    /\ snap = [pc |-> "off", failed |-> 0, quiet |-> 0]
    /\ tcp = "none" /\ codec = FALSE
    /\ SyncInit

At(pc)   == snap.pc = pc
Goto(pc) == snap' = [snap EXCEPT !.pc = pc, !.quiet = 0]

-----------------------------------------------------------------------------
(* Mesh-Lite and the server.                                                *)

\* Nothing more comes, and nobody says so; or the peer's end is noticed.
Lost == tcp' \in IF tcp = "ok" THEN {"dead", "broken"} ELSE {tcp}

LinkUp ==
    /\ ~net.link
    /\ net' = [net EXCEPT !.link = TRUE]
    /\ events' = Append(events, "ip")
    /\ UNCHANGED <<up, bits, ev, snap, open, tcp, codec>>

LinkLost ==
    /\ net.link /\ net.trouble < MaxTrouble
    /\ net' = [net EXCEPT !.link = FALSE, !.trouble = @ + 1]
    /\ events' = Append(events, "gone")
    /\ Lost
    /\ UNCHANGED <<up, bits, ev, snap, open, codec>>

ServerLost ==
    /\ net.server /\ net.trouble < MaxTrouble
    /\ net' = [net EXCEPT !.server = FALSE, !.trouble = @ + 1]
    /\ Lost
    /\ UNCHANGED <<events, up, bits, ev, snap, open, codec>>

ServerBack ==
    /\ ~net.server
    /\ net' = [net EXCEPT !.server = TRUE]
    /\ UNCHANGED <<events, up, bits, ev, snap, open, tcp, codec>>

Environment == (LinkUp \/ LinkLost \/ ServerLost \/ ServerBack) /\ UNCHANGED syncVars

-----------------------------------------------------------------------------
(* The event task.                                                          *)

\* Mutant: the bits are set before the flag.
SetAvailableEarly ==
    /\ \/ /\ ev = "idle" /\ events # <<>> /\ Head(events) = "ip"
          /\ events' = Tail(events)
          /\ ev' = IF up THEN "idle" ELSE "up"
          /\ bits' = IF up \/ At("off") THEN bits ELSE {Available, Changed}
          /\ UNCHANGED up
       \/ /\ ev = "up"
          /\ up' = TRUE
          /\ ev' = IF At("off") THEN "start" ELSE "idle"
          /\ UNCHANGED <<events, bits>>
    /\ UNCHANGED <<net, snap, open, tcp, codec>>

\* ip_event_handler, snapclient_set_network_available(true).  Before the first
\* start there are no bits to set.
SetAvailable ==
    /\ \/ /\ ev = "idle" /\ events # <<>> /\ Head(events) = "ip"
          /\ events' = Tail(events)
          /\ up' = TRUE
          /\ ev' = IF up THEN "idle" ELSE "up"
          /\ UNCHANGED bits
       \/ /\ ev = "up"
          /\ bits' = IF At("off") THEN bits ELSE {Available, Changed}
          /\ ev' = IF At("off") THEN "start" ELSE "idle"
          /\ UNCHANGED <<events, up>>
    /\ UNCHANGED <<net, snap, open, tcp, codec>>

\* snapclient_start.
StartClient ==
    /\ ev = "start"
    /\ bits' = IF up THEN bits \cup {Available} ELSE bits \ {Available}
    /\ ev' = "idle"
    /\ Goto("top")
    /\ UNCHANGED <<net, events, up, open, tcp, codec>>

\* wifi_event_handler, snapclient_set_network_available(false).
SetGone ==
    /\ \/ /\ ev = "idle" /\ events # <<>> /\ Head(events) = "gone"
          /\ events' = Tail(events)
          /\ up' = FALSE
          /\ ev' = IF up THEN "down" ELSE "idle"
          /\ UNCHANGED bits
       \/ /\ ev = "down"
          /\ bits' = IF At("off") THEN bits ELSE (bits \ {Available}) \cup {Changed}
          /\ ev' = "abort"
          /\ UNCHANGED <<events, up>>
    /\ UNCHANGED <<net, snap, open, tcp, codec>>

\* The socket's number is read, and then shut down: whatever has it by then.
AbortOpen ==
    /\ \/ /\ ev = "abort"
          /\ ev' = IF open THEN "aborting" ELSE "idle"
          /\ UNCHANGED tcp
       \/ /\ ev = "aborting"
          /\ tcp' = IF tcp = "none" THEN "none" ELSE "shut"
          /\ ev' = "idle"
    /\ UNCHANGED <<net, events, up, bits, snap, open, codec>>

EventTask == (SetAvailable \/ StartClient \/ SetGone \/ AbortOpen) /\ UNCHANGED syncVars

-----------------------------------------------------------------------------
(* snap_task: getting a connection.                                         *)

Top ==
    /\ At("top")
    /\ Goto(IF up THEN "connect" ELSE "wait")
    /\ UNCHANGED <<net, events, up, bits, ev, open, tcp, codec>>

\* The bit is left as it is.
Wait ==
    /\ At("wait") /\ Available \in bits
    /\ Goto("top")
    /\ UNCHANGED <<net, events, up, bits, ev, open, tcp, codec>>

\* tcp_connect: the flag is looked at before and after.
Connect ==
    /\ \/ At("connect") /\ Goto(IF up THEN "connecting" ELSE "failed") /\ UNCHANGED tcp
       \/ /\ At("connecting")
          /\ IF net.link /\ net.server /\ up
             THEN Goto("check") /\ tcp' = "ok"
             ELSE Goto("failed") /\ UNCHANGED tcp
    /\ UNCHANGED <<net, events, up, bits, ev, open, codec>>

\* Mutant: the count is not begun anew.
FailedForGood ==
    /\ At("failed")
    /\ LET n == snap.failed + 1
       IN snap' = [snap EXCEPT !.failed = n, !.pc = IF n = Attempts THEN "down" ELSE "retry"]
    /\ UNCHANGED <<net, events, up, bits, ev, open, tcp, codec>>

\* Mutant: the count is begun anew with every failure.
FailedOnce ==
    /\ At("failed")
    /\ snap' = [snap EXCEPT !.failed = 0, !.pc = "retry"]
    /\ UNCHANGED <<net, events, up, bits, ev, open, tcp, codec>>

\* snap_task counts the failures in a row; at the last one it asks for a rejoin.
Failed ==
    /\ At("failed")
    /\ LET n == snap.failed + 1
       IN snap' = IF n >= Attempts THEN [snap EXCEPT !.failed = 0, !.pc = "down"]
                                   ELSE [snap EXCEPT !.failed = n, !.pc = "retry"]
    /\ UNCHANGED <<net, events, up, bits, ev, open, tcp, codec>>

\* force_mesh_rejoin: the network is declared gone, as by the event task ...
GiveUpNetwork ==
    /\ \/ /\ At("down")
          /\ up' = FALSE
          /\ Goto(IF up THEN "down bits" ELSE "drop link")
          /\ UNCHANGED bits
       \/ /\ At("down bits")
          /\ bits' = (bits \ {Available}) \cup {Changed}
          /\ Goto("drop link")
          /\ UNCHANGED up
    /\ UNCHANGED <<net, events, ev, open, tcp, codec>>

\* ... and then the parent is left.
DropLink ==
    /\ At("drop link")
    /\ net' = [net EXCEPT !.link = FALSE]
    /\ events' = IF net.link THEN Append(events, "gone") ELSE events
    /\ Goto("retry")
    /\ UNCHANGED <<up, bits, ev, open, tcp, codec>>

\* wait_for_reconnect_condition: woken by a bit, which clears both, or by time.
Sleep ==
    /\ \/ At("retry") /\ Goto(IF up THEN "sleep" ELSE "top") /\ UNCHANGED bits
       \/ At("sleep") /\ Goto("top") /\ bits' = {}
       \/ At("sleep") /\ bits = {} /\ Goto("top") /\ UNCHANGED bits
    /\ UNCHANGED <<net, events, up, ev, open, tcp, codec>>

\* Between the look at the flag and the new number nobody can abort.
TakeSocket ==
    /\ \/ /\ At("check")
          /\ snap' = [snap EXCEPT !.failed = 0, !.pc = IF up THEN "assign" ELSE "top"]
          /\ tcp' = IF up THEN tcp ELSE "none"
          /\ UNCHANGED <<open, codec>>
       \/ /\ At("assign")
          /\ Goto("hello") /\ open' = TRUE /\ codec' = FALSE
          /\ UNCHANGED tcp
    /\ UNCHANGED <<net, events, up, bits, ev>>

\* send_hello, then connection_loop, which forgets the last connection's clock.
SayHello ==
    /\ At("hello")
    /\ IF tcp \in {"ok", "dead"} THEN Goto("header") /\ SyncReset
                                ELSE Goto("close") /\ UNCHANGED syncVars
    /\ UNCHANGED <<net, events, up, bits, ev, open, tcp, codec>>

-----------------------------------------------------------------------------
(* snap_task: connection_loop.                                              *)

\* A time request or a receive fails.
ReadFails ==
    /\ snap.pc \in Reading \ {"process"} /\ tcp \in {"broken", "shut"}
    /\ Goto("close")
    /\ UNCHANGED <<net, events, up, bits, ev, open, tcp, codec>>

\* read_full, read_full_wait: the rest of a header or of a payload comes.  A
\* header without payload is left at that; one too long is read and dropped.
Read ==
    /\ tcp = "ok"
    /\ \/ At("header")     /\ \E pc \in {"in header", "payload", "header"} : Goto(pc)
       \/ At("in header")  /\ \E pc \in {"payload", "header"} : Goto(pc)
       \/ At("payload")    /\ \E pc \in {"in payload", "process", "header"} : Goto(pc)
       \/ At("in payload") /\ \E pc \in {"process", "header", "payload"} : Goto(pc)
    /\ UNCHANGED <<net, events, up, bits, ev, open, tcp, codec>>

\* Mutant: the timeouts in front of a message are not counted.
TimeoutUncounted ==
    /\ snap.pc \in {"header", "payload"} /\ tcp \in {"ok", "dead"}
    /\ At("payload")
    /\ snap' = IF snap.quiet + 1 >= Stall THEN [snap EXCEPT !.pc = "close", !.quiet = 0]
                                          ELSE [snap EXCEPT !.quiet = @ + 1]
    /\ UNCHANGED <<net, events, up, bits, ev, open, tcp, codec>>

\* SNAP_RECV_TIMEOUT_US without a byte.  Once the first one came, read_full
\* goes on waiting.
Timeout ==
    /\ snap.pc \in {"header", "payload"} /\ tcp \in {"ok", "dead"}
    /\ snap' = IF snap.quiet + 1 >= Stall THEN [snap EXCEPT !.pc = "close", !.quiet = 0]
                                          ELSE [snap EXCEPT !.quiet = @ + 1]
    /\ UNCHANGED <<net, events, up, bits, ev, open, tcp, codec>>

\* A request goes out between two messages.
SendTime ==
    /\ At("header") /\ tcp \in {"ok", "dead"} /\ Ask
    /\ UNCHANGED <<net, events, up, bits, ev, snap, open, tcp, codec>>

\* process_message: a time reply, a codec header, an answer that cannot be sent,
\* anything else.
Process ==
    /\ At("process")
    /\ \/ Goto("header") /\ TimeReply /\ UNCHANGED codec
       \/ Goto("header") /\ codec' \in {codec, TRUE} /\ UNCHANGED syncVars
       \/ tcp \in {"broken", "shut"} /\ Goto("close") /\ UNCHANGED <<codec, asks, window, offset, base>>
    /\ UNCHANGED <<net, events, up, bits, ev, open, tcp>>

\* The socket is closed, and what was on its way is lost, before its number is
\* taken back.
Close ==
    /\ \/ At("close") /\ Goto("unset") /\ tcp' = "none" /\ asks' = <<>> /\ UNCHANGED <<open, codec>>
       \/ At("unset") /\ Goto("lost")  /\ open' = FALSE /\ codec' = FALSE /\ UNCHANGED <<tcp, asks>>
       \/ At("lost")  /\ Goto(IF up THEN "sleep" ELSE "top") /\ UNCHANGED <<open, tcp, codec, asks>>
    /\ UNCHANGED <<net, events, up, bits, ev, base, window, offset>>

SnapTask ==
    \/ /\ \/ Top \/ Wait \/ Connect \/ Failed \/ GiveUpNetwork \/ DropLink \/ Sleep \/ TakeSocket
          \/ ReadFails \/ Read \/ Timeout
       /\ UNCHANGED syncVars
    \/ SayHello \/ SendTime \/ Process \/ Close

\* The server's end of the connection, and its other clients.
TimeServer ==
    /\ Adopt \/ (tcp = "ok" /\ Stamp)
    /\ UNCHANGED <<net, events, up, bits, ev, snap, open, tcp, codec>>

-----------------------------------------------------------------------------
Next == Environment \/ EventTask \/ SnapTask \/ TimeServer

Spec == Init /\ [][Next]_vars

\* The tasks run, and Mesh-Lite joins again.
FairSpec == Spec /\ WF_vars(EventTask) /\ WF_vars(SnapTask) /\ WF_vars(LinkUp /\ UNCHANGED syncVars)

-----------------------------------------------------------------------------
(* No wake-up is lost: when the network is there and nobody is about to    *)
(* say so, snap_task does not wait for it.  The flag and the bits are set  *)
(* apart from each other, by two tasks, and the short waits use them up.   *)
NoLostWakeUp == At("wait") /\ up /\ ev = "idle" => Available \in bits

MidMessage == snap.pc \in {"in header", "in payload"}

(* The client is connected again and again as long as the server can be    *)
(* reached: whatever was lost before, no path leaves it waiting.  It may   *)
(* hang in the middle of a message whose rest never comes.                 *)
Recovers == <>[](net.link /\ net.server) => []<>(tcp = "ok" \/ (MidMessage /\ tcp = "dead"))

(* A client that has a network but no server leaves its parent again and   *)
(* again, to find another way to the server (SNAP_UNREACHABLE_ATTEMPTS).   *)
Rejoins == <>[](~net.server) => []<>(At("drop link") \/ (MidMessage /\ tcp = "dead"))

(* snapclient.c:243-246: "mid-message the caller has no way to resume, so  *)
(* keep waiting and let the stall watchdog end the connection".            *)
WatchdogEnds == tcp = "dead" ~> tcp # "dead"
=============================================================================
