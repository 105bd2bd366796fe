------------------------------ MODULE TimeSync ------------------------------
(***************************************************************************)
(* The clocks of one connection: the client's Time requests, the two       *)
(* stamps the server answers them with, the window the client fits its     *)
(* offset in (snapclient.c), and the server's one adoption of a wall clock *)
(* (handle_time of snapserver.c), which may fall between any two stamps.   *)
(*                                                                         *)
(* The client's own clock stands still: only what the server's base adds   *)
(* is kept, in units of the largest round trip that is accepted.  Time on  *)
(* the way does not matter then, except that a round trip may be too long. *)
(***************************************************************************)
EXTENDS Integers, SequencesExt, FiniteSetsExt

CONSTANTS
    MinFit,   \* SNAP_TIME_MIN_FIT
    Window,   \* SNAP_TIME_WINDOW
    MaxRtt,   \* SNAP_TIME_MAX_RTT_US
    Jump,     \* SNAP_TIME_JUMP_US
    MinSkew,  \* an adopted clock is off by more than this
    Skews,    \* what the clock of the first PC client is off by
    MaxAsks   \* bound: requests on their way

ASSUME TimeSyncAssumption ==
    /\ {MinFit, Window, MaxRtt, MinSkew, MaxAsks} \subseteq Nat \ {0}
    /\ Jump \in Nat /\ Skews \subseteq Int /\ MinFit < Window

VARIABLES
    base,   \* s_wall_offset_us, and s_clock_synced
    asks,   \* requests and replies on their way: the stamps taken so far
    window, \* s_time_window, oldest first
    offset  \* s_time_published_us
syncVars == <<base, asks, window, offset>>

Bases == {0} \cup Skews

SyncTypeOK ==
    /\ base \in [at : Bases, synced : BOOLEAN]
    /\ Len(asks) <= MaxAsks
    /\ \A i \in DOMAIN asks : Len(asks[i]) <= 2 /\ Range(asks[i]) \subseteq Bases
    /\ Len(window) <= Window
    /\ offset \in Int

SyncInit ==
    /\ base = [at |-> 0, synced |-> FALSE]
    /\ asks = <<>> /\ window = <<>> /\ offset = 0

\* time_sync_reset.  What is still on its way ends with the connection.
SyncReset == asks' = <<>> /\ window' = <<>> /\ offset' = 0 /\ UNCHANGED base

\* send_time_request.
Ask ==
    /\ Len(asks) < MaxAsks
    /\ asks' = Append(asks, <<>>)
    /\ UNCHANGED <<base, window, offset>>

Abs(n) == IF n < 0 THEN -n ELSE n

\* The Time message of a PC: the first one is adopted if it is far off.
Adopt ==
    /\ ~base.synced
    /\ \E skew \in Skews :
         base' = [at |-> IF Abs(skew) > MinSkew THEN skew ELSE base.at, synced |-> TRUE]
    /\ UNCHANGED <<asks, window, offset>>

\* handle_time: the request is stamped when it comes, the reply when it goes.
Stamp ==
    /\ \E i \in DOMAIN asks :
         /\ Len(asks[i]) < 2 /\ \A j \in 1 .. i - 1 : Len(asks[j]) = 2
         /\ asks' = [asks EXCEPT ![i] = Append(@, base.at)]
    /\ UNCHANGED <<base, window, offset>>

\* publish_offset: the fastest third, but at least MinFit, whichever they are.
Mean(w, S) == FoldSet(LAMBDA i, n : n + w[i], 0, S) \div Cardinality(S)
Used(n) == IF n < MinFit THEN n ELSE IF n \div 3 < MinFit THEN MinFit ELSE n \div 3
Publish(w) ==
    /\ window' = w
    /\ \E S \in kSubset(Used(Len(w)), DOMAIN w) : offset' = Mean(w, S)

Insert(w, o) == IF Len(w) < Window THEN Append(w, o) ELSE Append(Tail(w), o)

\* Mutant: the check begins one measurement later.
StartsOverLate(o, rtt) == Len(window) > MinFit /\ Abs(o - offset) > Jump + rtt

\* Far off the line: the server's clock moved.
StartsOver(o, rtt) == Len(window) >= MinFit /\ Abs(o - offset) > Jump + rtt

\* handle_time_reply: only the last request's reply counts, and only if its
\* round trip makes sense.
TimeReply ==
    /\ asks # <<>> /\ Len(Head(asks)) = 2
    /\ asks' = Tail(asks)
    /\ \E way \in 0 .. MaxRtt + 1 :
         LET stamps == Head(asks)
             rtt    == way - (stamps[2] - stamps[1])
             o      == (stamps[1] + stamps[2]) \div 2
         IN IF Len(asks) > 1 \/ rtt < 0 \/ rtt > MaxRtt
            THEN UNCHANGED <<window, offset>>
            ELSE Publish(Insert(IF StartsOver(o, rtt) THEN <<>> ELSE window, o))
    /\ UNCHANGED base

-----------------------------------------------------------------------------
(* One clock is never averaged with another for long: once more than       *)
(* MinFit measurements were taken they are all of one clock, and so is the *)
(* published offset, although the first MinFit of them are not compared    *)
(* with anything and the adoption may come between the two stamps of one.  *)
ClockSettles == Len(window) > MinFit => Range(window) = {offset}
=============================================================================
