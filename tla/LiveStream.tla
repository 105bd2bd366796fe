----------------------------- MODULE LiveStream -----------------------------
(***************************************************************************)
(* What the fan-out of snapserver.c promises every listener, without       *)
(* saying how: the chunks it is sent follow each other in capture order,   *)
(* none twice within one connection; each is whole and in time to be       *)
(* played, or the listener has fallen a whole pool behind and gets a mix   *)
(* with the chunk that is taking its place.  Chunks may be left out.  A    *)
(* chunk is identified by its capture time.                                *)
(***************************************************************************)
EXTENDS Integers

CONSTANTS Listeners, MaxLateness, Lap

VARIABLES
    time,    \* frame periods since the start
    newest,  \* capture time of the newest frame
    heard    \* what each listener was sent last: header, payload and whose turn it was

streamVars == <<time, newest, heard>>

Silence == [ts |-> 0, data |-> 0, of |-> 0]

Init == time = 1 /\ newest = 0 /\ heard = [l \in Listeners |-> Silence]

Pass == time' = time + 1 /\ UNCHANGED <<newest, heard>>

Capture == newest < time /\ newest' = time /\ UNCHANGED <<time, heard>>

\* The connection is replaced: the stream starts over.
Reconnect(l) == heard' = [heard EXCEPT ![l] = Silence] /\ UNCHANGED <<time, newest>>

Deliver(l, t) ==
    /\ time - t <= MaxLateness
    /\ heard' = [heard EXCEPT ![l] = [ts |-> t, data |-> t, of |-> t]]
    /\ UNCHANGED <<time, newest>>

\* Header, payload or both are those of the chunk captured at u, a lap later.
Tear(l, t, u) ==
    /\ t + Lap <= u
    /\ \E h, d \in {t, u} :
         /\ time - h <= MaxLateness
         /\ heard' = [heard EXCEPT ![l] = [ts |-> h, data |-> d, of |-> t]]
    /\ UNCHANGED <<time, newest>>

Next ==
    \/ Pass \/ Capture
    \/ \E l \in Listeners :
         \/ Reconnect(l)
         \/ \E t \in heard[l].of + 1 .. newest :
              Deliver(l, t) \/ \E u \in t .. newest : Tear(l, t, u)

Spec == Init /\ [][Next]_streamVars
=============================================================================
