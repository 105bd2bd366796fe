---------------------------- MODULE ClientStore ----------------------------
(***************************************************************************)
(* client_store.c: settings per client in a RAM table, written behind by   *)
(* store_task.  client_store_put changes the table at once and leaves a    *)
(* dirty flag, or the key of the entry it evicted, for store_flush, which  *)
(* takes both in small critical sections between its flash accesses.       *)
(* Where the task could not be created, callers flush themselves.          *)
(*                                                                         *)
(* Each put that changes something carries a value of its own, the number  *)
(* of the put.  Flash accesses are atomic; power may fail between any two. *)
(***************************************************************************)
EXTENDS Integers, Sequences, FiniteSets

CONSTANTS
    Ids,       \* client ids
    Keys,      \* NVS keys
    Key,       \* make_key: the hash of an id
    Capacity,  \* CLIENT_STORE_MAX
    EraseRoom, \* the size of s_erase_keys
    HasTask,   \* whether store_task could be created
    Flushers,  \* who runs store_flush: store_task, or the callers of a put
    Resets,    \* whether a factory reset happens
    MaxPut,    \* bound: puts
    MaxCrash   \* bound: power failures

NoId  == "no id"    \* of a free place
NoKey == "no key"

ASSUME StoreAssumption ==
    /\ IsFiniteSet(Ids) /\ NoId \notin Ids /\ NoKey \notin Keys
    /\ Key \in [Ids -> Keys]
    /\ Capacity \in Nat \ {0} /\ EraseRoom \in Nat
    /\ HasTask \in BOOLEAN /\ (HasTask => \E f \in Flushers : Flushers = {f})
    /\ Resets \in BOOLEAN /\ MaxPut \in Nat /\ MaxCrash \in Nat

VARIABLES
    entries, \* s_entries
    dirty,   \* s_dirty
    erase,   \* s_erase_keys
    seq,     \* s_seq
    notified, \* notifications store_task has not taken; without it, puts not flushed yet
    flush,   \* store_flush of each flusher
    nvs,     \* the flash
    reset,   \* client_store_erase_all, and the put it started after
    puts,    \* puts so far
    latest,  \* the last value put for each id since power-up
    crashes

vars == <<entries, dirty, erase, seq, notified, flush, nvs, reset, puts, latest, crashes>>

Table  == 1 .. Capacity
Vals   == 0 .. MaxPut
Entry  == [id : Ids, val : 1 .. MaxPut, seq : 1 .. MaxPut]
Empty  == [id |-> NoId, val |-> 0, seq |-> 0]
Resting == [pc |-> "idle", at |-> 1, key |-> NoKey, item |-> Empty]

TypeOK ==
    /\ entries \in [Table -> Entry \cup {Empty}]
    /\ dirty \in [Table -> BOOLEAN]
    /\ erase \in Seq(Keys) /\ Len(erase) <= EraseRoom
    /\ seq \in 0 .. MaxPut
    /\ notified \in Vals
    /\ flush \in [Flushers -> [pc : {"idle", "erase", "erasing", "scan", "write"},
                               at : 1 .. Capacity + 1, key : Keys \cup {NoKey},
                               item : Entry \cup {Empty}]]
    /\ nvs \in [Keys -> Entry \cup {Empty}]
    /\ reset \in [pc : {"never", "nvs done", "done"}, after : Vals]
    /\ puts \in Vals
    /\ latest \in [Ids -> Vals]
    /\ crashes \in 0 .. MaxCrash

Init ==
    /\ entries = [i \in Table |-> Empty]
    /\ dirty = [i \in Table |-> FALSE]
    /\ erase = <<>>
    /\ seq = 0
    /\ notified = 0
    /\ flush = [f \in Flushers |-> Resting]
    /\ nvs = [k \in Keys |-> Empty]
    /\ reset = [pc |-> "never", after |-> 0]
    /\ puts = 0
    /\ latest = [c \in Ids |-> 0]
    /\ crashes = 0

-----------------------------------------------------------------------------
(* client_store_put *)

First(P) == CHOOSE i \in P : \A j \in P : i <= j
Oldest   == {i \in Table : \A j \in Table : entries[i].seq <= entries[j].seq}

\* Faulty variant: the id is not looked up.
SlotForAny(c) ==
    LET free == {i \in Table : entries[i] = Empty}
    IN  First(IF free # {} THEN free ELSE Oldest)

\* Faulty variant: the entry written last makes room.
SlotForNewest(c) ==
    LET known == {i \in Table : entries[i].id = c}
        free  == {i \in Table : entries[i] = Empty}
    IN  First(IF known # {} THEN known ELSE IF free # {} THEN free
              ELSE {i \in Table : \A j \in Table : entries[i].seq >= entries[j].seq})

\* The entry of that id, else a free one, else the one written longest ago.
SlotFor(c) ==
    LET known == {i \in Table : entries[i].id = c}
        free  == {i \in Table : entries[i] = Empty}
    IN  First(IF known # {} THEN known ELSE IF free # {} THEN free ELSE Oldest)

\* Faulty variant: the number of the entry before, with s_seq++.
PutOldSeq(c) ==
    LET i == SlotFor(c) IN
    /\ puts < MaxPut
    /\ puts' = puts + 1
    /\ seq' = seq + 1
    /\ latest' = [latest EXCEPT ![c] = puts + 1]
    /\ entries' = [entries EXCEPT ![i] = [id |-> c, val |-> puts + 1, seq |-> seq]]
    /\ dirty' = [dirty EXCEPT ![i] = TRUE]
    /\ notified' = notified + 1
    /\ UNCHANGED <<erase, flush, nvs, reset, crashes>>

\* Faulty variant: the key of the evicted entry made after it is overwritten.
PutKeyLate(c) ==
    LET i == SlotFor(c) IN
    /\ puts < MaxPut
    /\ puts' = puts + 1
    /\ seq' = seq + 1
    /\ latest' = [latest EXCEPT ![c] = puts + 1]
    /\ entries' = [entries EXCEPT ![i] = [id |-> c, val |-> puts + 1, seq |-> seq + 1]]
    /\ dirty' = [dirty EXCEPT ![i] = TRUE]
    /\ notified' = notified + 1
    /\ UNCHANGED <<erase, flush, nvs, reset, crashes>>

\* A change: the table at once, the flash later.
Put(c) ==
    LET i   == SlotFor(c)
        out == entries[i] IN
    /\ puts < MaxPut
    /\ puts' = puts + 1
    /\ seq' = seq + 1
    /\ latest' = [latest EXCEPT ![c] = puts + 1]
    /\ entries' = [entries EXCEPT ![i] = [id |-> c, val |-> puts + 1, seq |-> seq + 1]]
    /\ dirty' = [dirty EXCEPT ![i] = TRUE]
    /\ erase' = IF out # Empty /\ out.id # c /\ Key[out.id] # Key[c] /\ Len(erase) < EraseRoom
                THEN Append(erase, Key[out.id]) ELSE erase
    /\ notified' = notified + 1
    /\ UNCHANGED <<flush, nvs, reset, crashes>>

-----------------------------------------------------------------------------
(* store_flush *)

\* store_task, once the changes have rested for STORE_WRITE_DELAY_MS, takes all
\* its notifications at once; a caller flushes after each put of its own.
StartFlush(f) ==
    /\ flush[f].pc = "idle" /\ notified > 0
    /\ flush' = [flush EXCEPT ![f] = [Resting EXCEPT !.pc = "erase"]]
    /\ notified' = IF HasTask THEN 0 ELSE notified - 1
    /\ UNCHANGED <<entries, dirty, erase, seq, nvs, reset, puts, latest, crashes>>

\* The next key to erase is taken under the lock ...
TakeKey(f) ==
    /\ flush[f].pc = "erase"
    /\ IF erase = <<>>
       THEN flush' = [flush EXCEPT ![f].pc = "scan"] /\ UNCHANGED erase
       ELSE /\ flush' = [flush EXCEPT ![f].pc = "erasing", ![f].key = erase[Len(erase)]]
            /\ erase' = SubSeq(erase, 1, Len(erase) - 1)
    /\ UNCHANGED <<entries, dirty, seq, notified, nvs, reset, puts, latest, crashes>>

\* ... and erased without it.
EraseKey(f) ==
    /\ flush[f].pc = "erasing"
    /\ nvs' = [nvs EXCEPT ![flush[f].key] = Empty]
    /\ flush' = [flush EXCEPT ![f].pc = "erase", ![f].key = NoKey]
    /\ UNCHANGED <<entries, dirty, erase, seq, notified, reset, puts, latest, crashes>>

\* Faulty variant: what was notified during the flush is taken at its end.
TakeEntryDrains(f) ==
    LET i == flush[f].at IN
    /\ flush[f].pc = "scan"
    /\ IF i > Capacity
       THEN flush' = [flush EXCEPT ![f] = Resting] /\ notified' = 0 /\ UNCHANGED dirty
       ELSE /\ dirty' = [dirty EXCEPT ![i] = FALSE]
            /\ flush' = IF dirty[i] /\ entries[i] # Empty
                        THEN [flush EXCEPT ![f].pc = "write", ![f].item = entries[i]]
                        ELSE [flush EXCEPT ![f].at = i + 1]
            /\ UNCHANGED notified
    /\ UNCHANGED <<entries, erase, seq, nvs, reset, puts, latest, crashes>>

\* The next entry is copied under the lock, its flag cleared; past the last
\* one the flush is over.
TakeEntry(f) ==
    LET i == flush[f].at IN
    /\ flush[f].pc = "scan"
    /\ IF i > Capacity
       THEN flush' = [flush EXCEPT ![f] = Resting] /\ UNCHANGED dirty
       ELSE /\ dirty' = [dirty EXCEPT ![i] = FALSE]
            /\ flush' = IF dirty[i] /\ entries[i] # Empty
                        THEN [flush EXCEPT ![f].pc = "write", ![f].item = entries[i]]
                        ELSE [flush EXCEPT ![f].at = i + 1]
    /\ UNCHANGED <<entries, erase, seq, notified, nvs, reset, puts, latest, crashes>>

\* Faulty variant: the flag is cleared once the entry is written.
WriteThenClear(f) ==
    /\ flush[f].pc = "write"
    /\ nvs' = [nvs EXCEPT ![Key[flush[f].item.id]] = flush[f].item]
    /\ dirty' = [dirty EXCEPT ![flush[f].at] = FALSE]
    /\ flush' = [flush EXCEPT ![f].pc = "scan", ![f].at = @ + 1, ![f].item = Empty]
    /\ UNCHANGED <<entries, erase, seq, notified, reset, puts, latest, crashes>>

\* nvs_set_blob
WriteEntry(f) ==
    /\ flush[f].pc = "write"
    /\ nvs' = [nvs EXCEPT ![Key[flush[f].item.id]] = flush[f].item]
    /\ flush' = [flush EXCEPT ![f].pc = "scan", ![f].at = @ + 1, ![f].item = Empty]
    /\ UNCHANGED <<entries, dirty, erase, seq, notified, reset, puts, latest, crashes>>

-----------------------------------------------------------------------------
\* client_store_erase_all: the flash first ...
EraseNvs ==
    /\ Resets /\ reset.pc = "never"
    /\ nvs' = [k \in Keys |-> Empty]
    /\ reset' = [pc |-> "nvs done", after |-> puts]
    /\ UNCHANGED <<entries, dirty, erase, seq, notified, flush, puts, latest, crashes>>

\* ... then the table.
EraseTable ==
    /\ reset.pc = "nvs done"
    /\ entries' = [i \in Table |-> Empty]
    /\ dirty' = [i \in Table |-> FALSE]
    /\ erase' = <<>>
    /\ reset' = [reset EXCEPT !.pc = "done"]
    /\ latest' = [c \in Ids |-> 0]
    /\ UNCHANGED <<seq, notified, flush, nvs, puts, crashes>>

Loadable == {k \in Keys : nvs[k] # Empty}

\* Power fails; client_store_init loads entries, in whatever order the NVS
\* iterator finds them, until the table is full.
Restart(order) ==
    LET n      == Len(order)
        loaded == {nvs[order[i]] : i \in 1 .. n}
        newest == {e \in loaded : \A d \in loaded : d.seq <= e.seq} IN
    /\ crashes < MaxCrash
    /\ crashes' = crashes + 1
    /\ n = (IF Cardinality(Loadable) < Capacity THEN Cardinality(Loadable) ELSE Capacity)
    /\ {order[i] : i \in 1 .. n} \subseteq Loadable /\ Cardinality(loaded) = n
    /\ entries' = [i \in Table |-> IF i <= n THEN nvs[order[i]] ELSE Empty]
    /\ dirty' = [i \in Table |-> FALSE]
    /\ erase' = <<>>
    /\ seq' = IF newest = {} THEN 0 ELSE (CHOOSE e \in newest : TRUE).seq
    /\ notified' = 0
    /\ flush' = [f \in Flushers |-> Resting]
    /\ reset' = IF reset.pc = "nvs done" THEN [reset EXCEPT !.pc = "done"] ELSE reset
    /\ latest' = [c \in Ids |->
                    LET own == {e \in loaded : e.id = c}
                    IN  IF own = {} THEN 0 ELSE (CHOOSE e \in own : TRUE).val]
    /\ UNCHANGED <<nvs, puts>>

Flush(f) == StartFlush(f) \/ TakeKey(f) \/ EraseKey(f) \/ TakeEntry(f) \/ WriteEntry(f)

Next ==
    \/ \E c \in Ids : Put(c)
    \/ \E f \in Flushers : Flush(f)
    \/ EraseNvs \/ EraseTable
    \/ \E n \in 0 .. Capacity : \E order \in [1 .. n -> Keys] : Restart(order)

Spec == Init /\ [][Next]_vars

FairSpec == Spec /\ WF_vars(EraseTable) /\ \A f \in Flushers : WF_vars(Flush(f))

-----------------------------------------------------------------------------
(* Properties *)

InFlight(i) == \E f \in Flushers : flush[f].pc = "write" /\ flush[f].item = entries[i]

Evicting == Cardinality(Ids) > Capacity

\* What is stored is stored: an entry whose flag is clear is in the flash as it
\* is in RAM, or on its way there, except while both are being erased
\* (client_store_put, store_flush).  Where clients are evicted the flash may
\* lack it (see Settled), but has nothing else under its key.
InSync ==
    reset.pc # "nvs done" =>
        \A i \in Table :
            entries[i] # Empty /\ ~dirty[i] /\ ~InFlight(i)
                => \/ nvs[Key[entries[i].id]] = entries[i]
                   \/ Evicting /\ nvs[Key[entries[i].id]] = Empty

\* The table holds the clients changed last, each with its last settings: "the
\* entry written longest ago makes room" (client_store.h).  Only up to the second
\* power failure: a start that finds more blobs than fit goes on with the numbers
\* of those it took, and one it left out may be loaded the next time.
Held == {entries[i].id : i \in {j \in Table : entries[j] # Empty}}
RemembersLatest ==
    /\ \A i \in Table : entries[i] # Empty => entries[i].val = latest[entries[i].id]
    /\ crashes <= 1 =>
         \A c \in Ids \ Held : latest[c] # 0 => /\ Cardinality(Held) = Capacity
                                               /\ \A d \in Held : latest[c] < latest[d]

\* No evicted client stays in the flash for ever: as long as power stays on,
\* what only the flash knows is about to be erased or overwritten
\* (client_store_put, store_flush).
NoOrphan ==
    \A k \in Keys :
        nvs[k] # Empty /\ nvs[k].id \notin Held /\ crashes = 0 /\ reset.pc = "never"
            => \/ \E i \in 1 .. Len(erase) : erase[i] = k
               \/ \E f \in Flushers : flush[f].key = k
               \/ \E i \in Table : dirty[i] /\ Key[entries[i].id] = k
               \/ \E f \in Flushers : flush[f].item # Empty /\ Key[flush[f].item.id] = k

\* The flash never goes back to older settings of a client (store_flush).
NeverBack ==
    [][\A k \in Keys : nvs'[k].id = nvs[k].id => nvs'[k].val >= nvs[k].val]_vars

\* "in NVS once nothing changed for a few seconds" (client_store.h): the last
\* settings of a client that is still remembered get into the flash.
ReachesFlash ==
    \A c \in Ids, v \in 1 .. MaxPut :
        (latest[c] = v /\ c \in Held)
            ~> (nvs[Key[c]].id = c /\ nvs[Key[c]].val = v) \/ latest[c] # v \/ c \notin Held

\* Once the flush is over and nothing changed since, every client remembered in
\* RAM is "in NVS" (client_store.h) for the next power-up.
AtRest == notified = 0 /\ \A f \in Flushers : flush[f].pc = "idle"
Settled ==
    AtRest => \A i \in Table : entries[i] # Empty => nvs[Key[entries[i].id]] = entries[i]
=============================================================================
