------------------------- MODULE ClientStore_proofs -------------------------
(***************************************************************************)
(* Theorems about ClientStore, for any number of clients, places, keys,    *)
(* puts and power failures.                                                *)
(***************************************************************************)
EXTENDS ClientStore, FiniteSetTheorems, WellFoundedInduction, TLAPS

Maybe == Entry \cup {Empty}
Used(i) == entries[i] # Empty

\* What the assumption says of the sizes and the ids.
LEMMA Sizes ==
    /\ Key \in [Ids -> Keys] /\ Capacity \in Nat /\ Capacity # 0 /\ EraseRoom \in Nat
    /\ MaxPut \in Nat /\ MaxCrash \in Nat /\ Resets \in BOOLEAN
    /\ NoId \notin Ids /\ NoKey \notin Keys /\ IsFiniteSet(Ids)
  BY StoreAssumption, Zenon

\* What an entry or an empty place has.
LEMMA EntryFacts ==
    ASSUME NEW e \in Maybe
    PROVE  /\ e.val \in 0 .. MaxPut /\ e.seq \in 0 .. MaxPut
           /\ e # Empty => /\ e \in Entry /\ e.id \in Ids /\ e.id # NoId /\ Key[e.id] \in Keys
                           /\ e.val > 0
           /\ e.id \in Ids => e # Empty
  BY Sizes DEF Maybe, Entry, Empty

\* A finite set of integers has a least and a greatest element.
LEMMA LeastOf ==
    ASSUME NEW S \in SUBSET Int, S # {}, IsFiniteSet(S)
    PROVE  \E x \in S : \A y \in S : x <= y
<1> DEFINE Below(x) == {y \in S : y < x}
           Belows   == {Below(x) : x \in S}
<1>1. PICK A \in Belows : \A B \in Belows : ~(<<B, A>> \in StrictSubsetOrdering(S))
  <2>1. IsWellFoundedOn(StrictSubsetOrdering(S), FiniteSubsetsOf(S))
    BY FS_StrictSubsetOrderingWellFounded
  <2>2. FiniteSubsetsOf(S) = SUBSET S
    BY FS_FiniteSubsetsOfFinite
  <2>3. Belows \subseteq SUBSET S /\ Belows # {}
    OBVIOUS
  <2>4. IsWellFoundedOn(StrictSubsetOrdering(S), SUBSET S)
    BY <2>1, <2>2
  <2> HIDE DEF Belows
  <2> QED
    BY ONLY <2>3, <2>4, WFMin
<1>2. PICK x \in S : A = Below(x)
  BY <1>1
<1>3. ASSUME NEW y \in S PROVE x <= y
  <2>1. SUFFICES ASSUME y < x PROVE FALSE
    OBVIOUS
  <2>2. Below(y) \subseteq Below(x) /\ y \in Below(x) /\ y \notin Below(y)
    <3>1. \A z \in S : z < y => z < x
      BY <2>1
    <3>2. y < x /\ ~(y < y)
      BY <2>1
    <3> QED
      BY <3>1, <3>2
  <2>3. Below(y) \in Belows /\ <<Below(y), A>> \in StrictSubsetOrdering(S)
    BY <1>2, <2>2 DEF StrictSubsetOrdering
  <2> HIDE DEF Below, Belows
  <2> QED
    BY <1>1, <2>3
<1> QED
  BY <1>3

LEMMA GreatestOf ==
    ASSUME NEW S \in SUBSET Nat, S # {}, NEW m \in Nat, \A x \in S : x <= m
    PROVE  \E x \in S : \A y \in S : y <= x
<1> DEFINE T == {m - x : x \in S}
<1>1. T \subseteq 0 .. m /\ T # {}
  <2>1. \A x \in S : m - x \in 0 .. m
    OBVIOUS
  <2> QED
    BY <2>1
<1>2. T \subseteq Int /\ IsFiniteSet(T)
  <2>1. IsFiniteSet(0 .. m) /\ 0 .. m \subseteq Int
    BY FS_Interval
  <2> HIDE DEF T
  <2> QED
    BY <1>1, <2>1, FS_Subset
<1>3. PICK t \in T : \A u \in T : t <= u
  <2> HIDE DEF T
  <2> QED
    BY <1>1, <1>2, LeastOf
<1>4. PICK x \in S : t = m - x
  OBVIOUS
<1>5. ASSUME NEW y \in S PROVE y <= x
  <2>1. m - y \in T /\ x \in Nat /\ y \in Nat
    OBVIOUS
  <2>2. m - x <= m - y
    BY <1>3, <1>4, <2>1
  <2> QED
    BY <2>1, <2>2
<1> QED
  BY <1>5

\* First finds the lowest of some places.
LEMMA FirstPlace ==
    ASSUME NEW P \in SUBSET Table, P # {}
    PROVE  First(P) \in P /\ \A j \in P : First(P) <= j
<1>1. P \subseteq Int /\ IsFiniteSet(P)
  <2>1. IsFiniteSet(Table) /\ Table \subseteq Int
    BY Sizes, FS_Interval DEF Table
  <2> QED
    BY <2>1, FS_Subset
<1> QED
  BY <1>1, LeastOf DEF First

\* Some entry was written longest ago.
LEMMA OldestPlace ==
    ASSUME TypeOK
    PROVE  Oldest # {} /\ Oldest \subseteq Table
<1> DEFINE S == {entries[i].seq : i \in Table}
<1>1. \A i \in Table : entries[i].seq \in 0 .. MaxPut
  BY EntryFacts DEF TypeOK, Maybe
<1>2. S \subseteq 0 .. MaxPut /\ S # {}
  BY <1>1, Sizes DEF Table
<1>3. S \subseteq Int /\ IsFiniteSet(S)
  <2>1. IsFiniteSet(0 .. MaxPut) /\ 0 .. MaxPut \subseteq Int
    BY Sizes, FS_Interval
  <2> HIDE DEF S
  <2> QED
    BY <1>2, <2>1, FS_Subset
<1>4. PICK s \in S : \A t \in S : s <= t
  <2> HIDE DEF S
  <2> QED
    BY <1>2, <1>3, LeastOf
<1>5. PICK i \in Table : s = entries[i].seq
  OBVIOUS
<1>6. i \in Oldest
  BY <1>4, <1>5 DEF Oldest
<1> QED
  BY <1>6 DEF Oldest

\* Where a put goes: the entry of that id, else a free place, else the entry
\* written longest ago.
LEMMA SlotFound ==
    ASSUME TypeOK, NEW c \in Ids
    PROVE  /\ SlotFor(c) \in Table
           /\ \/ entries[SlotFor(c)].id = c
              \/ /\ \A i \in Table : entries[i].id # c
                 /\ \/ entries[SlotFor(c)] = Empty
                    \/ /\ \A i \in Table : Used(i)
                       /\ \A j \in Table : entries[SlotFor(c)].seq <= entries[j].seq
<1> DEFINE known == {i \in Table : entries[i].id = c}
           free  == {i \in Table : entries[i] = Empty}
<1>1. known \in SUBSET Table /\ free \in SUBSET Table /\ Oldest \in SUBSET Table /\ Oldest # {}
  BY OldestPlace
<1>2. CASE known # {}
  BY <1>1, <1>2, FirstPlace DEF SlotFor
<1>3. CASE known = {} /\ free # {}
  BY <1>1, <1>3, FirstPlace DEF SlotFor
<1>4. CASE known = {} /\ free = {}
  BY <1>1, <1>4, FirstPlace DEF SlotFor, Oldest, Used
<1> QED
  BY <1>2, <1>3, <1>4
-----------------------------------------------------------------------------
\* Every entry there is, wherever it is kept.
Copies == {entries[i] : i \in Table} \cup {flush[f].item : f \in Flushers} \cup {nvs[k] : k \in Keys}

\* A blob lies under the key of its id, ...
Keyed == \A k \in Keys : nvs[k] # Empty => Key[nvs[k].id] = k

\* ... the table has one entry per id, ...
OnePlace == \A i, j \in Table : Used(i) /\ entries[i].id = entries[j].id => i = j

\* ... write numbers do not run ahead of the puts, ...
Numbered ==
    /\ seq <= puts /\ notified <= puts
    /\ \A i \in Table : entries[i].seq <= seq

\* ... and each put made one entry, of which there may be copies.
Written ==
    /\ \A e \in Copies : e.val <= puts /\ e.seq <= puts
    /\ \A e, d \in Copies : e.val = d.val => e = d

\* What store_flush holds between its critical sections.
Flushing ==
    \A f \in Flushers :
        /\ flush[f].item # Empty <=> flush[f].pc = "write"
        /\ flush[f].pc = "write" => flush[f].at <= Capacity
        /\ flush[f].pc \in {"erase", "erasing"} => flush[f].at = 1
        /\ flush[f].key # NoKey <=> flush[f].pc = "erasing"

\* A flush that will come by place i.
ToCome(f, i) ==
    \/ flush[f].pc \in {"erase", "erasing"}
    \/ flush[f].pc = "scan" /\ flush[f].at <= i
    \/ flush[f].pc = "write" /\ flush[f].at < i

\* A flag stands at an entry, and somebody will look at it.
Noticed ==
    \A i \in Table : dirty[i] => Used(i) /\ (notified > 0 \/ \E f \in Flushers : ToCome(f, i))

BaseInv == TypeOK /\ Keyed /\ OnePlace /\ Numbered /\ Written /\ Flushing /\ Noticed

-----------------------------------------------------------------------------
\* The types, place by place.
LEMMA RowTypes ==
    ASSUME TypeOK
    PROVE  /\ \A i \in Table : entries[i] \in Maybe /\ dirty[i] \in BOOLEAN
           /\ \A f \in Flushers : /\ flush[f].item \in Maybe /\ flush[f].at \in 1 .. Capacity + 1
                                  /\ flush[f].key \in Keys \cup {NoKey}
                                  /\ flush[f].pc \in {"idle", "erase", "erasing", "scan", "write"}
           /\ \A k \in Keys : nvs[k] \in Maybe
           /\ Copies \subseteq Maybe
           /\ puts \in Nat /\ seq \in Nat /\ notified \in Nat /\ crashes \in Nat
<1>1. \A i \in Table : entries[i] \in Maybe /\ dirty[i] \in BOOLEAN
  BY DEF TypeOK, Maybe
<1>2. \A f \in Flushers : /\ flush[f].item \in Maybe /\ flush[f].at \in 1 .. Capacity + 1
                          /\ flush[f].key \in Keys \cup {NoKey}
                          /\ flush[f].pc \in {"idle", "erase", "erasing", "scan", "write"}
  BY DEF TypeOK, Maybe
<1>3. \A k \in Keys : nvs[k] \in Maybe
  BY DEF TypeOK, Maybe
<1>4. Copies \subseteq Maybe
  BY <1>1, <1>2, <1>3 DEF Copies
<1>5. puts \in Nat /\ seq \in Nat /\ notified \in Nat /\ crashes \in Nat
  <2>1. 0 .. MaxPut \subseteq Nat /\ 0 .. MaxCrash \subseteq Nat
    BY Sizes
  <2>2. puts \in 0 .. MaxPut /\ seq \in 0 .. MaxPut /\ notified \in 0 .. MaxPut /\ crashes \in 0 .. MaxCrash
    BY DEF TypeOK, Vals
  <2> QED
    BY <2>1, <2>2
<1> QED
  BY <1>1, <1>2, <1>3, <1>4, <1>5

\* No new entry: what holds of all copies goes on to hold.
LEMMA WrittenKept ==
    ASSUME TypeOK, Written, Copies' \subseteq Copies \cup {Empty}, puts' = puts
    PROVE  Written'
<1>1. \A e \in Copies : e \in Maybe /\ (e.val = 0 <=> e = Empty)
  BY RowTypes, EntryFacts, Sizes DEF Empty
<1>2. Empty.val = 0 /\ Empty.seq = 0 /\ puts \in Nat
  BY RowTypes DEF Empty
<1>3. \A e \in Copies' : e \in Copies \/ e = Empty
  OBVIOUS
<1>4. \A e \in Copies' : e.val <= puts /\ e.seq <= puts
  BY <1>2, <1>3 DEF Written
<1>5. ASSUME NEW e \in Copies', NEW d \in Copies', e.val = d.val PROVE e = d
  BY <1>1, <1>2, <1>3, <1>5 DEF Written
<1> QED
  BY <1>4, <1>5 DEF Written

LEMMA BaseInit == Init => BaseInv
<1> SUFFICES ASSUME Init PROVE BaseInv
  OBVIOUS
<1>1. TypeOK
  BY Sizes DEF Init, TypeOK, Vals, Resting, Table
<1>2. Keyed /\ OnePlace /\ Noticed /\ Numbered
  BY DEF Init, Keyed, OnePlace, Noticed, Numbered, Used, Empty
<1>3. Flushing
  BY DEF Init, Flushing, Resting
<1>4. Copies \subseteq {Empty}
  BY DEF Init, Copies, Resting
<1>5. Written
  BY <1>4 DEF Init, Written, Empty
<1> QED
  BY <1>1, <1>2, <1>3, <1>5 DEF BaseInv

\* What a put does, place by place.
LEMMA PutRow ==
    ASSUME BaseInv, NEW c \in Ids, Put(c)
    PROVE  LET i == SlotFor(c)
               e == [id |-> c, val |-> puts + 1, seq |-> seq + 1]
           IN  /\ i \in Table /\ e \in Entry /\ e # Empty
               /\ puts < MaxPut
               /\ \A j \in Table : entries'[j] = IF j = i THEN e ELSE entries[j]
               /\ \A j \in Table : dirty'[j] = IF j = i THEN TRUE ELSE dirty[j]
               /\ \A j \in Table : entries[j].id = c => j = i
               /\ Copies' \subseteq Copies \cup {e}
               /\ entries[i].id # c =>
                    \/ ~Used(i)
                    \/ (\A j \in Table : Used(j)) /\ \A j \in Table : entries[i].seq <= entries[j].seq
<1> DEFINE i == SlotFor(c)
           e == [id |-> c, val |-> puts + 1, seq |-> seq + 1]
<1>0. TypeOK /\ OnePlace /\ Numbered
  BY DEF BaseInv
<1>1. i \in Table
  BY <1>0, SlotFound
<1>2. puts < MaxPut /\ seq <= puts /\ puts \in Nat /\ seq \in Nat
  BY <1>0, RowTypes DEF Put, Numbered
<1>3. e \in Entry /\ e # Empty
  BY <1>2, Sizes DEF Entry, Empty
<1>4. entries' = [entries EXCEPT ![i] = e] /\ dirty' = [dirty EXCEPT ![i] = TRUE]
  BY DEF Put
<1> HIDE DEF i, e
<1>5. /\ \A j \in Table : entries'[j] = IF j = i THEN e ELSE entries[j]
      /\ \A j \in Table : dirty'[j] = IF j = i THEN TRUE ELSE dirty[j]
  BY <1>0, <1>1, <1>4 DEF TypeOK
<1>6. \A j \in Table : entries[j].id = c => j = i
  <2>1. \A j \in Table : entries[j].id = c => Used(j)
    BY <1>0, RowTypes, EntryFacts DEF Used
  <2>2. entries[i].id = c \/ \A j \in Table : entries[j].id # c
    BY <1>0, SlotFound DEF i
  <2> QED
    BY <1>1, <1>0, <2>1, <2>2 DEF OnePlace
<1>7. Copies' \subseteq Copies \cup {e}
  <2>1. flush' = flush /\ nvs' = nvs
    BY DEF Put
  <2> QED
    BY <1>5, <2>1 DEF Copies
<1>8. entries[i].id # c =>
        \/ ~Used(i)
        \/ (\A j \in Table : Used(j)) /\ \A j \in Table : entries[i].seq <= entries[j].seq
  BY <1>0, SlotFound DEF i, Used
<1> QED
  BY <1>1, <1>2, <1>3, <1>5, <1>6, <1>7, <1>8 DEF i, e

LEMMA BasePut ==
    ASSUME BaseInv, NEW c \in Ids, Put(c)
    PROVE  BaseInv'
<1> DEFINE i == SlotFor(c)
           e == [id |-> c, val |-> puts + 1, seq |-> seq + 1]
<1>0. /\ TypeOK /\ Keyed /\ OnePlace /\ Numbered /\ Written /\ Flushing /\ Noticed
      /\ puts \in Nat /\ seq \in Nat /\ notified \in Nat
  BY RowTypes DEF BaseInv
<1>1. /\ i \in Table /\ e \in Entry /\ e # Empty
      /\ puts < MaxPut
      /\ \A j \in Table : entries'[j] = IF j = i THEN e ELSE entries[j]
      /\ \A j \in Table : dirty'[j] = IF j = i THEN TRUE ELSE dirty[j]
      /\ \A j \in Table : entries[j].id = c => j = i
      /\ Copies' \subseteq Copies \cup {e}
  BY PutRow
<1>2. /\ puts' = puts + 1 /\ seq' = seq + 1 /\ notified' = notified + 1
      /\ flush' = flush /\ nvs' = nvs /\ reset' = reset /\ crashes' = crashes
  BY DEF Put
<1>e. e.id = c /\ e.val = puts + 1 /\ e.seq = seq + 1
  OBVIOUS
<1>3. entries' \in [Table -> Entry \cup {Empty}] /\ dirty' \in [Table -> BOOLEAN]
  <2>1. entries' = [entries EXCEPT ![i] = e] /\ dirty' = [dirty EXCEPT ![i] = TRUE]
    BY DEF Put
  <2> HIDE DEF i, e
  <2> QED
    BY <1>0, <1>1, <2>1 DEF TypeOK
<1>4. erase' \in Seq(Keys) /\ Len(erase') <= EraseRoom
  <2>1. i \in Table /\ entries[i] \in Maybe /\ (entries[i] # Empty => Key[entries[i].id] \in Keys)
    BY <1>0, <1>1, RowTypes, EntryFacts
  <2>2. \/ erase' = erase
        \/ /\ entries[i] # Empty /\ Len(erase) < EraseRoom
           /\ erase' = Append(erase, Key[entries[i].id])
    BY DEF Put
  <2>3. erase \in Seq(Keys) /\ Len(erase) <= EraseRoom /\ EraseRoom \in Nat
    BY <1>0, Sizes DEF TypeOK
  <2> HIDE DEF i
  <2> QED
    BY <2>1, <2>2, <2>3
<1>5. latest' \in [Ids -> Vals]
  <2>1. latest' = [latest EXCEPT ![c] = puts + 1]
    BY DEF Put
  <2>2. puts + 1 \in Vals
    BY <1>0, <1>1, Sizes DEF Vals
  <2>3. latest \in [Ids -> Vals]
    BY <1>0 DEF TypeOK
  <2> QED
    BY <2>1, <2>2, <2>3
<1>6. /\ seq' \in 0 .. MaxPut /\ puts' \in Vals /\ notified' \in Vals
      /\ Numbered'
  <2>1. puts + 1 <= MaxPut /\ seq <= puts /\ notified <= puts /\ MaxPut \in Nat
    BY <1>0, <1>1, Sizes DEF Numbered
  <2>2. ASSUME NEW j \in Table PROVE entries'[j].seq <= seq + 1
    <3>1. entries[j].seq \in Nat /\ entries[j].seq <= seq
      BY <1>0, RowTypes, EntryFacts, Sizes DEF Numbered
    <3> HIDE DEF i, e
    <3> QED
      BY <1>0, <1>1, <1>e, <3>1
  <2> QED
    BY <1>0, <1>2, <2>1, <2>2 DEF Vals, Numbered
<1>7. TypeOK'
  BY <1>0, <1>2, <1>3, <1>4, <1>5, <1>6 DEF TypeOK
<1> HIDE DEF i, e
<1>8. Keyed' /\ Flushing'
  BY <1>0, <1>2 DEF Keyed, Flushing
<1>9. OnePlace'
  <2>1. \A j \in Table : Used(j)' <=> (j = i \/ Used(j))
    BY <1>1 DEF Used
  <2>2. ASSUME NEW j \in Table, NEW k \in Table, Used(j)', entries'[j].id = entries'[k].id
        PROVE  j = k
    BY <1>0, <1>1, <1>e, <2>1, <2>2 DEF OnePlace
  <2> QED
    BY <2>2 DEF OnePlace, Used
<1>10. Written'
  <2>1. \A d \in Copies : d.val <= puts /\ d.seq <= puts /\ d.val \in Nat /\ d.seq \in Nat
    BY <1>0, RowTypes, EntryFacts, Sizes DEF Written
  <2>2. \A d \in Copies' : d \in Copies \/ d = e
    BY <1>1
  <2>3. seq <= puts
    BY <1>0 DEF Numbered
  <2>4. \A d \in Copies' : d.val <= puts + 1 /\ d.seq <= puts + 1
    BY <1>0, <1>e, <2>1, <2>2, <2>3
  <2>5. \A d \in Copies : d.val # e.val
    BY <1>0, <1>e, <2>1
  <2>6. \A b, d \in Copies' : b.val = d.val => b = d
    BY <1>0, <2>2, <2>5 DEF Written
  <2> QED
    BY <1>2, <2>4, <2>6 DEF Written
<1>11. Noticed'
  <2>1. notified' > 0
    BY <1>0, <1>2
  <2>2. \A j \in Table : dirty'[j] => entries'[j] # Empty
    BY <1>0, <1>1 DEF Noticed, Used
  <2> QED
    BY <2>1, <2>2 DEF Noticed, Used
<1> QED
  BY <1>6, <1>7, <1>8, <1>9, <1>10, <1>11 DEF BaseInv

-----------------------------------------------------------------------------
FlushRec == [pc : {"idle", "erase", "erasing", "scan", "write"}, at : 1 .. Capacity + 1,
             key : Keys \cup {NoKey}, item : Maybe]

LEMMA FlushRow ==
    ASSUME TypeOK, NEW f \in Flushers, NEW r \in FlushRec, flush' = [flush EXCEPT ![f] = r]
    PROVE  /\ flush' \in [Flushers -> FlushRec]
           /\ \A g \in Flushers : flush'[g] = IF g = f THEN r ELSE flush[g]
  BY DEF TypeOK, FlushRec, Maybe

\* What a step of store_flush may leave in its hands, ...
HandsInOrder(r) ==
    /\ r.item # Empty <=> r.pc = "write"
    /\ r.pc = "write" => r.at <= Capacity
    /\ r.pc \in {"erase", "erasing"} => r.at = 1
    /\ r.key # NoKey <=> r.pc = "erasing"
    /\ r.item \in Copies \cup {Empty}

\* ... in the flash, ...
FlashInOrder ==
    /\ nvs' \in [Keys -> Maybe]
    /\ \A k \in Keys : \/ nvs'[k] \in {nvs[k], Empty}
                       \/ nvs'[k] \in Copies /\ Key[nvs'[k].id] = k

\* ... and in the table.
FlagsInOrder ==
    /\ UNCHANGED <<entries, seq, reset, puts, latest, crashes>>
    /\ erase' \in Seq(Keys) /\ Len(erase') <= EraseRoom
    /\ dirty' \in [Table -> BOOLEAN] /\ \A i \in Table : dirty'[i] => dirty[i]
    /\ notified' \in Nat /\ notified' <= notified
    /\ \A i \in Table : dirty'[i] => notified' > 0 \/ \E g \in Flushers : ToCome(g, i)'

LEMMA BaseFlush ==
    ASSUME BaseInv, NEW f \in Flushers, NEW r \in FlushRec, flush' = [flush EXCEPT ![f] = r],
           HandsInOrder(r), FlashInOrder, FlagsInOrder
    PROVE  BaseInv'
<1>0. /\ TypeOK /\ Keyed /\ OnePlace /\ Numbered /\ Written /\ Flushing /\ Noticed
      /\ puts \in Nat /\ seq \in Nat /\ notified \in Nat
  BY RowTypes DEF BaseInv
<1>1. /\ flush' \in [Flushers -> FlushRec]
      /\ \A g \in Flushers : flush'[g] = IF g = f THEN r ELSE flush[g]
  BY <1>0, FlushRow
<1>2. notified' \in Vals
  <2>1. notified \in Vals
    BY <1>0 DEF TypeOK
  <2>2. notified' \in Nat /\ notified' <= notified
    BY DEF FlagsInOrder
  <2> QED
    BY <2>1, <2>2, Sizes DEF Vals
<1>3. TypeOK'
  BY <1>0, <1>1, <1>2 DEF TypeOK, FlushRec, Maybe, FlashInOrder, FlagsInOrder
<1>4. Keyed'
  BY <1>0 DEF Keyed, FlashInOrder
<1>5. OnePlace' /\ Numbered'
  BY <1>0 DEF OnePlace, Numbered, Used, FlagsInOrder
<1>6. Flushing'
  BY <1>0, <1>1 DEF Flushing, HandsInOrder
<1>7. Noticed'
  BY <1>0 DEF Noticed, Used, FlagsInOrder
<1>8. Copies' \subseteq Copies \cup {Empty}
  <2>1. \A g \in Flushers : flush'[g].item \in Copies \cup {Empty}
    BY <1>1 DEF Copies, HandsInOrder
  <2>2. \A k \in Keys : nvs'[k] \in Copies \cup {Empty}
    BY DEF Copies, FlashInOrder
  <2>3. \A i \in Table : entries'[i] \in Copies
    BY DEF Copies, FlagsInOrder
  <2>4. ASSUME NEW e \in Copies' PROVE e \in Copies \cup {Empty}
    <3>1. \/ \E i \in Table : e = entries'[i]
          \/ \E g \in Flushers : e = flush'[g].item
          \/ \E k \in Keys : e = nvs'[k]
      BY <2>4 DEF Copies
    <3> QED
      BY <2>1, <2>2, <2>3, <3>1
  <2> QED
    BY <2>4
<1>9. Written'
  BY <1>0, <1>8, WrittenKept DEF FlagsInOrder
<1> QED
  BY <1>3, <1>4, <1>5, <1>6, <1>7, <1>9 DEF BaseInv

\* What the flash and the list are when a step leaves them alone.
LEMMA Alone ==
    ASSUME TypeOK
    PROVE  /\ nvs \in [Keys -> Maybe] /\ erase \in Seq(Keys) /\ Len(erase) <= EraseRoom
           /\ dirty \in [Table -> BOOLEAN]
           /\ \A f \in Flushers : /\ flush[f] \in FlushRec
                                  /\ flush[f] = [pc |-> flush[f].pc, at |-> flush[f].at,
                                                 key |-> flush[f].key, item |-> flush[f].item]
  BY DEF TypeOK, FlushRec, Maybe

LEMMA BaseStartFlush ==
    ASSUME BaseInv, NEW f \in Flushers, StartFlush(f)
    PROVE  BaseInv'
<1> DEFINE r == [pc |-> "erase", at |-> 1, key |-> NoKey, item |-> Empty]
<1>0. TypeOK /\ Noticed /\ notified \in Nat
  BY RowTypes DEF BaseInv
<1>1. flush' = [flush EXCEPT ![f] = r]
  <2>1. [Resting EXCEPT !.pc = "erase"] = r
    BY DEF Resting
  <2> QED
    BY <2>1 DEF StartFlush
<1>2. r \in FlushRec
  BY Sizes DEF FlushRec, Maybe
<1>3. /\ r.item = Empty /\ r.pc = "erase" /\ r.key = NoKey /\ r.at = 1
  OBVIOUS
<1> HIDE DEF r
<1>4. \A i \in Table : ToCome(f, i)'
  BY <1>0, <1>1, <1>2, <1>3, FlushRow DEF ToCome
<1>5. notified' \in Nat /\ notified' <= notified
  BY <1>0 DEF StartFlush
<1>6. UNCHANGED <<entries, dirty, erase, seq, nvs, reset, puts, latest, crashes>>
  BY DEF StartFlush
<1>7. HandsInOrder(r) /\ FlashInOrder
  BY <1>0, <1>3, <1>6, Alone DEF HandsInOrder, FlashInOrder
<1>8. FlagsInOrder
  BY <1>0, <1>4, <1>5, <1>6, Alone DEF FlagsInOrder
<1> QED
  BY <1>1, <1>2, <1>7, <1>8, BaseFlush

LEMMA BaseTakeKey ==
    ASSUME BaseInv, NEW f \in Flushers, TakeKey(f)
    PROVE  BaseInv'
<1>0. TypeOK /\ Noticed /\ Flushing /\ notified \in Nat
  BY RowTypes DEF BaseInv
<1>1. /\ flush[f].pc = "erase"
      /\ UNCHANGED <<entries, dirty, seq, notified, nvs, reset, puts, latest, crashes>>
  BY DEF TakeKey
<1>2. flush[f].item = Empty /\ flush[f].key = NoKey /\ flush[f].at = 1
  BY <1>0, <1>1 DEF Flushing
<1>a. /\ nvs \in [Keys -> Maybe] /\ erase \in Seq(Keys) /\ Len(erase) <= EraseRoom
      /\ dirty \in [Table -> BOOLEAN] /\ flush[f] \in FlushRec
  BY <1>0, Alone
<1>3. CASE erase = <<>>
  <2> DEFINE r == [flush[f] EXCEPT !.pc = "scan"]
  <2>1. flush' = [flush EXCEPT ![f] = r] /\ erase' = erase
    BY <1>3 DEF TakeKey
  <2>2. r \in FlushRec /\ r.item = Empty /\ r.pc = "scan" /\ r.key = NoKey /\ r.at = 1
    BY <1>2, <1>a DEF FlushRec
  <2> HIDE DEF r
  <2>3. \A i \in Table : ToCome(f, i)'
    <3>1. flush'[f] = r
      BY <1>0, <2>1, <2>2, FlushRow
    <3>2. \A i \in Table : 1 <= i
      BY DEF Table
    <3> QED
      BY <2>2, <3>1, <3>2 DEF ToCome
  <2>4. HandsInOrder(r) /\ FlashInOrder
    BY <1>1, <1>a, <2>2 DEF HandsInOrder, FlashInOrder
  <2>5. FlagsInOrder
    BY <1>0, <1>1, <1>a, <2>1, <2>3 DEF FlagsInOrder
  <2> QED
    BY <2>1, <2>2, <2>4, <2>5, BaseFlush
<1>4. CASE erase # <<>>
  <2> DEFINE k == erase[Len(erase)]
             r == [flush[f] EXCEPT !.pc = "erasing", !.key = k]
  <2>1. /\ flush' = [flush EXCEPT ![f] = r]
        /\ erase' = SubSeq(erase, 1, Len(erase) - 1)
    BY <1>4 DEF TakeKey
  <2>2. /\ k \in Keys
        /\ erase' \in Seq(Keys) /\ Len(erase') <= EraseRoom
    <3>1. Len(erase) \in Nat /\ Len(erase) > 0
      BY <1>4, <1>a
    <3>2. EraseRoom \in Nat
      BY Sizes
    <3> QED
      BY <1>a, <2>1, <3>1, <3>2
  <2>3. r \in FlushRec /\ r.item = Empty /\ r.pc = "erasing" /\ r.key = k /\ r.at = 1
    BY <1>2, <1>a, <2>2 DEF FlushRec
  <2>4. k # NoKey
    BY <2>2, Sizes
  <2> HIDE DEF r, k
  <2>5. \A i \in Table : ToCome(f, i)'
    BY <1>0, <2>1, <2>3, FlushRow DEF ToCome
  <2>6. HandsInOrder(r) /\ FlashInOrder
    BY <1>1, <1>a, <2>3, <2>4 DEF HandsInOrder, FlashInOrder
  <2>7. FlagsInOrder
    BY <1>0, <1>1, <1>a, <2>2, <2>5 DEF FlagsInOrder
  <2> QED
    BY <2>1, <2>3, <2>6, <2>7, BaseFlush
<1> QED
  BY <1>3, <1>4

LEMMA BaseEraseKey ==
    ASSUME BaseInv, NEW f \in Flushers, EraseKey(f)
    PROVE  BaseInv'
<1> DEFINE r == [flush[f] EXCEPT !.pc = "erase", !.key = NoKey]
<1>0. TypeOK /\ Noticed /\ Flushing /\ notified \in Nat
  BY RowTypes DEF BaseInv
<1>1. /\ flush[f].pc = "erasing"
      /\ nvs' = [nvs EXCEPT ![flush[f].key] = Empty]
      /\ UNCHANGED <<entries, dirty, erase, seq, notified, reset, puts, latest, crashes>>
  BY DEF EraseKey
<1>2. flush[f].item = Empty /\ flush[f].at = 1
  BY <1>0, <1>1 DEF Flushing
<1>a. /\ nvs \in [Keys -> Maybe] /\ erase \in Seq(Keys) /\ Len(erase) <= EraseRoom
      /\ dirty \in [Table -> BOOLEAN] /\ flush[f] \in FlushRec
  BY <1>0, Alone
<1>3. flush' = [flush EXCEPT ![f] = r]
  BY DEF EraseKey
<1>4. r \in FlushRec /\ r.item = Empty /\ r.pc = "erase" /\ r.key = NoKey /\ r.at = 1
  BY <1>2, <1>a DEF FlushRec
<1>5. nvs' \in [Keys -> Maybe] /\ \A k \in Keys : nvs'[k] \in {nvs[k], Empty}
  BY <1>1, <1>a DEF Maybe
<1> HIDE DEF r
<1>6. \A i \in Table : ToCome(f, i)'
  BY <1>0, <1>3, <1>4, FlushRow DEF ToCome
<1>7. HandsInOrder(r) /\ FlashInOrder
  BY <1>4, <1>5 DEF HandsInOrder, FlashInOrder
<1>8. FlagsInOrder
  BY <1>0, <1>1, <1>a, <1>6 DEF FlagsInOrder
<1> QED
  BY <1>3, <1>4, <1>7, <1>8, BaseFlush

LEMMA BaseTakeEntry ==
    ASSUME BaseInv, NEW f \in Flushers, TakeEntry(f)
    PROVE  BaseInv'
<1> DEFINE i == flush[f].at
<1>0. TypeOK /\ Noticed /\ Flushing /\ notified \in Nat
  BY RowTypes DEF BaseInv
<1>1. /\ flush[f].pc = "scan"
      /\ UNCHANGED <<entries, erase, seq, notified, nvs, reset, puts, latest, crashes>>
  BY DEF TakeEntry
<1>2. flush[f].item = Empty /\ flush[f].key = NoKey
  BY <1>0, <1>1 DEF Flushing
<1>a. /\ nvs \in [Keys -> Maybe] /\ erase \in Seq(Keys) /\ Len(erase) <= EraseRoom
      /\ dirty \in [Table -> BOOLEAN] /\ flush[f] \in FlushRec /\ i \in 1 .. Capacity + 1
      /\ Capacity \in Nat
  BY <1>0, Alone, RowTypes, Sizes
<1>3. CASE i > Capacity
  <2>1. flush' = [flush EXCEPT ![f] = Resting] /\ dirty' = dirty
    BY <1>3 DEF TakeEntry
  <2>2. Resting \in FlushRec /\ Resting.item = Empty /\ Resting.pc = "idle" /\ Resting.key = NoKey
    BY Sizes DEF FlushRec, Maybe, Resting
  <2>3. \A g \in Flushers : flush'[g] = IF g = f THEN Resting ELSE flush[g]
    BY <1>0, <2>1, <2>2, FlushRow
  <2>4. \A j \in Table : ~ToCome(f, j)
    BY <1>1, <1>3, <1>a DEF ToCome, Table
  <2>5. \A j \in Table, g \in Flushers : ToCome(g, j) => ToCome(g, j)'
    BY <2>3, <2>4 DEF ToCome
  <2>6. \A j \in Table : dirty'[j] => notified' > 0 \/ \E g \in Flushers : ToCome(g, j)'
    BY <1>0, <1>1, <2>1, <2>5 DEF Noticed
  <2>7. HandsInOrder(Resting) /\ FlashInOrder
    BY <1>1, <1>a, <2>2 DEF HandsInOrder, FlashInOrder
  <2>8. FlagsInOrder
    BY <1>0, <1>1, <1>a, <2>1, <2>6 DEF FlagsInOrder
  <2> QED
    BY <2>1, <2>2, <2>7, <2>8, BaseFlush
<1>4. CASE i <= Capacity
  <2>0. i \in Table
    BY <1>4, <1>a DEF Table
  <2>1. dirty' = [dirty EXCEPT ![i] = FALSE]
    BY <1>4, <1>a DEF TakeEntry
  <2>2. dirty' \in [Table -> BOOLEAN] /\ ~dirty'[i] /\ \A j \in Table : j # i => dirty'[j] = dirty[j]
    BY <1>a, <2>0, <2>1
  <2>3. CASE dirty[i] /\ entries[i] # Empty
    <3> DEFINE r == [flush[f] EXCEPT !.pc = "write", !.item = entries[i]]
    <3>1. flush' = [flush EXCEPT ![f] = r]
      <4>1. flush' = [flush EXCEPT ![f].pc = "write", ![f].item = entries[i]]
        BY <1>4, <1>a, <2>3 DEF TakeEntry
      <4> QED
        BY <4>1
    <3>2. entries[i] \in Maybe /\ entries[i] \in Copies
      BY <1>0, <2>0, RowTypes DEF Copies
    <3>3. r \in FlushRec /\ r.item = entries[i] /\ r.pc = "write" /\ r.key = NoKey /\ r.at = i
      BY <1>2, <1>a, <3>2 DEF FlushRec
    <3> HIDE DEF r, i
    <3>4. \A g \in Flushers : flush'[g] = IF g = f THEN r ELSE flush[g]
      BY <1>0, <3>1, <3>3, FlushRow
    <3>5. \A j \in Table : j # i => (ToCome(f, j) => ToCome(f, j)')
      <4>1. \A j \in Table : j # i /\ ToCome(f, j) => i < j
        BY <1>1, <1>a DEF ToCome, i, Table
      <4> QED
        BY <3>3, <3>4, <4>1 DEF ToCome
    <3>6. \A j \in Table, g \in Flushers : j # i => (ToCome(g, j) => ToCome(g, j)')
      BY <3>4, <3>5 DEF ToCome
    <3>7. \A j \in Table : dirty'[j] => notified' > 0 \/ \E g \in Flushers : ToCome(g, j)'
      BY <1>0, <1>1, <2>2, <3>6 DEF Noticed
    <3>8. \A j \in Table : dirty'[j] => dirty[j]
      BY <2>2
    <3>9. HandsInOrder(r) /\ FlashInOrder
      BY <1>1, <1>4, <1>a, <2>3, <3>2, <3>3 DEF HandsInOrder, FlashInOrder
    <3>10. FlagsInOrder
      BY <1>0, <1>1, <1>a, <2>2, <3>7, <3>8 DEF FlagsInOrder
    <3> QED
      BY <3>1, <3>3, <3>9, <3>10, BaseFlush
  <2>4. CASE ~(dirty[i] /\ entries[i] # Empty)
    <3> DEFINE r == [flush[f] EXCEPT !.at = i + 1]
    <3>1. flush' = [flush EXCEPT ![f] = r]
      BY <1>4, <1>a, <2>4 DEF TakeEntry
    <3>3. r \in FlushRec /\ r.item = Empty /\ r.pc = "scan" /\ r.key = NoKey /\ r.at = i + 1
      BY <1>1, <1>2, <1>4, <1>a DEF FlushRec
    <3> HIDE DEF r, i
    <3>4. \A g \in Flushers : flush'[g] = IF g = f THEN r ELSE flush[g]
      BY <1>0, <3>1, <3>3, FlushRow
    <3>5. \A j \in Table : j # i => (ToCome(f, j) => ToCome(f, j)')
      <4>1. \A j \in Table : j # i /\ ToCome(f, j) => i + 1 <= j
        BY <1>1, <1>a DEF ToCome, i, Table
      <4> QED
        BY <3>3, <3>4, <4>1 DEF ToCome
    <3>6. \A j \in Table, g \in Flushers : j # i => (ToCome(g, j) => ToCome(g, j)')
      BY <3>4, <3>5 DEF ToCome
    <3>7. \A j \in Table : dirty'[j] => notified' > 0 \/ \E g \in Flushers : ToCome(g, j)'
      BY <1>0, <1>1, <2>2, <3>6 DEF Noticed
    <3>8. \A j \in Table : dirty'[j] => dirty[j]
      BY <2>2
    <3>9. HandsInOrder(r) /\ FlashInOrder
      BY <1>1, <1>a, <3>3 DEF HandsInOrder, FlashInOrder
    <3>10. FlagsInOrder
      BY <1>0, <1>1, <1>a, <2>2, <3>7, <3>8 DEF FlagsInOrder
    <3> QED
      BY <3>1, <3>3, <3>9, <3>10, BaseFlush
  <2> QED
    BY <2>3, <2>4
<1> QED
  BY <1>3, <1>4, <1>a

LEMMA BaseWriteEntry ==
    ASSUME BaseInv, NEW f \in Flushers, WriteEntry(f)
    PROVE  BaseInv'
<1> DEFINE i == flush[f].at
           e == flush[f].item
           r == [flush[f] EXCEPT !.pc = "scan", !.at = i + 1, !.item = Empty]
<1>0. TypeOK /\ Noticed /\ Flushing /\ notified \in Nat
  BY RowTypes DEF BaseInv
<1>1. /\ flush[f].pc = "write"
      /\ nvs' = [nvs EXCEPT ![Key[e.id]] = e]
      /\ UNCHANGED <<entries, dirty, erase, seq, notified, reset, puts, latest, crashes>>
  BY DEF WriteEntry
<1>2. e # Empty /\ flush[f].key = NoKey /\ i <= Capacity
  BY <1>0, <1>1 DEF Flushing
<1>a. /\ nvs \in [Keys -> Maybe] /\ erase \in Seq(Keys) /\ Len(erase) <= EraseRoom
      /\ dirty \in [Table -> BOOLEAN] /\ flush[f] \in FlushRec /\ i \in 1 .. Capacity + 1
      /\ Capacity \in Nat /\ e \in Maybe /\ e \in Copies
  BY <1>0, Alone, RowTypes, Sizes DEF Copies
<1>b. Key[e.id] \in Keys
  BY <1>2, <1>a, EntryFacts
<1>3. flush' = [flush EXCEPT ![f] = r]
  BY DEF WriteEntry
<1>4. r \in FlushRec /\ r.item = Empty /\ r.pc = "scan" /\ r.key = NoKey /\ r.at = i + 1
  <2>1. i + 1 \in 1 .. Capacity + 1 /\ Empty \in Maybe
    BY <1>2, <1>a DEF Maybe
  <2> HIDE DEF i
  <2> QED
    BY <1>2, <1>a, <2>1 DEF FlushRec
<1> HIDE DEF r, e, i
<1>5. /\ nvs' \in [Keys -> Maybe]
      /\ \A k \in Keys : (nvs'[k] = nvs[k] \/ (nvs'[k] \in Copies /\ Key[nvs'[k].id] = k))
  <2>1. \A k \in Keys : nvs'[k] = IF k = Key[e.id] THEN e ELSE nvs[k]
    BY <1>1, <1>a, <1>b
  <2>2. nvs' \in [Keys -> Maybe]
    BY <1>1, <1>a, <1>b
  <2> QED
    BY <1>a, <2>1, <2>2
<1>6. \A j \in Table, g \in Flushers : ToCome(g, j) => ToCome(g, j)'
  <2>1. \A g \in Flushers : flush'[g] = IF g = f THEN r ELSE flush[g]
    BY <1>0, <1>3, <1>4, FlushRow
  <2>2. \A j \in Table : ToCome(f, j) => i + 1 <= j
    BY <1>1, <1>a DEF ToCome, i, Table
  <2> QED
    BY <1>4, <2>1, <2>2 DEF ToCome
<1>7. \A j \in Table : dirty'[j] => notified' > 0 \/ \E g \in Flushers : ToCome(g, j)'
  BY <1>0, <1>1, <1>6 DEF Noticed
<1>8. HandsInOrder(r) /\ FlashInOrder
  BY <1>4, <1>5 DEF HandsInOrder, FlashInOrder
<1>9. FlagsInOrder
  BY <1>0, <1>1, <1>a, <1>7 DEF FlagsInOrder
<1> QED
  BY <1>3, <1>4, <1>8, <1>9, BaseFlush

-----------------------------------------------------------------------------
LEMMA BaseEraseNvs ==
    ASSUME BaseInv, EraseNvs
    PROVE  BaseInv'
<1>0. /\ TypeOK /\ Keyed /\ OnePlace /\ Numbered /\ Written /\ Flushing /\ Noticed
  BY DEF BaseInv
<1>1. /\ nvs' = [k \in Keys |-> Empty]
      /\ reset' = [pc |-> "nvs done", after |-> puts]
      /\ UNCHANGED <<entries, dirty, erase, seq, notified, flush, puts, latest, crashes>>
  BY DEF EraseNvs
<1>2. TypeOK'
  BY <1>0, <1>1 DEF TypeOK
<1>3. Keyed' /\ OnePlace' /\ Numbered' /\ Flushing'
  BY <1>0, <1>1 DEF Keyed, OnePlace, Numbered, Flushing, Used
<1>4. Noticed'
  BY <1>0, <1>1 DEF Noticed, Used, ToCome
<1>5. Copies' \subseteq Copies \cup {Empty}
  BY <1>1 DEF Copies
<1>6. Written'
  BY <1>0, <1>1, <1>5, WrittenKept
<1> QED
  BY <1>2, <1>3, <1>4, <1>6 DEF BaseInv

LEMMA BaseEraseTable ==
    ASSUME BaseInv, EraseTable
    PROVE  BaseInv'
<1>0. /\ TypeOK /\ Keyed /\ OnePlace /\ Numbered /\ Written /\ Flushing /\ Noticed
      /\ seq \in Nat
  BY RowTypes DEF BaseInv
<1>1. /\ entries' = [i \in Table |-> Empty] /\ dirty' = [i \in Table |-> FALSE] /\ erase' = <<>>
      /\ reset' = [reset EXCEPT !.pc = "done"] /\ latest' = [c \in Ids |-> 0]
      /\ UNCHANGED <<seq, notified, flush, nvs, puts, crashes>>
  BY DEF EraseTable
<1>2. TypeOK'
  <2>1. 0 \in Vals /\ EraseRoom \in Nat
    BY Sizes DEF Vals
  <2>2. latest' \in [Ids -> Vals] /\ erase' \in Seq(Keys) /\ Len(erase') <= EraseRoom
    BY <1>1, <2>1
  <2> QED
    BY <1>0, <1>1, <2>2 DEF TypeOK
<1>3. Keyed' /\ OnePlace' /\ Flushing' /\ Noticed'
  BY <1>0, <1>1 DEF Keyed, OnePlace, Flushing, Used, Noticed
<1>4. Numbered'
  BY <1>0, <1>1 DEF Numbered, Empty
<1>5. Copies' \subseteq Copies \cup {Empty}
  BY <1>1 DEF Copies
<1>6. Written'
  BY <1>0, <1>1, <1>5, WrittenKept
<1> QED
  BY <1>2, <1>3, <1>4, <1>6 DEF BaseInv

-----------------------------------------------------------------------------
\* What a start finds: blobs of different keys, so of different ids.
LEMMA RestartRow ==
    ASSUME BaseInv, NEW n \in 0 .. Capacity, NEW order \in [1 .. n -> Keys], Restart(order)
    PROVE  /\ \A i \in 1 .. n : order[i] \in Keys /\ nvs[order[i]] # Empty
           /\ \A i, j \in 1 .. n : nvs[order[i]].id = nvs[order[j]].id => i = j
           /\ entries' = [i \in Table |-> IF i <= n THEN nvs[order[i]] ELSE Empty]
           /\ seq' \in 0 .. puts /\ \A i \in 1 .. n : nvs[order[i]].seq <= seq'
           /\ latest' \in [Ids -> Vals]
           /\ \A i \in 1 .. n : latest'[nvs[order[i]].id] = nvs[order[i]].val
           /\ \A c \in Ids : (\A i \in 1 .. n : nvs[order[i]].id # c) => latest'[c] = 0
<1> DEFINE loaded == {nvs[order[i]] : i \in 1 .. Len(order)}
           newest == {e \in loaded : \A d \in loaded : d.seq <= e.seq}
           own(c) == {e \in loaded : e.id = c}
           found  == [i \in 1 .. n |-> nvs[order[i]]]
<1>0. /\ TypeOK /\ Keyed /\ Written /\ n \in Nat /\ Capacity \in Nat /\ puts \in Nat
      /\ puts <= MaxPut /\ MaxPut \in Nat
  <2>1. puts \in Vals
    BY DEF BaseInv, TypeOK
  <2> QED
    BY <2>1, Sizes, RowTypes DEF BaseInv, Vals
<1>1. Len(order) = n
  BY <1>0
<1>a. /\ {order[i] : i \in 1 .. Len(order)} \subseteq Loadable
      /\ Cardinality(loaded) = Len(order)
      /\ entries' = [i \in Table |-> IF i <= Len(order) THEN nvs[order[i]] ELSE Empty]
      /\ seq' = IF newest = {} THEN 0 ELSE (CHOOSE e \in newest : TRUE).seq
      /\ latest' = [c \in Ids |-> IF own(c) = {} THEN 0 ELSE (CHOOSE e \in own(c) : TRUE).val]
  BY Zenon DEF Restart
<1>2. /\ {order[i] : i \in 1 .. n} \subseteq Loadable
      /\ Cardinality(loaded) = n
      /\ loaded = {nvs[order[i]] : i \in 1 .. n}
      /\ entries' = [i \in Table |-> IF i <= n THEN nvs[order[i]] ELSE Empty]
      /\ seq' = IF newest = {} THEN 0 ELSE (CHOOSE e \in newest : TRUE).seq
      /\ latest' = [c \in Ids |-> IF own(c) = {} THEN 0 ELSE (CHOOSE e \in own(c) : TRUE).val]
  <2> HIDE DEF newest, own
  <2> QED
    BY <1>1, <1>a
<1>3. \A i \in 1 .. n : order[i] \in Keys /\ nvs[order[i]] # Empty
  BY <1>2 DEF Loadable
<1>4. /\ \A e \in loaded : /\ e \in Copies /\ e \in Maybe /\ e # Empty /\ e.id \in Ids
                           /\ e.val \in Nat /\ e.seq \in Nat /\ e.val <= puts /\ e.seq <= puts
  <2>1. \A e \in loaded : e \in Copies /\ e # Empty
    BY <1>3 DEF Copies
  <2> HIDE DEF loaded
  <2> QED
    BY <1>0, <2>1, RowTypes, EntryFacts, Sizes DEF Written
<1>5. \A i, j \in 1 .. n : nvs[order[i]].id = nvs[order[j]].id => i = j
  <2>1. IsFiniteSet(1 .. n) /\ Cardinality(1 .. n) = n
    BY <1>0, FS_Interval
  <2>2. found \in Surjection(1 .. n, loaded)
    BY DEF Surjection
  <2>3. found \in Injection(1 .. n, loaded)
    <3> HIDE DEF found, loaded
    <3> QED
      BY <1>2, <2>1, <2>2, FS_Surjection
  <2>4. \A i, j \in 1 .. n : nvs[order[i]] = nvs[order[j]] => i = j
    BY <2>3 DEF Injection, IsInjective
  <2>5. \A i \in 1 .. n : Key[nvs[order[i]].id] = order[i]
    BY <1>0, <1>3 DEF Keyed
  <2> QED
    BY <2>4, <2>5
<1>6. seq' \in 0 .. puts /\ \A i \in 1 .. n : nvs[order[i]].seq <= seq'
  <2>1. CASE loaded = {}
    <3>1. n = 0
      <4>1. n # 0 => 1 \in 1 .. n
        BY <1>0
      <4>2. \A i \in 1 .. n : nvs[order[i]] \in loaded
        BY <1>2, Zenon
      <4> QED
        BY <2>1, <4>1, <4>2
    <3>2. seq' = 0
      BY <1>2, <2>1
    <3> QED
      BY <1>0, <3>1, <3>2
  <2>2. CASE loaded # {}
    <3> DEFINE numbers == {e.seq : e \in loaded}
    <3>1. numbers \in SUBSET Nat /\ numbers # {} /\ \A s \in numbers : s <= puts
      BY <1>4, <2>2
    <3>2. PICK s \in numbers : \A t \in numbers : t <= s
      <4> HIDE DEF numbers
      <4> QED
        BY <1>0, <3>1, GreatestOf
    <3>3. PICK e \in loaded : s = e.seq
      BY <3>2
    <3>4. e \in newest
      BY <3>2, <3>3
    <3>5. (CHOOSE x \in newest : TRUE) \in newest
      BY <3>4
    <3>6. seq' = (CHOOSE x \in newest : TRUE).seq
      BY <1>2, <3>4
    <3> DEFINE top == CHOOSE x \in newest : TRUE
    <3>7. top \in loaded /\ (\A d \in loaded : d.seq <= top.seq) /\ seq' = top.seq
      BY <3>5, <3>6
    <3>8. \A i \in 1 .. n : nvs[order[i]] \in loaded
      OBVIOUS
    <3> HIDE DEF top, loaded
    <3> QED
      BY <1>0, <1>4, <3>7, <3>8
  <2> QED
    BY <2>1, <2>2
<1>7. ASSUME NEW i \in 1 .. n PROVE latest'[nvs[order[i]].id] = nvs[order[i]].val
  <2> DEFINE c == nvs[order[i]].id
             x == CHOOSE e \in own(c) : TRUE
  <2>1. nvs[order[i]] \in own(c) /\ c \in Ids
    BY <1>4
  <2>2. x \in own(c)
    BY <2>1
  <2>3. \A e \in own(c) : e = nvs[order[i]]
    BY <1>5
  <2>4. latest'[c] = x.val
    BY <1>2, <2>1
  <2> QED
    BY <2>2, <2>3, <2>4
<1>8. ASSUME NEW c \in Ids, \A i \in 1 .. n : nvs[order[i]].id # c PROVE latest'[c] = 0
  <2>1. own(c) = {}
    BY <1>8
  <2> QED
    BY <1>2, <2>1
<1>9. latest' \in [Ids -> Vals]
  <2>1. \A c \in Ids : own(c) # {} => (CHOOSE e \in own(c) : TRUE) \in loaded
    OBVIOUS
  <2>2. \A e \in loaded : e.val \in Vals
    BY <1>0, <1>4 DEF Vals
  <2>3. 0 \in Vals
    BY Sizes DEF Vals
  <2> HIDE DEF loaded
  <2> QED
    BY <1>2, <2>1, <2>2, <2>3
<1> QED
  BY <1>2, <1>3, <1>5, <1>6, <1>7, <1>8, <1>9

LEMMA BaseRestart ==
    ASSUME BaseInv, NEW n \in 0 .. Capacity, NEW order \in [1 .. n -> Keys], Restart(order)
    PROVE  BaseInv'
<1>0. /\ TypeOK /\ Keyed /\ OnePlace /\ Numbered /\ Written /\ Flushing /\ Noticed
      /\ seq \in Nat /\ puts \in Nat /\ n \in Nat /\ Capacity \in Nat
  BY RowTypes, Sizes DEF BaseInv
<1>1. /\ \A i \in 1 .. n : order[i] \in Keys /\ nvs[order[i]] # Empty
      /\ \A i, j \in 1 .. n : nvs[order[i]].id = nvs[order[j]].id => i = j
      /\ entries' = [i \in Table |-> IF i <= n THEN nvs[order[i]] ELSE Empty]
      /\ seq' \in 0 .. puts /\ \A i \in 1 .. n : nvs[order[i]].seq <= seq'
      /\ latest' \in [Ids -> Vals]
  BY RestartRow
<1>2. /\ crashes < MaxCrash /\ crashes' = crashes + 1
      /\ dirty' = [i \in Table |-> FALSE] /\ erase' = <<>> /\ notified' = 0
      /\ flush' = [f \in Flushers |-> Resting]
      /\ reset' = IF reset.pc = "nvs done" THEN [reset EXCEPT !.pc = "done"] ELSE reset
      /\ nvs' = nvs /\ puts' = puts
  BY DEF Restart
<1>3. \A i \in Table : \/ i \in 1 .. n /\ entries'[i] = nvs[order[i]]
                       \/ i \notin 1 .. n /\ entries'[i] = Empty
  BY <1>0, <1>1 DEF Table
<1>4. entries' \in [Table -> Maybe]
  <2>1. \A i \in Table : entries'[i] \in Maybe
    BY <1>0, <1>1, <1>3, RowTypes DEF Maybe
  <2> QED
    BY <1>1, <2>1
<1>5. TypeOK'
  <2>1. dirty' \in [Table -> BOOLEAN] /\ erase' \in Seq(Keys) /\ Len(erase') <= EraseRoom
    <3>1. dirty' = [i \in Table |-> FALSE] /\ erase' = <<>>
      BY <1>2
    <3> QED
      BY <3>1, Sizes
  <2>2. seq' \in 0 .. MaxPut /\ notified' \in Vals
    <3>1. puts \in Vals
      BY <1>0 DEF TypeOK
    <3>2. seq' \in 0 .. puts /\ notified' = 0
      BY <1>1, <1>2
    <3> QED
      BY <3>1, <3>2, Sizes DEF Vals
  <2>3. flush' \in [Flushers -> FlushRec]
    <3>1. Resting \in FlushRec
      BY Sizes DEF Resting, FlushRec, Maybe
    <3> QED
      BY <1>2, <3>1
  <2>4. reset' \in [pc : {"never", "nvs done", "done"}, after : Vals]
    BY <1>0, <1>2 DEF TypeOK
  <2>5. crashes' \in 0 .. MaxCrash
    <3>1. crashes \in 0 .. MaxCrash
      BY <1>0 DEF TypeOK
    <3>2. crashes < MaxCrash /\ crashes' = crashes + 1
      BY <1>2
    <3> QED
      BY <3>1, <3>2, Sizes
  <2> QED
    BY <1>0, <1>1, <1>2, <1>4, <2>1, <2>2, <2>3, <2>4, <2>5 DEF TypeOK, FlushRec, Maybe
<1>6. Keyed' /\ Flushing' /\ Noticed'
  <2>1. \A i \in Table : ~dirty'[i]
    BY <1>2
  <2>2. \A f \in Flushers : flush'[f] = [pc |-> "idle", at |-> 1, key |-> NoKey, item |-> Empty]
    BY <1>2 DEF Resting
  <2>3. Keyed'
    BY <1>0, <1>2 DEF Keyed
  <2>4. Flushing'
    BY <2>2 DEF Flushing
  <2>5. Noticed'
    BY <2>1 DEF Noticed
  <2> QED
    BY <2>3, <2>4, <2>5
<1>7. OnePlace'
  <2>1. \A i \in Table : entries'[i] # Empty => i \in 1 .. n /\ entries'[i] = nvs[order[i]]
    BY <1>3
  <2>2. ASSUME NEW i \in Table, NEW j \in Table, entries'[i] # Empty, entries'[i].id = entries'[j].id
        PROVE  i = j
    <3>1. i \in 1 .. n /\ entries'[i].id \in Ids
      BY <1>4, <2>1, <2>2, EntryFacts
    <3>2. entries'[j] # Empty
      BY <1>4, <2>2, <3>1, EntryFacts
    <3> QED
      BY <1>1, <2>1, <2>2, <3>2
  <2> QED
    BY <2>2 DEF OnePlace, Used
<1>8. Numbered'
  <2>1. seq' \in Nat /\ seq' <= puts
    BY <1>0, <1>1
  <2>2. \A i \in Table : entries'[i].seq <= seq'
    BY <1>1, <1>3, <2>1 DEF Empty
  <2>3. puts' = puts /\ notified' = 0 /\ puts \in Nat
    BY <1>0, <1>2
  <2> QED
    BY <2>1, <2>2, <2>3 DEF Numbered
<1>9. Copies' \subseteq Copies \cup {Empty}
  <2>1. \A i \in Table : entries'[i] \in Copies \cup {Empty}
    BY <1>1, <1>3 DEF Copies
  <2>2. \A f \in Flushers : flush'[f].item = Empty
    BY <1>2 DEF Resting
  <2> QED
    BY <1>2, <2>1, <2>2 DEF Copies
<1>10. Written'
  BY <1>0, <1>2, <1>9, WrittenKept
<1> QED
  BY <1>5, <1>6, <1>7, <1>8, <1>10 DEF BaseInv

-----------------------------------------------------------------------------
LEMMA BaseStep == BaseInv /\ [Next]_vars => BaseInv'
<1> SUFFICES ASSUME BaseInv, [Next]_vars PROVE BaseInv'
  OBVIOUS
<1>1. CASE \E c \in Ids : Put(c)
  BY <1>1, BasePut
<1>2. CASE \E f \in Flushers : Flush(f)
  BY <1>2, BaseStartFlush, BaseTakeKey, BaseEraseKey, BaseTakeEntry, BaseWriteEntry DEF Flush
<1>3. CASE EraseNvs \/ EraseTable
  BY <1>3, BaseEraseNvs, BaseEraseTable
<1>4. CASE \E n \in 0 .. Capacity : \E order \in [1 .. n -> Keys] : Restart(order)
  BY <1>4, BaseRestart
<1>5. CASE UNCHANGED vars
  <2>1. TypeOK'
    BY <1>5 DEF vars, BaseInv, TypeOK
  <2>2. Keyed' /\ OnePlace' /\ Numbered' /\ Flushing'
    BY <1>5 DEF vars, BaseInv, Keyed, OnePlace, Numbered, Flushing, Used
  <2>3. Written'
    BY <1>5 DEF vars, BaseInv, Written, Copies
  <2>4. Noticed'
    BY <1>5 DEF vars, BaseInv, Noticed, ToCome, Used
  <2> QED
    BY <2>1, <2>2, <2>3, <2>4 DEF BaseInv
<1> QED
  BY <1>1, <1>2, <1>3, <1>4, <1>5 DEF Next

\* Table, flash and flushes fit together, however many flush (client_store.c).
THEOREM StoreInvariant == Spec => []BaseInv
<1> QED
  BY BaseInit, BaseStep, PTL DEF Spec

\* The variables keep their types and ranges (client_store.c).
THEOREM TypeCorrect == Spec => []TypeOK
<1>1. BaseInv => TypeOK
  BY DEF BaseInv
<1> QED
  BY <1>1, StoreInvariant, PTL
-----------------------------------------------------------------------------
(* Which clients the table remembers                                         *)

\* An entry has the last settings of its client.
Fresh == \A i \in Table : Used(i) => entries[i].val = latest[entries[i].id]

\* Until power fails, entries are numbered as they were put, ...
InStep == crashes = 0 => seq = puts /\ \A e \in Copies : e.seq = e.val

\* ... so that what the next start loads is in order, ...
Ordered ==
    crashes <= 1 =>
        \A i, j \in Table : Used(i) /\ Used(j)
            => (entries[i].seq <= entries[j].seq <=> entries[i].val <= entries[j].val)

\* ... and whoever lost its place lost it to clients changed later.
Displaced ==
    crashes <= 1 =>
        \A x \in Ids : latest[x] # 0 /\ (\A i \in Table : entries[i].id # x)
            => \A i \in Table : Used(i) /\ latest[x] < entries[i].val

RememberInv == Fresh /\ InStep /\ Ordered /\ Displaced

LEMMA RememberInit == Init => RememberInv
<1> SUFFICES ASSUME Init PROVE RememberInv
  OBVIOUS
<1>1. Fresh /\ Ordered /\ Displaced
  BY DEF Init, Fresh, Ordered, Displaced, Used
<1>2. Copies \subseteq {Empty}
  BY DEF Init, Copies, Resting
<1>3. InStep
  BY <1>2 DEF Init, InStep, Empty
<1> QED
  BY <1>1, <1>3 DEF RememberInv

LEMMA RememberPut ==
    ASSUME BaseInv, RememberInv, NEW c \in Ids, Put(c)
    PROVE  RememberInv'
<1> DEFINE i == SlotFor(c)
           e == [id |-> c, val |-> puts + 1, seq |-> seq + 1]
<1>0. /\ TypeOK /\ OnePlace /\ Numbered /\ Written /\ Fresh /\ InStep /\ Ordered /\ Displaced
      /\ puts \in Nat /\ seq \in Nat
  BY RowTypes DEF BaseInv, RememberInv
<1>1. /\ i \in Table /\ e # Empty
      /\ \A j \in Table : entries'[j] = IF j = i THEN e ELSE entries[j]
      /\ \A j \in Table : entries[j].id = c => j = i
      /\ Copies' \subseteq Copies \cup {e}
      /\ entries[i].id # c =>
           \/ ~Used(i)
           \/ (\A j \in Table : Used(j)) /\ \A j \in Table : entries[i].seq <= entries[j].seq
  BY PutRow
<1>2. puts' = puts + 1 /\ seq' = seq + 1 /\ crashes' = crashes
  BY DEF Put
<1>3. \A x \in Ids : latest'[x] = IF x = c THEN puts + 1 ELSE latest[x]
  <2>1. latest' = [latest EXCEPT ![c] = puts + 1] /\ latest \in [Ids -> Vals]
    BY <1>0 DEF Put, TypeOK
  <2> QED
    BY <2>1
<1>e. e.id = c /\ e.val = puts + 1 /\ e.seq = seq + 1
  OBVIOUS
<1>4. \A j \in Table : /\ entries[j].val \in Nat /\ entries[j].seq \in Nat
                       /\ entries[j].val <= puts /\ entries[j].seq <= seq
                       /\ Used(j) => entries[j].id \in Ids
  <2>1. \A j \in Table : entries[j] \in Copies /\ entries[j] \in Maybe
    BY <1>0, RowTypes DEF Copies
  <2> QED
    BY <1>0, <2>1, EntryFacts, Sizes DEF Numbered, Written, Used
<1> HIDE DEF i, e
<1>5. Fresh'
  <2>1. ASSUME NEW j \in Table, entries'[j] # Empty PROVE entries'[j].val = latest'[entries'[j].id]
    <3>1. CASE j = i
      BY <1>1, <1>3, <1>e, <3>1
    <3>2. CASE j # i
      <4>1. entries'[j] = entries[j] /\ Used(j) /\ entries[j].id # c
        BY <1>1, <2>1, <3>2 DEF Used
      <4> QED
        BY <1>0, <1>3, <1>4, <4>1 DEF Fresh
    <3> QED
      BY <3>1, <3>2
  <2> QED
    BY <2>1 DEF Fresh, Used
<1>6. InStep'
  BY <1>0, <1>1, <1>2, <1>e DEF InStep
<1>7. Ordered'
  <2>1. ASSUME crashes <= 1, NEW j \in Table, NEW k \in Table, entries'[j] # Empty, entries'[k] # Empty
        PROVE  entries'[j].seq <= entries'[k].seq <=> entries'[j].val <= entries'[k].val
    <3>1. CASE j # i /\ k # i
      BY <1>0, <1>1, <2>1, <3>1 DEF Ordered, Used
    <3>2. CASE j = i /\ k # i
      BY <1>0, <1>1, <1>4, <1>e, <3>2
    <3>3. CASE j # i /\ k = i
      BY <1>0, <1>1, <1>4, <1>e, <3>3
    <3>4. CASE j = i /\ k = i
      BY <1>0, <1>1, <1>e, <3>4
    <3> QED
      BY <3>1, <3>2, <3>3, <3>4
  <2> QED
    BY <1>2, <2>1 DEF Ordered, Used
<1>8. Displaced'
  <2>1. ASSUME crashes <= 1, NEW x \in Ids, latest'[x] # 0, \A j \in Table : entries'[j].id # x,
               NEW k \in Table
        PROVE  entries'[k] # Empty /\ latest'[x] < entries'[k].val
    <3>1. x # c /\ latest'[x] = latest[x]
      BY <1>1, <1>3, <1>e, <2>1
    <3>2. \A j \in Table : j # i => entries[j].id # x
      BY <1>1, <2>1
    <3>3. CASE \A j \in Table : entries[j].id # x
      <4>1. \A j \in Table : Used(j) /\ latest[x] < entries[j].val
        BY <1>0, <2>1, <3>1, <3>3 DEF Displaced
      <4>2. latest[x] < puts + 1
        <5>1. latest[x] \in Vals
          BY <1>0 DEF TypeOK
        <5> QED
          BY <1>0, <1>1, <1>4, <4>1, <5>1, Sizes DEF Vals
      <4> QED
        BY <1>1, <1>e, <3>1, <4>1, <4>2 DEF Used
    <3>4. CASE entries[i].id = x
      <4>1. entries[i].id # c /\ Used(i)
        <5>1. entries[i] \in Maybe
          BY <1>0, <1>1, RowTypes
        <5> QED
          BY <3>1, <3>4, <5>1, EntryFacts DEF Used
      <4>2. \A j \in Table : Used(j) /\ entries[i].seq <= entries[j].seq
        BY <1>1, <4>1
      <4>3. latest[x] = entries[i].val
        BY <1>0, <1>1, <3>4, <4>1 DEF Fresh
      <4>4. CASE k = i
        BY <1>0, <1>1, <1>4, <1>e, <3>1, <4>3, <4>4
      <4>5. CASE k # i
        <5>1. entries[i].val <= entries[k].val
          BY <1>0, <1>1, <2>1, <4>2 DEF Ordered
        <5>2. entries[i].val # entries[k].val
          <6>1. entries[i] \in Copies /\ entries[k] \in Copies
            BY <1>1 DEF Copies
          <6>2. entries[k].id # x
            BY <3>2, <4>5
          <6> QED
            BY <1>0, <3>4, <6>1, <6>2 DEF Written
        <5>3. entries'[k] = entries[k]
          BY <1>1, <4>5
        <5> QED
          BY <1>1, <1>4, <3>1, <4>2, <4>3, <5>1, <5>2, <5>3 DEF Used
      <4> QED
        BY <4>4, <4>5
    <3> QED
      BY <3>2, <3>3, <3>4
  <2> QED
    BY <1>2, <2>1 DEF Displaced, Used
<1> QED
  BY <1>5, <1>6, <1>7, <1>8 DEF RememberInv

\* A flush makes no entry, and leaves the table's in place.
LEMMA FlushCopies ==
    ASSUME BaseInv, NEW f \in Flushers, Flush(f)
    PROVE  /\ UNCHANGED <<entries, seq, reset, puts, latest, crashes>>
           /\ Copies' \subseteq Copies \cup {Empty}
<1>0. TypeOK /\ Flushing
  BY DEF BaseInv
<1>1. UNCHANGED <<entries, seq, reset, puts, latest, crashes>>
  BY DEF Flush, StartFlush, TakeKey, EraseKey, TakeEntry, WriteEntry
<1>2. \A g \in Flushers : flush'[g].item \in Copies \cup {Empty}
  <2>1. \A g \in Flushers : flush[g].item \in Copies
    BY DEF Copies
  <2>2. flush \in [Flushers -> FlushRec]
    BY <1>0 DEF TypeOK, FlushRec, Maybe
  <2>3. \A g \in Flushers : \/ flush'[g].item \in {flush[g].item, Empty}
                            \/ /\ g = f /\ TakeEntry(f) /\ flush[f].at <= Capacity
                               /\ flush'[g].item = entries[flush[f].at]
    <3>1. ASSUME NEW g \in Flushers, StartFlush(f) PROVE flush'[g].item \in {flush[g].item, Empty}
      BY <2>2, <3>1 DEF StartFlush, Resting
    <3>2. ASSUME NEW g \in Flushers, TakeKey(f) PROVE flush'[g].item \in {flush[g].item, Empty}
      <4>1. \/ flush' = [flush EXCEPT ![f].pc = "scan"]
            \/ flush' = [flush EXCEPT ![f].pc = "erasing", ![f].key = erase[Len(erase)]]
        BY <3>2, Zenon DEF TakeKey
      <4>2. CASE flush' = [flush EXCEPT ![f].pc = "scan"]
        BY <2>2, <4>2 DEF FlushRec
      <4>3. CASE flush' = [flush EXCEPT ![f].pc = "erasing", ![f].key = erase[Len(erase)]]
        <5> DEFINE k == erase[Len(erase)]
        <5>1. flush' = [flush EXCEPT ![f] = [flush[f] EXCEPT !.pc = "erasing", !.key = k]]
          BY <4>3
        <5> HIDE DEF k
        <5> QED
          BY <2>2, <5>1 DEF FlushRec
      <4> QED
        BY <4>1, <4>2, <4>3
    <3>3. ASSUME NEW g \in Flushers, EraseKey(f) PROVE flush'[g].item \in {flush[g].item, Empty}
      BY <2>2, <3>3 DEF EraseKey, FlushRec
    <3>4. ASSUME NEW g \in Flushers, WriteEntry(f) PROVE flush'[g].item \in {flush[g].item, Empty}
      BY <2>2, <3>4 DEF WriteEntry, FlushRec
    <3>5. ASSUME NEW g \in Flushers, TakeEntry(f)
          PROVE  \/ flush'[g].item \in {flush[g].item, Empty}
                 \/ g = f /\ flush[f].at <= Capacity /\ flush'[g].item = entries[flush[f].at]
      <4>1. flush[f].at \in Nat /\ Capacity \in Nat
        BY <2>2, Sizes DEF FlushRec
      <4>2. CASE flush[f].at > Capacity
        BY <2>2, <3>5, <4>2 DEF TakeEntry, FlushRec, Resting
      <4>3. CASE ~(flush[f].at > Capacity)
        <5>1. \/ flush' = [flush EXCEPT ![f].pc = "write", ![f].item = entries[flush[f].at]]
              \/ flush' = [flush EXCEPT ![f].at = flush[f].at + 1]
          BY <3>5, <4>3 DEF TakeEntry
        <5> QED
          BY <2>2, <4>1, <4>3, <5>1 DEF FlushRec
      <4> QED
        BY <4>2, <4>3
    <3> QED
      BY <3>1, <3>2, <3>3, <3>4, <3>5 DEF Flush
  <2>4. flush[f].at <= Capacity => flush[f].at \in Table
    BY <2>2, Sizes DEF FlushRec, Table
  <2> QED
    BY <2>1, <2>3, <2>4 DEF Copies
<1>3. \A k \in Keys : nvs'[k] \in Copies \cup {Empty}
  <2>1. nvs \in [Keys -> Maybe]
    BY <1>0 DEF TypeOK, Maybe
  <2>2. \A k \in Keys : nvs'[k] \in {nvs[k], Empty, flush[f].item}
    BY <2>1 DEF Flush, StartFlush, TakeKey, EraseKey, TakeEntry, WriteEntry
  <2> QED
    BY <2>2 DEF Copies
<1>4. ASSUME NEW e \in Copies' PROVE e \in Copies \cup {Empty}
  <2>1. \/ \E i \in Table : e = entries'[i]
        \/ \E g \in Flushers : e = flush'[g].item
        \/ \E k \in Keys : e = nvs'[k]
    BY <1>4 DEF Copies
  <2>2. \A i \in Table : entries'[i] \in Copies
    BY <1>1 DEF Copies
  <2> QED
    BY <1>2, <1>3, <2>1, <2>2
<1> QED
  BY <1>1, <1>4

\* Whatever leaves the table, its settings and its numbers alone.
LEMMA RememberKept ==
    ASSUME RememberInv, UNCHANGED <<entries, seq, puts, latest, crashes>>,
           Copies' \subseteq Copies \cup {Empty}
    PROVE  RememberInv'
<1>1. Fresh' /\ Ordered' /\ Displaced'
  BY DEF RememberInv, Fresh, Ordered, Displaced, Used
<1>2. InStep'
  BY DEF RememberInv, InStep, Empty
<1> QED
  BY <1>1, <1>2 DEF RememberInv

LEMMA RememberStep == BaseInv /\ RememberInv /\ [Next]_vars => RememberInv'
<1> SUFFICES ASSUME BaseInv, RememberInv, [Next]_vars PROVE RememberInv'
  OBVIOUS
<1>1. CASE \E c \in Ids : Put(c)
  BY <1>1, RememberPut
<1>2. CASE \E f \in Flushers : Flush(f)
  BY <1>2, FlushCopies, RememberKept
<1>3. CASE EraseNvs
  <2>1. UNCHANGED <<entries, seq, puts, latest, crashes, flush>> /\ nvs' = [k \in Keys |-> Empty]
    BY <1>3 DEF EraseNvs
  <2>2. Copies' \subseteq Copies \cup {Empty}
    BY <2>1 DEF Copies
  <2> QED
    BY <2>1, <2>2, RememberKept
<1>4. CASE EraseTable
  <2>1. /\ entries' = [i \in Table |-> Empty] /\ latest' = [c \in Ids |-> 0]
        /\ UNCHANGED <<seq, flush, nvs, puts, crashes>>
    BY <1>4 DEF EraseTable
  <2>2. Copies' \subseteq Copies \cup {Empty}
    BY <2>1 DEF Copies
  <2>3. Fresh' /\ Ordered' /\ Displaced'
    BY <2>1 DEF Fresh, Ordered, Displaced, Used
  <2>4. InStep'
    BY <2>1, <2>2 DEF RememberInv, InStep, Empty
  <2> QED
    BY <2>3, <2>4 DEF RememberInv
<1>5. ASSUME NEW n \in 0 .. Capacity, NEW order \in [1 .. n -> Keys], Restart(order)
      PROVE  RememberInv'
  <2>1. /\ \A i \in 1 .. n : order[i] \in Keys /\ nvs[order[i]] # Empty
        /\ entries' = [i \in Table |-> IF i <= n THEN nvs[order[i]] ELSE Empty]
        /\ \A i \in 1 .. n : latest'[nvs[order[i]].id] = nvs[order[i]].val
        /\ \A c \in Ids : (\A i \in 1 .. n : nvs[order[i]].id # c) => latest'[c] = 0
    BY <1>5, RestartRow
  <2>2. crashes' = crashes + 1 /\ crashes \in Nat /\ n \in Nat /\ Capacity \in Nat
    <3>1. crashes' = crashes + 1
      BY <1>5 DEF Restart
    <3> QED
      BY <3>1, Sizes, RowTypes DEF BaseInv
  <2>3. \A i \in Table : \/ i \in 1 .. n /\ entries'[i] = nvs[order[i]]
                         \/ i \notin 1 .. n /\ entries'[i] = Empty
    BY <2>1, <2>2 DEF Table
  <2>4. \A i \in 1 .. n : i \in Table /\ entries'[i] = nvs[order[i]]
    BY <2>1, <2>2 DEF Table
  <2>5. Fresh'
    BY <2>1, <2>3 DEF Fresh, Used
  <2>6. InStep'
    BY <2>2 DEF InStep
  <2>7. Displaced'
    BY <2>1, <2>4 DEF Displaced
  <2>8. Ordered'
    <3>1. SUFFICES ASSUME crashes = 0 PROVE Ordered'
      BY <2>2 DEF Ordered
    <3>2. \A k \in Keys : nvs[k].seq = nvs[k].val
      BY <3>1 DEF RememberInv, InStep, Copies
    <3>3. \A i \in Table : entries'[i] # Empty => entries'[i].seq = entries'[i].val
      BY <2>1, <2>3, <3>2
    <3> QED
      BY <3>3 DEF Ordered, Used
  <2> QED
    BY <2>5, <2>6, <2>7, <2>8 DEF RememberInv
<1>6. CASE UNCHANGED vars
  <2>1. UNCHANGED <<entries, seq, puts, latest, crashes, flush, nvs>>
    BY <1>6 DEF vars
  <2>2. Copies' \subseteq Copies \cup {Empty}
    BY <2>1 DEF Copies
  <2> QED
    BY <2>1, <2>2, RememberKept
<1> QED
  BY <1>1, <1>2, <1>3, <1>4, <1>5, <1>6 DEF Next

\* A full table of different clients.
LEMMA FullTable ==
    ASSUME BaseInv, \A i \in Table : Used(i)
    PROVE  Cardinality(Held) = Capacity
<1> DEFINE who == [i \in Table |-> entries[i].id]
<1>1. IsFiniteSet(Table) /\ Cardinality(Table) = Capacity
  BY Sizes, FS_Interval DEF Table
<1>2. Held = {entries[i].id : i \in Table}
  BY DEF Held, Used
<1>3. who \in Surjection(Table, Held)
  BY <1>2 DEF Surjection
<1>4. who \in Injection(Table, Held)
  <2>1. who \in [Table -> Held]
    BY <1>2
  <2> QED
    BY <2>1 DEF Injection, IsInjective, BaseInv, OnePlace
<1> HIDE DEF who
<1> QED
  BY <1>1, <1>3, <1>4, FS_Surjection

LEMMA RememberLast == BaseInv /\ RememberInv => RemembersLatest
<1> SUFFICES ASSUME BaseInv, RememberInv PROVE RemembersLatest
  OBVIOUS
<1>1. \A i \in Table : entries[i] # Empty => entries[i].val = latest[entries[i].id]
  BY DEF RememberInv, Fresh, Used
<1>2. ASSUME crashes <= 1, NEW c \in Ids \ Held, latest[c] # 0
      PROVE  Cardinality(Held) = Capacity /\ \A d \in Held : latest[c] < latest[d]
  <2>1. \A i \in Table : entries[i].id # c
    <3>1. \A i \in Table : entries[i].id \in Ids => Used(i)
      BY RowTypes, EntryFacts DEF BaseInv, Used
    <3> QED
      BY <1>2, <3>1 DEF Held, Used
  <2>2. \A i \in Table : Used(i) /\ latest[c] < entries[i].val
    BY <1>2, <2>1 DEF RememberInv, Displaced
  <2>3. \A d \in Held : \E i \in Table : d = entries[i].id
    BY DEF Held
  <2> QED
    BY <1>1, <2>2, <2>3, FullTable DEF Used
<1> QED
  BY <1>1, <1>2 DEF RemembersLatest

\* The table remembers each client's last settings, and, up to the second power
\* failure, the clients changed last, whatever the keys and however many flush
\* (client_store_put, client_store_init).
THEOREM RemembersLatestHolds == Spec => []RemembersLatest
<1>1. Spec => [](BaseInv /\ RememberInv)
  BY BaseInit, BaseStep, RememberInit, RememberStep, PTL DEF Spec
<1> QED
  BY <1>1, RememberLast, PTL
-----------------------------------------------------------------------------
(* What the flash remembers, where store_task is the only one to flush       *)

Single == \A f, g \in Flushers : f = g

LEMMA TaskAlone == HasTask => Single
<1>1. HasTask => \E f \in Flushers : Flushers = {f}
  BY StoreAssumption, Zenon
<1> QED
  BY <1>1, Zenon DEF Single

\* A step of store_flush is one of these: nothing that matters here, ...
Still(f) ==
    /\ flush[f].item = Empty /\ flush[f].key = NoKey /\ UNCHANGED <<erase, nvs>>
    /\ flush'[f].item = Empty /\ flush'[f].key = NoKey
    /\ \A j \in Table : dirty'[j] = dirty[j]

\* ... a key taken from the list, ...
KeyTaken(f) ==
    /\ flush[f].item = Empty /\ flush[f].key = NoKey /\ UNCHANGED <<dirty, nvs>>
    /\ Len(erase) \in Nat \ {0} /\ erase' = SubSeq(erase, 1, Len(erase) - 1)
    /\ flush'[f].item = Empty /\ flush'[f].key = erase[Len(erase)]

\* ... and erased, ...
KeyErased(f) ==
    /\ flush[f].item = Empty /\ flush[f].key \in Keys /\ UNCHANGED <<dirty, erase>>
    /\ flush'[f].item = Empty /\ flush'[f].key = NoKey
    /\ \A k \in Keys : nvs'[k] = IF k = flush[f].key THEN Empty ELSE nvs[k]

\* ... an entry copied, its flag cleared, ...
EntryTaken(f) ==
    /\ flush[f].item = Empty /\ flush[f].key = NoKey /\ UNCHANGED <<erase, nvs>>
    /\ \E i \in Table :
         /\ dirty[i] /\ Used(i) /\ flush'[f].item = entries[i] /\ flush'[f].key = NoKey
         /\ \A j \in Table : dirty'[j] = IF j = i THEN FALSE ELSE dirty[j]

\* ... or written.
EntryWritten(f) ==
    /\ flush[f].item \in Entry /\ flush[f].key = NoKey /\ UNCHANGED <<dirty, erase>>
    /\ flush[f].item.id \in Ids /\ Key[flush[f].item.id] \in Keys
    /\ flush'[f].item = Empty /\ flush'[f].key = NoKey
    /\ \A k \in Keys :
         nvs'[k] = IF k = Key[flush[f].item.id] THEN flush[f].item ELSE nvs[k]

LEMMA FlushKinds ==
    ASSUME BaseInv, NEW f \in Flushers, Flush(f)
    PROVE  /\ UNCHANGED <<entries, seq, reset, puts, latest, crashes>>
           /\ Still(f) \/ KeyTaken(f) \/ KeyErased(f) \/ EntryTaken(f) \/ EntryWritten(f)
<1>0. TypeOK /\ Flushing /\ Noticed
  BY DEF BaseInv
<1>a. /\ flush \in [Flushers -> FlushRec] /\ nvs \in [Keys -> Maybe]
      /\ dirty \in [Table -> BOOLEAN] /\ erase \in Seq(Keys)
  BY <1>0 DEF TypeOK, FlushRec, Maybe
<1>b. /\ flush[f].item \in Maybe /\ flush[f].key \in Keys \cup {NoKey}
      /\ flush[f].at \in 1 .. Capacity + 1 /\ flush[f].at \in Nat /\ Capacity \in Nat
  BY <1>0, RowTypes, Sizes
<1>c. /\ flush[f].item # Empty <=> flush[f].pc = "write"
      /\ flush[f].key # NoKey <=> flush[f].pc = "erasing"
  BY <1>0 DEF Flushing
<1>1. UNCHANGED <<entries, seq, reset, puts, latest, crashes>>
  BY FlushCopies
<1> SUFFICES Still(f) \/ KeyTaken(f) \/ KeyErased(f) \/ EntryTaken(f) \/ EntryWritten(f)
  BY <1>1
<1>2. CASE StartFlush(f)
  <2>1. flush[f].pc = "idle" /\ UNCHANGED <<dirty, erase, nvs>>
    BY <1>2 DEF StartFlush
  <2>2. flush'[f].item = Empty /\ flush'[f].key = NoKey
    BY <1>2, <1>a DEF StartFlush, Resting
  <2> QED
    BY <1>c, <2>1, <2>2 DEF Still
<1>3. CASE TakeKey(f)
  <2>1. flush[f].pc = "erase" /\ UNCHANGED <<dirty, nvs>>
    BY <1>3 DEF TakeKey
  <2>2. CASE erase = <<>>
    <3>1. flush' = [flush EXCEPT ![f].pc = "scan"] /\ UNCHANGED erase
      BY <1>3, <2>2, Zenon DEF TakeKey
    <3>2. flush'[f].item = flush[f].item /\ flush'[f].key = flush[f].key
      BY <1>a, <3>1 DEF FlushRec
    <3> QED
      BY <1>c, <2>1, <3>1, <3>2 DEF Still
  <2>3. CASE erase # <<>>
    <3> DEFINE k == erase[Len(erase)]
    <3>1. /\ flush' = [flush EXCEPT ![f] = [flush[f] EXCEPT !.pc = "erasing", !.key = k]]
          /\ erase' = SubSeq(erase, 1, Len(erase) - 1)
      BY <1>3, <2>3 DEF TakeKey
    <3>2. Len(erase) \in Nat \ {0}
      BY <1>a, <2>3
    <3> HIDE DEF k
    <3>3. flush'[f].item = flush[f].item /\ flush'[f].key = k
      BY <1>a, <3>1 DEF FlushRec
    <3> QED
      BY <1>c, <2>1, <3>1, <3>2, <3>3 DEF KeyTaken, k
  <2> QED
    BY <2>2, <2>3
<1>4. CASE EraseKey(f)
  <2>1. /\ flush[f].pc = "erasing" /\ UNCHANGED <<dirty, erase>>
        /\ nvs' = [nvs EXCEPT ![flush[f].key] = Empty]
        /\ flush' = [flush EXCEPT ![f].pc = "erase", ![f].key = NoKey]
    BY <1>4 DEF EraseKey
  <2>2. flush'[f].item = flush[f].item /\ flush'[f].key = NoKey
    BY <1>a, <2>1 DEF FlushRec
  <2>3. flush[f].key \in Keys /\ \A k \in Keys : nvs'[k] = IF k = flush[f].key THEN Empty ELSE nvs[k]
    BY <1>a, <1>b, <1>c, <2>1
  <2> QED
    BY <1>c, <2>1, <2>2, <2>3 DEF KeyErased
<1>5. CASE TakeEntry(f)
  <2> DEFINE i == flush[f].at
  <2>1. flush[f].pc = "scan" /\ UNCHANGED <<erase, nvs>>
    BY <1>5 DEF TakeEntry
  <2>2. CASE i > Capacity
    <3>1. flush' = [flush EXCEPT ![f] = Resting] /\ dirty' = dirty
      BY <1>5, <2>2 DEF TakeEntry
    <3>2. flush'[f].item = Empty /\ flush'[f].key = NoKey
      BY <1>a, <3>1 DEF Resting
    <3> QED
      BY <1>c, <2>1, <3>1, <3>2 DEF Still
  <2>3. CASE i <= Capacity
    <3>0. i \in Table
      BY <1>b, <2>3, Sizes DEF Table
    <3>1. dirty' = [dirty EXCEPT ![i] = FALSE]
      BY <1>5, <1>b, <2>3 DEF TakeEntry
    <3>2. \A j \in Table : dirty'[j] = IF j = i THEN FALSE ELSE dirty[j]
      BY <1>a, <3>0, <3>1
    <3>3. dirty[i] => entries[i] # Empty
      BY <1>0, <3>0 DEF Noticed, Used
    <3>4. CASE dirty[i]
      <4>1. flush' = [flush EXCEPT ![f].pc = "write", ![f].item = entries[i]]
        BY <1>5, <1>b, <2>3, <3>3, <3>4 DEF TakeEntry
      <4>2. flush'[f].item = entries[i] /\ flush'[f].key = flush[f].key
        BY <1>a, <4>1 DEF FlushRec
      <4> HIDE DEF i
      <4>3. dirty[i] /\ Used(i)
        BY <3>3, <3>4 DEF Used
      <4> QED
        BY <1>c, <2>1, <3>0, <3>2, <4>2, <4>3 DEF EntryTaken
    <3>5. CASE ~dirty[i]
      <4>1. flush' = [flush EXCEPT ![f].at = i + 1]
        BY <1>5, <1>b, <2>3, <3>5 DEF TakeEntry
      <4>2. flush'[f].item = flush[f].item /\ flush'[f].key = flush[f].key
        BY <1>a, <4>1 DEF FlushRec
      <4>3. \A j \in Table : dirty'[j] = dirty[j]
        BY <1>a, <3>2, <3>5
      <4> QED
        BY <1>c, <2>1, <4>2, <4>3 DEF Still
    <3> QED
      BY <3>4, <3>5
  <2> QED
    BY <1>b, <2>2, <2>3
<1>6. CASE WriteEntry(f)
  <2>1. /\ flush[f].pc = "write" /\ UNCHANGED <<dirty, erase>>
        /\ nvs' = [nvs EXCEPT ![Key[flush[f].item.id]] = flush[f].item]
        /\ flush' = [flush EXCEPT ![f].pc = "scan", ![f].at = @ + 1, ![f].item = Empty]
    BY <1>6 DEF WriteEntry
  <2>2. flush'[f].item = Empty /\ flush'[f].key = flush[f].key
    BY <1>a, <2>1 DEF FlushRec
  <2>3. flush[f].item \in Entry /\ flush[f].item.id \in Ids /\ Key[flush[f].item.id] \in Keys
    BY <1>b, <1>c, <2>1, EntryFacts
  <2>4. \A k \in Keys : nvs'[k] = IF k = Key[flush[f].item.id] THEN flush[f].item ELSE nvs[k]
    BY <1>a, <2>1, <2>3
  <2> QED
    BY <1>c, <2>1, <2>2, <2>3, <2>4 DEF EntryWritten
<1> QED
  BY <1>2, <1>3, <1>4, <1>5, <1>6 DEF Flush
\* What is on its way to the flash is not newer than the table, and what the
\* table has that is newer is flagged, ...
Going ==
    \A f \in Flushers : flush[f].item # Empty =>
        \A i \in Table : entries[i].id = flush[f].item.id
            => flush[f].item.val <= entries[i].val /\ (entries[i] = flush[f].item \/ dirty[i])

\* ... it is not older than what it is written over, ...
Over ==
    \A f \in Flushers :
        flush[f].item # Empty /\ nvs[Key[flush[f].item.id]].id = flush[f].item.id
            => nvs[Key[flush[f].item.id]].val <= flush[f].item.val

\* ... and the flash is not newer than the table.
Behind ==
    \A i \in Table :
        Used(i) /\ nvs[Key[entries[i].id]].id = entries[i].id
            => nvs[Key[entries[i].id]].val <= entries[i].val

ForwardInv == Going /\ Over /\ Behind

LEMMA ForwardInit == Init => ForwardInv
  BY DEF Init, ForwardInv, Going, Over, Behind, Used, Resting

LEMMA ForwardPut ==
    ASSUME BaseInv, ForwardInv, NEW c \in Ids, Put(c)
    PROVE  ForwardInv'
<1> DEFINE i == SlotFor(c)
           e == [id |-> c, val |-> puts + 1, seq |-> seq + 1]
<1>0. TypeOK /\ Written /\ Going /\ Over /\ Behind /\ puts \in Nat
  BY RowTypes DEF BaseInv, ForwardInv
<1>1. /\ i \in Table
      /\ \A j \in Table : entries'[j] = IF j = i THEN e ELSE entries[j]
      /\ \A j \in Table : dirty'[j] = IF j = i THEN TRUE ELSE dirty[j]
  BY PutRow
<1>2. flush' = flush /\ nvs' = nvs
  BY DEF Put
<1>e. e.id = c /\ e.val = puts + 1
  OBVIOUS
<1>3. \A d \in Copies : d.val \in Nat /\ d.val <= puts
  BY <1>0, RowTypes, EntryFacts, Sizes DEF Written
<1>4. /\ \A f \in Flushers : flush[f].item.val \in Nat /\ flush[f].item.val <= puts
      /\ \A k \in Keys : nvs[k].val \in Nat /\ nvs[k].val <= puts
  BY <1>3 DEF Copies
<1> HIDE DEF i, e
<1>5. Going'
  <2>1. ASSUME NEW f \in Flushers, flush[f].item # Empty, NEW j \in Table, entries'[j].id = flush[f].item.id
        PROVE  flush[f].item.val <= entries'[j].val /\ (entries'[j] = flush[f].item \/ dirty'[j])
    <3>1. CASE j = i
      <4>1. entries'[j] = e /\ dirty'[j]
        BY <1>1, <3>1
      <4>2. flush[f].item.val <= puts + 1
        BY <1>0, <1>4
      <4> QED
        BY <1>e, <4>1, <4>2
    <3>2. CASE j # i
      BY <1>0, <1>1, <2>1, <3>2 DEF Going
    <3> QED
      BY <3>1, <3>2
  <2> QED
    BY <1>2, <2>1 DEF Going
<1>6. Over'
  BY <1>0, <1>2 DEF Over
<1>7. Behind'
  <2>1. ASSUME NEW j \in Table, entries'[j] # Empty, nvs[Key[entries'[j].id]].id = entries'[j].id
        PROVE  nvs[Key[entries'[j].id]].val <= entries'[j].val
    <3>1. CASE j = i
      <4>1. entries'[j] = e /\ Key[c] \in Keys
        BY <1>1, <3>1, Sizes
      <4> QED
        BY <1>0, <1>4, <1>e, <4>1
    <3>2. CASE j # i
      BY <1>0, <1>1, <2>1, <3>2 DEF Behind, Used
    <3> QED
      BY <3>1, <3>2
  <2> QED
    BY <1>2, <2>1 DEF Behind, Used
<1> QED
  BY <1>5, <1>6, <1>7 DEF ForwardInv

LEMMA ForwardFlush ==
    ASSUME BaseInv, Single, ForwardInv, NEW f \in Flushers, Flush(f)
    PROVE  ForwardInv'
<1>0. TypeOK /\ OnePlace /\ Going /\ Over /\ Behind /\ UNCHANGED entries
  BY FlushKinds DEF BaseInv, ForwardInv
<1>1. \A g \in Flushers : g = f
  BY DEF Single
<1>2. \A j \in Table : Used(j) => entries[j].id \in Ids /\ Key[entries[j].id] \in Keys
  BY <1>0, RowTypes, EntryFacts DEF Used
<1>3. CASE Still(f) \/ KeyTaken(f)
  <2>1. \A g \in Flushers : flush'[g].item = Empty
    BY <1>1, <1>3 DEF Still, KeyTaken
  <2>2. nvs' = nvs
    BY <1>3 DEF Still, KeyTaken
  <2> QED
    BY <1>0, <2>1, <2>2 DEF ForwardInv, Going, Over, Behind, Used
<1>4. CASE KeyErased(f)
  <2>1. \A g \in Flushers : flush'[g].item = Empty
    BY <1>1, <1>4 DEF KeyErased
  <2>2. \A k \in Keys : nvs'[k] = nvs[k] \/ nvs'[k] = Empty
    BY <1>4 DEF KeyErased
  <2>3. \A j \in Table : Used(j) => entries[j].id # Empty.id
    BY <1>2, Sizes DEF Empty
  <2>4. Behind'
    BY <1>0, <1>2, <2>2, <2>3 DEF Behind, Used
  <2> QED
    BY <2>1, <2>4 DEF ForwardInv, Going, Over
<1>5. CASE EntryTaken(f)
  <2>1. PICK i \in Table : /\ Used(i) /\ flush'[f].item = entries[i]
                           /\ \A j \in Table : dirty'[j] = IF j = i THEN FALSE ELSE dirty[j]
    BY <1>5 DEF EntryTaken
  <2>2. nvs' = nvs
    BY <1>5 DEF EntryTaken
  <2>3. \A j \in Table : entries[j].id = entries[i].id => j = i
    BY <1>0, <2>1 DEF OnePlace
  <2>4. entries[i].val \in Nat
    BY <1>0, RowTypes, EntryFacts, Sizes
  <2>5. Going'
    BY <1>0, <1>1, <2>1, <2>3, <2>4 DEF Going
  <2>6. Over'
    BY <1>0, <1>1, <2>1, <2>2 DEF Over, Behind
  <2>7. Behind'
    BY <1>0, <2>2 DEF Behind, Used
  <2> QED
    BY <2>5, <2>6, <2>7 DEF ForwardInv
<1>6. CASE EntryWritten(f)
  <2>1. \A g \in Flushers : flush'[g].item = Empty
    BY <1>1, <1>6 DEF EntryWritten
  <2>2. /\ \A k \in Keys : nvs'[k] = nvs[k] \/ nvs'[k] = flush[f].item
        /\ flush[f].item # Empty
    <3>1. flush[f].item \in Entry
      BY <1>6 DEF EntryWritten
    <3>2. flush[f].item # Empty
      BY <3>1, Sizes DEF Entry, Empty
    <3> QED
      BY <1>6, <3>2 DEF EntryWritten
  <2>3. Behind'
    BY <1>0, <1>2, <2>2 DEF Behind, Going, Used
  <2> QED
    BY <2>1, <2>3 DEF ForwardInv, Going, Over
<1> QED
  BY <1>3, <1>4, <1>5, <1>6, FlushKinds

LEMMA ForwardRest ==
    ASSUME BaseInv, ForwardInv,
           EraseNvs \/ EraseTable \/ \E n \in 0 .. Capacity : \E order \in [1 .. n -> Keys] : Restart(order)
    PROVE  ForwardInv'
<1>0. TypeOK /\ Keyed /\ Going /\ Over /\ Behind
  BY DEF BaseInv, ForwardInv
<1>1. \A e \in Copies : e # Empty => e.id # Empty.id /\ Key[e.id] \in Keys
  BY <1>0, RowTypes, EntryFacts DEF Empty
<1>2. \A f \in Flushers : flush[f].item \in Copies
  BY DEF Copies
<1>3. CASE EraseNvs
  <2>1. nvs' = [k \in Keys |-> Empty] /\ UNCHANGED <<entries, dirty, flush>>
    BY <1>3 DEF EraseNvs
  <2>2. \A i \in Table : entries[i] \in Copies
    BY DEF Copies
  <2>3. Over'
    BY <1>1, <1>2, <2>1 DEF Over
  <2>4. Behind'
    BY <1>1, <2>1, <2>2 DEF Behind, Used
  <2>5. Going'
    BY <1>0, <2>1 DEF Going
  <2> QED
    BY <2>3, <2>4, <2>5 DEF ForwardInv
<1>4. CASE EraseTable
  <2>1. entries' = [i \in Table |-> Empty] /\ UNCHANGED <<nvs, flush>>
    BY <1>4 DEF EraseTable
  <2>2. Over'
    BY <1>0, <2>1 DEF Over
  <2>3. Behind'
    BY <2>1 DEF Behind, Used
  <2>4. Going'
    BY <1>1, <1>2, <2>1 DEF Going
  <2> QED
    BY <2>2, <2>3, <2>4 DEF ForwardInv
<1>5. ASSUME NEW n \in 0 .. Capacity, NEW order \in [1 .. n -> Keys], Restart(order)
      PROVE  ForwardInv'
  <2>1. /\ \A i \in 1 .. n : order[i] \in Keys /\ nvs[order[i]] # Empty
        /\ entries' = [i \in Table |-> IF i <= n THEN nvs[order[i]] ELSE Empty]
    BY <1>5, RestartRow
  <2>2. nvs' = nvs /\ flush' = [f \in Flushers |-> Resting]
    BY <1>5 DEF Restart
  <2>3. \A i \in Table : entries'[i] = Empty \/ \E k \in Keys : nvs[k] # Empty /\ entries'[i] = nvs[k]
    BY <2>1, Sizes DEF Table
  <2>4. \A k \in Keys : nvs[k] # Empty => nvs[k].val \in Nat /\ Key[nvs[k].id] = k
    BY <1>0, RowTypes, EntryFacts, Sizes DEF Keyed
  <2>5. Behind'
    BY <2>2, <2>3, <2>4 DEF Behind, Used
  <2>6. \A f \in Flushers : flush'[f].item = Empty
    BY <2>2 DEF Resting
  <2> QED
    BY <2>5, <2>6 DEF ForwardInv, Going, Over
<1> QED
  BY <1>3, <1>4, <1>5

LEMMA ForwardStep == Single /\ BaseInv /\ ForwardInv /\ [Next]_vars => ForwardInv'
<1> SUFFICES ASSUME Single, BaseInv, ForwardInv, [Next]_vars PROVE ForwardInv'
  OBVIOUS
<1>1. CASE \E c \in Ids : Put(c)
  BY <1>1, ForwardPut
<1>2. CASE \E f \in Flushers : Flush(f)
  BY <1>2, ForwardFlush
<1>3. CASE EraseNvs \/ EraseTable \/ \E n \in 0 .. Capacity : \E order \in [1 .. n -> Keys] : Restart(order)
  BY <1>3, ForwardRest
<1>4. CASE UNCHANGED vars
  <2>1. UNCHANGED <<entries, dirty, flush, nvs>>
    BY <1>4 DEF vars
  <2> QED
    BY <2>1 DEF ForwardInv, Going, Over, Behind, Used
<1> QED
  BY <1>1, <1>2, <1>3, <1>4 DEF Next

LEMMA NoStepBack ==
    ASSUME Single, BaseInv, ForwardInv, [Next]_vars, NEW k \in Keys, nvs'[k].id = nvs[k].id
    PROVE  nvs'[k].val >= nvs[k].val
<1>0. TypeOK /\ nvs[k] \in Maybe /\ nvs[k].val \in Nat
  BY RowTypes, EntryFacts, Sizes DEF BaseInv
<1>1. nvs'[k] = Empty => nvs[k] = Empty
  <2>1. nvs[k] # Empty => nvs[k].id # Empty.id
    BY <1>0, EntryFacts DEF Empty
  <2> QED
    BY <2>1
<1>2. CASE nvs'[k] = nvs[k] \/ nvs'[k] = Empty
  BY <1>0, <1>1, <1>2
<1>3. CASE nvs'[k] # nvs[k] /\ nvs'[k] # Empty
  <2>1. PICK f \in Flushers : Flush(f)
    <3>1. (\E c \in Ids : Put(c)) => nvs' = nvs
      BY DEF Put
    <3>2. EraseNvs => nvs'[k] = Empty
      BY DEF EraseNvs
    <3>3. EraseTable => nvs' = nvs
      BY DEF EraseTable
    <3>4. (\E n \in 0 .. Capacity : \E order \in [1 .. n -> Keys] : Restart(order)) => nvs' = nvs
      BY DEF Restart
    <3>5. UNCHANGED vars => nvs' = nvs
      BY DEF vars
    <3> QED
      BY <1>3, <3>1, <3>2, <3>3, <3>4, <3>5 DEF Next
  <2>2. EntryWritten(f)
    <3>1. Still(f) \/ KeyTaken(f) \/ EntryTaken(f) => nvs' = nvs
      BY DEF Still, KeyTaken, EntryTaken
    <3>2. KeyErased(f) => nvs'[k] = Empty \/ nvs'[k] = nvs[k]
      BY DEF KeyErased
    <3> QED
      BY <1>3, <2>1, <3>1, <3>2, FlushKinds
  <2>3. flush[f].item \in Entry /\ k = Key[flush[f].item.id] /\ nvs'[k] = flush[f].item
    BY <1>3, <2>2 DEF EntryWritten
  <2>4. flush[f].item # Empty /\ flush[f].item.val \in Nat
    <3>1. flush[f].item \in Maybe
      BY <2>3 DEF Maybe
    <3>2. flush[f].item # Empty
      BY <2>3, Sizes DEF Entry, Empty
    <3> QED
      BY <3>1, <3>2, EntryFacts, Sizes
  <2> QED
    BY <1>0, <2>3, <2>4 DEF ForwardInv, Over
<1> QED
  BY <1>2, <1>3

\* Where store_task writes the flash it never goes back to older settings of a
\* client (store_flush).  Where callers flush, two of them may write one client
\* in the wrong order.
THEOREM NeverBackHolds ==
    ASSUME HasTask
    PROVE  Spec => NeverBack
<1>1. Single
  BY TaskAlone
<1>2. BaseInv /\ ForwardInv /\ [Next]_vars => ForwardInv'
  BY <1>1, ForwardStep
<1>3. Spec => [](BaseInv /\ ForwardInv)
  BY BaseInit, BaseStep, ForwardInit, <1>2, PTL DEF Spec
<1>4. BaseInv /\ ForwardInv /\ [Next]_vars =>
        [\A k \in Keys : nvs'[k].id = nvs[k].id => nvs'[k].val >= nvs[k].val]_vars
  BY <1>1, NoStepBack
<1> QED
  BY <1>3, <1>4, PTL DEF Spec, NeverBack
-----------------------------------------------------------------------------
(* Whether table and flash agree at rest, where no two ids share a key       *)

Apart == \A x, y \in Ids : Key[x] = Key[y] => x = y

\* Who has room for every client erases none.
NoErase == ~Evicting => erase = <<>> /\ \A f \in Flushers : flush[f].key = NoKey

\* InSync, without the program counters.
Synced ==
    reset.pc # "nvs done" =>
        \A i \in Table :
            Used(i) /\ ~dirty[i] /\ (\A f \in Flushers : flush[f].item # entries[i])
                => \/ nvs[Key[entries[i].id]] = entries[i]
                   \/ Evicting /\ nvs[Key[entries[i].id]] = Empty

LEMMA PlaceLeft ==
    ASSUME BaseInv, ~Evicting, NEW c \in Ids, \A i \in Table : Used(i)
    PROVE  \E i \in Table : entries[i].id = c
<1> SUFFICES ASSUME \A i \in Table : entries[i].id # c PROVE FALSE
  OBVIOUS
<1>1. Cardinality(Held) = Capacity
  BY FullTable
<1>2. Held \subseteq Ids \ {c}
  <2>1. \A i \in Table : entries[i] # Empty => entries[i].id \in Ids
    BY RowTypes, EntryFacts DEF BaseInv
  <2> QED
    BY <2>1 DEF Held
<1>3. /\ IsFiniteSet(Ids \ {c}) /\ Cardinality(Ids \ {c}) = Cardinality(Ids) - 1
      /\ Cardinality(Ids) \in Nat
  BY Sizes, FS_RemoveElement, FS_CardinalityType
<1>4. Cardinality(Held) <= Cardinality(Ids \ {c})
  BY <1>2, <1>3, FS_Subset
<1>5. Cardinality(Ids) <= Capacity
  BY <1>3, Sizes DEF Evicting
<1> QED
  BY <1>1, <1>3, <1>4, <1>5, Sizes

LEMMA NoEraseStep == BaseInv /\ NoErase /\ [Next]_vars => NoErase'
<1> SUFFICES ASSUME BaseInv, NoErase, [Next]_vars, ~Evicting
             PROVE  erase' = <<>> /\ \A f \in Flushers : flush'[f].key = NoKey
  BY DEF NoErase
<1>0. erase = <<>> /\ \A f \in Flushers : flush[f].key = NoKey
  BY DEF NoErase
<1>1. ASSUME NEW c \in Ids, Put(c) PROVE erase' = erase /\ flush' = flush
  <2> DEFINE i == SlotFor(c)
  <2>1. entries[i].id = c \/ entries[i] = Empty
    BY <1>1, PutRow, PlaceLeft DEF Used
  <2>2. erase' = IF entries[i] # Empty /\ entries[i].id # c /\ Key[entries[i].id] # Key[c] /\ Len(erase) < EraseRoom
                 THEN Append(erase, Key[entries[i].id]) ELSE erase
    BY <1>1, Zenon DEF Put
  <2> HIDE DEF i
  <2> QED
    BY <1>1, <2>1, <2>2 DEF Put
<1>2. ASSUME NEW f \in Flushers, Flush(f)
      PROVE  erase' = <<>> /\ \A g \in Flushers : flush'[g].key = NoKey
  <2>1. TypeOK
    BY DEF BaseInv
  <2>2. Still(f) \/ EntryTaken(f) \/ EntryWritten(f)
    <3>1. ~KeyTaken(f)
      <4>1. Len(erase) = 0
        BY <1>0
      <4> QED
        BY <4>1 DEF KeyTaken
    <3>2. ~KeyErased(f)
      BY <1>0, Sizes DEF KeyErased
    <3> QED
      BY <1>2, <3>1, <3>2, FlushKinds
  <2>3. erase' = erase /\ flush'[f].key = NoKey
    BY <2>2 DEF Still, EntryTaken, EntryWritten
  <2>4. \A g \in Flushers : g # f => flush'[g] = flush[g]
    BY <1>2, <2>1 DEF TypeOK, Flush, StartFlush, TakeKey, EraseKey, TakeEntry, WriteEntry
  <2> QED
    BY <1>0, <2>3, <2>4
<1>3. CASE EraseNvs \/ EraseTable \/ UNCHANGED vars
  BY <1>0, <1>3 DEF EraseNvs, EraseTable, vars
<1>4. ASSUME NEW n \in 0 .. Capacity, NEW order \in [1 .. n -> Keys], Restart(order)
      PROVE  erase' = <<>> /\ \A f \in Flushers : flush'[f].key = NoKey
  BY <1>4 DEF Restart, Resting
<1> QED
  BY <1>0, <1>1, <1>2, <1>3, <1>4 DEF Next

LEMMA SyncedFlush ==
    ASSUME BaseInv, Single, Apart, ForwardInv, NoErase, Synced, NEW f \in Flushers, Flush(f)
    PROVE  Synced'
<1>0. /\ TypeOK /\ OnePlace /\ Going
      /\ entries' = entries /\ reset' = reset
      /\ \A g \in Flushers : g = f
  BY FlushKinds DEF BaseInv, ForwardInv, Single
<1> SUFFICES ASSUME reset.pc # "nvs done", NEW i \in Table, Used(i), ~dirty'[i], flush'[f].item # entries[i]
             PROVE  \/ nvs'[Key[entries[i].id]] = entries[i]
                    \/ Evicting /\ nvs'[Key[entries[i].id]] = Empty
  BY <1>0 DEF Synced, Used
<1> DEFINE k == Key[entries[i].id]
<1>1. entries[i].id \in Ids /\ k \in Keys
  BY <1>0, RowTypes, EntryFacts DEF Used
<1>2. ~dirty[i] /\ flush[f].item # entries[i]
        => nvs[k] = entries[i] \/ (Evicting /\ nvs[k] = Empty)
  <2>1. flush[f].item # entries[i] => \A g \in Flushers : flush[g].item # entries[i]
    BY <1>0
  <2> QED
    BY <2>1 DEF Synced
<1> HIDE DEF k
<1>3. CASE Still(f) \/ KeyTaken(f)
  <2>1. nvs' = nvs /\ (dirty'[i] <=> dirty[i]) /\ flush[f].item = Empty
    BY <1>3 DEF Still, KeyTaken
  <2> QED
    BY <1>2, <2>1 DEF Used, k
<1>4. CASE KeyErased(f)
  <2>1. dirty' = dirty /\ flush[f].item = Empty /\ (nvs'[k] = nvs[k] \/ nvs'[k] = Empty)
    BY <1>1, <1>4 DEF KeyErased
  <2>2. Evicting
    BY <1>4, Sizes DEF NoErase, KeyErased
  <2> QED
    BY <1>2, <2>1, <2>2 DEF Used, k
<1>5. CASE EntryTaken(f)
  <2>1. nvs' = nvs /\ flush[f].item = Empty
    BY <1>5 DEF EntryTaken
  <2>2. ~dirty[i]
    <3>1. PICK j \in Table : /\ flush'[f].item = entries[j]
                             /\ \A h \in Table : dirty'[h] = IF h = j THEN FALSE ELSE dirty[h]
      BY <1>5 DEF EntryTaken
    <3>2. i # j
      BY <3>1
    <3> QED
      BY <3>1, <3>2
  <2> QED
    BY <1>2, <2>1, <2>2 DEF Used, k
<1>6. CASE EntryWritten(f)
  <2>1. /\ dirty' = dirty /\ flush[f].item \in Entry /\ flush[f].item.id \in Ids
        /\ nvs'[k] = IF k = Key[flush[f].item.id] THEN flush[f].item ELSE nvs[k]
    BY <1>1, <1>6 DEF EntryWritten
  <2>2. CASE k = Key[flush[f].item.id]
    <3>1. entries[i].id = flush[f].item.id
      BY <1>1, <2>1, <2>2 DEF Apart, k
    <3>2. flush[f].item # Empty
      <4>1. Empty.id = NoId /\ NoId \notin Ids
        BY Sizes DEF Empty
      <4> QED
        BY <2>1, <4>1
    <3>3. entries[i] = flush[f].item
      BY <1>0, <2>1, <3>1, <3>2 DEF Going
    <3> QED
      BY <2>1, <2>2, <3>3 DEF k
  <2>3. CASE k # Key[flush[f].item.id]
    <3>1. flush[f].item # entries[i]
      BY <2>3 DEF k
    <3> QED
      BY <1>2, <2>1, <2>3, <3>1 DEF k
  <2> QED
    BY <2>2, <2>3
<1> QED
  BY <1>3, <1>4, <1>5, <1>6, FlushKinds

LEMMA SyncedRest ==
    ASSUME BaseInv, Synced, [Next]_vars, ~ \E f \in Flushers : Flush(f)
    PROVE  Synced'
<1>0. TypeOK /\ Keyed
  BY DEF BaseInv
<1>1. ASSUME NEW c \in Ids, Put(c) PROVE Synced'
  <2> DEFINE i == SlotFor(c)
             e == [id |-> c, val |-> puts + 1, seq |-> seq + 1]
  <2>1. /\ \A j \in Table : entries'[j] = IF j = i THEN e ELSE entries[j]
        /\ \A j \in Table : dirty'[j] = IF j = i THEN TRUE ELSE dirty[j]
    BY <1>1, PutRow
  <2>2. UNCHANGED <<flush, nvs, reset>>
    BY <1>1 DEF Put
  <2> HIDE DEF i, e
  <2>3. \A j \in Table : ~dirty'[j] => ~dirty[j] /\ entries'[j] = entries[j]
    BY <2>1
  <2> QED
    BY <2>2, <2>3 DEF Synced, Used
<1>2. CASE EraseNvs
  BY <1>2 DEF EraseNvs, Synced
<1>3. CASE EraseTable
  <2>1. \A i \in Table : entries'[i] = Empty
    BY <1>3 DEF EraseTable
  <2> QED
    BY <2>1 DEF Synced, Used
<1>4. ASSUME NEW n \in 0 .. Capacity, NEW order \in [1 .. n -> Keys], Restart(order)
      PROVE  Synced'
  <2>1. /\ \A i \in 1 .. n : order[i] \in Keys /\ nvs[order[i]] # Empty
        /\ entries' = [i \in Table |-> IF i <= n THEN nvs[order[i]] ELSE Empty]
    BY <1>4, RestartRow
  <2>2. nvs' = nvs
    BY <1>4 DEF Restart
  <2>3. \A i \in Table : entries'[i] = Empty \/ \E k \in Keys : nvs[k] # Empty /\ entries'[i] = nvs[k]
    BY <2>1, Sizes DEF Table
  <2>4. \A i \in Table : entries'[i] # Empty => nvs'[Key[entries'[i].id]] = entries'[i]
    BY <1>0, <2>2, <2>3 DEF Keyed
  <2> QED
    BY <2>4 DEF Synced, Used
<1>5. CASE UNCHANGED vars
  <2>1. UNCHANGED <<entries, dirty, flush, nvs, reset>>
    BY <1>5 DEF vars
  <2> QED
    BY <2>1 DEF Synced, Used
<1> QED
  BY <1>1, <1>2, <1>3, <1>4, <1>5 DEF Next

SyncInv == BaseInv /\ ForwardInv /\ NoErase /\ Synced

LEMMA SyncInit == Init => SyncInv
<1>1. Init => NoErase /\ Synced
  BY DEF Init, NoErase, Synced, Used, Resting
<1> QED
  BY <1>1, BaseInit, ForwardInit DEF SyncInv

LEMMA SyncStep ==
    ASSUME Single, Apart, SyncInv, [Next]_vars
    PROVE  SyncInv'
<1>1. BaseInv' /\ ForwardInv' /\ NoErase'
  BY BaseStep, ForwardStep, NoEraseStep DEF SyncInv
<1>2. Synced'
  BY SyncedFlush, SyncedRest DEF SyncInv
<1> QED
  BY <1>1, <1>2 DEF SyncInv

LEMMA SyncKept ==
    ASSUME HasTask, Apart
    PROVE  Spec => []SyncInv
<1>1. SyncInv /\ [Next]_vars => SyncInv'
  BY TaskAlone, SyncStep
<1> QED
  BY SyncInit, <1>1, PTL DEF Spec

LEMMA InSyncOf == SyncInv => InSync
<1> SUFFICES ASSUME SyncInv, reset.pc # "nvs done", NEW i \in Table,
                    entries[i] # Empty, ~dirty[i], ~InFlight(i)
             PROVE  \/ nvs[Key[entries[i].id]] = entries[i]
                    \/ Evicting /\ nvs[Key[entries[i].id]] = Empty
  BY DEF InSync
<1>1. \A f \in Flushers : flush[f].item # entries[i]
  BY DEF SyncInv, BaseInv, Flushing, InFlight
<1> QED
  BY <1>1 DEF SyncInv, Synced, Used

\* Where store_task runs and no two ids have one key, what is stored is stored
\* (client_store_put, store_flush).
THEOREM InSyncHolds ==
    ASSUME HasTask, Apart
    PROVE  Spec => []InSync
<1> QED
  BY SyncKept, InSyncOf, PTL

\* At rest nothing is flagged and nothing is under way.
LEMMA RestClean ==
    ASSUME BaseInv, AtRest, NEW i \in Table
    PROVE  ~dirty[i] /\ \A f \in Flushers : flush[f].item = Empty
<1>1. ~(notified > 0)
  BY DEF AtRest
<1>2. \A f \in Flushers : ~ToCome(f, i) /\ flush[f].pc # "write"
  BY DEF AtRest, ToCome
<1>3. Noticed /\ Flushing
  BY DEF BaseInv
<1> QED
  BY <1>1, <1>2, <1>3 DEF Noticed, Flushing

LEMMA SettledOf ==
    ASSUME SyncInv, ~Evicting, reset.pc # "nvs done"
    PROVE  Settled
<1>1. BaseInv /\ Synced
  BY DEF SyncInv
<1>2. ASSUME AtRest, NEW i \in Table, entries[i] # Empty
      PROVE  nvs[Key[entries[i].id]] = entries[i]
  <2>1. ~dirty[i] /\ Used(i) /\ \A f \in Flushers : flush[f].item # entries[i]
    BY <1>1, <1>2, RestClean DEF Used
  <2> QED
    BY <1>1, <2>1 DEF Synced
<1> QED
  BY <1>2 DEF Settled

\* Where there is also a place for every client, the next power-up finds every
\* client as the table has it, once the flush is over and nothing changed
\* since, but for the middle of a factory reset: only eviction breaks that
\* (store_flush, client_store_erase_all).
THEOREM SettledHolds ==
    ASSUME HasTask, Apart, ~Evicting
    PROVE  Spec => [](reset.pc # "nvs done" => Settled)
<1>1. SyncInv => (reset.pc # "nvs done" => Settled)
  BY SettledOf
<1> QED
  BY SyncKept, <1>1, PTL
-----------------------------------------------------------------------------
(* Whether an evicted client leaves the flash                                *)

\* The list of keys to erase has room for whoever is evicted.
RoomLeft == [][(\E c \in Ids : Put(c)) => Len(erase) < EraseRoom]_vars

Power == crashes = 0 /\ reset.pc = "never"

\* A flush that will come by key k, to erase it or to write over it.
Doomed(k) ==
    \/ \E i \in 1 .. Len(erase) : erase[i] = k
    \/ \E i \in Table : dirty[i] /\ Key[entries[i].id] = k

\* A client evicted while its entry is on its way to the flash is erased after.
LateWrite ==
    Power => \A f \in Flushers :
        flush[f].item # Empty /\ flush[f].item.id \notin Held => Doomed(Key[flush[f].item.id])

\* NoOrphan, with the disjuncts store_flush looks at taken together.
Orphans ==
    Power => \A k \in Keys :
        nvs[k] # Empty /\ nvs[k].id \notin Held
            => \/ Doomed(k)
               \/ \E f \in Flushers :
                    \/ flush[f].key = k
                    \/ flush[f].item # Empty /\ Key[flush[f].item.id] = k

OrphanInv == LateWrite /\ Orphans

LEMMA HeldIds ==
    ASSUME TypeOK, NEW x \in Ids
    PROVE  x \in Held <=> \E i \in Table : entries[i].id = x
<1>1. \A i \in Table : entries[i].id \in Ids => entries[i] # Empty
  BY RowTypes, EntryFacts
<1> QED
  BY <1>1 DEF Held

\* A put keeps what is doomed doomed, and dooms the client it evicts.
LEMMA PutDooms ==
    ASSUME BaseInv, NEW c \in Ids, Put(c), Len(erase) < EraseRoom
    PROVE  /\ \A k \in Keys : Doomed(k) => Doomed(k)'
           /\ \A x \in Ids : x \in Held => x \in Held' \/ Doomed(Key[x])'
<1> DEFINE i == SlotFor(c)
           e == [id |-> c, val |-> puts + 1, seq |-> seq + 1]
           out == entries[i]
<1>0. TypeOK /\ TypeOK' /\ Noticed
  BY BasePut DEF BaseInv
<1>1. /\ i \in Table
      /\ \A j \in Table : entries'[j] = IF j = i THEN e ELSE entries[j]
      /\ \A j \in Table : dirty'[j] = IF j = i THEN TRUE ELSE dirty[j]
  BY PutRow
<1>2. erase' = IF out # Empty /\ out.id # c /\ Key[out.id] # Key[c]
               THEN Append(erase, Key[out.id]) ELSE erase
  BY DEF Put
<1>3. e.id = c
  OBVIOUS
<1> HIDE DEF i, e, out
<1>4. out \in Maybe /\ (out # Empty => out.id \in Ids /\ Key[out.id] \in Keys)
  BY <1>0, <1>1, RowTypes, EntryFacts DEF out
<1>5. erase \in Seq(Keys)
  BY <1>0 DEF TypeOK
<1>6. \A k \in Keys : (\E n \in 1 .. Len(erase) : erase[n] = k)
                        => \E n \in 1 .. Len(erase') : erase'[n] = k
  <2>1. CASE erase' = erase
    BY <2>1
  <2>2. CASE out # Empty /\ erase' = Append(erase, Key[out.id])
    <3> DEFINE q == Key[out.id]
    <3>1. q \in Keys /\ erase' = Append(erase, q)
      BY <1>4, <2>2
    <3> HIDE DEF q
    <3>2. /\ Len(erase') = Len(erase) + 1 /\ Len(erase) \in Nat
          /\ \A n \in 1 .. Len(erase) : erase'[n] = erase[n]
      BY <1>5, <3>1
    <3>3. \A n \in 1 .. Len(erase) : n \in 1 .. Len(erase')
      BY <3>2
    <3> QED
      BY <3>2, <3>3
  <2> QED
    BY <1>2, <2>1, <2>2
<1>7. ASSUME NEW q \in Keys, out # Empty, Key[out.id] = q PROVE Doomed(q)'
  <2>1. CASE Key[out.id] = Key[c]
    <3>1. dirty'[i] /\ Key[entries'[i].id] = q
      BY <1>1, <1>3, <1>7, <2>1
    <3> QED
      BY <1>1, <3>1 DEF Doomed
  <2>2. CASE out.id # c /\ Key[out.id] # Key[c]
    <3>1. erase' = Append(erase, q)
      BY <1>2, <1>7, <2>2
    <3>2. Len(erase') \in 1 .. Len(erase') /\ erase'[Len(erase')] = q
      BY <1>5, <3>1
    <3> QED
      BY <3>2 DEF Doomed
  <2> QED
    BY <2>1, <2>2
<1>8. ASSUME NEW k \in Keys, Doomed(k) PROVE Doomed(k)'
  <2>1. CASE \E n \in 1 .. Len(erase) : erase[n] = k
    BY <1>6, <2>1 DEF Doomed
  <2>2. ASSUME NEW j \in Table, dirty[j], Key[entries[j].id] = k PROVE Doomed(k)'
    <3>1. CASE j = i
      <4>1. out # Empty
        BY <1>0, <1>1, <2>2, <3>1 DEF Noticed, Used, out
      <4> QED
        BY <1>7, <1>8, <2>2, <3>1, <4>1 DEF out
    <3>2. CASE j # i
      <4>1. dirty'[j] /\ entries'[j] = entries[j]
        BY <1>1, <2>2, <3>2
      <4> QED
        BY <2>2, <4>1 DEF Doomed
    <3> QED
      BY <3>1, <3>2
  <2> QED
    BY <1>8, <2>1, <2>2 DEF Doomed
<1>9. ASSUME NEW x \in Ids, x \in Held PROVE x \in Held' \/ Doomed(Key[x])'
  <2>1. PICK j \in Table : entries[j] # Empty /\ entries[j].id = x
    BY <1>9 DEF Held
  <2>2. CASE j = i
    <3>1. out # Empty /\ out.id = x /\ Key[x] \in Keys
      BY <2>1, <2>2, Sizes DEF out
    <3> QED
      BY <1>7, <3>1
  <2>3. CASE j # i
    <3>1. entries'[j] = entries[j]
      BY <1>1, <2>3
    <3> QED
      BY <2>1, <3>1 DEF Held
  <2> QED
    BY <2>2, <2>3
<1> QED
  BY <1>8, <1>9

LEMMA OrphanPut ==
    ASSUME BaseInv, OrphanInv, NEW c \in Ids, Put(c), Len(erase) < EraseRoom
    PROVE  OrphanInv'
<1>0. TypeOK /\ Keyed
  BY DEF BaseInv
<1>1. UNCHANGED <<flush, nvs, crashes, reset>>
  BY DEF Put
<1>2. /\ \A e \in Copies : e # Empty => e.id \in Ids /\ Key[e.id] \in Keys
      /\ \A f \in Flushers : flush[f].item \in Copies
      /\ \A k \in Keys : nvs[k] \in Copies
  <2>1. \A e \in Copies : e # Empty => e.id \in Ids /\ Key[e.id] \in Keys
    BY <1>0, RowTypes, EntryFacts
  <2> QED
    BY <2>1 DEF Copies
<1>3. LateWrite'
  <2>1. ASSUME Power, NEW f \in Flushers, flush[f].item # Empty, flush[f].item.id \notin Held',
               NEW k \in Keys, k = Key[flush[f].item.id]
        PROVE  Doomed(k)'
    <3>1. flush[f].item.id \in Ids
      BY <1>2, <2>1
    <3>2. CASE flush[f].item.id \in Held
      BY <2>1, <3>1, <3>2, PutDooms
    <3>3. CASE flush[f].item.id \notin Held
      BY <2>1, <3>3, PutDooms DEF OrphanInv, LateWrite
    <3> QED
      BY <3>2, <3>3
  <2>2. \A f \in Flushers : flush[f].item # Empty => Key[flush[f].item.id] \in Keys
    BY <1>2
  <2> QED
    BY <1>1, <2>1, <2>2 DEF LateWrite, Power
<1>4. Orphans'
  <2>1. ASSUME Power, NEW k \in Keys, nvs[k] # Empty, nvs[k].id \notin Held'
        PROVE  \/ Doomed(k)'
               \/ \E f \in Flushers : \/ flush[f].key = k
                                      \/ flush[f].item # Empty /\ Key[flush[f].item.id] = k
    <3>1. nvs[k].id \in Ids /\ Key[nvs[k].id] = k
      BY <1>0, <1>2, <2>1 DEF Keyed
    <3>2. CASE nvs[k].id \in Held
      BY <2>1, <3>1, <3>2, PutDooms
    <3>3. CASE nvs[k].id \notin Held
      <4>1. \/ Doomed(k)
            \/ \E f \in Flushers : \/ flush[f].key = k
                                   \/ flush[f].item # Empty /\ Key[flush[f].item.id] = k
        BY <2>1, <3>3 DEF OrphanInv, Orphans
      <4> QED
        BY <4>1, PutDooms
    <3> QED
      BY <3>2, <3>3
  <2> QED
    BY <1>1, <2>1 DEF Orphans, Power
<1> QED
  BY <1>3, <1>4 DEF OrphanInv

LEMMA OrphanFlush ==
    ASSUME Single, BaseInv, OrphanInv, NEW f \in Flushers, Flush(f)
    PROVE  OrphanInv'
<1>0. /\ TypeOK /\ Keyed /\ LateWrite /\ Orphans
      /\ UNCHANGED <<entries, crashes, reset>>
      /\ \A g \in Flushers : g = f
  BY FlushKinds DEF BaseInv, OrphanInv, Single
<1>1. Held' = Held /\ (Power' <=> Power)
  BY <1>0 DEF Held, Power
<1>2. ASSUME flush'[f].item = Empty PROVE LateWrite'
  BY <1>0, <1>2 DEF LateWrite
<1>3. SUFFICES ASSUME Power
               PROVE  /\ LateWrite'
                      /\ \A k \in Keys : nvs'[k] # Empty /\ nvs'[k].id \notin Held
                           => \/ Doomed(k)'
                              \/ flush'[f].key = k
                              \/ flush'[f].item # Empty /\ Key[flush'[f].item.id] = k
  BY <1>0, <1>1 DEF OrphanInv, LateWrite, Orphans
<1>4. \A k \in Keys : nvs[k] # Empty /\ nvs[k].id \notin Held
        => \/ Doomed(k)
           \/ flush[f].key = k
           \/ flush[f].item # Empty /\ Key[flush[f].item.id] = k
  BY <1>0, <1>3 DEF Orphans
<1>5. CASE Still(f)
  <2>1. \A k \in Keys : Doomed(k) => Doomed(k)'
    BY <1>0, <1>5 DEF Doomed, Still
  <2>2. nvs' = nvs /\ flush[f].key = NoKey /\ flush[f].item = Empty /\ flush'[f].item = Empty
    BY <1>5 DEF Still
  <2>3. \A k \in Keys : k # NoKey
    BY Sizes
  <2> QED
    BY <1>2, <1>4, <2>1, <2>2, <2>3
<1>6. CASE KeyTaken(f)
  <2>1. ASSUME NEW k \in Keys, Doomed(k) PROVE Doomed(k)' \/ flush'[f].key = k
    <3>1. CASE \E i \in Table : dirty[i] /\ Key[entries[i].id] = k
      BY <1>0, <1>6, <3>1 DEF Doomed, KeyTaken
    <3>2. ASSUME NEW n \in 1 .. Len(erase), erase[n] = k PROVE Doomed(k)' \/ flush'[f].key = k
      <4>1. /\ erase \in Seq(Keys) /\ Len(erase) \in Nat \ {0}
            /\ erase' = SubSeq(erase, 1, Len(erase) - 1) /\ flush'[f].key = erase[Len(erase)]
        BY <1>0, <1>6 DEF TypeOK, KeyTaken
      <4>2. CASE n = Len(erase)
        BY <3>2, <4>1, <4>2
      <4>3. CASE n # Len(erase)
        <5>1. n \in 1 .. Len(erase') /\ erase'[n] = erase[n]
          BY <4>1, <4>3
        <5> QED
          BY <3>2, <5>1 DEF Doomed
      <4> QED
        BY <4>2, <4>3
    <3> QED
      BY <2>1, <3>1, <3>2 DEF Doomed
  <2>2. nvs' = nvs /\ flush[f].key = NoKey /\ flush[f].item = Empty /\ flush'[f].item = Empty
    BY <1>6 DEF KeyTaken
  <2>3. \A k \in Keys : k # NoKey
    BY Sizes
  <2> QED
    BY <1>2, <1>4, <2>1, <2>2, <2>3
<1>7. CASE KeyErased(f)
  <2>1. \A k \in Keys : Doomed(k) => Doomed(k)'
    BY <1>0, <1>7 DEF Doomed, KeyErased
  <2>2. flush[f].item = Empty /\ flush'[f].item = Empty
    BY <1>7 DEF KeyErased
  <2>3. \A k \in Keys : nvs'[k] # Empty => nvs'[k] = nvs[k] /\ flush[f].key # k
    BY <1>7 DEF KeyErased
  <2> QED
    BY <1>2, <1>4, <2>1, <2>2, <2>3
<1>8. CASE EntryTaken(f)
  <2>1. PICK i \in Table : /\ Used(i) /\ flush'[f].item = entries[i]
                           /\ \A j \in Table : dirty'[j] = IF j = i THEN FALSE ELSE dirty[j]
    BY <1>8 DEF EntryTaken
  <2>2. nvs' = nvs /\ flush[f].key = NoKey /\ flush[f].item = Empty /\ erase' = erase
    BY <1>8 DEF EntryTaken
  <2>3. ASSUME NEW k \in Keys, Doomed(k) PROVE Doomed(k)' \/ Key[flush'[f].item.id] = k
    <3>1. CASE \E n \in 1 .. Len(erase) : erase[n] = k
      BY <2>2, <3>1 DEF Doomed
    <3>2. ASSUME NEW j \in Table, dirty[j], Key[entries[j].id] = k
          PROVE  Doomed(k)' \/ Key[flush'[f].item.id] = k
      <4>1. CASE j = i
        BY <2>1, <3>2, <4>1
      <4>2. CASE j # i
        <5>1. dirty'[j] /\ Key[entries'[j].id] = k
          BY <1>0, <2>1, <3>2, <4>2
        <5> QED
          BY <5>1 DEF Doomed
      <4> QED
        BY <4>1, <4>2
    <3> QED
      BY <2>3, <3>1, <3>2 DEF Doomed
  <2>4. flush'[f].item.id \in Held /\ flush'[f].item # Empty
    BY <2>1 DEF Held, Used
  <2>5. LateWrite'
    BY <1>0, <1>1, <2>4 DEF LateWrite
  <2>6. \A k \in Keys : k # NoKey
    BY Sizes
  <2> QED
    BY <1>4, <2>2, <2>3, <2>4, <2>5, <2>6
<1>9. CASE EntryWritten(f)
  <2>1. \A k \in Keys : Doomed(k) => Doomed(k)'
    BY <1>0, <1>9 DEF Doomed, EntryWritten
  <2>2. /\ flush'[f].item = Empty /\ flush[f].key = NoKey
        /\ \A k \in Keys : nvs'[k] = IF k = Key[flush[f].item.id] THEN flush[f].item ELSE nvs[k]
        /\ flush[f].item.id \in Ids /\ Key[flush[f].item.id] \in Keys
    BY <1>9 DEF EntryWritten
  <2>3. flush[f].item # Empty
    BY <2>2, Sizes DEF Empty
  <2>4. ASSUME NEW k \in Keys, nvs'[k] # Empty, nvs'[k].id \notin Held PROVE Doomed(k)
    <3>1. CASE k = Key[flush[f].item.id]
      BY <1>0, <1>3, <2>2, <2>3, <2>4, <3>1 DEF LateWrite
    <3>2. CASE k # Key[flush[f].item.id]
      <4>1. nvs'[k] = nvs[k] /\ k # NoKey
        BY <2>2, <3>2, Sizes
      <4> QED
        BY <1>4, <2>2, <2>4, <3>2, <4>1
    <3> QED
      BY <3>1, <3>2
  <2> QED
    BY <1>2, <2>1, <2>2, <2>4
<1> QED
  BY <1>5, <1>6, <1>7, <1>8, <1>9, FlushKinds

LEMMA OrphanStep ==
    ASSUME Single, BaseInv, OrphanInv, [Next]_vars, (\E c \in Ids : Put(c)) => Len(erase) < EraseRoom
    PROVE  OrphanInv'
<1>1. CASE \E c \in Ids : Put(c)
  BY <1>1, OrphanPut
<1>2. CASE \E f \in Flushers : Flush(f)
  BY <1>2, OrphanFlush
<1>3. CASE EraseNvs \/ EraseTable
  <2>1. reset'.pc # "never"
    <3>1. CASE EraseNvs
      BY <3>1 DEF EraseNvs
    <3>2. CASE EraseTable
      <4>1. reset \in [pc : {"never", "nvs done", "done"}, after : Vals]
        BY DEF BaseInv, TypeOK
      <4>2. reset' = [reset EXCEPT !.pc = "done"]
        BY <3>2 DEF EraseTable
      <4> QED
        BY <4>1, <4>2
    <3> QED
      BY <1>3, <3>1, <3>2
  <2> QED
    BY <2>1 DEF OrphanInv, LateWrite, Orphans, Power
<1>4. ASSUME NEW n \in 0 .. Capacity, NEW order \in [1 .. n -> Keys], Restart(order)
      PROVE  OrphanInv'
  <2>1. crashes' # 0
    <3>1. crashes' = crashes + 1
      BY <1>4 DEF Restart
    <3>2. crashes \in Nat
      BY RowTypes DEF BaseInv
    <3> QED
      BY <3>1, <3>2
  <2> QED
    BY <2>1 DEF OrphanInv, LateWrite, Orphans, Power
<1>5. CASE UNCHANGED vars
  <2>1. UNCHANGED <<entries, dirty, erase, flush, nvs, crashes, reset>>
    BY <1>5 DEF vars
  <2> QED
    BY <2>1 DEF OrphanInv, LateWrite, Orphans, Power, Doomed, Held
<1> QED
  BY <1>1, <1>2, <1>3, <1>4, <1>5 DEF Next

LEMMA OrphanLast == OrphanInv => NoOrphan
  BY DEF OrphanInv, Orphans, NoOrphan, Power, Doomed

\* As long as the list has room, no evicted client stays in the flash for ever
\* before the first power failure, even where ids share keys (client_store_put,
\* store_flush).
THEOREM NoOrphanHolds ==
    ASSUME HasTask
    PROVE  Spec /\ RoomLeft => []NoOrphan
<1>1. Init => OrphanInv
  BY DEF Init, OrphanInv, LateWrite, Orphans, Resting
<1>2. BaseInv /\ OrphanInv /\ [Next]_vars /\ [(\E c \in Ids : Put(c)) => Len(erase) < EraseRoom]_vars
        => OrphanInv'
  <2>1. SUFFICES ASSUME BaseInv, OrphanInv, [Next]_vars,
                        [(\E c \in Ids : Put(c)) => Len(erase) < EraseRoom]_vars
                 PROVE  OrphanInv'
    OBVIOUS
  <2>2. (\E c \in Ids : Put(c)) => Len(erase) < EraseRoom
    <3>1. (\E c \in Ids : Put(c)) => vars' # vars
      <4>1. (\E c \in Ids : Put(c)) => puts' = puts + 1
        BY DEF Put
      <4>2. puts \in Nat
        BY <2>1, RowTypes DEF BaseInv
      <4>3. vars' = vars => puts' = puts
        BY DEF vars
      <4> QED
        BY <4>1, <4>2, <4>3
    <3> QED
      BY <2>1, <3>1
  <2> QED
    BY <2>1, <2>2, TaskAlone, OrphanStep
<1>3. Spec /\ RoomLeft => []OrphanInv
  BY BaseInit, BaseStep, <1>1, <1>2, PTL DEF Spec, RoomLeft
<1> QED
  BY <1>3, OrphanLast, PTL

\* Each put adds at most one key.
ListShort == Len(erase) <= puts

LEMMA FrontLength ==
    ASSUME NEW S, NEW s \in Seq(S), NEW m \in Nat, Len(s) <= m, Len(s) # 0
    PROVE  Len(SubSeq(s, 1, Len(s) - 1)) <= m
<1>1. Len(s) \in Nat /\ Len(s) > 0
  OBVIOUS
<1> QED
  BY <1>1

LEMMA ListTypes ==
    ASSUME BaseInv
    PROVE  erase \in Seq(Keys) /\ Len(erase) \in Nat /\ puts \in Nat
<1>1. erase \in Seq(Keys)
  BY DEF BaseInv, TypeOK
<1>2. puts \in Nat
  BY RowTypes DEF BaseInv
<1> QED
  BY <1>1, <1>2

LEMMA ListShortStep == BaseInv /\ ListShort /\ [Next]_vars => ListShort'
<1> SUFFICES ASSUME BaseInv, ListShort, [Next]_vars PROVE Len(erase') <= puts'
  BY DEF ListShort
<1>0. erase \in Seq(Keys) /\ Len(erase) \in Nat /\ Len(erase) <= puts /\ puts \in Nat
  BY ListTypes DEF ListShort
<1>1. ASSUME NEW c \in Ids, Put(c) PROVE Len(erase') <= puts'
  <2> DEFINE q == Key[entries[SlotFor(c)].id]
  <2>1. puts' = puts + 1 /\ (erase' = erase \/ erase' = Append(erase, q))
    BY <1>1 DEF Put
  <2> HIDE DEF q
  <2>2. Len(Append(erase, q)) = Len(erase) + 1
    BY <1>0
  <2> QED
    BY <1>0, <2>1, <2>2
<1>2. ASSUME NEW f \in Flushers, Flush(f) PROVE Len(erase') <= puts'
  <2>1. puts' = puts /\ (Still(f) \/ KeyTaken(f) \/ KeyErased(f) \/ EntryTaken(f) \/ EntryWritten(f))
    BY <1>2, FlushKinds
  <2>2. CASE erase' = erase
    BY <1>0, <2>1, <2>2
  <2>3. CASE KeyTaken(f)
    <3>1. Len(erase) \in Nat \ {0} /\ erase' = SubSeq(erase, 1, Len(erase) - 1)
      BY <2>3 DEF KeyTaken
    <3>2. Len(SubSeq(erase, 1, Len(erase) - 1)) <= puts
      BY <1>0, <3>1, FrontLength
    <3> QED
      BY <2>1, <3>1, <3>2
  <2> QED
    BY <2>1, <2>2, <2>3 DEF Still, KeyErased, EntryTaken, EntryWritten
<1>3. CASE EraseNvs \/ EraseTable \/ UNCHANGED vars
  <2>1. puts' = puts /\ (erase' = erase \/ erase' = <<>>)
    BY <1>3 DEF EraseNvs, EraseTable, vars
  <2> QED
    BY <1>0, <2>1
<1>4. ASSUME NEW n \in 0 .. Capacity, NEW order \in [1 .. n -> Keys], Restart(order)
      PROVE  Len(erase') <= puts'
  <2>1. erase' = <<>> /\ puts' = puts
    BY <1>4 DEF Restart
  <2> QED
    BY <1>0, <2>1
<1> QED
  BY <1>1, <1>2, <1>3, <1>4 DEF Next

\* The list has room for as many puts as it has places.
COROLLARY NoOrphanFewPuts ==
    ASSUME HasTask, MaxPut <= EraseRoom
    PROVE  Spec => []NoOrphan
<1>1. Init => ListShort
  BY DEF Init, ListShort
<1>2. BaseInv /\ ListShort /\ [Next]_vars
        => [(\E c \in Ids : Put(c)) => Len(erase) < EraseRoom]_vars
  <2>1. ASSUME BaseInv, ListShort, NEW c \in Ids, Put(c) PROVE Len(erase) < EraseRoom
    <3>1. puts < MaxPut
      BY <2>1 DEF Put
    <3>2. Len(erase) \in Nat /\ puts \in Nat /\ Len(erase) <= puts
      BY <2>1, ListTypes DEF ListShort
    <3> QED
      BY <3>1, <3>2, Sizes
  <2> QED
    BY <2>1
<1>3. Spec => RoomLeft
  BY BaseInit, BaseStep, <1>1, ListShortStep, <1>2, PTL DEF Spec, RoomLeft
<1> QED
  BY <1>3, NoOrphanHolds, PTL

=============================================================================
