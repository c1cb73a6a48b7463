------------------------ MODULE MultiLevelStorerProofs ------------------------
(* Theorems about MultiLevelStorer, checked by TLAPS.                       *)
EXTENDS MultiLevelStorer, TLAPS

\* Every stored time and number is a natural number, and maps stay maps.
LEMMA UpdateType ==
  ASSUME NEW map \in Mapping, NEW slot \in Slots, NEW entry \in Entry
  PROVE  MappingUpdater(map, slot, entry) \in Mapping
  BY DEF MappingUpdater, Mapping

\* What stands for an absent entry, item or mapping has the type of one.
LEMMA EmptyTypes ==
  /\ NoEntry \in Entry /\ NoItem \in Item /\ NoMapping \in Mapping
  /\ NoVary \in Slots /\ \A k \in Keys : Name(k) \in Names
  BY StorerAssumption
     DEF NoEntry, Entry, NoItem, Item, NoMapping, Mapping, Slots, Name, Names

\* Writers, readers and removers that do nothing have their types.
LEMMA IdleTypes ==
  NoWriter \in Writer /\ NoReader \in Reader /\ NoRemover \in Remover
  BY EmptyTypes
     DEF NoWriter, Writer, NoReader, Reader, NoRemover, Remover, Places, Times,
         NoTimes

\* A reader that goes to another place of MappingElection stays a reader.
LEMMA AtType ==
  ASSUME NEW x \in Reader, NEW place \in Places, NEW s \in Slots
  PROVE  At(x, place, s) \in Reader
  <1>1. [x.times EXCEPT ![s] = NoTimes] \in [Slots -> Times]
    BY DEF Reader, Times, NoTimes
  <1>2. x.todo \ {s} \in SUBSET Slots
    BY DEF Reader
  <1>. DEFINE t == IF place = "elect" THEN [x.times EXCEPT ![s] = NoTimes]
                   ELSE x.times
              c == IF place = "elect" THEN NoVary ELSE s
  <1>3. t \in [Slots -> Times] /\ c \in Slots
    BY <1>1, EmptyTypes DEF Reader
  <1>4. At(x, place, s) =
          [key |-> x.key, variant |-> x.variant, todo |-> x.todo \ {s},
           listed |-> x.listed, times |-> t, floor |-> x.floor, at |-> place, cur |-> c,
           found |-> x.found, slot |-> x.slot, write |-> x.write]
    BY Zenon DEF At
  <1>. HIDE DEF t, c
  <1>. QED
    BY <1>2, <1>3, <1>4 DEF Reader

\* A reader that has found a response stays a reader.
LEMMA FoundType ==
  ASSUME NEW x \in Reader, NEW s \in Slots, NEW n \in Nat, NEW f \in BOOLEAN
  PROVE  Found(x, s, n, f) \in Reader
  <1>1. [x.times EXCEPT ![s] = NoTimes] \in [Slots -> Times]
    BY DEF Reader, Times, NoTimes
  <1>2. x.todo \ {s} \in SUBSET Slots
    BY DEF Reader
  <1>3. (IF f THEN "fresh" ELSE "stale") \in {"nothing", "stale", "fresh"}
    OBVIOUS
  <1>. QED
    BY <1>1, <1>2, <1>3, EmptyTypes DEF Found, Reader, Places

\* DeleteMany and ListKeys only shorten what a remover has left to delete.
LEMMA TodoType ==
  ASSUME NEW x \in Remover, NEW t \in SUBSET Slots
  PROVE  [x EXCEPT !.todo = t] \in Remover
  BY DEF Remover

\* The empty storer has the types.
LEMMA InitType == Init => TypeOK
  <1>. SUFFICES ASSUME Init PROVE TypeOK
    OBVIOUS
  <1>. QED
    BY EmptyTypes, IdleTypes DEF Init, TypeOK

\* Every operation of the storer and of its callers keeps the types.
LEMMA TypeStep ==
  ASSUME TypeOK, [Next]_vars
  PROVE  TypeOK'
  <1>. USE StorerAssumption, EmptyTypes, IdleTypes
  <1>1. CASE UNCHANGED vars
    BY <1>1 DEF TypeOK, vars
  <1>2. ASSUME NEW w \in Writers, StoreValue(w) PROVE TypeOK'
    <2>1. PICK k \in Keys, s \in Slots, d \in Durations :
            /\ values' = [values EXCEPT ![k][s] =
                 [write |-> writes + 1, until |-> StaleTime(d)]]
            /\ wr' = [wr EXCEPT ![w] =
                 [key |-> k, slot |-> s, loaded |-> FALSE, map |-> NoMapping,
                  entry |-> [write |-> writes + 1, fresh |-> clock + d,
                             stale |-> StaleTime(d)]]]
      BY <1>2 DEF StoreValue
    <2>2. /\ clock \in Nat /\ writes \in Nat /\ d \in Nat /\ StaleTime(d) \in Nat
      BY DEF TypeOK, StaleTime
    <2>3. [write |-> writes + 1, until |-> StaleTime(d)] \in Item
      BY <2>2 DEF Item
    <2>4. [write |-> writes + 1, fresh |-> clock + d, stale |-> StaleTime(d)]
            \in Entry
      BY <2>2 DEF Entry
    <2>5. values' \in [Keys -> [Slots -> Item]]
      BY <2>1, <2>3 DEF TypeOK
    <2>6. wr' \in [Writers -> Writer]
      BY <2>1, <2>4 DEF TypeOK, Writer
    <2>. QED
      BY <1>2, <2>2, <2>5, <2>6 DEF StoreValue, TypeOK
  <1>3. ASSUME NEW w \in Writers, LoadMapping(w) PROVE TypeOK'
    <2>1. wr[w] \in Writer
      BY DEF TypeOK
    <2>2. MappingUpdater(mapping[Name(wr[w].key)], wr[w].slot, wr[w].entry)
            \in Mapping
      <3>1. wr[w].key \in Keys /\ wr[w].slot \in Slots /\ wr[w].entry \in Entry
        BY <1>3, <2>1 DEF LoadMapping, Writer
      <3>2. mapping[Name(wr[w].key)] \in Mapping
        BY <3>1 DEF TypeOK
      <3>. QED
        BY <3>1, <3>2, UpdateType
    <2>3. wr' \in [Writers -> Writer]
      BY <1>3, <2>1, <2>2 DEF LoadMapping, TypeOK, Writer
    <2>. QED
      BY <1>3, <2>3 DEF LoadMapping, TypeOK
  <1>4. ASSUME NEW w \in Writers, StoreMapping(w) PROVE TypeOK'
    <2>1. wr[w] \in Writer
      BY DEF TypeOK
    <2>2. mapping' \in [Names -> Mapping]
      BY <1>4, <2>1 DEF StoreMapping, TypeOK, Writer
    <2>3. done' \in [Keys -> [Slots -> Nat]]
      BY <1>4, <2>1 DEF StoreMapping, TypeOK, Writer, Entry
    <2>. QED
      BY <1>4, <2>2, <2>3 DEF StoreMapping, TypeOK
  <1>5. ASSUME NEW r \in Readers, BeginRead(r) PROVE TypeOK'
    <2>. DEFINE matching(k, v) ==
                  {s \in Slots : mapping[Name(k)][s].write # 0
                                   /\ MatchesVary(s, v)}
                times(k, v) == [s \in Slots |->
                  IF s \in matching(k, v)
                  THEN [fresh |-> mapping[Name(k)][s].fresh,
                        stale |-> mapping[Name(k)][s].stale]
                  ELSE NoTimes]
                listing(k, v) == [s \in Slots |->
                  IF s \in matching(k, v) THEN mapping[Name(k)][s].write ELSE 0]
                before(k, v) == [s \in Slots |->
                  IF s \in matching(k, v) THEN floor[k][s] ELSE 0]
    <2>1. PICK k \in Keys, v \in Variants :
            rd' = [rd EXCEPT ![r] =
              [key |-> k, variant |-> v, todo |-> matching(k, v),
               listed |-> listing(k, v), times |-> times(k, v), floor |-> before(k, v), at |-> "elect",
               cur |-> NoVary, found |-> "nothing", slot |-> NoVary,
               write |-> 0]]
      BY <1>5 DEF BeginRead
    <2>2. times(k, v) \in [Slots -> Times]
      BY DEF TypeOK, Mapping, Entry, Times, NoTimes
    <2>3. matching(k, v) \in SUBSET Slots /\ v \in Slots
      BY DEF Slots
    <2>4. listing(k, v) \in [Slots -> Nat] /\ before(k, v) \in [Slots -> Nat]
      BY DEF TypeOK, Mapping, Entry
    <2>. HIDE DEF matching, listing, times, before
    <2>5. [key |-> k, variant |-> v, todo |-> matching(k, v),
           listed |-> listing(k, v), times |-> times(k, v), floor |-> before(k, v), at |-> "elect",
           cur |-> NoVary, found |-> "nothing", slot |-> NoVary,
           write |-> 0] \in Reader
      BY <2>2, <2>3, <2>4 DEF Reader, Places
    <2>6. rd' \in [Readers -> Reader]
      BY <2>1, <2>5 DEF TypeOK
    <2>. QED
      BY <1>5, <2>6 DEF BeginRead, TypeOK
  <1>6. ASSUME NEW r \in Readers, Elect(r) PROVE TypeOK'
    <2>1. rd[r] \in Reader
      BY DEF TypeOK
    <2>2. PICK s \in rd[r].todo, place \in {"getFresh", "getStale", "elect"} :
            rd' = [rd EXCEPT ![r] = At(rd[r], place, s)]
      BY <1>6 DEF Elect
    <2>3. s \in Slots /\ place \in Places
      BY <2>1 DEF Reader, Places
    <2>4. rd' \in [Readers -> Reader]
      BY <2>1, <2>2, <2>3, AtType DEF TypeOK
    <2>. QED
      BY <1>6, <2>4 DEF Elect, TypeOK
  <1>7. ASSUME NEW r \in Readers, Retry(r) PROVE TypeOK'
    <2>1. rd[r] \in Reader /\ rd[r].cur \in Slots
      BY DEF TypeOK, Reader
    <2>2. PICK place \in {"getStale", "elect"} :
            rd' = [rd EXCEPT ![r] = At(rd[r], place, rd[r].cur)]
      BY <1>7 DEF Retry
    <2>3. place \in Places
      BY DEF Places
    <2>4. rd' \in [Readers -> Reader]
      BY <2>1, <2>2, <2>3, AtType DEF TypeOK
    <2>. QED
      BY <1>7, <2>4 DEF Retry, TypeOK
  <1>8. ASSUME NEW r \in Readers, GetItem(r) PROVE TypeOK'
    <2>1. rd[r] \in Reader /\ rd[r].cur \in Slots /\ rd[r].key \in Keys
      BY <1>8 DEF GetItem, TypeOK, Reader
    <2>2. values[rd[r].key][rd[r].cur].write \in Nat
      BY <2>1 DEF TypeOK, Item
    <2>3. CASE Gets(rd[r].key, rd[r].cur)
      <3>1. rd' = [rd EXCEPT ![r] =
              Found(rd[r], rd[r].cur, values[rd[r].key][rd[r].cur].write,
                    rd[r].at = "getFresh")]
        BY <1>8, <2>3, Zenon DEF GetItem
      <3>2. Found(rd[r], rd[r].cur, values[rd[r].key][rd[r].cur].write,
                  rd[r].at = "getFresh") \in Reader
        BY <2>1, <2>2, FoundType
      <3>3. rd' \in [Readers -> Reader]
        BY <3>1, <3>2 DEF TypeOK
      <3>. QED
        BY <1>8, <3>3 DEF GetItem, TypeOK
    <2>4. CASE ~Gets(rd[r].key, rd[r].cur)
      <3>1. PICK place \in {"retry", "elect", "dropFresh", "dropStale"} :
              rd' = [rd EXCEPT ![r] = At(rd[r], place, rd[r].cur)]
        BY <1>8, <2>4 DEF GetItem
      <3>2. At(rd[r], place, rd[r].cur) \in Reader
        BY <2>1, AtType DEF Places
      <3>3. rd' \in [Readers -> Reader]
        BY <3>1, <3>2 DEF TypeOK
      <3>. QED
        BY <1>8, <3>3 DEF GetItem, TypeOK
    <2>. QED
      BY <2>3, <2>4
  <1>9. ASSUME NEW r \in Readers, DropExpired(r) PROVE TypeOK'
    <2>1. rd[r] \in Reader /\ rd[r].cur \in Slots /\ rd[r].key \in Keys
      BY <1>9 DEF DropExpired, TypeOK, Reader
    <2>2. values' \in [Keys -> [Slots -> Item]]
      BY <1>9, <2>1 DEF DropExpired, TypeOK
    <2>3. PICK place \in {"retry", "elect"} :
            rd' = [rd EXCEPT ![r] = At(rd[r], place, rd[r].cur)]
      BY <1>9 DEF DropExpired
    <2>4. At(rd[r], place, rd[r].cur) \in Reader
      BY <2>1, AtType DEF Places
    <2>5. rd' \in [Readers -> Reader]
      BY <2>3, <2>4 DEF TypeOK
    <2>. QED
      BY <1>9, <2>2, <2>5 DEF DropExpired, TypeOK
  <1>10. ASSUME NEW r \in Readers, EndRead(r) PROVE TypeOK'
    BY <1>10 DEF EndRead, TypeOK
  <1>11. ASSUME NEW k \in Keys, Invalidate(k) PROVE TypeOK'
    BY <1>11 DEF Invalidate, TypeOK, Names
  <1>12. ASSUME NEW p \in Removers, BeginPurge(p) PROVE TypeOK'
    <2>1. \A s \in Slots : Selected(s) \in SUBSET Slots
      BY DEF Selected
    <2>2. rm' \in [Removers -> Remover]
      BY <1>12, <2>1 DEF BeginPurge, TypeOK, Remover
    <2>. QED
      BY <1>12, <2>2 DEF BeginPurge, TypeOK
  <1>13. ASSUME NEW p \in Removers, DeleteMapping(p) PROVE TypeOK'
    <2>1. rm[p] \in Remover
      BY DEF TypeOK
    <2>2. rm' \in [Removers -> Remover]
      BY <1>13, <2>1 DEF DeleteMapping, TypeOK, Remover
    <2>3. mapping' \in [Names -> Mapping] /\ done' \in [Keys -> [Slots -> Nat]]
      BY <1>13, <2>1 DEF DeleteMapping, TypeOK, Remover
    <2>. QED
      BY <1>13, <2>2, <2>3 DEF DeleteMapping, TypeOK
  <1>14. ASSUME NEW p \in Removers, BeginList(p) PROVE TypeOK'
    <2>1. rm' \in [Removers -> Remover]
      BY <1>14 DEF BeginList, TypeOK, Remover
    <2>. QED
      BY <1>14, <2>1 DEF BeginList, TypeOK
  <1>15. ASSUME NEW p \in Removers, DeleteValue(p) PROVE TypeOK'
    <2>1. rm[p] \in Remover
      BY DEF TypeOK
    <2>2. PICK s \in rm[p].todo :
            /\ values' = [values EXCEPT ![rm[p].key][s] = NoItem]
            /\ rm' = [rm EXCEPT ![p].todo = rm[p].todo \ {s}]
      BY <1>15 DEF DeleteValue
    <2>. rm[p].todo \ {s} \in SUBSET Slots
      BY <2>1 DEF Remover
    <2>3. rm' \in [Removers -> Remover]
      BY <2>1, <2>2, TodoType, Zenon DEF TypeOK
    <2>4. values' \in [Keys -> [Slots -> Item]]
      BY <1>15, <2>1, <2>2 DEF DeleteValue, TypeOK, Remover
    <2>. QED
      BY <1>15, <2>3, <2>4 DEF DeleteValue, TypeOK
  <1>16. ASSUME NEW p \in Removers, EndRemoval(p) PROVE TypeOK'
    <2>1. rm[p] \in Remover
      BY DEF TypeOK
    <2>2. floor' \in [Keys -> [Slots -> Nat]]
      BY <1>16, <2>1 DEF EndRemoval, TypeOK, Remover
    <2>. QED
      BY <1>16, <2>2 DEF EndRemoval, TypeOK
  <1>17. CASE Reset
    BY <1>17 DEF Reset, TypeOK
  <1>18. CASE Tick
    BY <1>18 DEF Tick, TypeOK
  <1>. QED
    BY <1>1, <1>2, <1>3, <1>4, <1>5, <1>6, <1>7, <1>8, <1>9, <1>10, <1>11,
       <1>12, <1>13, <1>14, <1>15, <1>16, <1>17, <1>18 DEF Next

\* The state of the storer and of its callers keeps its type.
THEOREM StorerTypeCorrect == Spec => []TypeOK
  BY InitType, TypeStep, PTL DEF Spec

-----------------------------------------------------------------------------
(***************************************************************************)
(* NoLostStore is not inductive: StoreMapping writes back a mapping that   *)
(* was read before.  The two parts added say that nobody else stores under *)
(* the key meanwhile, and that what was read still lists what is done.     *)
(***************************************************************************)

\* At most one SetMultiLevel is in progress for a cached key.
OneWriter ==
  \A v, w \in Writers : wr[v].key \in Keys /\ wr[v].key = wr[w].key => v = w

\* The mapping that a writer has updated has the writer's entry in its slot, and
\* in every other slot the last response reported as stored.
LoadedIsCurrent ==
  \A w \in Writers : wr[w].key \in Keys /\ wr[w].loaded =>
    \A s \in Slots :
      IF s = wr[w].slot THEN wr[w].map[s].write = wr[w].entry.write
      ELSE done[wr[w].key][s] # 0 => wr[w].map[s].write = done[wr[w].key][s]

StoreInv == TypeOK /\ OneWriter /\ LoadedIsCurrent /\ NoLostStore

\* Different cached keys have mappings under different names.
LEMMA NameInjective == \A j, k \in Keys : Name(j) = Name(k) => j = k
  BY DEF Name

\* In the empty storer nothing is done and nothing is lost.
LEMMA StoreInvInit == Init => StoreInv
  <1>. SUFFICES ASSUME Init PROVE StoreInv
    OBVIOUS
  <1>1. OneWriter /\ LoadedIsCurrent
    BY StorerAssumption DEF Init, NoWriter, OneWriter, LoadedIsCurrent
  <1>2. NoLostStore
    BY DEF Init, NoLostStore
  <1>. QED
    BY <1>1, <1>2, InitType DEF StoreInv

\* A step that changes neither writers nor mappings, nor what is done.
LEMMA StoreInvUnchanged ==
  ASSUME StoreInv, TypeOK', UNCHANGED <<wr, mapping, done>>
  PROVE  StoreInv'
  BY DEF StoreInv, OneWriter, LoadedIsCurrent, NoLostStore

\* A step that forgets what is done under some keys, and the mappings of no
\* other keys.
LEMMA StoreInvForget ==
  ASSUME StoreInv, TypeOK', wr' = wr,
         \A k \in Keys, s \in Slots :
            \/ done'[k][s] = 0
            \/ done'[k][s] = done[k][s] /\ mapping'[Name(k)] = mapping[Name(k)]
  PROVE  StoreInv'
  <1>1. OneWriter'
    BY DEF StoreInv, OneWriter
  <1>2. LoadedIsCurrent'
    BY DEF StoreInv, LoadedIsCurrent
  <1>3. NoLostStore'
    BY DEF StoreInv, NoLostStore
  <1>. QED
    BY <1>1, <1>2, <1>3 DEF StoreInv

\* Every step keeps the invariant when stores of a key exclude each other.
LEMMA StoreInvStep ==
  ASSUME Exclusive, StoreInv, [Next]_vars
  PROVE  StoreInv'
  <1>. USE StorerAssumption
  <1>1. TypeOK /\ TypeOK'
    BY TypeStep DEF StoreInv
  <1>2. ASSUME NEW w \in Writers, StoreValue(w) PROVE StoreInv'
    <2>1. PICK k \in Keys, s \in Slots, d \in Durations :
            /\ MayWrite(k)
            /\ wr' = [wr EXCEPT ![w] =
                 [key |-> k, slot |-> s, loaded |-> FALSE, map |-> NoMapping,
                  entry |-> [write |-> writes + 1, fresh |-> clock + d,
                             stale |-> StaleTime(d)]]]
      BY <1>2 DEF StoreValue
    <2>2. \A v \in Writers : wr[v].key # k
      BY <2>1 DEF MayWrite, Writing
    <2>3. /\ wr'[w].key = k /\ ~wr'[w].loaded
          /\ \A v \in Writers : v # w => wr'[v] = wr[v]
      BY <1>1, <2>1 DEF TypeOK
    <2>4. mapping' = mapping /\ done' = done
      BY <1>2 DEF StoreValue
    <2>5. OneWriter'
      BY <2>2, <2>3 DEF StoreInv, OneWriter
    <2>6. LoadedIsCurrent'
      BY <2>3, <2>4 DEF StoreInv, LoadedIsCurrent
    <2>7. NoLostStore'
      BY <2>4 DEF StoreInv, NoLostStore
    <2>. QED
      BY <1>1, <2>5, <2>6, <2>7 DEF StoreInv
  <1>3. ASSUME NEW w \in Writers, LoadMapping(w) PROVE StoreInv'
    <2>. DEFINE k == wr[w].key
                map == MappingUpdater(mapping[Name(k)], wr[w].slot, wr[w].entry)
    <2>1. wr[w] \in Writer /\ wr[w].key \in Keys
      BY <1>1, <1>3 DEF LoadMapping, TypeOK, Writer
    <2>2. mapping[Name(k)] \in [Slots -> Entry]
      BY <1>1, <2>1, EmptyTypes DEF TypeOK, Mapping
    <2>3. \A s \in Slots :
            map[s] = IF s = wr[w].slot THEN wr[w].entry ELSE mapping[Name(k)][s]
      BY <2>2 DEF MappingUpdater
    <2>4. /\ wr'[w].key = k /\ wr'[w].slot = wr[w].slot /\ wr'[w].map = map
          /\ wr'[w].entry = wr[w].entry
          /\ \A v \in Writers : v # w => wr'[v] = wr[v]
      BY <1>1, <1>3, <2>1 DEF LoadMapping, TypeOK, Writer
    <2>5. mapping' = mapping /\ done' = done
      BY <1>3 DEF LoadMapping
    <2>6. OneWriter'
      BY <2>4 DEF StoreInv, OneWriter
    <2>. HIDE DEF map
    <2>7. LoadedIsCurrent'
      BY <2>1, <2>3, <2>4, <2>5 DEF StoreInv, LoadedIsCurrent, NoLostStore
    <2>8. NoLostStore'
      BY <2>5 DEF StoreInv, NoLostStore
    <2>. QED
      BY <1>1, <2>6, <2>7, <2>8 DEF StoreInv
  <1>4. ASSUME NEW w \in Writers, StoreMapping(w) PROVE StoreInv'
    <2>. DEFINE k == wr[w].key
    <2>1. wr[w] \in Writer /\ k \in Keys /\ wr[w].loaded
      BY <1>1, <1>4 DEF StoreMapping, TypeOK, Writer
    <2>2. /\ wr'[w].key = NoKey
          /\ \A v \in Writers : v # w => wr'[v] = wr[v]
      BY <1>1, <1>4 DEF StoreMapping, TypeOK, NoWriter
    <2>3. /\ mapping'[Name(k)] = wr[w].map
          /\ \A j \in Keys : j # k => mapping'[Name(j)] = mapping[Name(j)]
      BY <1>1, <1>4, <2>1, EmptyTypes, NameInjective DEF StoreMapping, TypeOK
    <2>4. /\ done'[k][wr[w].slot] = wr[w].entry.write
          /\ \A s \in Slots : s # wr[w].slot => done'[k][s] = done[k][s]
          /\ \A j \in Keys : j # k => done'[j] = done[j]
      BY <1>1, <1>4, <2>1 DEF StoreMapping, TypeOK, Writer
    <2>5. OneWriter'
      BY <2>2 DEF StoreInv, OneWriter
    <2>6. LoadedIsCurrent'
      BY <2>1, <2>2, <2>4 DEF StoreInv, OneWriter, LoadedIsCurrent
    <2>7. NoLostStore'
      BY <2>1, <2>3, <2>4 DEF StoreInv, LoadedIsCurrent, NoLostStore
    <2>. QED
      BY <1>1, <2>5, <2>6, <2>7 DEF StoreInv
  <1>5. ASSUME NEW k \in Keys, Invalidate(k) PROVE StoreInv'
    <2>1. \A j \in Keys : j # k => mapping'[Name(j)] = mapping[Name(j)]
      BY <1>1, <1>5, EmptyTypes DEF Invalidate, TypeOK, Name
    <2>2. \A j \in Keys, s \in Slots :
            IF j = k THEN done'[j][s] = 0 ELSE done'[j] = done[j]
      BY <1>1, <1>5 DEF Invalidate, TypeOK
    <2>3. wr' = wr
      BY <1>5 DEF Invalidate
    <2>. QED
      BY <1>1, <2>1, <2>2, <2>3, StoreInvForget
  <1>6. ASSUME NEW p \in Removers, DeleteMapping(p) PROVE StoreInv'
    <2>. DEFINE k == rm[p].key
    <2>1. k \in Keys
      BY <1>1, <1>6 DEF DeleteMapping, TypeOK, Remover
    <2>2. \A j \in Keys : j # k => mapping'[Name(j)] = mapping[Name(j)]
      BY <1>1, <1>6, <2>1, EmptyTypes, NameInjective DEF DeleteMapping, TypeOK
    <2>3. \A j \in Keys, s \in Slots :
            IF j = k THEN done'[j][s] = 0 ELSE done'[j] = done[j]
      BY <1>1, <1>6, <2>1 DEF DeleteMapping, TypeOK
    <2>4. wr' = wr
      BY <1>6 DEF DeleteMapping
    <2>. QED
      BY <1>1, <2>2, <2>3, <2>4, StoreInvForget
  <1>7. CASE Reset
    <2>1. wr' = wr /\ \A k \in Keys, s \in Slots : done'[k][s] = 0
      BY <1>7 DEF Reset
    <2>. QED
      BY <1>1, <2>1, StoreInvForget
  <1>8. ASSUME NEW r \in Readers,
               \/ BeginRead(r) \/ Elect(r) \/ Retry(r) \/ GetItem(r)
               \/ DropExpired(r) \/ EndRead(r)
        PROVE  StoreInv'
    <2>1. UNCHANGED <<wr, mapping, done>>
      BY <1>8 DEF BeginRead, Elect, Retry, GetItem, DropExpired, EndRead
    <2>. QED
      BY <1>1, <2>1, StoreInvUnchanged
  <1>9. ASSUME NEW p \in Removers,
               BeginPurge(p) \/ BeginList(p) \/ DeleteValue(p) \/ EndRemoval(p)
        PROVE  StoreInv'
    <2>1. UNCHANGED <<wr, mapping, done>>
      BY <1>9 DEF BeginPurge, BeginList, DeleteValue, EndRemoval
    <2>. QED
      BY <1>1, <2>1, StoreInvUnchanged
  <1>10. CASE Tick \/ UNCHANGED vars
    <2>1. UNCHANGED <<wr, mapping, done>>
      BY <1>10 DEF Tick, vars
    <2>. QED
      BY <1>1, <2>1, StoreInvUnchanged
  <1>. QED
    BY <1>2, <1>3, <1>4, <1>5, <1>6, <1>7, <1>8, <1>9, <1>10 DEF Next

\* When every Store of a cached key runs in the singleflight call of that key,
\* SetMultiLevel never loses a response that another call has stored, although
\* it reads and writes the mapping in two steps without a lock.
THEOREM NoStoreIsLost ==
  ASSUME Exclusive
  PROVE  Spec => []NoLostStore
  <1>1. StoreInv /\ [Next]_vars => StoreInv'
    BY StoreInvStep
  <1>2. StoreInv => NoLostStore
    BY DEF StoreInv
  <1>. QED
    BY <1>1, <1>2, StoreInvInit, PTL DEF Spec

-----------------------------------------------------------------------------
(* What the operations do, part by part. *)

LEMMA StoresValue ==
  ASSUME TypeOK, NEW w \in Writers, StoreValue(w)
  PROVE  \E k \in Keys, s \in Slots :
           /\ MayWrite(k)
           /\ values'[k][s].write = writes + 1
           /\ \A j \in Keys, t \in Slots : j # k \/ t # s => values'[j][t] = values[j][t]
           /\ wr'[w].key = k /\ wr'[w].slot = s /\ ~wr'[w].loaded
           /\ wr'[w].entry.write = writes + 1
           /\ \A v \in Writers : v # w => wr'[v] = wr[v]
  <1>1. PICK k \in Keys, s \in Slots, d \in Durations :
          /\ MayWrite(k)
          /\ values' = [values EXCEPT ![k][s] =
               [write |-> writes + 1, until |-> StaleTime(d)]]
          /\ wr' = [wr EXCEPT ![w] =
               [key |-> k, slot |-> s, loaded |-> FALSE, map |-> NoMapping,
                entry |-> [write |-> writes + 1, fresh |-> clock + d,
                           stale |-> StaleTime(d)]]]
    BY DEF StoreValue
  <1>2. /\ values'[k][s].write = writes + 1
        /\ \A j \in Keys, t \in Slots : j # k \/ t # s => values'[j][t] = values[j][t]
    BY <1>1 DEF TypeOK
  <1>3. /\ wr'[w].key = k /\ wr'[w].slot = s /\ ~wr'[w].loaded
        /\ wr'[w].entry.write = writes + 1
        /\ \A v \in Writers : v # w => wr'[v] = wr[v]
    BY <1>1 DEF TypeOK
  <1>. QED
    BY <1>1, <1>2, <1>3

LEMMA LoadsMapping ==
  ASSUME TypeOK, NEW w \in Writers, LoadMapping(w)
  PROVE  /\ wr[w].key \in Keys /\ wr[w].slot \in Slots
         /\ wr'[w].key = wr[w].key /\ wr'[w].slot = wr[w].slot
         /\ wr'[w].entry = wr[w].entry /\ wr'[w].loaded
         /\ \A s \in Slots : wr'[w].map[s] =
              IF s = wr[w].slot THEN wr[w].entry ELSE mapping[Name(wr[w].key)][s]
         /\ \A v \in Writers : v # w => wr'[v] = wr[v]
  <1>. DEFINE k == wr[w].key
              map == MappingUpdater(mapping[Name(k)], wr[w].slot, wr[w].entry)
  <1>1. wr[w] \in Writer /\ k \in Keys /\ wr[w].slot \in Slots
    BY DEF LoadMapping, TypeOK, Writer
  <1>2. mapping[Name(k)] \in [Slots -> Entry]
    BY <1>1, EmptyTypes DEF TypeOK, Mapping
  <1>3. \A s \in Slots :
          map[s] = IF s = wr[w].slot THEN wr[w].entry ELSE mapping[Name(k)][s]
    BY <1>2 DEF MappingUpdater
  <1>4. /\ wr'[w].key = k /\ wr'[w].slot = wr[w].slot /\ wr'[w].map = map
        /\ wr'[w].entry = wr[w].entry /\ wr'[w].loaded
        /\ \A v \in Writers : v # w => wr'[v] = wr[v]
    BY <1>1 DEF LoadMapping, TypeOK, Writer
  <1>. QED
    BY <1>1, <1>3, <1>4

LEMMA StoresMapping ==
  ASSUME TypeOK, NEW w \in Writers, StoreMapping(w)
  PROVE  /\ wr[w].key \in Keys /\ wr[w].slot \in Slots /\ wr[w].loaded
         /\ wr'[w].key = NoKey /\ \A v \in Writers : v # w => wr'[v] = wr[v]
         /\ mapping'[Name(wr[w].key)] = wr[w].map
         /\ \A j \in Keys : j # wr[w].key => mapping'[Name(j)] = mapping[Name(j)]
  <1>1. wr[w] \in Writer /\ wr[w].key \in Keys /\ wr[w].slot \in Slots /\ wr[w].loaded
    BY DEF StoreMapping, TypeOK, Writer
  <1>2. wr'[w].key = NoKey /\ \A v \in Writers : v # w => wr'[v] = wr[v]
    BY DEF StoreMapping, TypeOK, NoWriter
  <1>3. /\ mapping'[Name(wr[w].key)] = wr[w].map
        /\ \A j \in Keys : j # wr[w].key => mapping'[Name(j)] = mapping[Name(j)]
    BY <1>1, EmptyTypes, NameInjective DEF StoreMapping, TypeOK
  <1>. QED
    BY <1>1, <1>2, <1>3

\* The slot whose entry a reader is at, or may go to next.
Visits(x, s) == s \in x.todo \/ (x.at # "elect" /\ s = x.cur)

\* After a lookup has begun, a reader goes on to an entry, takes what Get
\* returned for the entry it is at, or ends.
LEMMA ReadGoesOn ==
  ASSUME TypeOK, NEW r \in Readers,
         Elect(r) \/ Retry(r) \/ GetItem(r) \/ DropExpired(r) \/ EndRead(r)
  PROVE  /\ \A q \in Readers : q # r => rd'[q] = rd[q]
         /\ rd[r].key \in Keys
         /\ \/ rd'[r] = NoReader
            \/ \E s \in Slots, place \in Places :
                 Visits(rd[r], s) /\ rd'[r] = At(rd[r], place, s)
            \/ \E f \in BOOLEAN :
                 /\ rd[r].at # "elect"
                 /\ rd'[r] = Found(rd[r], rd[r].cur, values[rd[r].key][rd[r].cur].write, f)
  <1>1. rd[r] \in Reader /\ rd[r].key \in Keys /\ rd[r].cur \in Slots /\ rd \in [Readers -> Reader]
    BY DEF Elect, Retry, GetItem, DropExpired, EndRead, TypeOK, Reader
  <1>2. CASE Elect(r)
    <2>1. PICK s \in rd[r].todo, place \in {"getFresh", "getStale", "elect"} :
            rd' = [rd EXCEPT ![r] = At(rd[r], place, s)]
      BY <1>2 DEF Elect
    <2>2. s \in Slots /\ place \in Places /\ Visits(rd[r], s)
      BY <1>1 DEF Reader, Places, Visits
    <2>. QED
      BY <1>1, <2>1, <2>2
  <1>3. CASE Retry(r)
    <2>1. PICK place \in {"getStale", "elect"} :
            rd' = [rd EXCEPT ![r] = At(rd[r], place, rd[r].cur)]
      BY <1>3 DEF Retry
    <2>2. place \in Places /\ Visits(rd[r], rd[r].cur)
      BY <1>3 DEF Retry, Places, Visits
    <2>. QED
      BY <1>1, <2>1, <2>2
  <1>4. CASE GetItem(r)
    <2>1. rd[r].at # "elect" /\ Visits(rd[r], rd[r].cur)
      BY <1>4 DEF GetItem, Visits
    <2>2. CASE Gets(rd[r].key, rd[r].cur)
      <3>1. rd' = [rd EXCEPT ![r] =
              Found(rd[r], rd[r].cur, values[rd[r].key][rd[r].cur].write,
                    rd[r].at = "getFresh")]
        BY <1>4, <2>2, Zenon DEF GetItem
      <3>. QED
        BY <1>1, <2>1, <3>1
    <2>3. CASE ~Gets(rd[r].key, rd[r].cur)
      <3>1. PICK place \in {"retry", "elect", "dropFresh", "dropStale"} :
              rd' = [rd EXCEPT ![r] = At(rd[r], place, rd[r].cur)]
        BY <1>4, <2>3 DEF GetItem
      <3>2. place \in Places
        BY DEF Places
      <3>. QED
        BY <1>1, <2>1, <3>1, <3>2
    <2>. QED
      BY <2>2, <2>3
  <1>5. CASE DropExpired(r)
    <2>1. PICK place \in {"retry", "elect"} :
            rd' = [rd EXCEPT ![r] = At(rd[r], place, rd[r].cur)]
      BY <1>5 DEF DropExpired
    <2>2. place \in Places /\ Visits(rd[r], rd[r].cur)
      BY <1>5 DEF DropExpired, Places, Visits
    <2>. QED
      BY <1>1, <2>1, <2>2
  <1>6. CASE EndRead(r)
    BY <1>1, <1>6 DEF EndRead
  <1>. QED
    BY <1>2, <1>3, <1>4, <1>5, <1>6

\* A lookup begins with the entries that the mapping lists and that match.
LEMMA ReadBegins ==
  ASSUME TypeOK, NEW r \in Readers, BeginRead(r)
  PROVE  /\ \A q \in Readers : q # r => rd'[q] = rd[q]
         /\ rd'[r].key \in Keys /\ rd'[r].variant \in Variants
         /\ \A s \in Slots : s \in rd'[r].todo =>
              /\ mapping[Name(rd'[r].key)][s].write # 0
              /\ MatchesVary(s, rd'[r].variant)
              /\ rd'[r].floor[s] = floor[rd'[r].key][s]
         /\ \A s \in Slots : rd'[r].floor[s] \in {0, floor[rd'[r].key][s]}
         /\ rd'[r].at = "elect" /\ rd'[r].cur = NoVary /\ rd'[r].slot = NoVary
         /\ rd'[r].write = 0
  <1>. DEFINE matching(k, v) ==
                {s \in Slots : mapping[Name(k)][s].write # 0 /\ MatchesVary(s, v)}
              times(k, v) == [s \in Slots |->
                IF s \in matching(k, v)
                THEN [fresh |-> mapping[Name(k)][s].fresh,
                      stale |-> mapping[Name(k)][s].stale]
                ELSE NoTimes]
              listing(k, v) == [s \in Slots |->
                IF s \in matching(k, v) THEN mapping[Name(k)][s].write ELSE 0]
              before(k, v) == [s \in Slots |->
                IF s \in matching(k, v) THEN floor[k][s] ELSE 0]
  <1>1. PICK k \in Keys, v \in Variants :
          rd' = [rd EXCEPT ![r] =
            [key |-> k, variant |-> v, todo |-> matching(k, v),
             listed |-> listing(k, v), times |-> times(k, v), floor |-> before(k, v), at |-> "elect",
             cur |-> NoVary, found |-> "nothing", slot |-> NoVary,
             write |-> 0]]
    BY DEF BeginRead
  <1>2. /\ \A s \in Slots : s \in matching(k, v) =>
             /\ mapping[Name(k)][s].write # 0 /\ MatchesVary(s, v)
             /\ before(k, v)[s] = floor[k][s]
        /\ \A s \in Slots : before(k, v)[s] \in {0, floor[k][s]}
    OBVIOUS
  <1>. HIDE DEF matching, listing, times, before
  <1>3. /\ \A q \in Readers : q # r => rd'[q] = rd[q]
        /\ rd'[r].key = k /\ rd'[r].variant = v /\ rd'[r].todo = matching(k, v)
        /\ rd'[r].floor = before(k, v)
        /\ rd'[r].at = "elect" /\ rd'[r].cur = NoVary /\ rd'[r].slot = NoVary
        /\ rd'[r].write = 0
    BY <1>1 DEF TypeOK
  <1>. QED
    BY <1>2, <1>3

-----------------------------------------------------------------------------
(***************************************************************************)
(* MappingDescribesValue speaks of keys that nobody stores.  While a key   *)
(* is stored, its mapping describes the other slots, the slot that is      *)
(* stored has the writer's response or none, and so will the mapping.      *)
(***************************************************************************)

Described(map, k, s) ==
  map[s].write # 0 /\ values[k][s].write # 0 => map[s].write = values[k][s].write

OthersDescribed ==
  \A k \in Keys, s \in Slots :
    (\A w \in Writers : wr[w].key = k => wr[w].slot # s) => Described(mapping[Name(k)], k, s)
OwnValue ==
  \A w \in Writers : wr[w].key \in Keys =>
    values[wr[w].key][wr[w].slot].write \in {0, wr[w].entry.write}
LoadedDescribes ==
  \A w \in Writers : wr[w].key \in Keys /\ wr[w].loaded =>
    \A s \in Slots : IF s = wr[w].slot THEN wr[w].map[s].write = wr[w].entry.write
                                       ELSE Described(wr[w].map, wr[w].key, s)
DescribeInv == TypeOK /\ OneWriter /\ OthersDescribed /\ OwnValue /\ LoadedDescribes

\* Nothing is described in the beginning.
LEMMA DescribeInit == Init => DescribeInv
  <1>. SUFFICES ASSUME Init PROVE DescribeInv
    OBVIOUS
  <1>1. \A w \in Writers : wr[w].key \notin Keys
    BY StorerAssumption DEF Init, NoWriter
  <1>2. \A k \in Keys, s \in Slots : values[k][s].write = 0
    BY DEF Init, NoItem
  <1>3. OneWriter /\ OwnValue /\ LoadedDescribes
    BY <1>1 DEF OneWriter, OwnValue, LoadedDescribes
  <1>4. OthersDescribed
    BY <1>2 DEF OthersDescribed, Described
  <1>. QED
    BY <1>3, <1>4, InitType DEF DescribeInv

\* Deleting values and mappings leaves nothing that is described wrongly.
LEMMA DescribeForget ==
  ASSUME DescribeInv, TypeOK', wr' = wr,
         \A k \in Keys, s \in Slots :
           /\ values'[k][s] = values[k][s] \/ values'[k][s].write = 0
           /\ mapping'[Name(k)][s] = mapping[Name(k)][s] \/ mapping'[Name(k)][s].write = 0
  PROVE  DescribeInv'
  <1>1. wr \in [Writers -> Writer]
    BY DEF DescribeInv, TypeOK
  <1>2. OneWriter'
    BY DEF DescribeInv, OneWriter
  <1>3. OthersDescribed'
    BY DEF DescribeInv, OthersDescribed, Described
  <1>4. OwnValue'
    BY <1>1 DEF DescribeInv, OwnValue, Writer
  <1>5. LoadedDescribes'
    BY <1>1 DEF DescribeInv, LoadedDescribes, Described, Writer
  <1>. QED
    BY <1>2, <1>3, <1>4, <1>5 DEF DescribeInv

\* What stands for an absent item or mapping has the number 0.
LEMMA AbsentNumbers == NoItem.write = 0 /\ \A s \in Slots : NoMapping[s].write = 0
  BY DEF NoItem, NoMapping, NoEntry

\* Every step of anybody but a writer deletes, if it changes the storer.
LEMMA OthersForget ==
  ASSUME TypeOK, [Next]_vars,
         ~\E w \in Writers : StoreValue(w) \/ LoadMapping(w) \/ StoreMapping(w)
  PROVE  /\ wr' = wr /\ writes' = writes
         /\ \A k \in Keys, s \in Slots :
              /\ values'[k][s] = values[k][s] \/ values'[k][s].write = 0
              /\ mapping'[Name(k)][s] = mapping[Name(k)][s] \/ mapping'[Name(k)][s].write = 0
  <1>. USE AbsentNumbers
  <1>1. CASE Tick \/ UNCHANGED vars
    BY <1>1 DEF Tick, vars
  <1>2. CASE Reset
    BY <1>2, EmptyTypes DEF Reset
  <1>3. ASSUME NEW r \in Readers, BeginRead(r) \/ Elect(r) \/ Retry(r) \/ GetItem(r) \/ EndRead(r)
        PROVE  UNCHANGED <<wr, writes, values, mapping>>
    BY <1>3 DEF BeginRead, Elect, Retry, GetItem, EndRead
  <1>4. ASSUME NEW r \in Readers, DropExpired(r)
        PROVE  /\ UNCHANGED <<wr, writes, mapping>>
               /\ \A k \in Keys, s \in Slots :
                    values'[k][s] = values[k][s] \/ values'[k][s].write = 0
    BY <1>4 DEF DropExpired, TypeOK
  <1>5. ASSUME NEW k \in Keys, Invalidate(k)
        PROVE  /\ UNCHANGED <<wr, writes, values>>
               /\ \A j \in Keys, s \in Slots :
                    mapping'[Name(j)][s] = mapping[Name(j)][s] \/ mapping'[Name(j)][s].write = 0
    BY <1>5, EmptyTypes DEF Invalidate, TypeOK
  <1>6. ASSUME NEW p \in Removers, BeginPurge(p) \/ BeginList(p) \/ EndRemoval(p)
        PROVE  UNCHANGED <<wr, writes, values, mapping>>
    BY <1>6 DEF BeginPurge, BeginList, EndRemoval
  <1>7. ASSUME NEW p \in Removers, DeleteMapping(p)
        PROVE  /\ UNCHANGED <<wr, writes, values>>
               /\ \A j \in Keys, s \in Slots :
                    mapping'[Name(j)][s] = mapping[Name(j)][s] \/ mapping'[Name(j)][s].write = 0
    BY <1>7, EmptyTypes DEF DeleteMapping, TypeOK
  <1>8. ASSUME NEW p \in Removers, DeleteValue(p)
        PROVE  /\ UNCHANGED <<wr, writes, mapping>>
               /\ \A k \in Keys, s \in Slots :
                    values'[k][s] = values[k][s] \/ values'[k][s].write = 0
    BY <1>8 DEF DeleteValue, TypeOK
  <1>. QED
    BY <1>1, <1>2, <1>3, <1>4, <1>5, <1>6, <1>7, <1>8 DEF Next

\* Every step keeps the invariant when stores of a key exclude each other.
LEMMA DescribeStep ==
  ASSUME Exclusive, DescribeInv, [Next]_vars
  PROVE  DescribeInv'
  <1>. USE StorerAssumption
  <1>1. TypeOK /\ TypeOK' /\ wr \in [Writers -> Writer]
    BY TypeStep DEF DescribeInv, TypeOK
  <1>2. ASSUME NEW w \in Writers, StoreValue(w) PROVE DescribeInv'
    <2>1. PICK k \in Keys, s \in Slots :
            /\ MayWrite(k)
            /\ values'[k][s].write = writes + 1
            /\ \A j \in Keys, t \in Slots : j # k \/ t # s => values'[j][t] = values[j][t]
            /\ wr'[w].key = k /\ wr'[w].slot = s /\ ~wr'[w].loaded
            /\ wr'[w].entry.write = writes + 1
            /\ \A v \in Writers : v # w => wr'[v] = wr[v]
      BY <1>1, <1>2, StoresValue
    <2>2. \A v \in Writers : wr[v].key # k
      BY <2>1 DEF MayWrite, Writing
    <2>3. mapping' = mapping /\ wr[w].key = NoKey
      BY <1>2 DEF StoreValue
    <2>4. OneWriter'
      BY <2>1, <2>2 DEF DescribeInv, OneWriter
    <2>5. ASSUME NEW j \in Keys, NEW t \in Slots,
                 \A v \in Writers : wr'[v].key = j => wr'[v].slot # t
          PROVE  Described(mapping[Name(j)], j, t)'
      <3>1. j # k \/ t # s
        BY <2>1, <2>5
      <3>2. \A v \in Writers : wr[v].key = j => wr[v].slot # t
        BY <2>1, <2>3, <2>5
      <3>. QED
        BY <2>1, <2>3, <3>1, <3>2 DEF DescribeInv, OthersDescribed, Described
    <2>6. OthersDescribed'
      BY <2>5 DEF OthersDescribed
    <2>7. OwnValue'
      BY <1>1, <2>1, <2>2 DEF DescribeInv, OwnValue, Writer
    <2>8. LoadedDescribes'
      BY <1>1, <2>1, <2>2 DEF DescribeInv, LoadedDescribes, Described, Writer
    <2>. QED
      BY <1>1, <2>4, <2>6, <2>7, <2>8 DEF DescribeInv
  <1>3. ASSUME NEW w \in Writers, LoadMapping(w) PROVE DescribeInv'
    <2>1. /\ wr[w].key \in Keys /\ wr[w].slot \in Slots
          /\ wr'[w].key = wr[w].key /\ wr'[w].slot = wr[w].slot
          /\ wr'[w].entry = wr[w].entry /\ wr'[w].loaded
          /\ \A s \in Slots : wr'[w].map[s] =
               IF s = wr[w].slot THEN wr[w].entry ELSE mapping[Name(wr[w].key)][s]
          /\ \A v \in Writers : v # w => wr'[v] = wr[v]
      BY <1>1, <1>3, LoadsMapping
    <2>2. values' = values /\ mapping' = mapping
      BY <1>3 DEF LoadMapping
    <2>3. \A v \in Writers : wr'[v].key = wr[v].key /\ wr'[v].slot = wr[v].slot
                              /\ wr'[v].entry = wr[v].entry
      BY <2>1
    <2>4. OneWriter' /\ OwnValue'
      BY <2>2, <2>3 DEF DescribeInv, OneWriter, OwnValue
    <2>5. OthersDescribed'
      BY <2>2, <2>3 DEF DescribeInv, OthersDescribed, Described
    <2>6. \A s \in Slots : s # wr[w].slot => Described(mapping[Name(wr[w].key)], wr[w].key, s)
      BY <2>1 DEF DescribeInv, OneWriter, OthersDescribed
    <2>7. ASSUME NEW v \in Writers, wr'[v].key \in Keys, wr'[v].loaded, NEW s \in Slots
          PROVE  (IF s = wr[v].slot THEN wr[v].map[s].write = wr[v].entry.write
                                    ELSE Described(wr[v].map, wr[v].key, s))'
      <3>1. CASE v = w
        BY <2>1, <2>2, <2>6, <3>1 DEF Described
      <3>2. CASE v # w
        <4>1. wr'[v] = wr[v]
          BY <2>1, <3>2
        <4>. QED
          BY <2>2, <2>7, <4>1 DEF DescribeInv, LoadedDescribes, Described
      <3>. QED
        BY <3>1, <3>2
    <2>8. LoadedDescribes'
      BY <2>7 DEF LoadedDescribes
    <2>. QED
      BY <1>1, <2>4, <2>5, <2>8 DEF DescribeInv
  <1>4. ASSUME NEW w \in Writers, StoreMapping(w) PROVE DescribeInv'
    <2>. DEFINE k == wr[w].key
    <2>1. /\ k \in Keys /\ wr[w].slot \in Slots /\ wr[w].loaded
          /\ wr'[w].key = NoKey /\ \A v \in Writers : v # w => wr'[v] = wr[v]
          /\ mapping'[Name(k)] = wr[w].map
          /\ \A j \in Keys : j # k => mapping'[Name(j)] = mapping[Name(j)]
      BY <1>1, <1>4, StoresMapping
    <2>2. values' = values
      BY <1>4 DEF StoreMapping
    <2>3. OneWriter' /\ OwnValue' /\ LoadedDescribes'
      BY <2>1, <2>2 DEF DescribeInv, OneWriter, OwnValue, LoadedDescribes, Described
    <2>4. \A s \in Slots : Described(wr[w].map, k, s)
      BY <2>1 DEF DescribeInv, OwnValue, LoadedDescribes, Described
    <2>5. ASSUME NEW j \in Keys, NEW t \in Slots,
                 \A v \in Writers : wr'[v].key = j => wr'[v].slot # t
          PROVE  Described(mapping[Name(j)], j, t)'
      <3>1. CASE j = k
        BY <2>1, <2>2, <2>4, <3>1 DEF Described
      <3>2. CASE j # k
        BY <2>1, <2>2, <2>5, <3>2 DEF DescribeInv, OthersDescribed, Described
      <3>. QED
        BY <3>1, <3>2
    <2>6. OthersDescribed'
      BY <2>5 DEF OthersDescribed
    <2>. QED
      BY <1>1, <2>3, <2>6 DEF DescribeInv
  <1>. QED
    BY <1>1, <1>2, <1>3, <1>4, OthersForget, DescribeForget

\* MappingDescribesValue: when every Store of a cached key runs in the
\* singleflight call of that key, the times and the ETag that MappingElection
\* reads belong to the response it returns, although SetMultiLevel stores the
\* response and its entry in separate steps and others delete in between.
THEOREM MappingsDescribeValues ==
  ASSUME Exclusive
  PROVE  Spec => []MappingDescribesValue
  <1>1. DescribeInv /\ [Next]_vars => DescribeInv'
    BY DescribeStep
  <1>2. DescribeInv => MappingDescribesValue
    BY DEF DescribeInv, OthersDescribed, Described, MappingDescribesValue, Writing
  <1>. QED
    BY <1>1, <1>2, DescribeInit, PTL DEF Spec

-----------------------------------------------------------------------------
(***************************************************************************)
(* A lookup goes from the mapping to the values in several steps: what it  *)
(* has still to look at must be newer than what was invalidated before.    *)
(***************************************************************************)

\* A response that is there was stored after number n.
Newer(k, s, n) == values[k][s].write # 0 => values[k][s].write > n

Numbers ==
  /\ \A k \in Keys, s \in Slots : floor[k][s] <= writes
  /\ \A r \in Readers, s \in Slots : rd[r].floor[s] <= writes
  /\ \A p \in Removers : rm[p].upTo <= writes
\* What a mapping lists, or will list, was not invalidated.
ListedIsNewer ==
  \A k \in Keys, s \in Slots :
    mapping[Name(k)][s].write # 0 => Newer(k, s, floor[k][s])
WrittenIsNewer ==
  \A w \in Writers : wr[w].key \in Keys =>
    /\ Newer(wr[w].key, wr[w].slot, floor[wr[w].key][wr[w].slot])
    /\ wr[w].loaded => \A s \in Slots :
         wr[w].map[s].write # 0 => Newer(wr[w].key, s, floor[wr[w].key][s])
\* What a purge has deleted stays deleted, but for newer responses.
PurgedIsGone ==
  \A p \in Removers : rm[p].key \in Keys =>
    \A s \in rm[p].purged \ rm[p].todo : Newer(rm[p].key, s, rm[p].upTo)
\* What a lookup has still to look at, and what it has, was not invalidated.
VisitsNewer ==
  \A r \in Readers : rd[r].key \in Keys =>
    \A s \in Slots : s \in rd[r].todo \/ (rd[r].at # "elect" /\ s = rd[r].cur) =>
      Newer(rd[r].key, s, rd[r].floor[s])
FoundIsNewer ==
  \A r \in Readers : rd[r].key \in Keys /\ rd[r].write # 0 =>
    rd[r].write > rd[r].floor[rd[r].slot]
NewerInv == /\ TypeOK /\ Numbers /\ ListedIsNewer /\ WrittenIsNewer
            /\ PurgedIsGone /\ VisitsNewer /\ FoundIsNewer

\* In the beginning there is nothing to invalidate.
LEMMA NewerInit == Init => NewerInv
  <1>. SUFFICES ASSUME Init PROVE NewerInv
    OBVIOUS
  <1>. USE StorerAssumption
  <1>1. \A k \in Keys, s \in Slots : values[k][s].write = 0 /\ floor[k][s] = 0
    BY DEF Init, NoItem
  <1>2. /\ \A w \in Writers : wr[w].key \notin Keys
        /\ \A r \in Readers : rd[r].key \notin Keys /\ \A s \in Slots : rd[r].floor[s] = 0
        /\ \A p \in Removers : rm[p].key \notin Keys /\ rm[p].upTo = 0
    BY DEF Init, NoWriter, NoReader, NoRemover
  <1>3. writes = 0
    BY DEF Init
  <1>4. Numbers
    BY <1>1, <1>2, <1>3 DEF Numbers
  <1>5. ListedIsNewer
    BY <1>1 DEF ListedIsNewer, Newer
  <1>6. WrittenIsNewer /\ PurgedIsGone /\ VisitsNewer /\ FoundIsNewer
    BY <1>2 DEF WrittenIsNewer, PurgedIsGone, VisitsNewer, FoundIsNewer
  <1>. QED
    BY <1>4, <1>5, <1>6, InitType DEF NewerInv

\* Responses get higher numbers than all that were given before, so that what
\* is newer stays so.
LEMMA NewerStays ==
  ASSUME TypeOK, [Next]_vars
  PROVE  /\ writes' \in Nat /\ writes' >= writes
         /\ \A k \in Keys, s \in Slots, n \in Nat :
              n <= writes /\ Newer(k, s, n) =>
                (values'[k][s].write # 0 => values'[k][s].write > n)
  <1>1. CASE \E w \in Writers : StoreValue(w)
    <2>1. PICK w \in Writers : StoreValue(w)
      BY <1>1
    <2>2. PICK k \in Keys, s \in Slots :
            /\ values'[k][s].write = writes + 1
            /\ \A j \in Keys, t \in Slots : j # k \/ t # s => values'[j][t] = values[j][t]
      BY <2>1, StoresValue
    <2>3. writes \in Nat /\ writes' = writes + 1
      BY <2>1 DEF StoreValue, TypeOK
    <2>. QED
      BY <2>2, <2>3 DEF Newer
  <1>2. CASE \E w \in Writers : LoadMapping(w) \/ StoreMapping(w)
    <2>1. values' = values /\ writes' = writes /\ writes \in Nat
      BY <1>2 DEF LoadMapping, StoreMapping, TypeOK
    <2>. QED
      BY <2>1 DEF Newer
  <1>3. CASE ~\E w \in Writers : StoreValue(w) \/ LoadMapping(w) \/ StoreMapping(w)
    <2>1. writes \in Nat
      BY DEF TypeOK
    <2>. QED
      BY <1>3, <2>1, OthersForget DEF Newer
  <1>. QED
    BY <1>1, <1>2, <1>3

\* A step that leaves floors, readers and removers alone keeps what they know.
LEMMA NewerFrame ==
  ASSUME NewerInv, [Next]_vars
  PROVE  /\ TypeOK /\ TypeOK'
         /\ floor' = floor /\ rd' = rd /\ rm' = rm => Numbers'
         /\ rm' = rm => PurgedIsGone'
         /\ rd' = rd => VisitsNewer' /\ FoundIsNewer'
  <1>1. TypeOK /\ TypeOK'
    BY TypeStep DEF NewerInv
  <1>2. /\ writes' \in Nat /\ writes' >= writes /\ writes \in Nat
        /\ \A k \in Keys, s \in Slots, n \in Nat :
             n <= writes /\ Newer(k, s, n) =>
               (values'[k][s].write # 0 => values'[k][s].write > n)
    BY <1>1, NewerStays DEF TypeOK
  <1>3. ASSUME floor' = floor, rd' = rd, rm' = rm PROVE Numbers'
    <2>1. \A k \in Keys, s \in Slots : floor[k][s] \in Nat
      BY <1>1 DEF TypeOK
    <2>2. \A r \in Readers, s \in Slots : rd[r].floor[s] \in Nat
      BY <1>1 DEF TypeOK, Reader
    <2>3. \A p \in Removers : rm[p].upTo \in Nat
      BY <1>1 DEF TypeOK, Remover
    <2>. QED
      BY <1>2, <1>3, <2>1, <2>2, <2>3 DEF NewerInv, Numbers
  <1>4. ASSUME rm' = rm PROVE PurgedIsGone'
    <2>1. \A p \in Removers : rm[p].upTo \in Nat /\ rm[p].upTo <= writes
                               /\ rm[p].purged \subseteq Slots
      BY <1>1 DEF TypeOK, Remover, NewerInv, Numbers
    <2>. QED
      BY <1>2, <1>4, <2>1 DEF NewerInv, PurgedIsGone, Newer
  <1>5. ASSUME rd' = rd PROVE VisitsNewer'
    <2>1. \A r \in Readers, s \in Slots : rd[r].floor[s] \in Nat /\ rd[r].floor[s] <= writes
      BY <1>1 DEF TypeOK, Reader, NewerInv, Numbers
    <2>. QED
      BY <1>2, <1>5, <2>1 DEF NewerInv, VisitsNewer, Newer
  <1>6. ASSUME rd' = rd PROVE FoundIsNewer'
    BY <1>6 DEF NewerInv, FoundIsNewer
  <1>. QED
    BY <1>1, <1>3, <1>4, <1>5, <1>6

\* So does a step that leaves floors and writers alone.
LEMMA NewerForget ==
  ASSUME NewerInv, [Next]_vars, floor' = floor,
         ~\E w \in Writers : StoreValue(w) \/ LoadMapping(w) \/ StoreMapping(w)
  PROVE  ListedIsNewer' /\ WrittenIsNewer'
  <1>1. TypeOK
    BY DEF NewerInv
  <1>2. \A k \in Keys, s \in Slots, n \in Nat :
          n <= writes /\ Newer(k, s, n) =>
            (values'[k][s].write # 0 => values'[k][s].write > n)
    BY <1>1, NewerStays
  <1>3. \A k \in Keys, s \in Slots : floor[k][s] \in Nat /\ floor[k][s] <= writes
    BY <1>1 DEF NewerInv, Numbers, TypeOK
  <1>4. /\ wr' = wr
        /\ \A k \in Keys, s \in Slots :
             mapping'[Name(k)][s] = mapping[Name(k)][s] \/ mapping'[Name(k)][s].write = 0
    BY <1>1, OthersForget
  <1>5. ListedIsNewer'
    BY <1>2, <1>3, <1>4 DEF NewerInv, ListedIsNewer, Newer
  <1>6. \A w \in Writers : wr[w].slot \in Slots
    BY <1>1 DEF TypeOK, Writer
  <1>7. WrittenIsNewer'
    BY <1>2, <1>3, <1>4, <1>6 DEF NewerInv, WrittenIsNewer, Newer
  <1>. QED
    BY <1>5, <1>7

\* SetMultiLevel stores what is newer than all that was invalidated, and lists
\* nothing older.
LEMMA NewerWriter ==
  ASSUME NewerInv, [Next]_vars, NEW w \in Writers,
         StoreValue(w) \/ LoadMapping(w) \/ StoreMapping(w)
  PROVE  NewerInv'
  <1>1. TypeOK /\ TypeOK' /\ Numbers' /\ PurgedIsGone' /\ VisitsNewer' /\ FoundIsNewer'
    BY NewerFrame DEF StoreValue, LoadMapping, StoreMapping
  <1>2. \A k \in Keys, s \in Slots, n \in Nat :
          n <= writes /\ Newer(k, s, n) =>
            (values'[k][s].write # 0 => values'[k][s].write > n)
    BY <1>1, NewerStays
  <1>3. \A k \in Keys, s \in Slots : floor[k][s] \in Nat /\ floor[k][s] <= writes
    BY <1>1 DEF NewerInv, Numbers, TypeOK
  <1>4. floor' = floor /\ writes \in Nat /\ \A v \in Writers : wr[v].slot \in Slots
    BY <1>1 DEF StoreValue, LoadMapping, StoreMapping, TypeOK, Writer
  <1>. SUFFICES ListedIsNewer' /\ WrittenIsNewer'
    BY <1>1 DEF NewerInv
  <1>5. CASE StoreValue(w)
    <2>1. PICK k \in Keys, s \in Slots :
            /\ values'[k][s].write = writes + 1
            /\ wr'[w].key = k /\ wr'[w].slot = s /\ ~wr'[w].loaded
            /\ \A v \in Writers : v # w => wr'[v] = wr[v]
      BY <1>1, <1>5, StoresValue
    <2>2. mapping' = mapping
      BY <1>5 DEF StoreValue
    <2>3. ListedIsNewer'
      BY <1>2, <1>3, <1>4, <2>2 DEF NewerInv, ListedIsNewer, Newer
    <2>4. ASSUME NEW v \in Writers, wr'[v].key \in Keys
          PROVE  (/\ Newer(wr[v].key, wr[v].slot, floor[wr[v].key][wr[v].slot])
                  /\ wr[v].loaded => \A t \in Slots :
                       wr[v].map[t].write # 0 => Newer(wr[v].key, t, floor[wr[v].key][t]))'
      <3>1. CASE v = w
        BY <1>3, <1>4, <2>1, <3>1 DEF Newer
      <3>2. CASE v # w
        <4>1. wr'[v] = wr[v] /\ wr[v].key \in Keys /\ wr[v].slot \in Slots
          BY <1>4, <2>1, <2>4, <3>2
        <4>2. /\ Newer(wr[v].key, wr[v].slot, floor[wr[v].key][wr[v].slot])
              /\ wr[v].loaded => \A t \in Slots :
                   wr[v].map[t].write # 0 => Newer(wr[v].key, t, floor[wr[v].key][t])
          BY <4>1 DEF NewerInv, WrittenIsNewer
        <4>3. \A t \in Slots : Newer(wr[v].key, t, floor[wr[v].key][t]) =>
                (Newer(wr[v].key, t, floor[wr[v].key][t]))'
          BY <1>2, <1>3, <1>4, <4>1 DEF Newer
        <4>. QED
          BY <1>4, <4>1, <4>2, <4>3
      <3>. QED
        BY <3>1, <3>2
    <2>5. WrittenIsNewer'
      BY <2>4 DEF WrittenIsNewer
    <2>. QED
      BY <2>3, <2>5
  <1>6. CASE LoadMapping(w)
    <2>1. /\ wr[w].key \in Keys /\ wr[w].slot \in Slots
          /\ wr'[w].key = wr[w].key /\ wr'[w].slot = wr[w].slot
          /\ \A s \in Slots : wr'[w].map[s] =
               IF s = wr[w].slot THEN wr[w].entry ELSE mapping[Name(wr[w].key)][s]
          /\ \A v \in Writers : v # w => wr'[v] = wr[v]
      BY <1>1, <1>6, LoadsMapping
    <2>2. mapping' = mapping /\ values' = values
      BY <1>6 DEF LoadMapping
    <2>3. ListedIsNewer'
      BY <1>4, <2>2 DEF NewerInv, ListedIsNewer, Newer
    <2>4. ASSUME NEW v \in Writers, wr'[v].key \in Keys
          PROVE  (/\ Newer(wr[v].key, wr[v].slot, floor[wr[v].key][wr[v].slot])
                  /\ wr[v].loaded => \A t \in Slots :
                       wr[v].map[t].write # 0 => Newer(wr[v].key, t, floor[wr[v].key][t]))'
      <3>1. CASE v = w
        <4>1. Newer(wr[w].key, wr[w].slot, floor[wr[w].key][wr[w].slot])
          BY <2>1 DEF NewerInv, WrittenIsNewer
        <4>2. \A t \in Slots : mapping[Name(wr[w].key)][t].write # 0 =>
                Newer(wr[w].key, t, floor[wr[w].key][t])
          BY <2>1 DEF NewerInv, ListedIsNewer
        <4>. QED
          BY <1>4, <2>1, <2>2, <3>1, <4>1, <4>2 DEF Newer
      <3>2. CASE v # w
        <4>1. wr'[v] = wr[v]
          BY <2>1, <3>2
        <4>. QED
          BY <1>4, <2>2, <2>4, <4>1 DEF NewerInv, WrittenIsNewer, Newer
      <3>. QED
        BY <3>1, <3>2
    <2>5. WrittenIsNewer'
      BY <2>4 DEF WrittenIsNewer
    <2>. QED
      BY <2>3, <2>5
  <1>7. CASE StoreMapping(w)
    <2>1. /\ wr[w].key \in Keys /\ wr[w].loaded
          /\ wr'[w].key = NoKey /\ \A v \in Writers : v # w => wr'[v] = wr[v]
          /\ mapping'[Name(wr[w].key)] = wr[w].map
          /\ \A j \in Keys : j # wr[w].key => mapping'[Name(j)] = mapping[Name(j)]
      BY <1>1, <1>7, StoresMapping
    <2>2. values' = values
      BY <1>7 DEF StoreMapping
    <2>3. ListedIsNewer'
      BY <1>4, <2>1, <2>2 DEF NewerInv, ListedIsNewer, WrittenIsNewer, Newer
    <2>4. WrittenIsNewer'
      BY <1>4, <2>1, <2>2, StorerAssumption DEF NewerInv, WrittenIsNewer, Newer
    <2>. QED
      BY <2>3, <2>4
  <1>. QED
    BY <1>5, <1>6, <1>7

\* A lookup begins with what is listed, and goes on with what it began with.
LEMMA NewerReader ==
  ASSUME NewerInv, [Next]_vars, NEW r \in Readers,
         \/ BeginRead(r)
         \/ Elect(r) \/ Retry(r) \/ GetItem(r) \/ DropExpired(r) \/ EndRead(r)
  PROVE  NewerInv'
  <1>. USE StorerAssumption
  <1>1. UNCHANGED <<mapping, wr, rm, floor, writes>>
    BY DEF BeginRead, Elect, Retry, GetItem, DropExpired, EndRead
  <1>2. TypeOK /\ TypeOK' /\ PurgedIsGone'
    BY <1>1, NewerFrame
  <1>3. \A k \in Keys, s \in Slots, n \in Nat :
          n <= writes /\ Newer(k, s, n) =>
            (values'[k][s].write # 0 => values'[k][s].write > n)
    BY <1>2, NewerStays
  <1>4. \A k \in Keys, s \in Slots : floor[k][s] \in Nat /\ floor[k][s] <= writes
    BY <1>2 DEF NewerInv, Numbers, TypeOK
  <1>5. writes \in Nat /\ \A q \in Readers, s \in Slots :
          rd[q].floor[s] \in Nat /\ rd[q].floor[s] <= writes
    BY <1>2 DEF NewerInv, Numbers, TypeOK, Reader
  <1>6. ListedIsNewer' /\ WrittenIsNewer'
    <2>1. ListedIsNewer'
      BY <1>1, <1>3, <1>4 DEF NewerInv, ListedIsNewer, Newer
    <2>2. \A w \in Writers : wr[w].slot \in Slots
      BY <1>2 DEF TypeOK, Writer
    <2>3. WrittenIsNewer'
      BY <1>1, <1>3, <1>4, <2>2 DEF NewerInv, WrittenIsNewer, Newer
    <2>. QED
      BY <2>1, <2>3
  <1>. SUFFICES ASSUME NEW q \in Readers
                PROVE  /\ \A s \in Slots : rd'[q].floor[s] <= writes
                       /\ rd'[q].key \in Keys => \A s \in Slots : Visits(rd'[q], s) =>
                            (values'[rd'[q].key][s].write # 0 =>
                               values'[rd'[q].key][s].write > rd'[q].floor[s])
                       /\ rd'[q].key \in Keys /\ rd'[q].write # 0 =>
                            rd'[q].write > rd'[q].floor[rd'[q].slot]
    BY <1>1, <1>2, <1>6 DEF NewerInv, Numbers, VisitsNewer, FoundIsNewer, Visits, Newer
  <1>7. /\ \A s \in Slots : rd[q].floor[s] <= writes
        /\ rd[q].key \in Keys => \A s \in Slots : Visits(rd[q], s) =>
             (values'[rd[q].key][s].write # 0 => values'[rd[q].key][s].write > rd[q].floor[s])
        /\ rd[q].key \in Keys /\ rd[q].write # 0 => rd[q].write > rd[q].floor[rd[q].slot]
    BY <1>3, <1>5 DEF NewerInv, VisitsNewer, FoundIsNewer, Visits
  <1>8. CASE BeginRead(r)
    <2>1. CASE q # r
      BY <1>2, <1>7, <1>8, <2>1, ReadBegins
    <2>2. CASE q = r
      <3>1. /\ rd'[r].key \in Keys
            /\ \A s \in Slots : s \in rd'[r].todo =>
                 /\ mapping[Name(rd'[r].key)][s].write # 0
                 /\ rd'[r].floor[s] = floor[rd'[r].key][s]
            /\ \A s \in Slots : rd'[r].floor[s] \in {0, floor[rd'[r].key][s]}
            /\ rd'[r].at = "elect" /\ rd'[r].write = 0
        BY <1>2, <1>8, ReadBegins
      <3>2. values' = values
        BY <1>8 DEF BeginRead
      <3>. QED
        BY <1>4, <1>5, <2>2, <3>1, <3>2 DEF NewerInv, ListedIsNewer, Newer, Visits
    <2>. QED
      BY <2>1, <2>2
  <1>9. CASE Elect(r) \/ Retry(r) \/ GetItem(r) \/ DropExpired(r) \/ EndRead(r)
    <2>1. CASE q # r
      BY <1>2, <1>7, <1>9, <2>1, ReadGoesOn
    <2>2. CASE q = r /\ rd'[r] = NoReader
      <3>1. /\ rd'[r].key \notin Keys /\ \A s \in Slots : rd'[r].floor[s] = 0
        BY <2>2 DEF NoReader
      <3>. QED
        BY <1>5, <2>2, <3>1
    <2>3. ASSUME q = r, NEW s \in Slots, NEW place \in Places,
                 Visits(rd[r], s), rd'[r] = At(rd[r], place, s)
          PROVE  /\ rd'[q].key = rd[q].key /\ rd'[q].floor = rd[q].floor
                 /\ rd'[q].write = rd[q].write /\ rd'[q].slot = rd[q].slot
                 /\ \A t \in Slots : Visits(rd'[q], t) => Visits(rd[q], t)
      <3>1. /\ rd'[r].key = rd[r].key /\ rd'[r].floor = rd[r].floor
            /\ rd'[r].write = rd[r].write /\ rd'[r].slot = rd[r].slot
            /\ rd'[r].todo = rd[r].todo \ {s} /\ rd'[r].at = place
            /\ place # "elect" => rd'[r].cur = s
        BY <2>3 DEF At
      <3>. QED
        BY <2>3, <3>1 DEF Visits
    <2>4. ASSUME q = r, NEW f \in BOOLEAN, rd[r].at # "elect", rd[r].key \in Keys,
                 rd'[r] = Found(rd[r], rd[r].cur, values[rd[r].key][rd[r].cur].write, f)
          PROVE  /\ rd'[q].key = rd[q].key /\ rd'[q].floor = rd[q].floor
                 /\ rd'[q].write # 0 => rd'[q].write > rd'[q].floor[rd'[q].slot]
                 /\ \A t \in Slots : Visits(rd'[q], t) => Visits(rd[q], t)
      <3>1. /\ rd'[r].key = rd[r].key /\ rd'[r].floor = rd[r].floor
            /\ rd'[r].write = values[rd[r].key][rd[r].cur].write /\ rd'[r].slot = rd[r].cur
            /\ rd'[r].todo = rd[r].todo \ {rd[r].cur} /\ rd'[r].at = "elect"
        BY <2>4 DEF Found
      <3>2. rd[r].cur \in Slots
        BY <1>2 DEF TypeOK, Reader
      <3>3. Newer(rd[r].key, rd[r].cur, rd[r].floor[rd[r].cur])
        BY <2>4, <3>2 DEF NewerInv, VisitsNewer
      <3>. QED
        BY <2>4, <3>1, <3>3 DEF Visits, Newer
    <2>. QED
      BY <1>2, <1>7, <1>9, <2>1, <2>2, <2>3, <2>4, ReadGoesOn
  <1>. QED
    BY <1>8, <1>9

\* A purge that ends has seen every response that was there when it began gone.
LEMMA NewerRemover ==
  ASSUME NewerInv, [Next]_vars, NEW p \in Removers,
         BeginPurge(p) \/ DeleteMapping(p) \/ BeginList(p) \/ DeleteValue(p) \/ EndRemoval(p),
         ~\E w \in Writers : StoreValue(w) \/ LoadMapping(w) \/ StoreMapping(w)
  PROVE  NewerInv'
  <1>. USE StorerAssumption
  <1>1. UNCHANGED <<wr, rd, writes>>
    BY DEF BeginPurge, DeleteMapping, BeginList, DeleteValue, EndRemoval
  <1>2. TypeOK /\ TypeOK' /\ VisitsNewer' /\ FoundIsNewer'
    BY <1>1, NewerFrame
  <1>. DEFINE newer(k, s, n) == values'[k][s].write # 0 => values'[k][s].write > n
  <1>3. \A k \in Keys, s \in Slots, n \in Nat :
          n <= writes /\ Newer(k, s, n) => newer(k, s, n)
    BY <1>2, NewerStays
  <1>4. /\ \A q \in Removers : /\ rm[q].upTo \in Nat /\ rm[q].upTo <= writes
                               /\ rm[q].todo \subseteq Slots /\ rm[q].purged \subseteq Slots
        /\ writes \in Nat
        /\ \A k \in Keys, s \in Slots : floor[k][s] \in Nat /\ floor[k][s] <= writes
        /\ \A r \in Readers, s \in Slots : rd[r].floor[s] <= writes
    BY <1>2 DEF NewerInv, Numbers, TypeOK, Remover
  <1>5. \A q \in Removers : rm[q].key \in Keys =>
          \A s \in rm[q].purged \ rm[q].todo : newer(rm[q].key, s, rm[q].upTo)
    BY <1>3, <1>4 DEF NewerInv, PurgedIsGone
  <1>6. ASSUME floor' = floor,
               \A q \in Removers : q # p => rm'[q] = rm[q],
               rm'[p].upTo <= writes,
               rm'[p].key \in Keys =>
                 \A s \in rm'[p].purged \ rm'[p].todo : newer(rm'[p].key, s, rm'[p].upTo)
        PROVE  NewerInv'
    <2>1. ListedIsNewer' /\ WrittenIsNewer'
      BY <1>6, NewerForget
    <2>2. Numbers'
      BY <1>1, <1>4, <1>6 DEF Numbers
    <2>3. PurgedIsGone'
      BY <1>5, <1>6 DEF PurgedIsGone, Newer
    <2>. QED
      BY <1>2, <2>1, <2>2, <2>3 DEF NewerInv
  <1>7. CASE BeginPurge(p)
    <2>1. PICK k \in Keys, t \in Slots :
            rm' = [rm EXCEPT ![p] = [key |-> k, map |-> t = NoVary, upTo |-> writes,
                                     todo |-> Selected(t), purged |-> Selected(t)]]
      BY <1>7, Zenon DEF BeginPurge
    <2>2. /\ rm'[p].upTo = writes /\ rm'[p].purged = rm'[p].todo
          /\ \A q \in Removers : q # p => rm'[q] = rm[q]
      BY <1>2, <2>1 DEF TypeOK
    <2>. QED
      BY <1>4, <1>6, <1>7, <2>2 DEF BeginPurge
  <1>8. CASE BeginList(p)
    <2>1. /\ rm'[p].upTo = 0 /\ rm'[p].purged = {}
          /\ \A q \in Removers : q # p => rm'[q] = rm[q]
      BY <1>2, <1>8 DEF BeginList, TypeOK
    <2>. QED
      BY <1>4, <1>6, <1>8, <2>1 DEF BeginList
  <1>9. CASE DeleteMapping(p)
    <2>1. /\ rm'[p].key = rm[p].key /\ rm'[p].upTo = rm[p].upTo
          /\ rm'[p].purged = rm[p].purged /\ rm'[p].todo = rm[p].todo
          /\ \A q \in Removers : q # p => rm'[q] = rm[q]
      BY <1>2, <1>9 DEF DeleteMapping, TypeOK, Remover
    <2>. QED
      BY <1>4, <1>5, <1>6, <1>9, <2>1 DEF DeleteMapping
  <1>10. CASE DeleteValue(p)
    <2>1. PICK t \in rm[p].todo :
            /\ values' = [values EXCEPT ![rm[p].key][t] = NoItem]
            /\ rm' = [rm EXCEPT ![p].todo = @ \ {t}]
      BY <1>10 DEF DeleteValue
    <2>2. /\ rm'[p].key = rm[p].key /\ rm'[p].upTo = rm[p].upTo
          /\ rm'[p].purged = rm[p].purged /\ rm'[p].todo = rm[p].todo \ {t}
          /\ \A q \in Removers : q # p => rm'[q] = rm[q]
      BY <1>2, <2>1 DEF TypeOK, Remover
    <2>3. rm[p].key \in Keys /\ t \in Slots
      BY <1>2, <1>4, <1>10 DEF DeleteValue, TypeOK, Remover
    <2>4. values'[rm[p].key][t].write = 0
      BY <1>2, <2>1, <2>3, AbsentNumbers DEF TypeOK
    <2>5. \A s \in rm'[p].purged \ rm'[p].todo : newer(rm'[p].key, s, rm'[p].upTo)
      BY <1>5, <2>2, <2>3, <2>4
    <2>. QED
      BY <1>4, <1>6, <1>10, <2>2, <2>5 DEF DeleteValue
  <1>11. CASE EndRemoval(p)
    <2>. DEFINE k == rm[p].key
    <2>1. k \in Keys
      BY <1>2, <1>11 DEF EndRemoval, TypeOK, Remover
    <2>2. values' = values /\ mapping' = mapping
      BY <1>11 DEF EndRemoval
    <2>3. \A s \in rm[p].purged : Newer(k, s, rm[p].upTo)
      <3>1. \A s \in rm[p].todo : values[k][s] = NoItem \/ values[k][s].write > rm[p].upTo
        BY <1>11 DEF EndRemoval
      <3>2. \A s \in rm[p].todo : Newer(k, s, rm[p].upTo)
        BY <3>1, AbsentNumbers DEF Newer
      <3>. QED
        BY <2>1, <3>2 DEF NewerInv, PurgedIsGone
    <2>4. /\ \A j \in Keys, s \in Slots :
               \/ floor'[j][s] = floor[j][s]
               \/ j = k /\ s \in rm[p].purged /\ floor'[j][s] = rm[p].upTo
      BY <1>2, <1>11, <2>1 DEF EndRemoval, TypeOK
    <2>5. /\ \A q \in Removers : q # p => rm'[q] = rm[q]
          /\ rm'[p].key = NoKey /\ rm'[p].upTo = 0
      BY <1>2, <1>11 DEF EndRemoval, TypeOK, NoRemover
    <2>6. \A j \in Keys, s \in Slots : Newer(j, s, floor[j][s]) => Newer(j, s, floor[j][s])'
      BY <2>2, <2>3, <2>4 DEF Newer
    <2>7. Numbers'
      BY <1>1, <1>4, <2>4, <2>5 DEF Numbers
    <2>8. ListedIsNewer'
      BY <2>2, <2>6 DEF NewerInv, ListedIsNewer
    <2>9. \A w \in Writers : wr[w].slot \in Slots
      BY <1>2 DEF TypeOK, Writer
    <2>10. WrittenIsNewer'
      BY <1>1, <2>6, <2>9 DEF NewerInv, WrittenIsNewer
    <2>11. PurgedIsGone'
      BY <1>5, <2>5 DEF PurgedIsGone, Newer
    <2>. QED
      BY <1>2, <2>7, <2>8, <2>10, <2>11 DEF NewerInv
  <1>. QED
    BY <1>7, <1>8, <1>9, <1>10, <1>11

\* An unsafe request and a flush invalidate what they take out of the mapping.
LEMMA NewerInvalidate ==
  ASSUME ~Hashed, NewerInv, [Next]_vars, Reset \/ \E k \in Keys : Invalidate(k),
         ~\E w \in Writers : StoreValue(w) \/ LoadMapping(w) \/ StoreMapping(w)
  PROVE  NewerInv'
  <1>. USE StorerAssumption
  <1>1. UNCHANGED <<wr, rd, rm, writes>>
    BY DEF Reset, Invalidate
  <1>2. TypeOK /\ TypeOK' /\ VisitsNewer' /\ FoundIsNewer' /\ PurgedIsGone'
    BY <1>1, NewerFrame
  <1>3. /\ writes \in Nat
        /\ \A k \in Keys, s \in Slots : floor[k][s] \in Nat /\ floor[k][s] <= writes
        /\ \A w \in Writers : wr[w].slot \in Slots
    BY <1>2 DEF NewerInv, Numbers, TypeOK, Writer
  <1>4. CASE Reset
    <2>1. \A k \in Keys, s \in Slots : values'[k][s].write = 0 /\ floor'[k][s] = writes
      BY <1>4, AbsentNumbers DEF Reset
    <2>2. ListedIsNewer' /\ WrittenIsNewer'
      BY <1>1, <1>3, <2>1 DEF ListedIsNewer, WrittenIsNewer, Newer
    <2>3. Numbers'
      BY <1>1, <1>3, <2>1 DEF NewerInv, Numbers
    <2>. QED
      BY <1>2, <2>2, <2>3 DEF NewerInv
  <1>5. ASSUME NEW k \in Keys, Invalidate(k) PROVE NewerInv'
    <2>1. CASE Writing(k)
      <3>1. floor' = floor
        BY <1>5, <2>1 DEF Invalidate
      <3>. QED
        BY <1>1, <1>2, <3>1, NewerForget, NewerFrame DEF NewerInv
    <2>2. CASE ~Writing(k)
      <3>1. /\ \A s \in Slots : floor'[k][s] = writes
            /\ \A j \in Keys, s \in Slots : j # k => floor'[j][s] = floor[j][s]
        BY <1>2, <1>5, <2>2 DEF Invalidate, TypeOK
      <3>2. /\ \A s \in Slots : mapping'[Name(k)][s].write = 0
            /\ \A j \in Keys, s \in Slots : j # k => mapping'[Name(j)][s] = mapping[Name(j)][s]
        BY <1>2, <1>5, AbsentNumbers DEF Invalidate, Name, Names, TypeOK
      <3>3. \A w \in Writers : wr[w].key # k
        BY <2>2 DEF Writing
      <3>4. values' = values
        BY <1>5 DEF Invalidate
      <3>5. Numbers'
        BY <1>1, <1>3, <3>1 DEF NewerInv, Numbers
      <3>6. ListedIsNewer'
        BY <3>1, <3>2, <3>4 DEF NewerInv, ListedIsNewer, Newer
      <3>7. WrittenIsNewer'
        BY <1>1, <1>3, <3>1, <3>3, <3>4 DEF NewerInv, WrittenIsNewer, Newer
      <3>. QED
        BY <1>2, <3>5, <3>6, <3>7 DEF NewerInv
    <2>. QED
      BY <2>1, <2>2
  <1>. QED
    BY <1>4, <1>5

\* Every step keeps the invariant when names are not hashed.
LEMMA NewerStep ==
  ASSUME ~Hashed, NewerInv, [Next]_vars
  PROVE  NewerInv'
  <1>. DEFINE write == \E w \in Writers : StoreValue(w) \/ LoadMapping(w) \/ StoreMapping(w)
  <1>1. CASE write
    BY <1>1, NewerWriter
  <1>2. CASE \E r \in Readers : BeginRead(r) \/ Elect(r) \/ Retry(r) \/ GetItem(r)
                                 \/ DropExpired(r) \/ EndRead(r)
    BY <1>2, NewerReader
  <1>3. CASE ~write /\ \E p \in Removers : BeginPurge(p) \/ DeleteMapping(p) \/ BeginList(p)
                                            \/ DeleteValue(p) \/ EndRemoval(p)
    BY <1>3, NewerRemover
  <1>4. CASE ~write /\ (Reset \/ \E k \in Keys : Invalidate(k))
    BY <1>4, NewerInvalidate
  <1>5. CASE ~write /\ (Tick \/ UNCHANGED vars)
    <2>1. UNCHANGED <<floor, rd, rm>>
      BY <1>5 DEF Tick, vars
    <2>. QED
      BY <1>5, <2>1, NewerForget, NewerFrame DEF NewerInv
  <1>. QED
    BY <1>1, <1>2, <1>3, <1>4, <1>5 DEF Next

\* NoReadOfInvalidated: with names that are not hashed, a lookup never returns
\* a response that was invalidated by an unsafe request, purged or flushed
\* before it began, although mapping and responses are deleted one by one and
\* SetMultiLevel stores others meanwhile.  ServeHTTP deletes a mapping under
\* its plain name, so that nothing of the sort is promised for hashed names.
THEOREM InvalidatedIsNotRead ==
  ASSUME ~Hashed
  PROVE  Spec => []NoReadOfInvalidated
  <1>1. NewerInv /\ [Next]_vars => NewerInv'
    BY NewerStep
  <1>2. NewerInv => NoReadOfInvalidated
    BY DEF NewerInv, FoundIsNewer, NoReadOfInvalidated, TypeOK, Reader
  <1>. QED
    BY <1>1, <1>2, NewerInit, PTL DEF Spec
=============================================================================
