------------------------- MODULE ApiInvalidationProofs -------------------------
(* Theorems about ApiInvalidation, checked by TLAPS.                        *)
EXTENDS ApiInvalidation, TLAPS

Maps == [Slots -> Nat]
AnyKey == CHOOSE k \in RealKeys : TRUE
AnyHost == CHOOSE h \in Hosts : TRUE
AnyPath == CHOOSE p \in Paths : TRUE
AnyBase == CHOOSE b \in Bases : TRUE

\* A handler that stores, a POST request, and a round of EvictMapping.
Writer == [at : {"idle", "load", "store"}, key : RealKeys \union {AnyKey},
           write : Nat, map : Maps]
Post == [at : {"idle", "keys", "entries", "map", "value", "many", "end"},
         type : Types \union {"uri"}, host : Hosts \union {AnyHost},
         path : Paths \union {AnyPath}, purge : BOOLEAN, keys : SUBSET RealKeys,
         key : RealKeys \union {AnyKey}, map : Maps, todo : SUBSET RealKeys,
         maps : SUBSET Bases, must : SUBSET Nat]
Round == [at : {"idle", "next", "set"}, todo : SUBSET Bases,
          base : Bases \union {AnyBase}, snap : [Bases -> Maps], past : SUBSET Nat]

TypeOK ==
  /\ values \in [RealKeys -> Nat] /\ mapping \in [Bases -> Maps]
  /\ writes \in Nat /\ evicts \in Nat
  /\ expired \in SUBSET Nat /\ done \in SUBSET Nat /\ raced \in SUBSET Nat
  /\ wr \in [Writers -> Writer] /\ api \in Post /\ ev \in Round
  /\ \A w \in Writers : wr[w].at # "idle" => wr[w].key \in RealKeys

-----------------------------------------------------------------------------
\* The numbers of responses: each is stored under one key, also the one
\* that a handler has stored and whose mapping it is about to store.
Bounded == done \subseteq 1..writes /\ \A k \in RealKeys : values[k] <= writes
Distinct == \A j, k \in RealKeys : values[j] = values[k] /\ values[j] # 0 => j = k
OwnNumber ==
  \A w \in Writers : wr[w].at # "idle" =>
    /\ wr[w].write \in 1..writes
    /\ \A k \in RealKeys : values[k] = wr[w].write => k = wr[w].key
Numbered == TypeOK /\ Bounded /\ Distinct /\ OwnNumber

\* The request still has to delete whatever it must that is in the storer.
StillToDelete ==
  api.at # "idle" =>
    /\ api.must \subseteq done
    /\ api.at = "end" => api.keys = {}
    /\ \A k \in RealKeys : values[k] \in api.must =>
         \/ k \in api.keys
         \/ api.at \in {"entries", "map", "value"} /\ api.key = k
ReachInv == Numbered /\ StillToDelete

\* A response whose SetMultiLevel has returned, and ran with no round and no
\* invalidation of its cached key.
Settled(k) == values[k] \in done \ raced
\* The request deletes the response when it deletes the key, or what begins with it.
Doomed(k) == \/ api.at = "value" /\ k \in Begin(api.key)
             \/ api.at = "many" /\ k \in api.todo
\* An entry lists the response, or has been deleted before it.
Lists(e, k) == e = values[k] \/ (e = 0 /\ Doomed(k))

\* Such a response is listed by the mapping, by one that a handler has loaded,
\* by the one of a round, and by the one the request has read.
Listed == \A k \in RealKeys : Settled(k) => Lists(mapping[k[1]][k[2]], k)
LoadedLists == \A w \in Writers, k \in RealKeys :
  wr[w].at = "store" /\ k[1] = wr[w].key[1] /\ k # wr[w].key /\ Settled(k)
    => Lists(wr[w].map[k[2]], k)
RoundLists == \A k \in RealKeys :
  ev.at # "idle" /\ Settled(k) => Lists(ev.snap[k[1]][k[2]], k)
ReadLists == \A k \in RealKeys :
  api.at = "entries" /\ api.key[2] = "plain" /\ k[1] = api.key[1] /\ Settled(k)
    => api.map[k[2]] = values[k]
\* What the mapping listed is deleted before the mapping is, and what begins
\* with the key waits to be.
Emptied == \A k \in RealKeys :
  api.at \in {"map", "value"} /\ api.key[2] = "plain" /\ k[1] = api.key[1] => ~Settled(k)
Awaited == \A k \in RealKeys :
  api.at = "many" /\ Within(k[1], api.key) /\ Settled(k) => k \in api.todo
MapsWithin == api.at = "many" => \A b \in api.maps : Within(b, api.key)
\* What the round has seen expired is, and is deleted before its entry is dropped.
SeenExpired == ev.past \subseteq expired /\ 0 \notin expired
DeletedFirst == \A k \in RealKeys :
  ev.at = "set" /\ k[1] = ev.base /\ Settled(k) => ev.snap[k[1]][k[2]] \notin ev.past
\* Handlers at work: one for a cached key, under which nobody else has stored;
\* whose response is in the storer; and they know who is at work with them.
OneWriter == \A v, w \in Writers :
  wr[v].at # "idle" /\ wr[w].at # "idle" /\ wr[v].key[1] = wr[w].key[1] => v = w
OwnValue == \A w \in Writers :
  wr[w].at # "idle" => values[wr[w].key] \in {0, wr[w].write}
Accounted == \A k \in RealKeys :
  values[k] \in done \union {0} \/ \E w \in Writers : wr[w].at # "idle" /\ wr[w].write = values[k]
Disturbed == \A w \in Writers :
  wr[w].at # "idle" /\ (ev.at # "idle" \/ Deleting(wr[w].key[1])) => wr[w].write \in raced
\* Only the key of a plain response is the name of a mapping.
PlainMap ==
  api.at \in {"entries", "map"} /\ api.map # NoMapping => api.key[2] = "plain"

HandlersInv == OneWriter /\ OwnValue /\ Accounted /\ Disturbed
RequestInv == ReadLists /\ Emptied /\ Awaited /\ MapsWithin /\ PlainMap
RoundInv == RoundLists /\ SeenExpired /\ DeletedFirst
KeepInv == Numbered /\ Listed /\ LoadedLists /\ HandlersInv /\ RequestInv /\ RoundInv

-----------------------------------------------------------------------------
(* Types. *)

\* What is idle has its type.
LEMMA IdleTypes ==
  NoMapping \in Maps /\ NoWriter \in Writer /\ NoApi \in Post /\ NoRound \in Round
  <1>1. NoMapping \in Maps
    BY DEF NoMapping, Maps
  <1>2. NoWriter \in Writer
    BY <1>1 DEF NoWriter, Writer, AnyKey
  <1>3. NoApi \in Post
    BY <1>1 DEF NoApi, Post, AnyKey, AnyHost, AnyPath
  <1>4. NoRound \in Round
    BY <1>1 DEF NoRound, Round, AnyBase
  <1>. QED
    BY <1>1, <1>2, <1>3, <1>4

\* The parts of a cached key, and that it is nothing but them.
LEMMA KeyParts ==
  /\ \A k \in RealKeys : k[1] \in Bases /\ k[2] \in Slots
  /\ \A j, k \in RealKeys : j[1] = k[1] /\ j[2] = k[2] => j = k
  BY DEF RealKeys

\* What a handler that begins and one that has loaded the mapping become.
LEMMA WriterBegins ==
  ASSUME NEW k \in RealKeys, NEW n \in Nat
  PROVE  LET x == [NoWriter EXCEPT !.at = "load", !.key = k, !.write = n]
         IN  x \in Writer /\ x.at = "load" /\ x.key = k /\ x.write = n
  BY IdleTypes DEF Writer

LEMMA WriterLoads ==
  ASSUME NEW y \in Writer, NEW m \in Maps
  PROVE  LET x == [y EXCEPT !.at = "store", !.map = m]
         IN  x \in Writer /\ x.at = "store" /\ x.key = y.key /\ x.write = y.write /\ x.map = m
  BY DEF Writer

\* What List and BulkGet make of the request, and EvictValues of the round.
LEMMA PostLists ==
  ASSUME TypeOK, List
  PROVE  /\ api' \in Post /\ api'.at = "keys"
         /\ \E r \in [type : Types, host : Hosts, path : Paths] :
              \/ api'.keys = {} /\ api'.must = {}
              \/ api'.keys = Keys(r) /\ api'.must = Must(r)
  <1>1. PICK r \in [type : Types, host : Hosts, path : Paths], purge \in Purge,
             full \in BOOLEAN :
          api' = [api EXCEPT !.at = "keys", !.type = r.type, !.host = r.host,
                    !.path = r.path, !.purge = purge,
                    !.keys = IF full THEN {} ELSE Keys(r),
                    !.must = IF full THEN {} ELSE Must(r)]
    BY Zenon DEF List
  <1>. DEFINE ks == IF full THEN {} ELSE Keys(r)
              ns == IF full THEN {} ELSE Must(r)
  <1>2. ks \in SUBSET RealKeys /\ ns \in SUBSET Nat
    BY DEF TypeOK, Keys, Must, GetAll
  <1>3. purge \in BOOLEAN /\ r.type \in Types /\ r.host \in Hosts /\ r.path \in Paths
    BY ApiAssumption
  <1>4. api \in Post
    BY DEF TypeOK
  <1>5. \/ ks = {} /\ ns = {}
        \/ ks = Keys(r) /\ ns = Must(r)
    OBVIOUS
  <1>. HIDE DEF ks, ns
  <1>6. api' = [api EXCEPT !.at = "keys", !.type = r.type, !.host = r.host,
                  !.path = r.path, !.purge = purge, !.keys = ks, !.must = ns]
    BY <1>1, Zenon DEF ks, ns
  <1>7. /\ api' \in Post /\ api'.at = "keys" /\ api'.purge = purge
        /\ api'.keys = ks /\ api'.must = ns
    BY <1>2, <1>3, <1>4, <1>6 DEF Post
  <1>. QED
    BY <1>1, <1>5, <1>7

LEMMA PostGets ==
  ASSUME TypeOK, BulkGet
  PROVE  /\ api' \in Post /\ api'.at = "entries" /\ api'.purge = api.purge
         /\ api'.must = api.must /\ api'.key \in RealKeys
         /\ api'.keys = api.keys \ {api'.key}
         /\ api'.map = IF api'.key[2] = "plain" THEN mapping[api'.key[1]] ELSE NoMapping
  <1>1. PICK k \in api.keys :
          api' = [api EXCEPT !.at = "entries", !.key = k, !.keys = api.keys \ {k},
                    !.map = IF k[2] = "plain" THEN mapping[k[1]] ELSE NoMapping]
    BY DEF BulkGet
  <1>. DEFINE m == IF k[2] = "plain" THEN mapping[k[1]] ELSE NoMapping
              ks == api.keys \ {k}
  <1>2. api \in Post /\ k \in RealKeys /\ ks \in SUBSET RealKeys
    BY DEF TypeOK, Post
  <1>3. m \in Maps
    BY <1>2, IdleTypes, KeyParts DEF TypeOK
  <1>4. api' = [api EXCEPT !.at = "entries", !.key = k, !.keys = ks, !.map = m]
    BY <1>1
  <1>. HIDE DEF m, ks
  <1>5. /\ api' \in Post /\ api'.at = "entries" /\ api'.key = k /\ api'.keys = ks
        /\ api'.purge = api.purge /\ api'.must = api.must /\ api'.map = m
    BY <1>2, <1>3, <1>4 DEF Post
  <1>. QED
    BY <1>2, <1>5 DEF ks, m

LEMMA PostDeletes ==
  ASSUME TypeOK, BulkEntries \/ BulkMapping \/ Answer
  PROVE  /\ api' \in Post /\ api'.keys = api.keys /\ api'.key = api.key
         /\ api'.purge = api.purge /\ api'.must = api.must
         /\ BulkEntries => api.at = "entries" /\ api'.at = "map" /\ api'.map = api.map
         /\ BulkMapping => api.at = "map" /\ api'.at = "value"
         /\ Answer => api.at = "keys" /\ api.keys = {} /\ api'.at = "end"
  <1>1. api \in Post
    BY DEF TypeOK
  <1>2. CASE BulkEntries
    BY <1>1, <1>2 DEF BulkEntries, BulkMapping, Answer, Post
  <1>3. CASE BulkMapping
    BY <1>1, <1>3, IdleTypes DEF BulkEntries, BulkMapping, Answer, Post
  <1>4. CASE Answer
    BY <1>1, <1>4, IdleTypes DEF BulkEntries, BulkMapping, Answer, Post
  <1>. QED
    BY <1>2, <1>3, <1>4

\* What BulkValue, and the steps of DeleteMany, do.
LEMMA PostBegins ==
  ASSUME TypeOK, BulkValue
  PROVE  /\ api' \in Post /\ api'.keys = api.keys /\ api'.key = api.key
         /\ api'.must = api.must /\ api.at = "value" /\ api'.at = "many"
         /\ api'.todo = Begin(api.key) /\ api'.maps = Mapped(api.key)
  <1>. DEFINE ks == Begin(api.key)
              bs == Mapped(api.key)
  <1>1. api \in Post /\ ks \in SUBSET RealKeys /\ bs \in SUBSET Bases
    BY DEF TypeOK, Begin, Mapped
  <1>2. api' = [api EXCEPT !.at = "many", !.todo = ks, !.maps = bs] /\ api.at = "value"
    BY DEF BulkValue
  <1>. HIDE DEF ks, bs
  <1>3. /\ api' \in Post /\ api'.keys = api.keys /\ api'.key = api.key
        /\ api'.must = api.must /\ api'.at = "many" /\ api'.todo = ks /\ api'.maps = bs
    BY <1>1, <1>2 DEF Post
  <1>. QED
    BY <1>2, <1>3 DEF ks, bs

LEMMA PostDeletesValue ==
  ASSUME TypeOK, ManyValue
  PROVE  /\ api' \in Post /\ api'.keys = api.keys /\ api'.key = api.key
         /\ api'.must = api.must /\ api.at = "many" /\ api'.maps = api.maps
         /\ api'.at = Rest(api'.todo, api'.maps)
         /\ \E k \in api.todo : /\ k \in RealKeys /\ api'.todo = api.todo \ {k}
                               /\ values' = [values EXCEPT ![k] = 0]
  <1>1. PICK k \in api.todo :
          /\ values' = [values EXCEPT ![k] = 0]
          /\ api' = [api EXCEPT !.at = Rest(api.todo \ {k}, api.maps), !.todo = api.todo \ {k}]
    BY DEF ManyValue
  <1>2. api \in Post /\ api.at = "many" /\ k \in RealKeys
    BY DEF TypeOK, Post, ManyValue
  <1>3. api.todo \ {k} \in SUBSET RealKeys /\ Rest(api.todo \ {k}, api.maps) \in {"keys", "many"}
    BY <1>2 DEF Post, Rest
  <1>4. /\ api' \in Post /\ api'.keys = api.keys /\ api'.key = api.key
        /\ api'.must = api.must /\ api'.todo = api.todo \ {k} /\ api'.maps = api.maps
        /\ api'.at = Rest(api.todo \ {k}, api.maps)
    BY <1>1, <1>2, <1>3 DEF Post
  <1>. QED
    BY <1>1, <1>2, <1>4

LEMMA PostDeletesMapping ==
  ASSUME TypeOK, ManyMapping
  PROVE  /\ api' \in Post /\ api'.keys = api.keys /\ api'.key = api.key
         /\ api'.must = api.must /\ api.at = "many" /\ api'.todo = api.todo
         /\ api'.maps \subseteq api.maps
         /\ api'.at = Rest(api'.todo, api'.maps)
         /\ \E b \in api.maps : b \in Bases /\ mapping' = [mapping EXCEPT ![b] = NoMapping]
  <1>1. PICK b \in api.maps :
          /\ mapping' = [mapping EXCEPT ![b] = NoMapping]
          /\ api' = [api EXCEPT !.at = Rest(api.todo, api.maps \ {b}), !.maps = api.maps \ {b}]
    BY DEF ManyMapping
  <1>2. api \in Post /\ api.at = "many" /\ b \in Bases
    BY DEF TypeOK, Post, ManyMapping
  <1>3. api.maps \ {b} \in SUBSET Bases /\ Rest(api.todo, api.maps \ {b}) \in {"keys", "many"}
    BY <1>2 DEF Post, Rest
  <1>4. /\ api' \in Post /\ api'.keys = api.keys /\ api'.key = api.key
        /\ api'.must = api.must /\ api'.todo = api.todo /\ api'.maps = api.maps \ {b}
        /\ api'.at = Rest(api.todo, api.maps \ {b})
    BY <1>1, <1>2, <1>3 DEF Post
  <1>. QED
    BY <1>1, <1>2, <1>4

LEMMA RoundEvicts ==
  ASSUME TypeOK, EvictValues
  PROVE  \E b \in ev.todo :
           /\ b \in Bases /\ ev.at = "next"
           /\ ev' \in Round /\ ev'.at = "set" /\ ev'.base = b /\ ev'.snap = ev.snap
           /\ ev'.past = ev.past /\ ev'.todo = ev.todo \ {b}
           /\ values' = [k \in RealKeys |->
                IF k[1] = b /\ Evicted(ev.snap[b][k[2]]) THEN 0 ELSE values[k]]
  <1>1. PICK b \in ev.todo :
          /\ ev' = [ev EXCEPT !.at = "set", !.base = b, !.todo = ev.todo \ {b}]
          /\ values' = [k \in RealKeys |->
               IF k[1] = b /\ Evicted(ev.snap[b][k[2]]) THEN 0 ELSE values[k]]
    BY DEF EvictValues
  <1>2. ev \in Round /\ b \in Bases /\ ev.todo \ {b} \in SUBSET Bases
    BY DEF TypeOK, Round
  <1>3. /\ ev' \in Round /\ ev'.at = "set" /\ ev'.base = b /\ ev'.snap = ev.snap
        /\ ev'.past = ev.past /\ ev'.todo = ev.todo \ {b}
    BY <1>1, <1>2 DEF Round
  <1>. QED
    BY <1>1, <1>2, <1>3 DEF EvictValues

LEMMA RoundGoesOn ==
  ASSUME TypeOK
  PROVE  /\ BeginRound => /\ ev' \in Round /\ ev.at = "idle" /\ ev'.at = "next"
                          /\ ev'.snap = mapping /\ ev'.past = expired
         /\ EvictSet => /\ ev' \in Round /\ ev.at = "set" /\ ev'.at = "next"
                        /\ ev'.snap = ev.snap /\ ev'.past = ev.past /\ ev'.base = ev.base
  <1>1. ev \in Round /\ mapping \in [Bases -> Maps] /\ expired \in SUBSET Nat
    BY DEF TypeOK
  <1>2. {b \in Bases : mapping[b] # NoMapping} \in SUBSET Bases
    OBVIOUS
  <1>. QED
    BY <1>1, <1>2 DEF BeginRound, EvictSet, Round

\* Every step keeps the types.
LEMMA TypeStep ==
  ASSUME TypeOK, [Next]_vars
  PROVE  TypeOK'
  <1>. USE IdleTypes, KeyParts, ApiAssumption
  <1>1. ASSUME NEW w \in Writers, StoreValue(w) PROVE TypeOK'
    <2>. DEFINE x(k) == [NoWriter EXCEPT !.at = "load", !.key = k, !.write = writes + 1]
    <2>1. PICK k \in RealKeys :
            values' = [values EXCEPT ![k] = writes + 1] /\ wr' = [wr EXCEPT ![w] = x(k)]
      BY <1>1 DEF StoreValue
    <2>a. writes + 1 \in Nat
      BY DEF TypeOK
    <2>2. x(k) \in Writer /\ x(k).key = k
      BY <2>a, WriterBegins
    <2>. HIDE DEF x
    <2>3. /\ wr' \in [Writers -> Writer] /\ values' \in [RealKeys -> Nat]
          /\ \A v \in Writers : wr'[v].at # "idle" => wr'[v].key \in RealKeys
      BY <2>1, <2>2 DEF TypeOK
    <2>4. Overlapping' \subseteq Nat
      BY <2>3 DEF Overlapping, Writer
    <2>. QED
      BY <1>1, <2>3, <2>4 DEF StoreValue, TypeOK
  <1>2. ASSUME NEW w \in Writers, LoadMapping(w) PROVE TypeOK'
    <2>1. wr[w] \in Writer /\ wr[w].key \in RealKeys
      BY <1>2 DEF LoadMapping, TypeOK
    <2>. DEFINE m == mapping[wr[w].key[1]]
                x == [wr[w] EXCEPT !.at = "store", !.map = m]
    <2>2. m \in Maps
      BY <2>1 DEF TypeOK
    <2>3. wr' = [wr EXCEPT ![w] = x]
      BY <1>2 DEF LoadMapping
    <2>4. x \in Writer /\ x.key = wr[w].key
      BY <2>1, <2>2, WriterLoads
    <2>. HIDE DEF x
    <2>5. /\ wr' \in [Writers -> Writer]
          /\ \A v \in Writers : wr'[v].at # "idle" => wr'[v].key \in RealKeys
      BY <2>1, <2>3, <2>4 DEF TypeOK
    <2>. QED
      BY <1>2, <2>5 DEF LoadMapping, TypeOK
  <1>3. ASSUME NEW w \in Writers, StoreMapping(w) PROVE TypeOK'
    <2>1. wr[w].key \in RealKeys /\ wr[w].map \in Maps /\ wr[w].write \in Nat
      BY <1>3 DEF StoreMapping, TypeOK, Writer
    <2>2. [wr[w].map EXCEPT ![wr[w].key[2]] = wr[w].write] \in Maps
      BY <2>1 DEF Maps
    <2>3. /\ mapping' \in [Bases -> Maps] /\ wr' \in [Writers -> Writer]
          /\ \A v \in Writers : wr'[v].at # "idle" => wr'[v].key \in RealKeys
      BY <1>3, <2>1, <2>2 DEF StoreMapping, TypeOK, NoWriter
    <2>. QED
      BY <1>3, <2>1, <2>3 DEF StoreMapping, TypeOK
  <1>4. ASSUME NEW n \in 1..writes, Expire(n) PROVE TypeOK'
    BY <1>4 DEF Expire, TypeOK
  <1>5. CASE List
    <2>1. api' \in Post
      BY <1>5, PostLists
    <2>. QED
      BY <1>5, <2>1 DEF List, TypeOK
  <1>6. CASE BulkGet
    <2>1. api' \in Post
      BY <1>6, PostGets
    <2>2. Overlapping' \subseteq Nat
      BY <1>6 DEF BulkGet, TypeOK, Overlapping, Writer
    <2>. QED
      BY <1>6, <2>1, <2>2 DEF BulkGet, TypeOK
  <1>7. CASE BulkEntries
    <2>1. api' \in Post
      BY <1>7, PostDeletes
    <2>. QED
      BY <1>7, <2>1 DEF BulkEntries, TypeOK, DeleteEntries
  <1>8. CASE BulkMapping
    <2>1. api' \in Post /\ api.map \in Maps
      BY <1>8 DEF BulkMapping, TypeOK, Post
    <2>2. mapping' \in [Bases -> Maps]
      BY <1>8, <2>1 DEF BulkMapping, TypeOK
    <2>. QED
      BY <1>8, <2>1, <2>2 DEF BulkMapping, TypeOK
  <1>9. CASE BulkValue
    <2>1. api' \in Post
      BY <1>9, PostBegins
    <2>. QED
      BY <1>9, <2>1 DEF BulkValue, TypeOK
  <1>a. CASE ManyValue
    <2>1. api' \in Post
      BY <1>a, PostDeletesValue
    <2>2. values' \in [RealKeys -> Nat]
      BY <1>a, PostDeletesValue DEF TypeOK
    <2>. QED
      BY <1>a, <2>1, <2>2 DEF ManyValue, TypeOK
  <1>b. CASE ManyMapping
    <2>1. api' \in Post
      BY <1>b, PostDeletesMapping
    <2>2. mapping' \in [Bases -> Maps]
      BY <1>b, PostDeletesMapping DEF TypeOK
    <2>. QED
      BY <1>b, <2>1, <2>2 DEF ManyMapping, TypeOK
  <1>10. CASE Answer \/ EndRequest
    <2>1. api' \in Post
      BY <1>10 DEF Answer, EndRequest, TypeOK, Post
    <2>. QED
      BY <1>10, <2>1 DEF Answer, EndRequest, TypeOK
  <1>11. CASE BeginRound
    <2>1. ev' \in Round
      BY <1>11, RoundGoesOn
    <2>2. Overlapping' \subseteq Nat
      BY <1>11 DEF BeginRound, TypeOK, Overlapping, Writer
    <2>. QED
      BY <1>11, <2>1, <2>2 DEF BeginRound, TypeOK
  <1>12. CASE EvictValues
    <2>3. ev' \in Round
      BY <1>12, RoundEvicts
    <2>4. values' \in [RealKeys -> Nat]
      BY <1>12 DEF EvictValues, TypeOK
    <2>. QED
      BY <1>12, <2>3, <2>4 DEF EvictValues, TypeOK
  <1>13. CASE EvictSet
    <2>1. ev' \in Round
      BY <1>13, RoundGoesOn
    <2>2. ev.base \in Bases => Kept(ev.base) \in Maps
      BY DEF TypeOK, Round, Kept, Maps
    <2>3. mapping' \in [Bases -> Maps]
      BY <1>13, <2>2 DEF EvictSet, TypeOK
    <2>. QED
      BY <1>13, <2>1, <2>3 DEF EvictSet, TypeOK
  <1>14. CASE EndRound
    BY <1>14 DEF EndRound, TypeOK
  <1>15. CASE UNCHANGED vars
    BY <1>15 DEF vars, TypeOK
  <1>. QED
    BY <1>1, <1>2, <1>3, <1>4, <1>5, <1>6, <1>7, <1>8, <1>9, <1>a, <1>b, <1>10, <1>11,
       <1>12, <1>13, <1>14, <1>15 DEF Next

\* The empty storer has the types.
LEMMA TypeInit == Init => TypeOK
  <1>1. NoWriter.at = "idle"
    BY DEF NoWriter
  <1>. QED
    BY <1>1, IdleTypes DEF Init, TypeOK

\* The state of the API, of the handlers and of the storer keeps its type.
THEOREM ApiTypeCorrect == Spec => []TypeOK
  BY TypeInit, TypeStep, PTL DEF Spec

-----------------------------------------------------------------------------
(* Numbers. *)

\* What StoreValue does.
LEMMA Begins ==
  ASSUME TypeOK, NEW w \in Writers, StoreValue(w)
  PROVE  \E k \in RealKeys :
           /\ \A v \in Writers : wr[v].at # "idle" => wr[v].key[1] # k[1]
           /\ values'[k] = writes + 1 /\ \A j \in RealKeys : j # k => values'[j] = values[j]
           /\ wr'[w].at = "load" /\ wr'[w].key = k /\ wr'[w].write = writes + 1
           /\ \A v \in Writers : v # w => wr'[v] = wr[v]
  <1>. DEFINE x(k) == [NoWriter EXCEPT !.at = "load", !.key = k, !.write = writes + 1]
  <1>1. PICK k \in RealKeys :
          /\ \A v \in Writers : wr[v].at # "idle" => wr[v].key[1] # k[1]
          /\ values' = [values EXCEPT ![k] = writes + 1] /\ wr' = [wr EXCEPT ![w] = x(k)]
    BY Zenon DEF StoreValue
  <1>2. writes + 1 \in Nat
    BY DEF TypeOK
  <1>3. x(k).at = "load" /\ x(k).key = k /\ x(k).write = writes + 1
    BY <1>2, IdleTypes DEF Writer
  <1>. HIDE DEF x
  <1>4. values'[k] = writes + 1 /\ \A j \in RealKeys : j # k => values'[j] = values[j]
    BY <1>1 DEF TypeOK
  <1>5. wr'[w] = x(k) /\ \A v \in Writers : v # w => wr'[v] = wr[v]
    BY <1>1 DEF TypeOK
  <1>. QED
    BY <1>1, <1>3, <1>4, <1>5

\* What LoadMapping and StoreMapping do.
LEMMA Loads ==
  ASSUME TypeOK, NEW w \in Writers, LoadMapping(w)
  PROVE  /\ wr[w].at = "load" /\ wr[w].key \in RealKeys
         /\ wr'[w].at = "store" /\ wr'[w].key = wr[w].key /\ wr'[w].write = wr[w].write
         /\ wr'[w].map = mapping[wr[w].key[1]]
         /\ \A v \in Writers : v # w => wr'[v] = wr[v]
  <1>. DEFINE m == mapping[wr[w].key[1]]
              x == [wr[w] EXCEPT !.at = "store", !.map = m]
  <1>1. wr[w] \in Writer /\ wr[w].at = "load" /\ wr[w].key \in RealKeys
    BY DEF LoadMapping, TypeOK
  <1>2. m \in Maps
    BY <1>1, KeyParts DEF TypeOK
  <1>3. x.at = "store" /\ x.key = wr[w].key /\ x.write = wr[w].write /\ x.map = m
    BY <1>1, <1>2, WriterLoads
  <1>4. wr' = [wr EXCEPT ![w] = x]
    BY DEF LoadMapping
  <1>. HIDE DEF x
  <1>. QED
    BY <1>1, <1>3, <1>4 DEF TypeOK

LEMMA Stores ==
  ASSUME TypeOK, NEW w \in Writers, StoreMapping(w)
  PROVE  /\ wr[w].at = "store" /\ wr[w].key \in RealKeys
         /\ wr'[w].at = "idle" /\ \A v \in Writers : v # w => wr'[v] = wr[v]
         /\ done' = done \union {wr[w].write}
         /\ mapping'[wr[w].key[1]][wr[w].key[2]] = wr[w].write
         /\ \A k \in RealKeys : k # wr[w].key =>
              mapping'[k[1]][k[2]] = IF k[1] = wr[w].key[1] THEN wr[w].map[k[2]]
                                     ELSE mapping[k[1]][k[2]]
  <1>1. wr[w].key \in RealKeys /\ wr[w].map \in Maps /\ wr[w].at = "store"
    BY DEF StoreMapping, TypeOK, Writer
  <1>. DEFINE m == [wr[w].map EXCEPT ![wr[w].key[2]] = wr[w].write]
  <1>2. /\ m[wr[w].key[2]] = wr[w].write
        /\ \A s \in Slots : s # wr[w].key[2] => m[s] = wr[w].map[s]
    BY <1>1, KeyParts DEF Maps
  <1>3. mapping' = [mapping EXCEPT ![wr[w].key[1]] = m]
    BY DEF StoreMapping
  <1>. HIDE DEF m
  <1>4. /\ mapping'[wr[w].key[1]] = m
        /\ \A b \in Bases : b # wr[w].key[1] => mapping'[b] = mapping[b]
    BY <1>1, <1>3, KeyParts DEF TypeOK
  <1>5. wr'[w].at = "idle" /\ \A v \in Writers : v # w => wr'[v] = wr[v]
    BY DEF StoreMapping, TypeOK, NoWriter
  <1>6. ASSUME NEW k \in RealKeys, k # wr[w].key
        PROVE  mapping'[k[1]][k[2]] = IF k[1] = wr[w].key[1] THEN wr[w].map[k[2]]
                                      ELSE mapping[k[1]][k[2]]
    <2>1. k[1] \in Bases /\ k[2] \in Slots /\ (k[1] = wr[w].key[1] => k[2] # wr[w].key[2])
      BY <1>1, <1>6, KeyParts
    <2>. QED
      BY <1>2, <1>4, <2>1
  <1>. QED
    BY <1>1, <1>2, <1>4, <1>5, <1>6 DEF StoreMapping

\* Whatever the API and EvictMapping do, they number no response.
Forgets == /\ writes' = writes /\ wr' = wr /\ done' = done /\ raced \subseteq raced'
           /\ \A k \in RealKeys : values'[k] = values[k] \/ values'[k] = 0

LEMMA OthersForget ==
  ASSUME TypeOK, [Next]_vars,
         ~\E w \in Writers : StoreValue(w) \/ LoadMapping(w) \/ StoreMapping(w)
  PROVE  Forgets
  <1>1. CASE \E n \in 1..writes : Expire(n)
    BY <1>1 DEF Expire, Forgets
  <1>2. CASE List \/ BulkGet \/ BulkMapping \/ ManyMapping \/ Answer \/ EndRequest
    BY <1>2 DEF List, BulkGet, BulkMapping, ManyMapping, Answer, EndRequest, Forgets
  <1>3. CASE BulkEntries
    BY <1>3 DEF BulkEntries, DeleteEntries, Forgets
  <1>6. CASE BulkValue
    BY <1>6 DEF BulkValue, TypeOK, Forgets
  <1>7. CASE ManyValue
    BY <1>7, PostDeletesValue DEF ManyValue, TypeOK, Forgets
  <1>4. CASE BeginRound \/ EvictSet \/ EndRound \/ UNCHANGED vars
    BY <1>4 DEF BeginRound, EvictSet, EndRound, vars, Forgets
  <1>5. CASE EvictValues
    BY <1>5 DEF EvictValues, Forgets
  <1>. QED
    BY <1>1, <1>2, <1>3, <1>4, <1>5, <1>6, <1>7 DEF Next

\* Every step keeps the numbers apart.
LEMMA NumberedStep ==
  ASSUME Numbered, [Next]_vars
  PROVE  Numbered'
  <1>1. TypeOK /\ TypeOK'
    BY TypeStep DEF Numbered
  <1>2. ASSUME NEW w \in Writers, StoreValue(w) PROVE Numbered'
    <2>1. PICK k \in RealKeys :
            /\ values'[k] = writes + 1 /\ \A j \in RealKeys : j # k => values'[j] = values[j]
            /\ wr'[w].at = "load" /\ wr'[w].key = k /\ wr'[w].write = writes + 1
            /\ \A v \in Writers : v # w => wr'[v] = wr[v]
      BY <1>1, <1>2, Begins
    <2>2. writes' = writes + 1 /\ done' = done /\ writes \in Nat
      BY <1>1, <1>2 DEF StoreValue, TypeOK
    <2>3. \A j \in RealKeys : values[j] \in Nat /\ values[j] <= writes
      BY <1>1 DEF Numbered, Bounded, TypeOK
    <2>4. Bounded' /\ Distinct'
      BY <2>1, <2>2, <2>3 DEF Numbered, Bounded, Distinct
    <2>5. OwnNumber'
      BY <2>1, <2>2, <2>3 DEF Numbered, OwnNumber
    <2>. QED
      BY <1>1, <2>4, <2>5 DEF Numbered
  <1>3. ASSUME NEW w \in Writers, LoadMapping(w) PROVE Numbered'
    <2>1. UNCHANGED <<values, writes, done>>
      BY <1>3 DEF LoadMapping
    <2>2. OwnNumber'
      BY <1>1, <1>3, <2>1, Loads DEF Numbered, OwnNumber
    <2>. QED
      BY <1>1, <2>1, <2>2 DEF Numbered, Bounded, Distinct
  <1>4. ASSUME NEW w \in Writers, StoreMapping(w) PROVE Numbered'
    <2>1. UNCHANGED <<values, writes>>
      BY <1>4 DEF StoreMapping
    <2>2. OwnNumber'
      BY <1>1, <1>4, <2>1, Stores DEF Numbered, OwnNumber
    <2>3. wr[w].write \in 1..writes /\ done' = done \union {wr[w].write}
      BY <1>1, <1>4, Stores DEF Numbered, OwnNumber
    <2>4. Bounded'
      BY <2>1, <2>3 DEF Numbered, Bounded
    <2>. QED
      BY <1>1, <2>1, <2>2, <2>4 DEF Numbered, Distinct
  <1>5. CASE Forgets
    <2>1. Bounded' /\ Distinct'
      BY <1>1, <1>5 DEF Forgets, Numbered, Bounded, Distinct, TypeOK
    <2>2. OwnNumber'
      BY <1>1, <1>5 DEF Forgets, Numbered, OwnNumber, TypeOK
    <2>. QED
      BY <1>1, <2>1, <2>2 DEF Numbered
  <1>. QED
    BY <1>1, <1>2, <1>3, <1>4, <1>5, OthersForget

\* Nothing is stored in the beginning.
LEMMA NumberedInit == Init => Numbered
  BY TypeInit DEF Init, Numbered, Bounded, Distinct, OwnNumber, NoWriter

-----------------------------------------------------------------------------
(* What an invalidation reaches. *)

\* Every step of anybody leaves to the request what it must delete.
LEMMA ReachStep ==
  ASSUME ReachInv, [Next]_vars,
         \A r \in [type : Types, host : Hosts, path : Paths], k \in RealKeys :
           Meant(r, k) => Selected(r, k)
  PROVE  ReachInv'
  <1>1. Numbered /\ Numbered' /\ TypeOK /\ TypeOK' /\ StillToDelete
    BY NumberedStep DEF ReachInv, Numbered
  <1>. SUFFICES StillToDelete'
    BY <1>1 DEF ReachInv
  <1>2. ASSUME NEW w \in Writers, StoreValue(w) PROVE StillToDelete'
    <2>1. PICK k \in RealKeys :
            values'[k] = writes + 1 /\ \A j \in RealKeys : j # k => values'[j] = values[j]
      BY <1>1, <1>2, Begins
    <2>2. api' = api /\ done' = done
      BY <1>2 DEF StoreValue
    <2>3. writes + 1 \notin done
      BY <1>1 DEF Numbered, Bounded, TypeOK
    <2>. QED
      BY <1>1, <2>1, <2>2, <2>3 DEF StillToDelete
  <1>3. ASSUME NEW w \in Writers, LoadMapping(w) \/ StoreMapping(w) PROVE StillToDelete'
    BY <1>1, <1>3 DEF LoadMapping, StoreMapping, StillToDelete
  <1>4. CASE List
    <2>1. PICK r \in [type : Types, host : Hosts, path : Paths] :
            /\ api'.at = "keys"
            /\ \/ api'.keys = {} /\ api'.must = {}
               \/ api'.keys = Keys(r) /\ api'.must = Must(r)
      BY <1>1, <1>4, PostLists
    <2>2. values' = values /\ done' = done
      BY <1>4 DEF List
    <2>3. ASSUME NEW k \in RealKeys, values[k] \in Must(r) PROVE k \in Keys(r)
      <3>1. PICK j \in GetAll : Meant(r, j) /\ values[j] = values[k] /\ values[k] \in done
        BY <2>3 DEF Must
      <3>2. j \in RealKeys /\ values[j] # 0
        BY <1>1, <3>1 DEF GetAll, Numbered, Bounded
      <3>3. j = k
        BY <1>1, <3>1, <3>2 DEF Numbered, Distinct
      <3>. QED
        BY <3>1, <3>2, <3>3 DEF Keys
    <2>4. Must(r) \subseteq done
      BY DEF Must
    <2>. QED
      BY <2>1, <2>2, <2>3, <2>4 DEF StillToDelete
  <1>5. CASE BulkGet
    <2>1. values' = values /\ done' = done /\ api.at = "keys"
      BY <1>5 DEF BulkGet
    <2>2. /\ api'.at = "entries" /\ api'.must = api.must
          /\ \A k \in api.keys : k \in api'.keys \/ k = api'.key
      BY <1>1, <1>5, PostGets
    <2>. QED
      BY <1>1, <2>1, <2>2 DEF StillToDelete
  <1>6. 0 \notin done
    BY <1>1 DEF Numbered, Bounded
  <1>7. CASE BulkEntries
    <2>1. done' = done /\ \A k \in RealKeys : values'[k] = values[k] \/ values'[k] = 0
      BY <1>7 DEF BulkEntries, DeleteEntries
    <2>2. /\ api.at = "entries" /\ api'.at = "map" /\ api'.keys = api.keys
          /\ api'.key = api.key /\ api'.must = api.must
      BY <1>1, <1>7, PostDeletes
    <2>. QED
      BY <1>1, <1>6, <2>1, <2>2 DEF StillToDelete
  <1>8. CASE BulkMapping \/ Answer
    <2>1. done' = done /\ values' = values
      BY <1>8 DEF BulkMapping, Answer
    <2>2. /\ api'.keys = api.keys /\ api'.key = api.key /\ api'.must = api.must
          /\ \/ api.at = "map" /\ api'.at = "value"
             \/ api.at = "keys" /\ api.keys = {} /\ api'.at = "end"
      BY <1>1, <1>8, PostDeletes
    <2>. QED
      BY <1>1, <1>6, <2>1, <2>2 DEF StillToDelete
  <1>9. CASE BulkValue
    <2>1. done' = done /\ \A k \in RealKeys : values'[k] = values[k] \/ values'[k] = 0
      BY <1>1, <1>9 DEF BulkValue, TypeOK
    <2>2. api.key \in RealKeys => values'[api.key] = 0
      BY <1>1, <1>9 DEF BulkValue, TypeOK
    <2>3. /\ api.at = "value" /\ api'.at = "many" /\ api'.keys = api.keys
          /\ api'.must = api.must
      BY <1>1, <1>9, PostBegins
    <2>. QED
      BY <1>1, <1>6, <2>1, <2>2, <2>3 DEF StillToDelete
  <1>12. CASE ManyValue \/ ManyMapping
    <2>1. done' = done /\ \A k \in RealKeys : values'[k] = values[k] \/ values'[k] = 0
      BY <1>1, <1>12, PostDeletesValue DEF ManyValue, ManyMapping, TypeOK
    <2>2. api.at = "many" /\ api'.at \in {"keys", "many"}
          /\ api'.keys = api.keys /\ api'.must = api.must
      BY <1>1, <1>12, PostDeletesValue, PostDeletesMapping DEF Rest
    <2>. QED
      BY <1>1, <1>6, <2>1, <2>2 DEF StillToDelete
  <1>10. CASE EndRequest
    <2>1. api'.at = "idle"
      BY <1>10 DEF EndRequest, NoApi
    <2>. QED
      BY <2>1 DEF StillToDelete
  <1>11. CASE \/ \E n \in 1..writes : Expire(n)
              \/ BeginRound \/ EvictValues \/ EvictSet \/ EndRound \/ UNCHANGED vars
    <2>1. /\ api' = api /\ done' = done
          /\ \A k \in RealKeys : values'[k] = values[k] \/ values'[k] = 0
      BY <1>11 DEF Expire, BeginRound, EvictValues, EvictSet, EndRound, vars
    <2>. QED
      BY <1>1, <1>6, <2>1 DEF StillToDelete
  <1>. QED
    BY <1>2, <1>3, <1>4, <1>5, <1>6, <1>7, <1>8, <1>9, <1>10, <1>11, <1>12 DEF Next

\* Invalidations of prefixes and origins select what their clients mean, but for
\* varied responses under keys that end with the path; those of one URI do not.
LEMMA PrefixesSelectMeant ==
  ASSUME "uri" \notin Types, "vary" \notin Slots \/ "end" \notin Tails,
         NEW r \in [type : Types, host : Hosts, path : Paths], NEW k \in RealKeys, Meant(r, k)
  PROVE  Selected(r, k)
  <1>1. r.type # "uri" /\ k[2] \in Slots /\ k[1].tail \in Tails
    BY DEF RealKeys, Bases
  <1>2. CASE r.type = "origin"
    BY <1>2 DEF Meant, Selected
  <1>3. CASE r.type = "uri-prefix"
    <2>1. Contains(k, r) /\ k[1].tail # "more"
      BY <1>3 DEF Meant
    <2>2. k[1].tail \in {"-", "?", "/"} \/ (k[1].tail = "end" /\ k[2] = "plain")
      BY <1>1, <2>1, ApiAssumption
    <2>. QED
      BY <1>3, <2>1, <2>2 DEF Selected, GoesOnWith, HasSuffix
  <1>. QED
    BY <1>1, <1>2, <1>3, ApiAssumption

\* InvalidationReaches, for every invalidation by POST whose selection covers
\* what its client means: when the request is answered, no lookup finds a
\* response that it meant and that was stored before it began.  Keys are
\* deleted one by one, what belongs to a key in separate steps, and
\* handlers store and EvictMapping evicts between any two of them.
THEOREM InvalidationReachesMeant ==
  ASSUME \A r \in [type : Types, host : Hosts, path : Paths], k \in RealKeys :
           Meant(r, k) => Selected(r, k)
  PROVE  Spec => []InvalidationReaches
  <1>1. Init => ReachInv
    BY NumberedInit DEF Init, NoApi, ReachInv, StillToDelete
  <1>2. ReachInv /\ [Next]_vars => ReachInv'
    BY ReachStep
  <1>3. ReachInv => InvalidationReaches
    <2>. SUFFICES ASSUME ReachInv, api.at = "end", NEW k \in RealKeys
                  PROVE  Served(k) \notin api.must
      BY DEF InvalidationReaches
    <2>1. values[k] \notin api.must /\ 0 \notin api.must
      BY DEF ReachInv, StillToDelete, Numbered, Bounded
    <2>. QED
      BY <2>1 DEF Served
  <1>. QED
    BY <1>1, <1>2, <1>3, PTL DEF Spec

-----------------------------------------------------------------------------
(* What EvictMapping keeps. *)

\* A step after which those that are settled were settled and doomed before.
Stays == \A k \in RealKeys :
  Settled(k)' => Settled(k) /\ values'[k] = values[k] /\ (Doomed(k) => Doomed(k)')

\* A step that numbers nothing stays, when it spares the doomed or deletes them.
LEMMA ForgetsStays ==
  ASSUME Numbered, Forgets,
         \A k \in RealKeys : Doomed(k) => Doomed(k)' \/ values'[k] = 0
  PROVE  Stays
  BY DEF Numbered, Bounded, Forgets, Stays, Settled

\* What a step that stays leaves alone is still right.
LEMMA StaysListed ==
  ASSUME Listed, Stays, mapping' = mapping
  PROVE  Listed'
  BY DEF Listed, Stays, Lists

LEMMA StaysLoaded ==
  ASSUME LoadedLists, Stays, wr' = wr
  PROVE  LoadedLists'
  BY DEF LoadedLists, Stays, Lists

LEMMA StaysRead ==
  ASSUME RequestInv, Stays, api' = api
  PROVE  RequestInv'
  <1>1. ReadLists' /\ Emptied' /\ Awaited'
    BY DEF RequestInv, ReadLists, Emptied, Awaited, Stays
  <1>2. MapsWithin' /\ PlainMap'
    BY DEF RequestInv, MapsWithin, PlainMap, NoMapping
  <1>. QED
    BY <1>1, <1>2 DEF RequestInv

LEMMA StaysSeen ==
  ASSUME RoundInv, Stays, ev' = ev, expired' = expired
  PROVE  RoundInv'
  BY DEF RoundInv, RoundLists, SeenExpired, DeletedFirst, Stays, Lists

\* A request that deletes nothing has nothing to keep in mind.
LEMMA RestsRead ==
  ASSUME api'.at \in {"idle", "keys", "end"}
  PROVE  RequestInv'
  BY DEF RequestInv, ReadLists, Emptied, Awaited, MapsWithin, PlainMap

\* Steps of the request and of a round leave the handlers what they know.
LEMMA ForgetsHandlers ==
  ASSUME Numbered, HandlersInv, Forgets, Overlapping' \subseteq raced'
  PROVE  HandlersInv'
  <1>1. OneWriter'
    BY DEF HandlersInv, OneWriter, Forgets
  <1>2. OwnValue' /\ Accounted'
    BY DEF HandlersInv, OwnValue, Accounted, Forgets, Numbered, TypeOK
  <1>3. Disturbed'
    BY DEF Disturbed, Overlapping
  <1>. QED
    BY <1>1, <1>2, <1>3 DEF HandlersInv

LEMMA ForgetsOverlapping ==
  ASSUME HandlersInv, Forgets,
         ev'.at # "idle" => ev.at # "idle",
         \A b : Deleting(b)' => Deleting(b)
  PROVE  Overlapping' \subseteq raced'
  BY DEF HandlersInv, Disturbed, Overlapping, Forgets

\* Every step of the request keeps the invariant.
LEMMA KeepList ==
  ASSUME KeepInv, Numbered', List \/ BulkGet \/ Answer \/ EndRequest
  PROVE  KeepInv'
  <1>1. TypeOK /\ Numbered
    BY DEF KeepInv, Numbered
  <1>2. Forgets /\ UNCHANGED <<values, mapping, expired, wr, ev>> /\ api.at # "value" /\ api.at # "many"
    BY DEF List, BulkGet, Answer, EndRequest, Forgets
  <1>3. \A k : ~Doomed(k)
    BY <1>2 DEF Doomed
  <1>4. Stays
    BY <1>1, <1>2, <1>3, ForgetsStays
  <1>5. Listed' /\ LoadedLists' /\ RoundInv'
    BY <1>2, <1>4, StaysListed, StaysLoaded, StaysSeen DEF KeepInv
  <1>6. RequestInv' /\ Overlapping' \subseteq raced'
    <2>1. CASE BulkGet
      <3>1. /\ api'.at = "entries" /\ api'.key \in RealKeys
            /\ api'.map = IF api'.key[2] = "plain" THEN mapping[api'.key[1]] ELSE NoMapping
        BY <1>1, <2>1, PostGets
      <3>2. ReadLists'
        BY <1>2, <1>3, <1>4, <3>1 DEF ReadLists, KeepInv, Listed, Lists, Stays
      <3>3. Emptied' /\ Awaited' /\ MapsWithin'
        BY <3>1 DEF Emptied, Awaited, MapsWithin
      <3>4. PlainMap'
        BY <3>1 DEF PlainMap, NoMapping
      <3>5. Overlapping' \subseteq raced'
        BY <2>1 DEF BulkGet
      <3>. QED
        BY <3>2, <3>3, <3>4, <3>5 DEF RequestInv
    <2>2. CASE List \/ Answer \/ EndRequest
      <3>1. api'.at \in {"idle", "keys", "end"}
        BY <1>1, <2>2, PostLists, PostDeletes DEF EndRequest, NoApi
      <3>2. \A b : ~Deleting(b)'
        BY <3>1 DEF Deleting
      <3>3. Overlapping' \subseteq raced'
        BY <1>2, <3>2, ForgetsOverlapping DEF KeepInv
      <3>. QED
        BY <3>1, <3>3, RestsRead
    <2>. QED
      BY <2>1, <2>2
  <1>7. HandlersInv'
    BY <1>1, <1>2, <1>6, ForgetsHandlers DEF KeepInv
  <1>. QED
    BY <1>5, <1>6, <1>7 DEF KeepInv

LEMMA KeepEntries ==
  ASSUME KeepInv, Numbered', BulkEntries
  PROVE  KeepInv'
  <1>1. TypeOK /\ Numbered
    BY DEF KeepInv, Numbered
  <1>2. /\ Forgets /\ UNCHANGED <<mapping, expired, wr, ev>>
        /\ values' = [k \in RealKeys |-> DeleteEntries(k)]
    BY DEF BulkEntries, DeleteEntries, Forgets
  <1>3. /\ api.at = "entries" /\ api'.at = "map" /\ api'.key = api.key /\ api'.map = api.map
    BY <1>1, PostDeletes
  <1>4. Stays
    BY <1>1, <1>2, <1>3, ForgetsStays DEF Doomed
  <1>5. Listed' /\ LoadedLists' /\ RoundInv'
    BY <1>2, <1>4, StaysListed, StaysLoaded, StaysSeen DEF KeepInv
  <1>6. RequestInv'
    <2>1. Emptied'
      <3>. SUFFICES ASSUME NEW k \in RealKeys, api.key[2] = "plain", k[1] = api.key[1], Settled(k)'
                    PROVE  FALSE
        BY <1>3 DEF Emptied
      <3>1. Settled(k) /\ values'[k] = values[k]
        BY <1>4 DEF Stays
      <3>2. api.map[k[2]] = values[k] /\ values[k] # 0
        BY <1>1, <1>3, <3>1 DEF KeepInv, RequestInv, ReadLists, Settled, Numbered, Bounded
      <3>. QED
        BY <1>2, <3>1, <3>2 DEF DeleteEntries
    <2>2. ReadLists' /\ Awaited' /\ MapsWithin'
      BY <1>3 DEF ReadLists, Awaited, MapsWithin
    <2>3. PlainMap'
      BY <1>3 DEF KeepInv, RequestInv, PlainMap, NoMapping
    <2>. QED
      BY <2>1, <2>2, <2>3 DEF RequestInv
  <1>7. Overlapping' \subseteq raced'
    BY <1>2, <1>3, ForgetsOverlapping DEF KeepInv, Deleting
  <1>. QED
    BY <1>1, <1>2, <1>5, <1>6, <1>7, ForgetsHandlers DEF KeepInv

LEMMA KeepMapping ==
  ASSUME KeepInv, Numbered', BulkMapping
  PROVE  KeepInv'
  <1>1. TypeOK /\ Numbered
    BY DEF KeepInv, Numbered
  <1>2. Forgets /\ UNCHANGED <<values, expired, wr, ev>>
    BY DEF BulkMapping, Forgets
  <1>3. api.at = "map" /\ api'.at = "value" /\ api'.key = api.key
    BY <1>1, PostDeletes
  <1>4. Stays
    BY <1>1, <1>2, <1>3, ForgetsStays DEF Doomed
  <1>5. LoadedLists' /\ RoundInv'
    BY <1>2, <1>4, StaysLoaded, StaysSeen DEF KeepInv
  <1>6. \A b \in Bases : b # api.key[1] \/ api.key[2] # "plain" => mapping'[b] = mapping[b]
    BY <1>1, <1>3 DEF BulkMapping, KeepInv, RequestInv, PlainMap, TypeOK
  <1>7. Listed'
    <2>. SUFFICES ASSUME NEW k \in RealKeys, Settled(k)'
                  PROVE  Lists(mapping[k[1]][k[2]], k)'
      BY DEF Listed
    <2>1. Settled(k) /\ values'[k] = values[k] /\ ~Doomed(k)
      BY <1>3, <1>4 DEF Stays, Doomed
    <2>2. mapping'[k[1]] = mapping[k[1]]
      BY <1>3, <1>6, <2>1, KeyParts DEF KeepInv, RequestInv, Emptied
    <2>. QED
      BY <2>1, <2>2 DEF KeepInv, Listed, Lists
  <1>8. RequestInv'
    <2>1. Emptied'
      BY <1>3, <1>4 DEF KeepInv, RequestInv, Emptied, Stays
    <2>2. ReadLists' /\ Awaited' /\ MapsWithin' /\ PlainMap'
      BY <1>3 DEF ReadLists, Awaited, MapsWithin, PlainMap
    <2>. QED
      BY <2>1, <2>2 DEF RequestInv
  <1>9. Overlapping' \subseteq raced'
    BY <1>2, <1>3, ForgetsOverlapping DEF KeepInv, Deleting
  <1>. QED
    BY <1>1, <1>2, <1>5, <1>7, <1>8, <1>9, ForgetsHandlers DEF KeepInv

LEMMA KeepValue ==
  ASSUME KeepInv, Numbered', BulkValue
  PROVE  KeepInv'
  <1>1. TypeOK /\ Numbered
    BY DEF KeepInv, Numbered
  <1>2. Forgets /\ UNCHANGED <<mapping, expired, wr, ev>>
    BY <1>1 DEF BulkValue, Forgets, TypeOK
  <1>3. /\ api.at = "value" /\ api'.at = "many" /\ api'.key = api.key
        /\ api'.todo = Begin(api.key) /\ api'.maps = Mapped(api.key)
    BY <1>1, PostBegins
  <1>4. Stays
    BY <1>1, <1>2, <1>3, ForgetsStays DEF Doomed
  <1>5. Listed' /\ LoadedLists' /\ RoundInv'
    BY <1>2, <1>4, StaysListed, StaysLoaded, StaysSeen DEF KeepInv
  <1>6. RequestInv'
    <2>1. Awaited'
      BY <1>3 DEF Awaited, Begin, Within
    <2>2. MapsWithin'
      BY <1>3 DEF MapsWithin, Mapped, Within
    <2>3. ReadLists' /\ Emptied' /\ PlainMap'
      BY <1>3 DEF ReadLists, Emptied, PlainMap
    <2>. QED
      BY <2>1, <2>2, <2>3 DEF RequestInv
  <1>7. Overlapping' \subseteq raced'
    BY <1>2, <1>3, ForgetsOverlapping DEF KeepInv, Deleting, Within
  <1>. QED
    BY <1>1, <1>2, <1>5, <1>6, <1>7, ForgetsHandlers DEF KeepInv

LEMMA KeepManyValue ==
  ASSUME KeepInv, Numbered', ManyValue
  PROVE  KeepInv'
  <1>1. TypeOK /\ Numbered /\ 0 \notin done
    BY DEF KeepInv, Numbered, Bounded
  <1>2. Forgets /\ UNCHANGED <<mapping, expired, wr, ev>>
    BY <1>1, PostDeletesValue DEF ManyValue, Forgets, TypeOK
  <1>3. PICK k \in RealKeys :
          /\ k \in api.todo /\ api'.todo = api.todo \ {k} /\ values'[k] = 0
          /\ api.at = "many" /\ api'.key = api.key /\ api'.maps = api.maps
          /\ api'.at = Rest(api'.todo, api'.maps)
    BY <1>1, PostDeletesValue DEF TypeOK
  <1>4. Stays
    BY <1>1, <1>2, <1>3, ForgetsStays DEF Doomed, Rest
  <1>5. Listed' /\ LoadedLists' /\ RoundInv'
    BY <1>2, <1>4, StaysListed, StaysLoaded, StaysSeen DEF KeepInv
  <1>6. RequestInv'
    <2>1. Awaited'
      BY <1>1, <1>2, <1>3, <1>4 DEF KeepInv, RequestInv, Awaited, Stays, Settled, Forgets, Within
    <2>2. MapsWithin'
      BY <1>3 DEF KeepInv, RequestInv, MapsWithin, Within
    <2>3. ReadLists' /\ Emptied' /\ PlainMap'
      BY <1>3 DEF ReadLists, Emptied, PlainMap, Rest
    <2>. QED
      BY <2>1, <2>2, <2>3 DEF RequestInv
  <1>7. Overlapping' \subseteq raced'
    BY <1>2, <1>3, ForgetsOverlapping DEF KeepInv, Deleting, Within
  <1>. QED
    BY <1>1, <1>2, <1>5, <1>6, <1>7, ForgetsHandlers DEF KeepInv

LEMMA KeepManyMapping ==
  ASSUME KeepInv, Numbered', ManyMapping
  PROVE  KeepInv'
  <1>1. TypeOK /\ Numbered
    BY DEF KeepInv, Numbered
  <1>2. Forgets /\ UNCHANGED <<values, expired, wr, ev>>
    BY DEF ManyMapping, Forgets
  <1>3. /\ api.at = "many" /\ api'.key = api.key /\ api'.todo = api.todo
        /\ api'.maps \subseteq api.maps /\ api'.at = Rest(api'.todo, api'.maps)
    BY <1>1, PostDeletesMapping
  <1>4. PICK b \in Bases : b \in api.maps /\ mapping' = [mapping EXCEPT ![b] = NoMapping]
    BY <1>1, PostDeletesMapping
  <1>5. Stays
    BY <1>1, <1>2, <1>3, ForgetsStays DEF Doomed, Rest
  <1>6. LoadedLists' /\ RoundInv'
    BY <1>2, <1>5, StaysLoaded, StaysSeen DEF KeepInv
  <1>7. Listed'
    <2>. SUFFICES ASSUME NEW k \in RealKeys, Settled(k)'
                  PROVE  Lists(mapping[k[1]][k[2]], k)'
      BY DEF Listed
    <2>1. Settled(k) /\ values'[k] = values[k] /\ (Doomed(k) => Doomed(k)')
      BY <1>5 DEF Stays
    <2>2. CASE k[1] = b
      <3>1. k \in api.todo
        BY <1>3, <1>4, <2>1, <2>2 DEF KeepInv, RequestInv, Awaited, MapsWithin
      <3>2. Doomed(k)'
        BY <1>3, <2>1, <3>1 DEF Doomed
      <3>3. mapping'[k[1]][k[2]] = 0
        BY <1>1, <1>4, <2>2, KeyParts DEF TypeOK, NoMapping
      <3>. QED
        BY <3>2, <3>3 DEF Lists
    <2>3. CASE k[1] # b
      <3>1. mapping'[k[1]] = mapping[k[1]]
        BY <1>1, <1>4, <2>3, KeyParts DEF TypeOK
      <3>. QED
        BY <2>1, <3>1 DEF KeepInv, Listed, Lists
    <2>. QED
      BY <2>2, <2>3
  <1>8. RequestInv'
    <2>1. Awaited'
      BY <1>3, <1>5 DEF KeepInv, RequestInv, Awaited, Stays, Within
    <2>2. MapsWithin'
      BY <1>3 DEF KeepInv, RequestInv, MapsWithin, Within
    <2>3. ReadLists' /\ Emptied' /\ PlainMap'
      BY <1>3 DEF ReadLists, Emptied, PlainMap, Rest
    <2>. QED
      BY <2>1, <2>2, <2>3 DEF RequestInv
  <1>9. Overlapping' \subseteq raced'
    BY <1>2, <1>3, ForgetsOverlapping DEF KeepInv, Deleting, Within
  <1>. QED
    BY <1>1, <1>2, <1>6, <1>7, <1>8, <1>9, ForgetsHandlers DEF KeepInv

\* So does every step of a round of EvictMapping, and time.
LEMMA KeepRound ==
  ASSUME KeepInv, Numbered',
         BeginRound \/ EvictValues \/ EvictSet \/ EndRound \/ \E n \in 1..writes : Expire(n)
  PROVE  KeepInv'
  <1>1. TypeOK /\ Numbered /\ 0 \notin done
    BY DEF KeepInv, Numbered, Bounded
  <1>2. Forgets /\ UNCHANGED <<wr, api>>
    BY DEF BeginRound, EvictValues, EvictSet, EndRound, Expire, Forgets
  <1>3. (\A k : Doomed(k)' = Doomed(k)) /\ (\A b : Deleting(b)' = Deleting(b))
    BY <1>2 DEF Doomed, Deleting, Within
  <1>4. Stays
    BY <1>1, <1>2, <1>3, ForgetsStays
  <1>5. LoadedLists' /\ RequestInv'
    BY <1>2, <1>4, StaysLoaded, StaysRead DEF KeepInv
  <1>6. Listed' /\ RoundInv' /\ Overlapping' \subseteq raced'
    <2>1. CASE BeginRound
      <3>1. /\ values' = values /\ mapping' = mapping /\ expired' = expired /\ ev'.at = "next"
            /\ ev'.snap = mapping /\ ev'.past = expired /\ Overlapping' \subseteq raced'
        BY <1>1, <2>1, RoundGoesOn DEF BeginRound
      <3>2. Listed'
        BY <1>4, <3>1, StaysListed DEF KeepInv
      <3>3. RoundInv'
        BY <1>4, <3>1 DEF KeepInv, RoundInv, RoundLists, SeenExpired, DeletedFirst,
                          Listed, Lists, Stays
      <3>. QED
        BY <3>1, <3>2, <3>3
    <2>2. CASE EvictValues
      <3>1. PICK b \in Bases :
              /\ ev.at = "next" /\ ev'.at = "set" /\ ev'.base = b /\ ev'.snap = ev.snap
              /\ ev'.past = ev.past
              /\ values' = [k \in RealKeys |->
                   IF k[1] = b /\ Evicted(ev.snap[b][k[2]]) THEN 0 ELSE values[k]]
        BY <1>1, <2>2, RoundEvicts
      <3>2. mapping' = mapping /\ expired' = expired
        BY <2>2 DEF EvictValues
      <3>3. Listed' /\ Overlapping' \subseteq raced'
        BY <1>2, <1>3, <1>4, <3>1, <3>2, StaysListed, ForgetsOverlapping DEF KeepInv
      <3>4. RoundLists' /\ SeenExpired'
        BY <1>4, <3>1, <3>2 DEF KeepInv, RoundInv, RoundLists, SeenExpired, Lists, Stays
      <3>5. DeletedFirst'
        BY <1>1, <1>2, <3>1 DEF DeletedFirst, Settled, Evicted, Forgets
      <3>. QED
        BY <3>3, <3>4, <3>5 DEF RoundInv
    <2>3. CASE EvictSet
      <3>1. /\ values' = values /\ ev.at = "set" /\ ev'.at = "next" /\ ev'.snap = ev.snap
            /\ ev'.past = ev.past /\ expired' = expired
        BY <1>1, <2>3, RoundGoesOn DEF EvictSet
      <3>2. \A b \in Bases :
              mapping'[b] = mapping[b] \/ (b = ev.base /\ mapping'[b] = Kept(b))
        BY <1>1, <2>3 DEF EvictSet, TypeOK
      <3>3. \A b \in Bases, s \in Slots :
              Kept(b)[s] = IF ev.snap[b][s] \in ev.past THEN 0 ELSE ev.snap[b][s]
        BY DEF Kept, Evicted
      <3>4. Listed'
        <4>. SUFFICES ASSUME NEW k \in RealKeys, Settled(k)'
                      PROVE  Lists(mapping[k[1]][k[2]], k)'
          BY DEF Listed
        <4>1. Settled(k) /\ values'[k] = values[k] /\ (Doomed(k) => Doomed(k)')
          BY <1>4 DEF Stays
        <4>2. /\ Lists(mapping[k[1]][k[2]], k) /\ Lists(ev.snap[k[1]][k[2]], k)
              /\ k[1] = ev.base => ev.snap[k[1]][k[2]] \notin ev.past
          BY <3>1, <4>1 DEF KeepInv, Listed, RoundInv, RoundLists, DeletedFirst
        <4>3. \/ mapping'[k[1]][k[2]] = mapping[k[1]][k[2]]
              \/ mapping'[k[1]][k[2]] = ev.snap[k[1]][k[2]]
          BY <3>2, <3>3, <4>2, KeyParts
        <4>. QED
          BY <4>1, <4>2, <4>3 DEF Lists
      <3>5. RoundInv'
        BY <1>4, <3>1 DEF KeepInv, RoundInv, RoundLists, SeenExpired, DeletedFirst, Lists, Stays
      <3>6. Overlapping' \subseteq raced'
        BY <1>2, <1>3, <3>1, ForgetsOverlapping DEF KeepInv
      <3>. QED
        BY <3>4, <3>5, <3>6
    <2>4. CASE EndRound
      <3>1. /\ mapping' = mapping /\ expired' = expired /\ ev'.at = "idle" /\ ev'.past = {}
        BY <2>4 DEF EndRound, NoRound
      <3>2. Listed' /\ Overlapping' \subseteq raced'
        BY <1>2, <1>3, <1>4, <3>1, StaysListed, ForgetsOverlapping DEF KeepInv
      <3>3. RoundInv'
        BY <3>1 DEF KeepInv, RoundInv, RoundLists, SeenExpired, DeletedFirst
      <3>. QED
        BY <3>2, <3>3
    <2>5. ASSUME NEW n \in 1..writes, Expire(n)
          PROVE  Listed' /\ RoundInv' /\ Overlapping' \subseteq raced'
      <3>1. mapping' = mapping /\ ev' = ev /\ expired' = expired \union {n} /\ n # 0
        BY <1>1, <2>5 DEF Expire, TypeOK
      <3>2. Listed' /\ Overlapping' \subseteq raced'
        BY <1>2, <1>3, <1>4, <3>1, StaysListed, ForgetsOverlapping DEF KeepInv
      <3>3. RoundInv'
        BY <1>4, <3>1 DEF KeepInv, RoundInv, RoundLists, SeenExpired, DeletedFirst, Lists, Stays
      <3>. QED
        BY <3>2, <3>3
    <2>. QED
      BY <2>1, <2>2, <2>3, <2>4, <2>5
  <1>7. HandlersInv'
    BY <1>1, <1>2, <1>6, ForgetsHandlers DEF KeepInv
  <1>. QED
    BY <1>5, <1>6, <1>7 DEF KeepInv

\* Every step of a handler keeps the invariant.
LEMMA KeepStores ==
  ASSUME KeepInv, Numbered', NEW w \in Writers, StoreValue(w)
  PROVE  KeepInv'
  <1>1. TypeOK /\ Numbered /\ UNCHANGED <<mapping, expired, done, api, ev>>
    BY DEF KeepInv, Numbered, StoreValue
  <1>2. /\ wr[w].at = "idle" /\ writes \in Nat
        /\ raced \subseteq raced' /\ Overlapping' \subseteq raced'
    BY <1>1 DEF StoreValue, TypeOK
  <1>3. PICK k \in RealKeys :
          /\ \A v \in Writers : wr[v].at # "idle" => wr[v].key[1] # k[1]
          /\ values'[k] = writes + 1 /\ \A j \in RealKeys : j # k => values'[j] = values[j]
          /\ wr'[w].at = "load" /\ wr'[w].key = k /\ wr'[w].write = writes + 1
          /\ \A v \in Writers : v # w => wr'[v] = wr[v]
    BY <1>1, Begins
  <1>4. writes + 1 \notin done
    BY <1>1, <1>2 DEF Numbered, Bounded
  <1>5. \A j : Doomed(j)' = Doomed(j)
    BY <1>1 DEF Doomed
  <1>6. Stays
    BY <1>1, <1>2, <1>3, <1>4, <1>5 DEF Stays, Settled
  <1>7. Listed' /\ RoundInv' /\ RequestInv'
    BY <1>1, <1>6, StaysListed, StaysSeen, StaysRead DEF KeepInv
  <1>8. LoadedLists'
    BY <1>3, <1>6 DEF KeepInv, LoadedLists, Stays, Lists
  <1>9. HandlersInv'
    <2>1. OneWriter'
      BY <1>3 DEF KeepInv, HandlersInv, OneWriter
    <2>2. OwnValue'
      <3>. SUFFICES ASSUME NEW v \in Writers, wr'[v].at # "idle"
                    PROVE  values'[wr'[v].key] \in {0, wr'[v].write}
        BY DEF OwnValue
      <3>1. CASE v = w
        BY <1>3, <3>1
      <3>2. CASE v # w
        <4>1. wr'[v] = wr[v] /\ wr[v].at # "idle" /\ wr[v].key \in RealKeys /\ wr[v].key # k
          BY <1>1, <1>3, <3>2 DEF TypeOK
        <4>. QED
          BY <1>3, <4>1 DEF KeepInv, HandlersInv, OwnValue
      <3>. QED
        BY <3>1, <3>2
    <2>3. Accounted'
      <3>. SUFFICES ASSUME NEW j \in RealKeys
                    PROVE  \/ values'[j] \in done' \union {0}
                           \/ \E v \in Writers : wr'[v].at # "idle" /\ wr'[v].write = values'[j]
        BY DEF Accounted
      <3>1. CASE j = k
        BY <1>3, <3>1
      <3>2. CASE j # k
        <4>1. values'[j] = values[j]
          BY <1>3, <3>2
        <4>2. \A v \in Writers : wr[v].at # "idle" => wr'[v] = wr[v]
          BY <1>2, <1>3
        <4>. QED
          BY <1>1, <4>1, <4>2 DEF KeepInv, HandlersInv, Accounted
      <3>. QED
        BY <3>1, <3>2
    <2>4. Disturbed'
      BY <1>2 DEF Disturbed, Overlapping
    <2>. QED
      BY <2>1, <2>2, <2>3, <2>4 DEF HandlersInv
  <1>. QED
    BY <1>7, <1>8, <1>9 DEF KeepInv

LEMMA KeepLoads ==
  ASSUME KeepInv, Numbered', NEW w \in Writers, LoadMapping(w)
  PROVE  KeepInv'
  <1>1. /\ TypeOK /\ Numbered
        /\ UNCHANGED <<values, mapping, writes, expired, done, raced, api, ev>>
    BY DEF KeepInv, Numbered, LoadMapping
  <1>2. /\ wr[w].at = "load" /\ wr[w].key \in RealKeys
        /\ wr'[w].at = "store" /\ wr'[w].key = wr[w].key /\ wr'[w].write = wr[w].write
        /\ wr'[w].map = mapping[wr[w].key[1]]
        /\ \A v \in Writers : v # w => wr'[v] = wr[v]
    BY <1>1, Loads
  <1>3. (\A j : Doomed(j)' = Doomed(j)) /\ (\A b : Deleting(b)' = Deleting(b))
    BY <1>1 DEF Doomed, Deleting, Within
  <1>4. Stays
    BY <1>1, <1>3 DEF Stays, Settled
  <1>5. Listed' /\ RoundInv' /\ RequestInv'
    BY <1>1, <1>4, StaysListed, StaysSeen, StaysRead DEF KeepInv
  <1>6. LoadedLists'
    <2>. SUFFICES ASSUME NEW v \in Writers, NEW k \in RealKeys, wr'[v].at = "store",
                         k[1] = wr'[v].key[1], k # wr'[v].key, Settled(k)'
                  PROVE  Lists(wr[v].map[k[2]], k)'
      BY DEF LoadedLists
    <2>1. Settled(k) /\ values'[k] = values[k] /\ (Doomed(k) => Doomed(k)')
      BY <1>4 DEF Stays
    <2>2. CASE v = w
      BY <1>2, <2>1, <2>2 DEF KeepInv, Listed, Lists
    <2>3. CASE v # w
      BY <1>2, <2>1, <2>3 DEF KeepInv, LoadedLists, Lists
    <2>. QED
      BY <2>2, <2>3
  <1>7. HandlersInv'
    <2>1. OneWriter' /\ OwnValue'
      BY <1>1, <1>2 DEF KeepInv, HandlersInv, OneWriter, OwnValue
    <2>2. Accounted'
      <3>1. \A v \in Writers : wr[v].at # "idle" => wr'[v].at # "idle" /\ wr'[v].write = wr[v].write
        BY <1>2
      <3>. QED
        BY <1>1, <3>1 DEF KeepInv, HandlersInv, Accounted
    <2>3. Disturbed'
      BY <1>1, <1>2, <1>3 DEF KeepInv, HandlersInv, Disturbed
    <2>. QED
      BY <2>1, <2>2, <2>3 DEF HandlersInv
  <1>. QED
    BY <1>5, <1>6, <1>7 DEF KeepInv

LEMMA KeepStoresMapping ==
  ASSUME KeepInv, Numbered', NEW w \in Writers, StoreMapping(w)
  PROVE  KeepInv'
  <1>1. /\ TypeOK /\ Numbered
        /\ UNCHANGED <<values, writes, expired, raced, api, ev>>
    BY DEF KeepInv, Numbered, StoreMapping
  <1>2. /\ wr[w].at = "store" /\ wr[w].key \in RealKeys
        /\ wr'[w].at = "idle" /\ \A v \in Writers : v # w => wr'[v] = wr[v]
        /\ done' = done \union {wr[w].write}
        /\ mapping'[wr[w].key[1]][wr[w].key[2]] = wr[w].write
        /\ \A k \in RealKeys : k # wr[w].key =>
             mapping'[k[1]][k[2]] = IF k[1] = wr[w].key[1] THEN wr[w].map[k[2]]
                                    ELSE mapping[k[1]][k[2]]
    BY <1>1, Stores
  <1>3. (\A j : Doomed(j)' = Doomed(j)) /\ (\A b : Deleting(b)' = Deleting(b))
    BY <1>1 DEF Doomed, Deleting, Within
  \* Who is settled by the step has run with nobody.
  <1>4. ASSUME NEW k \in RealKeys, Settled(k)'
        PROVE  \/ k # wr[w].key /\ Settled(k)
               \/ /\ k = wr[w].key /\ values[k] = wr[w].write
                  /\ ev.at = "idle" /\ ~Deleting(k[1])
    <2>1. CASE values[k] = wr[w].write
      <3>1. k = wr[w].key /\ wr[w].write \notin raced
        BY <1>1, <1>2, <1>4, <2>1 DEF Numbered, OwnNumber, Settled
      <3>. QED
        BY <1>2, <2>1, <3>1 DEF KeepInv, HandlersInv, Disturbed
    <2>2. CASE values[k] # wr[w].write
      <3>1. Settled(k) /\ values[k] # 0
        BY <1>1, <1>2, <1>4, <2>2 DEF Settled, Numbered, Bounded
      <3>2. k # wr[w].key
        BY <1>2, <2>2, <3>1 DEF KeepInv, HandlersInv, OwnValue
      <3>. QED
        BY <3>1, <3>2
    <2>. QED
      BY <2>1, <2>2
  <1>5. Listed'
    <2>. SUFFICES ASSUME NEW k \in RealKeys, Settled(k)'
                  PROVE  Lists(mapping[k[1]][k[2]], k)'
      BY DEF Listed
    <2>1. CASE k = wr[w].key
      BY <1>1, <1>2, <1>4, <2>1 DEF Lists
    <2>2. CASE k # wr[w].key
      <3>1. Settled(k)
        BY <1>4, <2>2
      <3>2. Lists(mapping[k[1]][k[2]], k) /\ (k[1] = wr[w].key[1] => Lists(wr[w].map[k[2]], k))
        BY <1>2, <2>2, <3>1 DEF KeepInv, Listed, LoadedLists
      <3>. QED
        BY <1>1, <1>2, <1>3, <2>2, <3>2 DEF Lists
    <2>. QED
      BY <2>1, <2>2
  <1>6. LoadedLists'
    <2>. SUFFICES ASSUME NEW v \in Writers, NEW k \in RealKeys, wr'[v].at = "store",
                         k[1] = wr'[v].key[1], k # wr'[v].key, Settled(k)'
                  PROVE  Lists(wr[v].map[k[2]], k)'
      BY DEF LoadedLists
    <2>1. v # w /\ wr'[v] = wr[v] /\ wr[v].key[1] # wr[w].key[1]
      BY <1>2 DEF KeepInv, HandlersInv, OneWriter
    <2>2. Settled(k)
      BY <1>4, <2>1
    <2>. QED
      BY <1>1, <1>3, <2>1, <2>2 DEF KeepInv, LoadedLists, Lists
  <1>7. RoundInv'
    <2>1. RoundLists' /\ DeletedFirst'
      BY <1>1, <1>3, <1>4 DEF KeepInv, RoundInv, RoundLists, DeletedFirst, Lists
    <2>. QED
      BY <1>1, <2>1 DEF KeepInv, RoundInv, SeenExpired
  <1>8. RequestInv'
    <2>1. ReadLists' /\ Emptied' /\ Awaited'
      BY <1>1, <1>4 DEF KeepInv, RequestInv, ReadLists, Emptied, Awaited, Deleting, Within
    <2>2. MapsWithin' /\ PlainMap'
      BY <1>1 DEF KeepInv, RequestInv, MapsWithin, PlainMap, NoMapping
    <2>. QED
      BY <2>1, <2>2 DEF RequestInv
  <1>9. HandlersInv'
    <2>1. OneWriter' /\ OwnValue'
      BY <1>1, <1>2 DEF KeepInv, HandlersInv, OneWriter, OwnValue
    <2>2. Accounted'
      BY <1>1, <1>2 DEF KeepInv, HandlersInv, Accounted
    <2>3. Disturbed'
      BY <1>1, <1>2, <1>3 DEF KeepInv, HandlersInv, Disturbed
    <2>. QED
      BY <2>1, <2>2, <2>3 DEF HandlersInv
  <1>. QED
    BY <1>5, <1>6, <1>7, <1>8, <1>9 DEF KeepInv

LEMMA KeepStep ==
  ASSUME KeepInv, [Next]_vars
  PROVE  KeepInv'
  <1>1. Numbered'
    BY NumberedStep DEF KeepInv
  <1>2. CASE UNCHANGED vars
    <2>1. /\ UNCHANGED <<values, mapping, writes, expired, done, raced, wr, api, ev>>
          /\ \A k : Doomed(k)' = Doomed(k) /\ \A b : Deleting(b)' = Deleting(b)
      BY <1>2 DEF vars, Doomed, Deleting, Within
    <2>2. Stays
      BY <2>1 DEF Stays, Settled
    <2>3. HandlersInv'
      BY <2>1 DEF KeepInv, HandlersInv, OneWriter, OwnValue, Accounted, Disturbed
    <2>. QED
      BY <1>1, <2>1, <2>2, <2>3, StaysListed, StaysLoaded, StaysRead, StaysSeen DEF KeepInv
  <1>. QED
    BY <1>1, <1>2, KeepStores, KeepLoads, KeepStoresMapping, KeepList, KeepEntries,
       KeepMapping, KeepValue, KeepManyValue, KeepManyMapping, KeepRound DEF Next

LEMMA KeepInit == Init => KeepInv
  <1>. SUFFICES ASSUME Init PROVE KeepInv
    OBVIOUS
  <1>1. ev.at = "idle" /\ ev.past = {} /\ api.at = "idle" /\ \A w \in Writers : wr[w].at = "idle"
    BY DEF Init, NoRound, NoApi, NoWriter
  <1>2. done = {} /\ expired = {} /\ \A k \in RealKeys : values[k] = 0
    BY DEF Init
  <1>3. Numbered
    BY NumberedInit
  <1>4. Listed /\ LoadedLists
    BY <1>2 DEF Listed, LoadedLists, Settled
  <1>5. HandlersInv
    BY <1>1, <1>2 DEF HandlersInv, OneWriter, OwnValue, Accounted, Disturbed
  <1>6. RequestInv /\ RoundInv
    BY <1>1, <1>2 DEF RequestInv, ReadLists, Emptied, Awaited, MapsWithin, PlainMap,
                      RoundInv, RoundLists, SeenExpired, DeletedFirst
  <1>. QED
    BY <1>3, <1>4, <1>5, <1>6 DEF KeepInv

\* EvictionKeepsLive: a response whose SetMultiLevel has returned is listed by
\* its mapping when nobody is at work, although invalidations delete mappings and
\* values one by one and EvictMapping stores mappings it has read at the beginning
\* of its round, unless one of the two was at work while the response was stored.
THEOREM EvictionKeepsWhatIsLive == Spec => []EvictionKeepsLive
  <1>1. KeepInv /\ [Next]_vars => KeepInv'
    BY KeepStep
  <1>2. KeepInv => EvictionKeepsLive
    BY DEF KeepInv, Listed, Lists, Settled, Doomed, EvictionKeepsLive
  <1>. QED
    BY <1>1, <1>2, KeepInit, PTL DEF Spec

\* EvictsOnlyExpired: the values that EvictMapping deletes are those of expired
\* responses, which no lookup finds, or of responses stored during its round or
\* during an invalidation of their cached key.
THEOREM EvictionDeletesOnlyExpired == Spec => EvictsOnlyExpired
  <1>1. KeepInv /\ [Next]_vars => KeepInv'
    BY KeepStep
  <1>2. KeepInv /\ EvictValues =>
          \A k \in RealKeys : values'[k] # values[k] => Served(k) = 0 \/ values[k] \in raced
    <2>. SUFFICES ASSUME KeepInv, EvictValues, NEW k \in RealKeys, values'[k] # values[k],
                         values[k] \notin raced, k \in GetAll
                  PROVE  values[k] = 0
      BY DEF Served
    <2>1. ev.at = "next" /\ ev.snap[k[1]][k[2]] \in ev.past
      BY DEF EvictValues, Evicted
    <2>2. values[k] = 0 \/ Settled(k)
      BY <2>1 DEF KeepInv, HandlersInv, Accounted, Disturbed, Settled
    <2>3. CASE Settled(k)
      <3>1. Lists(mapping[k[1]][k[2]], k) /\ Lists(ev.snap[k[1]][k[2]], k)
        BY <2>1, <2>3 DEF KeepInv, Listed, RoundInv, RoundLists
      <3>2. values[k] \in expired
        BY <2>1, <3>1 DEF KeepInv, RoundInv, SeenExpired, Lists
      <3>. QED
        BY <3>1, <3>2 DEF GetAll, Lists
    <2>. QED
      BY <2>2, <2>3
  <1>. QED
    BY <1>1, <1>2, KeepInit, PTL DEF Spec, EvictsOnlyExpired
=============================================================================
