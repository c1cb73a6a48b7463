--------------------------- MODULE MultiLevelStorer ---------------------------
(***************************************************************************)
(* The two-level cache of the Default provider                             *)
(* (pkg/storage/defaultProvider.go, with MappingElection and               *)
(* MappingUpdater of storages/core) under concurrent use: handlers store   *)
(* and look responses up, unsafe requests invalidate a cached key          *)
(* (ServeHTTP), and the API lists keys and purges them (pkg/api/souin.go). *)
(*                                                                         *)
(* A response is stored under a varied key: the cached key together with   *)
(* the value of the header it varies on, here a slot of the cached key.    *)
(* The mapping of the cached key, under the prefix IDX_, lists its slots   *)
(* with the times up to which they are fresh and stale.  Both live in one  *)
(* sync.Map: every Load, Store and Delete is atomic, and nothing else is.  *)
(*                                                                         *)
(* Responses are numbered in the order in which SetMultiLevel stores them. *)
(* Requests carry no If-None-Match here.                                   *)
(*                                                                         *)
(* Definitions marked Faulty are not part of the specification: each is a  *)
(* plausible bug, put in place of the definition below it to see that a    *)
(* property notices.                                                       *)
(***************************************************************************)
EXTENDS Integers, FiniteSets

CONSTANTS
  Keys,        \* the cached keys
  NoKey,       \* an idle writer, reader or remover
  Variants,    \* the values requests send in the header responses vary on
  NoVary,      \* the slot of a response without Vary
  Writers,     \* the goroutines that call SetMultiLevel
  Readers,     \* the handlers that call GetMultiLevel
  Removers,    \* the API requests that list or purge
  Hashed,      \* the configuration's key.hash
  Exclusive,   \* whether Store always runs in the singleflight call of the key
  Durations,   \* the freshness lifetimes of responses
  Stale,       \* the configured stale duration
  MaxWrites,   \* bound on the number of responses stored
  MaxTime      \* bound on the clock

ASSUME StorerAssumption ==
  /\ NoKey \notin Keys /\ NoVary \notin Variants
  /\ Hashed \in BOOLEAN /\ Exclusive \in BOOLEAN
  /\ Durations \subseteq Nat /\ Stale \in Nat
  /\ MaxWrites \in Nat /\ MaxTime \in Nat

Slots == Variants \union {NoVary}

VARIABLES
  clock,    \* time.Now()
  writes,   \* how many responses have been stored
  mapping,  \* the mappings, by the name they are stored under
  values,   \* the responses, by cached key and slot
  wr,       \* the writers
  rd,       \* the readers
  rm,       \* the removers
  done,     \* the last response whose SetMultiLevel has returned nil
  floor     \* the responses up to this one have been invalidated or purged

vars == <<clock, writes, mapping, values, wr, rd, rm, done, floor>>

\* The name of a mapping: IDX_ and the cached key, hashed or not.
Names == Keys \X BOOLEAN
Name(k) == <<k, Hashed>>

\* KeyIndex and item; a response that is absent has the number 0.
Entry == [write : Nat, fresh : Nat, stale : Nat]
Item == [write : Nat, until : Nat]
NoEntry == [write |-> 0, fresh |-> 0, stale |-> 0]
NoItem == [write |-> 0, until |-> 0]
Times == [fresh : Nat, stale : Nat]
NoTimes == [fresh |-> 0, stale |-> 0]
Mapping == [Slots -> Entry]
NoMapping == [s \in Slots |-> NoEntry]

\* Where a reader is in MappingElection: at the next entry, at a Get for the
\* entry cur as a fresh or a stale response, at the end of a Get that found an
\* expired item, or back from a Get for a fresh response that found nothing.
Places == {"elect", "getFresh", "getStale", "dropFresh", "dropStale", "retry"}

Writer == [key : Keys \union {NoKey}, slot : Slots, loaded : BOOLEAN,
           map : Mapping, entry : Entry]
Reader == [key : Keys \union {NoKey}, variant : Slots, todo : SUBSET Slots,
           listed : [Slots -> Nat], times : [Slots -> Times],
           floor : [Slots -> Nat], at : Places,
           cur : Slots, found : {"nothing", "stale", "fresh"}, slot : Slots,
           write : Nat]
Remover == [key : Keys \union {NoKey}, map : BOOLEAN, upTo : Nat,
            todo : SUBSET Slots, purged : SUBSET Slots]

NoWriter == [key |-> NoKey, slot |-> NoVary, loaded |-> FALSE,
             map |-> NoMapping, entry |-> NoEntry]
NoReader == [key |-> NoKey, variant |-> NoVary, todo |-> {},
             listed |-> [s \in Slots |-> 0], times |-> [s \in Slots |-> NoTimes],
             floor |-> [s \in Slots |-> 0], at |-> "elect", cur |-> NoVary, found |-> "nothing", slot |-> NoVary,
             write |-> 0]
NoRemover == [key |-> NoKey, map |-> FALSE, upTo |-> 0, todo |-> {},
              purged |-> {}]

Init ==
  /\ clock = 0
  /\ writes = 0
  /\ mapping = [n \in Names |-> NoMapping]
  /\ values = [k \in Keys |-> [s \in Slots |-> NoItem]]
  /\ wr = [w \in Writers |-> NoWriter]
  /\ rd = [r \in Readers |-> NoReader]
  /\ rm = [p \in Removers |-> NoRemover]
  /\ done = [k \in Keys |-> [s \in Slots |-> 0]]
  /\ floor = [k \in Keys |-> [s \in Slots |-> 0]]

-----------------------------------------------------------------------------
(***************************************************************************)
(* SetMultiLevel.                                                          *)
(***************************************************************************)

Writing(k) == \E w \in Writers : wr[w].key = k

\* Faulty: as if every request called the upstream server on its own.
MayWriteTogether(k) == TRUE

\* Store runs inside the singleflight call of the cached key.  Not all writers
\* do: coalescing may be disabled, the second, lonely call of a response that
\* sets a cookie is alone in its flight, several handlers may share the storer,
\* and behind several storers ServeHTTP copies a hit in a later one to the
\* earlier ones in a goroutine outside any flight.
MayWrite(k) == Exclusive => ~Writing(k)

\* Faulty: the lifetime is subtracted.
StaleTimeBefore(d) == clock - (d + Stale)

\* now.Add(duration + provider.stale).
StaleTime(d) == clock + d + Stale

\* provider.m.Store(variedKey, item{...}).
StoreValue(w) ==
  /\ wr[w].key = NoKey /\ writes < MaxWrites
  /\ \E k \in Keys, s \in Slots, d \in Durations :
       /\ MayWrite(k)
       /\ values' = [values EXCEPT ![k][s] =
            [write |-> writes + 1, until |-> StaleTime(d)]]
       /\ wr' = [wr EXCEPT ![w] =
            [key |-> k, slot |-> s, loaded |-> FALSE, map |-> NoMapping,
             entry |-> [write |-> writes + 1, fresh |-> clock + d,
                        stale |-> StaleTime(d)]]]
  /\ writes' = writes + 1
  /\ UNCHANGED <<clock, mapping, rd, rm, done, floor>>

\* provider.m.Load(mappingKey), and MappingUpdater on what it returned.
MappingUpdater(map, slot, entry) == [map EXCEPT ![slot] = entry]

LoadMapping(w) ==
  /\ wr[w].key # NoKey /\ ~wr[w].loaded
  /\ wr' = [wr EXCEPT ![w].loaded = TRUE,
                      ![w].map = MappingUpdater(mapping[Name(wr[w].key)],
                                                wr[w].slot, wr[w].entry)]
  /\ UNCHANGED <<clock, writes, mapping, values, rd, rm, done, floor>>

\* provider.m.Store(mappingKey, val).
StoreMapping(w) ==
  /\ wr[w].key # NoKey /\ wr[w].loaded
  /\ mapping' = [mapping EXCEPT ![Name(wr[w].key)] = wr[w].map]
  /\ done' = [done EXCEPT ![wr[w].key][wr[w].slot] = wr[w].entry.write]
  /\ wr' = [wr EXCEPT ![w] = NoWriter]
  /\ UNCHANGED <<clock, writes, values, rd, rm, floor>>

-----------------------------------------------------------------------------
(***************************************************************************)
(* GetMultiLevel: load the mapping, then elect a response among its slots, *)
(* in the order in which Go ranges over a map, that is in any order.       *)
(***************************************************************************)

\* Faulty: the varied headers of the entry are not compared.
MatchesAnything(slot, variant) == TRUE

\* The request has the values of the varied headers that the entry lists.
MatchesVary(slot, variant) == slot \in {NoVary, variant}

\* provider.m.Load of the mapping; the entries that match are left to visit, and
\* without one the lookup returns nothing, at once and without effect.
\* The reader remembers which responses were listed and which had been
\* invalidated when it began.
BeginRead(r) ==
  /\ rd[r].key = NoKey
  /\ \E k \in Keys, v \in Variants :
       LET map == mapping[Name(k)]
           matching == {s \in Slots : map[s].write # 0 /\ MatchesVary(s, v)}
       IN /\ matching # {}
          /\ rd' = [rd EXCEPT ![r] =
               [key |-> k, variant |-> v, todo |-> matching,
                listed |-> [s \in Slots |-> IF s \in matching THEN map[s].write ELSE 0],
                times |-> [s \in Slots |->
                  IF s \in matching
                  THEN [fresh |-> map[s].fresh, stale |-> map[s].stale]
                  ELSE NoTimes],
                floor |-> [s \in Slots |->
                  IF s \in matching THEN floor[k][s] ELSE 0],
                at |-> "elect", cur |-> NoVary,
                found |-> "nothing", slot |-> NoVary, write |-> 0]]
  /\ UNCHANGED <<clock, writes, mapping, values, wr, rm, done, floor>>

\* The reader goes to a place for the entry of a slot; back at "elect" it is
\* done with that entry.
At(x, place, s) ==
  [key |-> x.key, variant |-> x.variant, todo |-> x.todo \ {s},
   listed |-> x.listed, times |-> IF place = "elect" THEN [x.times EXCEPT ![s] = NoTimes]
            ELSE x.times,
   floor |-> x.floor, at |-> place, cur |-> IF place = "elect" THEN NoVary ELSE s,
   found |-> x.found, slot |-> x.slot, write |-> x.write]

\* readResponse of what Get returned for a slot.
Found(x, s, write, asFresh) ==
  [key |-> x.key, variant |-> x.variant, todo |-> x.todo \ {s},
   listed |-> x.listed, times |-> [x.times EXCEPT ![s] = NoTimes], floor |-> x.floor, at |-> "elect",
   cur |-> NoVary, found |-> IF asFresh THEN "fresh" ELSE "stale", slot |-> s,
   write |-> write]

\* The next entry: its times decide whether Get is called.
Elect(r) ==
  /\ rd[r].key # NoKey /\ rd[r].at = "elect" /\ rd[r].found # "fresh"
  /\ \E s \in rd[r].todo :
       LET place == IF clock < rd[r].times[s].fresh THEN "getFresh"
                    ELSE IF clock < rd[r].times[s].stale THEN "getStale" ELSE "elect"
       IN rd' = [rd EXCEPT ![r] = At(@, place, s)]
  /\ UNCHANGED <<clock, writes, mapping, values, wr, rm, done, floor>>

\* A Get for a fresh response found nothing: the stale time is looked at.
Retry(r) ==
  /\ rd[r].key # NoKey /\ rd[r].at = "retry"
  /\ LET s == rd[r].cur
     IN rd' = [rd EXCEPT ![r] =
          At(@, IF clock < rd[r].times[s].stale THEN "getStale" ELSE "elect", s)]
  /\ UNCHANGED <<clock, writes, mapping, values, wr, rm, done, floor>>

\* provider.Get finds an item that has not expired.
Gets(k, s) == clock < values[k][s].until

\* provider.m.Load in Get.  A fresh response ends the election, a stale one
\* replaces the last.
GetItem(r) ==
  /\ rd[r].key # NoKey /\ rd[r].at \in {"getFresh", "getStale"}
  /\ LET k == rd[r].key
         s == rd[r].cur
         asFresh == rd[r].at = "getFresh"
     IN rd' = [rd EXCEPT ![r] =
          IF Gets(k, s)
          THEN Found(@, s, values[k][s].write, asFresh)
          ELSE At(@, CASE values[k][s] = NoItem /\ asFresh -> "retry"
                       [] values[k][s] = NoItem /\ ~asFresh -> "elect"
                       [] OTHER -> IF asFresh THEN "dropFresh" ELSE "dropStale",
                  s)]
  /\ UNCHANGED <<clock, writes, mapping, values, wr, rm, done, floor>>

\* provider.m.Delete(key), at the end of a Get that found an expired item.
DropExpired(r) ==
  /\ rd[r].key # NoKey /\ rd[r].at \in {"dropFresh", "dropStale"}
  /\ values' = [values EXCEPT ![rd[r].key][rd[r].cur] = NoItem]
  /\ rd' = [rd EXCEPT ![r] =
       At(@, IF @.at = "dropFresh" THEN "retry" ELSE "elect", @.cur)]
  /\ UNCHANGED <<clock, writes, mapping, wr, rm, done, floor>>

\* Faulty: the first response that is found ends the election.
EndReadAtFirst(r) ==
  /\ rd[r].key # NoKey /\ rd[r].at = "elect"
  /\ rd[r].found # "nothing" \/ rd[r].todo = {}
  /\ rd' = [rd EXCEPT ![r] = NoReader]
  /\ UNCHANGED <<clock, writes, mapping, values, wr, rm, done, floor>>

\* The fresh response, or the last stale one, or nothing is returned.
EndRead(r) ==
  /\ rd[r].key # NoKey /\ rd[r].at = "elect"
  /\ rd[r].found = "fresh" \/ rd[r].todo = {}
  /\ rd' = [rd EXCEPT ![r] = NoReader]
  /\ UNCHANGED <<clock, writes, mapping, values, wr, rm, done, floor>>

-----------------------------------------------------------------------------
(***************************************************************************)
(* Invalidation and the API.                                               *)
(***************************************************************************)

\* Faulty: the prefix of the mapping is forgotten, and the response without
\* Vary is deleted instead.
InvalidateWithoutPrefix(k) ==
  /\ values' = [values EXCEPT ![k][NoVary] = NoItem]
  /\ done' = [done EXCEPT ![k] = [s \in Slots |-> 0]]
  /\ floor' = IF Writing(k) THEN floor
              ELSE [floor EXCEPT ![k] = [s \in Slots |-> writes]]
  /\ UNCHANGED <<clock, writes, mapping, wr, rd, rm>>

\* An unsafe request has succeeded: ServeHTTP deletes the mapping of the GET
\* key, under its plain name.  A SetMultiLevel in progress may bring back the
\* mapping it has loaded, so that the promise below is made only without one.
Invalidate(k) ==
  /\ mapping' = [mapping EXCEPT ![<<k, FALSE>>] = NoMapping]
  /\ done' = [done EXCEPT ![k] = [s \in Slots |-> 0]]
  /\ floor' = IF Writing(k) THEN floor
              ELSE [floor EXCEPT ![k] = [s \in Slots |-> writes]]
  /\ UNCHANGED <<clock, writes, values, wr, rd, rm>>

\* What DeleteMany(key) matches: the name of a response without Vary is part
\* of all the names of its cached key, the name of another only of its own.
Selected(s) == IF s = NoVary THEN Slots ELSE {s}

\* DeleteMany ranges over the map; Delete of each matching name is a step.
\* Nobody selects hashed names by the text of a key.
BeginPurge(p) ==
  /\ rm[p].key = NoKey /\ ~Hashed
  /\ \E k \in Keys, s \in Slots :
       rm' = [rm EXCEPT ![p] = [key |-> k, map |-> s = NoVary, upTo |-> writes,
                                todo |-> Selected(s), purged |-> Selected(s)]]
  /\ UNCHANGED <<clock, writes, mapping, values, wr, rd, done, floor>>

DeleteMapping(p) ==
  /\ rm[p].key # NoKey /\ rm[p].map
  /\ mapping' = [mapping EXCEPT ![Name(rm[p].key)] = NoMapping]
  /\ done' = [done EXCEPT ![rm[p].key] = [s \in Slots |-> 0]]
  /\ rm' = [rm EXCEPT ![p].map = FALSE]
  /\ UNCHANGED <<clock, writes, values, wr, rd, floor>>

\* ListKeys reads a mapping and deletes the responses it lists as expired.
BeginList(p) ==
  /\ rm[p].key = NoKey
  /\ \E k \in Keys :
       LET map == mapping[Name(k)]
           expired == {s \in Slots : map[s].write # 0 /\ map[s].stale <= clock}
       IN /\ expired # {}
          /\ rm' = [rm EXCEPT ![p] = [key |-> k, map |-> FALSE, upTo |-> 0,
                                      todo |-> expired, purged |-> {}]]
  /\ UNCHANGED <<clock, writes, mapping, values, wr, rd, done, floor>>

DeleteValue(p) ==
  /\ rm[p].key # NoKey
  /\ \E s \in rm[p].todo :
       /\ values[rm[p].key][s] # NoItem
       /\ values' = [values EXCEPT ![rm[p].key][s] = NoItem]
       /\ rm' = [rm EXCEPT ![p].todo = @ \ {s}]
  /\ UNCHANGED <<clock, writes, mapping, wr, rd, done, floor>>

\* The API answers.  A name that was stored while DeleteMany ranged over the
\* map may have been missed, but what was there when it began is gone.
EndRemoval(p) ==
  /\ rm[p].key # NoKey /\ ~rm[p].map
  /\ \A s \in rm[p].todo :
       LET item == values[rm[p].key][s]
       IN item = NoItem \/ (s \in rm[p].purged /\ item.write > rm[p].upTo)
  /\ floor' = [floor EXCEPT ![rm[p].key] = [s \in Slots |->
       IF s \in rm[p].purged /\ rm[p].upTo > @[s] THEN rm[p].upTo ELSE @[s]]]
  /\ rm' = [rm EXCEPT ![p] = NoRemover]
  /\ UNCHANGED <<clock, writes, mapping, values, wr, rd, done>>

\* PURGE .../flush ends with Destruct, which puts an empty sync.Map in place.
Reset ==
  /\ mapping' = [n \in Names |-> NoMapping]
  /\ values' = [k \in Keys |-> [s \in Slots |-> NoItem]]
  /\ done' = [k \in Keys |-> [s \in Slots |-> 0]]
  /\ floor' = [k \in Keys |-> [s \in Slots |-> writes]]
  /\ UNCHANGED <<clock, writes, wr, rd, rm>>

Tick ==
  /\ clock < MaxTime
  /\ clock' = clock + 1
  /\ UNCHANGED <<writes, mapping, values, wr, rd, rm, done, floor>>

-----------------------------------------------------------------------------
Next ==
  \/ \E w \in Writers : StoreValue(w) \/ LoadMapping(w) \/ StoreMapping(w)
  \/ \E r \in Readers : BeginRead(r) \/ Elect(r) \/ Retry(r) \/ GetItem(r)
                        \/ DropExpired(r) \/ EndRead(r)
  \/ \E k \in Keys : Invalidate(k)
  \/ \E p \in Removers : BeginPurge(p) \/ DeleteMapping(p) \/ BeginList(p)
                         \/ DeleteValue(p) \/ EndRemoval(p)
  \/ Reset
  \/ Tick

Spec == Init /\ [][Next]_vars

-----------------------------------------------------------------------------
(***************************************************************************)
(* Properties.                                                             *)
(***************************************************************************)

\* Every variable has its type.
TypeOK ==
  /\ clock \in Nat /\ writes \in Nat
  /\ mapping \in [Names -> Mapping]
  /\ values \in [Keys -> [Slots -> Item]]
  /\ wr \in [Writers -> Writer]
  /\ rd \in [Readers -> Reader]
  /\ rm \in [Removers -> Remover]
  /\ done \in [Keys -> [Slots -> Nat]]
  /\ floor \in [Keys -> [Slots -> Nat]]

\* Between two stores of a cached key, its mapping describes the responses it
\* leads to: freshness and ETag were written by the SetMultiLevel that wrote
\* the response, whatever readers, listings and purges did in between.  Needs
\* Exclusive: two stores of one slot may mix their parts.
MappingDescribesValue ==
  \A k \in Keys : ~Writing(k) =>
    \A s \in Slots :
      LET e == mapping[Name(k)][s] IN
      e.write # 0 /\ values[k][s].write # 0 => e.write = values[k][s].write

\* No SetMultiLevel undoes another: the last response of each slot that was
\* reported as stored is the one the mapping lists, until it is invalidated.
\* Needs Exclusive: SetMultiLevel loads and stores the mapping without a lock.
NoLostStore ==
  \A k \in Keys, s \in Slots :
    done[k][s] # 0 => mapping[Name(k)][s].write = done[k][s]

\* A lookup does not come back with a stale response or none while there is a
\* fresh one: every response for the request that the mapping listed when the
\* lookup began, that is still listed and there when it ends, has ceased to be
\* fresh, whatever else of the key is stored, expires or is removed meanwhile.
FreshIsFound ==
  [][\A r \in Readers :
       rd[r].key # NoKey /\ rd'[r].key = NoKey /\ rd[r].found # "fresh" =>
         \A s \in Slots :
           LET e == mapping[Name(rd[r].key)][s]
               still == /\ rd[r].listed[s] # 0 /\ e.write = rd[r].listed[s]
                        /\ values[rd[r].key][s].write = e.write
           IN still => e.fresh <= clock]_vars

\* A lookup never returns a response that was invalidated by an unsafe request,
\* purged or flushed before the lookup began, although its parts are deleted
\* one by one and other responses of the key are stored at the same time.
NoReadOfInvalidated ==
  \A r \in Readers : rd[r].key # NoKey /\ rd[r].write # 0 =>
    rd[r].write > rd[r].floor[rd[r].slot]

\* Once ServeHTTP or the API has taken a response out of the mapping of its key,
\* it never comes back: what SetMultiLevel adds to a mapping is the response it
\* stores, not another one that it has seen there before.
NoReturn ==
  [][\A k \in Keys, s \in Slots :
       LET e == mapping[Name(k)][s].write
           f == mapping'[Name(k)][s].write
       IN f \notin {0, e} => \E w \in Writers : wr[w].entry.write = f]_vars
=============================================================================
