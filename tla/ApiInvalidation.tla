---------------------------- MODULE ApiInvalidation ----------------------------
(***************************************************************************)
(* What the Souin API (pkg/api/souin.go) deletes piece by piece from a     *)
(* storer that keeps mappings as plain values, as the external storers do: *)
(* the invalidation of URIs, URI prefixes and origins by POST, with        *)
(* BulkDelete, and EvictMapping, which the API and the eviction loop of    *)
(* the middleware call.  Handlers store responses at the same time.        *)
(*                                                                         *)
(* A cached key is a host, a path and how the key goes on after it; the    *)
(* texts the code searches for in a key are predicates of these parts.     *)
(* The mapping of a cached key lists its slots, one for responses without  *)
(* Vary and one for a variant.  Responses are numbered in the order they   *)
(* are stored, and the entry of a slot is the number of the response whose *)
(* times it holds.  Definitions marked Faulty are plausible bugs, put in   *)
(* place of the definition below them.                                     *)
(***************************************************************************)
EXTENDS Integers, FiniteSets

CONSTANTS
  Hosts, Paths,
  Tails,       \* how cached keys go on after the path
  Slots,       \* "plain", and "vary" when responses vary
  Writers,     \* handlers that store responses
  Types,       \* the types of invalidation that are requested
  Purge,       \* whether they ask for a purge
  MaxWrites,   \* bound on the responses stored
  MaxEvicts    \* bound on the rounds of EvictMapping

ASSUME ApiAssumption ==
  /\ Tails \subseteq {"end", "-", "?", "/", "more"}
  /\ Slots \subseteq {"plain", "vary"}
  /\ Types \subseteq {"uri", "uri-prefix", "origin"}
  /\ Purge \subseteq BOOLEAN
  /\ MaxWrites \in Nat /\ MaxEvicts \in Nat

\* Cached keys, and the keys of responses: Host, path, "-header", "?query",
\* "/deeper", "more" of the last element, and {-VARY-} with the varied headers.
Bases == [host : Hosts, path : Paths, tail : Tails]
RealKeys == Bases \X Slots

NoMapping == [s \in Slots |-> 0]

VARIABLES
  values,   \* the number of the response under each key, 0 for none
  mapping,  \* by cached key: the entries, 0 for none
  writes,   \* how many responses have been stored
  expired,  \* those past their stale time
  done,     \* those whose SetMultiLevel has returned
  raced,    \* those whose SetMultiLevel ran during a round of EvictMapping, or
            \* while an invalidation deleted what belongs to their cached key
  wr,       \* the handlers that store
  api,      \* the POST request
  ev,       \* the round of EvictMapping
  evicts    \* how many rounds have begun

vars == <<values, mapping, writes, expired, done, raced, wr, api, ev, evicts>>

NoWriter == [at |-> "idle", key |-> CHOOSE k \in RealKeys : TRUE, write |-> 0,
             map |-> NoMapping]
NoApi == [at |-> "idle", type |-> "uri", host |-> CHOOSE h \in Hosts : TRUE,
          path |-> CHOOSE p \in Paths : TRUE, purge |-> TRUE, keys |-> {},
          key |-> CHOOSE k \in RealKeys : TRUE, map |-> NoMapping, todo |-> {},
          maps |-> {}, must |-> {}]
NoRound == [at |-> "idle", todo |-> {}, base |-> CHOOSE b \in Bases : TRUE,
            snap |-> [b \in Bases |-> NoMapping], past |-> {}]

Init ==
  /\ values = [k \in RealKeys |-> 0]
  /\ mapping = [b \in Bases |-> NoMapping]
  /\ writes = 0
  /\ expired = {} /\ done = {} /\ raced = {}
  /\ wr = [w \in Writers |-> NoWriter]
  /\ api = NoApi
  /\ ev = NoRound
  /\ evicts = 0

-----------------------------------------------------------------------------
(***************************************************************************)
(* What belongs to a key.                                                  *)
(***************************************************************************)

\* The key without a varied part, and without a tail, is where others begin.
Within(b, k) ==
  /\ k[2] = "plain"
  /\ b = k[1] \/ (k[1].tail = "end" /\ b.host = k[1].host /\ b.path = k[1].path)

\* The names DeleteMany of a key matches: whatever begins with it, and unless it
\* has a "?", which has a meaning in a regular expression, the mappings.
Begin(k) == {j \in RealKeys : j = k \/ Within(j[1], k)}
Mapped(k) == {b \in Bases : Within(b, k) /\ k[1].tail # "?"}

\* BulkDelete is at work on what belongs to the cached key.
Deleting(b) == api.at \notin {"idle", "keys", "end"} /\ Within(b, api.key)

\* The responses whose SetMultiLevel runs while their mapping may be written back
\* or deleted by somebody else.
Overlapping ==
  {wr[w].write : w \in {v \in Writers :
     wr[v].at # "idle" /\ (ev.at # "idle" \/ Deleting(wr[v].key[1]))}}

-----------------------------------------------------------------------------
(***************************************************************************)
(* Handlers: SetMultiLevel stores the response, loads the mapping and      *)
(* stores it with the new entry.  Stores of a key run one after the other. *)
(***************************************************************************)

StoreValue(w) ==
  /\ wr[w].at = "idle" /\ writes < MaxWrites
  /\ \E k \in RealKeys :
       /\ \A v \in Writers : wr[v].at # "idle" => wr[v].key[1] # k[1]
       /\ values' = [values EXCEPT ![k] = writes + 1]
       /\ wr' = [wr EXCEPT ![w] = [NoWriter EXCEPT !.at = "load", !.key = k,
                                                   !.write = writes + 1]]
  /\ writes' = writes + 1
  /\ UNCHANGED <<mapping, expired, done, api, ev, evicts>>
  /\ raced' = raced \union Overlapping'

LoadMapping(w) ==
  /\ wr[w].at = "load"
  /\ wr' = [wr EXCEPT ![w].at = "store", ![w].map = mapping[wr[w].key[1]]]
  /\ UNCHANGED <<values, mapping, writes, expired, done, raced, api, ev, evicts>>

StoreMapping(w) ==
  /\ wr[w].at = "store"
  /\ mapping' = [mapping EXCEPT ![wr[w].key[1]] =
       [wr[w].map EXCEPT ![wr[w].key[2]] = wr[w].write]]
  /\ done' = done \union {wr[w].write}
  /\ wr' = [wr EXCEPT ![w] = NoWriter]
  /\ UNCHANGED <<values, writes, expired, raced, api, ev, evicts>>

\* Time passes the stale time of a response, which shows where a mapping lists it.
Expire(n) ==
  /\ n \notin expired /\ \E b \in Bases, s \in Slots : mapping[b][s] = n
  /\ expired' = expired \union {n}
  /\ UNCHANGED <<values, mapping, writes, done, raced, wr, api, ev, evicts>>

-----------------------------------------------------------------------------
(***************************************************************************)
(* POST: list the keys, select, and BulkDelete each of the selected.       *)
(***************************************************************************)

\* strings.Contains(allKey, bk), with bk the host, "-" and the path.
Contains(k, r) == k[1].host = r.host /\ k[1].path = r.path
\* strings.Contains(allKey, bk + c), and strings.HasSuffix(allKey, bk).
GoesOnWith(k, c) == k[1].tail = c
HasSuffix(k) == k[1].tail = "end" /\ k[2] = "plain"

\* Faulty: keys with a query string are not looked for.
SelectedWithoutQuery(r, k) ==
  \/ /\ r.type = "uri-prefix" /\ Contains(k, r)
     /\ GoesOnWith(k, "-") \/ GoesOnWith(k, "/") \/ HasSuffix(k)
  \/ r.type = "origin" /\ k[1].host = r.host

\* The keys an invalidation selects: "uri" asks for the text twice, followed by
\* "-" and at the end.
Selected(r, k) ==
  \/ r.type = "uri" /\ Contains(k, r) /\ GoesOnWith(k, "-") /\ HasSuffix(k)
  \/ /\ r.type = "uri-prefix" /\ Contains(k, r)
     /\ GoesOnWith(k, "-") \/ GoesOnWith(k, "?") \/ GoesOnWith(k, "/") \/ HasSuffix(k)
  \/ r.type = "origin" /\ k[1].host = r.host

\* The keys the client means.
Meant(r, k) ==
  \/ r.type = "uri" /\ Contains(k, r) /\ k[1].tail \in {"end", "-"}
  \/ r.type = "uri-prefix" /\ Contains(k, r) /\ k[1].tail # "more"
  \/ r.type = "origin" /\ k[1].host = r.host

\* GetAll: the keys of the entries of mappings before their stale time.
GetAll == {k \in RealKeys : mapping[k[1]][k[2]] \notin expired \union {0}}
Keys(r) == {k \in GetAll : Selected(r, k)}

\* What the client means of the responses that are stored.
Must(r) == {values[k] : k \in {j \in GetAll : Meant(r, j)}} \intersect done

\* GetAll and the loops over the selectors.  A selector with "//" is skipped: it
\* selects nothing.
List ==
  /\ api.at = "idle"
  /\ \E r \in [type : Types, host : Hosts, path : Paths], purge \in Purge, full \in BOOLEAN :
       /\ api' = [api EXCEPT !.at = "keys", !.type = r.type, !.host = r.host,
                    !.path = r.path, !.purge = purge,
                    !.keys = IF full THEN {} ELSE Keys(r),
                    !.must = IF full THEN {} ELSE Must(r)]
  /\ UNCHANGED <<values, mapping, writes, expired, done, raced, wr, ev, evicts>>

\* BulkDelete: the Get of the mapping under IDX_ and the key.  A varied key is
\* the name of no mapping.
BulkGet ==
  /\ api.at = "keys"
  /\ \E k \in api.keys :
       api' = [api EXCEPT !.at = "entries", !.key = k, !.keys = @ \ {k},
                          !.map = IF k[2] = "plain" THEN mapping[k[1]] ELSE NoMapping]
  /\ UNCHANGED <<values, mapping, writes, expired, done, wr, ev, evicts>>
  /\ raced' = raced \union Overlapping'

\* The loop over the entries of the mapping: current.Delete.
DeleteEntries(k) ==
  IF k[1] = api.key[1] /\ api.map[k[2]] # 0 THEN 0 ELSE values[k]

BulkEntries ==
  /\ api.at = "entries"
  /\ values' = [k \in RealKeys |-> DeleteEntries(k)]
  /\ api' = [api EXCEPT !.at = "map"]
  /\ UNCHANGED <<mapping, writes, expired, done, raced, wr, ev, evicts>>

\* The mapping that was read is stored back with entries that are not fresh any
\* more, or with purge deleted.
BulkMapping ==
  /\ api.at = "map"
  /\ mapping' = IF api.purge /\ api.key[2] = "plain"
                THEN [mapping EXCEPT ![api.key[1]] = NoMapping]
                ELSE IF ~api.purge /\ api.map # NoMapping
                THEN [mapping EXCEPT ![api.key[1]] = api.map]
                ELSE mapping
  /\ api' = [api EXCEPT !.at = "value", !.map = NoMapping]
  /\ UNCHANGED <<values, writes, expired, done, raced, wr, ev, evicts>>

\* Delete of the key.
BulkValue ==
  /\ api.at = "value"
  /\ values' = [values EXCEPT ![api.key] = 0]
  /\ api' = [api EXCEPT !.at = "many", !.todo = Begin(api.key), !.maps = Mapped(api.key)]
  /\ UNCHANGED <<mapping, writes, expired, done, raced, wr, ev, evicts>>

\* DeleteMany deletes the names it matches one by one, in the order of the Range.
Rest(todo, maps) == IF todo = {} /\ maps = {} THEN "keys" ELSE "many"

ManyValue ==
  /\ api.at = "many"
  /\ \E k \in api.todo :
       /\ values' = [values EXCEPT ![k] = 0]
       /\ api' = [api EXCEPT !.at = Rest(api.todo \ {k}, api.maps), !.todo = @ \ {k}]
  /\ UNCHANGED <<mapping, writes, expired, done, raced, wr, ev, evicts>>

ManyMapping ==
  /\ api.at = "many"
  /\ \E b \in api.maps :
       /\ mapping' = [mapping EXCEPT ![b] = NoMapping]
       /\ api' = [api EXCEPT !.at = Rest(api.todo, api.maps \ {b}), !.maps = @ \ {b}]
  /\ UNCHANGED <<values, writes, expired, done, raced, wr, ev, evicts>>

Answer ==
  /\ api.at = "keys" /\ api.keys = {}
  /\ api' = [api EXCEPT !.at = "end"]
  /\ UNCHANGED <<values, mapping, writes, expired, done, raced, wr, ev, evicts>>

EndRequest ==
  /\ api.at = "end"
  /\ api' = NoApi
  /\ UNCHANGED <<values, mapping, writes, expired, done, raced, wr, ev, evicts>>

-----------------------------------------------------------------------------
(***************************************************************************)
(* EvictMapping: MapKeys once, and then mapping by mapping.                *)
(***************************************************************************)

BeginRound ==
  /\ ev.at = "idle" /\ evicts < MaxEvicts
  /\ ev' = [ev EXCEPT !.at = "next", !.snap = mapping, !.past = expired,
                      !.todo = {b \in Bases : mapping[b] # NoMapping}]
  /\ evicts' = evicts + 1
  /\ UNCHANGED <<values, mapping, writes, expired, done, wr, api>>
  /\ raced' = raced \union Overlapping'

\* Faulty: the stale time is not looked at.
EvictedEarly(e) == e # 0

\* An entry past its fresh and its stale time when the round began.
Evicted(e) == e \in ev.past

\* Faulty: a mapping with an evicted entry is dropped as a whole.
KeptNothing(b) == NoMapping

Kept(b) == [s \in Slots |-> IF Evicted(ev.snap[b][s]) THEN 0 ELSE ev.snap[b][s]]

\* The loop over the entries: the responses of evicted entries are deleted.
EvictValues ==
  /\ ev.at = "next"
  /\ \E b \in ev.todo :
       /\ values' = [k \in RealKeys |->
            IF k[1] = b /\ Evicted(ev.snap[b][k[2]]) THEN 0 ELSE values[k]]
       /\ ev' = [ev EXCEPT !.at = "set", !.base = b, !.todo = @ \ {b}]
  /\ UNCHANGED <<mapping, writes, expired, done, raced, wr, api, evicts>>

\* The Set of a mapping that has changed, and the Delete of an empty one.
EvictSet ==
  /\ ev.at = "set"
  /\ mapping' = IF Kept(ev.base) # ev.snap[ev.base]
                THEN [mapping EXCEPT ![ev.base] = Kept(ev.base)] ELSE mapping
  /\ ev' = [ev EXCEPT !.at = "next"]
  /\ UNCHANGED <<values, writes, expired, done, raced, wr, api, evicts>>

EndRound ==
  /\ ev.at = "next" /\ ev.todo = {}
  /\ ev' = NoRound
  /\ UNCHANGED <<values, mapping, writes, expired, done, raced, wr, api, evicts>>

Next ==
  \/ \E w \in Writers : StoreValue(w) \/ LoadMapping(w) \/ StoreMapping(w)
  \/ \E n \in 1..writes : Expire(n)
  \/ List \/ BulkGet \/ BulkEntries \/ BulkMapping
  \/ BulkValue \/ ManyValue \/ ManyMapping \/ Answer \/ EndRequest
  \/ BeginRound \/ EvictValues \/ EvictSet \/ EndRound

Spec == Init /\ [][Next]_vars

-----------------------------------------------------------------------------
(***************************************************************************)
(* Properties.                                                             *)
(***************************************************************************)

\* A lookup finds a response through its mapping only.
Served(k) == IF k \in GetAll THEN values[k] ELSE 0

\* When an invalidation has been answered, no lookup finds a response that it
\* meant, and that was stored before it began, although responses and mappings
\* are deleted piece by piece while other responses are stored and evicted.
InvalidationReaches ==
  api.at = "end" => \A k \in RealKeys : Served(k) \notin api.must

\* The same of the invalidation of one URI.
UriInvalidationReaches == api.type = "uri" => InvalidationReaches

\* EvictMapping deletes no response that a lookup could still find, unless the
\* response replaces another while the round or an invalidation is at work,
\* whatever handlers and the API store back or delete meanwhile.
EvictsOnlyExpired ==
  [][EvictValues => \A k \in RealKeys :
       values'[k] # values[k] => Served(k) = 0 \/ values[k] \in raced]_vars

\* When nobody is at work, a response in the storer whose SetMultiLevel has
\* returned is listed by its mapping, unless it was stored during a round of
\* EvictMapping, which stores back what it has read at its beginning, or during
\* an invalidation: no other response is orphaned by what either deletes or
\* stores back.
EvictionKeepsLive ==
  ev.at = "idle" /\ api.at = "idle" /\ (\A w \in Writers : wr[w].at = "idle") =>
    \A k \in RealKeys : values[k] \in done \ raced => mapping[k[1]][k[2]] = values[k]

\* The same of every response.
EvictionKeepsAll ==
  ev.at = "idle" /\ api.at = "idle" /\ (\A w \in Writers : wr[w].at = "idle") =>
    \A k \in RealKeys : values[k] \in done => mapping[k[1]][k[2]] # 0
==============================================================================
