----------------------------- MODULE SurrogateKeys -----------------------------
(***************************************************************************)
(* Surrogate keys (pkg/surrogate/providers) and the API requests that      *)
(* purge by them (pkg/api/souin.go).  An index in the storer lists, under  *)
(* SURROGATE_ and the tag, the cache keys of the responses that carry the  *)
(* tag.  A response is indexed by a goroutine that Store                   *)
(* (pkg/middleware/middleware.go) starts once the response is in the       *)
(* storer, tag by tag, each under the mutex of the provider; a purge reads *)
(* and deletes the index without that mutex, and then deletes the          *)
(* responses one by one.                                                   *)
(*                                                                         *)
(* A list in the index is a set of keys (storeTag adds none twice, and     *)
(* keys are escaped, so that the separator is none of their characters).   *)
(* The two levels of the storer are the matter of MultiLevelStorer: here a *)
(* response is stored, and deleted, in one step.  Responses are numbered   *)
(* in the order in which they are stored.  Definitions marked Faulty are   *)
(* plausible bugs, put in place of the definition below them.              *)
(***************************************************************************)
EXTENDS Integers, FiniteSets, Sequences

CONSTANTS
  Keys,        \* the varied keys of responses
  Tags,        \* surrogate keys and paths, under which keys are indexed
  NoTag,       \* the empty tag of a response or a purge without the header
  Uri,         \* the path of each key, under which it is indexed too
  Begins,      \* the tags whose index entries DeleteMany of a tag deletes
  Named,       \* the keys that DeleteMany of a tag deletes
  Matches,     \* the keys that DeleteMany of a key deletes
  Responses,   \* upstream responses: their tag headers and cache control
  PurgeLists,  \* the lists of tags that requests purge
  Kinds,       \* the kinds of requests that purge
  Storers,     \* goroutines that store a response and then its tags
  Purgers,     \* requests that purge
  Provider,    \* the configured CDN
  MaxPerBatch, \* how many tags Cloudflare is sent in one request
  KeepStale,   \* the configured strategy is not "hard"
  MaxWrites,   \* bound on the responses stored
  MaxPurges    \* bound on the purges

Headers == {"Cache-Groups", "Surrogate-Key", "Edge-Cache-Tag", "Cache-Tags", "Cache-Tag"}
CDNs == {"akamai", "cloudflare", "fastly"}

ASSUME SurrogateAssumption ==
  /\ Keys # {} /\ NoTag \in Tags
  /\ Uri \in [Keys -> Tags]
  /\ Begins \in [Tags -> SUBSET Tags] /\ Named \in [Tags -> SUBSET Keys]
  /\ Matches \in [Keys -> SUBSET Keys] /\ \A k \in Keys : k \in Matches[k]
  /\ \A c \in Responses : /\ c.tags \in [Headers -> Seq(Tags)]
                          /\ c.control \in {"none", "cacheable", "no-store"}
  /\ PurgeLists \subseteq Seq(Tags) /\ <<>> \notin PurgeLists
  /\ Kinds \subseteq {"purge", "group", "invalidate", "flush"}
  /\ Provider \in CDNs \union {"souin"}
  /\ MaxPerBatch \in Nat \ {0}
  /\ KeepStale \in BOOLEAN
  /\ MaxWrites \in Nat /\ MaxPurges \in Nat

VARIABLES
  cache,   \* the number of the response under each key, 0 for none
  index,   \* the keys listed under each tag
  writes,  \* how many responses have been stored
  tagsOf,  \* the tags each response was to be indexed under
  done,    \* the responses whose goroutine has stored all of them
  mu,      \* the goroutines that hold the mutex of the provider
  st,      \* the goroutines
  pg,      \* the purges
  purges,  \* how many have begun
  outbox,  \* the requests that the goroutine of a purge has yet to send the CDN
  told,    \* the tags the CDN was told of by a purge
  raced    \* a history: the tags of each response whose storeTag was overlapped by
           \* a purge of the tag; no action reads it

storeVars == <<writes, tagsOf, done, mu, st>>
purgeVars == <<pg, purges, outbox, told>>
vars == <<cache, index, storeVars, purgeVars, raced>>

Writes == 1..MaxWrites
Listed(s) == {s[i] : i \in DOMAIN s}

Storer == [todo : Seq(Tags), key : Keys, write : Nat, read : SUBSET Keys]
Purge == [kind : {"purge", "group", "invalidate"},
          at : {"idle", "get", "delete", "keys", "end"},
          list : Seq(Tags), todo : Seq(Tags), keys : SUBSET Keys, must : SUBSET Writes]
NoPurge == [kind |-> "purge", at |-> "idle", list |-> <<>>, todo |-> <<>>,
            keys |-> {}, must |-> {}]

Init ==
  /\ cache = [k \in Keys |-> 0]
  /\ index = [t \in Tags |-> {}]
  /\ writes = 0
  /\ tagsOf = [i \in Writes |-> {}]
  /\ done = {}
  /\ mu = {}
  /\ st = [h \in Storers |-> [todo |-> <<>>, key |-> CHOOSE k \in Keys : TRUE,
                              write |-> 0, read |-> {}]]
  /\ pg = [p \in Purgers |-> NoPurge]
  /\ purges = 0
  /\ outbox = [p \in Purgers |-> <<>>]
  /\ told = [p \in Purgers |-> {}]
  /\ raced = [i \in Writes |-> {}]

\* The tags a purge looks up.  The groups of a POST become the values of one
\* header, of which header.Get returns the first.
Surrogates(kind, list) == IF kind = "group" THEN <<Head(list)>> ELSE list

\* A purge of a tag: from its beginning to the last deletion of the tag's entry.
UnderPurge(p, t) ==
  /\ pg[p].at \notin {"idle", "end"}
  /\ t \in Listed(Surrogates(pg[p].kind, pg[p].list))
  /\ pg[p].at = "keys" => t \in Listed(pg[p].todo)

\* What a step makes of the history: who is between the Get and the Set of a tag
\* that is under purge.
Overlapping ==
  raced' = [i \in Writes |-> raced[i] \union
    {t \in Tags : /\ \E h \in mu : st[h].write = i /\ Head(st[h].todo) = t
                 /\ \E p \in Purgers : UnderPurge(p, t)}']

-----------------------------------------------------------------------------
(***************************************************************************)
(* Storing the tags of a response.                                         *)
(***************************************************************************)

\* getOrderedSurrogateKeyHeadersCandidate of each provider.
KeyHeadersCandidate ==
  CASE Provider = "cloudflare" -> <<"Cache-Tag", "Surrogate-Key">>
    [] Provider = "fastly" -> <<"Surrogate-Key">>
    [] OTHER -> <<"Cache-Groups", "Surrogate-Key", "Edge-Cache-Tag", "Cache-Tags">>

\* getSurrogateKey: the first candidate that is not empty.  ParseHeaders makes
\* one empty tag of an empty header.
SurrogateKey(tags) ==
  LET full == {i \in DOMAIN KeyHeadersCandidate : tags[KeyHeadersCandidate[i]] # <<>>} IN
  IF full = {} THEN <<NoTag>>
  ELSE tags[KeyHeadersCandidate[CHOOSE i \in full : \A j \in full : i <= j]]

\* Faulty: the arguments of the second storeTag are swapped.
TagsSwapped(k, response) ==
  LET keys == SurrogateKey(response.tags) IN
  [i \in 1..(2 * Len(keys)) |-> IF i % 2 = 1 THEN keys[(i + 1) \div 2] ELSE k]

\* The storeTag calls of baseStorage.Store: every tag and the path, unless each
\* cache control (there is one here) says no-store.
TagsToStore(k, response) ==
  LET keys == SurrogateKey(response.tags) IN
  IF response.control = "no-store" THEN <<>>
  ELSE [i \in 1..(2 * Len(keys)) |-> IF i % 2 = 1 THEN keys[(i + 1) \div 2] ELSE Uri[k]]

\* SetMultiLevel has stored the response, and Store starts the goroutine.
StoreResponse(h) ==
  /\ st[h].todo = <<>> /\ writes < MaxWrites
  /\ \E k \in Keys, response \in Responses :
       LET todo == TagsToStore(k, response) IN
       /\ cache' = [cache EXCEPT ![k] = writes + 1]
       /\ tagsOf' = [tagsOf EXCEPT ![writes + 1] = Listed(todo)]
       /\ done' = IF todo = <<>> THEN done \union {writes + 1} ELSE done
       /\ st' = [st EXCEPT ![h] = [todo |-> todo, key |-> k, write |-> writes + 1,
                                   read |-> {}]]
  /\ writes' = writes + 1
  /\ UNCHANGED <<index, mu, purgeVars, raced>>

Purging == \E p \in Purgers : pg[p].at \notin {"idle", "end"}

\* Faulty: without the mutex.
LockNothing(h) == mu' = mu \union {h}

\* s.mu.Lock().
Lock(h) == mu = {} /\ mu' = {h}

\* storeTag: the mutex, and the Get of the tag.
StoreTagGet(h) ==
  /\ st[h].todo # <<>> /\ h \notin mu
  /\ Lock(h)
  /\ st' = [st EXCEPT ![h].read = index[Head(st[h].todo)]]
  /\ UNCHANGED <<cache, index, writes, tagsOf, done, purgeVars>>
  /\ Overlapping

\* storeTag: the Set, unless the key is in the list, and the end of the mutex.
StoreTagSet(h) ==
  /\ h \in mu
  /\ LET t == Head(st[h].todo)
         k == st[h].key
     IN  index' = IF k \in st[h].read THEN index
                  ELSE [index EXCEPT ![t] = st[h].read \union {k}]
  /\ st' = [st EXCEPT ![h].todo = Tail(@), ![h].read = {}]
  /\ done' = IF Len(st[h].todo) = 1 THEN done \union {st[h].write} ELSE done
  /\ mu' = mu \ {h}
  /\ UNCHANGED <<cache, writes, tagsOf, purgeVars, raced>>

-----------------------------------------------------------------------------
(***************************************************************************)
(* Purging.                                                                *)
(***************************************************************************)

\* A PURGE or a POST of the type group; or an unsafe request whose response
\* has Cache-Group-Invalidation (Invalidate).
BeginPurge(p) ==
  /\ pg[p].at = "idle" /\ outbox[p] = <<>> /\ purges < MaxPurges
  /\ \E kind \in Kinds \ {"flush"}, list \in PurgeLists :
       pg' = [pg EXCEPT ![p] =
         [kind |-> kind, at |-> "get", list |-> list, todo |-> Surrogates(kind, list),
          keys |-> {}, must |-> {i \in done : tagsOf[i] \intersect Listed(list) # {}}]]
  /\ purges' = purges + 1
  /\ told' = [told EXCEPT ![p] = {}]
  /\ UNCHANGED <<cache, index, storeVars, outbox>>
  /\ Overlapping

\* purgeTag: the Get of a tag.  Invalidate drops what purgeTag returns.
PurgeTagGet(p) ==
  /\ pg[p].at = "get"
  /\ pg' = [pg EXCEPT ![p].at = "delete",
                      ![p].keys = IF pg[p].kind = "invalidate" THEN {}
                                  ELSE @ \union index[Head(pg[p].todo)]]
  /\ UNCHANGED <<cache, index, storeVars, purges, outbox, told, raced>>

\* Faulty: the last batch is left out when it is not full.
FullBatches(list) ==
  [b \in 1..(Len(list) \div MaxPerBatch) |->
     SubSeq(list, (b - 1) * MaxPerBatch + 1, b * MaxPerBatch)]

\* processBatches of Cloudflare.
Batches(list) ==
  [b \in 1..((Len(list) + MaxPerBatch - 1) \div MaxPerBatch) |->
     SubSeq(list, (b - 1) * MaxPerBatch + 1,
            IF b * MaxPerBatch > Len(list) THEN Len(list) ELSE b * MaxPerBatch)]

\* Fastly: one request for each tag.
FastlyRequests(list) == [i \in DOMAIN list |-> <<list[i]>>]

\* Akamai: one request for all tags.
AkamaiRequests(list) == <<list>>

\* Purge of the provider: the requests that its goroutine sends.
CdnRequests(list) ==
  CASE Provider = "cloudflare" -> Batches(list)
    [] Provider = "fastly" -> FastlyRequests(list)
    [] Provider = "akamai" -> AkamaiRequests(list)
    [] Provider = "souin" -> <<>>

\* purgeTag: the Delete of the tag, with the strategy "hard" only.  After the
\* last tag the provider starts the goroutine for the CDN.
PurgeTagDelete(p) ==
  LET t == Head(pg[p].todo)
      todo == Tail(pg[p].todo)
      api == pg[p].kind # "invalidate"
  IN
  /\ pg[p].at = "delete"
  /\ index' = IF KeepStale THEN index ELSE [index EXCEPT ![t] = {}]
  /\ pg' = [pg EXCEPT
       ![p].todo = IF todo = <<>> /\ api THEN Surrogates(pg[p].kind, pg[p].list) ELSE todo,
       ![p].at = IF todo # <<>> THEN "get" ELSE IF api THEN "keys" ELSE "end"]
  /\ outbox' = IF todo = <<>> /\ api
               THEN [outbox EXCEPT ![p] = CdnRequests(Surrogates(pg[p].kind, pg[p].list))]
               ELSE outbox
  /\ UNCHANGED <<cache, storeVars, purges, told, raced>>

\* Faulty: only the responses of one key are deleted.
DeleteFirst(p, k) == pg' = [pg EXCEPT ![p].keys = {}]

\* Keys are taken off the list of those to delete.
KeyDeleted(p, k) == pg' = [pg EXCEPT ![p].keys = @ \ {k}]

\* BulkDelete of a cache key.
BulkDeleteKey(p) ==
  /\ pg[p].at = "keys"
  /\ \E k \in pg[p].keys :
       /\ cache' = [j \in Keys |-> IF j \in Matches[k] THEN 0 ELSE cache[j]]
       /\ KeyDeleted(p, k)
  /\ UNCHANGED <<index, storeVars, purges, outbox, told, raced>>

\* BulkDelete of SURROGATE_ and the tag, or for a POST of the tag itself, whose
\* DeleteMany finds the index entry and the keys that contain it.
BulkDeleteTag(p) ==
  /\ pg[p].at = "keys" /\ pg[p].keys = {} /\ pg[p].todo # <<>>
  /\ LET t == Head(pg[p].todo) IN
     /\ index' = [u \in Tags |-> IF u \in Begins[t] THEN {} ELSE index[u]]
     /\ cache' = IF pg[p].kind = "group"
                 THEN [k \in Keys |-> IF k \in Named[t] THEN 0 ELSE cache[k]]
                 ELSE cache
  /\ pg' = [pg EXCEPT ![p].todo = Tail(@)]
  /\ UNCHANGED <<storeVars, purges, outbox, told, raced>>

\* The API answers.
PurgeAnswers(p) ==
  /\ pg[p].at = "keys" /\ pg[p].keys = {} /\ pg[p].todo = <<>>
  /\ pg' = [pg EXCEPT ![p].at = "end"]
  /\ UNCHANGED <<cache, index, storeVars, purges, outbox, told, raced>>

EndPurge(p) ==
  /\ pg[p].at = "end"
  /\ pg' = [pg EXCEPT ![p] = NoPurge]
  /\ UNCHANGED <<cache, index, storeVars, purges, outbox, told, raced>>

\* PURGE /flush: DeleteMany(".+") and Destruct, which drops the whole map.
Flush ==
  /\ "flush" \in Kinds /\ purges < MaxPurges
  /\ cache' = [k \in Keys |-> 0]
  /\ index' = [t \in Tags |-> {}]
  /\ purges' = purges + 1
  /\ UNCHANGED <<storeVars, pg, outbox, told, raced>>

\* http.Client.Do refuses a request whose RequestURI is set, as Fastly's is.
ClientSends == Provider # "fastly"

\* The goroutine of the provider sends its next request.
CdnSend(p) ==
  /\ outbox[p] # <<>>
  /\ told' = IF ClientSends
             THEN [told EXCEPT ![p] = @ \union Listed(Head(outbox[p]))] ELSE told
  /\ outbox' = [outbox EXCEPT ![p] = Tail(@)]
  /\ UNCHANGED <<cache, index, storeVars, pg, purges, raced>>

Next ==
  \/ \E h \in Storers : StoreResponse(h) \/ StoreTagGet(h) \/ StoreTagSet(h)
  \/ \E p \in Purgers : \/ BeginPurge(p) \/ PurgeTagGet(p) \/ PurgeTagDelete(p)
                        \/ BulkDeleteKey(p) \/ BulkDeleteTag(p) \/ PurgeAnswers(p)
                        \/ EndPurge(p) \/ CdnSend(p)
  \/ Flush

Spec == Init /\ [][Next]_vars

-----------------------------------------------------------------------------
(***************************************************************************)
(* Properties.                                                             *)
(***************************************************************************)

\* The type of the state.
TypeOK ==
  /\ cache \in [Keys -> 0..MaxWrites]
  /\ index \in [Tags -> SUBSET Keys]
  /\ writes \in 0..MaxWrites
  /\ tagsOf \in [Writes -> SUBSET Tags]
  /\ done \subseteq Writes
  /\ mu \subseteq Storers
  /\ st \in [Storers -> Storer]
  /\ pg \in [Purgers -> Purge]
  /\ purges \in 0..MaxPurges
  /\ outbox \in [Purgers -> Seq(Seq(Tags))]
  /\ told \in [Purgers -> SUBSET Tags]
  /\ raced \in [Writes -> SUBSET Tags]

\* A response whose goroutine has ended is listed under each of its tags, so
\* that a later purge finds it, whatever other responses are indexed and purged
\* at the same time; or a purge is about to delete it.  purgeTag and BulkDelete
\* do not take the mutex of storeTag: a tag whose storeTag was overlapped by a
\* purge of that same tag is not covered.
IndexComplete ==
  \A k \in Keys : cache[k] \in done =>
    \A t \in tagsOf[cache[k]] \ raced[cache[k]] :
      k \in index[t] \/ \E p \in Purgers : k \in pg[p].keys

\* When a purge has been answered, a response that carried one of its tags, and
\* was indexed before it began, is not in the cache any more, unless another
\* purge has taken its key and is about to delete it, or each of these tags was
\* being purged when it was stored.
PurgeReaches ==
  \A p \in Purgers : pg[p].at = "end" /\ pg[p].kind # "invalidate" =>
    \A k \in Keys : cache[k] \in pg[p].must =>
      \/ \E q \in Purgers : k \in pg[q].keys
      \/ tagsOf[cache[k]] \intersect Listed(pg[p].list) \subseteq raced[cache[k]]

\* The same without exception: "server MUST invalidate the resources associated
\* to the targeted keys if it exists" (pkg/surrogate/specification.md).
PurgeReachesAll ==
  \A p \in Purgers : pg[p].at = "end" /\ pg[p].kind # "invalidate" =>
    \A k \in Keys : cache[k] \notin pg[p].must

\* The same of an unsafe request whose response names groups to invalidate.
InvalidateReaches ==
  \A p \in Purgers : pg[p].at = "end" /\ pg[p].kind = "invalidate" =>
    \A k \in Keys : cache[k] \notin pg[p].must

\* When the goroutine of a purge has sent its requests, the CDN has been told of
\* every tag that was purged.
CdnTold ==
  \A p \in Purgers :
    pg[p].at \in {"keys", "end"} /\ pg[p].kind # "invalidate" /\ outbox[p] = <<>>
      /\ Provider # "souin"
    => Listed(Surrogates(pg[p].kind, pg[p].list)) \subseteq told[p]

\* A purge leaves no key of a response that it has deleted under another tag:
\* the table in the documentation of the package.
PurgedKeysLeaveIndex ==
  purges > 0 /\ ~Purging /\ (\A h \in Storers : st[h].todo = <<>>) =>
    \A k \in Keys, t \in Tags : k \in index[t] /\ t # Uri[k] => cache[k] # 0
=============================================================================
