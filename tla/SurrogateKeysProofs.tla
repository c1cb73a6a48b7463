-------------------------- MODULE SurrogateKeysProofs --------------------------
(* Theorems about SurrogateKeys, checked by TLAPS.                           *)
EXTENDS SurrogateKeys, SequenceTheorems, TLAPS

-----------------------------------------------------------------------------
(* Facts about the lists of tags.                                            *)

\* Taking the first tag off a list.
LEMMA ListedTail ==
  ASSUME NEW S, NEW s \in Seq(S), s # <<>>
  PROVE  /\ Head(s) \in S /\ Tail(s) \in Seq(S)
         /\ Head(s) \in Listed(s)
         /\ Listed(s) = {Head(s)} \union Listed(Tail(s))
  <1>1. /\ Len(s) \in Nat \ {0} /\ DOMAIN s = 1..Len(s) /\ Head(s) = s[1]
        /\ Tail(s) \in Seq(S) /\ Len(Tail(s)) = Len(s) - 1
        /\ \A i \in 1..(Len(s) - 1) : Tail(s)[i] = s[i + 1]
        /\ \A i \in 1..Len(s) : s[i] \in S
    OBVIOUS
  <1>2. DOMAIN Tail(s) = 1..(Len(s) - 1)
    BY <1>1
  <1>3. ASSUME NEW i \in 1..Len(s), i # 1 PROVE s[i] \in Listed(Tail(s))
    <2>1. i - 1 \in 1..(Len(s) - 1) /\ Tail(s)[i - 1] = s[i]
      BY <1>1, <1>3
    <2>. QED
      BY <1>2, <2>1 DEF Listed
  <1>4. Listed(s) \subseteq {Head(s)} \union Listed(Tail(s))
    BY <1>1, <1>3 DEF Listed
  <1>5. Listed(Tail(s)) \subseteq Listed(s)
    <2>1. ASSUME NEW i \in 1..(Len(s) - 1) PROVE Tail(s)[i] \in Listed(s)
      BY <1>1, <2>1 DEF Listed
    <2>. QED
      BY <1>2, <2>1 DEF Listed
  <1>6. Head(s) \in Listed(s)
    BY <1>1 DEF Listed
  <1>. QED
    BY <1>1, <1>4, <1>5, <1>6

\* The tail of a list of one.
LEMMA TailOfOne ==
  ASSUME NEW S, NEW s \in Seq(S), Len(s) = 1
  PROVE  Tail(s) = <<>>
  <1>1. Tail(s) \in Seq(S) /\ Len(Tail(s)) = 0
    OBVIOUS
  <1>. QED
    BY <1>1, EmptySeq

\* A list of tags lists tags, and the empty list nothing.
LEMMA ListedType ==
  /\ \A S : \A s \in Seq(S) : Listed(s) \subseteq S
  /\ Listed(<<>>) = {}
  BY DEF Listed

\* There are four candidate headers at most: the first of some exists.
LEMMA LeastOfFour ==
  ASSUME NEW F, F \subseteq 1..4, F # {}
  PROVE  \E i \in F : \A j \in F : i <= j
  <1>1. PICK x \in F : TRUE
    OBVIOUS
  <1>2. x \in {1, 2, 3, 4} /\ \A j \in F : j \in {1, 2, 3, 4}
    OBVIOUS
  <1>3. CASE 1 \in F
    BY <1>2, <1>3
  <1>4. CASE 1 \notin F /\ 2 \in F
    BY <1>2, <1>4
  <1>5. CASE 1 \notin F /\ 2 \notin F /\ 3 \in F
    BY <1>2, <1>5
  <1>6. CASE 1 \notin F /\ 2 \notin F /\ 3 \notin F
    BY <1>2, <1>6
  <1>. QED
    BY <1>3, <1>4, <1>5, <1>6

\* getSurrogateKey returns a list of tags.
LEMMA SurrogateKeyType ==
  ASSUME NEW tags \in [Headers -> Seq(Tags)]
  PROVE  SurrogateKey(tags) \in Seq(Tags)
  <1>. DEFINE full == {i \in DOMAIN KeyHeadersCandidate : tags[KeyHeadersCandidate[i]] # <<>>}
  <1>1. /\ DOMAIN KeyHeadersCandidate \subseteq 1..4
        /\ \A i \in DOMAIN KeyHeadersCandidate : KeyHeadersCandidate[i] \in Headers
    BY DEF KeyHeadersCandidate, Headers
  <1>2. CASE full = {}
    BY <1>2, SurrogateAssumption DEF SurrogateKey
  <1>3. CASE full # {}
    <2>1. full \subseteq 1..4
      BY <1>1
    <2>2. \E i \in full : \A j \in full : i <= j
      BY <1>3, <2>1, LeastOfFour
    <2>3. (CHOOSE i \in full : \A j \in full : i <= j) \in full
      <3>. HIDE DEF full
      <3>. QED
        BY <2>2
    <2>4. SurrogateKey(tags) =
            tags[KeyHeadersCandidate[CHOOSE i \in full : \A j \in full : i <= j]]
      BY <1>3 DEF SurrogateKey
    <2>. QED
      BY <1>1, <2>3, <2>4
  <1>. QED
    BY <1>2, <1>3

\* So does baseStorage.Store go through one.
LEMMA TagsToStoreType ==
  ASSUME NEW k \in Keys, NEW response \in Responses
  PROVE  TagsToStore(k, response) \in Seq(Tags)
  <1>. DEFINE keys == SurrogateKey(response.tags)
  <1>1. keys \in Seq(Tags)
    BY SurrogateKeyType, SurrogateAssumption
  <1>2. Uri[k] \in Tags
    BY SurrogateAssumption
  <1>. HIDE DEF keys
  <1>3. Len(keys) \in Nat /\ \A i \in 1..Len(keys) : keys[i] \in Tags
    BY <1>1
  <1>4. 2 * Len(keys) \in Nat
    BY <1>3
  <1>5. ASSUME NEW i \in 1..(2 * Len(keys))
        PROVE  (IF i % 2 = 1 THEN keys[(i + 1) \div 2] ELSE Uri[k]) \in Tags
    <2>1. CASE i % 2 = 1
      <3>1. (i + 1) \div 2 \in 1..Len(keys)
        BY <1>3, <2>1
      <3>. QED
        BY <1>3, <2>1, <3>1
    <2>. QED
      BY <1>2, <2>1
  <1>6. [i \in 1..(2 * Len(keys)) |-> IF i % 2 = 1 THEN keys[(i + 1) \div 2] ELSE Uri[k]]
          \in Seq(Tags)
    BY <1>4, <1>5
  <1>7. <<>> \in Seq(Tags)
    OBVIOUS
  <1>. QED
    BY <1>6, <1>7 DEF TagsToStore, keys

\* The number of batches times their size covers a list, and the last batch
\* begins within it.
LEMMA BatchBounds ==
  ASSUME NEW n \in Nat, NEW b \in 1..((n + MaxPerBatch - 1) \div MaxPerBatch)
  PROVE  (b - 1) * MaxPerBatch + 1 \in 1..n
  <1>. DEFINE q == (n + MaxPerBatch - 1) \div MaxPerBatch
  <1>1. MaxPerBatch \in Nat /\ MaxPerBatch > 0
    BY SurrogateAssumption
  <1>2. q \in Nat /\ q * MaxPerBatch <= n + MaxPerBatch - 1
    BY <1>1
  <1>. HIDE DEF q
  <1>3. b \in 1..q
    BY DEF q
  <1>4. b * MaxPerBatch <= q * MaxPerBatch
    BY <1>1, <1>2, <1>3
  <1>5. (b - 1) * MaxPerBatch = b * MaxPerBatch - MaxPerBatch
    BY <1>1, <1>3
  <1>6. (b - 1) * MaxPerBatch \in Nat
    BY <1>1, <1>3
  <1>7. b * MaxPerBatch \in Nat /\ q * MaxPerBatch \in Nat
    BY <1>1, <1>2, <1>3
  <1>. QED
    BY <1>1, <1>2, <1>4, <1>5, <1>6, <1>7

\* The requests to a CDN are lists of tags.
LEMMA CdnRequestsType ==
  ASSUME NEW list \in Seq(Tags)
  PROVE  CdnRequests(list) \in Seq(Seq(Tags))
  <1>1. Batches(list) \in Seq(Seq(Tags))
    <2>. DEFINE q == (Len(list) + MaxPerBatch - 1) \div MaxPerBatch
    <2>1. q \in Nat
      <3>1. MaxPerBatch \in Nat /\ MaxPerBatch > 0
        BY SurrogateAssumption
      <3>2. Len(list) + MaxPerBatch - 1 \in Nat
        BY <3>1
      <3>. QED
        BY <3>1, <3>2
    <2>2. ASSUME NEW b \in 1..q
          PROVE  SubSeq(list, (b - 1) * MaxPerBatch + 1,
                        IF b * MaxPerBatch > Len(list) THEN Len(list) ELSE b * MaxPerBatch)
                   \in Seq(Tags)
      <3>1. (b - 1) * MaxPerBatch + 1 \in 1..Len(list)
        BY <2>2, BatchBounds
      <3>2. b * MaxPerBatch \in Nat
        BY <2>1, SurrogateAssumption
      <3>. DEFINE m == (b - 1) * MaxPerBatch + 1
                  e == IF b * MaxPerBatch > Len(list) THEN Len(list) ELSE b * MaxPerBatch
      <3>3. m \in 1..Len(list) /\ e \in Nat /\ e <= Len(list)
        BY <3>1, <3>2
      <3>. HIDE DEF m, e
      <3>4. SubSeq(list, m, e) \in Seq(Tags)
        BY <3>3
      <3>. QED
        BY <3>4 DEF m, e
    <2>. HIDE DEF q
    <2>3. [b \in 1..q |-> SubSeq(list, (b - 1) * MaxPerBatch + 1,
             IF b * MaxPerBatch > Len(list) THEN Len(list) ELSE b * MaxPerBatch)]
            \in Seq(Seq(Tags))
      BY <2>1, <2>2
    <2>. QED
      BY <2>3 DEF Batches, q
  <1>2. FastlyRequests(list) \in Seq(Seq(Tags))
    <2>1. \A i \in 1..Len(list) : <<list[i]>> \in Seq(Tags)
      OBVIOUS
    <2>2. [i \in 1..Len(list) |-> <<list[i]>>] \in Seq(Seq(Tags))
      BY <2>1
    <2>3. DOMAIN list = 1..Len(list)
      OBVIOUS
    <2>. QED
      BY <2>2, <2>3 DEF FastlyRequests
  <1>3. AkamaiRequests(list) \in Seq(Seq(Tags))
    BY DEF AkamaiRequests
  <1>4. <<>> \in Seq(Seq(Tags))
    OBVIOUS
  <1>. QED
    BY <1>1, <1>2, <1>3, <1>4, SurrogateAssumption DEF CdnRequests, CDNs

\* What a purge looks up is a list of tags, and not empty.
LEMMA SurrogatesType ==
  ASSUME NEW kind, NEW list \in Seq(Tags), list # <<>>
  PROVE  Surrogates(kind, list) \in Seq(Tags) /\ Surrogates(kind, list) # <<>>
  BY DEF Surrogates

-----------------------------------------------------------------------------
(* Type correctness.                                                         *)

\* A purge that has begun has a list that is not empty, and so has a goroutine in
\* storeTag.
Active(p) == pg[p].at \notin {"idle", "end"}
HasList ==
  \A p \in Purgers :
    /\ Active(p) => pg[p].list # <<>>
    /\ pg[p].at \in {"get", "delete"} => pg[p].todo # <<>>
Busy ==
  /\ \A h \in mu : st[h].todo # <<>>
  /\ \A h \in Storers : st[h].todo # <<>> => st[h].write \in Writes
Types == TypeOK /\ HasList /\ Busy

\* The initial state has its types.
LEMMA InitTypes == Init => Types
  <1>1. (CHOOSE k \in Keys : TRUE) \in Keys
    BY SurrogateAssumption
  <1>2. ASSUME Init PROVE st \in [Storers -> Storer]
    BY <1>1, <1>2, SurrogateAssumption DEF Init, Storer
  <1>3. ASSUME Init PROVE Busy
    BY <1>3 DEF Init, Busy
  <1>4. ASSUME Init PROVE pg \in [Purgers -> Purge] /\ HasList
    BY <1>4 DEF Init, Purge, NoPurge, HasList, Active
  <1>. QED
    BY <1>2, <1>3, <1>4, SurrogateAssumption DEF Init, Types, TypeOK, Writes

\* So does the history.
LEMMA HistoryType ==
  ASSUME raced \in [Writes -> SUBSET Tags], Overlapping
  PROVE  raced' \in [Writes -> SUBSET Tags]
  BY DEF Overlapping

\* The goroutines keep the types.
LEMMA StorerTypes ==
  ASSUME Types, NEW h \in Storers,
         StoreResponse(h) \/ StoreTagGet(h) \/ StoreTagSet(h)
  PROVE  Types'
  <1>. USE SurrogateAssumption
  <1>1. CASE StoreResponse(h)
    <2>1. PICK k \in Keys, response \in Responses :
            LET todo == TagsToStore(k, response) IN
            /\ cache' = [cache EXCEPT ![k] = writes + 1]
            /\ tagsOf' = [tagsOf EXCEPT ![writes + 1] = Listed(todo)]
            /\ done' = IF todo = <<>> THEN done \union {writes + 1} ELSE done
            /\ st' = [st EXCEPT ![h] = [todo |-> todo, key |-> k, write |-> writes + 1,
                                        read |-> {}]]
      BY <1>1 DEF StoreResponse
    <2>2. /\ TagsToStore(k, response) \in Seq(Tags)
          /\ Listed(TagsToStore(k, response)) \subseteq Tags
      BY TagsToStoreType, ListedType
    <2>3. writes' = writes + 1 /\ writes' \in Writes /\ UNCHANGED <<index, mu, purgeVars, raced>>
      BY <1>1 DEF StoreResponse, Types, TypeOK, Writes
    <2>4. st' \in [Storers -> Storer]
      BY <2>1, <2>2, <2>3 DEF Types, TypeOK, Storer, Writes
    <2>5. /\ cache' \in [Keys -> 0..MaxWrites] /\ writes' \in 0..MaxWrites
          /\ tagsOf' \in [Writes -> SUBSET Tags] /\ done' \subseteq Writes
      BY <2>1, <2>2, <2>3 DEF Types, TypeOK, Writes
    <2>6. Busy'
      BY <1>1, <2>1, <2>3 DEF StoreResponse, Types, TypeOK, Busy
    <2>. QED
      BY <2>3, <2>4, <2>5, <2>6 DEF Types, TypeOK, HasList, Active, purgeVars
  <1>2. CASE StoreTagGet(h)
    <2>1. Head(st[h].todo) \in Tags
      BY <1>2, ListedTail DEF StoreTagGet, Types, TypeOK, Storer
    <2>2. st' \in [Storers -> Storer]
      <3>1. st \in [Storers -> Storer] /\ index[Head(st[h].todo)] \in SUBSET Keys
        BY <2>1 DEF Types, TypeOK
      <3>2. \A x \in Storer, ks \in SUBSET Keys : [x EXCEPT !.read = ks] \in Storer
        BY DEF Storer
      <3>3. st' = [st EXCEPT ![h] = [st[h] EXCEPT !.read = index[Head(st[h].todo)]]]
        BY <1>2, <3>1 DEF StoreTagGet
      <3>. QED
        BY <3>1, <3>2, <3>3
    <2>3. mu' \subseteq Storers
      BY <1>2 DEF StoreTagGet, Lock
    <2>4. Busy'
      BY <1>2 DEF StoreTagGet, Lock, Types, TypeOK, Busy, Storer
    <2>5. raced' \in [Writes -> SUBSET Tags]
      BY <1>2, HistoryType DEF StoreTagGet, Types, TypeOK
    <2>. QED
      BY <1>2, <2>2, <2>3, <2>4, <2>5
         DEF StoreTagGet, Types, TypeOK, HasList, Active, purgeVars
  <1>3. CASE StoreTagSet(h)
    <2>1. /\ st[h].todo \in Seq(Tags) /\ st[h].todo # <<>> /\ Head(st[h].todo) \in Tags
          /\ Tail(st[h].todo) \in Seq(Tags) /\ st[h].key \in Keys /\ st[h].read \subseteq Keys
      BY <1>3, ListedTail DEF StoreTagSet, Types, TypeOK, Storer, Busy
    <2>2. /\ st' \in [Storers -> Storer]
          /\ st'[h].write = st[h].write
          /\ \A g \in Storers \ {h} : st'[g] = st[g]
      <3>1. st[h] \in Storer
        BY DEF Types, TypeOK
      <3>. DEFINE new == [st[h] EXCEPT !.todo = Tail(st[h].todo), !.read = {}]
      <3>2. new \in Storer /\ new.write = st[h].write
        BY <2>1, <3>1 DEF Storer
      <3>3. st' = [st EXCEPT ![h] = new]
        BY <1>3 DEF StoreTagSet
      <3>. QED
        BY <3>2, <3>3 DEF Types, TypeOK
    <2>3. index' \in [Tags -> SUBSET Keys]
      BY <1>3, <2>1 DEF StoreTagSet, Types, TypeOK
    <2>4. done' \subseteq Writes
      BY <1>3, <2>1 DEF StoreTagSet, Types, TypeOK, Busy
    <2>5. mu' \subseteq Storers /\ Busy'
      <3>1. mu' = mu \ {h} /\ st[h].write \in Writes
        BY <1>3, <2>1 DEF StoreTagSet, Types, Busy
      <3>. QED
        BY <2>2, <3>1 DEF Types, TypeOK, Busy, Writes
    <2>. QED
      BY <1>3, <2>2, <2>3, <2>4, <2>5
         DEF StoreTagSet, Types, TypeOK, HasList, Active, purgeVars
  <1>. QED
    BY <1>1, <1>2, <1>3

\* So do the purges.
LEMMA PurgerTypes ==
  ASSUME Types, NEW p \in Purgers,
         \/ BeginPurge(p) \/ PurgeTagGet(p) \/ PurgeTagDelete(p)
         \/ BulkDeleteKey(p) \/ BulkDeleteTag(p) \/ PurgeAnswers(p)
         \/ EndPurge(p) \/ CdnSend(p)
  PROVE  Types'
  <1>. USE SurrogateAssumption
  <1>0. pg[p] \in Purge
    BY DEF Types, TypeOK
  <1>1. ASSUME NEW new \in Purge, pg' = [pg EXCEPT ![p] = new],
               new.at \notin {"idle", "end"} => new.list # <<>>,
               new.at \in {"get", "delete"} => new.todo # <<>>
        PROVE  pg' \in [Purgers -> Purge] /\ HasList'
    BY <1>1 DEF Types, TypeOK, HasList, Active
  <1>2. CASE BeginPurge(p)
    <2>1. PICK kind \in Kinds \ {"flush"}, list \in PurgeLists :
            pg' = [pg EXCEPT ![p] =
              [kind |-> kind, at |-> "get", list |-> list,
               todo |-> Surrogates(kind, list), keys |-> {},
               must |-> {i \in done : tagsOf[i] \intersect Listed(list) # {}}]]
      BY <1>2 DEF BeginPurge
    <2>. DEFINE new == [kind |-> kind, at |-> "get", list |-> list,
               todo |-> Surrogates(kind, list), keys |-> {},
               must |-> {i \in done : tagsOf[i] \intersect Listed(list) # {}}]
    <2>2. /\ list \in Seq(Tags) /\ list # <<>>
          /\ Surrogates(kind, list) \in Seq(Tags) /\ Surrogates(kind, list) # <<>>
      BY SurrogatesType
    <2>3. new \in Purge
      BY <2>2 DEF Purge, Types, TypeOK
    <2>4. pg' \in [Purgers -> Purge] /\ HasList'
      BY <1>1, <2>1, <2>2, <2>3
    <2>5. raced' \in [Writes -> SUBSET Tags]
      BY <1>2, HistoryType DEF BeginPurge, Types, TypeOK
    <2>. QED
      BY <1>2, <2>4, <2>5 DEF BeginPurge, Types, TypeOK, Busy, storeVars
  <1>3. CASE PurgeTagGet(p)
    <2>. DEFINE new == [pg[p] EXCEPT !.at = "delete",
                          !.keys = IF pg[p].kind = "invalidate" THEN {}
                                   ELSE @ \union index[Head(pg[p].todo)]]
    <2>1. Head(pg[p].todo) \in Tags /\ pg[p].todo # <<>> /\ pg[p].list # <<>>
      BY <1>0, <1>3, ListedTail DEF PurgeTagGet, Types, HasList, Active, Purge
    <2>2. index[Head(pg[p].todo)] \subseteq Keys
      BY <2>1 DEF Types, TypeOK
    <2>3. new \in Purge /\ new.list = pg[p].list /\ new.todo = pg[p].todo
      BY <1>0, <2>2 DEF Purge
    <2>4. pg' = [pg EXCEPT ![p] = new]
      BY <1>3 DEF PurgeTagGet
    <2>5. pg' \in [Purgers -> Purge] /\ HasList'
      BY <1>1, <2>1, <2>3, <2>4
    <2>. QED
      BY <1>3, <2>5 DEF PurgeTagGet, Types, TypeOK, Busy, storeVars
  <1>4. CASE PurgeTagDelete(p)
    <2>. DEFINE todo == Tail(pg[p].todo)
                api == pg[p].kind # "invalidate"
                new == [pg[p] EXCEPT
                  !.todo = IF todo = <<>> /\ api
                           THEN Surrogates(pg[p].kind, pg[p].list) ELSE todo,
                  !.at = IF todo # <<>> THEN "get" ELSE IF api THEN "keys" ELSE "end"]
    <2>1. /\ todo \in Seq(Tags) /\ pg[p].todo # <<>> /\ pg[p].list # <<>>
          /\ pg[p].list \in Seq(Tags)
      BY <1>0, <1>4, ListedTail DEF PurgeTagDelete, Types, HasList, Active, Purge
    <2>2. Surrogates(pg[p].kind, pg[p].list) \in Seq(Tags)
      BY <2>1, SurrogatesType
    <2>3. /\ new \in Purge /\ new.list = pg[p].list
          /\ new.at \in {"get", "delete"} => new.todo # <<>>
      BY <1>0, <2>1, <2>2 DEF Purge
    <2>4. pg' = [pg EXCEPT ![p] = new]
      BY <1>4 DEF PurgeTagDelete
    <2>5. pg' \in [Purgers -> Purge] /\ HasList'
      <3>. HIDE DEF new
      <3>. QED
        BY <1>1, <2>1, <2>3, <2>4
    <2>6. outbox' \in [Purgers -> Seq(Seq(Tags))]
      BY <1>4, <2>2, CdnRequestsType DEF PurgeTagDelete, Types, TypeOK
    <2>7. index' \in [Tags -> SUBSET Keys]
      BY <1>4 DEF PurgeTagDelete, Types, TypeOK
    <2>. QED
      BY <1>4, <2>5, <2>6, <2>7 DEF PurgeTagDelete, Types, TypeOK, Busy, storeVars
  <1>5. CASE BulkDeleteKey(p)
    <2>1. PICK k \in pg[p].keys :
            /\ cache' = [j \in Keys |-> IF j \in Matches[k] THEN 0 ELSE cache[j]]
            /\ pg' = [pg EXCEPT ![p].keys = @ \ {k}]
      BY <1>5 DEF BulkDeleteKey, KeyDeleted
    <2>. DEFINE new == [pg[p] EXCEPT !.keys = @ \ {k}]
    <2>2. /\ new \in Purge /\ new.list = pg[p].list /\ new.todo = pg[p].todo
          /\ new.at = pg[p].at
      BY <1>0 DEF Purge
    <2>3. pg' = [pg EXCEPT ![p] = new]
      BY <2>1
    <2>4. pg' \in [Purgers -> Purge] /\ HasList'
      BY <1>1, <2>2, <2>3 DEF Types, HasList, Active
    <2>5. cache' \in [Keys -> 0..MaxWrites]
      BY <2>1 DEF Types, TypeOK
    <2>. QED
      BY <1>5, <2>4, <2>5 DEF BulkDeleteKey, Types, TypeOK, Busy, storeVars
  <1>6. CASE BulkDeleteTag(p)
    <2>. DEFINE new == [pg[p] EXCEPT !.todo = Tail(@)]
    <2>1. Tail(pg[p].todo) \in Seq(Tags)
      BY <1>0, <1>6, ListedTail DEF BulkDeleteTag, Purge
    <2>2. /\ new \in Purge /\ new.list = pg[p].list /\ new.at = "keys"
          /\ pg[p].at = "keys"
      BY <1>0, <1>6, <2>1 DEF Purge, BulkDeleteTag
    <2>3. pg' = [pg EXCEPT ![p] = new]
      BY <1>6 DEF BulkDeleteTag
    <2>4. pg' \in [Purgers -> Purge] /\ HasList'
      BY <1>1, <2>2, <2>3 DEF Types, HasList, Active
    <2>5. cache' \in [Keys -> 0..MaxWrites] /\ index' \in [Tags -> SUBSET Keys]
      BY <1>6 DEF BulkDeleteTag, Types, TypeOK
    <2>. QED
      BY <1>6, <2>4, <2>5 DEF BulkDeleteTag, Types, TypeOK, Busy, storeVars
  <1>7. CASE PurgeAnswers(p)
    <2>. DEFINE new == [pg[p] EXCEPT !.at = "end"]
    <2>1. new \in Purge /\ new.at = "end"
      BY <1>0 DEF Purge
    <2>2. pg' = [pg EXCEPT ![p] = new]
      BY <1>7 DEF PurgeAnswers
    <2>3. pg' \in [Purgers -> Purge] /\ HasList'
      BY <1>1, <2>1, <2>2
    <2>. QED
      BY <1>7, <2>3 DEF PurgeAnswers, Types, TypeOK, Busy, storeVars
  <1>8. CASE EndPurge(p)
    <2>1. NoPurge \in Purge /\ NoPurge.at = "idle"
      BY DEF NoPurge, Purge
    <2>2. pg' \in [Purgers -> Purge] /\ HasList'
      BY <1>1, <1>8, <2>1 DEF EndPurge
    <2>. QED
      BY <1>8, <2>2 DEF EndPurge, Types, TypeOK, Busy, storeVars
  <1>9. CASE CdnSend(p)
    <2>1. /\ outbox[p] \in Seq(Seq(Tags)) /\ outbox[p] # <<>>
      BY <1>9 DEF CdnSend, Types, TypeOK
    <2>2. Head(outbox[p]) \in Seq(Tags) /\ Tail(outbox[p]) \in Seq(Seq(Tags))
      BY <2>1, ListedTail
    <2>3. Listed(Head(outbox[p])) \subseteq Tags
      BY <2>2, ListedType
    <2>4. /\ outbox' \in [Purgers -> Seq(Seq(Tags))]
          /\ told' \in [Purgers -> SUBSET Tags]
      BY <1>9, <2>2, <2>3 DEF CdnSend, Types, TypeOK
    <2>. QED
      BY <1>9, <2>4 DEF CdnSend, Types, TypeOK, HasList, Active, Busy, storeVars
  <1>. QED
    BY <1>2, <1>3, <1>4, <1>5, <1>6, <1>7, <1>8, <1>9

\* Every step keeps the types.
LEMMA TypesStep ==
  ASSUME Types, [Next]_vars
  PROVE  Types'
  <1>1. CASE Flush
    BY <1>1, SurrogateAssumption
       DEF Flush, Types, TypeOK, HasList, Active, Busy, storeVars
  <1>2. CASE UNCHANGED vars
    BY <1>2 DEF vars, storeVars, purgeVars, Types, TypeOK, HasList, Active, Busy
  <1>. QED
    BY <1>1, <1>2, StorerTypes, PurgerTypes DEF Next

\* The index, the responses and the purges keep their types.
THEOREM SurrogateTypeCorrect == Spec => []TypeOK
  <1>1. Types => TypeOK
    BY DEF Types
  <1>. QED
    BY <1>1, InitTypes, TypesStep, PTL DEF Spec

-----------------------------------------------------------------------------
(***************************************************************************)
(* The inductive invariant.  A tag of a response that is in the cache is   *)
(* in the index, or safe: a purge is going to delete the response, or the  *)
(* tag was stored while it was being purged, or the goroutine of the       *)
(* response has yet to store it.  To keep that, a purge may delete an      *)
(* index entry only when all that carries the tag is safe; and storeTag    *)
(* may write back what it has read because other goroutines wait for the   *)
(* mutex and purges only take entries away.                                *)
(***************************************************************************)

\* What the theorems assume of the names and of the strategy: no purge of a tag
\* deletes the index entry of another, and only an index that purges keep is left
\* to Invalidate.
Orderly ==
  /\ \A t \in Tags : Begins[t] = {t}
  /\ "invalidate" \in Kinds => KeepStale

Carries(k, t) == cache[k] # 0 /\ t \in tagsOf[cache[k]]

\* The goroutine of the response under k has yet to store t.
Pending(k, t) ==
  \E h \in Storers : st[h].key = k /\ st[h].write = cache[k] /\ t \in Listed(st[h].todo)

Taken(k, t) == (\E p \in Purgers : k \in pg[p].keys) \/ t \in raced[cache[k]]
Safe(k, t) == Taken(k, t) \/ Pending(k, t)

\* Every response has a number of its own, and a goroutine at most.
Numbering ==
  /\ \A k \in Keys : cache[k] <= writes
  /\ \A i \in done : i <= writes
  /\ \A h \in Storers : st[h].write <= writes
  /\ \A h \in Storers : st[h].todo # <<>> => st[h].write \notin done
  /\ \A g, h \in Storers : st[g].write = st[h].write /\ st[g].write # 0 => g = h

\* storeTag has read what the index has, and perhaps more if the tag was purged
\* in between.
Reading(h) ==
  LET t == Head(st[h].todo)
      k == st[h].key
  IN
  /\ index[t] \subseteq st[h].read
  /\ k \in st[h].read /\ cache[k] = st[h].write =>
       k \in index[t] \/ t \in raced[st[h].write]
  /\ \A p \in Purgers : UnderPurge(p, t) => t \in raced[st[h].write]
Mutex == \A h \in mu : mu = {h} /\ Reading(h)

\* A purge has keys to delete while it is at work, and looks up tags of its list.
PurgeShape ==
  \A p \in Purgers :
    /\ ~Active(p) => pg[p].keys = {}
    /\ Active(p) => /\ pg[p].kind \in Kinds
                    /\ Listed(pg[p].todo) \subseteq Listed(Surrogates(pg[p].kind, pg[p].list))
    /\ pg[p].kind = "invalidate" => pg[p].keys = {} /\ pg[p].at # "keys"

\* The tags a purge has looked up, and those of them whose entry it may delete.
LookedUp(p) ==
  {t \in Listed(Surrogates(pg[p].kind, pg[p].list)) :
     \/ pg[p].at \in {"keys", "end"}
     \/ pg[p].at \in {"get", "delete"} /\ t \notin Listed(pg[p].todo)
     \/ pg[p].at = "delete" /\ t = Head(pg[p].todo)}
Due(p) == {t \in LookedUp(p) : UnderPurge(p, t)}

SafeBefore ==
  \A p \in Purgers : pg[p].kind # "invalidate" =>
    \A t \in Due(p), k \in Keys : Carries(k, t) => Safe(k, t)

AllCovered ==
  \A k \in Keys, t \in Tags : Carries(k, t) => k \in index[t] \/ Safe(k, t)

IndexInv ==
  /\ Types
  /\ Numbering
  /\ Mutex
  /\ PurgeShape
  /\ SafeBefore
  /\ AllCovered

\* It holds of an empty cache.
LEMMA InitIndexInv == Init => IndexInv
  <1>. SUFFICES ASSUME Init PROVE IndexInv
    OBVIOUS
  <1>1. Types
    BY InitTypes
  <1>2. Numbering
    BY <1>1 DEF Init, Numbering
  <1>3. Mutex /\ PurgeShape
    BY DEF Init, Mutex, PurgeShape, Active, NoPurge
  <1>4. SafeBefore /\ AllCovered
    BY DEF Init, SafeBefore, AllCovered, Carries
  <1>. QED
    BY <1>1, <1>2, <1>3, <1>4 DEF IndexInv

\* A response whose goroutine has ended has no tag left to store.
LEMMA DoneIsStored ==
  ASSUME IndexInv, NEW k \in Keys, cache[k] \in done, NEW t \in tagsOf[cache[k]]
  PROVE  t \in Tags /\ Carries(k, t) /\ ~Pending(k, t) /\ (k \in index[t] \/ Taken(k, t))
  <1>1. cache[k] # 0 /\ cache[k] \in Writes
    BY DEF IndexInv, Types, TypeOK, Writes
  <1>2. t \in Tags /\ Carries(k, t)
    BY <1>1 DEF IndexInv, Types, TypeOK, Carries
  <1>3. ~Pending(k, t)
    BY ListedType DEF IndexInv, Pending, Numbering
  <1>. QED
    BY <1>2, <1>3 DEF IndexInv, AllCovered, Safe

LEMMA IndexInvComplete == IndexInv => IndexComplete
  BY DoneIsStored DEF IndexComplete, Taken

\* The history only grows, and notes who is between Get and Set.
LEMMA HistoryGrows ==
  ASSUME Overlapping
  PROVE  /\ \A i \in Writes : raced[i] \subseteq raced'[i]
         /\ \A h \in mu', p \in Purgers, t \in Tags :
              st'[h].write \in Writes /\ Head(st'[h].todo) = t /\ UnderPurge(p, t)' =>
                t \in raced'[st'[h].write]
  <1>1. ASSUME NEW i \in Writes
        PROVE  raced'[i] = raced[i] \union
                 {t \in Tags : /\ \E h \in mu' : st'[h].write = i /\ Head(st'[h].todo) = t
                              /\ \E p \in Purgers : UnderPurge(p, t)'}
    BY <1>1 DEF Overlapping
  <1>. QED
    BY <1>1

\* A purge that goes on, or ends, covers no more than before.
LEMMA UnderPurgeShrinks ==
  ASSUME Types, NEW p \in Purgers,
         \/ pg'[p] = pg[p]
         \/ PurgeTagGet(p) \/ PurgeTagDelete(p) \/ BulkDeleteKey(p) \/ BulkDeleteTag(p)
         \/ PurgeAnswers(p) \/ EndPurge(p) \/ CdnSend(p)
  PROVE  \A t : UnderPurge(p, t)' => UnderPurge(p, t)
  <1>. SUFFICES ASSUME NEW t, UnderPurge(p, t)' PROVE UnderPurge(p, t)
    OBVIOUS
  <1>0. pg[p] \in Purge
    BY DEF Types, TypeOK
  <1>1. CASE pg'[p] = pg[p] \/ CdnSend(p)
    BY <1>1 DEF UnderPurge, CdnSend
  <1>2. CASE PurgeTagGet(p) \/ PurgeTagDelete(p)
    <2>1. /\ pg[p].at \in {"get", "delete"}
          /\ pg'[p].kind = pg[p].kind /\ pg'[p].list = pg[p].list
      BY <1>0, <1>2 DEF PurgeTagGet, PurgeTagDelete, Types, TypeOK, Purge
    <2>. QED
      BY <2>1 DEF UnderPurge
  <1>3. CASE BulkDeleteKey(p)
    <2>1. /\ pg'[p].kind = pg[p].kind /\ pg'[p].list = pg[p].list
          /\ pg'[p].at = pg[p].at /\ pg'[p].todo = pg[p].todo
      BY <1>0, <1>3 DEF BulkDeleteKey, KeyDeleted, Types, TypeOK, Purge
    <2>. QED
      BY <2>1 DEF UnderPurge
  <1>4. CASE BulkDeleteTag(p)
    <2>1. /\ pg'[p].kind = pg[p].kind /\ pg'[p].list = pg[p].list /\ pg[p].at = "keys"
          /\ pg'[p].at = pg[p].at /\ pg'[p].todo = Tail(pg[p].todo)
      BY <1>0, <1>4 DEF BulkDeleteTag, Types, TypeOK, Purge
    <2>2. Listed(Tail(pg[p].todo)) \subseteq Listed(pg[p].todo)
      BY <1>0, <1>4, ListedTail DEF BulkDeleteTag, Purge
    <2>. QED
      BY <2>1, <2>2 DEF UnderPurge
  <1>5. CASE PurgeAnswers(p) \/ EndPurge(p)
    <2>1. pg'[p].at \in {"idle", "end"}
      BY <1>0, <1>5 DEF PurgeAnswers, EndPurge, NoPurge, Types, TypeOK, Purge
    <2>. QED
      BY <2>1 DEF UnderPurge
  <1>. QED
    BY <1>1, <1>2, <1>3, <1>4, <1>5

-----------------------------------------------------------------------------
(* The goroutines keep the invariant. *)

\* A response that is stored has all its tags yet to store.
LEMMA StoreResponseKeeps ==
  ASSUME IndexInv, NEW h \in Storers, StoreResponse(h)
  PROVE  IndexInv'
  <1>. USE SurrogateAssumption
  <1>1. Types'
    BY StorerTypes DEF IndexInv
  <1>2. PICK k \in Keys, response \in Responses :
          LET todo == TagsToStore(k, response) IN
          /\ cache' = [cache EXCEPT ![k] = writes + 1]
          /\ tagsOf' = [tagsOf EXCEPT ![writes + 1] = Listed(todo)]
          /\ done' = IF todo = <<>> THEN done \union {writes + 1} ELSE done
          /\ st' = [st EXCEPT ![h] = [todo |-> todo, key |-> k, write |-> writes + 1,
                                      read |-> {}]]
    BY DEF StoreResponse
  <1>. DEFINE todo == TagsToStore(k, response)
  <1>3. /\ writes' = writes + 1 /\ writes \in Nat /\ writes + 1 \in Writes
        /\ UNCHANGED <<index, mu, pg, raced>> /\ st[h].todo = <<>>
    BY DEF StoreResponse, IndexInv, Types, TypeOK, Writes, purgeVars
  <1>4. /\ cache'[k] = writes + 1 /\ tagsOf'[writes + 1] = Listed(todo)
        /\ st'[h].todo = todo /\ st'[h].key = k /\ st'[h].write = writes + 1
        /\ \A g \in Storers \ {h} : st'[g] = st[g]
        /\ \A j \in Keys \ {k} : cache'[j] = cache[j]
        /\ \A i \in Writes \ {writes + 1} : tagsOf'[i] = tagsOf[i]
        /\ done' \subseteq done \union {writes + 1}
        /\ todo # <<>> => done' = done
    BY <1>2, <1>3 DEF IndexInv, Types, TypeOK
  <1>. HIDE DEF todo
  <1>5. h \notin mu
    BY <1>3 DEF IndexInv, Types, Busy
  <1>6. Numbering'
    <2>1. /\ \A j \in Keys : cache[j] \in Nat /\ cache[j] <= writes
          /\ \A g \in Storers : st[g].write \in Nat /\ st[g].write <= writes
          /\ \A i \in done : i \in Nat /\ i <= writes
      BY DEF IndexInv, Numbering, Types, TypeOK, Writes, Storer
    <2>2. \A j \in Keys : cache'[j] <= writes'
      BY <1>3, <1>4, <2>1
    <2>3. \A i \in done' : i <= writes'
      BY <1>3, <1>4, <2>1
    <2>4. \A g \in Storers : st'[g].write <= writes'
      BY <1>3, <1>4, <2>1
    <2>5. \A g \in Storers : st'[g].todo # <<>> => st'[g].write \notin done'
      BY <1>3, <1>4, <2>1 DEF IndexInv, Numbering
    <2>6. \A f, g \in Storers : st'[f].write = st'[g].write /\ st'[f].write # 0 => f = g
      BY <1>3, <1>4, <2>1 DEF IndexInv, Numbering
    <2>. QED
      BY <2>2, <2>3, <2>4, <2>5, <2>6 DEF Numbering
  <1>7. Mutex'
    <2>. SUFFICES ASSUME NEW g \in mu PROVE mu = {g} /\ Reading(g)'
      BY <1>3 DEF Mutex
    <2>1. g \in Storers /\ g # h /\ st'[g] = st[g]
      BY <1>4, <1>5 DEF IndexInv, Types, TypeOK
    <2>2. mu = {g} /\ Reading(g)
      BY DEF IndexInv, Mutex
    <2>3. st[g].key \in Keys /\ st[g].write \in Nat /\ st[g].write <= writes
      BY <2>1 DEF IndexInv, Types, TypeOK, Storer, Writes, Numbering
    <2>4. cache'[st[g].key] = st[g].write => cache[st[g].key] = st[g].write
      BY <1>3, <1>4, <2>3
    <2>5. \A p, t : UnderPurge(p, t)' <=> UnderPurge(p, t)
      BY <1>3 DEF UnderPurge
    <2>. QED
      BY <1>3, <2>1, <2>2, <2>4, <2>5 DEF Reading
  <1>8. PurgeShape'
    BY <1>3 DEF IndexInv, PurgeShape, Active
  <1>9. \A t : Carries(k, t)' => Safe(k, t)'
    BY <1>4 DEF Carries, Safe, Pending
  <1>10. ASSUME NEW j \in Keys, j # k, NEW t, Carries(j, t)'
         PROVE  Carries(j, t) /\ (Safe(j, t) => Safe(j, t)')
    <2>1. cache'[j] = cache[j] /\ cache[j] # 0 /\ cache[j] # writes + 1 /\ cache[j] \in Writes
      BY <1>3, <1>4, <1>10 DEF IndexInv, Numbering, Types, TypeOK, Carries, Writes
    <2>2. Carries(j, t)
      BY <1>4, <1>10, <2>1 DEF Carries
    <2>3. Taken(j, t) => Taken(j, t)'
      BY <1>3, <2>1 DEF Taken
    <2>4. ASSUME Pending(j, t) PROVE Pending(j, t)'
      <3>1. PICK g \in Storers : /\ st[g].key = j /\ st[g].write = cache[j]
                                 /\ t \in Listed(st[g].todo)
        BY <2>4 DEF Pending
      <3>2. g # h
        BY <1>3, <3>1, ListedType
      <3>. QED
        BY <1>4, <2>1, <3>1, <3>2 DEF Pending
    <2>. QED
      BY <2>2, <2>3, <2>4 DEF Safe
  <1>11. \A p : LookedUp(p)' = LookedUp(p) /\ Due(p)' = Due(p)
    BY <1>3 DEF LookedUp, Due, UnderPurge
  <1>12. SafeBefore'
    BY <1>3, <1>9, <1>10, <1>11 DEF IndexInv, SafeBefore
  <1>13. AllCovered'
    BY <1>3, <1>9, <1>10 DEF IndexInv, AllCovered
  <1>. QED
    BY <1>1, <1>6, <1>7, <1>8, <1>12, <1>13 DEF IndexInv

\* storeTag has the mutex from its Get on, and the history knows the purges of
\* the tag that are under way.
LEMMA StoreTagGetKeeps ==
  ASSUME IndexInv, NEW h \in Storers, StoreTagGet(h)
  PROVE  IndexInv'
  <1>. DEFINE t0 == Head(st[h].todo)
  <1>1. Types'
    BY StorerTypes DEF IndexInv
  <1>2. /\ UNCHANGED <<cache, index, writes, tagsOf, done, pg>>
        /\ mu' = {h} /\ Overlapping /\ st[h].todo # <<>>
    BY DEF StoreTagGet, Lock, purgeVars
  <1>3. /\ st'[h].read = index[t0]
        /\ \A g \in Storers : /\ st'[g].todo = st[g].todo /\ st'[g].key = st[g].key
                              /\ st'[g].write = st[g].write
    BY DEF StoreTagGet, IndexInv, Types, TypeOK, Storer
  <1>4. t0 \in Tags /\ st[h].write \in Writes
    BY <1>2, ListedTail DEF IndexInv, Types, TypeOK, Storer, Busy
  <1>5. /\ \A i \in Writes : raced[i] \subseteq raced'[i]
        /\ \A p \in Purgers : UnderPurge(p, t0)' => t0 \in raced'[st[h].write]
    <2>1. Head(st'[h].todo) = t0 /\ st'[h].write = st[h].write /\ h \in mu'
      BY <1>2, <1>3
    <2>. QED
      BY <1>2, <1>4, <2>1, HistoryGrows
  <1>6. Numbering'
    BY <1>2, <1>3 DEF IndexInv, Numbering
  <1>7. Mutex'
    BY <1>2, <1>3, <1>5 DEF Mutex, Reading
  <1>8. PurgeShape'
    BY <1>2 DEF IndexInv, PurgeShape, Active
  <1>9. ASSUME NEW k \in Keys, NEW t, Carries(k, t)'
        PROVE  Carries(k, t) /\ (Safe(k, t) => Safe(k, t)')
    <2>1. Carries(k, t) /\ cache[k] \in Writes
      BY <1>2, <1>9 DEF Carries, IndexInv, Types, TypeOK, Writes
    <2>2. Taken(k, t) => Taken(k, t)'
      BY <1>2, <1>5, <2>1 DEF Taken
    <2>3. Pending(k, t) => Pending(k, t)'
      BY <1>2, <1>3 DEF Pending
    <2>. QED
      BY <2>1, <2>2, <2>3 DEF Safe
  <1>10. \A p : Due(p)' = Due(p)
    BY <1>2 DEF LookedUp, Due, UnderPurge
  <1>11. SafeBefore' /\ AllCovered'
    BY <1>2, <1>9, <1>10 DEF IndexInv, SafeBefore, AllCovered
  <1>. QED
    BY <1>1, <1>6, <1>7, <1>8, <1>11 DEF IndexInv

\* The Set of storeTag adds a key to the index and loses none.
LEMMA StoreTagSetKeeps ==
  ASSUME IndexInv, NEW h \in Storers, StoreTagSet(h)
  PROVE  IndexInv'
  <1>. DEFINE t0 == Head(st[h].todo)
              k0 == st[h].key
  <1>1. Types'
    BY StorerTypes DEF IndexInv
  <1>2. /\ UNCHANGED <<cache, writes, tagsOf, pg, raced>> /\ h \in mu /\ mu' = mu \ {h}
    BY DEF StoreTagSet, purgeVars
  <1>3. /\ st[h].todo \in Seq(Tags) /\ st[h].todo # <<>> /\ k0 \in Keys
        /\ t0 \in Tags /\ Listed(st[h].todo) = {t0} \union Listed(Tail(st[h].todo))
        /\ st[h].write \in Writes
    BY <1>2, ListedTail DEF IndexInv, Types, TypeOK, Storer, Busy
  <1>4. mu' = {} /\ Reading(h)
    BY <1>2 DEF IndexInv, Mutex
  <1>5. /\ st'[h].todo = Tail(st[h].todo)
        /\ \A g \in Storers : st'[g].key = st[g].key /\ st'[g].write = st[g].write
        /\ \A g \in Storers \ {h} : st'[g].todo = st[g].todo
    BY DEF StoreTagSet, IndexInv, Types, TypeOK, Storer
  <1>6. /\ k0 \in index'[t0] \/ t0 \in raced[st[h].write] \/ cache[k0] # st[h].write
        /\ \A t \in Tags : index[t] \subseteq index'[t]
    <2>1. index[t0] \subseteq st[h].read
      BY <1>4 DEF Reading
    <2>2. CASE k0 \in st[h].read
      <3>1. index' = index
        BY <2>2 DEF StoreTagSet
      <3>. QED
        BY <1>4, <2>2, <3>1 DEF Reading
    <2>3. CASE k0 \notin st[h].read
      <3>1. index' = [index EXCEPT ![t0] = st[h].read \union {k0}]
        BY <2>3 DEF StoreTagSet
      <3>. QED
        BY <1>3, <2>1, <3>1 DEF IndexInv, Types, TypeOK
    <2>. QED
      BY <2>2, <2>3
  <1>7. Numbering'
    <2>1. /\ done' \subseteq done \union {st[h].write}
          /\ st'[h].todo # <<>> => done' = done
      <3>1. Len(st[h].todo) = 1 => Tail(st[h].todo) = <<>>
        BY <1>3, TailOfOne
      <3>. QED
        BY <1>5, <3>1 DEF StoreTagSet
    <2>2. \A i \in done' : i <= writes'
      BY <1>2, <2>1 DEF IndexInv, Numbering
    <2>3. ASSUME NEW g \in Storers, st'[g].todo # <<>> PROVE st'[g].write \notin done'
      <3>1. CASE g = h
        BY <1>3, <1>5, <2>1, <2>3, <3>1 DEF IndexInv, Numbering
      <3>2. CASE g # h
        <4>1. st[g].write # st[h].write
          <5>1. st[h].write # 0
            BY <1>3, SurrogateAssumption DEF Writes
          <5>. QED
            BY <3>2, <5>1 DEF IndexInv, Numbering
        <4>. QED
          BY <1>5, <2>1, <2>3, <3>2, <4>1 DEF IndexInv, Numbering
      <3>. QED
        BY <3>1, <3>2
    <2>. QED
      BY <1>2, <1>5, <2>2, <2>3 DEF IndexInv, Numbering
  <1>8. Mutex' /\ PurgeShape'
    BY <1>2, <1>4 DEF IndexInv, Mutex, PurgeShape, Active
  <1>9. \A k, t : (Carries(k, t)' <=> Carries(k, t)) /\ (Taken(k, t)' <=> Taken(k, t))
    BY <1>2 DEF Carries, Taken
  <1>10. ASSUME NEW k \in Keys, NEW t, Pending(k, t)
         PROVE  Pending(k, t)' \/ (k = k0 /\ t = t0 /\ cache[k] = st[h].write)
    <2>1. PICK g \in Storers : /\ st[g].key = k /\ st[g].write = cache[k]
                               /\ t \in Listed(st[g].todo)
      BY <1>10 DEF Pending
    <2>2. CASE g = h /\ t = t0
      BY <2>1, <2>2
    <2>3. CASE ~(g = h /\ t = t0)
      <3>1. t \in Listed(st'[g].todo)
        BY <1>3, <1>5, <2>1, <2>3
      <3>. QED
        BY <1>2, <1>5, <2>1, <3>1 DEF Pending
    <2>. QED
      BY <2>2, <2>3
  <1>11. SafeBefore'
    <2>. SUFFICES ASSUME NEW p \in Purgers, pg[p].kind # "invalidate",
                         NEW t \in Due(p), NEW k \in Keys, Carries(k, t)
                  PROVE  Safe(k, t)'
      <3>1. \A p : Due(p)' = Due(p)
        BY <1>2 DEF Due, LookedUp, UnderPurge
      <3>. QED
        BY <1>2, <1>9, <3>1 DEF SafeBefore
    <2>1. Safe(k, t) /\ UnderPurge(p, t)
      BY DEF IndexInv, SafeBefore, Due
    <2>2. CASE k = k0 /\ t = t0 /\ cache[k] = st[h].write
      <3>1. t0 \in raced[st[h].write]
        BY <1>4, <2>1, <2>2 DEF Reading
      <3>. QED
        BY <1>2, <2>2, <3>1 DEF Safe, Taken
    <2>. QED
      BY <1>9, <1>10, <2>1, <2>2 DEF Safe
  <1>12. AllCovered'
    <2>. SUFFICES ASSUME NEW k \in Keys, NEW t \in Tags, Carries(k, t)
                  PROVE  k \in index'[t] \/ Safe(k, t)'
      BY <1>9 DEF AllCovered
    <2>1. k \in index[t] \/ Safe(k, t)
      BY DEF IndexInv, AllCovered
    <2>2. CASE k = k0 /\ t = t0 /\ cache[k] = st[h].write
      BY <1>2, <1>6, <2>2 DEF Safe, Taken
    <2>. QED
      BY <1>6, <1>9, <1>10, <2>1, <2>2 DEF Safe
  <1>. QED
    BY <1>1, <1>7, <1>8, <1>11, <1>12 DEF IndexInv

-----------------------------------------------------------------------------
(* The purges keep it. *)

\* What a step that leaves the goroutines alone, and deletes only responses that
\* no purge is going to delete any more, keeps.
LEMMA ResponsesKept ==
  ASSUME IndexInv, UNCHANGED <<writes, tagsOf, done, st>>,
         \A k \in Keys : cache'[k] \in {0, cache[k]},
         \A i \in Writes : raced[i] \subseteq raced'[i],
         \A q \in Purgers : \A k \in pg[q].keys : k \in pg'[q].keys \/ cache'[k] = 0
  PROVE  /\ Numbering'
         /\ \A k \in Keys : \A t : Carries(k, t)' =>
              /\ Carries(k, t) /\ cache'[k] = cache[k]
              /\ Taken(k, t) => Taken(k, t)'
              /\ Safe(k, t) => Safe(k, t)'
  <1>1. writes \in Nat
    BY SurrogateAssumption DEF IndexInv, Types, TypeOK
  <1>2. \A k \in Keys : cache'[k] <= writes
    BY <1>1 DEF IndexInv, Numbering
  <1>3. Numbering'
    BY <1>2 DEF IndexInv, Numbering
  <1>4. ASSUME NEW k \in Keys, NEW t, Carries(k, t)'
        PROVE  /\ Carries(k, t) /\ cache'[k] = cache[k]
               /\ Taken(k, t) => Taken(k, t)'
               /\ Safe(k, t) => Safe(k, t)'
    <2>1. cache'[k] = cache[k] /\ Carries(k, t) /\ cache[k] \in Writes
      BY <1>4 DEF Carries, IndexInv, Types, TypeOK, Writes
    <2>2. Taken(k, t) => Taken(k, t)'
      BY <2>1 DEF Taken, Carries
    <2>3. Pending(k, t) => Pending(k, t)'
      BY <2>1 DEF Pending
    <2>. QED
      BY <2>1, <2>2, <2>3 DEF Safe
  <1>. QED
    BY <1>3, <1>4

\* A goroutine between Get and Set: the purge that deletes its tag's entry in
\* between is in the history.
LEMMA MutexKept ==
  ASSUME IndexInv, UNCHANGED <<mu, st>>,
         \A k \in Keys : cache'[k] \in {0, cache[k]},
         \A i \in Writes : raced[i] \subseteq raced'[i],
         \A t \in Tags : \/ index'[t] = index[t]
                         \/ index'[t] = {} /\ \E p \in Purgers : UnderPurge(p, t),
         \A p \in Purgers, t \in Tags : UnderPurge(p, t)' => UnderPurge(p, t)
  PROVE  Mutex'
  <1>. SUFFICES ASSUME NEW h \in mu PROVE mu = {h} /\ Reading(h)'
    BY DEF Mutex
  <1>1. mu = {h} /\ Reading(h)
    BY DEF IndexInv, Mutex
  <1>2. Head(st[h].todo) \in Tags /\ st[h].write \in Writes /\ st[h].key \in Keys
    BY ListedTail DEF IndexInv, Types, TypeOK, Storer, Busy
  <1>3. st[h].write # 0
    BY <1>2, SurrogateAssumption DEF Writes
  <1>. QED
    BY <1>1, <1>2, <1>3 DEF Reading

\* A purge begins, and has looked nothing up.
LEMMA BeginPurgeKeeps ==
  ASSUME IndexInv, NEW p \in Purgers, BeginPurge(p)
  PROVE  IndexInv'
  <1>. USE SurrogateAssumption
  <1>1. Types'
    BY PurgerTypes DEF IndexInv
  <1>2. /\ UNCHANGED <<cache, index, writes, tagsOf, done, mu, st>>
        /\ Overlapping /\ pg[p].at = "idle"
    BY DEF BeginPurge, storeVars
  <1>3. PICK kind \in Kinds \ {"flush"}, list \in PurgeLists :
          pg' = [pg EXCEPT ![p] =
            [kind |-> kind, at |-> "get", list |-> list,
             todo |-> Surrogates(kind, list), keys |-> {},
             must |-> {i \in done : tagsOf[i] \intersect Listed(list) # {}}]]
    BY DEF BeginPurge
  <1>4. /\ pg'[p].kind = kind /\ pg'[p].at = "get" /\ pg'[p].list = list
        /\ pg'[p].todo = Surrogates(kind, list) /\ pg'[p].keys = {}
        /\ \A q \in Purgers \ {p} : pg'[q] = pg[q]
    BY <1>3 DEF IndexInv, Types, TypeOK
  <1>5. /\ \A i \in Writes : raced[i] \subseteq raced'[i]
        /\ \A h \in mu, q \in Purgers :
             UnderPurge(q, Head(st[h].todo))' => Head(st[h].todo) \in raced'[st[h].write]
    <2>1. \A h \in mu : Head(st[h].todo) \in Tags /\ st[h].write \in Writes
      BY ListedTail DEF IndexInv, Types, TypeOK, Storer, Busy
    <2>. QED
      BY <1>2, <2>1, HistoryGrows
  <1>6. pg[p].keys = {}
    BY <1>2 DEF IndexInv, PurgeShape, Active
  <1>7. /\ Numbering'
        /\ \A k \in Keys : \A t : Carries(k, t)' => Carries(k, t) /\ (Safe(k, t) => Safe(k, t)')
    <2>1. \A q \in Purgers : \A k \in pg[q].keys : k \in pg'[q].keys
      BY <1>4, <1>6
    <2>. QED
      BY <1>2, <1>5, <2>1, ResponsesKept
  <1>8. Mutex'
    <2>. SUFFICES ASSUME NEW h \in mu PROVE mu = {h} /\ Reading(h)'
      BY <1>2 DEF Mutex
    <2>1. mu = {h} /\ Reading(h)
      BY DEF IndexInv, Mutex
    <2>2. st[h].write \in Writes
      BY DEF IndexInv, Types, TypeOK, Busy
    <2>. QED
      BY <1>2, <1>5, <2>1, <2>2 DEF Reading
  <1>9. PurgeShape'
    BY <1>4, <1>6 DEF IndexInv, PurgeShape, Active
  <1>10. Due(p)' = {} /\ \A q \in Purgers \ {p} : Due(q)' = Due(q)
    BY <1>4 DEF Due, LookedUp, UnderPurge
  <1>11. SafeBefore'
    BY <1>4, <1>7, <1>10 DEF IndexInv, SafeBefore
  <1>12. AllCovered'
    BY <1>2, <1>7 DEF IndexInv, AllCovered
  <1>. QED
    BY <1>1, <1>7, <1>8, <1>9, <1>11, <1>12 DEF IndexInv

\* purgeTag takes the keys of a tag.
LEMMA PurgeTagGetKeeps ==
  ASSUME IndexInv, NEW p \in Purgers, PurgeTagGet(p)
  PROVE  IndexInv'
  <1>0. PICK t0 : t0 = Head(pg[p].todo)
    OBVIOUS
  <1>1. Types'
    BY PurgerTypes DEF IndexInv
  <1>2. /\ UNCHANGED <<cache, index, writes, tagsOf, done, mu, st, raced>> /\ pg[p].at = "get"
    BY DEF PurgeTagGet, storeVars
  <1>3. /\ pg'[p].at = "delete" /\ pg'[p].kind = pg[p].kind
        /\ pg'[p].list = pg[p].list /\ pg'[p].todo = pg[p].todo
        /\ pg[p].kind = "invalidate" => pg'[p].keys = {}
        /\ pg[p].kind # "invalidate" => pg'[p].keys = pg[p].keys \union index[t0]
        /\ \A q \in Purgers \ {p} : pg'[q] = pg[q]
    BY <1>0 DEF PurgeTagGet, IndexInv, Types, TypeOK, Purge
  <1>4. \A q \in Purgers : pg[q].keys \subseteq pg'[q].keys
    BY <1>3 DEF IndexInv, PurgeShape
  <1>5. t0 \in Tags
    BY <1>0, <1>2, ListedTail DEF IndexInv, Types, TypeOK, Purge, HasList
  <1>6. /\ Numbering'
        /\ \A k \in Keys : \A t : Carries(k, t)' => Carries(k, t) /\ (Safe(k, t) => Safe(k, t)')
    BY <1>2, <1>4, ResponsesKept
  <1>7. \A q \in Purgers : \A t : UnderPurge(q, t)' => UnderPurge(q, t)
    BY <1>3, UnderPurgeShrinks DEF IndexInv
  <1>8. Mutex'
    BY <1>2, <1>7, MutexKept
  <1>9. PurgeShape'
    BY <1>2, <1>3 DEF IndexInv, PurgeShape, Active
  <1>10. /\ \A t \in Due(p)' : t \in Due(p) \/ t = t0
         /\ \A q \in Purgers \ {p} : Due(q)' = Due(q)
    BY <1>0, <1>2, <1>3, <1>7 DEF Due, LookedUp, UnderPurge
  <1>11. ASSUME pg[p].kind # "invalidate", NEW k \in Keys, Carries(k, t0)
         PROVE  Safe(k, t0)'
    <2>1. k \in index[t0] \/ Safe(k, t0)
      BY <1>5, <1>11 DEF IndexInv, AllCovered
    <2>2. k \in index[t0] => Taken(k, t0)'
      BY <1>3, <1>11 DEF Taken
    <2>3. Carries(k, t0)'
      BY <1>2, <1>11 DEF Carries
    <2>. QED
      BY <1>6, <2>1, <2>2, <2>3 DEF Safe
  <1>12. SafeBefore'
    BY <1>3, <1>6, <1>10, <1>11 DEF IndexInv, SafeBefore
  <1>13. AllCovered'
    BY <1>2, <1>6 DEF IndexInv, AllCovered
  <1>. QED
    BY <1>1, <1>6, <1>8, <1>9, <1>12, <1>13 DEF IndexInv

\* What a purge looks up are tags, and its list has a first one.
LEMMA ListedTags ==
  ASSUME Types, NEW p \in Purgers, Active(p)
  PROVE  /\ Listed(Surrogates(pg[p].kind, pg[p].list)) \subseteq Tags
         /\ pg[p].todo # <<>> => /\ Head(pg[p].todo) \in Listed(pg[p].todo)
                                 /\ Head(pg[p].todo) \in Tags
                                 /\ Listed(pg[p].todo) =
                                      {Head(pg[p].todo)} \union Listed(Tail(pg[p].todo))
  <1>1. pg[p].list \in Seq(Tags) /\ pg[p].list # <<>> /\ pg[p].todo \in Seq(Tags)
    BY DEF Types, TypeOK, Purge, HasList
  <1>. QED
    BY <1>1, SurrogatesType, ListedType, ListedTail

\* purgeTag deletes an index entry: all that carries the tag is safe by then.
LEMMA PurgeTagDeleteKeeps ==
  ASSUME IndexInv, Orderly, NEW p \in Purgers, PurgeTagDelete(p)
  PROVE  IndexInv'
  <1>. DEFINE t0 == Head(pg[p].todo)
              rest == Tail(pg[p].todo)
              all == Surrogates(pg[p].kind, pg[p].list)
  <1>1. Types'
    BY PurgerTypes DEF IndexInv
  <1>2. /\ UNCHANGED <<cache, writes, tagsOf, done, mu, st, raced>> /\ pg[p].at = "delete"
        /\ Active(p) /\ pg[p].todo # <<>>
    BY DEF PurgeTagDelete, storeVars, Active, IndexInv, Types, HasList
  <1>3. /\ pg'[p].at = IF rest # <<>> THEN "get"
                       ELSE IF pg[p].kind # "invalidate" THEN "keys" ELSE "end"
        /\ pg'[p].todo = IF rest = <<>> /\ pg[p].kind # "invalidate" THEN all ELSE rest
        /\ pg'[p].kind = pg[p].kind /\ pg'[p].list = pg[p].list
        /\ pg'[p].keys = pg[p].keys
        /\ \A q \in Purgers \ {p} : pg'[q] = pg[q]
    BY DEF PurgeTagDelete, IndexInv, Types, TypeOK, Purge
  <1>4. /\ Listed(pg[p].todo) = {t0} \union Listed(rest) /\ t0 \in Tags
        /\ t0 \in Listed(pg[p].todo) /\ Listed(all) \subseteq Tags
        /\ Listed(pg[p].todo) \subseteq Listed(all) /\ pg[p].kind \in Kinds
    BY <1>2, ListedTags DEF IndexInv, PurgeShape
  <1>5. t0 \in Due(p)
    BY <1>2, <1>4 DEF Due, LookedUp, UnderPurge
  <1>6. \/ index' = index
        \/ /\ pg[p].kind # "invalidate" /\ index'[t0] = {}
           /\ \A t \in Tags \ {t0} : index'[t] = index[t]
    BY <1>4 DEF PurgeTagDelete, IndexInv, Types, TypeOK, Orderly
  <1>7. /\ Numbering'
        /\ \A k \in Keys : \A t : Carries(k, t)' => Carries(k, t) /\ (Safe(k, t) => Safe(k, t)')
    <2>1. \A q \in Purgers : pg'[q].keys = pg[q].keys
      BY <1>3
    <2>. QED
      BY <1>2, <2>1, ResponsesKept
  <1>8. \A q \in Purgers : \A t : UnderPurge(q, t)' => UnderPurge(q, t)
    BY <1>3, UnderPurgeShrinks DEF IndexInv
  <1>9. Mutex'
    <2>1. UnderPurge(p, t0)
      BY <1>5 DEF Due
    <2>2. \A t \in Tags : \/ index'[t] = index[t]
                          \/ index'[t] = {} /\ \E q \in Purgers : UnderPurge(q, t)
      BY <1>6, <2>1
    <2>. QED
      BY <1>2, <1>8, <2>2, MutexKept
  <1>10. PurgeShape'
    BY <1>2, <1>3, <1>4 DEF IndexInv, PurgeShape, Active
  <1>11. Due(p)' \subseteq Due(p) /\ \A q \in Purgers \ {p} : Due(q)' = Due(q)
    <2>1. ASSUME NEW t \in Due(p)' PROVE t \in Due(p)
      <3>1. UnderPurge(p, t) /\ t \in Listed(all)
        BY <1>3, <1>8, <2>1 DEF Due, LookedUp
      <3>2. t = t0 \/ t \notin Listed(pg[p].todo)
        <4>1. CASE rest # <<>>
          BY <1>3, <1>4, <2>1, <4>1 DEF Due, LookedUp
        <4>2. CASE rest = <<>>
          BY <1>4, <4>2, ListedType
        <4>. QED
          BY <4>1, <4>2
      <3>. QED
        BY <1>2, <3>1, <3>2 DEF Due, LookedUp
    <2>. QED
      BY <1>3, <2>1 DEF Due, LookedUp, UnderPurge
  <1>12. SafeBefore'
    BY <1>3, <1>7, <1>11 DEF IndexInv, SafeBefore
  <1>13. AllCovered'
    <2>1. pg[p].kind # "invalidate" => \A k \in Keys : Carries(k, t0) => Safe(k, t0)
      BY <1>5 DEF IndexInv, SafeBefore
    <2>. QED
      BY <1>4, <1>6, <1>7, <2>1 DEF IndexInv, AllCovered
  <1>. QED
    BY <1>1, <1>7, <1>9, <1>10, <1>12, <1>13 DEF IndexInv

\* BulkDelete of a key deletes the response under it.
LEMMA BulkDeleteKeyKeeps ==
  ASSUME IndexInv, NEW p \in Purgers, BulkDeleteKey(p)
  PROVE  IndexInv'
  <1>1. Types'
    BY PurgerTypes DEF IndexInv
  <1>2. PICK k \in pg[p].keys :
          /\ cache' = [j \in Keys |-> IF j \in Matches[k] THEN 0 ELSE cache[j]]
          /\ pg' = [pg EXCEPT ![p].keys = @ \ {k}]
    BY DEF BulkDeleteKey, KeyDeleted
  <1>3. /\ UNCHANGED <<index, writes, tagsOf, done, mu, st, raced>> /\ pg[p].at = "keys"
    BY DEF BulkDeleteKey, storeVars
  <1>4. /\ k \in Keys /\ cache'[k] = 0 /\ \A j \in Keys : cache'[j] \in {0, cache[j]}
    BY <1>2, SurrogateAssumption DEF IndexInv, Types, TypeOK, Purge
  <1>5. /\ pg'[p].keys = pg[p].keys \ {k} /\ pg'[p].at = pg[p].at
        /\ pg'[p].kind = pg[p].kind /\ pg'[p].list = pg[p].list /\ pg'[p].todo = pg[p].todo
        /\ \A q \in Purgers \ {p} : pg'[q] = pg[q]
    BY <1>2 DEF IndexInv, Types, TypeOK, Purge
  <1>6. /\ Numbering'
        /\ \A j \in Keys : \A t : Carries(j, t)' => Carries(j, t) /\ (Safe(j, t) => Safe(j, t)')
    <2>1. \A q \in Purgers : \A j \in pg[q].keys : j \in pg'[q].keys \/ cache'[j] = 0
      BY <1>4, <1>5
    <2>. QED
      BY <1>3, <1>4, <2>1, ResponsesKept
  <1>7. \A q \in Purgers : \A t : UnderPurge(q, t)' => UnderPurge(q, t)
    BY <1>5, UnderPurgeShrinks DEF IndexInv
  <1>8. Mutex'
    BY <1>3, <1>4, <1>7, MutexKept
  <1>9. PurgeShape'
    BY <1>3, <1>5 DEF IndexInv, PurgeShape, Active
  <1>10. \A q \in Purgers : Due(q)' = Due(q) /\ pg'[q].kind = pg[q].kind
    BY <1>5 DEF Due, LookedUp, UnderPurge
  <1>11. SafeBefore' /\ AllCovered'
    BY <1>3, <1>6, <1>10 DEF IndexInv, SafeBefore, AllCovered
  <1>. QED
    BY <1>1, <1>6, <1>8, <1>9, <1>11 DEF IndexInv

\* BulkDelete of a tag deletes its index entry, which the purge has looked up.
LEMMA BulkDeleteTagKeeps ==
  ASSUME IndexInv, Orderly, NEW p \in Purgers, BulkDeleteTag(p)
  PROVE  IndexInv'
  <1>. DEFINE t0 == Head(pg[p].todo)
  <1>1. Types'
    BY PurgerTypes DEF IndexInv
  <1>2. /\ UNCHANGED <<writes, tagsOf, done, mu, st, raced>> /\ Active(p)
        /\ pg[p].at = "keys" /\ pg[p].todo # <<>>
    BY DEF BulkDeleteTag, storeVars, Active
  <1>3. /\ t0 \in Tags /\ t0 \in Listed(pg[p].todo)
        /\ Listed(pg[p].todo) = {t0} \union Listed(Tail(pg[p].todo))
    BY <1>2, ListedTags DEF IndexInv
  <1>4. /\ \A t \in Tags \ {t0} : index'[t] = index[t]
        /\ index'[t0] = {}
    BY <1>3 DEF BulkDeleteTag, Orderly
  <1>5. \A k \in Keys : cache'[k] \in {0, cache[k]}
    BY DEF BulkDeleteTag
  <1>6. /\ pg'[p].todo = Tail(pg[p].todo) /\ pg'[p].at = pg[p].at
        /\ pg'[p].kind = pg[p].kind /\ pg'[p].keys = pg[p].keys /\ pg'[p].list = pg[p].list
        /\ \A q \in Purgers \ {p} : pg'[q] = pg[q]
    BY DEF BulkDeleteTag, IndexInv, Types, TypeOK, Purge
  <1>7. t0 \in Due(p) /\ pg[p].kind # "invalidate"
    BY <1>2, <1>3 DEF Due, LookedUp, UnderPurge, IndexInv, PurgeShape, Active
  <1>8. /\ Numbering'
        /\ \A k \in Keys : \A t : Carries(k, t)' => Carries(k, t) /\ (Safe(k, t) => Safe(k, t)')
    <2>1. \A q \in Purgers : pg'[q].keys = pg[q].keys
      BY <1>6
    <2>. QED
      BY <1>2, <1>5, <2>1, ResponsesKept
  <1>9. \A q \in Purgers : \A t : UnderPurge(q, t)' => UnderPurge(q, t)
    BY <1>6, UnderPurgeShrinks DEF IndexInv
  <1>10. Mutex'
    <2>1. UnderPurge(p, t0)
      BY <1>7 DEF Due
    <2>2. \A t \in Tags : \/ index'[t] = index[t]
                          \/ index'[t] = {} /\ \E q \in Purgers : UnderPurge(q, t)
      BY <1>4, <2>1
    <2>. QED
      BY <1>2, <1>5, <1>9, <2>2, MutexKept
  <1>11. PurgeShape'
    BY <1>2, <1>3, <1>6 DEF IndexInv, PurgeShape, Active
  <1>12. Due(p)' \subseteq Due(p) /\ \A q \in Purgers \ {p} : Due(q)' = Due(q)
    <2>1. LookedUp(p)' = LookedUp(p)
      BY <1>2, <1>6 DEF LookedUp
    <2>. QED
      BY <1>6, <1>9, <2>1 DEF Due, LookedUp, UnderPurge
  <1>13. SafeBefore'
    BY <1>6, <1>8, <1>12 DEF IndexInv, SafeBefore
  <1>14. AllCovered'
    <2>1. \A k \in Keys : Carries(k, t0) => Safe(k, t0)
      BY <1>7 DEF IndexInv, SafeBefore
    <2>. QED
      BY <1>3, <1>4, <1>8, <2>1 DEF IndexInv, AllCovered
  <1>. QED
    BY <1>1, <1>8, <1>10, <1>11, <1>13, <1>14 DEF IndexInv

\* The answer and the end of a purge take nothing away; nor do the requests to
\* the CDN.
LEMMA PurgeEndKeeps ==
  ASSUME IndexInv, NEW p \in Purgers,
         PurgeAnswers(p) \/ EndPurge(p) \/ CdnSend(p)
  PROVE  IndexInv'
  <1>1. Types'
    BY PurgerTypes DEF IndexInv
  <1>2. UNCHANGED <<cache, index, writes, tagsOf, done, mu, st, raced>>
    BY DEF PurgeAnswers, EndPurge, CdnSend, storeVars
  <1>3. /\ \A q \in Purgers \ {p} : pg'[q] = pg[q]
        /\ \/ pg'[p] = pg[p]
           \/ pg'[p].at \in {"idle", "end"} /\ pg'[p].kind \in {"purge", pg[p].kind}
        /\ pg'[p].keys = pg[p].keys
    <2>1. CASE PurgeAnswers(p)
      BY <2>1 DEF PurgeAnswers, IndexInv, Types, TypeOK, Purge
    <2>2. CASE EndPurge(p)
      <3>1. pg[p].keys = {}
        BY <2>2 DEF EndPurge, IndexInv, PurgeShape, Active
      <3>. QED
        BY <2>2, <3>1 DEF EndPurge, NoPurge, IndexInv, Types, TypeOK
    <2>3. CASE CdnSend(p)
      BY <2>3 DEF CdnSend
    <2>. QED
      BY <2>1, <2>2, <2>3
  <1>4. /\ Numbering'
        /\ \A k \in Keys : \A t : Carries(k, t)' => Carries(k, t) /\ (Safe(k, t) => Safe(k, t)')
    BY <1>2, <1>3, ResponsesKept
  <1>5. \A q \in Purgers : \A t : UnderPurge(q, t)' => UnderPurge(q, t)
    BY <1>3, UnderPurgeShrinks DEF IndexInv
  <1>6. Mutex'
    BY <1>2, <1>5, MutexKept
  <1>7. PurgeShape'
    <2>1. pg'[p] # pg[p] => pg'[p].keys = {}
      <3>1. PurgeAnswers(p) => pg[p].keys = {}
        BY DEF PurgeAnswers
      <3>2. EndPurge(p) => pg[p].keys = {}
        BY DEF EndPurge, IndexInv, PurgeShape, Active
      <3>3. CdnSend(p) => pg' = pg
        BY DEF CdnSend
      <3>. QED
        BY <1>3, <3>1, <3>2, <3>3
    <2>. QED
      BY <1>3, <2>1 DEF IndexInv, PurgeShape, Active
  <1>8. \A q \in Purgers : Due(q)' \subseteq Due(q) /\ (Due(q)' # {} => pg'[q] = pg[q])
    BY <1>3 DEF Due, LookedUp, UnderPurge
  <1>9. SafeBefore' /\ AllCovered'
    BY <1>2, <1>4, <1>8 DEF IndexInv, SafeBefore, AllCovered
  <1>. QED
    BY <1>1, <1>4, <1>6, <1>7, <1>9 DEF IndexInv

\* A flush leaves no response to be covered.
LEMMA FlushKeeps ==
  ASSUME IndexInv, Flush
  PROVE  IndexInv'
  <1>1. Types'
    BY TypesStep DEF IndexInv, Next
  <1>2. /\ UNCHANGED <<writes, tagsOf, done, mu, st, pg, raced>>
        /\ \A k \in Keys : cache'[k] = 0
        /\ \A t \in Tags : index'[t] = {}
    BY DEF Flush, storeVars
  <1>3. Numbering'
    BY <1>2, ResponsesKept
  <1>4. Mutex'
    <2>. SUFFICES ASSUME NEW h \in mu PROVE mu = {h} /\ Reading(h)'
      BY <1>2 DEF Mutex
    <2>1. mu = {h} /\ Reading(h)
      BY DEF IndexInv, Mutex
    <2>2. Head(st[h].todo) \in Tags /\ st[h].write \in Writes /\ st[h].key \in Keys
      BY ListedTail DEF IndexInv, Types, TypeOK, Storer, Busy
    <2>3. st[h].write # 0
      BY <2>2, SurrogateAssumption DEF Writes
    <2>4. \A p, t : UnderPurge(p, t)' <=> UnderPurge(p, t)
      BY <1>2 DEF UnderPurge
    <2>. QED
      BY <1>2, <2>1, <2>2, <2>3, <2>4 DEF Reading
  <1>5. PurgeShape'
    BY <1>2 DEF IndexInv, PurgeShape, Active
  <1>6. SafeBefore' /\ AllCovered'
    BY <1>2 DEF SafeBefore, AllCovered, Carries
  <1>. QED
    BY <1>1, <1>3, <1>4, <1>5, <1>6 DEF IndexInv

\* Every step keeps the invariant.
LEMMA IndexStep ==
  ASSUME IndexInv, Orderly, [Next]_vars
  PROVE  IndexInv'
  <1>1. CASE UNCHANGED vars
    <2>1. UNCHANGED <<cache, index, writes, tagsOf, done, mu, st, pg, raced>>
      BY <1>1 DEF vars, storeVars, purgeVars
    <2>2. Types'
      BY TypesStep DEF IndexInv
    <2>3. Numbering' /\ PurgeShape'
      BY <2>1 DEF IndexInv, Numbering, PurgeShape, Active
    <2>4. Mutex'
      BY <2>1 DEF IndexInv, Mutex, Reading, UnderPurge
    <2>5. SafeBefore' /\ AllCovered'
      BY <2>1 DEF IndexInv, SafeBefore, AllCovered, LookedUp, Due, UnderPurge, Carries,
                  Safe, Taken, Pending
    <2>. QED
      BY <2>2, <2>3, <2>4, <2>5 DEF IndexInv
  <1>2. CASE \E h \in Storers : StoreResponse(h) \/ StoreTagGet(h) \/ StoreTagSet(h)
    BY <1>2, StoreResponseKeeps, StoreTagGetKeeps, StoreTagSetKeeps
  <1>3. CASE \E p \in Purgers : BeginPurge(p) \/ PurgeTagGet(p) \/ PurgeTagDelete(p)
    BY <1>3, BeginPurgeKeeps, PurgeTagGetKeeps, PurgeTagDeleteKeeps
  <1>4. CASE \E p \in Purgers : BulkDeleteKey(p) \/ BulkDeleteTag(p)
    BY <1>4, BulkDeleteKeyKeeps, BulkDeleteTagKeeps
  <1>5. CASE \E p \in Purgers : PurgeAnswers(p) \/ EndPurge(p) \/ CdnSend(p)
    BY <1>5, PurgeEndKeeps
  <1>6. CASE Flush
    BY <1>6, FlushKeeps
  <1>. QED
    BY <1>1, <1>2, <1>3, <1>4, <1>5, <1>6 DEF Next

\* IndexComplete: storeTag, purgeTag, BulkDelete and a flush keep the index
\* complete, in every interleaving of any number of goroutines and purges, but
\* for tags that were purged while they were stored; when no tag is part of the
\* name of another, and only an index that purges keep is left to Invalidate.
THEOREM SurrogateIndexComplete ==
  ASSUME Orderly
  PROVE  Spec => []IndexComplete
  <1>1. IndexInv /\ [Next]_vars => IndexInv'
    BY IndexStep
  <1>. QED
    BY <1>1, InitIndexInv, IndexInvComplete, PTL DEF Spec

-----------------------------------------------------------------------------
(***************************************************************************)
(* What a purge reaches.  The responses it must delete were indexed before *)
(* it began; of each tag it has looked up, they are taken: a purge has     *)
(* their key, or the tag was being purged when it was stored.              *)
(***************************************************************************)

\* The first group of a POST is the only one that is looked up.
OneGroup == "group" \in Kinds => \A list \in PurgeLists : Len(list) = 1

MustBeOld == \A p \in Purgers : \A i \in pg[p].must : i \in done

\* A purge looks up every tag of its list.
WholeList ==
  \A p \in Purgers : pg[p].at # "idle" =>
    Listed(Surrogates(pg[p].kind, pg[p].list)) = Listed(pg[p].list)

MustBeTaken ==
  \A p \in Purgers : pg[p].kind # "invalidate" =>
    \A k \in Keys : cache[k] \in pg[p].must =>
      \A t \in LookedUp(p) : t \in tagsOf[cache[k]] => Taken(k, t)

PurgeInv == MustBeOld /\ WholeList /\ MustBeTaken

\* No purge has begun.
LEMMA InitPurgeInv == Init => PurgeInv
  BY DEF Init, NoPurge, PurgeInv, MustBeOld, WholeList, MustBeTaken

\* Once all is looked up, it says what the property says.
LEMMA PurgeInvReaches == PurgeInv => PurgeReaches
  <1>. SUFFICES ASSUME PurgeInv, NEW p \in Purgers, pg[p].at = "end",
                       pg[p].kind # "invalidate", NEW k \in Keys, cache[k] \in pg[p].must,
                       NEW t \in tagsOf[cache[k]], t \in Listed(pg[p].list)
                PROVE  (\E q \in Purgers : k \in pg[q].keys) \/ t \in raced[cache[k]]
    BY DEF PurgeReaches
  <1>1. t \in LookedUp(p)
    BY DEF PurgeInv, WholeList, LookedUp
  <1>. QED
    BY <1>1 DEF PurgeInv, MustBeTaken, Taken

\* A list of one tag is the list of its head.
LEMMA ListOfOne ==
  ASSUME NEW list \in Seq(Tags), Len(list) = 1
  PROVE  Listed(<<Head(list)>>) = Listed(list)
  BY DEF Listed

\* What every step does to the responses that were there, and to what is taken.
LEMMA ResponsesMove ==
  ASSUME IndexInv, [Next]_vars
  PROVE  /\ done \subseteq done'
         /\ \A k \in Keys : cache'[k] # 0 =>
              \/ cache'[k] \notin done
              \/ /\ cache'[k] = cache[k] /\ tagsOf'[cache[k]] = tagsOf[cache[k]]
                 /\ \A t : Taken(k, t) => Taken(k, t)'
  <1>. USE SurrogateAssumption
  <1>1. ASSUME NEW h \in Storers, StoreResponse(h)
        PROVE  /\ done \subseteq done' /\ UNCHANGED <<pg, raced>>
               /\ \A k \in Keys : cache'[k] # 0 =>
                    \/ cache'[k] \notin done
                    \/ cache'[k] = cache[k] /\ tagsOf'[cache[k]] = tagsOf[cache[k]]
    <2>1. PICK k \in Keys, response \in Responses :
            /\ cache' = [cache EXCEPT ![k] = writes + 1]
            /\ tagsOf' = [tagsOf EXCEPT ![writes + 1] = Listed(TagsToStore(k, response))]
      BY <1>1 DEF StoreResponse
    <2>2. writes \in Nat /\ done \subseteq done' /\ UNCHANGED <<pg, raced>>
      BY <1>1 DEF StoreResponse, IndexInv, Types, TypeOK, purgeVars
    <2>3. writes + 1 \notin done
      BY <2>2 DEF IndexInv, Numbering
    <2>4. \A j \in Keys : cache'[j] = writes + 1 \/ cache'[j] = cache[j]
      BY <2>1 DEF IndexInv, Types, TypeOK
    <2>5. \A j \in Keys : cache[j] # writes + 1
      BY <2>2 DEF IndexInv, Numbering, Types, TypeOK
    <2>6. \A j \in Keys : tagsOf'[cache[j]] = tagsOf[cache[j]]
      BY <2>1, <2>5 DEF IndexInv, Types, TypeOK
    <2>. QED
      BY <2>2, <2>3, <2>4, <2>6
  <1>2. ASSUME UNCHANGED <<tagsOf, pg>>, \A i \in Writes : raced[i] \subseteq raced'[i],
               UNCHANGED cache, done \subseteq done'
        PROVE  \A k \in Keys : cache'[k] # 0 =>
                 /\ cache'[k] = cache[k] /\ tagsOf'[cache[k]] = tagsOf[cache[k]]
                 /\ \A t : Taken(k, t) => Taken(k, t)'
    <2>1. \A k \in Keys : cache[k] # 0 => cache[k] \in Writes
      BY DEF IndexInv, Types, TypeOK, Writes
    <2>. QED
      BY <1>2, <2>1 DEF Taken
  <1>3. ASSUME NEW h \in Storers, StoreTagGet(h) \/ StoreTagSet(h)
        PROVE  /\ UNCHANGED <<cache, tagsOf, pg>> /\ done \subseteq done'
               /\ \A i \in Writes : raced[i] \subseteq raced'[i]
    <2>1. CASE StoreTagGet(h)
      BY <2>1, HistoryGrows DEF StoreTagGet, purgeVars, IndexInv, Types
    <2>2. CASE StoreTagSet(h)
      BY <2>2 DEF StoreTagSet, purgeVars
    <2>. QED
      BY <1>3, <2>1, <2>2
  <1>4. ASSUME UNCHANGED <<writes, tagsOf, done, st>>,
               \A k \in Keys : cache'[k] \in {0, cache[k]},
               \A i \in Writes : raced[i] \subseteq raced'[i],
               \A q \in Purgers : \A k \in pg[q].keys : k \in pg'[q].keys \/ cache'[k] = 0
        PROVE  /\ done \subseteq done'
               /\ \A k \in Keys : cache'[k] # 0 =>
                    /\ cache'[k] = cache[k] /\ tagsOf'[cache[k]] = tagsOf[cache[k]]
                    /\ \A t : Taken(k, t) => Taken(k, t)'
    <2>1. \A k \in Keys : cache[k] # 0 => cache[k] \in Writes
      BY DEF IndexInv, Types, TypeOK, Writes
    <2>. QED
      BY <1>4, <2>1 DEF Taken
  <1>5. ASSUME NEW p \in Purgers,
               \/ BeginPurge(p) \/ PurgeTagGet(p) \/ PurgeTagDelete(p) \/ BulkDeleteKey(p)
               \/ BulkDeleteTag(p) \/ PurgeAnswers(p) \/ EndPurge(p) \/ CdnSend(p)
        PROVE  /\ UNCHANGED <<writes, tagsOf, done, st>>
               /\ \A k \in Keys : cache'[k] \in {0, cache[k]}
               /\ \A i \in Writes : raced[i] \subseteq raced'[i]
               /\ \A q \in Purgers : \A k \in pg[q].keys : k \in pg'[q].keys \/ cache'[k] = 0
    <2>1. UNCHANGED <<writes, tagsOf, done, st>> /\ \A k \in Keys : cache'[k] \in {0, cache[k]}
      BY <1>5 DEF BeginPurge, PurgeTagGet, PurgeTagDelete, BulkDeleteKey, BulkDeleteTag,
                  PurgeAnswers, EndPurge, CdnSend, storeVars
    <2>2. \A i \in Writes : raced[i] \subseteq raced'[i]
      <3>1. BeginPurge(p) => \A i \in Writes : raced[i] \subseteq raced'[i]
        BY HistoryGrows DEF BeginPurge, IndexInv, Types
      <3>2. ~BeginPurge(p) => raced' = raced
        BY <1>5 DEF PurgeTagGet, PurgeTagDelete, BulkDeleteKey, BulkDeleteTag,
                    PurgeAnswers, EndPurge, CdnSend
      <3>. QED
        BY <3>1, <3>2
    <2>3. \A q \in Purgers \ {p} : pg'[q] = pg[q]
      BY <1>5 DEF BeginPurge, PurgeTagGet, PurgeTagDelete, BulkDeleteKey, KeyDeleted,
                  BulkDeleteTag, PurgeAnswers, EndPurge, CdnSend, IndexInv, Types, TypeOK
    <2>4. \A k \in pg[p].keys : k \in pg'[p].keys \/ cache'[k] = 0
      <3>1. CASE BulkDeleteKey(p)
        <4>1. PICK k \in pg[p].keys :
                /\ cache' = [j \in Keys |-> IF j \in Matches[k] THEN 0 ELSE cache[j]]
                /\ pg' = [pg EXCEPT ![p].keys = @ \ {k}]
          BY <3>1 DEF BulkDeleteKey, KeyDeleted
        <4>. QED
          BY <4>1 DEF IndexInv, Types, TypeOK, Purge
      <3>2. CASE BeginPurge(p) \/ EndPurge(p)
        BY <3>2 DEF BeginPurge, EndPurge, IndexInv, PurgeShape, Active
      <3>3. CASE PurgeTagGet(p)
        BY <3>3 DEF PurgeTagGet, IndexInv, PurgeShape, Types, TypeOK, Purge
      <3>4. CASE PurgeTagDelete(p)
        BY <3>4 DEF PurgeTagDelete, IndexInv, Types, TypeOK, Purge
      <3>5. CASE BulkDeleteTag(p)
        BY <3>5 DEF BulkDeleteTag, IndexInv, Types, TypeOK, Purge
      <3>6. CASE PurgeAnswers(p)
        BY <3>6 DEF PurgeAnswers, IndexInv, Types, TypeOK, Purge
      <3>7. CASE CdnSend(p)
        BY <3>7 DEF CdnSend, IndexInv, Types, TypeOK, Purge
      <3>. QED
        BY <1>5, <3>1, <3>2, <3>3, <3>4, <3>5, <3>6, <3>7
    <2>. QED
      BY <2>1, <2>2, <2>3, <2>4
  <1>6. CASE \E h \in Storers : StoreResponse(h)
    BY <1>1, <1>6 DEF Taken
  <1>7. CASE \E h \in Storers : StoreTagGet(h) \/ StoreTagSet(h)
    BY <1>2, <1>3, <1>7
  <1>8. CASE Flush
    BY <1>8 DEF Flush, storeVars
  <1>9. CASE UNCHANGED vars
    BY <1>2, <1>9 DEF vars, storeVars, purgeVars
  <1>10. CASE \E p \in Purgers :
               \/ BeginPurge(p) \/ PurgeTagGet(p) \/ PurgeTagDelete(p) \/ BulkDeleteKey(p)
               \/ BulkDeleteTag(p) \/ PurgeAnswers(p) \/ EndPurge(p) \/ CdnSend(p)
    BY <1>4, <1>5, <1>10
  <1>. QED
    BY <1>6, <1>7, <1>8, <1>9, <1>10 DEF Next

\* What a purge has to reach stays what it is while its list goes on; it looks
\* something up only in PurgeTagGet, and then takes the keys.
LEMMA PurgeStep ==
  ASSUME IndexInv, PurgeInv, OneGroup, [Next]_vars
  PROVE  PurgeInv'
  <1>. USE SurrogateAssumption
  <1>1. /\ done \subseteq done'
        /\ \A k \in Keys : cache'[k] # 0 =>
             \/ cache'[k] \notin done
             \/ /\ cache'[k] = cache[k] /\ tagsOf'[cache[k]] = tagsOf[cache[k]]
                /\ \A t : Taken(k, t) => Taken(k, t)'
    BY ResponsesMove
  <1>2. 0 \notin done
    BY DEF IndexInv, Types, TypeOK, Writes
  <1>3. ASSUME NEW p \in Purgers, pg'[p].must \subseteq pg[p].must,
               pg[p].kind = "invalidate" => pg'[p].kind = "invalidate" \/ pg'[p].must = {},
               pg'[p].must # {} => LookedUp(p)' \subseteq LookedUp(p),
               pg'[p].at # "idle" => /\ pg[p].at # "idle"
                                     /\ pg'[p].list = pg[p].list /\ pg'[p].kind = pg[p].kind
        PROVE  /\ \A i \in pg'[p].must : i \in done'
               /\ pg'[p].at # "idle" =>
                    Listed(Surrogates(pg'[p].kind, pg'[p].list)) = Listed(pg'[p].list)
               /\ pg'[p].kind # "invalidate" =>
                    \A k \in Keys : cache'[k] \in pg'[p].must =>
                      \A t \in LookedUp(p)' : t \in tagsOf'[cache'[k]] => Taken(k, t)'
    <2>1. \A i \in pg'[p].must : i \in done /\ i \in done'
      BY <1>1, <1>3 DEF PurgeInv, MustBeOld
    <2>2. pg'[p].at # "idle" =>
            Listed(Surrogates(pg'[p].kind, pg'[p].list)) = Listed(pg'[p].list)
      BY <1>3 DEF PurgeInv, WholeList
    <2>3. ASSUME pg'[p].kind # "invalidate", NEW k \in Keys, cache'[k] \in pg'[p].must,
                 NEW t \in LookedUp(p)', t \in tagsOf'[cache'[k]]
          PROVE  Taken(k, t)'
      <3>1. cache'[k] # 0 /\ cache'[k] \in done
        BY <1>2, <2>1, <2>3
      <3>2. /\ cache'[k] = cache[k] /\ tagsOf'[cache[k]] = tagsOf[cache[k]]
            /\ Taken(k, t) => Taken(k, t)'
        BY <1>1, <3>1
      <3>3. pg[p].kind # "invalidate" /\ t \in LookedUp(p) /\ cache[k] \in pg[p].must
        BY <1>3, <2>3, <3>2
      <3>. QED
        BY <2>3, <3>2, <3>3 DEF PurgeInv, MustBeTaken
    <2>. QED
      BY <2>1, <2>2, <2>3
  <1>4. ASSUME NEW p \in Purgers
        PROVE  /\ \A i \in pg'[p].must : i \in done'
               /\ pg'[p].at # "idle" =>
                    Listed(Surrogates(pg'[p].kind, pg'[p].list)) = Listed(pg'[p].list)
               /\ pg'[p].kind # "invalidate" =>
                    \A k \in Keys : cache'[k] \in pg'[p].must =>
                      \A t \in LookedUp(p)' : t \in tagsOf'[cache'[k]] => Taken(k, t)'
    <2>0. pg[p] \in Purge
      BY DEF IndexInv, Types, TypeOK
    <2>1. CASE pg'[p] = pg[p]
      BY <1>3, <2>1 DEF LookedUp
    <2>2. CASE BeginPurge(p)
      <3>1. PICK kind \in Kinds \ {"flush"}, list \in PurgeLists :
              pg' = [pg EXCEPT ![p] =
                [kind |-> kind, at |-> "get", list |-> list,
                 todo |-> Surrogates(kind, list), keys |-> {},
                 must |-> {i \in done : tagsOf[i] \intersect Listed(list) # {}}]]
        BY <2>2 DEF BeginPurge
      <3>2. /\ pg'[p].kind = kind /\ pg'[p].at = "get" /\ pg'[p].list = list
            /\ pg'[p].todo = Surrogates(kind, list) /\ pg'[p].must \subseteq done
        BY <3>1 DEF IndexInv, Types, TypeOK
      <3>3. LookedUp(p)' = {}
        BY <3>2 DEF LookedUp
      <3>4. Listed(Surrogates(kind, list)) = Listed(list)
        BY ListOfOne DEF OneGroup, Surrogates
      <3>. QED
        BY <1>1, <3>2, <3>3, <3>4
    <2>3. CASE PurgeTagGet(p)
      <3>. DEFINE t0 == Head(pg[p].todo)
      <3>1. /\ pg'[p].at = "delete" /\ pg[p].at = "get" /\ pg'[p].must = pg[p].must
            /\ pg'[p].kind = pg[p].kind /\ pg'[p].list = pg[p].list
            /\ pg'[p].todo = pg[p].todo
            /\ pg[p].kind # "invalidate" => index[t0] \subseteq pg'[p].keys
            /\ UNCHANGED <<cache, tagsOf, done>>
        BY <2>0, <2>3 DEF PurgeTagGet, IndexInv, Types, TypeOK, Purge, storeVars
      <3>2. \A t \in LookedUp(p)' : t \in LookedUp(p) \/ t = t0
        BY <3>1 DEF LookedUp
      <3>3. ASSUME pg[p].kind # "invalidate", NEW k \in Keys, cache[k] \in pg[p].must,
                   NEW t \in LookedUp(p)', t \in tagsOf[cache[k]]
            PROVE  Taken(k, t)'
        <4>1. cache[k] \in done /\ cache[k] # 0
          BY <1>2, <3>3 DEF PurgeInv, MustBeOld
        <4>2. Taken(k, t) => Taken(k, t)'
          BY <1>1, <3>1, <4>1
        <4>3. CASE t \in LookedUp(p)
          BY <3>3, <4>2, <4>3 DEF PurgeInv, MustBeTaken
        <4>4. CASE t = t0
          <5>1. k \in index[t] \/ Taken(k, t)
            BY <3>3, <4>1, DoneIsStored
          <5>2. k \in index[t] => Taken(k, t)'
            BY <3>1, <3>3, <4>4 DEF Taken
          <5>. QED
            BY <4>2, <5>1, <5>2
        <4>. QED
          BY <3>2, <3>3, <4>3, <4>4
      <3>4. /\ \A i \in pg'[p].must : i \in done'
            /\ Listed(Surrogates(pg'[p].kind, pg'[p].list)) = Listed(pg'[p].list)
        BY <3>1 DEF PurgeInv, MustBeOld, WholeList
      <3>. QED
        BY <3>1, <3>3, <3>4
    <2>4. CASE PurgeTagDelete(p)
      <3>1. /\ pg[p].at = "delete" /\ pg'[p].must = pg[p].must
            /\ pg'[p].kind = pg[p].kind /\ pg'[p].list = pg[p].list
            /\ \/ pg'[p].at = "get" /\ pg'[p].todo = Tail(pg[p].todo)
               \/ pg'[p].at \in {"keys", "end"} /\ Tail(pg[p].todo) = <<>>
        BY <2>0, <2>4 DEF PurgeTagDelete, IndexInv, Types, TypeOK, Purge
      <3>2. Listed(pg[p].todo) = {Head(pg[p].todo)} \union Listed(Tail(pg[p].todo))
        BY <2>0, <3>1, ListedTail DEF IndexInv, Types, HasList, Purge
      <3>3. LookedUp(p)' \subseteq LookedUp(p)
        BY <3>1, <3>2, ListedType DEF LookedUp
      <3>. QED
        BY <1>3, <3>1, <3>3
    <2>5. CASE BulkDeleteKey(p) \/ BulkDeleteTag(p) \/ PurgeAnswers(p)
      <3>1. /\ pg[p].at = "keys" /\ pg'[p].at \in {"keys", "end"}
            /\ pg'[p].must = pg[p].must
            /\ pg'[p].kind = pg[p].kind /\ pg'[p].list = pg[p].list
        <4>1. CASE BulkDeleteKey(p)
          BY <2>0, <4>1 DEF BulkDeleteKey, KeyDeleted, IndexInv, Types, TypeOK, Purge
        <4>2. CASE BulkDeleteTag(p)
          BY <2>0, <4>2 DEF BulkDeleteTag, IndexInv, Types, TypeOK, Purge
        <4>3. CASE PurgeAnswers(p)
          BY <2>0, <4>3 DEF PurgeAnswers, IndexInv, Types, TypeOK, Purge
        <4>. QED
          BY <2>5, <4>1, <4>2, <4>3
      <3>2. LookedUp(p)' \subseteq LookedUp(p)
        BY <3>1 DEF LookedUp
      <3>. QED
        BY <1>3, <3>1, <3>2
    <2>6. CASE EndPurge(p)
      <3>1. pg'[p].at = "idle" /\ pg'[p].must = {}
        BY <2>6 DEF EndPurge, NoPurge, IndexInv, Types, TypeOK
      <3>. QED
        BY <3>1
    <2>7. ASSUME NEW q \in Purgers, q # p,
                 \/ BeginPurge(q) \/ PurgeTagGet(q) \/ PurgeTagDelete(q) \/ BulkDeleteKey(q)
                 \/ BulkDeleteTag(q) \/ PurgeAnswers(q) \/ EndPurge(q) \/ CdnSend(q)
          PROVE  pg'[p] = pg[p]
      BY <2>7 DEF BeginPurge, PurgeTagGet, PurgeTagDelete, BulkDeleteKey, KeyDeleted,
                  BulkDeleteTag, PurgeAnswers, EndPurge, CdnSend, IndexInv, Types, TypeOK
    <2>8. ASSUME \/ \E h \in Storers : StoreResponse(h) \/ StoreTagGet(h) \/ StoreTagSet(h)
                 \/ CdnSend(p) \/ Flush \/ UNCHANGED vars
          PROVE  pg'[p] = pg[p]
      BY <2>8 DEF StoreResponse, StoreTagGet, StoreTagSet, CdnSend, Flush, vars, purgeVars
    <2>. QED
      BY <2>1, <2>2, <2>3, <2>4, <2>5, <2>6, <2>7, <2>8 DEF Next
  <1>. QED
    BY <1>4 DEF PurgeInv, MustBeOld, WholeList, MustBeTaken

\* PurgeReaches: a purge that has been answered has deleted every response that
\* was indexed under one of its tags when it began, unless another purge is about
\* to, or each of these tags was being purged when it was stored; in every
\* interleaving of any number of goroutines and purges, when no tag is part of
\* the name of another, and a POST names one group.
THEOREM SurrogatePurgeReaches ==
  ASSUME Orderly, OneGroup
  PROVE  Spec => []PurgeReaches
  <1>1. IndexInv /\ PurgeInv /\ [Next]_vars => IndexInv' /\ PurgeInv'
    BY IndexStep, PurgeStep
  <1>. QED
    BY <1>1, PurgeInvReaches, InitIndexInv, InitPurgeInv, PTL DEF Spec

-----------------------------------------------------------------------------
(***************************************************************************)
(* What the CDN is told: each tag is in one of the requests that the       *)
(* goroutine of a purge has sent, or has yet to send.                      *)
(***************************************************************************)

\* The batch of the i-th tag of a list.
LEMMA BatchOf ==
  ASSUME NEW n \in Nat, NEW i \in 1..n
  PROVE  \E b \in 1..((n + MaxPerBatch - 1) \div MaxPerBatch) :
           (b - 1) * MaxPerBatch + 1 <= i /\ i <= b * MaxPerBatch
  <1>. DEFINE x == (i - 1) \div MaxPerBatch
              q == (n + MaxPerBatch - 1) \div MaxPerBatch
  <1>1. MaxPerBatch \in Nat /\ MaxPerBatch > 0
    BY SurrogateAssumption
  <1>2. x \in Nat /\ x * MaxPerBatch <= i - 1 /\ i - 1 < x * MaxPerBatch + MaxPerBatch
    BY <1>1
  <1>3. q \in Nat /\ n + MaxPerBatch - 1 < q * MaxPerBatch + MaxPerBatch
    BY <1>1
  <1>. HIDE DEF x, q
  <1>4. /\ x * MaxPerBatch \in Nat /\ q * MaxPerBatch \in Nat
        /\ (x + 1) * MaxPerBatch = x * MaxPerBatch + MaxPerBatch
    BY <1>1, <1>2, <1>3
  <1>5. x < q
    <2>1. q <= x => q * MaxPerBatch <= x * MaxPerBatch
      BY <1>1, <1>2, <1>3
    <2>. QED
      BY <1>1, <1>2, <1>3, <1>4, <2>1
  <1>6. x + 1 \in 1..q
    BY <1>2, <1>3, <1>5
  <1>7. PICK b \in 1..q : b = x + 1
    BY <1>6
  <1>8. (b - 1) * MaxPerBatch + 1 <= i /\ i <= b * MaxPerBatch
    <2>1. b - 1 = x
      BY <1>2, <1>7
    <2>2. (b - 1) * MaxPerBatch = x * MaxPerBatch /\ b * MaxPerBatch = x * MaxPerBatch + MaxPerBatch
      BY <1>4, <1>7, <2>1
    <2>. QED
      BY <1>1, <1>2, <1>4, <2>2
  <1>. QED
    BY <1>8 DEF q

\* An element between two places of a list is in the part between them.
LEMMA InPart ==
  ASSUME NEW list \in Seq(Tags), NEW m \in 1..Len(list), NEW e \in 1..Len(list),
         NEW i \in m..e
  PROVE  list[i] \in Listed(SubSeq(list, m, e))
  <1>1. i - m + 1 \in 1..Len(SubSeq(list, m, e)) /\ SubSeq(list, m, e)[i - m + 1] = list[i]
    OBVIOUS
  <1>2. DOMAIN SubSeq(list, m, e) = 1..Len(SubSeq(list, m, e))
    OBVIOUS
  <1>. QED
    BY <1>1, <1>2 DEF Listed

\* processBatches of Cloudflare leaves out none of the tags.
LEMMA BatchesCover ==
  ASSUME NEW list \in Seq(Tags), NEW i \in 1..Len(list)
  PROVE  \E b \in DOMAIN Batches(list) : list[i] \in Listed(Batches(list)[b])
  <1>. DEFINE q == (Len(list) + MaxPerBatch - 1) \div MaxPerBatch
  <1>1. PICK b \in 1..q : (b - 1) * MaxPerBatch + 1 <= i /\ i <= b * MaxPerBatch
    BY BatchOf
  <1>. DEFINE m == (b - 1) * MaxPerBatch + 1
              e == IF b * MaxPerBatch > Len(list) THEN Len(list) ELSE b * MaxPerBatch
  <1>2. DOMAIN Batches(list) = 1..q /\ Batches(list)[b] = SubSeq(list, m, e)
    BY DEF Batches
  <1>3. m \in 1..Len(list)
    BY BatchBounds
  <1>4. q \in Nat
    BY SurrogateAssumption
  <1>. HIDE DEF q
  <1>5. b * MaxPerBatch \in Int
    BY <1>4, SurrogateAssumption
  <1>6. e \in 1..Len(list) /\ i \in m..e
    BY <1>1, <1>3, <1>5
  <1>. HIDE DEF m, e
  <1>7. list[i] \in Listed(Batches(list)[b])
    BY <1>2, <1>3, <1>6, InPart
  <1>. QED
    BY <1>2, <1>7

\* The requests of a provider name every tag of the list.
LEMMA RequestsCover ==
  ASSUME NEW list \in Seq(Tags), NEW t \in Listed(list), Provider # "souin"
  PROVE  \E request \in Listed(CdnRequests(list)) : t \in Listed(request)
  <1>1. PICK i \in 1..Len(list) : t = list[i]
    BY DEF Listed
  <1>2. CASE Provider = "cloudflare"
    BY <1>1, <1>2, BatchesCover DEF CdnRequests, Listed
  <1>3. CASE Provider = "fastly"
    <2>1. CdnRequests(list) = FastlyRequests(list) /\ DOMAIN list = 1..Len(list)
      BY <1>3 DEF CdnRequests
    <2>2. i \in DOMAIN FastlyRequests(list) /\ FastlyRequests(list)[i] = <<t>>
      BY <1>1, <2>1 DEF FastlyRequests
    <2>3. t \in Listed(<<t>>)
      BY DEF Listed
    <2>. QED
      BY <2>1, <2>2, <2>3 DEF Listed
  <1>4. CASE Provider = "akamai"
    <2>1. CdnRequests(list) = <<list>>
      BY <1>4 DEF CdnRequests, AkamaiRequests
    <2>2. list \in Listed(<<list>>)
      BY DEF Listed
    <2>. QED
      BY <2>1, <2>2
  <1>. QED
    BY <1>2, <1>3, <1>4, SurrogateAssumption DEF CDNs

\* The purge has started its goroutine for the CDN.
Announces(p) ==
  pg[p].at \in {"keys", "end"} /\ pg[p].kind # "invalidate" /\ Provider # "souin"
NamedTags(p) == Listed(Surrogates(pg[p].kind, pg[p].list))

CdnInv ==
  /\ Types
  /\ \A p \in Purgers : Announces(p) =>
       \A t \in NamedTags(p) :
         t \in told[p] \/ \E request \in Listed(outbox[p]) : t \in Listed(request)

\* Every step keeps it.
LEMMA CdnStep ==
  ASSUME ClientSends, CdnInv, [Next]_vars
  PROVE  CdnInv'
  <1>1. Types'
    BY TypesStep DEF CdnInv
  <1>2. ASSUME NEW p \in Purgers, Announces(p)',
               pg'[p].kind = pg[p].kind, pg'[p].list = pg[p].list, Announces(p),
               told'[p] = told[p], outbox'[p] = outbox[p]
        PROVE  \A t \in NamedTags(p)' :
                 t \in told'[p] \/ \E request \in Listed(outbox'[p]) : t \in Listed(request)
    BY <1>2 DEF CdnInv, NamedTags
  <1>3. ASSUME NEW p \in Purgers, Announces(p)'
        PROVE  \A t \in NamedTags(p)' :
                 t \in told'[p] \/ \E request \in Listed(outbox'[p]) : t \in Listed(request)
    <2>1. pg[p] \in Purge /\ pg[p].list \in Seq(Tags) /\ outbox[p] \in Seq(Seq(Tags))
      BY DEF CdnInv, Types, TypeOK, Purge
    <2>2. CASE UNCHANGED <<pg, told, outbox>>
      BY <1>2, <1>3, <2>2 DEF Announces
    <2>3. ASSUME NEW h \in Storers, StoreResponse(h) \/ StoreTagGet(h) \/ StoreTagSet(h)
          PROVE  UNCHANGED <<pg, told, outbox>>
      BY <2>3 DEF StoreResponse, StoreTagGet, StoreTagSet, purgeVars
    <2>4. CASE Flush
      BY <2>2, <2>4 DEF Flush
    <2>5. CASE UNCHANGED vars
      BY <2>2, <2>5 DEF vars, purgeVars
    <2>6. ASSUME NEW o \in Purgers, o # p,
                 \/ BeginPurge(o) \/ PurgeTagGet(o) \/ PurgeTagDelete(o) \/ BulkDeleteKey(o)
                 \/ BulkDeleteTag(o) \/ PurgeAnswers(o) \/ EndPurge(o) \/ CdnSend(o)
          PROVE  pg'[p] = pg[p] /\ told'[p] = told[p] /\ outbox'[p] = outbox[p]
      BY <2>6 DEF BeginPurge, PurgeTagGet, PurgeTagDelete, BulkDeleteKey, KeyDeleted,
                  BulkDeleteTag, PurgeAnswers, EndPurge, CdnSend, CdnInv, Types, TypeOK
    <2>7. CASE BeginPurge(p) \/ PurgeTagGet(p) \/ EndPurge(p)
      BY <1>3, <2>1, <2>7 DEF BeginPurge, PurgeTagGet, EndPurge, NoPurge, Announces, Purge,
                  CdnInv, Types, TypeOK
    <2>8. CASE BulkDeleteKey(p) \/ BulkDeleteTag(p) \/ PurgeAnswers(p)
      <3>1. /\ pg'[p].kind = pg[p].kind /\ pg'[p].list = pg[p].list /\ pg[p].at = "keys"
            /\ UNCHANGED <<told, outbox>>
        BY <2>1, <2>8 DEF BulkDeleteKey, KeyDeleted, BulkDeleteTag, PurgeAnswers, Purge,
                          CdnInv, Types, TypeOK
      <3>. QED
        BY <1>2, <1>3, <3>1 DEF Announces
    <2>9. CASE PurgeTagDelete(p)
      <3>1. /\ pg'[p].kind = pg[p].kind /\ pg'[p].list = pg[p].list /\ pg[p].at = "delete"
            /\ pg'[p].at \in {"keys", "end"} /\ pg[p].kind # "invalidate"
                 => outbox'[p] = CdnRequests(Surrogates(pg[p].kind, pg[p].list))
        BY <2>1, <2>9 DEF PurgeTagDelete, Purge, CdnInv, Types, TypeOK
      <3>2. pg[p].list # <<>>
        BY <3>1 DEF CdnInv, Types, HasList, Active
      <3>3. Surrogates(pg[p].kind, pg[p].list) \in Seq(Tags)
        BY <2>1, <3>2, SurrogatesType
      <3>4. NamedTags(p)' = Listed(Surrogates(pg[p].kind, pg[p].list))
        BY <3>1 DEF NamedTags
      <3>. QED
        BY <1>3, <3>1, <3>3, <3>4, RequestsCover DEF Announces
    <2>10. CASE CdnSend(p)
      <3>1. /\ pg' = pg /\ outbox[p] # <<>> /\ outbox'[p] = Tail(outbox[p])
            /\ told'[p] = told[p] \union Listed(Head(outbox[p]))
        BY <2>10 DEF CdnSend, CdnInv, Types, TypeOK
      <3>2. Listed(outbox[p]) = {Head(outbox[p])} \union Listed(Tail(outbox[p]))
        BY <2>1, <3>1, ListedTail
      <3>3. Announces(p) /\ NamedTags(p)' = NamedTags(p)
        BY <1>3, <3>1 DEF Announces, NamedTags
      <3>. QED
        BY <3>1, <3>2, <3>3 DEF CdnInv
    <2>11. ASSUME NEW o \in Purgers, o # p, pg'[p] = pg[p] /\ told'[p] = told[p] /\ outbox'[p] = outbox[p]
           PROVE  \A t \in NamedTags(p)' :
                    t \in told'[p] \/ \E request \in Listed(outbox'[p]) : t \in Listed(request)
      BY <1>2, <1>3, <2>11 DEF Announces
    <2>. QED
      BY <2>2, <2>3, <2>4, <2>5, <2>6, <2>7, <2>8, <2>9, <2>10, <2>11 DEF Next
  <1>. QED
    BY <1>1, <1>3 DEF CdnInv

\* CdnTold: once the goroutine of a purge has sent its requests, the CDN has been
\* told of every tag, whatever the number of tags is to the size of a batch.
\* The requests to Fastly are never sent (the client refuses their RequestURI).
THEOREM CdnIsTold ==
  ASSUME ClientSends
  PROVE  Spec => []CdnTold
  <1>1. Init => CdnInv
    BY InitTypes DEF Init, NoPurge, CdnInv, Announces
  <1>2. CdnInv => CdnTold
    BY ListedType DEF CdnInv, CdnTold, Announces, NamedTags
  <1>3. CdnInv /\ [Next]_vars => CdnInv'
    BY CdnStep
  <1>. QED
    BY <1>1, <1>2, <1>3, PTL DEF Spec

=============================================================================
