------------------------- MODULE CacheDecisionProofs -------------------------
(* Theorems about CacheDecision, checked by TLAPS.                           *)
EXTENDS CacheDecision, WellFoundedInduction, TLAPS

-----------------------------------------------------------------------------
(* Facts about the operators.                                                *)

\* The first of the storers up to N + 1 that satisfy a condition exists.
LEMMA FirstExists ==
  ASSUME NEW S, S \subseteq 1..(N + 1), S # {}
  PROVE  \E i \in S : \A j \in 1..(i - 1) : j \notin S
  <1>1. N \in Nat
    BY DecisionAssumption
  <1>2. S \subseteq Nat
    BY <1>1
  <1>. DEFINE R == OpToRel(<, Nat)
  <1>3. \A x, y \in Nat : x < y => <<x, y>> \in R
    BY DEF OpToRel
  <1>4. IsWellFoundedOn(R, Nat)
    BY NatLessThanWellFounded
  <1>. HIDE DEF R
  <1>5. PICK i \in S : \A j \in S : ~(<<j, i>> \in R)
    BY <1>2, <1>4, WFMin
  <1>6. ASSUME NEW j \in 1..(i - 1), j \in S PROVE FALSE
    <2>1. i \in Nat /\ j \in Nat
      BY <1>2, <1>6
    <2>2. j < i
      BY <2>1
    <2>. QED
      BY <1>3, <1>5, <1>6, <2>1, <2>2
  <1>. QED
    BY <1>6

\* What the lookup finds may be used.
LEMMA FoundIsUsable ==
  ASSUME NEW r, Found(r) \in Storers
  PROVE  Usable(Entry(r), r)
  <1>. DEFINE S == {i \in 1..(N + 1) : i \in Storers => Usable(store[i], r)}
  <1>1. N \in Nat
    BY DecisionAssumption
  <1>2. N + 1 \in S
    BY <1>1 DEF Storers
  <1>3. PICK i \in S : \A j \in 1..(i - 1) : j \notin S
    BY <1>2, FirstExists, S \subseteq 1..(N + 1)
  <1>4. \A j \in 1..(i - 1) : j \in 1..(N + 1)
    BY <1>1
  <1>5. /\ i \in 1..(N + 1) /\ i \in Storers => Usable(store[i], r)
        /\ \A j \in 1..(i - 1) : ~Usable(store[j], r)
    BY <1>3, <1>4
  <1>6. Found(r) \in Storers => Usable(store[Found(r)], r)
    BY <1>5 DEF Found
  <1>. QED
    BY <1>6 DEF Entry

\* The largest of three numbers is not less than any of them.
LEMMA LargestOfThree ==
  ASSUME NEW a \in Int, NEW b \in Int, NEW c \in Int
  PROVE  Max({a, b, c}) \in Int /\ \A x \in {a, b, c} : x <= Max({a, b, c})
  <1>1. \E x \in {a, b, c} : \A y \in {a, b, c} : x >= y
    <2>1. CASE a >= b /\ a >= c
      BY <2>1
    <2>2. CASE b >= a /\ b >= c
      BY <2>2
    <2>3. CASE c >= a /\ c >= b
      BY <2>3
    <2>. QED
      BY <2>1, <2>2, <2>3
  <1>2. Max({a, b, c}) \in {a, b, c} /\ \A y \in {a, b, c} : Max({a, b, c}) >= y
    BY <1>1 DEF Max
  <1>. QED
    BY <1>2

-----------------------------------------------------------------------------
(* The responses that are stored, copied and served.                         *)

Entries == [id : Nat, etag : STRING, age : Int, date : Int, ttl : Nat, sMaxAge : Int, maxAge : Int,
            noCache : BOOLEAN, mustRevalidate : BOOLEAN, staleWhileRevalidate : Int,
            staleIfError : Int, whole : BOOLEAN, freshUntil : Int, staleUntil : Int]

\* A response has the ETag and the Age that an upstream server has sent.
Origin(e) == \E u \in Upstreams :
  e.etag = u.etag /\ e.age = u.age

\* A response is fresh until its lifetime has passed since its Date, and kept as
\* a stale one for Stale more; the lifetime is the one that its directives say,
\* and its Date is not to come.
Lifetime(e) ==
  /\ e.date <= clock
  /\ e.freshUntil <= e.date + e.ttl
  /\ e.staleUntil <= e.date + e.ttl + Stale
  /\ ~BypassResponse => /\ e.sMaxAge > -1 => e.ttl = e.sMaxAge
                        /\ ~(e.sMaxAge > -1) /\ e.maxAge > -1 => e.ttl = e.maxAge

Good(e) == e \in Entries /\ Origin(e) /\ Lifetime(e)

\* The inductive invariant: what is stored, and what is about to be copied.
DecisionInv ==
  /\ clock \in Nat /\ stored \in Nat
  /\ store = [i \in Storers |-> store[i]]
  /\ \A i \in Storers : store[i] # None => Good(store[i])
  /\ \A c \in copies : Good(c.entry)

LEMMA GoodTypes ==
  ASSUME NEW e, Good(e)
  PROVE  /\ e.age \in Int /\ e.date \in Int /\ e.ttl \in Nat /\ e.sMaxAge \in Int
         /\ e.maxAge \in Int /\ e.staleIfError \in Int /\ e.freshUntil \in Int
         /\ e.staleUntil \in Int /\ e.staleWhileRevalidate \in Int
         /\ e.date <= clock
  BY DEF Good, Entries, Lifetime

\* The age of a good response is its age when it was stored and what has passed
\* since its Date.
LEMMA AgeOfGood ==
  ASSUME NEW e, Good(e), clock \in Nat
  PROVE  Age(e) = e.age + (clock - e.date)
  <1>1. e.age \in Int /\ e.date \in Int /\ e.date <= clock
    BY GoodTypes
  <1>2. CASE clock > e.date
    BY <1>2 DEF Age
  <1>3. CASE e.date = clock
    BY <1>1, <1>3 DEF Age
  <1>. QED
    BY <1>1, <1>2, <1>3

\* What is stored is good.
LEMMA StoredIsGood ==
  ASSUME DecisionInv, NEW r \in Requests, NEW u \in Upstreams, MayStore(r, u)
  PROVE  Good(Stored(r, u))
  <1>. DEFINE e == Stored(r, u)
  <1>1. /\ {u.sMaxAge, u.maxAge, u.expires, u.age, u.staleWhileRevalidate, u.staleIfError} \subseteq Int
        /\ u.etag \in STRING
        /\ u.noCache \in BOOLEAN /\ u.mustRevalidate \in BOOLEAN /\ u.dated \in BOOLEAN
        /\ r.skew \in Nat
    BY UpstreamsAssumption, RequestsAssumption
  <1>2. DefaultTTL \in Nat /\ Stale \in Nat /\ clock \in Nat /\ stored \in Nat
    BY DecisionAssumption DEF DecisionInv
  <1>3. MaxAge(u) \in Nat
    <2>1. ~ExpiresRefused(u)
      BY DEF MayStore
    <2>2. u.sMaxAge \in Int /\ u.maxAge \in Int /\ u.expires \in Int
      BY <1>1
    <2>3. CASE BypassResponse
      BY <1>2, <2>3 DEF MaxAge
    <2>4. CASE ~BypassResponse
      BY <1>2, <2>1, <2>2, <2>4 DEF MaxAge, ExpiresRefused
    <2>. QED
      BY <2>3, <2>4
  <1>4. ~BypassResponse => /\ u.sMaxAge > -1 => MaxAge(u) = u.sMaxAge
                           /\ ~(u.sMaxAge > -1) /\ u.maxAge > -1 => MaxAge(u) = u.maxAge
    BY <1>1 DEF MaxAge
  <1>5. PICK date : date = (IF u.dated THEN clock ELSE clock - r.skew)
    OBVIOUS
  <1>6. date \in Int /\ date <= clock /\ clock - r.skew <= date
    BY <1>1, <1>2, <1>5
  <1>7. e = [id |-> stored + 1, etag |-> u.etag, age |-> u.age, date |-> date,
             ttl |-> MaxAge(u), sMaxAge |-> u.sMaxAge, maxAge |-> u.maxAge,
             noCache |-> u.noCache, mustRevalidate |-> u.mustRevalidate,
             staleWhileRevalidate |-> u.staleWhileRevalidate, staleIfError |-> u.staleIfError,
             whole |-> TRUE, freshUntil |-> clock + MaxAge(u) - r.skew,
             staleUntil |-> clock + MaxAge(u) - r.skew + Stale]
    BY <1>5 DEF Stored
  <1>. HIDE DEF e
  <1>8. e \in Entries
    BY <1>1, <1>2, <1>3, <1>6, <1>7 DEF Entries
  <1>9. Origin(e)
    BY <1>7 DEF Origin
  <1>10. Lifetime(e)
    BY <1>1, <1>2, <1>3, <1>4, <1>6, <1>7 DEF Lifetime
  <1>. QED
    BY <1>8, <1>9, <1>10 DEF Good, e

\* A copy that a later storer's response is made into is good.
LEMMA CopyIsGood ==
  ASSUME DecisionInv, NEW e, Good(e)
  PROVE  Good(Copy(e))
  <1>. DEFINE left == e.ttl - (clock - e.date)
  <1>1. e \in Entries /\ clock \in Nat /\ Stale \in Nat
    BY DecisionAssumption DEF Good, DecisionInv
  <1>2. PICK f, s : f = clock + left /\ s = clock + left + Stale
    OBVIOUS
  <1>3. Copy(e) = [e EXCEPT !.freshUntil = f, !.staleUntil = s]
    BY <1>2 DEF Copy
  <1>4. f \in Int /\ s \in Int /\ f <= e.date + e.ttl /\ s <= e.date + e.ttl + Stale
    BY <1>1, <1>2 DEF Entries
  <1>5. /\ Copy(e) \in Entries /\ Copy(e).freshUntil = f /\ Copy(e).staleUntil = s
        /\ Copy(e).etag = e.etag /\ Copy(e).age = e.age
        /\ Copy(e).date = e.date /\ Copy(e).ttl = e.ttl
        /\ Copy(e).sMaxAge = e.sMaxAge /\ Copy(e).maxAge = e.maxAge
    BY <1>1, <1>3, <1>4 DEF Entries
  <1>. QED
    BY <1>4, <1>5 DEF Good, Origin, Lifetime

\* A response whose body has been drained is as good as before.
LEMMA DrainedIsGood ==
  ASSUME NEW e, Good(e), NEW whole \in BOOLEAN
  PROVE  Good([e EXCEPT !.whole = @ /\ whole])
  <1>1. e \in Entries
    BY DEF Good
  <1>2. PICK w \in BOOLEAN : w = (e.whole /\ whole)
    OBVIOUS
  <1>3. PICK f : f = [e EXCEPT !.whole = w]
    OBVIOUS
  <1>4. /\ f \in Entries /\ f.freshUntil = e.freshUntil /\ f.staleUntil = e.staleUntil
        /\ f.etag = e.etag /\ f.age = e.age
        /\ f.date = e.date /\ f.ttl = e.ttl
        /\ f.sMaxAge = e.sMaxAge /\ f.maxAge = e.maxAge
    BY <1>1, <1>3 DEF Entries
  <1>5. Good(f)
    BY <1>4 DEF Good, Origin, Lifetime
  <1>. QED
    BY <1>2, <1>3, <1>5

\* What the lookup finds is good.
LEMMA FoundIsGood ==
  ASSUME DecisionInv, NEW r, Found(r) \in Storers
  PROVE  Good(Entry(r))
  <1>1. Entry(r) # None
    BY FoundIsUsable DEF Usable
  <1>. QED
    BY <1>1 DEF Entry, DecisionInv

-----------------------------------------------------------------------------
(* The invariant is kept by every step.                                      *)

\* Time passes for a good response, the mode stays.
LEMMA GoodLater ==
  ASSUME NEW e, Good(e), clock \in Nat, clock' \in Nat, clock <= clock', mode' = mode
  PROVE  Good(e)'
  BY DEF Good, Lifetime, Origin, BypassResponse, Entries

\* What a hit has copied is good.
LEMMA CopiesAreGood ==
  ASSUME DecisionInv, NEW r, NEW whole \in BOOLEAN, NEW c \in Copies(r, whole)
  PROVE  Good(c.entry)
  <1>1. Found(r) \in Storers /\ c.entry = [Entry(r) EXCEPT !.whole = @ /\ whole]
    BY DEF Copies, HasFresh
  <1>. QED
    BY <1>1, FoundIsGood, DrainedIsGood

\* Storing an answer keeps the invariant.
LEMMA StoreKeeps ==
  ASSUME DecisionInv, NEW r \in Requests, NEW u \in Upstreams, NEW failing, Store(r, u, failing)
  PROVE  /\ stored' \in Nat /\ store' = [i \in Storers |-> store'[i]]
         /\ \A i \in Storers : store'[i] # None => Good(store'[i])
  <1>1. CASE MayStore(r, u)
    <2>1. PICK e : e = Stored(r, u)
      OBVIOUS
    <2>2. Good(e)
      BY <1>1, <2>1, StoredIsGood
    <2>3. /\ store' = [i \in Storers |-> IF i \in failing THEN store[i] ELSE e]
          /\ stored' = stored + 1
      BY <1>1, <2>1 DEF Store
    <2>. QED
      BY <2>2, <2>3 DEF DecisionInv
  <1>2. CASE ~MayStore(r, u)
    BY <1>2 DEF Store, DecisionInv
  <1>. QED
    BY <1>1, <1>2

\* The parts of the invariant, at the end of a step: what is good now stays so.
LEMMA InvLater ==
  ASSUME DecisionInv, mode' = mode, clock' \in Nat, clock <= clock', stored' \in Nat,
         store' = [i \in Storers |-> store'[i]],
         \A i \in Storers : store'[i] # None => Good(store'[i]),
         \A c \in copies' : Good(c.entry)
  PROVE  DecisionInv'
  <1>1. \A e : Good(e) => Good(e)'
    BY GoodLater DEF DecisionInv
  <1>2. ASSUME NEW i \in Storers, store'[i] # None PROVE Good(store[i])'
    <2>1. PICK e : e = store'[i]
      OBVIOUS
    <2>2. Good(e)'
      BY <1>1, <1>2, <2>1
    <2>. QED
      BY <2>1, <2>2
  <1>3. ASSUME NEW c \in copies' PROVE Good(c.entry)'
    BY <1>1, <1>3
  <1>. QED
    BY <1>2, <1>3 DEF DecisionInv

\* A step that starts copies leaves good ones.
LEMMA StartedIsGood ==
  ASSUME DecisionInv, NEW r, NEW whole \in BOOLEAN, Started(Copies(r, whole))
  PROVE  \A c \in copies' : Good(c.entry)
  BY CopiesAreGood DEF Started, DecisionInv

LEMMA DecisionInit == Init => DecisionInv
  <1>1. \A i \in Storers : [j \in Storers |-> None][i] = None
    OBVIOUS
  <1>. QED
    BY <1>1 DEF Init, DecisionInv

LEMMA DecisionStep == DecisionInv /\ [Next]_vars => DecisionInv'
  <1>. SUFFICES ASSUME DecisionInv, [Next]_vars PROVE DecisionInv'
    OBVIOUS
  <1>0. /\ clock \in Nat /\ stored \in Nat /\ store = [i \in Storers |-> store[i]]
        /\ \A i \in Storers : store[i] # None => Good(store[i])
        /\ \A c \in copies : Good(c.entry)
    BY DEF DecisionInv
  <1>1. ASSUME NEW r \in Requests, Pass(r) PROVE DecisionInv'
    <2>1. /\ clock' = clock /\ mode' = mode /\ copies' = copies /\ stored' = stored
          /\ store' \in {store, [i \in Storers |-> None]}
      BY <1>1 DEF Pass
    <2>2. /\ store' = [i \in Storers |-> store'[i]]
          /\ \A i \in Storers : store'[i] # None => Good(store'[i])
      BY <1>0, <2>1
    <2>. QED
      BY <1>0, <2>1, <2>2, InvLater
  <1>2. ASSUME NEW r \in Requests, NotModified(r) PROVE DecisionInv'
    <2>1. PICK whole \in BOOLEAN : whole = TRUE
      OBVIOUS
    <2>2. /\ clock' = clock /\ mode' = mode /\ store' = store /\ stored' = stored
          /\ Started(Copies(r, whole))
      BY <1>2, <2>1 DEF NotModified
    <2>. QED
      BY <1>0, <2>2, StartedIsGood, InvLater
  <1>3. ASSUME NEW r \in Requests, ServeStale(r) PROVE DecisionInv'
    BY <1>0, <1>3, InvLater DEF ServeStale
  <1>4. ASSUME NEW r \in Requests, Forward(r) PROVE DecisionInv'
    <2>1. PICK u \in Upstreams, failing \in Failing :
            IF u.code = "error" THEN UNCHANGED <<store, stored>> ELSE Store(r, u, failing)
      BY <1>4 DEF Forward
    <2>2. /\ stored' \in Nat /\ store' = [i \in Storers |-> store'[i]]
          /\ \A i \in Storers : store'[i] # None => Good(store'[i])
      BY <1>0, <2>1, StoreKeeps
    <2>3. PICK whole \in BOOLEAN : whole = TRUE
      OBVIOUS
    <2>4. clock' = clock /\ mode' = mode /\ Started(Copies(r, whole))
      BY <1>4, <2>3 DEF Forward
    <2>. QED
      BY <1>0, <2>2, <2>4, StartedIsGood, InvLater
  <1>5. ASSUME NEW r \in Requests, Revalidate(r) PROVE DecisionInv'
    <2>1. PICK u \in Upstreams, failing \in Failing :
            IF Fails(u) \/ u.code = "304" THEN UNCHANGED <<store, stored>> ELSE Store(r, u, failing)
      BY <1>5 DEF Revalidate
    <2>2. /\ stored' \in Nat /\ store' = [i \in Storers |-> store'[i]]
          /\ \A i \in Storers : store'[i] # None => Good(store'[i])
      BY <1>0, <2>1, StoreKeeps
    <2>3. PICK whole \in BOOLEAN : whole = TRUE
      OBVIOUS
    <2>4. clock' = clock /\ mode' = mode /\ Started(Copies(r, whole))
      BY <1>5, <2>3 DEF Revalidate
    <2>. QED
      BY <1>0, <2>2, <2>4, StartedIsGood, InvLater
  <1>6. ASSUME NEW r \in Requests, NEW drained \in BOOLEAN, Hit(r, drained) PROVE DecisionInv'
    BY <1>0, <1>6, StartedIsGood, InvLater DEF Hit
  <1>7. ASSUME NEW c \in copies, Backfill(c) PROVE DecisionInv'
    <2>1. PICK e : e = Copy(c.entry)
      OBVIOUS
    <2>2. Good(e)
      BY <1>0, <2>1, CopyIsGood
    <2>3. /\ clock' = clock /\ mode' = mode /\ copies' = copies \ {c} /\ stored' = stored
          /\ store' = [i \in Storers |-> IF i <= c.upTo THEN e ELSE store[i]]
      BY <1>7, <2>1 DEF Backfill
    <2>4. /\ store' = [i \in Storers |-> store'[i]]
          /\ \A i \in Storers : store'[i] # None => Good(store'[i])
      BY <1>0, <2>2, <2>3
    <2>. QED
      BY <1>0, <2>3, <2>4, InvLater
  <1>8. ASSUME NEW j \in Storers, Drop(j) PROVE DecisionInv'
    <2>1. /\ clock' = clock /\ mode' = mode /\ copies' = copies /\ stored' = stored
          /\ store' = [store EXCEPT ![j] = None]
      BY <1>8 DEF Drop
    <2>2. /\ store' = [i \in Storers |-> store'[i]]
          /\ \A i \in Storers : store'[i] # None => Good(store'[i])
      BY <1>0, <2>1
    <2>. QED
      BY <1>0, <2>1, <2>2, InvLater
  <1>9. CASE Purge
    <2>1. /\ clock' = clock /\ mode' = mode /\ copies' = copies /\ stored' = stored
          /\ store' = [i \in Storers |-> None]
      BY <1>9 DEF Purge
    <2>. QED
      BY <1>0, <2>1, InvLater
  <1>10. CASE Tick
    <2>1. /\ clock' = clock + 1 /\ mode' = mode /\ copies' = copies /\ stored' = stored
          /\ store' = store
      BY <1>10 DEF Tick
    <2>. QED
      BY <1>0, <2>1, InvLater
  <1>11. CASE UNCHANGED vars
    BY <1>0, <1>11, InvLater DEF vars
  <1>. QED
    BY <1>1, <1>2, <1>3, <1>4, <1>5, <1>6, <1>7, <1>8, <1>9, <1>10, <1>11 DEF Next

-----------------------------------------------------------------------------
(* What the ways of ServeHTTP say of the response that was found.            *)

LEMMA FreshWays ==
  ASSUME NEW r \in Requests, Way(r) \in {"hit", "not modified"}
  PROVE  HasFresh(r) /\ Way(r) = FreshWay(r)
  <1>1. StaleWay(r) \in {"upstream", "stale, revalidate later", "revalidate stale", "stale"}
    BY DEF StaleWay
  <1>2. UnaskedStaleWay(r) \in {"stale", "revalidate or stale", "upstream"}
    BY DEF UnaskedStaleWay
  <1>. QED
    BY <1>1, <1>2 DEF Way

LEMMA StaleWays ==
  ASSUME NEW r \in Requests, Way(r) \in {"stale", "stale, revalidate later", "revalidate stale", "revalidate or stale"}
  PROVE  HasStale(r) /\ Way(r) \in {StaleWay(r), UnaskedStaleWay(r)}
  <1>1. FreshWay(r) \in {"not modified", "hit", "revalidate", "upstream"}
    BY DEF FreshWay
  <1>. QED
    BY <1>1 DEF Way

-----------------------------------------------------------------------------
(* Answers from the cache.                                                   *)

\* The answer a was made of the response found for the request r, on the way
\* that r has taken.
AnswerOf(r, a) ==
  /\ Good(Entry(r))
  /\ a.entry.sMaxAge = Entry(r).sMaxAge /\ a.entry.maxAge = Entry(r).maxAge
  /\ a.entry.ttl = Entry(r).ttl /\ a.entry.age = Entry(r).age
  /\ a.entry.staleIfError = Entry(r).staleIfError
  /\ a.entry.staleWhileRevalidate = Entry(r).staleWhileRevalidate
  /\ a.age = Entry(r).age + (clock - Entry(r).date)
  /\ a.maxStaleSet = r.maxStaleSet /\ a.maxStale = r.maxStale /\ a.staleIfError = r.staleIfError
  /\ a.from = "hit" => Way(r) = "hit"
  /\ a.from = "not modified" /\ ~a.asked => Way(r) = "not modified"
  /\ a.from = "stale" => Way(r) \in {"stale", "stale, revalidate later"}

LEMMA FromCacheIsOf ==
  ASSUME DecisionInv, NEW r \in Requests, Found(r) \in Storers, NEW how,
         how = "hit" => Way(r) = "hit",
         how = "not modified" => Way(r) = "not modified",
         how = "stale" => Way(r) \in {"stale", "stale, revalidate later"}
  PROVE  AnswerOf(r, FromCache(r, how))
  BY FoundIsGood DEF AnswerOf, FromCache

LEMMA FromCacheDrained ==
  ASSUME DecisionInv, NEW r \in Requests, Found(r) \in Storers, Way(r) = "hit", NEW drained
  PROVE  AnswerOf(r, [FromCache(r, "hit") EXCEPT !.entry.whole = @ /\ ~drained])
  <1>. DEFINE a == [FromCache(r, "hit") EXCEPT !.entry.whole = @ /\ ~drained]
  <1>1. Good(Entry(r)) /\ Entry(r) \in Entries
    BY FoundIsGood DEF Good
  <1>2. PICK w : w = (FromCache(r, "hit").entry.whole /\ ~drained)
    OBVIOUS
  <1>3. a = [FromCache(r, "hit") EXCEPT !.entry = [Entry(r) EXCEPT !.whole = w]]
    BY <1>2 DEF FromCache
  <1>4. PICK e : e = [Entry(r) EXCEPT !.whole = w]
    OBVIOUS
  <1>5. /\ e.sMaxAge = Entry(r).sMaxAge /\ e.maxAge = Entry(r).maxAge
        /\ e.ttl = Entry(r).ttl /\ e.age = Entry(r).age
        /\ e.staleIfError = Entry(r).staleIfError
        /\ e.staleWhileRevalidate = Entry(r).staleWhileRevalidate
    BY <1>1, <1>4 DEF Entries
  <1>6. a = [FromCache(r, "hit") EXCEPT !.entry = e]
    BY <1>3, <1>4
  <1>7. /\ a.from = "hit" /\ a.entry = e
        /\ a.age = Entry(r).age + (clock - Entry(r).date)
        /\ a.maxStaleSet = r.maxStaleSet /\ a.maxStale = r.maxStale /\ a.staleIfError = r.staleIfError
    BY <1>6 DEF FromCache
  <1>. QED
    BY <1>1, <1>5, <1>7 DEF AnswerOf

\* Whatever answers, it is the upstream server or a response that was found.
LEMMA Answers ==
  ASSUME DecisionInv, Next
  PROVE  /\ mode' = mode
         /\ \/ answer'.from \in {"upstream", "nobody"}
            \/ \E r \in Requests : AnswerOf(r, answer')
  <1>1. ASSUME NEW r \in Requests, NotModified(r) PROVE AnswerOf(r, answer') /\ mode' = mode
    <2>1. Way(r) = "not modified" /\ answer' = FromCache(r, "not modified") /\ mode' = mode
      BY <1>1 DEF NotModified
    <2>2. Found(r) \in Storers
      BY <2>1, FreshWays DEF HasFresh
    <2>. QED
      BY <2>1, <2>2, FromCacheIsOf
  <1>2. ASSUME NEW r \in Requests, NEW drained \in BOOLEAN, Hit(r, drained)
        PROVE  AnswerOf(r, answer') /\ mode' = mode
    <2>1. /\ Way(r) = "hit" /\ mode' = mode
          /\ answer' = [FromCache(r, "hit") EXCEPT !.entry.whole = @ /\ ~drained]
      BY <1>2 DEF Hit
    <2>2. Found(r) \in Storers
      BY <2>1, FreshWays DEF HasFresh
    <2>. QED
      BY <2>1, <2>2, FromCacheDrained
  <1>3. ASSUME NEW r \in Requests, ServeStale(r) PROVE AnswerOf(r, answer') /\ mode' = mode
    <2>1. Way(r) = "stale" /\ answer' = FromCache(r, "stale") /\ mode' = mode
      BY <1>3 DEF ServeStale
    <2>2. Found(r) \in Storers
      BY <2>1, StaleWays DEF HasStale
    <2>. QED
      BY <2>1, <2>2, FromCacheIsOf
  <1>4. ASSUME NEW r \in Requests, Revalidate(r)
        PROVE  /\ mode' = mode
               /\ answer'.from = "upstream" \/ AnswerOf(r, answer')
    <2>1. PICK u \in Upstreams : answer' = Revalidated(r, u)
      BY <1>4 DEF Revalidate
    <2>2. mode' = mode
      BY <1>4 DEF Revalidate
    <2>3. CASE Way(r) \in {"stale, revalidate later", "revalidate stale", "revalidate or stale"}
      <3>1. Found(r) \in Storers
        BY <2>3, StaleWays DEF HasStale
      <3>2. PICK a : a = [FromCache(r, "not modified") EXCEPT !.asked = TRUE, !.changed = TRUE]
        OBVIOUS
      <3>3. AnswerOf(r, a)
        <4>1. Good(Entry(r))
          BY <3>1, FoundIsGood
        <4>2. /\ a.from = "not modified" /\ a.asked /\ a.entry = Entry(r)
              /\ a.age = Entry(r).age + (clock - Entry(r).date)
              /\ a.maxStaleSet = r.maxStaleSet /\ a.maxStale = r.maxStale
              /\ a.staleIfError = r.staleIfError
          BY <3>2 DEF FromCache
        <4>. QED
          BY <4>1, <4>2 DEF AnswerOf
      <3>4. /\ AnswerOf(r, FromCache(r, "stale for error"))
            /\ AnswerOf(r, FromCache(r, "revalidated"))
            /\ Way(r) = "stale, revalidate later" => AnswerOf(r, FromCache(r, "stale"))
        BY <3>1, FromCacheIsOf
      <3>5. answer' \in {FromCache(r, "stale for error"), FromCache(r, "revalidated"), a, FromUpstream}
            \/ (Way(r) = "stale, revalidate later" /\ answer' = FromCache(r, "stale"))
        BY <2>1, <3>2 DEF Revalidated
      <3>6. FromUpstream.from = "upstream"
        BY DEF FromUpstream
      <3>. QED
        BY <2>2, <3>2, <3>3, <3>4, <3>5, <3>6
    <2>4. CASE Way(r) \notin {"stale, revalidate later", "revalidate stale", "revalidate or stale"}
      BY <2>1, <2>2, <2>4 DEF Revalidated, FromUpstream
    <2>. QED
      BY <2>3, <2>4
  <1>5. ASSUME NEW r \in Requests, Pass(r) \/ Forward(r)
        PROVE  answer'.from = "upstream" /\ mode' = mode
    <2>1. answer' = FromUpstream /\ mode' = mode
      BY <1>5 DEF Pass, Forward
    <2>. QED
      BY <2>1 DEF FromUpstream
  <1>6. ASSUME \/ \E c \in copies : Backfill(c)
               \/ \E i \in Storers : Drop(i)
               \/ Purge \/ Tick
        PROVE  answer'.from = "nobody" /\ mode' = mode
    BY <1>6 DEF Backfill, Drop, Purge, Tick, NoAnswer
  <1>. QED
    BY <1>1, <1>2, <1>3, <1>4, <1>5, <1>6 DEF Next

-----------------------------------------------------------------------------
(* The theorems.                                                             *)

LEMMA DecisionInvariant == Spec => []DecisionInv
  BY DecisionInit, DecisionStep, PTL DEF Spec

\* The upstream server sends no ETag with a response that has an Age already:
\* ServeHTTP serves a response with an ETag before it looks at its age.
TaggedAreNew == \A u \in Upstreams : u.etag # "" => u.age <= 0

LEMMA FreshEnoughStep ==
  ASSUME TaggedAreNew, DecisionInv, Next
  PROVE  FreshEnough'
  <1>0. SUFFICES ASSUME Strict', answer'.from = "hit" \/ answer'.from = "not modified",
                       ~answer'.asked
                 PROVE  Within(IF answer'.entry.sMaxAge > -1 THEN answer'.entry.sMaxAge
                              ELSE answer'.entry.maxAge, answer'.age)
    BY DEF FreshEnough, Within
  <1>1. Strict /\ ~BypassResponse
    BY <1>0, Answers DEF Strict, BypassResponse
  <1>2. PICK r \in Requests : AnswerOf(r, answer')
    BY <1>0, Answers
  <1>3. PICK e : e = Entry(r)
    OBVIOUS
  <1>4. /\ Good(e) /\ Origin(e) /\ Lifetime(e)
        /\ answer'.entry.sMaxAge = e.sMaxAge /\ answer'.entry.maxAge = e.maxAge
        /\ answer'.age = e.age + (clock - e.date)
        /\ Way(r) \in {"hit", "not modified"}
    BY <1>0, <1>2, <1>3 DEF AnswerOf, Good
  <1>5. HasFresh(r) /\ Way(r) = FreshWay(r)
    BY <1>4, FreshWays
  <1>6. clock < e.freshUntil
    BY <1>3, <1>5 DEF HasFresh, Fresh
  <1>7. /\ clock \in Nat
        /\ e.age \in Int /\ e.date \in Int /\ e.ttl \in Nat /\ e.sMaxAge \in Int
        /\ e.maxAge \in Int /\ e.freshUntil \in Int
    BY <1>4, GoodTypes DEF DecisionInv
  <1>8. CASE e.etag # ""
    <2>1. e.age <= 0
      BY <1>4, <1>8 DEF Origin, TaggedAreNew
    <2>2. e.freshUntil <= e.date + e.ttl
      BY <1>4 DEF Lifetime
    <2>3. e.age + (clock - e.date) <= e.ttl
      BY <1>6, <1>7, <2>1, <2>2
    <2>4. /\ e.sMaxAge > -1 => e.ttl = e.sMaxAge
          /\ ~(e.sMaxAge > -1) /\ e.maxAge > -1 => e.ttl = e.maxAge
      BY <1>1, <1>4 DEF Lifetime
    <2>5. PICK age \in Int : age = e.age + (clock - e.date)
      BY <1>7
    <2>6. Within(IF e.sMaxAge > -1 THEN e.sMaxAge ELSE e.maxAge, age)
      <3>1. CASE e.sMaxAge > -1
        BY <1>7, <2>3, <2>4, <2>5, <3>1 DEF Within
      <3>2. CASE ~(e.sMaxAge > -1) /\ e.maxAge > -1
        BY <1>7, <2>3, <2>4, <2>5, <3>2 DEF Within
      <3>3. CASE ~(e.sMaxAge > -1) /\ ~(e.maxAge > -1)
        BY <1>7, <3>3 DEF Within
      <3>. QED
        BY <3>1, <3>2, <3>3
    <2>. QED
      BY <1>4, <2>5, <2>6
  <1>9. CASE e.etag = ""
    <2>1. ValidateMaxAgeCachedResponse(r, e)
      BY <1>1, <1>3, <1>4, <1>5, <1>9 DEF FreshWay
    <2>2. Age(e) = e.age + (clock - e.date)
      BY <1>4, <1>7, AgeOfGood
    <2>3. PICK age : age = e.age + (clock - e.date)
      OBVIOUS
    <2>4. Within(IF e.sMaxAge > -1 THEN e.sMaxAge ELSE IF e.maxAge > -1 THEN e.maxAge ELSE r.maxAge, age)
      BY <2>1, <2>2, <2>3 DEF ValidateMaxAgeCachedResponse
    <2>5. Within(IF e.sMaxAge > -1 THEN e.sMaxAge ELSE e.maxAge, age)
      <3>1. CASE e.sMaxAge > -1
        BY <2>4, <3>1
      <3>2. CASE ~(e.sMaxAge > -1) /\ e.maxAge > -1
        BY <2>4, <3>2
      <3>3. CASE ~(e.sMaxAge > -1) /\ ~(e.maxAge > -1)
        BY <1>7, <3>3 DEF Within
      <3>. QED
        BY <3>1, <3>2, <3>3
    <2>. QED
      BY <1>4, <2>3, <2>5
  <1>. QED
    BY <1>8, <1>9

\* What the limits of the request and of stale-if-error leave.
LEMMA WithinTheLimits ==
  ASSUME NEW ttl \in Nat, NEW age \in Int, NEW x \in Int, NEW y \in Int, NEW z \in Int,
         \/ y > -1 /\ Within(y + ttl, age)
         \/ z > 0 /\ Within(z + ttl, age)
         \/ x >= 0 /\ Within(x + ttl, age)
  PROVE  age - ttl <= Max({x, y, z})
  <1>1. PICK m : m = Max({x, y, z})
    OBVIOUS
  <1>2. m \in Int /\ x <= m /\ y <= m /\ z <= m
    BY <1>1, LargestOfThree
  <1>3. ASSUME NEW w \in Int, w >= 0, w <= m, Within(w + ttl, age) PROVE age - ttl <= m
    BY <1>2, <1>3 DEF Within
  <1>4. age - ttl <= m
    BY <1>2, <1>3
  <1>. QED
    BY <1>1, <1>4

LEMMA StaleWithinStep ==
  ASSUME DecisionInv, Next
  PROVE  StaleWithinLimit'
  <1>. SUFFICES ASSUME answer'.from = "stale" PROVE StaleWithinLimit'
    BY DEF StaleWithinLimit
  <1>1. Strict' <=> Strict
    BY Answers DEF Strict
  <1>2. PICK r \in Requests : AnswerOf(r, answer')
    BY Answers
  <1>3. PICK e : e = Entry(r)
    OBVIOUS
  <1>4. /\ Good(e) /\ Lifetime(e)
        /\ answer'.entry.ttl = e.ttl /\ answer'.entry.staleIfError = e.staleIfError
        /\ answer'.entry.age = e.age /\ answer'.entry.staleWhileRevalidate = e.staleWhileRevalidate
        /\ answer'.age = e.age + (clock - e.date)
        /\ answer'.maxStaleSet = r.maxStaleSet
        /\ answer'.maxStale = r.maxStale /\ answer'.staleIfError = r.staleIfError
        /\ Way(r) \in {"stale", "stale, revalidate later"}
    BY <1>2, <1>3 DEF AnswerOf, Good
  <1>5. /\ clock \in Nat /\ Stale \in Nat /\ r.maxStale \in Int /\ r.staleIfError \in Int
        /\ e.age \in Int /\ e.date \in Int /\ e.ttl \in Nat /\ e.staleIfError \in Int
        /\ e.staleUntil \in Int /\ e.staleWhileRevalidate \in Int
    BY <1>4, RequestsAssumption, DecisionAssumption, GoodTypes DEF DecisionInv
  <1>6. HasStale(r) /\ Way(r) \in {StaleWay(r), UnaskedStaleWay(r)}
    BY <1>4, StaleWays
  <1>7. PICK age \in Int : age = e.age + (clock - e.date)
    BY <1>5
  <1>8. age - e.ttl < Stale + e.age
    <2>1. clock < e.staleUntil
      BY <1>3, <1>6, FoundIsUsable DEF HasStale, Usable
    <2>2. e.staleUntil <= e.date + e.ttl + Stale
      BY <1>4 DEF Lifetime
    <2>. QED
      BY <1>5, <1>7, <2>1, <2>2
  <1>9. ASSUME Strict, ~r.maxStaleSet, e.staleWhileRevalidate <= 0
        PROVE  age - e.ttl <= Max({r.maxStale, e.staleIfError, r.staleIfError})
    <2>1. ~(e.staleWhileRevalidate > 0)
      BY <1>5, <1>9
    <2>2. ValidateMaxAgeCachedStaleResponse(r, e, Age(e))
      BY <1>3, <1>4, <1>6, <1>9, <2>1 DEF StaleWay, UnaskedStaleWay
    <2>3. Age(e) = age
      BY <1>4, <1>5, <1>7, AgeOfGood
    <2>4. \/ e.staleIfError > -1 /\ Within(e.staleIfError + e.ttl, age)
          \/ r.staleIfError > 0 /\ Within(r.staleIfError + e.ttl, age)
          \/ r.maxStale >= 0 /\ Within(r.maxStale + e.ttl, age)
      BY <1>9, <2>2, <2>3 DEF ValidateMaxAgeCachedStaleResponse
    <2>. QED
      BY <1>5, <2>4, WithinTheLimits
  <1>10. PICK m : m = Max({r.maxStale, e.staleIfError, r.staleIfError})
    OBVIOUS
  <1>11. Max({answer.maxStale, answer.entry.staleIfError, answer.staleIfError})' = m
    <2>1. /\ answer'.maxStale = r.maxStale
          /\ answer'.entry.staleIfError = e.staleIfError
          /\ answer'.staleIfError = r.staleIfError
      BY <1>4
    <2>. QED
      BY <2>1, <1>10 DEF Max
  <1>12. StaleFor' = age - e.ttl
    BY <1>4, <1>7 DEF StaleFor
  <1>. QED
    BY <1>1, <1>4, <1>8, <1>9, <1>10, <1>11, <1>12 DEF StaleWithinLimit

\* A response that is served as fresh is not older than its own lifetime, its
\* age before it was stored and the copies between the storers included
\* (manageAge, ValidateMaxAgeCachedResponse, backfillStorers).
THEOREM ServedIsFreshEnough ==
  ASSUME TaggedAreNew
  PROVE  Spec => []FreshEnough
  <1>1. Init => FreshEnough
    BY DEF Init, NoAnswer, FreshEnough
  <1>2. FreshEnough /\ DecisionInv /\ [Next]_vars => FreshEnough'
    <2>1. ASSUME FreshEnough, UNCHANGED vars PROVE FreshEnough'
      BY <2>1 DEF vars, FreshEnough, Strict, Within
    <2>. QED
      BY <2>1, FreshEnoughStep
  <1>. QED
    BY <1>1, <1>2, DecisionInvariant, PTL DEF Spec

\* No response is served as stale for longer than the storers keep it, copies
\* included (backfillStorers), and without stale-while-revalidate none is staler
\* than the request's max-stale and stale-if-error allow
\* (ValidateMaxAgeCachedStaleResponse).
THEOREM StaleIsWithinLimit == Spec => []StaleWithinLimit
  <1>1. Init => StaleWithinLimit
    BY DEF Init, NoAnswer, StaleWithinLimit
  <1>2. StaleWithinLimit /\ DecisionInv /\ [Next]_vars => StaleWithinLimit'
    <2>1. ASSUME StaleWithinLimit, UNCHANGED vars PROVE StaleWithinLimit'
      BY <2>1 DEF vars, StaleWithinLimit, StaleFor, Strict
    <2>. QED
      BY <2>1, StaleWithinStep
  <1>. QED
    BY <1>1, <1>2, DecisionInvariant, PTL DEF Spec
=============================================================================
