---------------------------- MODULE CacheDecision ----------------------------
(***************************************************************************)
(* What a request is answered with, and what is stored: the decisions of   *)
(* ServeHTTP, Store and backfillStorers (pkg/middleware/middleware.go) and *)
(* of the helpers of pkg/rfc, over time, for one cache key whose responses *)
(* have one variant.  Requests are answered one after the other (their     *)
(* interleavings are the matter of RequestCoalescing); the goroutine that  *)
(* copies a response into the storers before the one that had it runs      *)
(* whenever it likes.                                                      *)
(*                                                                         *)
(* Time is in seconds.  A response is numbered when it is stored.  The     *)
(* body of a stored response is whole, or cut short when it was copied     *)
(* from a reader that someone else has read too.  Directives that are not  *)
(* given are -1, as in the parser.  Faulty definitions are plausible bugs, *)
(* put in place of the definition below them.                              *)
(***************************************************************************)
EXTENDS Integers, Sequences, FiniteSets, FiniteSetsExt

CONSTANTS
  Requests,    \* what clients may ask
  Upstreams,   \* what the upstream server may answer
  Modes,       \* the configured modes, one of which is used
  N,           \* the number of storers
  DefaultTTL,  \* the configured lifetime
  Stale,       \* how long the storers keep a response once it is not fresh
  Failing,     \* the sets of storers whose insertion may fail
  MaxClock,    \* bound on the time
  MaxStores,   \* bound on the responses stored
  MaxCopies    \* bound on the copies that have not been made

\* The directives of requests and answers are numbers of seconds, -1 where
\* they are not given; a request's Date is not later than the storing.
ASSUME RequestsAssumption ==
  \A r \in Requests : /\ {r.maxAge, r.minFresh, r.maxStale, r.staleIfError} \subseteq Int
                      /\ r.skew \in Nat
ASSUME UpstreamsAssumption ==
  \A u \in Upstreams :
    /\ {u.sMaxAge, u.maxAge, u.expires, u.age, u.staleWhileRevalidate, u.staleIfError} \subseteq Int
    /\ u.etag \in STRING
    /\ {u.noCache, u.mustRevalidate, u.dated} \subseteq BOOLEAN

ASSUME DecisionAssumption ==
  /\ N \in Nat \ {0}
  /\ Modes \subseteq {"strict", "bypass", "bypass_request", "bypass_response"}
  /\ DefaultTTL \in Nat /\ Stale \in Nat
  /\ Failing \subseteq SUBSET (1..N)
  /\ MaxClock \in Nat /\ MaxStores \in Nat /\ MaxCopies \in Nat

VARIABLES
  mode,     \* the configured mode
  clock,    \* the time
  store,    \* the response in each storer, None if there is none
  copies,   \* goroutines that copy a response to the storers before it
  answer,   \* the answer given in the last step, and what it was given for
  stored,   \* the number of responses stored
  purged    \* the highest number that has been purged

vars == <<mode, clock, store, copies, answer, stored, purged>>

None == [id |-> 0]
Storers == 1..N
BypassRequest == mode \in {"bypass", "bypass_request"}
BypassResponse == mode \in {"bypass", "bypass_response"}
Strict == mode = "strict"

-----------------------------------------------------------------------------
(* Looking a response up: MappingElection and ValidateETagFromHeader, which *)
(* compares the ETag with the request's If-None-Match.                      *)

Matched(e, r) == IF r.ifNoneMatch = "" THEN TRUE ELSE r.ifNoneMatch \in {"*", e.etag} \ {""}
Fresh(e) == e # None /\ clock < e.freshUntil
Usable(e, r) == e # None /\ Matched(e, r) /\ clock < e.staleUntil

\* The first storer with a fresh or a stale response, N + 1 if none has.
Found(r) == CHOOSE i \in 1..(N + 1) : /\ i \in Storers => Usable(store[i], r)
                                      /\ \A j \in 1..(i - 1) : ~Usable(store[j], r)
\* ParseRequest, and the ETags of the storers that were asked.
NeedRevalidation(r) ==
  \/ r.ifModifiedSince
  \/ r.ifNoneMatch # "" /\ \E i \in 1..Found(r) : i \in Storers /\ store[i] # None /\ store[i].etag # ""

-----------------------------------------------------------------------------
(* Validity: pkg/rfc. *)

\* Faulty: the age of the response when it was stored is not counted.
AgeSinceStored(e) == IF clock > e.date THEN clock - e.date ELSE 0
\* manageAge: the stored Age and what has passed since the stored Date.
Age(e) == e.age + (IF clock > e.date THEN clock - e.date ELSE 0)
Within(maxAge, age) == maxAge < 0 \/ maxAge >= age

ValidateCacheControl(e, r) == r.minFresh >= 0 => clock - e.date > r.minFresh

ValidateMaxAgeCachedResponse(r, e) ==
  Within(IF e.sMaxAge > -1 THEN e.sMaxAge ELSE IF e.maxAge > -1 THEN e.maxAge ELSE r.maxAge,
         Age(e))

\* Faulty: the lifetime of the response is added twice.
StaleTwice(r, e, age) ==
  \/ r.maxStaleSet
  \/ r.maxStale >= 0 /\ Within(r.maxStale + e.ttl + e.ttl, age)
\* The age that is compared is the one in the header: the stored one, or the
\* present one after SetCacheStatusHeader.
ValidateMaxAgeCachedStaleResponse(r, e, age) ==
  \/ r.maxStaleSet
  \/ e.staleIfError > -1 /\ Within(e.staleIfError + e.ttl, age)
  \/ r.staleIfError > 0 /\ Within(r.staleIfError + e.ttl, age)
  \/ r.maxStale >= 0 /\ Within(r.maxStale + e.ttl, age)

-----------------------------------------------------------------------------
(* Storing: Store. *)

CacheableCode(u) == u.code \in {"ok", "empty ok"}
MaxAge(u) == IF BypassResponse THEN DefaultTTL
             ELSE IF u.sMaxAge >= 0 THEN u.sMaxAge
             ELSE IF u.maxAge >= 0 THEN u.maxAge
             ELSE IF u.expires # 0 THEN u.expires ELSE DefaultTTL
HasFreshness(u) == ~BypassResponse /\ u.sMaxAge < 0 /\ u.maxAge < 0 /\ u.expires > 0
ExpiresRefused(u) == ~BypassResponse /\ u.sMaxAge < 0 /\ u.maxAge < 0 /\ u.expires < 0

MayStore(r, u) ==
  /\ CacheableCode(u)
  /\ u.parses
  /\ BypassRequest \/ ~(u.private \/ r.authorization) \/ u.vary = "authorization"
  /\ ~ExpiresRefused(u)
  /\ BypassRequest \/ ~r.noStore
  /\ BypassResponse \/ ~u.noStore \/ HasFreshness(u)
  /\ u.size # "too large"
  /\ u.size # "empty" \/ r.method = "HEAD" \/ u.code = "empty ok"
  /\ u.vary # "*"

\* The lifetime starts at the request's Date, skew seconds ago.
Stored(r, u) ==
  [id |-> stored + 1, etag |-> u.etag, age |-> u.age, date |-> IF u.dated THEN clock ELSE clock - r.skew,
   ttl |-> MaxAge(u), sMaxAge |-> u.sMaxAge, maxAge |-> u.maxAge,
   noCache |-> u.noCache, mustRevalidate |-> u.mustRevalidate,
   staleWhileRevalidate |-> u.staleWhileRevalidate, staleIfError |-> u.staleIfError,
   whole |-> TRUE,
   freshUntil |-> clock + MaxAge(u) - r.skew,
   staleUntil |-> clock + MaxAge(u) - r.skew + Stale]

\* Every storer is written, but for those whose insertion fails.
Store(r, u, failing) ==
  IF MayStore(r, u)
  THEN /\ store' = [i \in Storers |-> IF i \in failing THEN store[i] ELSE Stored(r, u)]
       /\ stored' = stored + 1
  ELSE UNCHANGED <<store, stored>>

-----------------------------------------------------------------------------
(* Which way ServeHTTP goes, from the request and what is stored. *)

Passes(r) == r.kind # "cacheable" \/ (~BypassRequest /\ ~r.parses)
LooksUp(r) == BypassRequest \/ ~r.noCache
Entry(r) == store[Found(r)]
HasFresh(r) == LooksUp(r) /\ Found(r) \in Storers /\ Fresh(Entry(r))
                 /\ (Strict => ValidateCacheControl(Entry(r), r))
HasStale(r) == LooksUp(r) /\ Found(r) \in Storers /\ ~Fresh(Entry(r))
AsksStale(r) == ~r.onlyIfCached /\ (r.maxStaleSet \/ r.maxStale > -1)

\* A response with an ETag that matches is served at once; another one after
\* the conditions of the request, no-cache and its age were looked at.
FreshWay(r) ==
  IF Entry(r).etag # "" THEN IF r.ifNoneMatch # "" THEN "not modified" ELSE "hit"
  ELSE IF ~BypassRequest /\ NeedRevalidation(r) THEN "revalidate"
  ELSE IF ~BypassResponse /\ Entry(r).noCache THEN "revalidate"
  ELSE IF Strict /\ ~ValidateMaxAgeCachedResponse(r, Entry(r)) THEN "upstream"
  ELSE "hit"

StaleWay(r) ==
  IF Strict /\ ~ValidateCacheControl(Entry(r), r) THEN "upstream"
  ELSE IF Entry(r).staleWhileRevalidate > 0 THEN "stale, revalidate later"
  ELSE IF BypassResponse \/ Entry(r).mustRevalidate \/ Entry(r).noCache \/ NeedRevalidation(r)
       THEN "revalidate stale"
  ELSE IF Strict /\ ~ValidateMaxAgeCachedStaleResponse(r, Entry(r), Age(Entry(r))) THEN "upstream"
  ELSE "stale"

\* Without max-stale: a stale response may only hide an error.
UnaskedStaleWay(r) ==
  CASE ~Strict -> "stale"
    [] /\ Strict
       /\ ValidateMaxAgeCachedStaleResponse(r, Entry(r), Entry(r).age)
       /\ Entry(r).staleIfError > -1 \/ r.staleIfError > 0 -> "revalidate or stale"
    [] OTHER -> "upstream"

Way(r) == CASE Passes(r) -> "pass"
            [] ~Passes(r) /\ HasFresh(r) -> FreshWay(r)
            [] ~Passes(r) /\ ~HasFresh(r) /\ AsksStale(r) /\ HasStale(r) -> StaleWay(r)
            [] ~Passes(r) /\ ~HasFresh(r) /\ ~AsksStale(r) /\ HasStale(r) -> UnaskedStaleWay(r)
            [] OTHER -> "upstream"

-----------------------------------------------------------------------------
(* Answers. *)

\* An answer from the cache is kept with the age and the rest of the
\* lifetime it had, what the request said about them, the number of the
\* response that was stored last, whether the upstream server was asked
\* first and has sent another one.
FromUpstream == [from |-> "upstream"]
NoAnswer == [from |-> "nobody"]
FromCache(r, how) ==
  [from |-> how, entry |-> Entry(r), age |-> Entry(r).age + (clock - Entry(r).date),
   left |-> Entry(r).freshUntil - clock, asked |-> FALSE, newest |-> stored, changed |-> FALSE,
   maxAge |-> r.maxAge, minFresh |-> r.minFresh, maxStaleSet |-> r.maxStaleSet,
   maxStale |-> r.maxStale, staleIfError |-> r.staleIfError]

\* A fresh response found in a later storer is copied to those before it, by
\* a goroutine with the same body reader as the handler: one of the two
\* finds it drained, if both read.
Copies(r, whole) ==
  IF HasFresh(r) /\ Found(r) > 1
  THEN {[entry |-> [Entry(r) EXCEPT !.whole = @ /\ whole], upTo |-> Found(r) - 1]}
  ELSE {}

Started(cs) == /\ copies' = copies \union cs
               /\ Cardinality(copies') <= MaxCopies

\* The request does not concern the cache, or cannot be read; a successful
\* request with another method deletes the mapping of the key.
Pass(r) ==
  /\ Way(r) = "pass"
  /\ store' \in IF r.kind = "unsupported" THEN {store, [i \in Storers |-> None]} ELSE {store}
  /\ answer' = FromUpstream
  /\ UNCHANGED <<mode, clock, copies, stored, purged>>

NotModified(r) ==
  /\ Way(r) = "not modified"
  /\ answer' = FromCache(r, "not modified")
  /\ Started(Copies(r, TRUE))
  /\ UNCHANGED <<mode, clock, store, stored, purged>>

Hit(r, drained) ==
  /\ Way(r) = "hit"
  /\ drained => Copies(r, TRUE) # {}
  /\ answer' = [FromCache(r, "hit") EXCEPT !.entry.whole = @ /\ ~drained]
  /\ Started(Copies(r, drained))
  /\ UNCHANGED <<mode, clock, store, stored, purged>>

ServeStale(r) ==
  /\ Way(r) = "stale"
  /\ answer' = FromCache(r, "stale")
  /\ UNCHANGED <<mode, clock, store, copies, stored, purged>>

\* Upstream: an error goes to the client, anything else is stored if it may.
Forward(r) ==
  /\ Way(r) = "upstream" /\ stored < MaxStores
  /\ \E u \in Upstreams, failing \in Failing :
       IF u.code = "error" THEN UNCHANGED <<store, stored>> ELSE Store(r, u, failing)
  /\ Started(Copies(r, TRUE))
  /\ answer' = FromUpstream
  /\ UNCHANGED <<mode, clock, purged>>

Fails(u) == u.code \in {"error", "50x"}
HidesErrors(r) == Entry(r).staleIfError > -1 \/ r.staleIfError > 0
Conditional(r) == r.ifNoneMatch # "" \/ r.ifModifiedSince

\* The answer to a request that was revalidated: a stale response where it
\* may hide an error, or is confirmed by a 304; a 304 for a client with a
\* condition that matched, whatever the upstream server has answered.  A
\* response that needs no stale one is thrown away and asked for again: the
\* second one is sent (RequestCoalescing has both requests).
Revalidated(r, u) ==
  CASE Way(r) = "stale, revalidate later" -> FromCache(r, "stale")
    [] /\ Way(r) \in {"revalidate or stale", "revalidate stale"}
       /\ Fails(u) /\ HidesErrors(r) -> FromCache(r, "stale for error")
    [] Way(r) = "revalidate stale" /\ u.code = "304" -> FromCache(r, "revalidated")
    [] Way(r) = "revalidate stale" /\ ~Fails(u) /\ u.code # "304" /\ Conditional(r) ->
         [FromCache(r, "not modified") EXCEPT !.asked = TRUE, !.changed = TRUE]
    [] OTHER -> FromUpstream

\* Revalidate: a 304 leaves what is stored as it is.
Revalidate(r) ==
  /\ Way(r) \in {"revalidate", "revalidate stale", "revalidate or stale", "stale, revalidate later"}
  /\ stored < MaxStores
  /\ \E u \in Upstreams, failing \in Failing :
       /\ IF Fails(u) \/ u.code = "304" THEN UNCHANGED <<store, stored>>
                                        ELSE Store(r, u, failing)
       /\ answer' = Revalidated(r, u)
  /\ Started(Copies(r, TRUE))
  /\ UNCHANGED <<mode, clock, purged>>

-----------------------------------------------------------------------------
(* Other steps. *)

\* The copy's lifetime is what is left of the stored one since its Date.
Copy(e) ==
  LET left == e.ttl - (clock - e.date)
  IN [e EXCEPT !.freshUntil = clock + left, !.staleUntil = clock + left + Stale]

\* backfillStorers.
Backfill(c) ==
  /\ copies' = copies \ {c}
  /\ store' = [i \in Storers |-> IF i <= c.upTo THEN Copy(c.entry) ELSE store[i]]
  /\ answer' = NoAnswer /\ UNCHANGED <<mode, clock, stored, purged>>

\* A storer drops a response before its time.
Drop(i) ==
  /\ store[i] # None
  /\ store' = [store EXCEPT ![i] = None]
  /\ answer' = NoAnswer /\ UNCHANGED <<mode, clock, copies, stored, purged>>

\* PURGE of the key through the API.
Purge ==
  /\ store' = [i \in Storers |-> None]
  /\ purged' = stored
  /\ answer' = NoAnswer /\ UNCHANGED <<mode, clock, copies, stored>>

Tick == /\ clock < MaxClock
        /\ clock' = clock + 1
        /\ answer' = NoAnswer /\ UNCHANGED <<mode, store, copies, stored, purged>>

Init == /\ mode \in Modes
        /\ clock = 0
        /\ store = [i \in Storers |-> None]
        /\ copies = {}
        /\ answer = NoAnswer
        /\ stored = 0 /\ purged = 0

Next == \/ \E r \in Requests : Pass(r) \/ NotModified(r) \/ ServeStale(r) \/ Forward(r) \/ Revalidate(r)
        \/ \E r \in Requests, drained \in BOOLEAN : Hit(r, drained)
        \/ \E c \in copies : Backfill(c)
        \/ \E i \in Storers : Drop(i)
        \/ Purge
        \/ Tick

Spec == Init /\ [][Next]_vars

-----------------------------------------------------------------------------
\* A response that is served as fresh is not older than its own lifetime,
\* its age before it was stored and the copies between storers included
\* (manageAge, ValidateMaxAgeCachedResponse, backfillStorers).
FreshEnough ==
  (Strict /\ answer.from \in {"hit", "not modified"} /\ ~answer.asked) =>
     LET e == answer.entry
     IN Within(IF e.sMaxAge > -1 THEN e.sMaxAge ELSE e.maxAge, answer.age)


\* No response is served as stale for longer than the storers keep it, the
\* copies that backfillStorers makes included.  Where the upstream server does
\* not use stale-while-revalidate, a request that names how stale a response
\* may be (max-stale) is given none that is staler, unless stale-if-error
\* allows it (ValidateMaxAgeCachedStaleResponse).  With stale-while-revalidate
\* lines 1017 to 1038 of ServeHTTP look at no other limit.
StaleFor == answer.age - answer.entry.ttl
StaleWithinLimit ==
  answer.from = "stale" =>
     /\ StaleFor < Stale + answer.entry.age
     /\ (Strict /\ ~answer.maxStaleSet /\ answer.entry.staleWhileRevalidate <= 0) =>
          StaleFor <= Max({answer.maxStale, answer.entry.staleIfError, answer.staleIfError})

\* With stale-while-revalidate, too, a response is not staler than the request
\* or the upstream server says (line 1017 of ServeHTTP).
StaleAsAsked ==
  (Strict /\ answer.from = "stale" /\ ~answer.maxStaleSet) =>
     StaleFor <= Max({answer.maxStale, answer.staleIfError, answer.entry.staleIfError,
                      answer.entry.staleWhileRevalidate})

\* What is served from the cache is the response that was stored last,
\* whichever storer has it, and however late it is copied between them.
NotOlder == answer.from \in {"hit", "not modified"} => answer.entry.id = answer.newest

\* A client is only told that its copy is still good when the upstream
\* server has not just sent another response.
NotModifiedTruthful == answer.from = "not modified" => ~answer.changed

\* What has been purged is in no storer again (backfillStorers).
PurgedStaysPurged == \A i \in Storers : store[i] # None => store[i].id > purged

\* Whoever is answered from the cache gets the whole body.
WholeBody == answer.from = "hit" => answer.entry.whole

\* A request's max-age and min-fresh are honoured: the response is not older,
\* and stays fresh for long enough.
RequestHonoured ==
  (Strict /\ answer.from = "hit") => /\ Within(answer.maxAge, answer.age)
                                     /\ answer.left >= answer.minFresh

\* A stale response hides an error only within the time that the upstream
\* server or the client allowed with stale-if-error.
StaleIfErrorWindow ==
  answer.from = "stale for error" =>
     StaleFor <= Max({answer.entry.staleIfError, answer.staleIfError})
=============================================================================
