--------------------------- MODULE TraefikMiddleware ---------------------------
(***************************************************************************)
(* The Traefik plugin runs its own copy of the request path and of the     *)
(* storer (plugins/traefik/override/middleware and override/storage), kept *)
(* apart because its interpreter does not support the originals.  It       *)
(* differs from pkg/middleware where memory and goroutines meet: the       *)
(* buffer always returns to the pool with the handler, the flight's value  *)
(* is a slice of the leader's buffer, and the goroutine that asks the      *)
(* upstream server reports on a channel without room.                      *)
(*                                                                         *)
(* A buffer is its memory, mem, and its length, len: Reset sets the length *)
(* to 0 and leaves the memory, Write fills the memory from the length on,  *)
(* and a slice taken with Bytes() is a buffer and a length that read the   *)
(* memory as it is later.  A body is a sequence of pieces, one per Write:  *)
(* the number of an upstream call, negative when the call broke off.       *)
(*                                                                         *)
(* The stale branches of ServeHTTP (middleware.go:658-799) are never taken *)
(* and are left out: Set gives a value the lifetime of the fresh response, *)
(* and once it has expired Get returns an empty slice, not nil, on which   *)
(* MappingElection stops with an error (StaleServable is about that).      *)
(***************************************************************************)
EXTENDS Integers, Sequences, FiniteSets, FiniteSetsExt

CONSTANTS
  Requests, None,
  Keys, KeyOf,           \* the cached keys, and the key of each request
  Variants, VariantOf,   \* the request header that Vary may name
  Buffers,
  Settings,              \* the circumstances, subset of AllSettings
  TTL, Stale,            \* lifetimes of a response, in ticks
  MaxCalls               \* bound on upstream calls

\* bypass: excluded, mutation or unreadable Cache-Control; unsafe: a method
\* that is not cached; noCache: the request's Cache-Control; etag: the client
\* sends the ETag it has; since: If-Modified-Since; until: If-Unmodified-Since.
AllAsks == {"bypass", "unsafe", "plain", "noCache", "etag", "since", "until"}

\* old: Last-Modified is before the client's If-Modified-Since.  noCache: the
\* response may be stored but not used without revalidation.
AllAnswers == [kind : {"ok", "notModified", "error50x", "abort"},
               store : BOOLEAN, vary : BOOLEAN, etag : BOOLEAN,
               noCache : BOOLEAN, old : BOOLEAN]

\* requests and buffers: those that arrive, and that are used; asks: what they ask for; answers: what the
\* upstream server may answer; ends: how a request context may end; alone:
\* disable_coalescing; ticks: a bound on the clock.
AllSettings == [requests : SUBSET Requests, buffers : SUBSET Buffers, ticks : Nat,
                asks : SUBSET AllAsks,
                answers : SUBSET AllAnswers,
                ends : SUBSET {"deadline", "canceled"}, alone : BOOLEAN]

ASSUME TraefikAssumption ==
  /\ None \notin Requests
  /\ KeyOf \in [Requests -> Keys]
  /\ None \in Variants          \* the header is absent
  /\ VariantOf \in [Requests -> Variants]
  /\ Settings \subseteq AllSettings
  /\ {TTL, Stale, MaxCalls} \subseteq Nat

VARIABLES
  setting,  \* the circumstances, which do not change
  pc,       \* the handler: "new", "hit", "wait", "own" or "done"
  wk,       \* Upstream or Revalidate: "off", "do", "join", "fetch", "fetched",
            \* "mapping", "update", "apply", "notify" or "end"
  ask,      \* what the request asks for
  ctx,      \* its context: "live", "deadline" or "canceled"
  buf,      \* its buffer
  mem, len, \* the memory and the length of each buffer
  pool,     \* the buffers in bufPool
  status,   \* CustomWriter.statusCode
  flight,   \* singleflightPool: the leader of each key
  res,      \* what singleflight's Do returned
  calls,    \* the upstream calls answered
  out,      \* what the client has received
  cache,    \* the values of the storer, by their slots
  mapping,  \* the mapping of each key: an entry for each slot
  update,   \* SetMultiLevel: the time it began, and the mapping it has read
  clock

vars == <<setting, pc, wk, ask, ctx, buf, mem, len, pool, status, flight, res, calls,
          out, cache, mapping, update, clock>>

Broken == -1   \* the status of a connection broken off

Error(e) == [err |-> e, val |-> FALSE, from |-> None, length |-> 0,
             code |-> 200, vary |-> FALSE, variant |-> None]

Empty == << >>   \* no entries

Init ==
  /\ setting \in Settings
  /\ pc = [r \in Requests |-> IF r \in setting.requests THEN "new" ELSE "done"]
  /\ wk = [r \in Requests |-> "off"]
  /\ ask \in [setting.requests -> setting.asks]
  /\ ctx = [r \in Requests |-> "live"]
  /\ buf = [r \in Requests |-> None]
  /\ mem = [b \in Buffers |-> <<>>]
  /\ len = [b \in Buffers |-> 0]
  /\ pool = setting.buffers          \* a buffer never used is as good as a new one
  /\ status = [r \in Requests |-> 200]
  /\ flight = [k \in Keys |-> None]
  /\ res = [r \in Requests |-> Error("none")]
  /\ calls = <<>>
  /\ out = [r \in Requests |-> [code |-> 0, body |-> <<>>, hit |-> FALSE]]
  /\ cache = Empty
  /\ mapping = [k \in Keys |-> Empty]
  /\ update = [r \in Requests |-> [now |-> 0, entries |-> Empty]]
  /\ clock = 0

-----------------------------------------------------------------------------
(***************************************************************************)
(* Buffers and the CustomWriter.                                           *)
(***************************************************************************)

\* The memory of a buffer after writing s at offset n.
Overwritten(m, n, s) ==
  SubSeq(m, 1, n) \o s \o SubSeq(m, n + Len(s) + 1, Len(m))

\* Write to the buffer b after reset, or after what it holds.
Write(b, n, s) ==
  /\ mem' = [mem EXCEPT ![b] = Overwritten(@, n, s)]
  /\ len' = [len EXCEPT ![b] = n + Len(s)]

Bytes(b) == SubSeq(mem[b], 1, len[b])

\* Rw.WriteHeader has an effect the first time only.
FirstCode(r, code) == IF out[r].code = 0 THEN code ELSE out[r].code

\* Once a context has ended, a goroutine sets headersSent at some time: from then
\* on CustomWriter.WriteHeader keeps the status as it is.
Codes(r, code) == {code} \cup (IF ctx[r] = "live" THEN {} ELSE {status[r]})

\* CustomWriter.Send: status, bytes, Buf.Reset.  With headersSent the status is
\* left to the ResponseWriter.
Send(r, hit) ==
  /\ \E c \in {status[r]} \cup (IF ctx[r] = "live" THEN {} ELSE {200}) :
       out' = [out EXCEPT ![r] = [code |-> FirstCode(r, c),
                                  body |-> @.body \o Bytes(buf[r]), hit |-> hit]]
  /\ len' = [len EXCEPT ![buf[r]] = 0]
  /\ mem' = mem

\* The deferred bufPool.Put.
Return(r) ==
  /\ pc' = [pc EXCEPT ![r] = "done"]
  /\ pool' = pool \cup {buf[r]}

-----------------------------------------------------------------------------
(***************************************************************************)
(* The storer.                                                             *)
(***************************************************************************)

\* Faulty: the variants of a response overwrite each other.
VariedKeyPlain(r, ans) == None

\* The part of the key that Vary adds; the mapping remembers the header.
VariedKey(r, ans) == IF ans.vary THEN VariantOf[r] ELSE None

\* The name under which a response is stored.
Slot(r, ans) ==
  [key |-> KeyOf[r], vary |-> ans.vary, variant |-> VariedKey(r, ans)]

\* A map with one entry added or replaced.
With(f, s, v) == [t \in DOMAIN f \cup {s} |-> IF t = s THEN v ELSE f[t]]

\* The slots that MappingElection considers: the varied headers are the
\* request's and the ETag is the client's, when it sends one.
Matching(r) ==
  {s \in DOMAIN mapping[KeyOf[r]] :
     /\ s.vary => s.variant = VariantOf[r]
     /\ ask[r] = "etag" => mapping[KeyOf[r]][s].etag}

\* Get returns an empty slice for a value that is expired, or not there.
Get(s) ==
  IF s \in DOMAIN cache /\ clock < cache[s].expires THEN cache[s].body ELSE <<>>

\* The entries are visited in any order, and the visit ends at the first that
\* is fresh, or that should be stale and has no value: then nothing is found.
\* Mapping and value are read in one step.
Elected(r) ==
  LET entries == mapping[KeyOf[r]]
      visited == {s \in Matching(r) : clock < entries[s].stale}
      fresh == {s \in visited : clock < entries[s].fresh}
  IN  {s \in fresh : Get(s) # <<>>}
        \cup (IF visited # {} /\ \A s \in visited : s \in fresh /\ Get(s) # <<>>
              THEN {} ELSE {None})

-----------------------------------------------------------------------------
(***************************************************************************)
(* ServeHTTP up to the lookup's outcome.                                   *)
(***************************************************************************)

Answered(r, ans) ==
  /\ Len(calls) < MaxCalls
  /\ calls' = Append(calls, [req |-> r, ans |-> ans])

\* A request that is not looked up goes to the upstream server directly; after
\* an unsafe method the mapping of the GET key is deleted, and its entries are
\* found no more.
Bypass(r) ==
  /\ pc[r] = "new"
  /\ ask[r] \in {"bypass", "unsafe"}
  /\ \E ans \in {a \in setting.answers : a.kind \in {"ok", "error50x"}} :
       /\ Answered(r, ans)
       /\ out' = [out EXCEPT ![r] =
                   [code |-> IF ans.kind = "ok" THEN 200 ELSE 500,
                    body |-> <<Len(calls) + 1>>, hit |-> FALSE]]
       /\ mapping' = IF ask[r] = "unsafe" /\ ans.kind = "ok"
                     THEN [mapping EXCEPT ![KeyOf[r]] = Empty] ELSE mapping
  /\ pc' = [pc EXCEPT ![r] = "done"]
  /\ UNCHANGED <<wk, ask, ctx, buf, mem, len, pool, status, flight, res, cache,
                 update, clock, setting>>

\* bufPool.Get and Reset, then the lookup: a hit fills the buffer, a response
\* that needs revalidation is revalidated by the handler itself, and a miss
\* asks the upstream server in a goroutine.
Lookup(r) ==
  /\ pc[r] = "new"
  /\ ask[r] \notin {"bypass", "unsafe"}
  /\ \E b \in pool :
       /\ pool' = pool \ {b}
       /\ buf' = [buf EXCEPT ![r] = b]
       /\ \/ \E s \in Elected(r) \ {None} :
               /\ ask[r] # "noCache"
               /\ \/ mapping[KeyOf[r]][s].etag
                  \/ ask[r] \notin {"since", "until"} /\ ~cache[s].noCache
               /\ pc' = [pc EXCEPT ![r] = "hit"]
               /\ IF ask[r] = "etag" /\ mapping[KeyOf[r]][s].etag
                  THEN /\ status' = [status EXCEPT ![r] = 304]
                       /\ Write(b, 0, <<>>)
                  ELSE Write(b, 0, Get(s)) /\ UNCHANGED status
               /\ UNCHANGED wk
          \/ \E s \in Elected(r) \ {None} :
               /\ ask[r] # "noCache"
               /\ ~mapping[KeyOf[r]][s].etag
               /\ ask[r] \in {"since", "until"} \/ cache[s].noCache
               /\ pc' = [pc EXCEPT ![r] = "own"]
               /\ wk' = [wk EXCEPT ![r] = "do"]
               /\ Write(b, 0, <<>>)
               /\ UNCHANGED status
          \/ /\ ask[r] = "noCache" \/ None \in Elected(r)
             /\ pc' = [pc EXCEPT ![r] = "wait"]
             /\ wk' = [wk EXCEPT ![r] = "do"]
             /\ Write(b, 0, <<>>)
             /\ UNCHANGED status
  /\ UNCHANGED <<ask, ctx, flight, res, calls, out, cache, mapping, update, clock,
                 setting>>

\* A response of the cache is sent.
SendHit(r) ==
  /\ pc[r] = "hit"
  /\ Send(r, TRUE)
  /\ Return(r)
  /\ UNCHANGED <<wk, ask, ctx, buf, status, flight, res, calls, cache, mapping,
                 update, clock, setting>>

-----------------------------------------------------------------------------
(***************************************************************************)
(* Upstream and Revalidate.                                                *)
(***************************************************************************)

Revalidates(r) == pc[r] = "own"

\* Faulty: disable_coalescing is not looked at.
AloneNever(r) == FALSE

\* A unique singleflight key.
Alone(r) == setting.alone

\* singleflight's Do: lead the flight of the key, or join it.
Do(r) ==
  /\ wk[r] = "do"
  /\ IF Alone(r)
     THEN wk' = [wk EXCEPT ![r] = "fetch"] /\ UNCHANGED flight
     ELSE IF flight[KeyOf[r]] = None
          THEN /\ flight' = [flight EXCEPT ![KeyOf[r]] = r]
               /\ wk' = [wk EXCEPT ![r] = "fetch"]
          ELSE wk' = [wk EXCEPT ![r] = "join"] /\ UNCHANGED flight
  /\ UNCHANGED <<pc, ask, ctx, buf, mem, len, pool, status, res, calls, out,
                 cache, mapping, update, clock, setting>>

Party(r) ==
  IF flight[KeyOf[r]] = r
  THEN {r} \cup {q \in Requests : wk[q] = "join" /\ KeyOf[q] = KeyOf[r]}
  ELSE {r}

\* Do returns v to the leader and to all who joined.
Land(r, v, place) ==
  /\ res' = [q \in Requests |-> IF q \in Party(r) THEN v ELSE res[q]]
  /\ wk' = [q \in Requests |-> IF q \in Party(r) THEN place ELSE wk[q]]
  /\ flight' = [flight EXCEPT ![KeyOf[r]] = IF @ = r THEN None ELSE @]

CodeOf(ans) == CASE ans.kind = "ok" -> 200
                 [] ans.kind = "notModified" -> 304
                 [] ans.kind = "error50x" -> 500
                 [] ans.kind = "abort" -> 200

\* next answers into the buffer of the leader.
Fetch(r) ==
  /\ wk[r] = "fetch"
  /\ \E ans \in {a \in setting.answers : a.kind # "abort"} :
       /\ ans.kind = "notModified" => ask[r] = "since"
       /\ Answered(r, ans)
       /\ Write(buf[r], len[buf[r]],
                IF ans.kind = "notModified" THEN <<>> ELSE <<Len(calls) + 1>>)
       /\ \E c \in Codes(r, CodeOf(ans)) : status' = [status EXCEPT ![r] = c]
  /\ wk' = [wk EXCEPT ![r] = "fetched"]
  /\ UNCHANGED <<pc, ask, ctx, buf, pool, flight, res, out, cache, mapping, update,
                 clock, setting>>

\* next panics with http.ErrAbortHandler in the middle of the body.  Upstream
\* recovers, in the leader and in all who joined, and returns nil.  Revalidate
\* does not: the server breaks the connection off.
Abort(r) ==
  /\ wk[r] = "fetch"
  /\ \E ans \in {a \in setting.answers : a.kind = "abort"} : Answered(r, ans)
  /\ Write(buf[r], len[buf[r]], <<-(Len(calls) + 1)>>)
  /\ LET broken == {q \in Party(r) : Revalidates(q)}
     IN  /\ pc' = [q \in Requests |-> IF q \in broken THEN "done" ELSE pc[q]]
         /\ pool' = pool \cup {buf[q] : q \in broken}
         /\ wk' = [q \in Requests |-> CASE q \in broken -> "end"
                                        [] q \in Party(r) \ broken -> "notify"
                                        [] OTHER -> wk[q]]
         /\ out' = [q \in Requests |->
                      IF q \in broken THEN [out[q] EXCEPT !.code = Broken]
                                      ELSE out[q]]
         /\ res' = [q \in Requests |-> IF q \in Party(r) THEN Error("none")
                                                         ELSE res[q]]
  /\ flight' = [flight EXCEPT ![KeyOf[r]] = IF @ = r THEN None ELSE @]
  /\ UNCHANGED <<ask, ctx, buf, status, cache, mapping, update, clock, setting>>

\* Faulty: the value does not say which request the leader sent.
LeaderVariantLost(r) == None

\* singleflightValue.requestHeaders: Revalidate leaves it out.
LeaderVariant(r) == IF Revalidates(r) THEN None ELSE VariantOf[r]

LastAnswer(r) == calls[Max({c \in DOMAIN calls : calls[c].req = r})].ans

\* The slice Buf.Bytes() and a clone of the headers, which are empty once the
\* context has ended.  Store reports a 50x as an error.
Value(r, ans) ==
  [err |-> IF status[r] >= 500 THEN "50x" ELSE "none", val |-> TRUE, from |-> buf[r],
   length |-> len[buf[r]], code |-> status[r], vary |-> ans.vary /\ ctx[r] = "live",
   variant |-> LeaderVariant(r)]

\* What Store asks of a response: its status, its Cache-Control, its size, and
\* a context that has not ended.
MayStore(r, ans) ==
  status[r] = 200 /\ ans.store /\ ctx[r] = "live" /\ len[buf[r]] > 0

\* Revalidate answers a conditional request itself, and returns an error.
Condition(r, ans) ==
  IF ~Revalidates(r) THEN 0
  ELSE IF ask[r] = "until" /\ status[r] # 304 THEN 412
  ELSE IF ask[r] = "since" /\ ans.old THEN 304 ELSE 0

\* The value of the flight, whose deferred Reset empties the buffer, when nothing
\* is stored.  The status is the CustomWriter's: a timeout may have set it.  A 50x
\* is an error without a value for Upstream, and one with its value for Revalidate.
Conclude(r) ==
  /\ wk[r] = "fetched"
  /\ LET ans == LastAnswer(r)
     IN  \/ /\ Condition(r, ans) # 0
            /\ out' = [out EXCEPT ![r].code = FirstCode(r, Condition(r, ans))]
            /\ len' = [len EXCEPT ![buf[r]] = 0]
            /\ Land(r, Error("other"), "notify")
         \/ /\ status[r] >= 500 /\ ~Revalidates(r)
            /\ Land(r, Error("50x"), "notify")
            /\ UNCHANGED <<out, len>>
         \/ /\ Condition(r, ans) = 0
            /\ status[r] >= 500 => Revalidates(r)
            /\ ~MayStore(r, ans)
            /\ len' = [len EXCEPT ![buf[r]] = 0]
            /\ Land(r, Value(r, ans), "apply")
            /\ UNCHANGED out
  /\ UNCHANGED <<pc, ask, ctx, buf, mem, pool, status, calls, cache, mapping, update,
                 clock, setting>>

\* Store and SetMultiLevel: the value is set, ...
SetValue(r) ==
  /\ wk[r] = "fetched"
  /\ LET ans == LastAnswer(r)
     IN  /\ Condition(r, ans) = 0
         /\ MayStore(r, ans)
         /\ cache' = With(cache, Slot(r, ans),
                          [noCache |-> ans.noCache, body |-> Bytes(buf[r]),
                           expires |-> clock + TTL])
  /\ update' = [update EXCEPT ![r].now = clock]
  /\ wk' = [wk EXCEPT ![r] = "mapping"]
  /\ UNCHANGED <<pc, ask, ctx, buf, mem, len, pool, status, flight, res, calls, out,
                 mapping, clock, setting>>

\* ... the mapping is read, ...
GetMapping(r) ==
  /\ wk[r] = "mapping"
  /\ update' = [update EXCEPT ![r].entries = mapping[KeyOf[r]]]
  /\ wk' = [wk EXCEPT ![r] = "update"]
  /\ UNCHANGED <<pc, ask, ctx, buf, mem, len, pool, status, flight, res, calls, out,
                 cache, mapping, clock, setting>>

\* ... and written with the new entry, whatever has become of it meanwhile; then
\* the value of the flight.
SetMapping(r) ==
  /\ wk[r] = "update"
  /\ LET ans == LastAnswer(r)
         now == update[r].now
     IN  /\ mapping' = [mapping EXCEPT ![KeyOf[r]] =
                          With(update[r].entries, Slot(r, ans),
                               [etag |-> ans.etag, fresh |-> now + TTL,
                                stale |-> now + TTL + Stale])]
         /\ Land(r, Value(r, ans), "apply")
  /\ update' = [update EXCEPT ![r] = [now |-> 0, entries |-> Empty]]
  /\ len' = [len EXCEPT ![buf[r]] = 0]
  /\ UNCHANGED <<pc, ask, ctx, buf, mem, pool, status, calls, out, cache, clock,
                 setting>>

\* Upstream returns the error of a flight, and asks again when the varied
\* headers are not those of the leader; Revalidate takes the value as it is.
\* The bytes are those the leader's buffer holds by now.
Apply(r) ==
  /\ wk[r] = "apply"
  /\ \/ /\ ~Revalidates(r) /\ res[r].err # "none"
        /\ wk' = [wk EXCEPT ![r] = "notify"]
        /\ UNCHANGED <<mem, len, status>>
     \/ /\ ~Revalidates(r) /\ res[r].err = "none"
        /\ res[r].vary /\ res[r].variant # VariantOf[r]
        /\ wk' = [wk EXCEPT ![r] = "do"]
        /\ UNCHANGED <<mem, len, status>>
     \/ /\ \/ Revalidates(r)
           \/ res[r].err = "none"
                /\ (res[r].vary => res[r].variant = VariantOf[r])
        /\ Write(buf[r], IF Revalidates(r) THEN len[buf[r]] ELSE 0,
                 SubSeq(mem[res[r].from], 1, res[r].length))
        /\ \E c \in Codes(r, res[r].code) : status' = [status EXCEPT ![r] = c]
        /\ wk' = [wk EXCEPT ![r] = "notify"]
  /\ UNCHANGED <<pc, ask, ctx, buf, pool, flight, res, calls, out, cache, mapping,
                 update, clock, setting>>

\* The handler receives from errorCacheCh, or Revalidate returns to it: Send and
\* return.  After an error that is not a 50x the select sends nothing, and the
\* server completes the response, empty.
Receive(r) ==
  /\ pc[r] \in {"wait", "own"}
  /\ wk[r] = "notify"
  /\ IF pc[r] = "wait" /\ res[r].err = "other"
     THEN /\ out' = [out EXCEPT ![r].code = FirstCode(r, 200)]
          /\ UNCHANGED <<mem, len>>
     ELSE Send(r, FALSE)
  /\ Return(r)
  /\ wk' = [wk EXCEPT ![r] = "end"]
  /\ UNCHANGED <<ask, ctx, buf, status, flight, res, calls, cache, mapping, update,
                 clock, setting>>

\* The context of a request ends: the timeout of the upstream server, or the
\* client that leaves.
EndContext(r) ==
  /\ pc[r] # "new"
  /\ ctx[r] = "live"
  /\ pc[r] # "done" \/ wk[r] \notin {"off", "end"}
  /\ \E e \in setting.ends : ctx' = [ctx EXCEPT ![r] = e]
  /\ UNCHANGED <<pc, wk, ask, buf, mem, len, pool, status, flight, res, calls,
                 out, cache, mapping, update, clock, setting>>

\* Faulty: the handler waits for the goroutine before it leaves.
LeaveLast(r) ==
  /\ pc[r] = "wait" /\ wk[r] = "notify"
  /\ ctx[r] # "live"
  /\ Return(r)
  /\ UNCHANGED <<wk, ask, ctx, buf, mem, len, status, flight, res, calls, out,
                 cache, mapping, update, clock, setting>>

\* The other case of the select: the handler returns, its buffer with it, while
\* the goroutine goes on.  After a deadline it sets the status of the
\* CustomWriter, on which the goroutine goes by, and writes to the
\* ResponseWriter, which sends 200.
Leave(r) ==
  /\ pc[r] = "wait"
  /\ ctx[r] # "live"
  /\ IF ctx[r] = "deadline"
     THEN /\ out' = [out EXCEPT ![r] = [code |-> FirstCode(r, 200),
                                        body |-> <<0>>, hit |-> FALSE]]
          /\ \E c \in Codes(r, 504) : status' = [status EXCEPT ![r] = c]
     ELSE UNCHANGED <<out, status>>
  /\ Return(r)
  /\ UNCHANGED <<wk, ask, ctx, buf, mem, len, flight, res, calls, cache, mapping,
                 update, clock, setting>>

Tick ==
  /\ clock < setting.ticks
  /\ clock' = clock + 1
  /\ UNCHANGED <<pc, wk, ask, ctx, buf, mem, len, pool, status, flight, res,
                 calls, out, cache, mapping, update, setting>>

Finished == /\ \A r \in Requests : pc[r] = "done" /\ wk[r] \in {"off", "end"}
            /\ UNCHANGED vars

Next ==
  \/ \E r \in Requests :
       \/ Bypass(r) \/ Lookup(r) \/ SendHit(r)
       \/ Do(r) \/ Fetch(r) \/ Abort(r) \/ Conclude(r)
       \/ SetValue(r) \/ GetMapping(r) \/ SetMapping(r) \/ Apply(r)
       \/ Receive(r) \/ EndContext(r) \/ Leave(r)
  \/ Tick
  \/ Finished

Spec == Init /\ [][Next]_vars

\* The scheduler runs every goroutine and the timer ends every context that may
\* end; the upstream server answers only those whose context does not.
Runs(r) ==
  \/ Bypass(r) \/ Lookup(r) \/ SendHit(r) \/ Do(r) \/ Conclude(r)
  \/ SetValue(r) \/ GetMapping(r) \/ SetMapping(r) \/ Apply(r)
  \/ Receive(r) \/ Leave(r)

FairSpec ==
  /\ Spec
  /\ \A r \in Requests : /\ WF_vars(Runs(r))
                          /\ WF_vars(EndContext(r))
                          /\ WF_vars(setting.ends = {} /\ Fetch(r))

-----------------------------------------------------------------------------
(***************************************************************************)
(* What should hold.                                                       *)
(***************************************************************************)

\* A response of upstream call c is for request r: same key, and the same
\* value of the header that Vary names.
Fits(r, c) ==
  /\ KeyOf[calls[c].req] = KeyOf[r]
  /\ calls[c].ans.vary => VariantOf[calls[c].req] = VariantOf[r]

\* Every 200 a client receives is the whole body of one response for it, also
\* when the call is shared.
WholeResponseShared ==
  \A r \in Requests :
    pc[r] = "done" /\ out[r].code = 200 /\ ctx[r] = "live" =>
      \E c \in DOMAIN calls : out[r].body = <<c>> /\ Fits(r, c)

\* With disable_coalescing, every 200 a client receives is the whole body of one
\* response, and of one that is for this client: the bytes that Upstream,
\* Revalidate and the storer pass on have not been overwritten by another
\* request in the meantime.
WholeResponse ==
  setting.alone => WholeResponseShared

\* What Store gives the storer is the whole body of one response, filed under
\* the key and the variant of the request that was answered.
StoredWholeAlways ==
  \A s \in DOMAIN cache :
    \E c \in DOMAIN calls :
      /\ cache[s].body = <<c>>
      /\ KeyOf[calls[c].req] = s.key
      /\ calls[c].ans.vary => s.vary /\ s.variant = VariantOf[calls[c].req]

\* The same as long as no context ends, whoever shares the calls.
StoredWhole == setting.ends = {} => StoredWholeAlways

\* A client whose request ran into timeout.backend is told that the server is
\* unavailable, with an error status.
TimeoutUnavailable ==
  \A r \in Requests :
    pc[r] = "done" /\ wk[r] # "end" /\ ctx[r] = "deadline" /\ out[r].code # 0
      => out[r].code >= 500

\* For as long as the mapping announces a stale response, Get finds its value:
\* SetMultiLevel keeps it for the configured stale duration.
StaleServable ==
  \A k \in Keys : \A s \in DOMAIN mapping[k] :
    clock < mapping[k][s].stale => Get(s) # <<>>

\* When the upstream server answers, the goroutine that asks it ends: nobody
\* joins forever, and an answer with a Vary that does not fit is not asked for
\* again and again.
GoroutinesEnd ==
  \A r \in Requests : wk[r] # "off" /\ setting.ends = {} ~> wk[r] = "end"

\* A handler that waits for the upstream server returns: once it has answered,
\* or else no later than the timeout.
HandlerReturns == \A r \in Requests : pc[r] = "wait" ~> pc[r] = "done"
=============================================================================
