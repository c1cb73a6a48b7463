-------------------------- MODULE RequestCoalescing --------------------------
(***************************************************************************)
(* The request path of SouinBaseHandler (pkg/middleware/middleware.go and  *)
(* writer.go) from the moment ServeHTTP has looked the cache up and must   *)
(* ask the upstream server: requests with the same cached key share one    *)
(* upstream call through singleflight, every request writes into a buffer  *)
(* of a shared pool, and the request context may end at any moment.        *)
(*                                                                         *)
(* A request is served by a handler (ServeHTTP, its place is pc) and by a  *)
(* participant of the singleflight group (Upstream or Revalidate, its      *)
(* place is wk).  On a miss the participant is a goroutine of its own and  *)
(* the handler waits in a select; on a revalidation the handler itself is  *)
(* the participant; stale-while-revalidate leaves it in the background.    *)
(*                                                                         *)
(* Responses are abstract: an upstream call is numbered, and a body is the *)
(* sequence of the pieces written to a buffer, each the body of one call   *)
(* (or of the stored response, call 0), whole or cut short.  A header map  *)
(* is the set of the calls that have entries in it: what is written to a   *)
(* map that is not empty adds to its entries or overwrites them.           *)
(*                                                                         *)
(* Definitions marked Faulty are not part of the specification: each is a  *)
(* plausible bug, put in place of the definition below it to see that a    *)
(* property notices.                                                       *)
(***************************************************************************)
EXTENDS Integers, Sequences, FiniteSets

CONSTANTS
  Requests,      \* the client requests
  NoRequest,     \* no request leads a flight
  Keys,          \* the cached keys
  KeyOf,         \* the cached key of a request
  Variants,      \* the values of the request header that Vary names
  NoVariant,     \* that header is absent (http.Header.Get returns "")
  VariantOf,     \* the value a request sends
  NoBuffer,      \* a request that has no buffer yet
  Buffers,       \* the identities of the pooled buffers
  Modes,         \* what the lookup may decide, a subset of AllModes
  Clients,       \* the conditional headers clients send
  Answers,       \* the answers of the upstream server
  DisableCoalescing, \* the configuration's disable_coalescing
  CtxEnds,       \* how a request context may end
  MaxCalls       \* bound on the number of upstream calls

(***************************************************************************)
(* miss: Upstream in a goroutine.  fresh: Revalidate for a fresh response. *)
(* stale: Revalidate with the stored ETag injected (must-revalidate and    *)
(* the like).  staleIfError: Revalidate in strict mode for a response      *)
(* stored with stale-if-error.  swr: the stale response has been served    *)
(* and Revalidate runs in the background.                                  *)
(***************************************************************************)
AllModes == {"miss", "fresh", "stale", "staleIfError", "swr"}

\* etag: the If-None-Match against the stored ETag; ims, ius: If-Modified-Since
\* and If-Unmodified-Since; sie: stale-if-error holds for this request.
AllClients == [etag : {"none", "match", "differ"}, ims : BOOLEAN,
               ius : BOOLEAN, sie : BOOLEAN]

\* The answer of next: a response (200, 304 or 50x), an error, or a panic with
\* http.ErrAbortHandler in the middle of the body.  old: its Last-Modified is
\* earlier than the client's If-Modified-Since.
AllAnswers == [kind : {"ok", "notModified", "error50x", "fail", "abort"},
               private : BOOLEAN, cookie : BOOLEAN, vary : BOOLEAN,
               old : BOOLEAN]

ASSUME ConstantsAssumption ==
  /\ NoRequest \notin Requests
  /\ NoBuffer \notin Buffers
  /\ KeyOf \in [Requests -> Keys]
  /\ NoVariant \in Variants
  /\ VariantOf \in [Requests -> Variants]
  /\ Modes \subseteq AllModes
  /\ Clients \subseteq AllClients
  /\ Answers \subseteq AllAnswers
  /\ DisableCoalescing \in BOOLEAN
  /\ CtxEnds \subseteq {"deadline", "canceled"}
  /\ MaxCalls \in Nat

Cached == 0           \* the stored response, as a source of body and headers
Blank == {}           \* an empty header map

VARIABLES
  pc,       \* the handler, in PcPlaces
  wk,       \* the participant of the singleflight group, in WkPlaces
  mode,     \* what the lookup decided
  cli,      \* the conditional headers of the client
  ctx,      \* the request context: "live", "deadline" or "canceled"
  solo,     \* disableCoalescing: the singleflight key is made unique
  owned,    \* bufPoolOwned
  buf,      \* the buffer of the CustomWriter
  content,  \* the bytes of each buffer
  pool,     \* how many times each buffer is in bufPool
  alloc,    \* the buffers created so far
  status,   \* CustomWriter.statusCode
  rwHdr,    \* the header map of the ResponseWriter
  draft,    \* what Upstream and Store have read of the response headers
  flight,   \* singleflight.Group.m: the leader of each key's call
  calls,    \* the upstream calls answered so far
  res,      \* what singleflight.Do returned
  out,      \* what the client has been sent
  stored    \* the responses passed to SetMultiLevel

PcPlaces == {"new", "wait", "revalidate", "return", "done", "crash"}
WkPlaces == {"off", "do", "join", "fetch", "fetched", "store", "snapshot",
             "apply", "release", "notify", "revalidated", "end", "crash"}

reqVars == <<mode, cli>>
bufVars == <<buf, pool, alloc, owned>>
vars == <<pc, wk, mode, cli, ctx, solo, owned, buf, content, pool, alloc,
          status, rwHdr, draft, flight, calls, res, out, stored>>

Piece == [call : Nat, whole : BOOLEAN]
Body == Seq(Piece)
Whole(c) == <<[call |-> c, whole |-> TRUE]>>
Cut(c) == <<[call |-> c, whole |-> FALSE]>>

NoDraft == [private |-> FALSE, hdr |-> Blank, store |-> FALSE]

Result == [err : {"none", "50x", "fail", "other", "panic"}, val : BOOLEAN,
           body : Body, hdr : SUBSET Nat, code : Nat, variant : Variants,
           disable : BOOLEAN, shared : BOOLEAN]

\* Do returned an error and no value.
Error(e) == [err |-> e, val |-> FALSE, body |-> <<>>, hdr |-> Blank,
             code |-> 200, variant |-> NoVariant, disable |-> FALSE,
             shared |-> FALSE]
NoResult == Error("none")

Stored == [key : Keys, body : Body, hdr : SUBSET Nat, variant : Variants]

-----------------------------------------------------------------------------
(***************************************************************************)
(* The CustomWriter (writer.go).                                           *)
(***************************************************************************)

\* CustomWriter.Header(): an empty map once the context has ended, so that a
\* read finds nothing and a write is lost.
Header(r) == IF ctx[r] = "live" THEN rwHdr[r] ELSE Blank

\* What the map may be once the headers h are written to it: they overwrite
\* every entry that was there, or leave some in place (http.Header.Set and Add
\* of next, maps.Copy of the callers).
Merged(r, h) ==
  IF ctx[r] = "live" /\ h # Blank THEN {h, rwHdr[r] \union h} ELSE {rwHdr[r]}

\* Writing the headers h to customWriter.Header().
PutHeader(r, h) ==
  \E m \in Merged(r, h) : rwHdr' = [rwHdr EXCEPT ![r] = m]

\* Some response with entries in the map has that field.
HeaderSays(h, field) ==
  \E c \in h : c \in 1 .. Len(calls) /\ calls[c].ans[field]

\* Rw.WriteHeader: only the first call has an effect.
FirstCode(r, code) == IF out[r].code = 0 THEN code ELSE out[r].code

\* Rw.WriteHeader called on the ResponseWriter itself.
WriteCode(r, code) ==
  out' = [out EXCEPT ![r] = [code |-> FirstCode(r, code), body |-> out[r].body,
                             hdr |-> out[r].hdr]]

\* CustomWriter.Send() with the given status and buffer, then Reset.
Send(r, code, body, h) ==
  out' = [out EXCEPT ![r] = [code |-> FirstCode(r, code), body |-> body,
                             hdr |-> h]]

-----------------------------------------------------------------------------
(***************************************************************************)
(* The buffer pool: ServeHTTP takes a buffer, and the handler's deferred   *)
(* function or the upstream goroutine gives it back.                       *)
(***************************************************************************)

\* Faulty: hands a buffer out without looking whether the pool has it.
GetBufferBlindly(b) ==
  /\ pool' = [pool EXCEPT ![b] = @ - 1]
  /\ UNCHANGED alloc

\* bufPool.Get(): a pooled buffer or a new one.
GetBuffer(b) ==
  \/ /\ pool[b] > 0
     /\ pool' = [pool EXCEPT ![b] = @ - 1]
     /\ UNCHANGED alloc
  \/ /\ b \notin alloc
     /\ alloc' = alloc \union {b}
     /\ UNCHANGED pool

\* ServeHTTP returns: the deferred functions put the buffer back when it is
\* still owned, and cancel the context.
Return(r, stillOwned) ==
  /\ pc' = [pc EXCEPT ![r] = "done"]
  /\ pool' = IF stillOwned THEN [pool EXCEPT ![buf[r]] = @ + 1] ELSE pool
  /\ ctx' = [ctx EXCEPT ![r] = IF @ = "live" THEN "canceled" ELSE @]

\* The state of a request before ServeHTTP has looked the cache up.
Init ==
  /\ pc = [r \in Requests |-> "new"]
  /\ wk = [r \in Requests |-> "off"]
  /\ mode \in [Requests -> Modes]
  /\ cli \in [Requests -> Clients]
  /\ ctx = [r \in Requests |-> "live"]
  /\ solo = [r \in Requests |-> DisableCoalescing]
  /\ owned = [r \in Requests |-> TRUE]
  /\ buf = [r \in Requests |-> NoBuffer]
  /\ content = [b \in Buffers |-> <<>>]
  /\ pool = [b \in Buffers |-> 0]
  /\ alloc = {}
  /\ status = [r \in Requests |-> 200]
  /\ rwHdr = [r \in Requests |-> Blank]
  /\ draft = [r \in Requests |-> NoDraft]
  /\ flight = [k \in Keys |-> NoRequest]
  /\ calls = <<>>
  /\ res = [r \in Requests |-> NoResult]
  /\ out = [r \in Requests |-> [code |-> 0, body |-> <<>>, hdr |-> Blank]]
  /\ stored = {}

\* ServeHTTP up to the upstream request: take a buffer and reset it, create
\* the writer, and call Revalidate or start the goroutine that calls Upstream.
Start(r) ==
  /\ pc[r] = "new" /\ mode[r] # "swr"
  /\ \E b \in Buffers :
       /\ GetBuffer(b)
       /\ buf' = [buf EXCEPT ![r] = b]
       /\ content' = [content EXCEPT ![b] = <<>>]
  /\ pc' = [pc EXCEPT ![r] = IF mode[r] = "miss" THEN "wait" ELSE "revalidate"]
  /\ wk' = [wk EXCEPT ![r] = "do"]
  /\ UNCHANGED <<reqVars, ctx, solo, owned, status, rwHdr, draft, flight,
                 calls, res, out, stored>>

\* Stale-while-revalidate: the stale response goes out through the pooled
\* buffer, which the handler gives back when it returns; the background
\* Revalidate writes into a buffer of its own, which is never pooled, and into
\* the header map of the same ResponseWriter, where the stale headers stay.
StartBackground(r) ==
  /\ pc[r] = "new" /\ mode[r] = "swr"
  /\ Send(r, 200, Whole(Cached), {Cached})
  /\ PutHeader(r, {Cached})
  /\ \E b \in Buffers \ alloc :
       /\ alloc' = alloc \union {b}
       /\ buf' = [buf EXCEPT ![r] = b]
  /\ pc' = [pc EXCEPT ![r] = "return"]
  /\ wk' = [wk EXCEPT ![r] = "do"]
  /\ UNCHANGED <<reqVars, ctx, solo, owned, content, pool, status, draft,
                 flight, calls, res, stored>>

\* Faulty: the background writer keeps the buffer that the handler gives back.
ReturnBackgroundPuts(r) ==
  /\ pc[r] = "return"
  /\ Return(r, TRUE)
  /\ UNCHANGED <<wk, reqVars, solo, owned, buf, content, alloc, status, rwHdr,
                 draft, flight, calls, res, out, stored>>

ReturnBackground(r) ==
  /\ pc[r] = "return"
  /\ Return(r, FALSE)
  /\ UNCHANGED <<wk, reqVars, solo, owned, buf, content, alloc, status, rwHdr,
                 draft, flight, calls, res, out, stored>>

\* The backend timeout passes, or the client goes away.
EndContext(r) ==
  /\ pc[r] \notin {"new", "crash"} /\ ctx[r] = "live"
  /\ \E e \in CtxEnds : ctx' = [ctx EXCEPT ![r] = e]
  /\ UNCHANGED <<pc, wk, reqVars, solo, bufVars, content, status, rwHdr, draft,
                 flight, calls, res, out, stored>>

-----------------------------------------------------------------------------
(***************************************************************************)
(* singleflight.Group.Do: lead the call of the key, or wait for it.        *)
(***************************************************************************)

Do(r) ==
  /\ wk[r] = "do"
  /\ LET k == KeyOf[r] IN
       \/ /\ solo[r]
          /\ wk' = [wk EXCEPT ![r] = "fetch"]
          /\ UNCHANGED flight
       \/ /\ ~solo[r] /\ flight[k] = NoRequest
          /\ wk' = [wk EXCEPT ![r] = "fetch"]
          /\ flight' = [flight EXCEPT ![k] = r]
       \/ /\ ~solo[r] /\ flight[k] # NoRequest
          /\ wk' = [wk EXCEPT ![r] = "join"]
          /\ UNCHANGED flight
  /\ UNCHANGED <<pc, reqVars, ctx, solo, bufVars, content, status, rwHdr,
                 draft, calls, res, out, stored>>

Leads(r) == flight[KeyOf[r]] = r
Followers(r) ==
  IF Leads(r) THEN {q \in Requests : wk[q] = "join" /\ KeyOf[q] = KeyOf[r]}
              ELSE {}

\* doCall's deferred function: every caller gets the result, the key is free.
Publish(r, v) ==
  LET all == Followers(r) \union {r} IN
  /\ res' = [q \in Requests |-> IF q \in all THEN v ELSE res[q]]
  /\ wk' = [q \in Requests |-> IF q \in all THEN "apply" ELSE wk[q]]
  /\ flight' = IF Leads(r) THEN [flight EXCEPT ![KeyOf[r]] = NoRequest]
                           ELSE flight

-----------------------------------------------------------------------------
(***************************************************************************)
(* The function passed to Do: call next, store the response, return it.    *)
(***************************************************************************)

Code(a) == CASE a.kind = "notModified" -> 304
             [] a.kind = "error50x" -> 500
             [] OTHER -> 200

\* The upstream server sends a 304 only to a conditional request; the stale
\* path adds the stored ETag as an If-None-Match.
ConditionalClient(r) == cli[r].etag # "none" \/ cli[r].ims
Conditional(r) == ConditionalClient(r) \/ mode[r] = "stale"

\* next(customWriter, rq): the upstream server answers into the buffer.
Fetch(r) ==
  /\ wk[r] = "fetch"
  /\ Len(calls) < MaxCalls
  /\ \E a \in Answers :
       LET c == Len(calls) + 1
           b == buf[r]
       IN /\ a.kind = "notModified" => Conditional(r)
          /\ calls' = Append(calls, [by |-> r, ans |-> a])
          /\ IF a.kind = "fail"
             THEN UNCHANGED <<status, rwHdr, content>>
             ELSE /\ status' = [status EXCEPT ![r] = Code(a)]
                  /\ PutHeader(r, {c})
                  /\ content' = [content EXCEPT ![b] = @ \o
                       CASE a.kind = "abort" -> Cut(c)
                         [] a.kind = "notModified" -> <<>>
                         [] OTHER -> Whole(c)]
  /\ wk' = [wk EXCEPT ![r] = "fetched"]
  /\ UNCHANGED <<pc, reqVars, ctx, solo, bufVars, draft, flight, res, out,
                 stored>>

\* The call that r has just made.
LastCall(r) == CHOOSE c \in 1 .. Len(calls) :
                 /\ calls[c].by = r
                 /\ \A d \in (c + 1) .. Len(calls) : calls[d].by # r
AnswerTo(r) == calls[LastCall(r)].ans

\* A panic leaves the function: singleflight hands it to every caller.
Panic(r) ==
  /\ wk[r] = "fetched" /\ AnswerTo(r).kind = "abort"
  /\ Publish(r, Error("panic"))
  /\ UNCHANGED <<pc, reqVars, ctx, solo, bufVars, content, status, rwHdr,
                 draft, calls, out, stored>>

\* What Upstream and Store read of the response: whether Cache-Control says
\* private, the headers to store, and whether the response may be stored.
Read(r) ==
  [private |-> HeaderSays(Header(r), "private"),
   hdr |-> Header(r),
   store |-> status[r] = 200 /\ ~HeaderSays(Header(r), "private")]

\* Upstream: an error of next and a 50x end the call without a value.
UpstreamFails(r) ==
  /\ wk[r] = "fetched" /\ mode[r] = "miss"
  /\ \/ AnswerTo(r).kind = "fail" /\ Publish(r, Error("fail"))
     \/ AnswerTo(r).kind = "error50x" /\ Publish(r, Error("50x"))
  /\ UNCHANGED <<pc, reqVars, ctx, solo, bufVars, content, status, rwHdr,
                 draft, calls, out, stored>>

UpstreamReads(r) ==
  /\ wk[r] = "fetched" /\ mode[r] = "miss"
  /\ AnswerTo(r).kind \in {"ok", "notModified"}
  /\ draft' = [draft EXCEPT ![r] = Read(r)]
  /\ wk' = [wk EXCEPT ![r] = "store"]
  /\ UNCHANGED <<pc, reqVars, ctx, solo, bufVars, content, status, rwHdr,
                 flight, calls, res, out, stored>>

\* Revalidate: the preconditions of the client that the answer settles are
\* written directly to the ResponseWriter and end the call with an error.  A
\* Last-Modified that the stale response has left in the map may be found
\* instead of that of the answer, and may be old or not.
Unmodified(r) == cli[r].ius /\ AnswerTo(r).kind \in {"ok", "error50x"}
NotModifiedSince(r) ==
  cli[r].ims /\ (HeaderSays(Header(r), "old") \/ Cached \in Header(r))
ModifiedSince(r) ==
  cli[r].ims => ~HeaderSays(Header(r), "old") \/ Cached \in Header(r)

RevalidateSettles(r) ==
  /\ wk[r] = "fetched" /\ mode[r] # "miss"
  /\ AnswerTo(r).kind \notin {"abort", "fail"}
  /\ Unmodified(r) \/ NotModifiedSince(r)
  /\ WriteCode(r, IF Unmodified(r) THEN 412 ELSE 304)
  /\ content' = [content EXCEPT ![buf[r]] = <<>>]
  /\ Publish(r, Error("other"))
  /\ UNCHANGED <<pc, reqVars, ctx, solo, bufVars, status, rwHdr, draft, calls,
                 stored>>

RevalidateReads(r) ==
  /\ wk[r] = "fetched" /\ mode[r] # "miss"
  /\ \/ AnswerTo(r).kind = "fail"
     \/ AnswerTo(r).kind # "abort" /\ ~Unmodified(r) /\ ModifiedSince(r)
  /\ draft' = [draft EXCEPT ![r] =
       IF AnswerTo(r).kind = "fail" THEN NoDraft ELSE Read(r)]
  /\ wk' = [wk EXCEPT ![r] = "store"]
  /\ UNCHANGED <<pc, reqVars, ctx, solo, bufVars, content, status, rwHdr,
                 flight, calls, res, out, stored>>

\* Faulty: no look at the context before the storers are called.
MayStoreAnyway(r) == draft[r].store

\* Store looks at the context once more before it calls the storers; they may
\* fail to insert the response.
MayStore(r) == draft[r].store /\ ctx[r] = "live"

Store(r) ==
  /\ wk[r] = "store"
  /\ \/ /\ MayStore(r)
        /\ stored' = stored \union {[key |-> KeyOf[r], body |-> content[buf[r]],
                                     hdr |-> draft[r].hdr,
                                     variant |-> VariantOf[r]]}
     \/ UNCHANGED stored
  /\ wk' = [wk EXCEPT ![r] = "snapshot"]
  /\ UNCHANGED <<pc, reqVars, ctx, solo, bufVars, content, status, rwHdr,
                 draft, flight, calls, res, out>>

\* The value handed to the callers: the bytes of the buffer, a clone of the
\* headers as they can be read now, and what Upstream adds to it.  Revalidate
\* returns a value together with an error.
Value(r) ==
  [err |-> IF mode[r] = "miss" THEN "none"
           ELSE IF AnswerTo(r).kind = "fail" THEN "fail"
           ELSE IF status[r] = 500 THEN "50x" ELSE "none",
   val |-> TRUE,
   body |-> content[buf[r]],
   hdr |-> Header(r),
   code |-> status[r],
   variant |-> IF mode[r] = "miss" THEN VariantOf[r] ELSE NoVariant,
   disable |-> /\ mode[r] = "miss"
               /\ draft[r].private \/ HeaderSays(Header(r), "cookie"),
   shared |-> Followers(r) # {}]

\* Faulty: the leader's buffer is not reset once its bytes are copied.
SnapshotKeepsBytes(r) ==
  /\ wk[r] = "snapshot"
  /\ Publish(r, Value(r))
  /\ draft' = [draft EXCEPT ![r] = NoDraft]
  /\ UNCHANGED <<pc, reqVars, ctx, solo, bufVars, content, status, rwHdr, calls,
                 out, stored>>

Snapshot(r) ==
  /\ wk[r] = "snapshot"
  /\ Publish(r, Value(r))
  /\ content' = [content EXCEPT ![buf[r]] = <<>>]
  /\ draft' = [draft EXCEPT ![r] = NoDraft]
  /\ UNCHANGED <<pc, reqVars, ctx, solo, bufVars, status, rwHdr, calls, out,
                 stored>>

-----------------------------------------------------------------------------
(***************************************************************************)
(* After Do: every caller copies the shared value into its own writer.     *)
(***************************************************************************)

\* Buf.Reset, Write, maps.Copy into Header(), WriteHeader.
CopyValue(r) ==
  /\ content' = [content EXCEPT ![buf[r]] = res[r].body]
  /\ PutHeader(r, res[r].hdr)
  /\ status' = [status EXCEPT ![r] = res[r].code]

\* Faulty: the varied headers of the two requests are not compared, and a
\* private response is passed on like any other.
AnyVariant(r) == FALSE
NeverAlone(r) == FALSE

\* The value answers a request with other values of the varied headers.
OtherVariant(r) ==
  HeaderSays(res[r].hdr, "vary") /\ VariantOf[r] # res[r].variant

MustGoAlone(r) == res[r].shared /\ res[r].disable

\* Upstream returns the error, or recovers from the panic and returns nil.
UpstreamReturnsEarly(r) ==
  /\ wk[r] = "apply" /\ mode[r] = "miss" /\ res[r].err # "none"
  /\ res' = IF res[r].err = "panic" THEN [res EXCEPT ![r] = NoResult] ELSE res
  /\ wk' = [wk EXCEPT ![r] = "release"]
  /\ UNCHANGED <<pc, reqVars, ctx, solo, bufVars, content, status, rwHdr,
                 draft, flight, calls, out, stored>>

\* Faulty: the second call is not told to disable coalescing.
UpstreamAgainShared(r) ==
  /\ wk[r] = "apply" /\ mode[r] = "miss" /\ res[r].err = "none"
  /\ MustGoAlone(r) \/ OtherVariant(r)
  /\ res' = [res EXCEPT ![r] = NoResult]
  /\ wk' = [wk EXCEPT ![r] = "do"]
  /\ UNCHANGED <<pc, reqVars, ctx, solo, bufVars, content, status, rwHdr, draft,
                 flight, calls, out, stored>>

\* Upstream calls itself again: alone for a private response that was shared,
\* under the same key for another variant.
UpstreamAgain(r) ==
  /\ wk[r] = "apply" /\ mode[r] = "miss" /\ res[r].err = "none"
  /\ MustGoAlone(r) \/ OtherVariant(r)
  /\ solo' = [solo EXCEPT ![r] = DisableCoalescing \/ MustGoAlone(r)]
  /\ res' = [res EXCEPT ![r] = NoResult]
  /\ wk' = [wk EXCEPT ![r] = "do"]
  /\ UNCHANGED <<pc, reqVars, ctx, bufVars, content, status, rwHdr, draft,
                 flight, calls, out, stored>>

UpstreamApplies(r) ==
  /\ wk[r] = "apply" /\ mode[r] = "miss" /\ res[r].err = "none"
  /\ ~MustGoAlone(r) /\ ~OtherVariant(r)
  /\ CopyValue(r)
  /\ res' = [res EXCEPT ![r] = NoResult]
  /\ wk' = [wk EXCEPT ![r] = "release"]
  /\ UNCHANGED <<pc, reqVars, ctx, solo, bufVars, draft, flight, calls, out,
                 stored>>

\* The goroutine gives the buffer back when the handler has left it behind.
Release(r) ==
  /\ wk[r] = "release"
  /\ IF owned[r]
     THEN UNCHANGED <<pool, content>>
     ELSE /\ pool' = [pool EXCEPT ![buf[r]] = @ + 1]
          /\ content' = [content EXCEPT ![buf[r]] = <<>>]
  /\ wk' = [wk EXCEPT ![r] = "notify"]
  /\ UNCHANGED <<pc, reqVars, ctx, solo, owned, buf, alloc, status, rwHdr,
                 draft, flight, calls, res, out, stored>>

\* errorCacheCh <- err (the channel has room for one value).
Notify(r) ==
  /\ wk[r] = "notify"
  /\ wk' = [wk EXCEPT ![r] = "end"]
  /\ UNCHANGED <<pc, reqVars, ctx, solo, bufVars, content, status, rwHdr,
                 draft, flight, calls, res, out, stored>>

\* Revalidate copies the value, whether or not there is an error.
RevalidateApplies(r) ==
  /\ wk[r] = "apply" /\ mode[r] # "miss" /\ res[r].err # "panic"
  /\ IF res[r].val THEN CopyValue(r) ELSE UNCHANGED <<content, rwHdr, status>>
  /\ res' = [res EXCEPT ![r] = Error(res[r].err)]
  /\ wk' = [wk EXCEPT ![r] = IF mode[r] = "swr" THEN "end" ELSE "revalidated"]
  /\ UNCHANGED <<pc, reqVars, ctx, solo, bufVars, draft, flight, calls, out,
                 stored>>

\* Nothing recovers the panic: it ends the request.
RevalidatePanics(r) ==
  /\ wk[r] = "apply" /\ mode[r] \notin {"miss", "swr"} /\ res[r].err = "panic"
  /\ wk' = [wk EXCEPT ![r] = "end"]
  /\ content' = [content EXCEPT ![buf[r]] = <<>>]
  /\ Return(r, owned[r])
  /\ UNCHANGED <<reqVars, solo, owned, buf, alloc, status, rwHdr, draft,
                 flight, calls, res, out, stored>>

\* In the background goroutine it ends the process, with all its requests.
Crash(r) ==
  /\ wk[r] = "apply" /\ mode[r] = "swr" /\ res[r].err = "panic"
  /\ pc' = [q \in Requests |-> "crash"]
  /\ wk' = [q \in Requests |-> "crash"]
  /\ UNCHANGED <<reqVars, ctx, solo, bufVars, content, status, rwHdr, draft,
                 flight, calls, res, out, stored>>

-----------------------------------------------------------------------------
(***************************************************************************)
(* ServeHTTP on a miss: wait for the goroutine or for the context.         *)
(***************************************************************************)

\* Faulty: the buffer is not handed over to the goroutine.
SelectContextDoneOwned(r) ==
  /\ pc[r] = "wait" /\ ctx[r] # "live"
  /\ IF ctx[r] = "deadline" THEN WriteCode(r, 504) ELSE UNCHANGED out
  /\ Return(r, owned[r])
  /\ UNCHANGED <<wk, reqVars, solo, owned, buf, content, alloc, status, rwHdr,
                 draft, flight, calls, res, stored>>

\* Faulty: only a client that goes away ends the wait.
SelectCanceledOnly(r) ==
  /\ pc[r] = "wait" /\ ctx[r] = "canceled"
  /\ owned' = [owned EXCEPT ![r] = FALSE]
  /\ Return(r, FALSE)
  /\ UNCHANGED <<wk, reqVars, solo, buf, content, alloc, status, rwHdr, draft,
                 flight, calls, res, out, stored>>

SelectContextDone(r) ==
  /\ pc[r] = "wait" /\ ctx[r] # "live"
  /\ owned' = [owned EXCEPT ![r] = FALSE]
  /\ IF ctx[r] = "deadline" THEN WriteCode(r, 504) ELSE UNCHANGED out
  /\ Return(r, FALSE)
  /\ UNCHANGED <<wk, reqVars, solo, buf, content, alloc, status, rwHdr, draft,
                 flight, calls, res, stored>>

SelectResponse(r) ==
  /\ pc[r] = "wait" /\ wk[r] = "end"
  /\ IF res[r].err \in {"none", "50x"}
     THEN Send(r, status[r], content[buf[r]], rwHdr[r])
     ELSE UNCHANGED out
  /\ content' = [content EXCEPT ![buf[r]] = <<>>]
  /\ Return(r, owned[r])
  /\ UNCHANGED <<wk, reqVars, solo, owned, buf, alloc, status, rwHdr, draft,
                 flight, calls, res, stored>>

-----------------------------------------------------------------------------
(***************************************************************************)
(* ServeHTTP after Revalidate.                                             *)
(***************************************************************************)

\* Send with the given status and body, and return.
Respond(r, code, body, h) ==
  /\ Send(r, code, body, h)
  /\ content' = [content EXCEPT ![buf[r]] = <<>>]
  /\ Return(r, owned[r])
  /\ wk' = [wk EXCEPT ![r] = "end"]
  /\ UNCHANGED <<reqVars, solo, owned, buf, alloc, status, rwHdr, draft,
                 flight, calls, res, stored>>

Failed(r) == res[r].err # "none"
Matched(r) == cli[r].etag # "differ"

RespondFresh(r) ==
  /\ wk[r] = "revalidated" /\ mode[r] = "fresh"
  /\ Respond(r, status[r], content[buf[r]], rwHdr[r])

\* stale-if-error: the stored response replaces the failed answer.
RespondStaleOnError(r) ==
  /\ wk[r] = "revalidated" /\ Failed(r)
  /\ mode[r] = "staleIfError" \/ (mode[r] = "stale" /\ cli[r].sie)
  /\ \E h \in Merged(r, {Cached}) : Respond(r, 200, Whole(Cached), h)

\* Faulty: stale-if-error is not looked at.
RespondGatewayTimeoutAlways(r) ==
  /\ wk[r] = "revalidated" /\ mode[r] = "stale" /\ Failed(r)
  /\ Respond(r, 504, <<>>, rwHdr[r])

RespondGatewayTimeout(r) ==
  /\ wk[r] = "revalidated" /\ mode[r] = "stale" /\ Failed(r) /\ ~cli[r].sie
  /\ Respond(r, 504, <<>>, rwHdr[r])

\* A 304 that the client did not ask for becomes the stored response.
RespondStored(r) ==
  /\ wk[r] = "revalidated" /\ mode[r] = "stale" /\ ~Failed(r)
  /\ status[r] = 304 /\ ~(Matched(r) /\ ConditionalClient(r))
  /\ \E h \in Merged(r, {Cached}) :
       Respond(r, 200, content[buf[r]] \o Whole(Cached), h)

RespondNotModified(r) ==
  /\ wk[r] = "revalidated" /\ mode[r] = "stale" /\ ~Failed(r)
  /\ status[r] # 304 /\ Matched(r) /\ ConditionalClient(r)
  /\ Respond(r, 304, <<>>, rwHdr[r])

RespondRevalidated(r) ==
  /\ wk[r] = "revalidated" /\ mode[r] = "stale" /\ ~Failed(r)
  /\ (status[r] = 304) = (Matched(r) /\ ConditionalClient(r))
  /\ Respond(r, status[r], content[buf[r]], rwHdr[r])

\* The strict stale-if-error path has no return after a revalidation that
\* succeeded: ServeHTTP goes on to the upstream request with the same writer.
FallThrough(r) ==
  /\ wk[r] = "revalidated" /\ mode[r] = "staleIfError" /\ ~Failed(r)
  /\ mode' = [mode EXCEPT ![r] = "miss"]
  /\ pc' = [pc EXCEPT ![r] = "wait"]
  /\ wk' = [wk EXCEPT ![r] = "do"]
  /\ UNCHANGED <<cli, ctx, solo, bufVars, content, status, rwHdr, draft,
                 flight, calls, res, out, stored>>

-----------------------------------------------------------------------------
Handler(r) ==
  \/ Start(r) \/ StartBackground(r) \/ ReturnBackground(r)
  \/ SelectContextDone(r) \/ SelectResponse(r)

Participant(r) ==
  \/ Do(r) \/ Panic(r)
  \/ UpstreamFails(r) \/ UpstreamReads(r)
  \/ RevalidateSettles(r) \/ RevalidateReads(r)
  \/ Store(r) \/ Snapshot(r)
  \/ UpstreamReturnsEarly(r) \/ UpstreamAgain(r) \/ UpstreamApplies(r)
  \/ Release(r) \/ Notify(r)
  \/ RevalidateApplies(r) \/ RevalidatePanics(r) \/ Crash(r)
  \/ RespondFresh(r) \/ RespondStaleOnError(r) \/ RespondGatewayTimeout(r)
  \/ RespondStored(r) \/ RespondNotModified(r) \/ RespondRevalidated(r)
  \/ FallThrough(r)

Next == \E r \in Requests :
  Handler(r) \/ Participant(r) \/ Fetch(r) \/ EndContext(r)

Spec == Init /\ [][Next]_vars

(***************************************************************************)
(* The scheduler runs every goroutine that can take a step, and the timer  *)
(* of the backend timeout fires.  Nothing makes the upstream server answer.*)
(***************************************************************************)
Fairness == \A r \in Requests :
  /\ WF_vars(Handler(r))
  /\ WF_vars(Participant(r))
  /\ WF_vars(EndContext(r))

FairSpec == Spec /\ Fairness

-----------------------------------------------------------------------------
(***************************************************************************)
(* Properties.                                                             *)
(***************************************************************************)

\* Every variable has its type: the places of handlers and participants, the
\* buffers and their contents, the singleflight table, results and responses.
TypeOK ==
  /\ pc \in [Requests -> PcPlaces]
  /\ wk \in [Requests -> WkPlaces]
  /\ mode \in [Requests -> AllModes]
  /\ cli \in [Requests -> AllClients]
  /\ ctx \in [Requests -> {"live", "deadline", "canceled"}]
  /\ solo \in [Requests -> BOOLEAN]
  /\ owned \in [Requests -> BOOLEAN]
  /\ buf \in [Requests -> Buffers \union {NoBuffer}]
  /\ content \in [Buffers -> Body]
  /\ pool \in [Buffers -> Nat]
  /\ alloc \subseteq Buffers
  /\ status \in [Requests -> Nat]
  /\ rwHdr \in [Requests -> SUBSET Nat]
  /\ draft \in [Requests -> [private : BOOLEAN, hdr : SUBSET Nat,
                         store : BOOLEAN]]
  /\ flight \in [Keys -> Requests \union {NoRequest}]
  /\ calls \in Seq([by : Requests, ans : AllAnswers])
  /\ res \in [Requests -> Result]
  /\ out \in [Requests -> [code : Nat, body : Body, hdr : SUBSET Nat]]
  /\ stored \subseteq Stored

\* The request may still read or write its buffer: the handler has not
\* returned, or the participant has not yet reached the release.
UsesBuffer(r) ==
  \/ pc[r] \in {"wait", "revalidate"}
  \/ wk[r] \notin {"off", "notify", "end", "crash"}

\* A buffer is in the pool at most once, never while a request may still touch
\* it, and two requests never work on one buffer (bufPoolOwned, ServeHTTP):
\* whatever order the timeout, the goroutine and the handler run in.
BufferExclusive ==
  /\ \A b \in Buffers : pool[b] <= 1
  /\ \A r \in Requests : UsesBuffer(r) => pool[buf[r]] = 0
  /\ \A r, q \in Requests :
       r # q /\ UsesBuffer(r) /\ UsesBuffer(q) => buf[r] # buf[q]

\* A response with a body is one whole response: the body of a single call for
\* the same key (or of the stored response) under that call's own headers and
\* status, whoever made the call (Upstream, Revalidate, Send).  Only a request
\* that has called the upstream server a second time may also be sent headers
\* that its own first answer has left in the map.
WholeResponse ==
  \A r \in Requests : out[r].body # <<>> =>
    \E c \in 0 .. Len(calls) :
      /\ out[r].body = Whole(c)
      /\ c \in out[r].hdr
      /\ out[r].hdr = {c} \/ \A d \in out[r].hdr : d # Cached /\ calls[d].by = r
      /\ c = Cached => out[r].code = 200
      /\ c # Cached => /\ KeyOf[calls[c].by] = KeyOf[r]
                       /\ out[r].code = Code(calls[c].ans)

\* A client never gets a success without the body of a response: a 200 always
\* carries one, also when the call was made by another request.
SuccessHasBody ==
  \A r \in Requests : out[r].code = 200 /\ pc[r] = "done" => out[r].body # <<>>

\* Nobody gets more than one copy of the body.
OneCopy == \A r \in Requests : Len(out[r].body) <= 1

\* A body that the upstream server cut short (http.ErrAbortHandler) is never
\* passed on as a complete response.
NoCutBody ==
  \A r \in Requests : \A i \in DOMAIN out[r].body : out[r].body[i].whole

\* A response marked private, or setting a cookie, only reaches the client
\* whose own request produced it, although the call was shared
\* (disableCoalescing in Upstream).
PrivateToItsClient ==
  \A r \in Requests : \A i \in DOMAIN out[r].body :
    LET c == out[r].body[i].call
    IN c # Cached /\ (calls[c].ans.private \/ calls[c].ans.cookie)
         => calls[c].by = r

\* A coalesced client gets the variant it asked for: when the response varies,
\* the request that was sent upstream had the same value of that header.
VariantMatches ==
  \A r \in Requests : \A i \in DOMAIN out[r].body :
    LET c == out[r].body[i].call
    IN c # Cached /\ calls[c].ans.vary
         => VariantOf[calls[c].by] = VariantOf[r]

\* A 304 is sent only to a client that made a conditional request.
NotModifiedOnlyWhenAsked ==
  \A r \in Requests : out[r].code = 304 => ConditionalClient(r)

\* One request causes at most two upstream calls: its own flight, and one more
\* alone when that flight turned out private and was shared.
BoundedRetries ==
  \A r \in Requests : Cardinality({c \in 1 .. Len(calls) : calls[c].by = r}) <= 2

\* What is stored carries the headers of the response that its body belongs to,
\* which is not private, even when the context ends while Upstream or Store is
\* reading them (Header() then returns an empty map; the ctx.Done check of
\* Store).  A Revalidate that the handler waits for stores these headers alone;
\* entries of another response come with them only where one has been written
\* to the same map before: the stale one that stale-while-revalidate has served,
\* or an earlier answer to a request that calls Upstream after it.
StoredHeadersIntact ==
  \A e \in stored : \E c \in e.hdr :
    /\ c \in 1 .. Len(calls) /\ ~calls[c].ans.private
    /\ \E i \in DOMAIN e.body : e.body[i].call = c
    /\ e.hdr = {c} \/ mode[calls[c].by] \in {"miss", "swr"}

\* What is stored, and what is sent, has the headers of one response only.
StoredHeadersOfOne == \A e \in stored : Cardinality(e.hdr) = 1
SentHeadersOfOne ==
  \A r \in Requests : out[r].body # <<>> => Cardinality(out[r].hdr) = 1

\* With stale-if-error, a revalidation that fails is never visible: the client
\* of a must-revalidate entry gets the stored response, not the 50x.
StaleHidesErrors ==
  \A r \in Requests :
    mode[r] = "stale" /\ cli[r].sie => out[r].code \notin {500, 504}

\* The backend timeout bounds every request that waits in the select: its
\* handler returns, even if the upstream server never answers and whichever
\* path brought it there (a process that a panic has ended aside).
RequestReturns ==
  \A r \in Requests : pc[r] = "wait" ~> pc[r] \in {"done", "crash"}

\* The backend timeout bounds every revalidation too (timeout.backend).
RevalidationReturns ==
  \A r \in Requests : pc[r] = "revalidate" ~> pc[r] \in {"done", "crash"}
=============================================================================
