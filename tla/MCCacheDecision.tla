---------------------------- MODULE MCCacheDecision ----------------------------
(***************************************************************************)
(* Instances of CacheDecision: a plain request and upstream answer, and    *)
(* the requests and answers that differ from them in a few directives.     *)
(***************************************************************************)
EXTENDS CacheDecision

Get == [kind |-> "cacheable", method |-> "GET", parses |-> TRUE, authorization |-> FALSE,
        noCache |-> FALSE, noStore |-> FALSE, maxAge |-> -1, minFresh |-> -1,
        maxStaleSet |-> FALSE, maxStale |-> -1, onlyIfCached |-> FALSE, staleIfError |-> -1,
        ifNoneMatch |-> "", ifModifiedSince |-> FALSE, skew |-> 0]
Ok == [code |-> "ok", parses |-> TRUE, private |-> FALSE, noStore |-> FALSE, noCache |-> FALSE,
       sMaxAge |-> -1, maxAge |-> -1, expires |-> 0, mustRevalidate |-> FALSE,
       staleWhileRevalidate |-> -1, staleIfError |-> -1, age |-> 0, dated |-> TRUE,
       etag |-> "", vary |-> "", size |-> "small"]

\* Requests that reach every branch of ServeHTTP, and answers that do.
AllRequests ==
  {Get, [Get EXCEPT !.kind = "unsupported"], [Get EXCEPT !.parses = FALSE],
   [Get EXCEPT !.method = "HEAD", !.skew = 1, !.maxStale = 1],
   [Get EXCEPT !.noCache = TRUE, !.maxStaleSet = TRUE], [Get EXCEPT !.maxStaleSet = TRUE],
   [Get EXCEPT !.staleIfError = 1, !.onlyIfCached = TRUE, !.maxStale = 1],
   [Get EXCEPT !.ifNoneMatch = "*"], [Get EXCEPT !.ifModifiedSince = TRUE, !.maxStale = 1]}
AllUpstreams ==
  {[Ok EXCEPT !.maxAge = 1, !.mustRevalidate = TRUE],
   [Ok EXCEPT !.sMaxAge = 2, !.maxAge = 1, !.age = 2],
   [Ok EXCEPT !.expires = 2, !.noStore = TRUE, !.dated = FALSE, !.size = "empty",
              !.staleWhileRevalidate = 1],
   [Ok EXCEPT !.noCache = TRUE], [Ok EXCEPT !.maxAge = 1, !.staleIfError = 2, !.etag = "e1"],
   [Ok EXCEPT !.code = "50x"], [Ok EXCEPT !.code = "304"]}

FourSeconds == {[Ok EXCEPT !.maxAge = 4]}
TwoSeconds == {[Ok EXCEPT !.maxAge = 2]}
TaggedOld == {[Ok EXCEPT !.maxAge = 2, !.age = 3, !.etag = "e1"]}
NoCacheTagged == {[Ok EXCEPT !.noCache = TRUE, !.etag = "e1"]}
WhileRevalidated == {[Ok EXCEPT !.maxAge = 1, !.age = 1, !.staleWhileRevalidate = 1]}
Young == {Get, [Get EXCEPT !.maxAge = 0]}
Fresher == {Get, [Get EXCEPT !.minFresh = 2]}
==============================================================================
