---------------------------- MODULE RequestContext ----------------------------
(***************************************************************************)
(* What a request is filed under: the contexts that ServeHTTP puts on it   *)
(* (context/*.go: whether its method is supported, whether it is a GraphQL *)
(* mutation, its cache key and whether the response's Vary counts), and    *)
(* the URL rules that Store looks up.  A small cache filled and read under *)
(* these keys shows which requests share a response.                       *)
(*                                                                         *)
(* A text is a sequence of tokens.  A key is the concatenation of texts    *)
(* with the separators of the code, so that different requests may well    *)
(* have the same key.  A digest is taken to be collision free.  Faulty     *)
(* definitions are plausible bugs, in place of the definition after them.  *)
(***************************************************************************)
EXTENDS Integers, Sequences, SequencesExt, FiniteSets

CONSTANTS
  Configurations, \* configurations of the cache, one of which is used
  Requests,       \* what clients send
  Parameters,     \* the parameters of queries: their order, and whether they can be read
  VaryOn,         \* the header that the upstream server varies on
  MaxStores       \* bound on the responses stored

\* The parts of a request that a rule can leave out of the key.
Parts == {"method", "scheme", "host", "query", "body"}
IsText(t) == t \in Seq(ToSet(t))
\* A rule for the key, of the configuration or of its cache_keys: the parts
\* left out, the headers put in, a template of parts that replaces them all.
IsRule(k) == /\ k.disabled \subseteq Parts \union {"vary"}
             /\ k.sortQuery \in BOOLEAN /\ k.hash \in BOOLEAN
             /\ IsText(k.headers)
             /\ \A rq \in Requests : ToSet(k.headers) \subseteq DOMAIN rq.headers
             /\ k.template \in Seq(Parts \union {"path"})

ASSUME ContextAssumption ==
  /\ \A c \in Configurations :
       /\ IsRule(c.key) /\ c.cacheKeys \in Seq(ToSet(c.cacheKeys))
       /\ \A i \in DOMAIN c.cacheKeys : IsRule(c.cacheKeys[i].rule)
  /\ \A rq \in Requests :
       /\ IsText(rq.host) /\ IsText(rq.path) /\ IsText(rq.query)
       /\ \A i \in DOMAIN rq.query : Parameters[rq.query[i]].rank \in Nat
       /\ \A h \in DOMAIN rq.headers : IsText(rq.headers[h])
  /\ MaxStores \in Nat

VARIABLES
  conf,    \* the configuration
  cache,   \* stored responses: key, varied value, the request they answer
  answer   \* the last answer: the request, and the one it was stored for

contextVars == <<conf, cache, answer>>

NoRequest == [path |-> <<>>]

-----------------------------------------------------------------------------
(* Method and GraphQL contexts. *)

\* The allowed verbs of the configuration, or else GET and HEAD; configuring
\* them also switches the GraphQL logic on.
AllowedVerbs == IF conf.verbs = {} THEN {"GET", "HEAD"} ELSE conf.verbs
SupportedMethod(rq) == rq.method \in AllowedVerbs
GraphQL == conf.verbs # {}

\* Faulty: the body is compared with one byte too many.
isLongMutation(body) == body.text = "{query:mutation{"
\* The body is compared with the text that a mutation commonly begins with.
isMutation(body) == body.text = "{query:mutation"
IsMutationRequest(rq) == GraphQL /\ isMutation(rq.body)
HashBody(rq) == IF GraphQL /\ rq.body.text # "" /\ ~isMutation(rq.body)
                THEN <<"-", <<"sha256", rq.body>>>> ELSE <<>>

-----------------------------------------------------------------------------
(* Key context. *)

\* url.ParseQuery, sort.Strings and Encode: the parameters, each with its
\* value, in the order of their texts.  ParseQuery drops those that it cannot
\* read, and its error is not looked at.
WellFormed(query) == {i \in DOMAIN query : ~Parameters[query[i]].malformed}
Sorted(query) ==
  LET places == 1..Cardinality(WellFormed(query))
      order == CHOOSE p \in Bijection(places, WellFormed(query)) :
                 \A i, j \in places : i < j => Parameters[query[p[i]]].rank <= Parameters[query[p[j]]].rank
  IN [i \in places |-> query[order[i]]]
\* Faulty: the query is never sorted.
QueryAsSent(rq, k) ==
  IF "query" \in k.disabled \/ rq.query = <<>> THEN <<>> ELSE <<"?">> \o rq.query
QueryPart(rq, k) ==
  IF "query" \in k.disabled \/ rq.query = <<>> THEN <<>>
  ELSE <<"?">> \o (IF k.sortQuery THEN Sorted(rq.query) ELSE rq.query)
HeaderValues(rq, k) ==
  FlattenSeq([i \in DOMAIN k.headers |-> <<"-">> \o rq.headers[k.headers[i]]])

Unless(part, k, text) == IF part \in k.disabled THEN <<>> ELSE text

\* Faulty: the scheme is left out of the key.
PlainKeyWithoutScheme(rq, k) ==
  Unless("method", k, <<rq.method, "-">>) \o Unless("host", k, rq.host \o <<"-">>)
    \o rq.path \o QueryPart(rq, k) \o Unless("body", k, HashBody(rq)) \o HeaderValues(rq, k)
\* parseKeyInformations.
PlainKey(rq, k) ==
  Unless("method", k, <<rq.method, "-">>)
    \o Unless("scheme", k, <<rq.scheme, "-">>)
    \o Unless("host", k, rq.host \o <<"-">>)
    \o rq.path \o QueryPart(rq, k) \o Unless("body", k, HashBody(rq)) \o HeaderValues(rq, k)

Placeholder(rq, part) ==
  CASE part = "method" -> <<rq.method>> [] part = "scheme" -> <<rq.scheme>>
    [] part = "host" -> rq.host [] part = "path" -> rq.path
    [] part = "query" -> rq.query [] part = "body" -> <<rq.body>>
TemplateKey(rq, k) == FlattenSeq([i \in DOMAIN k.template |-> Placeholder(rq, k.template[i])])

\* The first rule of cache_keys that the URI matches, 0 if there is none.
Override(rq) ==
  LET hits == {i \in DOMAIN conf.cacheKeys : rq.path \in conf.cacheKeys[i].matches}
  IN IF hits = {} THEN 0 ELSE CHOOSE i \in hits : \A j \in hits : i <= j

\* The rule that computeKey follows: a template of the configuration is used
\* before any rule of cache_keys is looked at.
Used(rq) == IF conf.key.template # <<>> \/ Override(rq) = 0 THEN conf.key
            ELSE conf.cacheKeys[Override(rq)].rule
KeyText(rq) == LET k == Used(rq)
               IN IF k.template # <<>> THEN TemplateKey(rq, k) ELSE PlainKey(rq, k)
Key(rq) == IF Used(rq).hash THEN <<"xxhash", KeyText(rq)>> ELSE KeyText(rq)

\* GetVariedCacheKey and MappingElection: the varied header's value counts,
\* unless the configuration's own rule disables it.
DisableVary == "vary" \in conf.key.disabled
Varied(rq) == IF DisableVary THEN <<>> ELSE rq.headers[VaryOn]

-----------------------------------------------------------------------------
(* URL rules. *)

\* The text in host and path that one of the configured URLs matches is
\* looked up among them, as if it were the rule.
MatchedURL(rq) ==
  {u \in conf.urls : \E v \in conf.urls : rq.path \in v.matches /\ u.text = v.found}
TTL(rq) == IF MatchedURL(rq) = {} THEN conf.ttl ELSE (CHOOSE u \in MatchedURL(rq) : TRUE).ttl

-----------------------------------------------------------------------------
ContextInit ==
  /\ conf \in Configurations
  /\ cache = {}
  /\ answer = [request |-> NoRequest, storedFor |-> NoRequest]

\* A request that does not concern the cache goes to the upstream server.
Pass(rq) ==
  /\ ~SupportedMethod(rq) \/ IsMutationRequest(rq)
  /\ answer' = [request |-> rq, storedFor |-> NoRequest]
  /\ UNCHANGED <<conf, cache>>

\* The successful answer to another method deletes the mapping of the key that
\* a GET would have, in plain text: what is filed under a digest of it stays.
\* The body was read before.
Invalidate(rq) ==
  LET get == [rq EXCEPT !.method = "GET", !.body.text = ""]
  IN /\ ~SupportedMethod(rq) /\ rq.method # "GET"
     /\ cache' = {e \in cache : e.key # KeyText(get)}
     /\ answer' = [request |-> rq, storedFor |-> NoRequest]
     /\ UNCHANGED conf

Candidates(rq) == {e \in cache : e.key = Key(rq) /\ e.varied = Varied(rq)}

Hit(rq) ==
  /\ SupportedMethod(rq) /\ ~IsMutationRequest(rq)
  /\ \E e \in Candidates(rq) : answer' = [request |-> rq, storedFor |-> e.request]
  /\ UNCHANGED <<conf, cache>>

Miss(rq) ==
  /\ SupportedMethod(rq) /\ ~IsMutationRequest(rq)
  /\ Candidates(rq) = {} /\ Cardinality(cache) < MaxStores
  /\ cache' = cache \union {[key |-> Key(rq), varied |-> Varied(rq), request |-> rq, ttl |-> TTL(rq)]}
  /\ answer' = [request |-> rq, storedFor |-> NoRequest]
  /\ UNCHANGED conf

ContextNext == \E rq \in Requests : Pass(rq) \/ Invalidate(rq) \/ Hit(rq) \/ Miss(rq)
ContextSpec == ContextInit /\ [][ContextNext]_contextVars

-----------------------------------------------------------------------------
\* The rule that the configuration gives a request: the first of cache_keys
\* that it matches, or else the one of the whole cache.
RuleFor(rq) == IF Override(rq) = 0 THEN conf.key ELSE conf.cacheKeys[Override(rq)].rule
Keeps(k, part) ==
  IF k.template # <<>> THEN part \in ToSet(k.template)
  ELSE part \notin k.disabled /\ (part = "body" => GraphQL)

\* The same parameters, in any order.
Malformed(query) == {query[i] : i \in DOMAIN query \ WellFormed(query)}
SameParameters(q, r) == Sorted(q) = Sorted(r) /\ Malformed(q) = Malformed(r)

\* A request is only answered with a response stored for one that agrees
\* with it on every part that its rule keeps in the key, on the headers that
\* the rule adds and, unless the rule disables it, on the header that the
\* response varies on (computeKey, SetContext).
AnswerMatches ==
  LET rq == answer.request
      as == answer.storedFor
      k  == RuleFor(rq)
  IN as # NoRequest =>
       /\ \A part \in Parts \ {"query"} : Keeps(k, part) => rq[part] = as[part]
       /\ Keeps(k, "query") => rq.query = as.query \/ (k.sortQuery /\ SameParameters(rq.query, as.query))
       /\ (k.template = <<>> \/ "path" \in ToSet(k.template)) => rq.path = as.path
       /\ k.template = <<>> => \A i \in DOMAIN k.headers : rq.headers[k.headers[i]] = as.headers[k.headers[i]]
       /\ "vary" \notin k.disabled => rq.headers[VaryOn] = as.headers[VaryOn]

\* Requests that the rules tell nothing apart of share one response: what is
\* stored for the one is found by the other.
SharedAsConfigured ==
  \A e, f \in cache :
    (/\ e.request.path = f.request.path /\ e.request.headers = f.request.headers
     /\ RuleFor(e.request).template = <<>>
     /\ \A part \in Parts \ {"query"} :
          part \notin RuleFor(e.request).disabled => e.request[part] = f.request[part]
     /\ \/ "query" \in RuleFor(e.request).disabled
        \/ e.request.query = f.request.query
        \/ RuleFor(e.request).sortQuery /\ SameParameters(e.request.query, f.request.query))
      => e = f

\* A mutation is never answered from the cache, nor is its answer kept for
\* others (isMutation).
MutationsReachUpstream ==
  /\ answer.storedFor # NoRequest => ~answer.request.body.mutates
  /\ \A e \in cache : ~e.request.body.mutates

\* Once a mutation has been sent on, nothing that was asked with a body is
\* still stored.
MutationInvalidates ==
  (answer.request # NoRequest /\ answer.request.body.mutates) =>
     \A e \in cache : e.request.body.text = ""

\* What is stored for a URL that a configured URL rule matches has the
\* lifetime of the rule.
UrlRulesApply ==
  \A e \in cache :
    LET rules == {u \in conf.urls : e.request.path \in u.matches}
    IN rules # {} => \E u \in rules : e.ttl = u.ttl
=============================================================================
