-------------------------- MODULE ConfigurationParsers --------------------------
(***************************************************************************)
(* The parsers of the configuration: the Caddyfile                         *)
(* (plugins/caddy/configuration.go, merged with the global options by      *)
(* FromApp in httpcache.go), the agnostic one                              *)
(* (plugins/souin/agnostic/configuration_parser.go, also of Tyk and        *)
(* RoadRunner), and those of Kratos and Traefik.                           *)
(*                                                                         *)
(* A document is a sequence of directives, an option and its value; each   *)
(* step parses one.  The map of a document that is not a Caddyfile is      *)
(* ranged over in no particular order: it has an option once, and its      *)
(* directives come in any order.  A Caddyfile has two blocks, of the       *)
(* global options and of the handler, and may repeat an option.  An option *)
(* is a duration, a text, a list, a flag or a number, or a block, which is *)
(* a function of its directives; Bad is a duration that does not parse.    *)
(* Provider settings are named for their type.  The Distributed field is   *)
(* left out: nothing reads it.                                             *)
(***************************************************************************)
EXTENDS Integers, Sequences, SequencesExt, TLC

CONSTANTS
  Documents,    \* the kinds of documents
  Inputs,       \* by format, the values of each option
  NoBlock       \* the value of a directive whose block is empty

Bad == -1
Texts == {"cache_name", "default_cache_control", "log_level", "mode"}
Lists == {"allowed_http_verbs", "allowed_additional_status_codes", "headers", "storers"}
Durations == {"ttl", "stale", "mapping_eviction_interval"}
Flags == {"disable_coalescing", "disable_surrogate_key"}
Providers == {"badger", "etcd", "nats", "nuts", "olric", "otter", "redis", "simplefs"}
KeyFlags == {"disable_body", "disable_host", "disable_method", "disable_query",
             "sort_query", "disable_scheme", "disable_vary", "hash", "hide"}
Endpoints == {"debug", "prometheus", "souin"}
CdnTexts == {"api_key", "email", "hostname", "network", "provider", "service_id",
             "strategy", "zone_id"}
UrlOptions == {"urls", "ykeys", "surrogate_keys"}
AllOptions == Texts \union Lists \union Durations \union Flags \union Providers
                \union UrlOptions \union {"max_cacheable_body_bytes", "api", "cdn", "key",
                                          "timeout", "regex", "cache_keys"}

Formats == {"caddy", "agnostic", "kratos", "traefik"}

\* A kind of document: its parser, its options, the bounds on its directives and
\* on its handlers (of a Caddyfile), and whether the global options come from a
\* Caddyfile.
Kind == [format : Formats, options : SUBSET AllOptions, written : Nat,
         handlers : Nat \ {0}, defaulted : BOOLEAN]

ASSUME ParsersAssumption ==
  /\ Documents \subseteq Kind
  /\ \A d \in Documents : d.options \subseteq DOMAIN Inputs[d.format]

VARIABLES
  kind,      \* the kind of the document
  doc,       \* the directives parsed, of the global block and of the handler's
  block,     \* the block being parsed
  cfg,       \* the configuration of each block
  effective, \* the configurations of the handlers provisioned
  refused    \* whether the parser returned an error, or panicked

parsersVars == <<kind, doc, block, cfg, effective, refused>>

Format == kind.format
Options == kind.options

-----------------------------------------------------------------------------
(***************************************************************************)
(* The configuration: the structures of configurationtypes.                *)
(***************************************************************************)

\* The directives of a block over the zero value of its structure.
Over(zero, v) == [n \in DOMAIN zero |-> IF n \in DOMAIN v THEN v[n] ELSE zero[n]]

ZeroSettings == [n \in {} |-> n]
ZeroKey == [n \in KeyFlags |-> FALSE] @@ ("template" :> "" @@ "headers" :> <<>>)
ZeroProvider == "url" :> "" @@ "path" :> "" @@ "configuration" :> ZeroSettings
ZeroTimeout == [n \in {"backend", "cache"} |-> 0]
ZeroURL == "ttl" :> 0 @@ "headers" :> <<>> @@ "default_cache_control" :> ""
ZeroSurrogateKeys == "headers" :> ZeroSettings @@ "url" :> ""
ZeroRegex == [exclude |-> ""]
ZeroEndpoint == [enable |-> FALSE, basepath |-> ""]
ZeroAPI == [e \in Endpoints |-> ZeroEndpoint] @@ "basepath" :> ""
ZeroCDN == [n \in CdnTexts |-> ""] @@ "dynamic" :> FALSE

\* DefaultCache and BaseConfiguration, and the providers marked as found.
ZeroOf(o) ==
  CASE o \in Texts -> "" [] o \in Lists \union {"cache_keys"} -> <<>> [] o \in Flags -> FALSE
    [] o \in Durations \union {"max_cacheable_body_bytes"} -> 0 [] o \in Providers -> ZeroProvider
    [] o \in UrlOptions -> ZeroSettings [] o = "api" -> ZeroAPI [] o = "cdn" -> ZeroCDN
    [] o = "key" -> ZeroKey [] o = "timeout" -> ZeroTimeout [] o = "regex" -> ZeroRegex
    [] o = "found" -> {}
ZeroConfiguration == [o \in AllOptions \union {"found"} |-> ZeroOf(o)]

\* The block cdn of every parser: dynamic unless it says otherwise.
ParseCDN(v) == Over([ZeroCDN EXCEPT !["dynamic"] = TRUE], v)

\* A duration of the block timeout that does not parse is zero.
ParseTimeout(v) ==
  [n \in DOMAIN ZeroTimeout |-> IF n \in DOMAIN v /\ v[n] # Bad THEN v[n] ELSE 0]

ParseDuration(o, v, c) == IF v = Bad THEN c[o] ELSE v

-----------------------------------------------------------------------------
(***************************************************************************)
(* Caddyfile.                                                              *)
(***************************************************************************)

\* parseCaddyfileGlobalOption and UnmarshalCaddyfile: the configuration a block
\* starts from.  Global options that come as JSON have no defaults.
CaddyStart(b) ==
  IF b = "global" /\ kind.defaulted
  THEN [ZeroConfiguration EXCEPT !["ttl"] = 120, !["mapping_eviction_interval"] = 3600]
  ELSE ZeroConfiguration

IsNumber(code) == code # "teapot"

\* allowed_http_verbs and allowed_additional_status_codes.
CaddyAllowed(o, v, c) ==
  c[o] \o (IF o = "allowed_additional_status_codes" THEN SelectSeq(v, IsNumber) ELSE v)

\* api: an endpoint is enabled once it is named.
CaddyAPI(v) ==
  [e \in DOMAIN ZeroAPI |->
     IF e = "basepath" THEN Over(ZeroAPI, v)[e]
     ELSE [enable |-> e \in DOMAIN v,
           basepath |-> IF e \in DOMAIN v /\ v[e] # NoBlock THEN v[e]["basepath"] ELSE ""]]

\* key: a flag is set once it is named.
CaddyKey(v) == [n \in DOMAIN ZeroKey |->
  IF n \in KeyFlags THEN n \in DOMAIN v ELSE Over(ZeroKey, v)[n]]

\* cache_keys: the rules are added in order.
CaddyCacheKeys(v, c) ==
  c["cache_keys"] \o [i \in DOMAIN v |-> [rg |-> v[i].rg, key |-> CaddyKey(v[i].key)]]

\* The directives of the block of a provider; others are refused.
CaddyProviderDirectives(p) ==
  (IF p \in {"nats", "nuts", "olric", "redis"} THEN {"url"} ELSE {})
    \union (IF p \in {"badger", "nuts", "olric", "redis", "simplefs"} THEN {"path"} ELSE {})
    \union {"configuration"}

\* parseBadgerConfiguration, parseRedisConfiguration and
\* parseSimpleFSConfiguration give the settings their types; the flags of Redis
\* are set whatever they say.
CaddySettings(p, settings) ==
  [n \in DOMAIN settings |-> IF p = "redis" /\ n = "flag" THEN TRUE ELSE settings[n]]

\* The blocks of the providers, badger to simplefs.
CaddyProvider(p, v) ==
  LET parsed == Over(ZeroProvider, v) IN
  [parsed EXCEPT !["configuration"] = CaddySettings(p, @)]

\* Faulty: storers are added to those of the same block.
CaddyScalarKeepsStorers(o, v, c) ==
  CASE o \in Durations -> ParseDuration(o, v, c)
    [] o \in Flags -> TRUE
    [] o = "timeout" -> ParseTimeout(v)
    [] o = "storers" -> c[o] \o v
    [] OTHER -> v

\* stale, storers, timeout, ttl, disable_coalescing, mapping_eviction_interval,
\* disable_surrogate_key, and the texts.
CaddyScalar(o, v, c) ==
  CASE o \in Durations -> ParseDuration(o, v, c)
    [] o \in Flags -> TRUE
    [] o = "timeout" -> ParseTimeout(v)
    [] OTHER -> v

\* parseConfiguration: one case of the switch over the root option.
CaddyOption(o, v, c) ==
  CASE o \in {"allowed_http_verbs", "allowed_additional_status_codes", "headers"} ->
         [c EXCEPT ![o] = CaddyAllowed(o, v, c)]
    [] o = "api" -> [c EXCEPT ![o] = CaddyAPI(v)]
    [] o = "cache_keys" -> [c EXCEPT ![o] = CaddyCacheKeys(v, c)]
    [] o = "cdn" -> [c EXCEPT ![o] = ParseCDN(v)]
    [] o = "key" -> [c EXCEPT ![o] = CaddyKey(v)]
    [] o = "regex" -> [c EXCEPT ![o] = Over(@, v)]
    [] o \in Providers -> [c EXCEPT ![o] = CaddyProvider(o, v), !["found"] = @ \union {o}]
    [] OTHER -> [c EXCEPT ![o] = CaddyScalar(o, v, c)]

\* The errors of parseConfiguration.
CaddyRefuses(o, v, b) ==
  \/ o = "api" /\ b # "global"
  \/ o \in UrlOptions
  \/ o \in Providers /\ ~ DOMAIN v \subseteq CaddyProviderDirectives(o)
  \/ o = "max_cacheable_body_bytes" /\ v = Bad

\* The order in which a key is written as JSON, what is set alone.
KeyFields == <<"disable_body", "disable_host", "disable_method", "disable_query",
               "disable_scheme", "disable_vary", "sort_query", "hash", "hide", "template",
               "headers">>
FieldsSet(key) == SelectSeq(KeyFields, LAMBDA n : key[n] # ZeroKey[n])

\* CacheKeys written by MarshalJSON and read by parseJSON, as Caddy does between
\* the adaptation of the Caddyfile and its load.  Before its loop, parseJSON
\* takes three tokens: the brace, the first expression, and the brace of its key.
\* The first field of that key is taken for the expression.
ReadBack(rules) ==
  IF rules = <<>> THEN <<>>
  ELSE LET first == FieldsSet(Head(rules).key) IN
       (IF first = <<>> THEN <<>>
        ELSE << [rg |-> Head(first), key |-> [Head(rules).key EXCEPT ![Head(first)] = ZeroKey[Head(first)]]] >>)
         \o Tail(rules)

\* FromApp inherits the key only if none of these is set.
InheritsKey(key) == \A n \in DOMAIN ZeroKey \ {"sort_query"} : key[n] = ZeroKey[n]

\* Faulty: the default lifetime is not given to the handlers that share the app.
AppKeptAsIs(app, c) == app

\* FromApp: the defaults of the global options, which the app keeps.
AppDefaults(app, c) ==
  [app EXCEPT !["ttl"] = IF @ = 0 /\ c["ttl"] = 0 THEN 120 ELSE @,
              !["mapping_eviction_interval"] =
                 IF @ = 0 /\ c["mapping_eviction_interval"] = 0 THEN 3600 ELSE @]

\* FromApp: the configuration of a handler over the global options.  The global
\* cache_keys reach s.CacheKeys, which is not read, and those of the handler
\* are added to themselves; the cdn is the global one; disable_coalescing is
\* the handler's; the api is served by the admin endpoint.
FromApp(app, c) ==
  [o \in DOMAIN c |->
     CASE o \in {"allowed_http_verbs", "allowed_additional_status_codes"} -> c[o] \o app[o]
       [] o = "cache_keys" -> LET rules == ReadBack(c[o]) IN rules \o rules
       [] o \in {"cdn", "api"} -> app[o]
       [] o = "disable_surrogate_key" -> c[o] \/ app[o]
       [] o = "timeout" -> [n \in DOMAIN c[o] |-> IF c[o][n] = 0 THEN app[o][n] ELSE c[o][n]]
       [] o = "key" -> IF InheritsKey(c[o]) THEN app[o] ELSE c[o]
       [] o \in Providers -> IF c["found"] = {} THEN app[o] ELSE c[o]
       [] o \in Texts \union Durations \union {"headers", "storers", "regex", "max_cacheable_body_bytes"} ->
            IF c[o] = ZeroConfiguration[o] THEN app[o] ELSE c[o]
       [] OTHER -> c[o]]

-----------------------------------------------------------------------------
(***************************************************************************)
(* The agnostic parser.                                                    *)
(***************************************************************************)

\* parseAPI: an endpoint is enabled by a block, be it empty.
AgnosticAPI(v) ==
  [e \in DOMAIN ZeroAPI |->
     IF e = "basepath" THEN Over(ZeroAPI, v)[e]
     ELSE IF e \notin DOMAIN v \/ v[e] = NoBlock THEN ZeroEndpoint
     ELSE [enable |-> TRUE, basepath |-> v[e]["basepath"]]]

\* parseCacheKeys: a flag is set once it is named, whatever its value; the
\* rules of the block come in no particular order, here as they are written.
AgnosticCacheKeys(v) ==
  [i \in DOMAIN v |-> [rg |-> v[i].rg,
                       key |-> [n \in DOMAIN ZeroKey |-> IF n \in KeyFlags THEN n \in DOMAIN v[i].key
                                                         ELSE Over(ZeroKey, v[i].key)[n]]]]

\* The blocks of the providers.
AgnosticProvider(p, v) ==
  [n \in DOMAIN ZeroProvider |->
     IF \/ p = "nats" /\ n = "path"
        \/ p = "simplefs" /\ n = "url" THEN ZeroProvider[n] ELSE Over(ZeroProvider, v)[n]]

\* The block cdn.
AgnosticCDN(v) == ParseCDN(v)

\* parseURLs: the headers are looked for in the URL, which is no list.
AgnosticURLs(v) ==
  [u \in DOMAIN v |->
     LET url == Over(ZeroURL, v[u]) IN
     [url EXCEPT !["headers"] = <<>>, !["ttl"] = IF @ = Bad THEN 0 ELSE @]]

\* parseSurrogateKeys.
AgnosticSurrogateKeys(v) == [s \in DOMAIN v |-> Over(ZeroSurrogateKeys, v[s])]

\* The rest of parseDefaultCache.  A number of a document is no uint64.
AgnosticScalar(o, v, c) ==
  CASE o \in Durations -> ParseDuration(o, v, c)
    [] o = "timeout" -> ParseTimeout(v)
    [] o = "regex" -> Over(ZeroRegex, v)
    [] o = "max_cacheable_body_bytes" -> 0
    [] OTHER -> v

\* ParseConfiguration and parseDefaultCache, which have no case for some options.
AgnosticOption(o, v, c) ==
  CASE o \in {"key", "disable_coalescing"} -> c
    [] o = "api" -> [c EXCEPT ![o] = AgnosticAPI(v)]
    [] o = "cache_keys" -> [c EXCEPT ![o] = AgnosticCacheKeys(v)]
    [] o = "cdn" -> [c EXCEPT ![o] = AgnosticCDN(v)]
    [] o \in Providers -> [c EXCEPT ![o] = AgnosticProvider(o, v)]
    [] o = "urls" -> [c EXCEPT ![o] = AgnosticURLs(v)]
    [] o \in {"ykeys", "surrogate_keys"} -> [c EXCEPT ![o] = AgnosticSurrogateKeys(v)]
    [] OTHER -> [c EXCEPT ![o] = AgnosticScalar(o, v, c)]

-----------------------------------------------------------------------------
(***************************************************************************)
(* The parser of Kratos.                                                   *)
(***************************************************************************)

\* parseRecursively keeps what reads as a flag, a number, a duration or a block.
KratosSettings(settings) ==
  [n \in DOMAIN settings \ {"text"} |-> settings[n]]

\* The blocks of the providers.
KratosProvider(p, v) ==
  LET parsed == Over(ZeroProvider, v) IN
  [n \in DOMAIN parsed |->
     IF n = "configuration" THEN KratosSettings(parsed[n])
     ELSE IF \/ p = "otter"
             \/ p = "nats" /\ n = "path"
             \/ p = "simplefs" /\ n = "url" THEN ""
     ELSE parsed[n]]

\* parseAPI, which has no case for the base path.
KratosAPI(v) == [AgnosticAPI(v) EXCEPT !["basepath"] = ""]

\* parseURLs.
KratosURLs(v) ==
  [u \in DOMAIN v |-> [Over(ZeroURL, v[u]) EXCEPT !["ttl"] = IF @ = Bad THEN 0 ELSE @]]

\* parseCacheKeys, the block cdn and parseSurrogateKeys do as the agnostic ones.
KratosCacheKeys(v) == AgnosticCacheKeys(v)
KratosCDN(v) == ParseCDN(v)
KratosSurrogateKeys(v) == AgnosticSurrogateKeys(v)

\* The rest of parseDefaultCache: the error of ParseDuration is dropped.
KratosScalar(o, v) ==
  CASE o \in Durations -> IF v = Bad THEN 0 ELSE v
    [] o = "timeout" -> ParseTimeout(v)
    [] o = "regex" -> Over(ZeroRegex, v)
    [] OTHER -> v

\* allowed_additional_status_codes, which empties allowed_http_verbs too.
KratosCodes(v, c) ==
  [c EXCEPT !["allowed_additional_status_codes"] = @ \o v, !["allowed_http_verbs"] = <<>>]

\* ParseConfiguration and parseDefaultCache.
KratosOption(o, v, c) ==
  CASE o \in {"key", "mode", "mapping_eviction_interval", "disable_coalescing",
              "max_cacheable_body_bytes"} -> c
    [] o = "allowed_additional_status_codes" -> KratosCodes(v, c)
    [] o = "disable_surrogate_key" -> [c EXCEPT ![o] = TRUE]
    [] o = "api" -> [c EXCEPT ![o] = KratosAPI(v)]
    [] o = "cache_keys" -> [c EXCEPT ![o] = KratosCacheKeys(v)]
    [] o = "cdn" -> [c EXCEPT ![o] = KratosCDN(v)]
    [] o \in Providers -> [c EXCEPT ![o] = KratosProvider(o, v)]
    [] o = "urls" -> [c EXCEPT ![o] = KratosURLs(v)]
    [] o \in {"ykeys", "surrogate_keys"} -> [c EXCEPT ![o] = KratosSurrogateKeys(v)]
    [] OTHER -> [c EXCEPT ![o] = KratosScalar(o, v)]

-----------------------------------------------------------------------------
(***************************************************************************)
(* The parser of Traefik, which has no providers.                          *)
(***************************************************************************)

\* configCacheKey: the flags have their values, but for hash.
TraefikKey(v) == [Over(ZeroKey, v) EXCEPT !["hash"] = "hash" \in DOMAIN v]

\* The case cache_keys.
TraefikCacheKeys(v) == [i \in DOMAIN v |-> [rg |-> v[i].rg, key |-> TraefikKey(v[i].key)]]

\* The block cdn.
TraefikCDN(v) == ParseCDN(v)

\* The case api: prometheus and souin alone, enabled with or without a block.
TraefikAPI(v) ==
  [e \in DOMAIN ZeroAPI |->
     IF e = "basepath" THEN ""
     ELSE [enable |-> e # "debug" /\ e \in DOMAIN v,
           basepath |-> IF e # "debug" /\ e \in DOMAIN v /\ v[e] # NoBlock
                        THEN v[e]["basepath"] ELSE ""]]

\* The cases of default_cache.  The number is looked for under another name.
TraefikScalar(o, v, c) ==
  CASE o \in Durations -> ParseDuration(o, v, c)
    [] o = "timeout" -> ParseTimeout(v)
    [] OTHER -> v

\* The case urls, and the case ykeys, which is read as JSON.
TraefikURLs(v) ==
  [u \in DOMAIN v |-> [Over(ZeroURL, v[u]) EXCEPT !["ttl"] = IF @ = Bad THEN 0 ELSE @]]
TraefikYkeys(v) == [s \in DOMAIN v |-> Over(ZeroSurrogateKeys, v[s])]

\* parseConfiguration.
TraefikOption(o, v, c) ==
  CASE o \in Providers \union {"mapping_eviction_interval", "disable_coalescing",
                               "max_cacheable_body_bytes", "surrogate_keys"} -> c
    [] o = "api" -> [c EXCEPT ![o] = TraefikAPI(v)]
    [] o = "cache_keys" -> [c EXCEPT ![o] = TraefikCacheKeys(v)]
    [] o = "key" -> [c EXCEPT ![o] = TraefikKey(v)]
    [] o = "cdn" -> [c EXCEPT ![o] = TraefikCDN(v)]
    [] o = "urls" -> [c EXCEPT ![o] = TraefikURLs(v)]
    [] o = "ykeys" -> [c EXCEPT ![o] = TraefikYkeys(v)]
    [] OTHER -> [c EXCEPT ![o] = TraefikScalar(o, v, c)]

-----------------------------------------------------------------------------
(***************************************************************************)
(* A document parsed.                                                      *)
(***************************************************************************)

Parse(o, v, c) ==
  CASE Format = "caddy" -> CaddyOption(o, v, c)
    [] Format = "agnostic" -> AgnosticOption(o, v, c)
    [] Format = "kratos" -> KratosOption(o, v, c)
    [] Format = "traefik" -> TraefikOption(o, v, c)

\* A URL rule without a ttl and a regex without an expression: the parsers of
\* Kratos and Traefik use the value that is not there, and panic.
Panics(o, v) ==
  /\ Format \in {"kratos", "traefik"}
  /\ \/ o = "urls" /\ \E u \in DOMAIN v : "ttl" \notin DOMAIN v[u]
     \/ o = "regex" /\ "exclude" \notin DOMAIN v
Refuses(o, v, b) == (Format = "caddy" /\ CaddyRefuses(o, v, b)) \/ Panics(o, v)

\* What the parsers start from; the agnostic one has a default interval.
Start(b) ==
  CASE Format = "caddy" -> CaddyStart(b)
    [] Format = "agnostic" -> [ZeroConfiguration EXCEPT !["mapping_eviction_interval"] = 3600]
    [] OTHER -> ZeroConfiguration

ParsersInit ==
  /\ kind \in Documents
  /\ doc = [b \in {"global", "handler"} |-> <<>>]
  /\ block = "global"
  /\ cfg = [b \in {"global", "handler"} |-> Start(b)]
  /\ effective = <<>>
  /\ refused = FALSE

\* One directive of a block.
ParseDirective ==
  /\ ~refused /\ Len(doc.global) + Len(doc.handler) < kind.written
  /\ Len(effective) < kind.handlers
  /\ \E o \in Options : \E v \in Inputs[Format][o] :
       /\ Format = "caddy" \/ \A i \in DOMAIN doc[block] : doc[block][i].option # o
       /\ doc' = [doc EXCEPT ![block] = Append(@, [option |-> o, value |-> v])]
       /\ IF Refuses(o, v, block)
          THEN refused' = TRUE /\ UNCHANGED cfg
          ELSE cfg' = [cfg EXCEPT ![block] = Parse(o, v, @)] /\ UNCHANGED refused
  /\ UNCHANGED <<kind, block, effective>>

\* The block of the global options ends.
EndGlobal ==
  /\ ~refused /\ Format = "caddy" /\ block = "global"
  /\ block' = "handler"
  /\ UNCHANGED <<kind, doc, cfg, effective, refused>>

\* Provision of a handler, which merges the global options.  The next one has a
\* block of its own and the app as this one left it.
Provision ==
  /\ ~refused /\ Len(effective) < kind.handlers
  /\ Format = "caddy" => block = "handler"
  /\ IF Format = "caddy"
     THEN LET app == AppDefaults(cfg.global, cfg.handler) IN
          /\ effective' = Append(effective, FromApp(app, cfg.handler))
          /\ cfg' = [cfg EXCEPT !["global"] = app,
                                !["handler"] = IF kind.handlers = 1 THEN @ ELSE Start("handler")]
     ELSE effective' = <<cfg.global>> /\ UNCHANGED cfg
  /\ UNCHANGED <<kind, doc, block, refused>>

ParsersNext == ParseDirective \/ EndGlobal \/ Provision

ParsersSpec == ParsersInit /\ [][ParsersNext]_parsersVars

-----------------------------------------------------------------------------
(***************************************************************************)
(* What the documentation of the options promises.                         *)
(***************************************************************************)

\* What a block says of an option, in order.
Said(b, o) ==
  LET mine == SelectSeq(doc[b], LAMBDA d : d.option = o) IN
  [i \in DOMAIN mine |-> mine[i].value]

\* What one directive means, whatever the parser: a flag has its value, and is
\* set if it is only named; a rule or a block says what it says and no more.
MeansKey(v) == Over(ZeroKey, v)
Means(o, v) ==
  CASE o = "key" -> MeansKey(v)
    [] o = "api" -> CaddyAPI(v)
    [] o = "cdn" -> Over([ZeroCDN EXCEPT !["dynamic"] = TRUE], v)
    [] o = "regex" -> Over(ZeroRegex, v)
    [] o \in Providers -> Over(ZeroProvider, v)
    [] o = "urls" -> [u \in DOMAIN v |-> Over(ZeroURL, v[u])]
    [] o \in {"ykeys", "surrogate_keys"} -> [s \in DOMAIN v |-> Over(ZeroSurrogateKeys, v[s])]
    [] OTHER -> v

\* The value an option has for the handler: of the directives of its block, or
\* else of the global ones, or else the default.  Lists of what is allowed add
\* up; a provider of the handler hides all the global ones; a duration that
\* does not parse, or is zero in a Caddyfile, says nothing.
Meant(o) ==
  LET h == Said("handler", o)
      g == Said("global", o)
      said(s) == LET valid == SelectSeq(s, LAMBDA v : v # Bad) IN
                 IF valid = <<>> \/ (Format = "caddy" /\ Last(valid) = 0) THEN <<>> ELSE <<Last(valid)>>
      own == \E i \in DOMAIN doc.handler : doc.handler[i].option \in Providers
      codes(s) == SelectSeq(FlattenSeq(s), IsNumber)
      last(s) == IF s = <<>> THEN Start("global")[o] ELSE Means(o, Last(s))
  IN CASE o = "allowed_http_verbs" -> FlattenSeq(h) \o FlattenSeq(g)
       [] o = "allowed_additional_status_codes" -> codes(h) \o codes(g)
       [] o = "headers" -> IF h = <<>> THEN FlattenSeq(g) ELSE FlattenSeq(h)
       [] o \in Durations -> last(said(g) \o said(h))
       [] o \in Providers -> IF own THEN last(h) ELSE last(g)
       [] OTHER -> IF h = <<>> THEN last(g) ELSE last(h)

\* The block timeout: each of its durations is inherited by itself.
MeantTimeout(n) ==
  LET of(b) == LET s == Said(b, "timeout") IN IF s = <<>> THEN 0 ELSE ParseTimeout(s[Len(s)])[n]
  IN IF of("handler") = 0 THEN of("global") ELSE of("handler")

\* The rules of cache_keys, of the handler and of the global options.
MeantRules ==
  {[rg |-> r.rg, key |-> MeansKey(r.key)] :
     r \in UNION {Range(v) : v \in Range(Said("handler", "cache_keys") \o Said("global", "cache_keys"))}}

\* Every option has the value that the document gives it, in whichever order
\* the parser meets its directives, and no directive changes another option.
AsWritten ==
  (effective # <<>> /\ kind.handlers = 1) =>
    \A o \in Options :
      CASE o = "cache_keys" -> Range(effective[1][o]) = MeantRules
        [] o = "timeout" -> \A n \in DOMAIN ZeroTimeout : effective[1][o][n] = MeantTimeout(n)
        [] OTHER -> effective[1][o] = Meant(o)

\* A handler of Caddy has a lifetime for its responses and an interval for the
\* eviction (NewTicker panics on zero), however the handlers that share the
\* global options are configured and whichever is provisioned first.
LifetimesPositive ==
  Format = "caddy" => \A i \in DOMAIN effective :
    effective[i]["ttl"] > 0 /\ effective[i]["mapping_eviction_interval"] > 0
=============================================================================
