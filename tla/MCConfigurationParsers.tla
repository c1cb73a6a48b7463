------------------------- MODULE MCConfigurationParsers -------------------------
(* The options of the documents of each format, and their values.  The      *)
(* options that are left out of a format are those whose value its parser  *)
(* loses or changes.                                                       *)
EXTENDS ConfigurationParsers

Common == {"allowed_http_verbs", "headers", "storers", "timeout", "regex", "ttl",
           "stale", "log_level"}
CaddyOptions ==
  Common \union {"allowed_additional_status_codes", "api", "badger", "etcd", "nuts",
                 "simplefs", "key", "mapping_eviction_interval", "mode",
                 "max_cacheable_body_bytes", "disable_surrogate_key"}
AgnosticOptions ==
  Common \union Providers \union
    {"allowed_additional_status_codes", "cdn", "mapping_eviction_interval", "mode",
     "disable_surrogate_key", "cache_name", "default_cache_control",
     "surrogate_keys", "ykeys"}
KratosOptions ==
  Common \union {"cdn", "cache_name", "default_cache_control", "urls",
                 "surrogate_keys", "ykeys"}
TraefikOptions ==
  Common \union {"allowed_additional_status_codes", "key", "cdn", "mode", "urls",
                 "ykeys", "cache_keys", "disable_surrogate_key"}

Document(format, options) ==
  [format |-> format, options |-> options, written |-> 3, handlers |-> 1,
   defaulted |-> TRUE]
\* Global options in JSON, which have no defaults, and up to three handlers.
SharedOptions ==
  [format |-> "caddy", options |-> {"ttl", "mapping_eviction_interval"},
   written |-> 4, handlers |-> 3, defaulted |-> FALSE]
MCDocuments ==
  {Document("caddy", CaddyOptions), Document("agnostic", AgnosticOptions),
   Document("kratos", KratosOptions), Document("traefik", TraefikOptions),
   SharedOptions}

Settings == {[n \in {"text", "flag"} |-> IF n = "flag" THEN TRUE ELSE "t"],
             [n \in {"flag", "number"} |-> IF n = "flag" THEN FALSE ELSE 7]}
ProviderInputs(p) ==
  {[n \in {m} |-> m] : m \in CaddyProviderDirectives(p) \ {"configuration"}}
    \union {[n \in {"configuration"} |-> s] : s \in Settings}
KeyInputs ==
  {[n \in {"hash", "disable_query"} |-> TRUE],
   [n \in {"template", "disable_vary"} |-> IF n = "template" THEN "t" ELSE TRUE],
   [n \in {"disable_host"} |-> FALSE]}

InputsOf(format) ==
  [o \in AllOptions |->
     CASE o \in Texts -> {"x", "y"}
       [] o = "allowed_additional_status_codes" ->
            IF format = "caddy" THEN {<<"418">>, <<"503", "teapot">>} ELSE {<<"418">>, <<"503">>}
       [] o \in Lists -> {<<"a">>, <<"b", "c">>}
       [] o \in Durations -> {Bad, 0, 5, 7}
       [] o \in Flags -> IF format = "caddy" THEN {TRUE} ELSE BOOLEAN
       [] o \in Providers -> ProviderInputs(o)
       [] o = "max_cacheable_body_bytes" -> IF format = "caddy" THEN {Bad, 3} ELSE {3}
       [] o = "api" -> {"souin" :> NoBlock, "basepath" :> "b" @@ "prometheus" :> ("basepath" :> "p")}
       [] o = "cdn" -> {"provider" :> "fastly", "strategy" :> "hard" @@ "dynamic" :> FALSE}
       [] o = "key" -> IF format = "caddy" THEN {k \in KeyInputs : "disable_host" \notin DOMAIN k}
                       ELSE KeyInputs
       [] o = "timeout" -> {"backend" :> 5, "cache" :> 7 @@ "backend" :> Bad}
       [] o = "regex" -> {"exclude" :> "r", "exclude" :> "s"}
                        \union (IF format = "caddy" THEN {} ELSE {ZeroSettings})
       [] o = "cache_keys" ->
            {<<[rg |-> "css", key |-> "hash" :> TRUE]>>,
             <<[rg |-> "js", key |-> "template" :> "t"], [rg |-> "html", key |-> "hide" :> TRUE]>>}
              \union (IF format = "caddy" THEN {} ELSE {<<[rg |-> "css", key |-> "disable_host" :> FALSE]>>})
       [] o = "urls" -> {"u" :> ("ttl" :> 5), "u" :> ("ttl" :> 7 @@ "headers" :> <<"a">>),
                           "u" :> ("headers" :> <<"a">>)}
       [] o \in {"ykeys", "surrogate_keys"} -> {"s" :> ("url" :> "u")}]
MCInputs == [f \in Formats |-> InputsOf(f)]
\* An interval below zero.
NegativeInputs == [MCInputs EXCEPT !["caddy"]["mapping_eviction_interval"] = {-5}]
=============================================================================
