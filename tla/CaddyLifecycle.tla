---------------------------- MODULE CaddyLifecycle ----------------------------
(***************************************************************************)
(* The life of the Caddy plugin (plugins/caddy): a configuration is loaded *)
(* while the previous one still serves, each cache handler registers its   *)
(* storers, builds its base handler (NewHTTPCacheHandler) and shares the   *)
(* surrogate keys through the usage pool and the app; the admin API waits  *)
(* for the app's notification, and serves purges with the storers and the  *)
(* surrogate keys of the app.  Stopping the previous app empties the       *)
(* registry of storers, which all configurations share.                    *)
(*                                                                         *)
(* A storer is known by its instance, the data it works on.  A storer      *)
(* outside the process, or on disk, is the same instance for every         *)
(* registration of its place, and outlives the process; the default storer *)
(* is a new instance, in memory, at each construction.  A response is      *)
(* tagged by itself: purging it purges its tag.  Caddy applies one         *)
(* configuration at a time.  Faulty definitions are plausible bugs.        *)
(***************************************************************************)
EXTENDS Integers, Sequences, SequencesExt, FiniteSets

CONSTANTS
  Built,      \* the storages that are part of the build
  Families,   \* sets of configurations; one set is used in a behaviour
  Responses,  \* tagged responses
  MaxLoads,   \* bound on the loads of a configuration in a behaviour
  MaxRestarts \* bound on the restarts of the process

\* What a provider may be configured with; settings are its own options,
\* NoSettings when the block is left out (a nil Configuration).
ProviderOrder == <<"badger", "etcd", "nats", "nuts", "olric", "otter", "redis", "simplefs">>
ProviderNames == ToSet(ProviderOrder)
Provider(name, path, url, settings) ==
  [name |-> name, path |-> path, url |-> url, settings |-> settings]
NoSettings == [f \in {} |-> ""]

\* A handler has its providers, one of a name, the names that storers orders
\* them by, and its stale lifetime.
ASSUME LifecycleAssumption ==
  /\ \A cfg \in UNION Families : cfg \in Seq(ToSet(cfg))
  /\ \A cfg \in UNION Families : \A h \in ToSet(cfg) :
       /\ \A p \in h.providers : p.name \in ProviderNames
       /\ \A p, q \in h.providers : p.name = q.name => p = q
       /\ h.order \in Seq(ToSet(h.order))
       /\ h.stale \in Nat
  /\ MaxLoads \in Nat /\ MaxRestarts \in Nat

VARIABLES
  family,    \* the configurations of this behaviour
  registry,  \* the registered storers: their instance under their name
  pool,      \* the surrogate storage in the usage pool, NoSurrogate before
  current,   \* the app that serves, NoApp before the first load
  loading,   \* the app that is being provisioned, NoApp if none is
  todo,      \* the handlers of loading that are still to be provisioned
  content,   \* the responses stored in each instance
  index,     \* the responses listed under their tag in each instance
  memories,  \* the number of instances of the default storer
  loads, restarts

lifecycleVars ==
  <<family, registry, pool, current, loading, todo, content, index, memories,
    loads, restarts>>

NoSurrogate == <<"no surrogate">>
NoApp == [handlers |-> <<>>, storers |-> {}, surrogate |-> NoSurrogate,
          notifier |-> <<>>, admin |-> {}, generation |-> 0]

-----------------------------------------------------------------------------
(* Names of storers: dispatch.go. *)

\* The value of a provider's own option, or another.
Setting(p, f, otherwise) == IF f \in DOMAIN p.settings THEN p.settings[f] ELSE otherwise
Configured(p) == p.settings # NoSettings
OrElse(s, otherwise) == IF s = "" THEN otherwise ELSE s

BadgerPlace(p) ==
  LET dir  == Setting(p, "Dir", p.path)
      vdir == Setting(p, "ValueDir", dir)
      set  == OrElse(dir, "souin_dir")
  IN IF Configured(p) THEN <<set, OrElse(vdir, set)>> ELSE <<dir, vdir>>

EtcdPlace(p) ==
  <<Setting(p, "Endpoints", p.url), Setting(p, "Username", ""), Setting(p, "Password", "")>>

NutsPlace(p) ==
  IF Configured(p) THEN <<Setting(p, "Dir", "/tmp/souin-nuts")>>
                   ELSE <<OrElse(p.path, "/tmp/souin-nuts")>>

\* Both libraries' options name the address and the database; those of
\* go-redis are read last.
RedisPlace(p) ==
  <<Setting(p, "Addrs", Setting(p, "InitAddress", p.url)),
    Setting(p, "Username", ""),
    Setting(p, "DB", Setting(p, "SelectDB", "0")),
    Setting(p, "ClientName", "souin-redis")>>

SimpleFSPlace(p) ==
  <<OrElse(OrElse(p.path, Setting(p, "path", "")), "working directory"),
    Setting(p, "size", "0")>>

Place(p) ==
  CASE p.name = "badger" -> BadgerPlace(p)
    [] p.name = "etcd" -> EtcdPlace(p)
    [] p.name \in {"nats", "olric"} -> <<p.url>>
    [] p.name = "nuts" -> NutsPlace(p)
    [] p.name = "otter" -> <<>>
    [] p.name = "redis" -> RedisPlace(p)
    [] p.name = "simplefs" -> SimpleFSPlace(p)

\* The Uuid under which a handler looks its provider up again.
Uuid(p, stale) == IF p.name = "simplefs" THEN <<p.name>> \o Place(p)
                  ELSE <<p.name>> \o Place(p) \o <<stale>>
DefaultName == <<"default">>

\* A storer's data is that of its place.
Instance(p) == <<p.name, Place(p)>>

\* dispatchStorage loads the module of each storage, which registers its storer
\* under its Uuid.  A storage that is not part of the build fails to load and
\* leaves the Uuid empty.
ParseStorages(reg, h) ==
  LET built == {p \in h.providers : p.name \in Built}
      uuids == {Uuid(p, h.stale) : p \in built}
  IN [n \in DOMAIN reg \union uuids |->
        IF n \in uuids THEN Instance(CHOOSE p \in built : Uuid(p, h.stale) = n) ELSE reg[n]]

-----------------------------------------------------------------------------
(* The base handler: NewHTTPCacheHandler. *)

\* The providers found again in the registry, in the order of storers, which
\* also leaves out those it does not name (reorderStorers).
Order(h) == IF h.order = <<>> THEN ProviderOrder ELSE h.order
Found(reg, h) ==
  {p \in h.providers : Uuid(p, h.stale) \in DOMAIN reg /\ p.name \in ToSet(Order(h))}
Names(reg, h) == {Uuid(p, h.stale) : p \in Found(reg, h)}
FirstFound(reg, h) ==
  LET ranks == {i \in DOMAIN Order(h) : \E p \in Found(reg, h) : p.name = Order(h)[i]}
      least == CHOOSE i \in ranks : \A j \in ranks : i <= j
  IN CHOOSE p \in Found(reg, h) : p.name = Order(h)[least]

\* Without a storer the registered default storer, or else a new one.
Memory(n) == <<"default", n>>
NeedsMemory(reg, h) == Names(reg, h) = {} /\ DefaultName \notin DOMAIN reg
WithDefault(reg, h) ==
  IF NeedsMemory(reg, h)
  THEN [n \in DOMAIN reg \union {DefaultName} |->
          IF n = DefaultName THEN Memory(memories + 1) ELSE reg[n]]
  ELSE reg
StorerNames(reg, h) == IF Names(reg, h) = {} THEN {DefaultName} ELSE Names(reg, h)
HandlerStorers(reg, h) == {reg[n] : n \in StorerNames(reg, h)}

\* The surrogate keys are kept in the first storer, looked up by its name.
SurrogateStorage(reg, h) ==
  reg[IF Names(reg, h) = {} THEN DefaultName ELSE Uuid(FirstFound(reg, h), h.stale)]

-----------------------------------------------------------------------------
(* Loading a configuration. *)

LifecycleInit ==
  /\ family \in Families
  /\ registry = [n \in {} |-> ""]
  /\ pool = NoSurrogate
  /\ current = NoApp /\ loading = NoApp /\ todo = <<>>
  /\ content = [s \in {} |-> {}] /\ index = [s \in {} |-> {}]
  /\ memories = 0 /\ loads = 0 /\ restarts = 0

\* SouinApp.Provision makes a channel for one notification.
BeginLoad(cfg) ==
  /\ loading = NoApp /\ loads < MaxLoads
  /\ loads' = loads + 1
  /\ loading' = [NoApp EXCEPT !.generation = loads + 1]
  /\ todo' = cfg
  /\ UNCHANGED <<family, registry, pool, current, content, index, memories, restarts>>

\* Faulty: the admin API is given the handler's own surrogate keys.
NotificationOfOwn(own, shared) == <<own>>
\* Faulty: nothing is sent when the pool already has other surrogate keys.
NotificationIfNew(own, shared) == IF own = shared THEN <<shared>> ELSE <<>>
\* What withSurrogateStorer sends: the surrogate keys of the pool.
Notification(own, shared) == <<shared>>

\* Provision of a cache handler.  The usage pool keeps the surrogate keys of
\* the first handler of the process; the app keeps the storers of its first
\* handler, which notifies the admin API and closes the channel.
ProvisionHandler ==
  /\ loading # NoApp /\ todo # <<>>
  /\ LET h       == Head(todo)
         parsed  == ParseStorages(registry, h)
         reg     == WithDefault(parsed, h)
         storers == HandlerStorers(reg, h)
         own     == SurrogateStorage(reg, h)
         shared  == IF pool = NoSurrogate THEN own ELSE pool
         first   == loading.surrogate = NoSurrogate
         opened  == storers \ DOMAIN content
     IN /\ registry' = reg
        /\ pool' = shared
        /\ memories' = IF NeedsMemory(parsed, h) THEN memories + 1 ELSE memories
        /\ content' = [s \in DOMAIN content \union opened |->
                         IF s \in opened THEN {} ELSE content[s]]
        /\ index' = [s \in DOMAIN index \union opened |->
                       IF s \in opened THEN {} ELSE index[s]]
        /\ loading' = [loading EXCEPT
             !.handlers = Append(@, [storers |-> storers,
                                     surrogate |-> IF first THEN shared ELSE loading.surrogate]),
             !.storers = IF @ = {} THEN storers ELSE @,
             !.surrogate = IF first THEN shared ELSE @,
             !.notifier = IF first THEN Notification(own, shared) ELSE @]
  /\ todo' = Tail(todo)
  /\ UNCHANGED <<family, current, loads, restarts>>

Emptied == [n \in {} |-> ""]

\* Another module of the configuration refuses it, or another app fails to
\* start: Cleanup deletes nothing of the pool, and the app is stopped if it
\* was already started.
FailLoad(started) ==
  /\ loading # NoApp
  /\ started => todo = <<>>
  /\ loading' = NoApp /\ todo' = <<>>
  /\ registry' = IF started THEN Emptied ELSE registry
  /\ UNCHANGED <<family, pool, current, content, index, memories, loads, restarts>>

\* The new app is started, and then the previous one is stopped.
Activate ==
  /\ loading # NoApp /\ todo = <<>>
  /\ current' = loading /\ loading' = NoApp
  /\ registry' = IF current = NoApp THEN registry ELSE Emptied
  /\ UNCHANGED <<family, pool, todo, content, index, memories, loads, restarts>>

\* The goroutine of the admin API receives the notification, and only then
\* reads the storers of the app.
AdminReceive ==
  /\ current.notifier # <<>>
  /\ current' = [current EXCEPT
       !.notifier = <<>>,
       !.admin = {[storers |-> current.storers, surrogate |-> Head(current.notifier)]}]
  /\ UNCHANGED <<family, registry, pool, loading, todo, content, index, memories, loads, restarts>>

\* A crash or a restart: what was in memory is gone, and the configurations
\* are loaded anew.
Lasting(s) == s[1] \notin {"default", "otter"}
Restart ==
  /\ current # NoApp /\ restarts < MaxRestarts
  /\ restarts' = restarts + 1
  /\ registry' = Emptied /\ pool' = NoSurrogate
  /\ current' = NoApp /\ loading' = NoApp /\ todo' = <<>>
  /\ content' = [s \in {s \in DOMAIN content : Lasting(s)} |-> content[s]]
  /\ index' = [s \in {s \in DOMAIN index : Lasting(s)} |-> index[s]]
  /\ UNCHANGED <<family, memories, loads>>

-----------------------------------------------------------------------------
(* Serving. *)

\* A handler stores a response in its storers and its tag with the
\* surrogate keys it was given.
StoreResponse(h, r) ==
  /\ content' = [s \in DOMAIN content |->
                   IF s \in h.storers THEN content[s] \union {r} ELSE content[s]]
  /\ index' = [index EXCEPT ![h.surrogate] = @ \union {r}]
  /\ UNCHANGED <<family, registry, pool, current, loading, todo, memories, loads, restarts>>

\* A purge of the response's tag, sent to the admin API: 404 before the
\* notification, otherwise the tag's keys are deleted from its storers.
AdminPurge(a, r) ==
  /\ index' = [index EXCEPT ![a.surrogate] = @ \ {r}]
  /\ content' = [s \in DOMAIN content |->
                   IF s \in a.storers /\ r \in index[a.surrogate]
                   THEN content[s] \ {r} ELSE content[s]]
  /\ UNCHANGED <<family, registry, pool, current, loading, todo, memories, loads, restarts>>

LifecycleNext ==
  \/ \E cfg \in family : BeginLoad(cfg)
  \/ ProvisionHandler
  \/ \E started \in BOOLEAN : FailLoad(started)
  \/ Activate
  \/ AdminReceive
  \/ Restart
  \/ \E h \in ToSet(current.handlers), r \in Responses : StoreResponse(h, r)
  \/ \E a \in current.admin, r \in Responses : AdminPurge(a, r)

LifecycleSpec == LifecycleInit /\ [][LifecycleNext]_lifecycleVars
\* The goroutine is runnable once the channel has an item; nothing is
\* assumed of Caddy, of the clients or of the administrator.
FairSpec == LifecycleSpec /\ WF_lifecycleVars(AdminReceive)

-----------------------------------------------------------------------------
\* Every response that a handler of the serving configuration would answer
\* with can be purged: it is listed under its tag where the admin API reads
\* (withSurrogateStorer and the usage pool of Provision), and lies in a
\* storer that the admin API deletes from.
Purgeable ==
  \A h \in ToSet(current.handlers), a \in current.admin :
    \A s \in h.storers :
      \A r \in content[s] : r \in index[a.surrogate] /\ s \in a.storers

\* The admin API of a configuration with a cache handler answers in the end,
\* unless it is replaced before: the notification cannot be lost, even when
\* the goroutine of Provision (admin.go) runs last.
AdminServes ==
  \A g \in 1..MaxLoads :
    (current.generation = g /\ current.handlers # <<>>)
      ~> (current.admin # {} \/ current.generation # g)
=============================================================================
