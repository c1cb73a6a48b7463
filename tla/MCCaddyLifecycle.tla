--------------------------- MODULE MCCaddyLifecycle ---------------------------
(***************************************************************************)
(* Instances of CaddyLifecycle: configurations of none, one or two         *)
(* handlers over the default storer and two places of redis or badger.     *)
(***************************************************************************)
EXTENDS CaddyLifecycle

Handler(providers, order, stale) ==
  [providers |-> providers, order |-> order, stale |-> stale]
Redis(address) == Provider("redis", "", address, NoSettings)
Badger(dir) == Provider("badger", "", "", [f \in {"Dir"} |-> dir])

Otter == Provider("otter", "", "", NoSettings)

OnDefault == Handler({}, <<>>, 0)
OnA == Handler({Redis("a")}, <<>>, 0)
OnB == Handler({Redis("b")}, <<>>, 0)
OnOtter == Handler({Otter}, <<>>, 0)
\* Nuts is not built in: the handler goes on without it.
OnBoth == Handler({Badger("d"), Provider("nuts", "n", "", NoSettings), Redis("a")}, <<"redis", "badger">>, 1)
OnRedisFirst == Handler({Otter, Redis("a")}, <<"redis", "otter">>, 0)
OnOtterFirst == Handler({Otter, Redis("a")}, <<>>, 0)

\* Every handler of every configuration of a family has the same storers.
Same == {{<<>>, <<OnDefault>>, <<OnDefault, OnDefault>>},
         {<<OnA>>, <<OnA, OnA>>},
         {<<OnBoth>>, <<OnBoth, OnBoth>>},
         {<<OnOtter>>}, {<<OnRedisFirst>>}}
\* One configuration, two handlers with different storers.
TwoPlaces == {{<<OnA, OnB>>}}
\* The storer is replaced by a reload.
Replaced == {{<<OnA>>, <<OnB>>}}
\* The surrogate keys are in memory, the responses also elsewhere.
MemoryFirst == {{<<OnOtterFirst>>}}
==============================================================================
