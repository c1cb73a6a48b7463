--------------------------- MODULE MCRequestContext ---------------------------
(***************************************************************************)
(* Instances of RequestContext.                                            *)
(***************************************************************************)
EXTENDS RequestContext

Rule == [disabled |-> {}, sortQuery |-> FALSE, hash |-> FALSE, headers |-> <<>>, template |-> <<>>]
Plain == [verbs |-> {}, key |-> Rule, cacheKeys |-> <<>>, urls |-> {}, ttl |-> 10]
Text == [text |-> "", mutates |-> FALSE]
Body(text, mutates) == [text |-> text, mutates |-> mutates]
Rq == [method |-> "GET", scheme |-> "http", host |-> <<"h">>, path |-> <<"/", "p">>, query |-> <<>>,
       body |-> Text, headers |-> [h \in {"A", "B", "V"} |-> <<"x">>]]

P1 == "a=1"
P2 == "b=2"
Unread == "b;2"
MCParameters == [p \in {P1, P2, Unread} |->
                   [rank |-> IF p = P1 THEN 1 ELSE 2, malformed |-> p = Unread]]
Css == <<"/", "css">>
For(paths, rule) == [matches |-> paths, rule |-> rule]

\* Rules with and without each part, two rules for one path, custom verbs.
MCConfigurations ==
  {[Plain EXCEPT !.key.disabled = D, !.verbs = V, !.key.sortQuery = (D = {}), !.key.hash = (D = {"host"})] :
     D \in {{}, {"method"}, {"scheme"}, {"host"}, {"query"}, {"body"}, {"vary"}},
     V \in {{}, {"GET", "POST"}}}
  \union {[Plain EXCEPT !.key.headers = <<"A", "B">>,
                        !.cacheKeys = <<For({Css}, [Rule EXCEPT !.disabled = {"host", "query"}]),
                                        For({Css, Rq.path}, [Rule EXCEPT !.headers = <<"A">>])>>],
          [Plain EXCEPT !.cacheKeys = <<For({Css}, [Rule EXCEPT !.template = <<"host", "path">>, !.disabled = {"vary"}])>>,
                        !.key.disabled = {"vary"}],
          [Plain EXCEPT !.urls = {[text |-> Css, found |-> Css, matches |-> {Css}, ttl |-> 20]}]}
MCRequests ==
  {[Rq EXCEPT !.method = m, !.body = IF m = "POST" THEN b ELSE Text] :
     m \in {"GET", "POST", "HEAD"}, b \in {Body("q", FALSE), Body("{query:mutation", TRUE)}}
  \union {[Rq EXCEPT !.path = p, !.query = q, !.scheme = s] :
     p \in {Rq.path, Css}, q \in {<<>>, <<P1, P2>>, <<P2, P1>>}, s \in {"http", "https"}}
  \union {[Rq EXCEPT !.host = <<"i">>], [Rq EXCEPT !.headers = [@ EXCEPT !["A"] = <<"y">>]],
          [Rq EXCEPT !.headers = [@ EXCEPT !["V"] = <<"y">>]]}

\* Two headers whose values contain the separator.
TwoHeaders == {[Plain EXCEPT !.key.headers = <<"A", "B">>]}
Dashed == {[Rq EXCEPT !.headers = [@ EXCEPT !["A"] = <<"x", "-", "y">>]],
           [Rq EXCEPT !.headers = [@ EXCEPT !["A"] = <<"x">>, !["B"] = <<"y", "-", "x">>]]}
\* A path that ends with what may follow it.
OneHeader == {[Plain EXCEPT !.key.headers = <<"A">>]}
DashedPaths == {[Rq EXCEPT !.headers = [@ EXCEPT !["A"] = <<"x", "-", "y">>]],
                [Rq EXCEPT !.path = @ \o <<"-", "x">>, !.headers = [@ EXCEPT !["A"] = <<"y">>]]}
\* A path with an escaped question mark.
Escaped == {[Rq EXCEPT !.query = <<P1>>], [Rq EXCEPT !.path = @ \o <<"?", P1>>]}
\* A parameter that url.ParseQuery drops, and a rule that sorts.
Sorting == {[Plain EXCEPT !.key.sortQuery = TRUE]}
HalfRead == {[Rq EXCEPT !.query = <<P1>>], [Rq EXCEPT !.query = <<P1, Unread>>]}
\* Rules of cache_keys that differ from the configuration's.
VaryAgain == {[Plain EXCEPT !.key.disabled = {"vary"}, !.cacheKeys = <<For({Rq.path}, Rule)>>]}
TwoValues == {Rq, [Rq EXCEPT !.headers = [@ EXCEPT !["V"] = <<"y">>]]}
UnderTemplate == {[Plain EXCEPT !.key.template = <<"path">>, !.cacheKeys = <<For({Rq.path}, Rule)>>]}
TwoHosts == {Rq, [Rq EXCEPT !.host = <<"i">>]}
\* A mutation in another spelling.
Post == [Rq EXCEPT !.method = "POST", !.body = Body("q", FALSE)]
SpacedMutation == {Post, [Post EXCEPT !.body = Body("{ query: mutation", TRUE)]}
\* A URL rule written as a regular expression.
RegexRule == {[Plain EXCEPT !.urls = {[text |-> <<"/", ".+">>, found |-> Rq.path, matches |-> {Rq.path, Css}, ttl |-> 20]}]}
==============================================================================
