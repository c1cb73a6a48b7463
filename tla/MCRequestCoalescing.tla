------------------------ MODULE MCRequestCoalescing ------------------------
(* Small instances of RequestCoalescing for TLC.                           *)
EXTENDS RequestCoalescing, TLC

CONSTANTS
  r1, r2, r3,    \* requests
  k1,            \* the cached key
  en, fr         \* values of the varied header

\* r1 and r3 send the same headers for the same key, and buffers are alike.
Symmetric == Permutations({r1, r3}) \union Permutations(Buffers)

OneKey == [r \in Requests |-> k1]

SameVariant == [r \in Requests |-> NoVariant]
\* r2 differs from the others in the header that responses vary on.
TwoVariants == [r \in Requests |-> IF r = r2 THEN fr ELSE en]

Client(etag, ims, ius, sie) ==
  [etag |-> etag, ims |-> ims, ius |-> ius, sie |-> sie]
Plain == Client("none", FALSE, FALSE, FALSE)
PlainClients == {Plain}
TwoClients == {Client("none", FALSE, TRUE, TRUE),
               Client("match", TRUE, FALSE, FALSE)}

Answer(kind) == [kind |-> kind, private |-> FALSE, cookie |-> FALSE,
                 vary |-> FALSE, old |-> FALSE]
Ok == Answer("ok")
Private == [Ok EXCEPT !.private = TRUE]
Cookie == [Ok EXCEPT !.cookie = TRUE]
Vary == [Ok EXCEPT !.vary = TRUE]
Cookies == {Cookie}
Varying == {Vary}
Coalesced == {Private, Vary, Answer("fail")}
Revalidated == {Ok, [Answer("notModified") EXCEPT !.old = TRUE],
                Answer("error50x"), Answer("abort")}

\* The two requests find the entry in the same state and differ in what the
\* client sends, under the fairness of the scheduler and of the timer.
SameModeInit == Init /\ cli[r1].sie /\ ~cli[r2].sie /\ mode[r1] = mode[r2]
SameModeSpec == SameModeInit /\ [][Next]_vars /\ Fairness
=============================================================================
