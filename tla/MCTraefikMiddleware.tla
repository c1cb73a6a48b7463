------------------------- MODULE MCTraefikMiddleware -------------------------
(* Instances of TraefikMiddleware for TLC.                                 *)
EXTENDS TraefikMiddleware, TLC

CONSTANTS r1, r2, r3, k1, k2, en, fr, b1, b2, b3

\* Three requests for one key, two of them of the same variant.
KeyOne == [r \in Requests |-> k1]
VariantTwo == [r \in Requests |-> IF r = r2 THEN fr ELSE en]

Ok == [kind |-> "ok", store |-> TRUE, vary |-> FALSE, etag |-> FALSE,
       noCache |-> FALSE, old |-> FALSE]

AllKinds == {[Ok EXCEPT !.etag = TRUE],
             [Ok EXCEPT !.vary = TRUE, !.noCache = TRUE],
             [Ok EXCEPT !.store = FALSE, !.old = TRUE],
             [Ok EXCEPT !.kind = "error50x"]}
CoalescedKinds == {[Ok EXCEPT !.vary = TRUE, !.noCache = TRUE],
                   [Ok EXCEPT !.kind = "error50x"],
                   [Ok EXCEPT !.kind = "abort"],
                   [Ok EXCEPT !.kind = "notModified", !.store = FALSE]}
EndKinds == {[Ok EXCEPT !.vary = TRUE, !.noCache = TRUE],
             [Ok EXCEPT !.kind = "abort"]}

\* Two requests without coalescing, with everything that may be asked.
Solo == [requests |-> {r1, r2}, buffers |-> {b1, b2}, ticks |-> 0,
         asks |-> AllAsks, answers |-> AllKinds,
         ends |-> {}, alone |-> TRUE]
\* Two and three requests that share calls.
SharedByTwo == [requests |-> {r1, r2}, buffers |-> {b1, b2}, ticks |-> 1,
                asks |-> {"plain", "since"},
                answers |-> CoalescedKinds, ends |-> {}, alone |-> FALSE]
SharedByThree == [requests |-> Requests, buffers |-> Buffers, ticks |-> 0,
                  asks |-> {"plain"}, answers |-> {[Ok EXCEPT !.vary = TRUE, !.noCache = TRUE]},
                  ends |-> {}, alone |-> FALSE]
\* An upstream server that need not answer, timeouts, and clients that leave.
TimedOut == [requests |-> {r1, r2}, buffers |-> {b1, b2}, ticks |-> 0,
             asks |-> {"plain"},
             answers |-> EndKinds, ends |-> {"deadline", "canceled"},
             alone |-> FALSE]
MCSettings == {Solo, SharedByTwo, SharedByThree, TimedOut}
=============================================================================
