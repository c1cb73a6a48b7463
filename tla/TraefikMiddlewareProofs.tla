----------------------- MODULE TraefikMiddlewareProofs -----------------------
(* Theorems about TraefikMiddleware, checked by TLAPS.                       *)
EXTENDS TraefikMiddleware, SequenceTheorems, TLAPS

-----------------------------------------------------------------------------
(* Memory: what is written at the start of a buffer, and read back.          *)

LEMMA OverwrittenAtStart ==
  ASSUME NEW m \in Seq(Int), NEW s \in Seq(Int)
  PROVE  LET w == Overwritten(m, 0, s)
         IN  w \in Seq(Int) /\ Len(w) >= Len(s) /\ Len(w) >= Len(m)
             /\ SubSeq(w, 1, Len(s)) = s
  <1>. DEFINE w == Overwritten(m, 0, s)
              t == SubSeq(m, Len(s) + 1, Len(m))
  <1>1. Len(m) \in Nat /\ Len(s) \in Nat /\ \A i \in 1..Len(m) : m[i] \in Int
    OBVIOUS
  <1>2. SubSeq(m, 1, 0) = <<>>
    BY SubSeqEmpty
  <1>3. /\ t \in Seq(Int)
        /\ Len(t) = IF Len(s) + 1 <= Len(m) THEN Len(m) - Len(s) ELSE 0
    BY <1>1, SubSeqProperties
  <1>. HIDE DEF t
  <1>4. w = s \o t
    BY <1>2 DEF w, t, Overwritten
  <1>5. /\ w \in Seq(Int) /\ Len(w) = Len(s) + Len(t)
        /\ \A i \in 1..Len(s) : w[i] = s[i]
    <2>1. s \o t \in Seq(Int) /\ Len(s \o t) = Len(s) + Len(t)
      BY <1>3, ConcatProperties, Zenon
    <2>2. ASSUME NEW i \in 1..Len(s) PROVE (s \o t)[i] = s[i]
      BY <1>1, <1>3
    <2>. HIDE DEF w
    <2>. QED
      BY <1>4, <2>1, <2>2
  <1>6. /\ SubSeq(w, 1, Len(s)) \in Seq(Int) /\ Len(SubSeq(w, 1, Len(s))) = Len(s)
        /\ \A i \in 1..Len(s) : SubSeq(w, 1, Len(s))[i] = s[i]
    <2>1. \A i \in 1..Len(s) : w[i] \in Int
      BY <1>1, <1>5
    <2>2. /\ SubSeq(w, 1, Len(s)) \in Seq(Int)
          /\ Len(SubSeq(w, 1, Len(s))) = IF 1 <= Len(s) THEN Len(s) - 1 + 1 ELSE 0
          /\ \A i \in 1..(Len(s) - 1 + 1) : SubSeq(w, 1, Len(s))[i] = w[1 + i - 1]
      BY <1>1, <2>1, SubSeqProperties
    <2>. QED
      BY <1>1, <1>5, <2>2
  <1>7. SubSeq(w, 1, Len(s)) = s
    BY <1>6, SeqEqual
  <1>8. Len(w) >= Len(s) /\ Len(w) >= Len(m)
    <2>. HIDE DEF w
    <2>. QED
      BY <1>1, <1>3, <1>5
  <1>. QED
    BY <1>5, <1>7, <1>8

\* What a slice of a memory reads.
LEMMA SliceOf ==
  ASSUME NEW m \in Seq(Int), NEW n \in Nat, n <= Len(m)
  PROVE  SubSeq(m, 1, n) \in Seq(Int) /\ Len(SubSeq(m, 1, n)) = n
  <1>1. \A i \in 1..n : m[i] \in Int
    OBVIOUS
  <1>. QED
    BY <1>1, SubSeqProperties

-----------------------------------------------------------------------------
(* The invariant as long as no context ends.                                 *)

Uses(r) == pc[r] \in {"hit", "wait", "own"}
Works(r) == wk[r] \notin {"off", "end"}
Places == {"off", "do", "join", "fetch", "fetched", "mapping", "update", "apply", "notify",
           "end"}
USE DEF Places

Holds(r) == wk[r] \in {"fetched", "mapping", "update"}
LastCall(r) == Max({c \in DOMAIN calls : calls[c].req = r})

Types ==
  /\ setting \in AllSettings
  /\ pc \in [Requests -> {"new", "hit", "wait", "own", "done"}]
  /\ wk \in [Requests -> Places]
  /\ \A r \in Requests : ctx[r] = "live"
  /\ DOMAIN buf = Requests
  /\ mem \in [Buffers -> Seq(Int)]
  /\ len \in [Buffers -> Nat]
  /\ \A b \in Buffers : len[b] <= Len(mem[b])
  /\ pool \subseteq Buffers
  /\ calls \in Seq([req : Requests, ans : AllAnswers])
  /\ DOMAIN flight = Keys
  /\ DOMAIN res = Requests
  /\ status \in [Requests -> Nat]

\* A buffer in use is not in the pool and has one user, and only the handler's
\* own upstream call touches it.
Exclusive ==
  /\ \A r \in Requests : Uses(r) => buf[r] \in Buffers /\ buf[r] \notin pool
  /\ \A r, q \in Requests : Uses(r) /\ Uses(q) /\ r # q => buf[r] # buf[q]
  /\ \A r \in Requests : Works(r) => pc[r] \in {"wait", "own"}

\* Until the upstream server answers, and once the answer is shared, the buffer
\* of a request is empty; what is shared is a slice of some memory.
EmptiedOf(r) ==
  /\ wk[r] \in {"do", "join", "fetch", "apply"} => len[buf[r]] = 0
  /\ wk[r] = "apply" => /\ res[r].from \in Buffers /\ res[r].length \in Nat
                        /\ res[r].code \in Nat
                        /\ res[r].length <= Len(mem[res[r].from])
Emptied == \A r \in Requests : EmptiedOf(r)

\* An answer in a buffer is that of the last call of the request.
FetchedOf(r, c) ==
  /\ c \in DOMAIN calls /\ calls[c].req = r
  /\ calls[c].ans.kind # "abort"
  /\ status[r] = CodeOf(calls[c].ans)
  /\ Bytes(buf[r]) = IF calls[c].ans.kind = "notModified" THEN <<>> ELSE <<c>>
FetchedWhole == \A r \in Requests : Holds(r) => FetchedOf(r, LastCall(r))

\* What is stored is the body of a call, and a mapping is one of its key.
StoredOf(s, c) ==
  /\ c \in DOMAIN calls /\ cache[s].body = <<c>>
  /\ KeyOf[calls[c].req] = s.key
  /\ calls[c].ans.vary => s.vary /\ s.variant = VariantOf[calls[c].req]
StoredWell ==
  /\ \A s \in DOMAIN cache : \E c \in DOMAIN calls : StoredOf(s, c)
  /\ DOMAIN mapping = Keys
  /\ \A k \in Keys : \A s \in DOMAIN mapping[k] : s.key = k
  /\ DOMAIN update = Requests
  /\ \A r \in Requests : \A s \in DOMAIN update[r].entries : s.key = KeyOf[r]

LiveInv == Types /\ Exclusive /\ Emptied /\ FetchedWhole /\ StoredWell

-----------------------------------------------------------------------------
(* What the pieces of a step do.                                             *)

\* Writing at the start of a buffer.
LEMMA WrittenAtStart ==
  ASSUME mem \in [Buffers -> Seq(Int)], len \in [Buffers -> Nat],
         \A b \in Buffers : len[b] <= Len(mem[b]),
         NEW b \in Buffers, NEW s \in Seq(Int), Write(b, 0, s)
  PROVE  /\ mem' \in [Buffers -> Seq(Int)]
         /\ len' \in [Buffers -> Nat]
         /\ \A d \in Buffers : len'[d] <= Len(mem'[d]) /\ Len(mem[d]) <= Len(mem'[d])
         /\ len'[b] = Len(s) /\ Bytes(b)' = s
         /\ \A d \in Buffers \ {b} : mem'[d] = mem[d] /\ len'[d] = len[d]
  <1>1. PICK w : w = Overwritten(mem[b], 0, s)
    OBVIOUS
  <1>2. /\ w \in Seq(Int) /\ Len(w) >= Len(s) /\ Len(w) >= Len(mem[b])
        /\ SubSeq(w, 1, Len(s)) = s
    BY <1>1, OverwrittenAtStart
  <1>3. mem' = [mem EXCEPT ![b] = w] /\ len' = [len EXCEPT ![b] = 0 + Len(s)]
    BY <1>1 DEF Write
  <1>4. 0 + Len(s) = Len(s) /\ Len(s) \in Nat
    OBVIOUS
  <1>5. mem'[b] = w /\ len'[b] = Len(s)
    BY <1>3, <1>4
  <1>6. mem' \in [Buffers -> Seq(Int)] /\ len' \in [Buffers -> Nat]
    BY <1>2, <1>3, <1>4
  <1>7. \A d \in Buffers \ {b} : mem'[d] = mem[d] /\ len'[d] = len[d]
    BY <1>3
  <1>8. ASSUME NEW d \in Buffers
        PROVE  len'[d] <= Len(mem'[d]) /\ Len(mem[d]) <= Len(mem'[d])
    <2>1. mem[d] \in Seq(Int) /\ Len(mem[d]) \in Nat
      OBVIOUS
    <2>2. CASE d = b
      BY <1>2, <1>5, <2>2
    <2>3. CASE d # b
      BY <1>7, <2>1, <2>3
    <2>. QED
      BY <2>2, <2>3
  <1>9. Bytes(b)' = s
    BY <1>2, <1>5 DEF Bytes
  <1>. QED
    BY <1>5, <1>6, <1>7, <1>8, <1>9

\* Send and Reset leave the memory and empty one buffer.
LEMMA EmptiedBuffer ==
  ASSUME mem \in [Buffers -> Seq(Int)], len \in [Buffers -> Nat],
         \A b \in Buffers : len[b] <= Len(mem[b]),
         NEW b \in Buffers, mem' = mem, len' = [len EXCEPT ![b] = 0]
  PROVE  /\ mem' \in [Buffers -> Seq(Int)]
         /\ len' \in [Buffers -> Nat]
         /\ \A d \in Buffers : len'[d] <= Len(mem'[d]) /\ Len(mem[d]) <= Len(mem'[d])
         /\ len'[b] = 0
         /\ \A d \in Buffers \ {b} : mem'[d] = mem[d] /\ len'[d] = len[d]
  OBVIOUS

\* A further call of request r.
LEMMA FurtherCall ==
  ASSUME calls \in Seq([req : Requests, ans : AllAnswers]),
         NEW r \in Requests, NEW ans \in AllAnswers, Answered(r, ans)
  PROVE  /\ calls' \in Seq([req : Requests, ans : AllAnswers])
         /\ DOMAIN calls \subseteq DOMAIN calls'
         /\ \A c \in DOMAIN calls : calls'[c] = calls[c]
         /\ Len(calls) + 1 \in DOMAIN calls'
         /\ calls'[Len(calls) + 1] = [req |-> r, ans |-> ans]
         /\ LastCall(r)' = Len(calls) + 1
         /\ \A q \in Requests \ {r} : LastCall(q)' = LastCall(q)
  <1>. DEFINE n == Len(calls) + 1
  <1>1. calls' = Append(calls, [req |-> r, ans |-> ans])
    BY DEF Answered
  <1>2. Len(calls) \in Nat /\ DOMAIN calls = 1..Len(calls)
    OBVIOUS
  <1>3. /\ calls' \in Seq([req : Requests, ans : AllAnswers])
        /\ Len(calls') = n /\ DOMAIN calls' = 1..n
        /\ calls'[n] = [req |-> r, ans |-> ans]
        /\ \A c \in 1..Len(calls) : calls'[c] = calls[c]
    BY <1>1
  <1>4. LastCall(r)' = n
    <2>1. n \in {c \in DOMAIN calls' : calls'[c].req = r}
      BY <1>2, <1>3
    <2>2. \A c \in {c \in DOMAIN calls' : calls'[c].req = r} : c \in Nat /\ n >= c
      BY <1>2, <1>3
    <2>3. \A x \in {c \in DOMAIN calls' : calls'[c].req = r} :
            (\A c \in {c \in DOMAIN calls' : calls'[c].req = r} : x >= c) => x = n
      BY <1>2, <2>1, <2>2
    <2>. QED
      BY <2>1, <2>2, <2>3 DEF LastCall, Max
  <1>5. ASSUME NEW q \in Requests \ {r} PROVE LastCall(q)' = LastCall(q)
    <2>1. {c \in DOMAIN calls' : calls'[c].req = q} = {c \in DOMAIN calls : calls[c].req = q}
      BY <1>2, <1>3
    <2>. QED
      BY <2>1 DEF LastCall
  <1>. QED
    BY <1>2, <1>3, <1>4, <1>5

\* What was fetched stays so as long as its buffer and its call are left alone.
LEMMA KeptFetched ==
  ASSUME NEW q, NEW c, FetchedOf(q, c),
         c \in DOMAIN calls', calls'[c] = calls[c], LastCall(q)' = c,
         status'[q] = status[q], buf'[q] = buf[q],
         mem'[buf[q]] = mem[buf[q]], len'[buf[q]] = len[buf[q]]
  PROVE  FetchedOf(q, LastCall(q))'
  BY DEF FetchedOf, Bytes

\* What is shared stays a slice of its memory, which never shrinks.
LEMMA KeptEmptied ==
  ASSUME NEW q, EmptiedOf(q), mem \in [Buffers -> Seq(Int)], mem' \in [Buffers -> Seq(Int)],
         \A d \in Buffers : Len(mem[d]) <= Len(mem'[d]),
         wk'[q] = wk[q], res'[q] = res[q], buf'[q] = buf[q],
         wk[q] \in {"do", "join", "fetch", "apply"} => len'[buf[q]] = len[buf[q]]
  PROVE  EmptiedOf(q)'
  <1>1. \A d \in Buffers : Len(mem[d]) \in Nat /\ Len(mem'[d]) \in Nat
    OBVIOUS
  <1>. QED
    BY <1>1 DEF EmptiedOf

\* What is stored stays so when calls are added and a mapping is deleted.
LEMMA KeptStored ==
  ASSUME StoredWell, UNCHANGED <<cache, update>>,
         mapping' = mapping \/ \E k \in Keys : mapping' = [mapping EXCEPT ![k] = Empty],
         DOMAIN calls \subseteq DOMAIN calls',
         \A c \in DOMAIN calls : calls'[c] = calls[c]
  PROVE  StoredWell'
  <1>1. \A s \in DOMAIN cache' : \E c \in DOMAIN calls' : StoredOf(s, c)'
    <2>. SUFFICES ASSUME NEW s \in DOMAIN cache
                  PROVE  \E c \in DOMAIN calls' : StoredOf(s, c)'
      OBVIOUS
    <2>1. PICK c \in DOMAIN calls : StoredOf(s, c)
      BY DEF StoredWell
    <2>2. StoredOf(s, c)'
      BY <2>1 DEF StoredOf
    <2>. QED
      BY <2>1, <2>2
  <1>2. DOMAIN mapping' = Keys /\ \A k \in Keys : \A s \in DOMAIN mapping'[k] : s.key = k
    <2>1. DOMAIN Empty = {}
      BY DEF Empty
    <2>. QED
      BY <2>1 DEF StoredWell
  <1>. QED
    BY <1>1, <1>2 DEF StoredWell

\* The body of an entry is a sequence of pieces.
LEMMA StoredBody ==
  ASSUME Types, StoredWell, NEW s
  PROVE  Get(s) \in Seq(Int)
  <1>1. CASE s \in DOMAIN cache
    <2>1. PICK c \in DOMAIN calls : StoredOf(s, c)
      BY <1>1 DEF StoredWell
    <2>2. c \in Int
      BY DEF Types
    <2>3. cache[s].body \in Seq(Int)
      BY <2>1, <2>2 DEF StoredOf
    <2>. QED
      BY <2>3 DEF Get
  <1>2. CASE s \notin DOMAIN cache
    BY <1>2 DEF Get
  <1>. QED
    BY <1>1, <1>2

-----------------------------------------------------------------------------
(* Every action keeps the invariant.                                         *)

LEMMA BypassKeeps ==
  ASSUME LiveInv, setting \in AllSettings, NEW r \in Requests, Bypass(r)
  PROVE  LiveInv'
  <1>1. PICK ans \in AllAnswers : Answered(r, ans)
    BY DEF Bypass, AllSettings
  <1>2. /\ pc[r] = "new" /\ pc' = [pc EXCEPT ![r] = "done"]
        /\ mapping' = mapping \/ \E k \in Keys : mapping' = [mapping EXCEPT ![k] = Empty]
        /\ UNCHANGED <<wk, ask, ctx, buf, mem, len, pool, status, flight, res, cache, update,
                       clock, setting>>
    BY TraefikAssumption DEF Bypass
  <1>3. /\ calls' \in Seq([req : Requests, ans : AllAnswers])
        /\ DOMAIN calls \subseteq DOMAIN calls'
        /\ \A c \in DOMAIN calls : calls'[c] = calls[c]
        /\ \A q \in Requests \ {r} : LastCall(q)' = LastCall(q)
    BY <1>1, FurtherCall DEF LiveInv, Types
  <1>4. Types'
    BY <1>2, <1>3 DEF LiveInv, Types
  <1>5. Exclusive'
    BY <1>2 DEF LiveInv, Types, Exclusive, Uses, Works
  <1>6. Emptied'
    BY <1>2 DEF LiveInv, Emptied, EmptiedOf
  <1>7. FetchedWhole'
    <2>. SUFFICES ASSUME NEW q \in Requests, Holds(q)'
                  PROVE  FetchedOf(q, LastCall(q))'
      BY DEF FetchedWhole
    <2>1. q # r
      BY <1>2 DEF LiveInv, Exclusive, Works, Holds
    <2>2. FetchedOf(q, LastCall(q))
      BY <1>2 DEF LiveInv, FetchedWhole, Holds
    <2>3. LastCall(q) \in DOMAIN calls
      BY <2>2 DEF FetchedOf
    <2>. QED
      BY <1>2, <1>3, <2>1, <2>2, <2>3, KeptFetched
  <1>8. StoredWell'
    BY <1>2, <1>3, KeptStored DEF LiveInv
  <1>. QED
    BY <1>4, <1>5, <1>6, <1>7, <1>8 DEF LiveInv

\* The lookup takes a buffer and fills it with a response, or leaves it empty for
\* a call.
LEMMA LookupEffect ==
  ASSUME LiveInv, NEW r \in Requests, Lookup(r)
  PROVE  \E b \in pool, s \in Seq(Int) :
          /\ pool' = pool \ {b} /\ buf' = [buf EXCEPT ![r] = b] /\ Write(b, 0, s)
          /\ \/ /\ pc' = [pc EXCEPT ![r] = "hit"] /\ wk' = wk
                /\ \/ status' = [status EXCEPT ![r] = 304]
                   \/ status' = status /\ \E e \in Elected(r) \ {None} : s = Get(e)
             \/ /\ pc' = [pc EXCEPT ![r] = "own"] \/ pc' = [pc EXCEPT ![r] = "wait"]
                /\ wk' = [wk EXCEPT ![r] = "do"] /\ s = <<>> /\ status' = status
  <1>1. PICK b \in pool :
          /\ pool' = pool \ {b} /\ buf' = [buf EXCEPT ![r] = b]
          /\ \/ \E e \in Elected(r) \ {None} :
                  /\ pc' = [pc EXCEPT ![r] = "hit"]
                  /\ IF ask[r] = "etag" /\ mapping[KeyOf[r]][e].etag
                     THEN status' = [status EXCEPT ![r] = 304] /\ Write(b, 0, <<>>)
                     ELSE Write(b, 0, Get(e)) /\ UNCHANGED status
                  /\ UNCHANGED wk
             \/ /\ pc' = [pc EXCEPT ![r] = "own"]
                /\ wk' = [wk EXCEPT ![r] = "do"] /\ Write(b, 0, <<>>)
                /\ UNCHANGED status
             \/ /\ pc' = [pc EXCEPT ![r] = "wait"]
                /\ wk' = [wk EXCEPT ![r] = "do"] /\ Write(b, 0, <<>>)
                /\ UNCHANGED status
    BY DEF Lookup
  <1>2. <<>> \in Seq(Int) /\ 304 \in Nat
    OBVIOUS
  <1>3. \A e \in Elected(r) \ {None} : Get(e) \in Seq(Int)
    BY StoredBody DEF LiveInv
  <1>4. CASE \E e \in Elected(r) \ {None} :
               /\ pc' = [pc EXCEPT ![r] = "hit"]
               /\ IF ask[r] = "etag" /\ mapping[KeyOf[r]][e].etag
                  THEN status' = [status EXCEPT ![r] = 304] /\ Write(b, 0, <<>>)
                  ELSE Write(b, 0, Get(e)) /\ UNCHANGED status
               /\ UNCHANGED wk
    <2>1. PICK s \in Seq(Int) :
            /\ Write(b, 0, s) /\ pc' = [pc EXCEPT ![r] = "hit"] /\ wk' = wk
            /\ \/ status' = [status EXCEPT ![r] = 304]
               \/ status' = status /\ \E e \in Elected(r) \ {None} : s = Get(e)
      <3>1. PICK e \in Elected(r) \ {None} :
              /\ pc' = [pc EXCEPT ![r] = "hit"] /\ wk' = wk
              /\ IF ask[r] = "etag" /\ mapping[KeyOf[r]][e].etag
                 THEN status' = [status EXCEPT ![r] = 304] /\ Write(b, 0, <<>>)
                 ELSE Write(b, 0, Get(e)) /\ status' = status
        BY <1>4
      <3>2. PICK s \in Seq(Int) : s = IF ask[r] = "etag" /\ mapping[KeyOf[r]][e].etag THEN <<>> ELSE Get(e)
        BY <1>2, <1>3
      <3>. QED
        BY <3>1, <3>2
    <2>. QED
      BY <1>1, <2>1
  <1>5. CASE /\ pc' = [pc EXCEPT ![r] = "own"]
             /\ wk' = [wk EXCEPT ![r] = "do"] /\ Write(b, 0, <<>>)
             /\ UNCHANGED status
    BY <1>1, <1>2, <1>5
  <1>6. CASE /\ pc' = [pc EXCEPT ![r] = "wait"]
             /\ wk' = [wk EXCEPT ![r] = "do"] /\ Write(b, 0, <<>>)
             /\ UNCHANGED status
    BY <1>1, <1>2, <1>6
  <1>. QED
    BY <1>1, <1>4, <1>5, <1>6

LEMMA LookupKeeps ==
  ASSUME LiveInv, NEW r \in Requests, Lookup(r)
  PROVE  LiveInv'
  <1>1. PICK b \in pool, s \in Seq(Int) :
          /\ pool' = pool \ {b} /\ buf' = [buf EXCEPT ![r] = b] /\ Write(b, 0, s)
          /\ \/ /\ pc' = [pc EXCEPT ![r] = "hit"] /\ wk' = wk
                /\ \/ status' = [status EXCEPT ![r] = 304]
                   \/ status' = status /\ \E e \in Elected(r) \ {None} : s = Get(e)
             \/ /\ pc' = [pc EXCEPT ![r] = "own"] \/ pc' = [pc EXCEPT ![r] = "wait"]
                /\ wk' = [wk EXCEPT ![r] = "do"] /\ s = <<>> /\ status' = status
    BY LookupEffect
  <1>2. pc[r] = "new" /\ UNCHANGED <<ask, ctx, flight, res, calls, out, cache, mapping, update,
                                     clock, setting>>
    BY DEF Lookup
  <1>3. b \in Buffers /\ len' \in [Buffers -> Nat] /\ mem' \in [Buffers -> Seq(Int)]
        /\ (\A d \in Buffers : len'[d] <= Len(mem'[d]) /\ Len(mem[d]) <= Len(mem'[d]))
        /\ len'[b] = Len(s)
        /\ \A d \in Buffers \ {b} : mem'[d] = mem[d] /\ len'[d] = len[d]
    BY <1>1, WrittenAtStart DEF LiveInv, Types
  <1>4. \A q \in Requests : Works(q) => q # r /\ buf[q] \in Buffers \ {b}
    BY <1>1, <1>2 DEF LiveInv, Exclusive, Works, Uses
  <1>5. /\ buf'[r] = b /\ \A q \in Requests \ {r} : buf'[q] = buf[q]
        /\ wk'[r] = "do" \/ wk'[r] = wk[r]
        /\ wk'[r] = "do" => s = <<>>
        /\ \A q \in Requests \ {r} : wk'[q] = wk[q] /\ pc'[q] = pc[q] /\ status'[q] = status[q]
        /\ pc'[r] \in {"hit", "own", "wait"}
        /\ pc'[r] = "hit" => wk'[r] = wk[r]
    <2>1. DOMAIN buf = Requests /\ DOMAIN wk = Requests /\ DOMAIN pc = Requests
          /\ DOMAIN status = Requests /\ ~Works(r)
      BY <1>4 DEF LiveInv, Types
    <2>2. wk[r] # "do"
      BY <2>1 DEF Works
    <2>3. \A q \in Requests \ {r} : status'[q] = status[q]
      BY <1>1, <2>1
    <2>4. CASE pc' = [pc EXCEPT ![r] = "hit"] /\ wk' = wk
      BY <1>1, <2>1, <2>2, <2>3, <2>4
    <2>5. CASE /\ pc' = [pc EXCEPT ![r] = "own"] \/ pc' = [pc EXCEPT ![r] = "wait"]
               /\ wk' = [wk EXCEPT ![r] = "do"] /\ s = <<>>
      BY <1>1, <2>1, <2>3, <2>5
    <2>. QED
      BY <1>1, <2>4, <2>5
  <1>6. Types'
    <2>1. /\ pc' \in [Requests -> {"new", "hit", "wait", "own", "done"}]
          /\ wk' \in [Requests -> Places]
      <3>1. /\ pc \in [Requests -> {"new", "hit", "wait", "own", "done"}]
            /\ wk \in [Requests -> Places]
        BY DEF LiveInv, Types
      <3>2. CASE pc' = [pc EXCEPT ![r] = "hit"] /\ wk' = wk
        BY <3>1, <3>2
      <3>3. CASE /\ pc' = [pc EXCEPT ![r] = "own"] \/ pc' = [pc EXCEPT ![r] = "wait"]
                 /\ wk' = [wk EXCEPT ![r] = "do"]
        BY <3>1, <3>3
      <3>. QED
        BY <1>1, <3>2, <3>3
    <2>2. DOMAIN buf' = Requests /\ pool' \subseteq Buffers
      BY <1>1 DEF LiveInv, Types
    <2>3. status' \in [Requests -> Nat]
      <3>1. status \in [Requests -> Nat] /\ 304 \in Nat
        BY DEF LiveInv, Types
      <3>2. status' = status \/ status' = [status EXCEPT ![r] = 304]
        BY <1>1
      <3>. QED
        BY <3>1, <3>2
    <2>. QED
      BY <1>2, <1>3, <2>1, <2>2, <2>3 DEF LiveInv, Types
  <1>7. Exclusive'
    <2>1. \A q \in Requests \ {r} : Uses(q)' = Uses(q) /\ Works(q)' = Works(q) /\ buf'[q] = buf[q]
      BY <1>5 DEF Uses, Works
    <2>2. \A q \in Requests : Uses(q)' => buf'[q] \in Buffers /\ buf'[q] \notin pool'
      BY <1>1, <1>3, <1>5, <2>1 DEF LiveInv, Exclusive
    <2>3. \A q, o \in Requests : Uses(q)' /\ Uses(o)' /\ q # o => buf'[q] # buf'[o]
      BY <1>1, <1>5, <2>1 DEF LiveInv, Exclusive
    <2>4. \A q \in Requests : Works(q)' => pc'[q] \in {"wait", "own"}
      BY <1>4, <1>5, <2>1 DEF LiveInv, Exclusive, Works
    <2>. QED
      BY <2>2, <2>3, <2>4 DEF Exclusive
  <1>8. Emptied'
    <2>. SUFFICES ASSUME NEW q \in Requests PROVE EmptiedOf(q)'
      BY DEF Emptied
    <2>1. CASE q = r
      BY <1>3, <1>4, <1>5, <2>1 DEF Works, EmptiedOf
    <2>2. CASE q # r /\ Works(q)
      BY <1>2, <1>3, <1>4, <1>5, <2>2, KeptEmptied DEF LiveInv, Types, Emptied
    <2>3. CASE q # r /\ ~Works(q)
      BY <1>5, <2>3 DEF Works, EmptiedOf
    <2>. QED
      BY <2>1, <2>2, <2>3
  <1>9. FetchedWhole'
    <2>. SUFFICES ASSUME NEW q \in Requests, Holds(q)'
                  PROVE  FetchedOf(q, LastCall(q))'
      BY DEF FetchedWhole
    <2>1. q # r
      BY <1>4, <1>5 DEF Works, Holds
    <2>2. Holds(q) /\ Works(q)
      BY <1>5, <2>1 DEF Works, Holds
    <2>3. FetchedOf(q, LastCall(q))
      BY <2>2 DEF LiveInv, FetchedWhole
    <2>4. LastCall(q) \in DOMAIN calls /\ calls' = calls /\ LastCall(q)' = LastCall(q)
      BY <1>2, <2>3 DEF FetchedOf, LastCall
    <2>5. /\ status'[q] = status[q] /\ buf'[q] = buf[q]
          /\ mem'[buf[q]] = mem[buf[q]] /\ len'[buf[q]] = len[buf[q]]
      BY <1>3, <1>4, <1>5, <2>1, <2>2
    <2>. QED
      BY <2>3, <2>4, <2>5, KeptFetched
  <1>10. StoredWell'
    BY <1>2, KeptStored DEF LiveInv
  <1>. QED
    BY <1>6, <1>7, <1>8, <1>9, <1>10 DEF LiveInv

\* A handler that returns puts its buffer into the pool, which nobody else uses.
LEMMA ReturnKeeps ==
  ASSUME LiveInv, NEW r \in Requests, Uses(r), Return(r),
         wk' = wk \/ wk' = [wk EXCEPT ![r] = "end"], ~Works(r)',
         mem' = mem, len' = len \/ len' = [len EXCEPT ![buf[r]] = 0],
         UNCHANGED <<ctx, buf, status, flight, res, calls, cache, mapping, update,
                       setting>>
  PROVE  LiveInv'
  <1>1. buf[r] \in Buffers /\ buf[r] \notin pool
    BY DEF LiveInv, Exclusive
  <1>2. /\ mem' \in [Buffers -> Seq(Int)] /\ len' \in [Buffers -> Nat]
        /\ \A d \in Buffers : len'[d] <= Len(mem'[d]) /\ Len(mem[d]) <= Len(mem'[d])
        /\ \A d \in Buffers \ {buf[r]} : len'[d] = len[d] /\ mem'[d] = mem[d]
        /\ len'[buf[r]] \in {0, len[buf[r]]}
    <2>0. /\ mem \in [Buffers -> Seq(Int)] /\ len \in [Buffers -> Nat]
          /\ \A d \in Buffers : len[d] <= Len(mem[d])
          /\ \A d \in Buffers : Len(mem[d]) \in Nat
      BY DEF LiveInv, Types
    <2>1. CASE len' = len
      BY <1>1, <2>0, <2>1
    <2>2. CASE len' = [len EXCEPT ![buf[r]] = 0]
      BY <1>1, <2>0, <2>2, EmptiedBuffer
    <2>. QED
      BY <2>1, <2>2
  <1>3. /\ pc'[r] = "done" /\ pool' = pool \cup {buf[r]}
        /\ \A q \in Requests \ {r} : wk'[q] = wk[q] /\ pc'[q] = pc[q]
        /\ wk'[r] \notin Places \ {"off", "end"}
    <2>1. wk' \in [Requests -> Places]
      BY DEF LiveInv, Types
    <2>. QED
      BY <2>1 DEF LiveInv, Types, Return, Works
  <1>4. Types'
    <2>1. /\ pc' \in [Requests -> {"new", "hit", "wait", "own", "done"}]
          /\ wk' \in [Requests -> Places]
      BY DEF LiveInv, Types, Return
    <2>. QED
      BY <1>1, <1>2, <1>3, <2>1 DEF LiveInv, Types
  <1>5. \A q \in Requests \ {r} : Uses(q)' = Uses(q) /\ Works(q)' = Works(q)
    BY <1>3 DEF Uses, Works
  <1>6. ~Uses(r)'
    BY <1>3 DEF Uses
  <1>7. Exclusive'
    <2>1. \A q \in Requests : Uses(q)' => q # r /\ Uses(q)
      BY <1>5, <1>6
    <2>2. \A q \in Requests : Uses(q)' => buf'[q] \in Buffers /\ buf'[q] \notin pool'
      BY <1>3, <2>1 DEF LiveInv, Exclusive
    <2>3. \A q, o \in Requests : Uses(q)' /\ Uses(o)' /\ q # o => buf'[q] # buf'[o]
      BY <2>1 DEF LiveInv, Exclusive
    <2>4. \A q \in Requests : Works(q)' => pc'[q] \in {"wait", "own"}
      BY <1>3, <1>5 DEF LiveInv, Exclusive
    <2>. QED
      BY <2>2, <2>3, <2>4 DEF Exclusive
  <1>8. \A q \in Requests \ {r} : Works(q) => buf[q] \in Buffers \ {buf[r]}
    BY DEF LiveInv, Exclusive, Uses
  <1>9. Emptied'
    <2>. SUFFICES ASSUME NEW q \in Requests PROVE EmptiedOf(q)'
      BY DEF Emptied
    <2>1. CASE q = r
      BY <1>3, <2>1 DEF EmptiedOf
    <2>2. CASE q # r
      <3>1. wk[q] \in {"do", "join", "fetch", "apply"} => len'[buf[q]] = len[buf[q]]
        BY <1>2, <1>8, <2>2 DEF Works
      <3>. QED
        BY <1>2, <1>3, <2>2, <3>1, KeptEmptied DEF LiveInv, Types, Emptied
    <2>. QED
      BY <2>1, <2>2
  <1>10. FetchedWhole'
    <2>. SUFFICES ASSUME NEW q \in Requests, Holds(q)'
                  PROVE  FetchedOf(q, LastCall(q))'
      BY DEF FetchedWhole
    <2>1. q # r /\ Holds(q) /\ Works(q)
      BY <1>3 DEF Works, Holds
    <2>2. FetchedOf(q, LastCall(q))
      BY <2>1 DEF LiveInv, FetchedWhole
    <2>3. LastCall(q) \in DOMAIN calls /\ LastCall(q)' = LastCall(q)
      BY <2>2 DEF FetchedOf, LastCall
    <2>. QED
      BY <1>2, <1>8, <2>1, <2>2, <2>3, KeptFetched
  <1>11. StoredWell'
    BY KeptStored DEF LiveInv
  <1>. QED
    BY <1>4, <1>7, <1>9, <1>10, <1>11 DEF LiveInv

LEMMA SendHitKeeps ==
  ASSUME LiveInv, NEW r \in Requests, SendHit(r)
  PROVE  LiveInv'
  <1>1. Uses(r) /\ ~Works(r)
    BY DEF SendHit, Uses, LiveInv, Exclusive
  <1>2. ~Works(r)' /\ wk' = wk /\ mem' = mem /\ len' = [len EXCEPT ![buf[r]] = 0]
    BY <1>1 DEF SendHit, Send, Works
  <1>. QED
    BY <1>1, <1>2, ReturnKeeps DEF SendHit

LEMMA ReceiveKeeps ==
  ASSUME LiveInv, NEW r \in Requests, Receive(r)
  PROVE  LiveInv'
  <1>1. Uses(r)
    BY DEF Receive, Uses
  <1>2. wk' = [wk EXCEPT ![r] = "end"] /\ ~Works(r)'
    BY DEF Receive, Works, LiveInv, Types
  <1>3. mem' = mem /\ (len' = len \/ len' = [len EXCEPT ![buf[r]] = 0])
    BY DEF Receive, Send
  <1>. QED
    BY <1>1, <1>2, <1>3, ReturnKeeps DEF Receive

\* A step of the upstream calls of the requests in W, which touches one buffer.
WorkStep(W, b) ==
  /\ W \subseteq Requests /\ b \in Buffers
  /\ \A q \in W : Works(q)
  /\ \E q \in W : b = buf[q]
  /\ wk' \in [Requests -> Places]
  /\ DOMAIN res' = Requests /\ DOMAIN flight' = Keys /\ status' \in [Requests -> Nat]
  /\ \A q \in Requests \ W :
       wk'[q] = wk[q] /\ res'[q] = res[q] /\ status'[q] = status[q]
  /\ UNCHANGED <<ctx, buf, setting>>

\* Of these, the requests in B return.
WorkReturns(B) ==
  /\ \A q \in B : Works(q) /\ ~Works(q)'
  /\ pc' \in [Requests -> {"new", "hit", "wait", "own", "done"}]
  /\ \A q \in Requests : pc'[q] = IF q \in B THEN "done" ELSE pc[q]
  /\ pool' = pool \cup {buf[q] : q \in B}

\* What happens to the memory and to the calls.
MemoryStep(b) ==
  /\ mem' \in [Buffers -> Seq(Int)] /\ len' \in [Buffers -> Nat]
  /\ \A d \in Buffers : len'[d] <= Len(mem'[d]) /\ Len(mem[d]) <= Len(mem'[d])
  /\ \A d \in Buffers \ {b} : len'[d] = len[d] /\ mem'[d] = mem[d]
CallStep(W) ==
  /\ calls' \in Seq([req : Requests, ans : AllAnswers])
  /\ DOMAIN calls \subseteq DOMAIN calls'
  /\ \A c \in DOMAIN calls : calls'[c] = calls[c]
  /\ \A q \in Requests \ W : LastCall(q)' = LastCall(q)

LEMMA NoCall ==
  ASSUME Types, UNCHANGED calls, NEW W
  PROVE  CallStep(W)
  BY DEF Types, CallStep, LastCall

LEMMA NoWrite ==
  ASSUME Types, UNCHANGED <<mem, len>>, NEW b
  PROVE  MemoryStep(b)
  BY DEF Types, MemoryStep

LEMMA NobodyReturns ==
  ASSUME Types, UNCHANGED <<pc, pool>>
  PROVE  WorkReturns({})
  BY DEF Types, WorkReturns

LEMMA WorkKeeps ==
  ASSUME LiveInv, NEW W, NEW b, NEW B \in SUBSET W,
         WorkStep(W, b), WorkReturns(B), MemoryStep(b), CallStep(W),
         \A q \in W : EmptiedOf(q)',
         \A q \in W : Holds(q)' => FetchedOf(q, LastCall(q))',
         StoredWell'
  PROVE  LiveInv'
  <1>. USE DEF WorkStep, WorkReturns, MemoryStep, CallStep
  <1>0. \A q \in Requests : Works(q) => Uses(q)
    BY DEF LiveInv, Exclusive, Uses
  <1>1. \A q \in B : q \in Requests /\ Uses(q)
    BY <1>0
  <1>2. ASSUME NEW q \in Requests \ W, Works(q) PROVE buf[q] # b
    <2>1. PICK o \in W : b = buf[o]
      OBVIOUS
    <2>2. Uses(o) /\ Uses(q) /\ o # q /\ o \in Requests
      BY <1>0, <1>2, <2>1
    <2>. QED
      BY <2>1, <2>2 DEF LiveInv, Exclusive
  <1>3. Types'
    <2>1. pool' \subseteq Buffers
      BY <1>1 DEF LiveInv, Types, Exclusive
    <2>. QED
      BY <2>1 DEF LiveInv, Types
  <1>4. Exclusive'
    <2>1. \A q \in Requests : Uses(q)' => Uses(q) /\ q \notin B
      BY DEF Uses
    <2>2. ASSUME NEW q \in Requests, Uses(q)'
          PROVE  buf'[q] \in Buffers /\ buf'[q] \notin pool'
      <3>1. Uses(q) /\ q \notin B /\ buf'[q] = buf[q]
        BY <2>1, <2>2
      <3>2. \A o \in B : buf[o] # buf[q]
        BY <1>1, <3>1 DEF LiveInv, Exclusive
      <3>. QED
        BY <3>1, <3>2 DEF LiveInv, Exclusive
    <2>3. \A q, o \in Requests : Uses(q)' /\ Uses(o)' /\ q # o => buf'[q] # buf'[o]
      BY <2>1 DEF LiveInv, Exclusive
    <2>4. ASSUME NEW q \in Requests, Works(q)' PROVE pc'[q] \in {"wait", "own"}
      <3>1. Works(q)
        BY <2>4 DEF Works
      <3>. QED
        BY <2>4, <3>1 DEF LiveInv, Exclusive
    <2>. QED
      BY <2>2, <2>3, <2>4 DEF Exclusive
  <1>5. Emptied'
    <2>. SUFFICES ASSUME NEW q \in Requests \ W PROVE EmptiedOf(q)'
      BY DEF Emptied
    <2>1. wk[q] \in {"do", "join", "fetch", "apply"} => len'[buf[q]] = len[buf[q]]
      <3>1. wk[q] \in {"do", "join", "fetch", "apply"} => buf[q] \in Buffers \ {b}
        BY <1>2 DEF Works, LiveInv, Exclusive, Uses
      <3>. QED
        BY <3>1
    <2>. QED
      BY <2>1, KeptEmptied DEF LiveInv, Types, Emptied
  <1>6. FetchedWhole'
    <2>. SUFFICES ASSUME NEW q \in Requests \ W, Holds(q)'
                  PROVE  FetchedOf(q, LastCall(q))'
      BY DEF FetchedWhole
    <2>1. Holds(q) /\ Works(q)
      BY DEF Works, Holds
    <2>2. FetchedOf(q, LastCall(q))
      BY <2>1 DEF LiveInv, FetchedWhole
    <2>3. LastCall(q) \in DOMAIN calls
      BY <2>2 DEF FetchedOf
    <2>4. buf[q] \in Buffers \ {b}
      BY <1>2, <2>1 DEF LiveInv, Exclusive, Uses
    <2>. QED
      BY <2>2, <2>3, <2>4, KeptFetched
  <1>. QED
    BY <1>3, <1>4, <1>5, <1>6 DEF LiveInv

LEMMA DoKeeps ==
  ASSUME LiveInv, NEW r \in Requests, Do(r)
  PROVE  LiveInv'
  <1>1. /\ wk[r] = "do" /\ Works(r)
        /\ wk' = [wk EXCEPT ![r] = "fetch"] \/ wk' = [wk EXCEPT ![r] = "join"]
        /\ flight' = flight \/ flight' = [flight EXCEPT ![KeyOf[r]] = r]
        /\ UNCHANGED <<pc, ctx, buf, mem, len, pool, status, res, calls, cache, mapping, update,
                       setting>>
    BY DEF Do, Works
  <1>2. buf[r] \in Buffers
    BY <1>1 DEF LiveInv, Exclusive, Uses
  <1>3. /\ wk' \in [Requests -> Places]
        /\ DOMAIN flight' = Keys
        /\ wk'[r] \in {"fetch", "join"} /\ \A q \in Requests \ {r} : wk'[q] = wk[q]
    <2>1. /\ wk \in [Requests -> Places]
          /\ DOMAIN flight = Keys
      BY DEF LiveInv, Types
    <2>2. DOMAIN flight' = Keys
      BY <1>1, <2>1
    <2>3. CASE wk' = [wk EXCEPT ![r] = "fetch"]
      BY <2>1, <2>2, <2>3
    <2>4. CASE wk' = [wk EXCEPT ![r] = "join"]
      BY <2>1, <2>2, <2>4
    <2>. QED
      BY <1>1, <2>3, <2>4
  <1>4. EmptiedOf(r)'
    BY <1>1, <1>3 DEF LiveInv, Emptied, EmptiedOf
  <1>5. \A q \in Requests : LastCall(q)' = LastCall(q)
    BY <1>1 DEF LastCall
  <1>6. StoredWell'
    BY <1>1, KeptStored DEF LiveInv
  <1>7. WorkStep({r}, buf[r])
    BY <1>1, <1>2, <1>3 DEF WorkStep, LiveInv, Types
  <1>8. \A q \in {r} : EmptiedOf(q)' /\ ~Holds(q)'
    BY <1>3, <1>4 DEF Holds
  <1>9. {} \in SUBSET {r}
    OBVIOUS
  <1>. QED
    BY <1>1, <1>6, <1>7, <1>8, <1>9, WorkKeeps, NoCall, NoWrite, NobodyReturns DEF LiveInv

LEMMA FetchKeeps ==
  ASSUME LiveInv, setting \in AllSettings, NEW r \in Requests, Fetch(r)
  PROVE  LiveInv'
  <1>. DEFINE b == buf[r]
              n == Len(calls) + 1
  <1>1. /\ wk[r] = "fetch" /\ Works(r) /\ b \in Buffers /\ len[b] = 0
        /\ wk' = [wk EXCEPT ![r] = "fetched"]
        /\ UNCHANGED <<pc, ctx, buf, pool, flight, res, cache, mapping, update,
                       setting>>
    BY DEF Fetch, Works, LiveInv, Exclusive, Uses, Emptied, EmptiedOf
  <1>2. PICK ans \in AllAnswers :
          /\ ans.kind # "abort" /\ Answered(r, ans)
          /\ Write(b, len[b], IF ans.kind = "notModified" THEN <<>> ELSE <<n>>)
          /\ status' = [status EXCEPT ![r] = CodeOf(ans)]
    <2>1. ctx[r] = "live"
      BY DEF LiveInv, Types
    <2>3. PICK ans \in setting.answers :
            /\ ans.kind # "abort" /\ Answered(r, ans)
            /\ Write(b, len[b], IF ans.kind = "notModified" THEN <<>> ELSE <<n>>)
            /\ \E code \in Codes(r, CodeOf(ans)) : status' = [status EXCEPT ![r] = code]
      BY DEF Fetch
    <2>4. PICK code : code = CodeOf(ans)
      OBVIOUS
    <2>5. status' = [status EXCEPT ![r] = code]
      <3>1. Codes(r, CodeOf(ans)) = {CodeOf(ans)}
        BY <2>1 DEF Codes
      <3>. QED
        BY <2>3, <2>4, <3>1
    <2>6. ans \in AllAnswers
      BY DEF AllSettings
    <2>. QED
      BY <2>3, <2>4, <2>5, <2>6
  <1>3. PICK s : s = IF ans.kind = "notModified" THEN <<>> ELSE <<n>>
    OBVIOUS
  <1>4. s \in Seq(Int) /\ Write(b, 0, s)
    <2>1. n \in Int
      BY DEF LiveInv, Types
    <2>. HIDE DEF n
    <2>2. s \in Seq(Int)
      BY <1>3, <2>1
    <2>. QED
      BY <1>1, <1>2, <1>3, <2>2
  <1>5. MemoryStep(b) /\ Bytes(b)' = s
    BY <1>1, <1>4, WrittenAtStart DEF LiveInv, Types, MemoryStep
  <1>6. CallStep({r}) /\ n \in DOMAIN calls' /\ calls'[n] = [req |-> r, ans |-> ans]
        /\ LastCall(r)' = n
    BY <1>2, FurtherCall DEF LiveInv, Types, CallStep
  <1>7. CodeOf(ans) \in Nat
    BY <1>2 DEF CodeOf, AllAnswers
  <1>8. WorkStep({r}, b)
    <2>1. /\ wk' \in [Requests -> Places]
          /\ status' \in [Requests -> Nat]
          /\ \A q \in Requests \ {r} : wk'[q] = wk[q] /\ status'[q] = status[q]
      BY <1>1, <1>2, <1>7 DEF LiveInv, Types
    <2>. QED
      BY <1>1, <2>1 DEF WorkStep, LiveInv, Types
  <1>9. EmptiedOf(r)' /\ wk'[r] = "fetched"
    BY <1>1 DEF EmptiedOf, LiveInv, Types
  <1>10. FetchedOf(r, LastCall(r))'
    <2>1. status'[r] = CodeOf(ans)
      BY <1>2 DEF LiveInv, Types
    <2>. QED
      BY <1>2, <1>3, <1>5, <1>6, <2>1 DEF FetchedOf
  <1>11. StoredWell'
    BY <1>1, <1>6, KeptStored DEF LiveInv, CallStep
  <1>12. /\ {} \in SUBSET {r} /\ WorkReturns({})
         /\ \A q \in {r} : EmptiedOf(q)' /\ FetchedOf(q, LastCall(q))'
    BY <1>1, <1>9, <1>10, NobodyReturns DEF LiveInv
  <1>. QED
    BY <1>5, <1>6, <1>8, <1>11, <1>12, WorkKeeps

LEMMA ApplyKeeps ==
  ASSUME LiveInv, NEW r \in Requests, Apply(r)
  PROVE  LiveInv'
  <1>. DEFINE b == buf[r]
  <1>1. /\ wk[r] = "apply" /\ Works(r) /\ b \in Buffers /\ len[b] = 0
        /\ UNCHANGED <<pc, ctx, buf, pool, flight, res, calls, cache, mapping, update,
                       setting>>
        /\ res[r].from \in Buffers /\ res[r].length \in Nat
        /\ res[r].length <= Len(mem[res[r].from])
    BY DEF Apply, Works, LiveInv, Exclusive, Uses, Emptied, EmptiedOf
  <1>2. PICK s : s = SubSeq(mem[res[r].from], 1, res[r].length)
    OBVIOUS
  <1>3. s \in Seq(Int)
    BY <1>1, <1>2, SliceOf DEF LiveInv, Types
  <1>4. \/ /\ wk' = [wk EXCEPT ![r] = "notify"] \/ wk' = [wk EXCEPT ![r] = "do"]
           /\ UNCHANGED <<mem, len, status>>
        \/ /\ wk' = [wk EXCEPT ![r] = "notify"]
           /\ Write(b, 0, s) /\ status' = [status EXCEPT ![r] = res[r].code]
    BY <1>1, <1>2 DEF Apply, Codes, LiveInv, Types
  <1>5. MemoryStep(b)
    <2>1. CASE UNCHANGED <<mem, len>>
      BY <2>1, NoWrite DEF LiveInv
    <2>2. CASE Write(b, 0, s)
      BY <1>1, <1>3, <2>2, WrittenAtStart DEF LiveInv, Types, MemoryStep
    <2>. QED
      BY <1>4, <2>1, <2>2
  <1>6. /\ wk' \in [Requests -> Places]
        /\ wk'[r] \in {"notify", "do"}
        /\ wk'[r] = "do" => len' = len
        /\ \A q \in Requests \ {r} : wk'[q] = wk[q]
    BY <1>4 DEF LiveInv, Types
  <1>7. EmptiedOf(r)'
    BY <1>1, <1>6 DEF EmptiedOf
  <1>8. WorkStep({r}, b)
    <2>1. status' \in [Requests -> Nat] /\ \A q \in Requests \ {r} : status'[q] = status[q]
      <3>1. res[r].code \in Nat
        BY <1>1 DEF LiveInv, Emptied, EmptiedOf
      <3>. QED
        BY <1>4, <3>1 DEF LiveInv, Types
    <2>. QED
      BY <1>1, <1>6, <2>1 DEF WorkStep, LiveInv, Types
  <1>9. \A q \in {r} : ~Holds(q)'
    BY <1>6 DEF Holds
  <1>10. {} \in SUBSET {r}
    OBVIOUS
  <1>11. WorkReturns({}) /\ CallStep({r})
    BY <1>1, NobodyReturns, NoCall DEF LiveInv
  <1>12. \A q \in {r} : EmptiedOf(q)'
    BY <1>7
  <1>13. StoredWell'
    BY <1>1, KeptStored DEF LiveInv
  <1>. QED
    BY <1>5, <1>8, <1>9, <1>13, <1>12, <1>11, <1>10, WorkKeeps

\* Who shares a call that is made: the leader, and those who joined.
LEMMA PartyWorks ==
  ASSUME NEW r \in Requests, wk[r] \in {"fetch", "fetched", "update"}, Types
  PROVE  /\ Party(r) \subseteq Requests /\ r \in Party(r)
         /\ \A q \in Party(r) : Works(q) /\ (q = r \/ wk[q] = "join")
  BY DEF Party, Works

\* The values and the places that Do gives to those who share a call.
LEMMA Landed ==
  ASSUME Types, NEW r \in Requests, NEW v, NEW place, Land(r, v, place),
         Party(r) \subseteq Requests,
         place \in {"apply", "notify"}
  PROVE  /\ wk' \in [Requests -> Places]
         /\ DOMAIN res' = Requests /\ DOMAIN flight' = Keys
         /\ \A q \in Party(r) : wk'[q] = place /\ res'[q] = v
         /\ \A q \in Requests \ Party(r) : wk'[q] = wk[q] /\ res'[q] = res[q]
  BY DEF Land, Types

\* A call that ends gives its value to those who share it.
LEMMA LandingKeeps ==
  ASSUME LiveInv, NEW r \in Requests, wk[r] \in {"fetched", "update"}, StoredWell',
         UNCHANGED <<pc, ctx, buf, mem, pool, status, calls, setting>>,
         NEW v,
         \/ /\ Land(r, v, "notify")
            /\ len' = len \/ len' = [len EXCEPT ![buf[r]] = 0]
         \/ /\ Land(r, v, "apply") /\ v = Value(r, LastAnswer(r))
            /\ len' = [len EXCEPT ![buf[r]] = 0]
  PROVE  LiveInv'
  <1>. DEFINE b == buf[r]
              c == LastCall(r)
  <1>1. Works(r) /\ Holds(r) /\ b \in Buffers
    BY DEF Works, Holds, LiveInv, Exclusive, Uses
  <1>2. FetchedOf(r, c)
    BY <1>1 DEF LiveInv, FetchedWhole
  <1>3. PICK ans : ans = calls[c].ans
    OBVIOUS
  <1>4. \/ /\ Land(r, v, "notify")
           /\ len' = len \/ len' = [len EXCEPT ![b] = 0]
        \/ /\ Land(r, v, "apply") /\ v = Value(r, ans)
           /\ len' = [len EXCEPT ![b] = 0]
    BY <1>3 DEF LastAnswer, LastCall
  <1>5. len' = len \/ len' = [len EXCEPT ![b] = 0]
    BY <1>4
  <1>6. /\ Party(r) \subseteq Requests /\ r \in Party(r)
        /\ \A q \in Party(r) : Works(q) /\ (q = r \/ wk[q] = "join")
    BY <1>1, PartyWorks DEF LiveInv
  <1>7. /\ wk' \in [Requests -> Places]
        /\ DOMAIN res' = Requests /\ DOMAIN flight' = Keys
        /\ wk'[r] \in {"apply", "notify"}
        /\ \A q \in Party(r) : wk'[q] = wk'[r] /\ res'[q] = v
        /\ \A q \in Requests \ Party(r) : wk'[q] = wk[q] /\ res'[q] = res[q]
        /\ wk'[r] = "apply" => v = Value(r, ans) /\ len' = [len EXCEPT ![b] = 0]
    <2>1. CASE Land(r, v, "notify")
      BY <1>6, <2>1, Landed DEF LiveInv
    <2>2. CASE Land(r, v, "apply") /\ v = Value(r, ans) /\ len' = [len EXCEPT ![b] = 0]
      BY <1>6, <2>2, Landed DEF LiveInv
    <2>. QED
      BY <1>4, <2>1, <2>2
  <1>8. MemoryStep(b)
    <2>1. CASE len' = len
      BY <1>1, <2>1, NoWrite DEF LiveInv
    <2>2. CASE len' = [len EXCEPT ![b] = 0]
      BY <1>1, <2>2, EmptiedBuffer DEF LiveInv, Types, MemoryStep
    <2>. QED
      BY <1>5, <2>1, <2>2
  <1>9. WorkStep(Party(r), b)
    BY <1>1, <1>6, <1>7 DEF WorkStep, LiveInv, Types
  <1>10. WorkReturns({}) /\ CallStep(Party(r))
    BY <1>1, NobodyReturns, NoCall DEF LiveInv
  <1>11. ASSUME NEW q \in Party(r) PROVE EmptiedOf(q)' /\ ~Holds(q)'
    <2>1. CASE wk'[r] = "notify"
      BY <1>7, <2>1 DEF EmptiedOf, Holds
    <2>2. CASE wk'[r] = "apply"
      <3>1. v.from = b /\ v.length = len[b] /\ v.code = status[r] /\ len'[b] = 0
        BY <1>1, <1>7, <2>2 DEF Value, LiveInv, Types
      <3>2. len[b] \in Nat /\ len[b] <= Len(mem[b])
        BY <1>1 DEF LiveInv, Types
      <3>3. status[r] \in Nat
        BY DEF LiveInv, Types
      <3>4. len'[buf[q]] = 0
        <4>1. CASE q = r
          BY <3>1, <4>1
        <4>2. CASE q # r
          <5>1. wk[q] = "join" /\ buf[q] \in Buffers \ {b} /\ len[buf[q]] = 0
            BY <1>1, <1>6, <4>2 DEF LiveInv, Exclusive, Uses, Emptied, EmptiedOf
          <5>. QED
            BY <1>8, <5>1 DEF MemoryStep
        <4>. QED
          BY <4>1, <4>2
      <3>. QED
        BY <1>1, <1>7, <2>2, <3>1, <3>2, <3>3, <3>4 DEF EmptiedOf, Holds
    <2>. QED
      BY <1>7, <2>1, <2>2
  <1>13. {} \in SUBSET Party(r) /\ \A q \in Party(r) : EmptiedOf(q)'
    BY <1>11
  <1>14. \A q \in Party(r) : ~Holds(q)'
    BY <1>11
  <1>. QED
    BY <1>8, <1>9, <1>10, <1>13, <1>14, WorkKeeps

LEMMA ConcludeKeeps ==
  ASSUME LiveInv, NEW r \in Requests, Conclude(r)
  PROVE  LiveInv'
  <1>1. /\ wk[r] = "fetched"
        /\ UNCHANGED <<pc, ctx, buf, mem, pool, status, calls, cache, mapping, update, setting>>
    BY DEF Conclude
  <1>2. \E v :
          \/ /\ Land(r, v, "notify")
             /\ len' = len \/ len' = [len EXCEPT ![buf[r]] = 0]
          \/ /\ Land(r, v, "apply") /\ v = Value(r, LastAnswer(r))
             /\ len' = [len EXCEPT ![buf[r]] = 0]
    BY DEF Conclude
  <1>3. StoredWell'
    BY <1>1, KeptStored DEF LiveInv
  <1>. QED
    BY <1>1, <1>2, <1>3, LandingKeeps

\* What a request holds while it stores stays as it is.
LEMMA StoringKeeps ==
  ASSUME LiveInv, NEW r \in Requests, Holds(r), StoredWell',
         wk' = [wk EXCEPT ![r] = "mapping"] \/ wk' = [wk EXCEPT ![r] = "update"],
         UNCHANGED <<pc, ctx, buf, mem, len, pool, status, flight, res, calls, setting>>
  PROVE  LiveInv'
  <1>1. Works(r) /\ buf[r] \in Buffers
    BY DEF Holds, Works, LiveInv, Exclusive, Uses
  <1>2. /\ wk' \in [Requests -> Places] /\ wk'[r] \in {"mapping", "update"}
        /\ \A q \in Requests \ {r} : wk'[q] = wk[q]
    <2>1. wk \in [Requests -> Places] /\ {"mapping", "update"} \subseteq Places
      BY DEF LiveInv, Types
    <2>2. CASE wk' = [wk EXCEPT ![r] = "mapping"]
      BY <2>1, <2>2
    <2>3. CASE wk' = [wk EXCEPT ![r] = "update"]
      BY <2>1, <2>3
    <2>. QED
      BY <2>2, <2>3
  <1>3. WorkStep({r}, buf[r])
    BY <1>1, <1>2 DEF WorkStep, LiveInv, Types
  <1>4. EmptiedOf(r)'
    BY <1>2 DEF EmptiedOf
  <1>5. FetchedOf(r, LastCall(r))'
    <2>1. FetchedOf(r, LastCall(r)) /\ LastCall(r)' = LastCall(r)
      BY DEF LiveInv, FetchedWhole, LastCall
    <2>2. LastCall(r) \in DOMAIN calls
      BY <2>1 DEF FetchedOf
    <2>. QED
      BY <2>1, <2>2, KeptFetched
  <1>6. /\ {} \in SUBSET {r} /\ WorkReturns({}) /\ MemoryStep(buf[r]) /\ CallStep({r})
        /\ \A q \in {r} : EmptiedOf(q)' /\ FetchedOf(q, LastCall(q))'
    BY <1>4, <1>5, NobodyReturns, NoWrite, NoCall DEF LiveInv
  <1>. QED
    BY <1>3, <1>6, WorkKeeps

\* The value that is set is the body of the request's call.
LEMMA SetValueKeeps ==
  ASSUME LiveInv, NEW r \in Requests, SetValue(r)
  PROVE  LiveInv'
  <1>. DEFINE c == LastCall(r)
  <1>1. /\ wk[r] = "fetched" /\ Holds(r)
        /\ wk' = [wk EXCEPT ![r] = "mapping"]
        /\ update' = [update EXCEPT ![r].now = clock]
        /\ UNCHANGED <<pc, ctx, buf, mem, len, pool, status, flight, res, calls, mapping, setting>>
    BY DEF SetValue, Holds
  <1>2. PICK ans : ans = calls[c].ans
    OBVIOUS
  <1>3. PICK v : /\ v.body = Bytes(buf[r]) /\ cache' = With(cache, Slot(r, ans), v)
                 /\ MayStore(r, ans)
    BY <1>2 DEF SetValue, LastAnswer, LastCall
  <1>4. FetchedOf(r, c)
    BY <1>1 DEF LiveInv, FetchedWhole
  <1>5. v.body = <<c>>
    <2>1. status[r] = 200 /\ status[r] = CodeOf(ans)
      BY <1>2, <1>3, <1>4 DEF MayStore, FetchedOf
    <2>2. ans.kind # "notModified"
      BY <2>1 DEF CodeOf
    <2>. QED
      BY <1>2, <1>3, <1>4, <2>2 DEF FetchedOf
  <1>6. StoredWell'
    <2>1. PICK n : n = Slot(r, ans)
      OBVIOUS
    <2>2. n.key = KeyOf[r] /\ n.vary = ans.vary /\ (ans.vary => n.variant = VariantOf[r])
      BY <2>1 DEF Slot, VariedKey
    <2>3. /\ DOMAIN cache' = DOMAIN cache \cup {n} /\ cache'[n] = v
          /\ \A s \in DOMAIN cache \ {n} : cache'[s] = cache[s]
      BY <1>3, <2>1 DEF With
    <2>4. StoredOf(n, c)'
      <3>1. c \in DOMAIN calls /\ calls[c].req = r /\ calls[c].ans = ans
        BY <1>2, <1>4 DEF FetchedOf
      <3>2. PICK d : d = c
        OBVIOUS
      <3>3. d \in DOMAIN calls' /\ calls'[d].req = r /\ calls'[d].ans = ans /\ v.body = <<d>>
        BY <1>1, <1>5, <3>1, <3>2
      <3>4. StoredOf(n, d)'
        BY <2>2, <2>3, <3>3 DEF StoredOf
      <3>5. c' = c
        BY <1>1 DEF LastCall
      <3>. QED
        BY <3>2, <3>4, <3>5
    <2>5. \A s \in DOMAIN cache' : \E i \in DOMAIN calls' : StoredOf(s, i)'
      <3>. SUFFICES ASSUME NEW s \in DOMAIN cache \cup {n}
                    PROVE  \E i \in DOMAIN calls' : StoredOf(s, i)'
        BY <2>3
      <3>1. CASE s = n
        BY <2>4, <3>1 DEF StoredOf
      <3>2. CASE s # n
        <4>1. PICK i \in DOMAIN calls : StoredOf(s, i)
          BY <3>2 DEF LiveInv, StoredWell
        <4>2. StoredOf(s, i)'
          BY <1>1, <2>3, <3>2, <4>1 DEF StoredOf
        <4>. QED
          BY <1>1, <4>1, <4>2
      <3>. QED
        BY <3>1, <3>2
    <2>6. /\ DOMAIN update' = Requests
          /\ \A q \in Requests : \A s \in DOMAIN update'[q].entries : s.key = KeyOf[q]
      <3>1. \A q \in Requests : update'[q].entries = update[q].entries
        BY <1>1 DEF LiveInv, StoredWell
      <3>. QED
        BY <1>1, <3>1 DEF LiveInv, StoredWell
    <2>. QED
      BY <1>1, <2>5, <2>6 DEF LiveInv, StoredWell
  <1>. QED
    BY <1>1, <1>6, StoringKeeps

LEMMA GetMappingKeeps ==
  ASSUME LiveInv, NEW r \in Requests, GetMapping(r)
  PROVE  LiveInv'
  <1>1. /\ Holds(r) /\ wk' = [wk EXCEPT ![r] = "update"]
        /\ update' = [update EXCEPT ![r].entries = mapping[KeyOf[r]]]
        /\ UNCHANGED <<pc, ctx, buf, mem, len, pool, status, flight, res, calls, cache, mapping,
                       setting>>
    BY DEF GetMapping, Holds
  <1>2. StoredWell'
    <2>1. \A s \in DOMAIN cache' : \E i \in DOMAIN calls' : StoredOf(s, i)'
      BY <1>1 DEF LiveInv, StoredWell, StoredOf
    <2>2. KeyOf[r] \in Keys
      BY TraefikAssumption
    <2>3. PICK m : m = mapping[KeyOf[r]]
      OBVIOUS
    <2>4. \A s \in DOMAIN m : s.key = KeyOf[r]
      BY <2>2, <2>3 DEF LiveInv, StoredWell
    <2>5. /\ DOMAIN update' = Requests
          /\ \A q \in Requests : \A s \in DOMAIN update'[q].entries : s.key = KeyOf[q]
      <3>1. DOMAIN update = Requests /\ update' = [update EXCEPT ![r].entries = m]
        BY <1>1, <2>3 DEF LiveInv, StoredWell
      <3>2. \A q \in Requests \ {r} : update'[q] = update[q]
        BY <3>1
      <3>3. PICK u : u = [update[r] EXCEPT !.entries = m]
        OBVIOUS
      <3>4. update'[r] = u
        BY <3>1, <3>3
      <3>5. DOMAIN u.entries = DOMAIN m \/ u.entries = update[r].entries
        BY <3>3
      <3>6. \A s \in DOMAIN u.entries : s.key = KeyOf[r]
        BY <2>4, <3>5 DEF LiveInv, StoredWell
      <3>. QED
        BY <3>1, <3>2, <3>4, <3>6 DEF LiveInv, StoredWell
    <2>. QED
      BY <1>1, <2>1, <2>5 DEF LiveInv, StoredWell
  <1>. QED
    BY <1>1, <1>2, StoringKeeps

LEMMA SetMappingKeeps ==
  ASSUME LiveInv, NEW r \in Requests, SetMapping(r)
  PROVE  LiveInv'
  <1>1. /\ wk[r] = "update" /\ Land(r, Value(r, LastAnswer(r)), "apply")
        /\ len' = [len EXCEPT ![buf[r]] = 0]
        /\ update' = [update EXCEPT ![r] = [now |-> 0, entries |-> Empty]]
        /\ UNCHANGED <<pc, ctx, buf, mem, pool, status, calls, cache, setting>>
    BY DEF SetMapping
  <1>2. PICK n, e : /\ n.key = KeyOf[r]
                    /\ mapping' = [mapping EXCEPT ![KeyOf[r]] = With(update[r].entries, n, e)]
    <2>1. PICK n : n = Slot(r, LastAnswer(r))
      OBVIOUS
    <2>2. n.key = KeyOf[r]
      BY <2>1 DEF Slot
    <2>. QED
      BY <2>1, <2>2 DEF SetMapping
  <1>3. StoredWell'
    <2>1. \A s \in DOMAIN cache' : \E i \in DOMAIN calls' : StoredOf(s, i)'
      BY <1>1 DEF LiveInv, StoredWell, StoredOf
    <2>2. KeyOf[r] \in Keys /\ DOMAIN mapping = Keys /\ DOMAIN update = Requests
      BY TraefikAssumption DEF LiveInv, StoredWell
    <2>3. PICK m : m = With(update[r].entries, n, e)
      OBVIOUS
    <2>4. \A s \in DOMAIN m : s.key = KeyOf[r]
      BY <1>2, <2>3 DEF With, LiveInv, StoredWell
    <2>5. DOMAIN mapping' = Keys /\ \A k \in Keys : \A s \in DOMAIN mapping'[k] : s.key = k
      <3>1. /\ DOMAIN mapping' = Keys /\ mapping'[KeyOf[r]] = m
            /\ \A k \in Keys \ {KeyOf[r]} : mapping'[k] = mapping[k]
        BY <1>2, <2>2, <2>3
      <3>. QED
        BY <2>4, <3>1 DEF LiveInv, StoredWell
    <2>6. /\ DOMAIN update' = Requests
          /\ \A q \in Requests : \A s \in DOMAIN update'[q].entries : s.key = KeyOf[q]
      <3>1. DOMAIN Empty = {} /\ update'[r].entries = Empty
        BY <1>1, <2>2 DEF Empty
      <3>2. DOMAIN update' = Requests /\ \A q \in Requests \ {r} : update'[q] = update[q]
        BY <1>1, <2>2
      <3>. QED
        BY <3>1, <3>2 DEF LiveInv, StoredWell
    <2>. QED
      BY <2>1, <2>5, <2>6 DEF StoredWell
  <1>. QED
    BY <1>1, <1>3, LandingKeeps

LEMMA AbortKeeps ==
  ASSUME LiveInv, setting \in AllSettings, NEW r \in Requests, Abort(r)
  PROVE  LiveInv'
  <1>. DEFINE b == buf[r]
              n == Len(calls) + 1
              broken == {q \in Party(r) : Revalidates(q)}
  <1>1. /\ wk[r] = "fetch" /\ Works(r) /\ b \in Buffers /\ len[b] = 0
        /\ Write(b, len[b], <<-n>>)
        /\ pc' = [q \in Requests |-> IF q \in broken THEN "done" ELSE pc[q]]
        /\ pool' = pool \cup {buf[q] : q \in broken}
        /\ flight' = [flight EXCEPT ![KeyOf[r]] = IF @ = r THEN None ELSE @]
        /\ UNCHANGED <<ask, ctx, buf, status, cache, mapping, update, clock, setting>>
    BY DEF Abort, Works, LiveInv, Exclusive, Uses, Emptied, EmptiedOf
  <1>2. /\ wk' = [q \in Requests |-> CASE q \in broken -> "end"
                                       [] q \in Party(r) \ broken -> "notify"
                                       [] OTHER -> wk[q]]
        /\ res' = [q \in Requests |-> IF q \in Party(r) THEN Error("none") ELSE res[q]]
    BY DEF Abort
  <1>3. PICK ans \in AllAnswers : Answered(r, ans)
    BY DEF Abort, AllSettings
  <1>4. /\ Party(r) \subseteq Requests /\ r \in Party(r)
        /\ \A q \in Party(r) : Works(q) /\ (q = r \/ wk[q] = "join")
    BY <1>1, PartyWorks DEF LiveInv
  <1>5. MemoryStep(b)
    <2>1. <<-n>> \in Seq(Int)
      BY DEF LiveInv, Types
    <2>. HIDE DEF n
    <2>2. PICK s : s = <<-n>>
      OBVIOUS
    <2>3. Write(b, 0, s) /\ s \in Seq(Int)
      BY <1>1, <2>1, <2>2
    <2>. QED
      BY <1>1, <2>3, WrittenAtStart DEF LiveInv, Types, MemoryStep
  <1>6. CallStep(Party(r)) /\ DOMAIN calls \subseteq DOMAIN calls'
        /\ \A c \in DOMAIN calls : calls'[c] = calls[c]
    <2>1. /\ calls' \in Seq([req : Requests, ans : AllAnswers])
          /\ DOMAIN calls \subseteq DOMAIN calls'
          /\ \A c \in DOMAIN calls : calls'[c] = calls[c]
          /\ \A q \in Requests \ {r} : LastCall(q)' = LastCall(q)
      BY <1>3, FurtherCall DEF LiveInv, Types
    <2>2. \A q \in Requests \ Party(r) : LastCall(q)' = LastCall(q)
      BY <1>4, <2>1
    <2>. QED
      BY <2>1, <2>2 DEF CallStep
  <1>7. /\ \A q \in Party(r) : wk'[q] = IF q \in broken THEN "end" ELSE "notify"
        /\ \A q \in Requests \ Party(r) : wk'[q] = wk[q] /\ res'[q] = res[q]
        /\ DOMAIN res' = Requests /\ DOMAIN wk' = Requests
    <2>. HIDE DEF broken
    <2>1. broken \subseteq Party(r)
      BY DEF broken
    <2>. QED
      BY <1>2, <1>4, <2>1
  <1>8. wk' \in [Requests -> Places]
    <2>1. ASSUME NEW q \in Requests
          PROVE  wk'[q] \in Places
      <3>1. CASE q \in Party(r)
        BY <1>7, <3>1
      <3>2. CASE q \notin Party(r)
        BY <1>7, <3>2 DEF LiveInv, Types
      <3>. QED
        BY <3>1, <3>2
    <2>2. wk' = [q \in Requests |-> wk'[q]]
      BY <1>2
    <2>. QED
      BY <2>1, <2>2
  <1>9. WorkStep(Party(r), b)
    BY <1>1, <1>4, <1>7, <1>8 DEF WorkStep, LiveInv, Types
  <1>10. WorkReturns(broken)
    <2>1. \A q \in broken : Works(q) /\ ~Works(q)'
      BY <1>4, <1>7 DEF Works
    <2>2. pc' \in [Requests -> {"new", "hit", "wait", "own", "done"}]
      BY <1>1 DEF LiveInv, Types
    <2>3. \A q \in Requests : pc'[q] = IF q \in broken THEN "done" ELSE pc[q]
      BY <1>1
    <2>. HIDE DEF broken
    <2>. QED
      BY <1>1, <2>1, <2>2, <2>3 DEF WorkReturns
  <1>11. \A q \in Party(r) : wk'[q] \notin {"do", "join", "fetch", "apply"} /\ ~Holds(q)'
    BY <1>7 DEF Holds
  <1>12. \A q \in Party(r) : EmptiedOf(q)'
    BY <1>11 DEF EmptiedOf
  <1>13. \A q \in Party(r) : ~Holds(q)'
    BY <1>11
  <1>14. StoredWell'
    BY <1>1, <1>6, KeptStored DEF LiveInv
  <1>15. broken \in SUBSET Party(r)
    OBVIOUS
  <1>. HIDE DEF broken, b
  <1>. QED
    BY <1>5, <1>6, <1>9, <1>10, <1>12, <1>13, <1>14, <1>15, WorkKeeps

-----------------------------------------------------------------------------
(* The theorem.                                                              *)

LEMMA InitLive ==
  ASSUME Init PROVE setting \in AllSettings /\ LiveInv
  <1>1. setting \in AllSettings
    BY TraefikAssumption DEF Init
  <1>2. Types
    <2>1. /\ 200 \in Nat /\ 0 \in Nat /\ <<>> \in Seq(Int) /\ Len(<<>>) = 0
          /\ <<>> \in Seq([req : Requests, ans : AllAnswers])
      OBVIOUS
    <2>2. setting.buffers \subseteq Buffers
      BY <1>1 DEF AllSettings
    <2>. QED
      BY <1>1, <2>1, <2>2 DEF Init, Types
  <1>3. Exclusive
    BY DEF Init, Exclusive, Uses, Works
  <1>4. Emptied /\ FetchedWhole /\ StoredWell
    BY DEF Init, Emptied, EmptiedOf, FetchedWhole, Holds, StoredWell, Empty
  <1>. QED
    BY <1>1, <1>2, <1>3, <1>4 DEF LiveInv

LEMMA StutterKeeps ==
  ASSUME LiveInv, UNCHANGED <<setting, pc, wk, ctx, buf, mem, len, pool, status, flight, res,
                              calls, cache, mapping, update>>
  PROVE  LiveInv'
  <1>1. Types' /\ Exclusive' /\ Emptied'
    BY DEF LiveInv, Types, Exclusive, Uses, Works, Emptied, EmptiedOf
  <1>2. FetchedWhole'
    <2>. SUFFICES ASSUME NEW q \in Requests, Holds(q)'
                  PROVE  FetchedOf(q, LastCall(q))'
      BY DEF FetchedWhole
    <2>1. FetchedOf(q, LastCall(q)) /\ LastCall(q)' = LastCall(q)
      BY DEF LiveInv, FetchedWhole, LastCall, Holds
    <2>2. LastCall(q) \in DOMAIN calls
      BY <2>1 DEF FetchedOf
    <2>. QED
      BY <2>1, <2>2, KeptFetched
  <1>3. StoredWell'
    BY KeptStored DEF LiveInv
  <1>. QED
    BY <1>1, <1>2, <1>3 DEF LiveInv

LEMMA NextKeeps ==
  ASSUME setting \in AllSettings, setting.ends = {}, LiveInv, [Next]_vars
  PROVE  LiveInv'
  <1>1. ASSUME NEW r \in Requests, EndContext(r) \/ Leave(r) PROVE FALSE
    BY <1>1 DEF EndContext, Leave, LiveInv, Types
  <1>2. ASSUME NEW r \in Requests,
               \/ Bypass(r) \/ Lookup(r) \/ SendHit(r) \/ Do(r) \/ Fetch(r) \/ Abort(r)
               \/ Conclude(r) \/ SetValue(r) \/ GetMapping(r) \/ SetMapping(r)
               \/ Apply(r) \/ Receive(r)
        PROVE  LiveInv'
    BY <1>2, BypassKeeps, LookupKeeps, SendHitKeeps, DoKeeps, FetchKeeps, AbortKeeps,
       ConcludeKeeps, SetValueKeeps, GetMappingKeeps, SetMappingKeeps, ApplyKeeps, ReceiveKeeps
  <1>3. ASSUME Tick \/ Finished \/ UNCHANGED vars PROVE LiveInv'
    BY <1>3, StutterKeeps DEF Tick, Finished, vars
  <1>. QED
    BY <1>1, <1>2, <1>3 DEF Next

LEMMA SettingStays ==
  ASSUME [Next]_vars PROVE setting' = setting
  <1>1. ASSUME NEW r \in Requests, Bypass(r) \/ Lookup(r) \/ SendHit(r) \/ Do(r)
        PROVE  setting' = setting
    BY <1>1 DEF Bypass, Lookup, SendHit, Do
  <1>2. ASSUME NEW r \in Requests, Fetch(r) \/ Abort(r) PROVE setting' = setting
    BY <1>2 DEF Fetch, Abort
  <1>3. ASSUME NEW r \in Requests, Conclude(r) \/ SetValue(r) \/ GetMapping(r) \/ SetMapping(r)
        PROVE  setting' = setting
    BY <1>3 DEF Conclude, SetValue, GetMapping, SetMapping
  <1>4. ASSUME NEW r \in Requests, Apply(r) \/ Receive(r) \/ EndContext(r) \/ Leave(r)
        PROVE  setting' = setting
    BY <1>4 DEF Apply, Receive, EndContext, Leave
  <1>5. ASSUME Tick \/ Finished \/ UNCHANGED vars PROVE setting' = setting
    BY <1>5 DEF Tick, Finished, vars
  <1>. QED
    BY <1>1, <1>2, <1>3, <1>4, <1>5 DEF Next

\* The invariant of a run in which no context ends.
StoredInv == setting \in AllSettings /\ (setting.ends = {} => LiveInv)

LEMMA StoredInvariant == Spec => []StoredInv
  <1>1. Init => StoredInv
    BY InitLive DEF StoredInv
  <1>2. StoredInv /\ [Next]_vars => StoredInv'
    BY NextKeeps, SettingStays DEF StoredInv
  <1>. QED
    BY <1>1, <1>2, PTL DEF Spec

\* As long as no context ends, Store gives the storer the whole body of one
\* response, under the key and the variant of the request it answers: pooled
\* buffers and shared calls never mix two bodies
\* (plugins/traefik/override/middleware/middleware.go:327-484).
THEOREM StoredIsWhole == Spec => []StoredWhole
  <1>1. StoredInv => StoredWhole
    BY DEF StoredInv, LiveInv, StoredWell, StoredOf, StoredWhole, StoredWholeAlways
  <1>. QED
    BY <1>1, StoredInvariant, PTL

-----------------------------------------------------------------------------
(* Without coalescing, when no context ends and no answer breaks off, what a *)
(* buffer holds on its way to the client is for this client.                 *)

Outs == [code : Int, body : Seq(Int), hit : BOOLEAN]

BodyFor(r, s) == \E c \in DOMAIN calls : s = <<c>> /\ Fits(r, c)

AloneOf(r) ==
  /\ wk[r] # "join"
  /\ wk[r] \in {"mapping", "update"} => status[r] = 200
  /\ pc[r] = "hit" /\ status[r] = 200 => BodyFor(r, Bytes(buf[r]))
  /\ wk[r] = "apply" =>
       /\ res[r].from = buf[r]
       /\ pc[r] = "wait" => res[r].err = "none"
       /\ res[r].code = 200 => BodyFor(r, SubSeq(mem[buf[r]], 1, res[r].length))
  /\ wk[r] = "notify" =>
       /\ pc[r] = "wait" => res[r].err # "other"
       /\ status[r] = 200 /\ out[r].code = 0 => BodyFor(r, Bytes(buf[r]))
  /\ pc[r] # "done" =>
       /\ out[r].body = <<>> /\ out[r].code \in {0, 304, 412}
       /\ wk[r] # "notify" => out[r].code = 0
  /\ pc[r] = "done" /\ out[r].code = 200 => BodyFor(r, out[r].body)

AloneInv ==
  /\ out \in [Requests -> Outs]
  /\ \A k \in Keys : flight[k] = None
  /\ \A r \in Requests : AloneOf(r)

Undisturbed ==
  /\ setting.alone /\ setting.ends = {}
  /\ \A a \in setting.answers : a.kind # "abort"

\* What a step of request r leaves to the others.
OthersStep(r) ==
  /\ \A q \in Requests \ {r} :
       /\ pc'[q] = pc[q] /\ wk'[q] = wk[q] /\ status'[q] = status[q] /\ res'[q] = res[q]
       /\ out'[q] = out[q] /\ buf'[q] = buf[q]
       /\ Uses(q) => mem'[buf[q]] = mem[buf[q]] /\ len'[buf[q]] = len[buf[q]]
  /\ DOMAIN calls \subseteq DOMAIN calls'
  /\ \A c \in DOMAIN calls : calls'[c] = calls[c]

LEMMA KeptBody ==
  ASSUME DOMAIN calls \subseteq DOMAIN calls', \A c \in DOMAIN calls : calls'[c] = calls[c],
         NEW r, NEW s, BodyFor(r, s)
  PROVE  \E c \in DOMAIN calls' : s = <<c>> /\ Fits(r, c)'
  BY DEF BodyFor, Fits

LEMMA AloneKeeps ==
  ASSUME LiveInv, AloneInv, NEW r \in Requests, OthersStep(r), AloneOf(r)',
         out' \in [Requests -> Outs], \A k \in Keys : flight'[k] = None
  PROVE  AloneInv'
  <1>. SUFFICES ASSUME NEW q \in Requests \ {r} PROVE AloneOf(q)'
    BY DEF AloneInv
  <1>1. AloneOf(q) /\ (Works(q) => Uses(q))
    BY DEF AloneInv, LiveInv, Exclusive, Uses
  <1>2. /\ pc'[q] = pc[q] /\ wk'[q] = wk[q] /\ status'[q] = status[q] /\ res'[q] = res[q]
        /\ out'[q] = out[q] /\ buf'[q] = buf[q]
        /\ Uses(q) => mem'[buf[q]] = mem[buf[q]] /\ len'[buf[q]] = len[buf[q]]
    BY DEF OthersStep
  <1>4. pc'[q] = "hit" /\ status'[q] = 200 => BodyFor(q, Bytes(buf[q]))'
    <2>. SUFFICES ASSUME pc'[q] = "hit", status'[q] = 200 PROVE BodyFor(q, Bytes(buf[q]))'
      OBVIOUS
    <2>1. BodyFor(q, Bytes(buf[q])) /\ Uses(q)
      BY <1>1, <1>2 DEF AloneOf, Uses
    <2>2. Bytes(buf[q])' = Bytes(buf[q])
      BY <1>2, <2>1 DEF Bytes
    <2>. QED
      BY <2>1, <2>2, KeptBody DEF OthersStep, BodyFor
  <1>5. wk'[q] = "apply" =>
          /\ res'[q].from = buf'[q]
          /\ pc'[q] = "wait" => res'[q].err = "none"
          /\ res'[q].code = 200 => BodyFor(q, SubSeq(mem[buf[q]], 1, res[q].length))'
    <2>. SUFFICES ASSUME wk'[q] = "apply"
                  PROVE  /\ res'[q].from = buf'[q]
                         /\ pc'[q] = "wait" => res'[q].err = "none"
                         /\ res'[q].code = 200 =>
                              BodyFor(q, SubSeq(mem[buf[q]], 1, res[q].length))'
      OBVIOUS
    <2>1. Uses(q)
      BY <1>1, <1>2 DEF Works
    <2>2. mem'[buf'[q]] = mem[buf[q]]
      BY <1>2, <2>1
    <2>3. res[q].code = 200 => BodyFor(q, SubSeq(mem[buf[q]], 1, res[q].length))
      BY <1>1, <1>2 DEF AloneOf
    <2>4. res'[q].code = 200 => BodyFor(q, SubSeq(mem[buf[q]], 1, res[q].length))'
      BY <1>2, <2>2, <2>3, KeptBody DEF OthersStep, BodyFor
    <2>. QED
      BY <1>1, <1>2, <2>4 DEF AloneOf
  <1>6. wk'[q] = "notify" =>
          /\ pc'[q] = "wait" => res'[q].err # "other"
          /\ status'[q] = 200 /\ out'[q].code = 0 => BodyFor(q, Bytes(buf[q]))'
    <2>. SUFFICES ASSUME wk'[q] = "notify"
                  PROVE  /\ pc'[q] = "wait" => res'[q].err # "other"
                         /\ status'[q] = 200 /\ out'[q].code = 0 => BodyFor(q, Bytes(buf[q]))'
      OBVIOUS
    <2>1. Uses(q)
      BY <1>1, <1>2 DEF Works
    <2>2. Bytes(buf[q])' = Bytes(buf[q])
      BY <1>2, <2>1 DEF Bytes
    <2>3. status[q] = 200 /\ out[q].code = 0 => BodyFor(q, Bytes(buf[q]))
      BY <1>1, <1>2 DEF AloneOf
    <2>4. status'[q] = 200 /\ out'[q].code = 0 => BodyFor(q, Bytes(buf[q]))'
      BY <1>2, <2>2, <2>3, KeptBody DEF OthersStep, BodyFor
    <2>. QED
      BY <1>1, <1>2, <2>4 DEF AloneOf
  <1>7. pc'[q] = "done" /\ out'[q].code = 200 => BodyFor(q, out[q].body)'
    <2>1. pc[q] = "done" /\ out[q].code = 200 => BodyFor(q, out[q].body)
      BY <1>1 DEF AloneOf
    <2>2. pc'[q] = "done" /\ out'[q].code = 200 => BodyFor(q, out[q].body)
      BY <1>2, <2>1
    <2>3. PICK s : s = out[q].body
      OBVIOUS
    <2>4. BodyFor(q, s) => BodyFor(q, s)'
      BY KeptBody DEF OthersStep, BodyFor
    <2>5. out'[q].body = s
      BY <1>2, <2>3
    <2>. QED
      BY <2>2, <2>3, <2>4, <2>5 DEF BodyFor
  <1>8. /\ wk'[q] # "join"
        /\ wk'[q] \in {"mapping", "update"} => status'[q] = 200
        /\ pc'[q] # "done" =>
             /\ out'[q].body = <<>> /\ out'[q].code \in {0, 304, 412}
             /\ wk'[q] # "notify" => out'[q].code = 0
    BY <1>1, <1>2 DEF AloneOf
  <1>. QED
    BY <1>4, <1>5, <1>6, <1>7, <1>8 DEF AloneOf

\* A request is alone with its call.
LEMMA PartyAlone ==
  ASSUME AloneInv, NEW r \in Requests
  PROVE  Party(r) = {r}
  <1>1. flight[KeyOf[r]] = None /\ None # r
    BY TraefikAssumption DEF AloneInv
  <1>. QED
    BY <1>1 DEF Party

\* A step that writes to no buffer but that of r.
LEMMA OthersMemory ==
  ASSUME LiveInv, NEW r \in Requests, Uses(r), MemoryStep(buf[r]),
         NEW q \in Requests \ {r}, Uses(q)
  PROVE  mem'[buf[q]] = mem[buf[q]] /\ len'[buf[q]] = len[buf[q]]
  <1>1. buf[q] \in Buffers \ {buf[r]}
    BY DEF LiveInv, Exclusive
  <1>. QED
    BY <1>1 DEF MemoryStep

LEMMA BypassAlone ==
  ASSUME LiveInv, AloneInv, setting \in AllSettings, NEW r \in Requests, Bypass(r)
  PROVE  AloneInv'
  <1>0. PICK n : n = Len(calls) + 1
    OBVIOUS
  <1>1. PICK ans \in AllAnswers :
          /\ ans.kind \in {"ok", "error50x"} /\ Answered(r, ans)
          /\ out' = [out EXCEPT ![r] = [code |-> IF ans.kind = "ok" THEN 200 ELSE 500,
                                        body |-> <<n>>, hit |-> FALSE]]
    BY <1>0 DEF Bypass, AllSettings
  <1>2. /\ pc[r] = "new" /\ pc' = [pc EXCEPT ![r] = "done"]
        /\ UNCHANGED <<wk, buf, mem, len, status, flight, res>>
    BY DEF Bypass
  <1>3. /\ DOMAIN calls \subseteq DOMAIN calls'
        /\ \A c \in DOMAIN calls : calls'[c] = calls[c]
        /\ n \in DOMAIN calls' /\ calls'[n] = [req |-> r, ans |-> ans]
    BY <1>0, <1>1, FurtherCall DEF LiveInv, Types
  <1>4. n \in Int
    BY <1>0 DEF LiveInv, Types
  <1>5. PICK o : o = [code |-> IF ans.kind = "ok" THEN 200 ELSE 500,
                      body |-> <<n>>, hit |-> FALSE]
    OBVIOUS
  <1>6. o \in Outs /\ o.body = <<n>>
    <2>1. <<n>> \in Seq(Int) /\ (IF ans.kind = "ok" THEN 200 ELSE 500) \in Int
      BY <1>4
    <2>. QED
      BY <1>5, <2>1 DEF Outs
  <1>7. out' \in [Requests -> Outs] /\ out'[r] = o /\ \A q \in Requests \ {r} : out'[q] = out[q]
    BY <1>1, <1>5, <1>6 DEF AloneInv
  <1>8. OthersStep(r)
    BY <1>2, <1>3, <1>7 DEF OthersStep, LiveInv, Types
  <1>9. Fits(r, n)'
    BY <1>3 DEF Fits
  <1>10. AloneOf(r)'
    <2>1. pc'[r] = "done" /\ ~Works(r) /\ wk'[r] = wk[r]
      BY <1>2 DEF LiveInv, Types, Exclusive
    <2>2. BodyFor(r, out[r].body)'
      BY <1>3, <1>6, <1>7, <1>9 DEF BodyFor
    <2>3. wk'[r] \in {"off", "end"}
      BY <2>1 DEF Works
    <2>. QED
      BY <2>1, <2>2, <2>3 DEF AloneOf
  <1>. QED
    BY <1>2, <1>7, <1>8, <1>10, AloneKeeps DEF AloneInv

\* What a hit reads is the body of a response for the request.
LEMMA ElectedFits ==
  ASSUME LiveInv, NEW r \in Requests, NEW e \in Elected(r) \ {None}
  PROVE  BodyFor(r, Get(e))
  <1>1. /\ e \in DOMAIN mapping[KeyOf[r]] /\ Get(e) # <<>>
        /\ e.vary => e.variant = VariantOf[r]
    BY DEF Elected, Matching
  <1>2. e.key = KeyOf[r] /\ e \in DOMAIN cache /\ Get(e) = cache[e].body
    BY <1>1, TraefikAssumption DEF LiveInv, StoredWell, Get
  <1>5. PICK c \in DOMAIN calls : StoredOf(e, c)
    BY <1>2 DEF LiveInv, StoredWell
  <1>3. Get(e) = <<c>>
    BY <1>2, <1>5 DEF StoredOf
  <1>4. Fits(r, c)
    BY <1>1, <1>2, <1>5 DEF Fits, StoredOf
  <1>. QED
    BY <1>3, <1>4 DEF BodyFor

LEMMA LookupAlone ==
  ASSUME LiveInv, AloneInv, NEW r \in Requests, Lookup(r)
  PROVE  AloneInv'
  <1>1. PICK b \in pool, s \in Seq(Int) :
          /\ pool' = pool \ {b} /\ buf' = [buf EXCEPT ![r] = b] /\ Write(b, 0, s)
          /\ \/ /\ pc' = [pc EXCEPT ![r] = "hit"] /\ wk' = wk
                /\ \/ status' = [status EXCEPT ![r] = 304]
                   \/ status' = status /\ \E e \in Elected(r) \ {None} : s = Get(e)
             \/ /\ pc' = [pc EXCEPT ![r] = "own"] \/ pc' = [pc EXCEPT ![r] = "wait"]
                /\ wk' = [wk EXCEPT ![r] = "do"] /\ s = <<>> /\ status' = status
    BY LookupEffect
  <1>2. pc[r] = "new" /\ UNCHANGED <<flight, res, calls, out>>
    BY DEF Lookup
  <1>3. /\ b \in Buffers /\ Bytes(b)' = s
        /\ \A d \in Buffers \ {b} : mem'[d] = mem[d] /\ len'[d] = len[d]
    BY <1>1, WrittenAtStart DEF LiveInv, Types
  <1>4. /\ buf'[r] = b /\ \A q \in Requests \ {r} : buf'[q] = buf[q]
        /\ \A q \in Requests \ {r} : wk'[q] = wk[q] /\ pc'[q] = pc[q] /\ status'[q] = status[q]
    BY <1>1 DEF LiveInv, Types
  <1>5. \A q \in Requests \ {r} : Uses(q) => buf[q] \in Buffers \ {b}
    BY <1>1 DEF LiveInv, Exclusive
  <1>6. OthersStep(r)
    BY <1>2, <1>3, <1>4, <1>5 DEF OthersStep
  <1>7. AloneOf(r)'
    <2>1. wk[r] \in {"off", "end"} /\ out'[r].body = <<>> /\ out'[r].code = 0
      <3>1. ~Works(r) /\ wk[r] \in Places
        BY <1>2 DEF LiveInv, Types, Exclusive
      <3>2. wk[r] \in {"off", "end"}
        BY <3>1 DEF Works
      <3>3. AloneOf(r)
        BY DEF AloneInv
      <3>. QED
        BY <1>2, <3>2, <3>3 DEF AloneOf
    <2>2. CASE pc' = [pc EXCEPT ![r] = "hit"] /\ wk' = wk
      <3>1. pc'[r] = "hit" /\ wk'[r] \in {"off", "end"}
        BY <2>1, <2>2 DEF LiveInv, Types
      <3>2. ASSUME status'[r] = 200 PROVE BodyFor(r, Bytes(buf[r]))'
        <4>1. status' # [status EXCEPT ![r] = 304]
          BY <3>2 DEF LiveInv, Types
        <4>2. PICK e \in Elected(r) \ {None} : s = Get(e)
          BY <1>1, <2>2, <4>1 DEF LiveInv, Types
        <4>3. BodyFor(r, s)
          BY <4>2, ElectedFits
        <4>4. BodyFor(r, s)'
          BY <1>2, <4>3 DEF BodyFor, Fits
        <4>5. Bytes(buf[r])' = s
          BY <1>3, <1>4 DEF Bytes
        <4>. QED
          BY <4>4, <4>5 DEF BodyFor
      <3>. QED
        BY <2>1, <3>1, <3>2 DEF AloneOf
    <2>3. CASE /\ pc' = [pc EXCEPT ![r] = "own"] \/ pc' = [pc EXCEPT ![r] = "wait"]
               /\ wk' = [wk EXCEPT ![r] = "do"]
      <3>1. pc'[r] \in {"own", "wait"} /\ wk'[r] = "do"
        BY <2>3 DEF LiveInv, Types
      <3>. QED
        BY <2>1, <3>1 DEF AloneOf
    <2>. QED
      BY <1>1, <2>2, <2>3
  <1>. QED
    BY <1>2, <1>6, <1>7, AloneKeeps DEF AloneInv

\* What a handler sends is what its buffer holds.
LEMMA SendAlone ==
  ASSUME LiveInv, AloneInv, NEW r \in Requests, Uses(r), NEW hit \in BOOLEAN, Send(r, hit),
         status[r] = 200 /\ out[r].code = 0 => BodyFor(r, Bytes(buf[r])),
         pc' = [pc EXCEPT ![r] = "done"], wk'[r] \in {"off", "end"},
         \A q \in Requests \ {r} : wk'[q] = wk[q],
         UNCHANGED <<buf, status, flight, res, calls>>
  PROVE  AloneInv'
  <1>1. buf[r] \in Buffers /\ pc[r] # "done"
    BY DEF LiveInv, Exclusive, Uses
  <1>2. /\ status[r] = 200 /\ out[r].code = 0 => BodyFor(r, Bytes(buf[r]))
        /\ out[r].body = <<>> /\ out[r].code \in {0, 304, 412} /\ out[r] \in Outs
    BY <1>1 DEF AloneInv, AloneOf
  <1>3. /\ out' = [out EXCEPT ![r] = [code |-> FirstCode(r, status[r]),
                                      body |-> @.body \o Bytes(buf[r]), hit |-> hit]]
        /\ len' = [len EXCEPT ![buf[r]] = 0] /\ mem' = mem
    BY DEF Send, LiveInv, Types
  <1>4. PICK s : s = Bytes(buf[r])
    OBVIOUS
  <1>5. s \in Seq(Int) /\ status[r] \in Int
    <2>1. mem[buf[r]] \in Seq(Int) /\ len[buf[r]] \in Nat /\ len[buf[r]] <= Len(mem[buf[r]])
      BY <1>1 DEF LiveInv, Types
    <2>. QED
      BY <1>4, <2>1, SliceOf DEF Bytes, LiveInv, Types
  <1>6. PICK k : k = FirstCode(r, status[r])
    OBVIOUS
  <1>7. k \in Int /\ (k = 200 => status[r] = 200 /\ out[r].code = 0)
    BY <1>2, <1>5, <1>6 DEF FirstCode
  <1>8. /\ out'[r] = [code |-> k, body |-> out[r].body \o s, hit |-> hit]
        /\ DOMAIN out' = Requests /\ \A q \in Requests \ {r} : out'[q] = out[q]
        /\ out' = [q \in Requests |-> out'[q]]
    <2>1. out = [q \in Requests |-> out[q]] /\ DOMAIN out = Requests
      BY DEF AloneInv
    <2>. QED
      BY <1>3, <1>4, <1>6, <2>1
  <1>9. out[r].body \o s = s
    BY <1>2, <1>5
  <1>10. /\ out'[r].code = k /\ out'[r].body = s
         /\ out'[r] \in Outs
    BY <1>2, <1>5, <1>7, <1>8, <1>9 DEF Outs
  <1>11. out' \in [Requests -> Outs]
    <2>1. \A q \in Requests : out'[q] \in Outs
      BY <1>8, <1>10 DEF AloneInv
    <2>. QED
      BY <1>8, <2>1
  <1>12. MemoryStep(buf[r])
    BY <1>1, <1>3, EmptiedBuffer DEF MemoryStep, LiveInv, Types
  <1>13. OthersStep(r)
    <2>1. \A q \in Requests \ {r} : Uses(q) => mem'[buf[q]] = mem[buf[q]] /\ len'[buf[q]] = len[buf[q]]
      BY <1>1, <1>12, OthersMemory
    <2>. QED
      BY <1>1, <1>8, <2>1 DEF OthersStep, LiveInv, Types
  <1>14. AloneOf(r)'
    <2>1. pc'[r] = "done" /\ wk'[r] \in {"off", "end"}
      BY DEF LiveInv, Types
    <2>2. ASSUME out'[r].code = 200 PROVE BodyFor(r, out[r].body)'
      <3>1. BodyFor(r, s)
        BY <1>2, <1>4, <1>7, <1>10, <2>2
      <3>2. out'[r].body = s
        BY <1>10
      <3>. QED
        BY <1>1, <3>1, <3>2 DEF BodyFor, Fits
    <2>. QED
      BY <2>1, <2>2 DEF AloneOf
  <1>. QED
    BY <1>1, <1>11, <1>13, <1>14, AloneKeeps DEF AloneInv

LEMMA SendHitAlone ==
  ASSUME LiveInv, AloneInv, NEW r \in Requests, SendHit(r)
  PROVE  AloneInv'
  <1>1. /\ pc[r] = "hit" /\ Uses(r) /\ ~Works(r) /\ Send(r, TRUE)
        /\ pc' = [pc EXCEPT ![r] = "done"] /\ wk' = wk
        /\ UNCHANGED <<buf, status, flight, res, calls>>
    BY DEF SendHit, Return, LiveInv, Exclusive, Uses
  <1>2. status[r] = 200 => BodyFor(r, Bytes(buf[r]))
    BY <1>1 DEF AloneInv, AloneOf
  <1>3. wk'[r] \in {"off", "end"}
    BY <1>1 DEF Works
  <1>. QED
    BY <1>1, <1>2, <1>3, SendAlone

LEMMA DoAlone ==
  ASSUME LiveInv, AloneInv, setting.alone, NEW r \in Requests, Do(r)
  PROVE  AloneInv'
  <1>1. /\ wk[r] = "do" /\ wk' = [wk EXCEPT ![r] = "fetch"]
        /\ UNCHANGED <<pc, buf, mem, len, status, flight, res, calls, out>>
    BY DEF Do, Alone
  <1>2. OthersStep(r)
    BY <1>1 DEF OthersStep, LiveInv, Types
  <1>3. wk'[r] = "fetch" /\ pc[r] \in {"wait", "own"}
    BY <1>1 DEF LiveInv, Types, Exclusive, Works
  <1>4. AloneOf(r)
    BY DEF AloneInv
  <1>5. AloneOf(r)'
    BY <1>1, <1>3, <1>4 DEF AloneOf
  <1>. QED
    BY <1>1, <1>2, <1>5, AloneKeeps DEF AloneInv

LEMMA FetchAlone ==
  ASSUME LiveInv, AloneInv, setting \in AllSettings, NEW r \in Requests, Fetch(r)
  PROVE  AloneInv'
  <1>1. /\ wk[r] = "fetch" /\ Works(r) /\ Uses(r) /\ buf[r] \in Buffers /\ len[buf[r]] = 0
        /\ wk' = [wk EXCEPT ![r] = "fetched"]
        /\ UNCHANGED <<pc, buf, flight, res, out>>
    BY DEF Fetch, Works, LiveInv, Exclusive, Uses, Emptied, EmptiedOf
  <1>2. PICK ans \in AllAnswers, s \in Seq(Int) :
          /\ Answered(r, ans) /\ Write(buf[r], 0, s)
          /\ status' = [status EXCEPT ![r] = CodeOf(ans)]
    <2>1. PICK ans \in AllAnswers :
            /\ Answered(r, ans)
            /\ Write(buf[r], 0, IF ans.kind = "notModified" THEN <<>> ELSE <<Len(calls) + 1>>)
            /\ status' = [status EXCEPT ![r] = CodeOf(ans)]
      BY <1>1 DEF Fetch, AllSettings, Codes, LiveInv, Types
    <2>2. Len(calls) + 1 \in Int
      BY DEF LiveInv, Types
    <2>3. (IF ans.kind = "notModified" THEN <<>> ELSE <<Len(calls) + 1>>) \in Seq(Int)
      BY <2>2
    <2>. QED
      BY <2>1, <2>3, Zenon
  <1>3. /\ DOMAIN calls \subseteq DOMAIN calls'
        /\ \A c \in DOMAIN calls : calls'[c] = calls[c]
    BY <1>2, FurtherCall DEF LiveInv, Types
  <1>4. MemoryStep(buf[r])
    BY <1>1, <1>2, WrittenAtStart DEF MemoryStep, LiveInv, Types
  <1>5. OthersStep(r)
    <2>1. \A q \in Requests \ {r} : Uses(q) => mem'[buf[q]] = mem[buf[q]] /\ len'[buf[q]] = len[buf[q]]
      BY <1>1, <1>4, OthersMemory
    <2>. QED
      BY <1>1, <1>2, <1>3, <2>1 DEF OthersStep, LiveInv, Types
  <1>6. wk'[r] = "fetched" /\ pc[r] \in {"wait", "own"} /\ AloneOf(r)
    BY <1>1 DEF LiveInv, Types, Exclusive, AloneInv
  <1>7. AloneOf(r)'
    BY <1>1, <1>6 DEF AloneOf
  <1>. QED
    BY <1>1, <1>5, <1>7, AloneKeeps DEF AloneInv

LEMMA ApplyAlone ==
  ASSUME LiveInv, AloneInv, NEW r \in Requests, Apply(r)
  PROVE  AloneInv'
  <1>1. /\ wk[r] = "apply" /\ Works(r) /\ Uses(r) /\ buf[r] \in Buffers /\ len[buf[r]] = 0
        /\ pc[r] \in {"wait", "own"}
        /\ UNCHANGED <<pc, buf, flight, res, calls, out>>
        /\ res[r].length \in Nat /\ res[r].length <= Len(mem[buf[r]])
        /\ res[r].from = buf[r]
        /\ pc[r] = "wait" => res[r].err = "none"
        /\ res[r].code = 200 => BodyFor(r, SubSeq(mem[buf[r]], 1, res[r].length))
        /\ out[r].body = <<>> /\ out[r].code = 0
    <2>1. /\ wk[r] = "apply" /\ Works(r) /\ UNCHANGED <<pc, buf, flight, res, calls, out>>
      BY DEF Apply, Works
    <2>2. pc[r] \in {"wait", "own"} /\ Uses(r) /\ buf[r] \in Buffers
      BY <2>1 DEF LiveInv, Exclusive, Uses
    <2>3. AloneOf(r) /\ EmptiedOf(r)
      BY DEF LiveInv, Emptied, AloneInv
    <2>. QED
      BY <2>1, <2>2, <2>3 DEF AloneOf, EmptiedOf
  <1>2. PICK s : s = SubSeq(mem[buf[r]], 1, res[r].length)
    OBVIOUS
  <1>3. s \in Seq(Int)
    BY <1>1, <1>2, SliceOf DEF LiveInv, Types
  <1>4. \/ wk' = [wk EXCEPT ![r] = "do"] /\ UNCHANGED <<mem, len, status>>
        \/ /\ wk' = [wk EXCEPT ![r] = "notify"]
           /\ Write(buf[r], 0, s) /\ status' = [status EXCEPT ![r] = res[r].code]
    BY <1>1, <1>2 DEF Apply, Revalidates, Codes, LiveInv, Types
  <1>5. MemoryStep(buf[r])
    <2>1. CASE UNCHANGED <<mem, len>>
      BY <2>1, NoWrite DEF LiveInv
    <2>2. CASE Write(buf[r], 0, s)
      BY <1>1, <1>3, <2>2, WrittenAtStart DEF LiveInv, Types, MemoryStep
    <2>. QED
      BY <1>4, <2>1, <2>2
  <1>6. OthersStep(r)
    <2>1. \A q \in Requests \ {r} : Uses(q) => mem'[buf[q]] = mem[buf[q]] /\ len'[buf[q]] = len[buf[q]]
      BY <1>1, <1>5, OthersMemory
    <2>2. \A q \in Requests \ {r} : wk'[q] = wk[q] /\ status'[q] = status[q]
      BY <1>4 DEF LiveInv, Types
    <2>. QED
      BY <1>1, <2>1, <2>2 DEF OthersStep
  <1>7. AloneOf(r)'
    <2>1. CASE wk' = [wk EXCEPT ![r] = "do"]
      <3>1. wk'[r] = "do"
        BY <2>1 DEF LiveInv, Types
      <3>. QED
        BY <1>1, <3>1 DEF AloneOf
    <2>2. CASE /\ wk' = [wk EXCEPT ![r] = "notify"]
               /\ Write(buf[r], 0, s) /\ status' = [status EXCEPT ![r] = res[r].code]
      <3>1. wk'[r] = "notify" /\ status'[r] = res[r].code
        BY <2>2 DEF LiveInv, Types
      <3>2. Bytes(buf[r])' = s
        BY <1>1, <1>3, <2>2, WrittenAtStart DEF LiveInv, Types
      <3>3. ASSUME status'[r] = 200 PROVE BodyFor(r, Bytes(buf[r]))'
        <4>1. BodyFor(r, s)
          BY <1>1, <1>2, <3>1, <3>3
        <4>. QED
          BY <1>1, <3>2, <4>1 DEF BodyFor, Fits
      <3>. QED
        BY <1>1, <3>1, <3>3 DEF AloneOf
    <2>. QED
      BY <1>4, <2>1, <2>2
  <1>. QED
    BY <1>1, <1>6, <1>7, AloneKeeps DEF AloneInv

LEMMA LandingAlone ==
  ASSUME LiveInv, AloneInv, NEW r \in Requests, wk[r] \in {"fetched", "update"},
         UNCHANGED <<pc, buf, mem, status, calls>>, NEW v,
         \/ /\ Condition(r, LastAnswer(r)) # 0 /\ Land(r, v, "notify")
            /\ out' = [out EXCEPT ![r].code = FirstCode(r, Condition(r, LastAnswer(r)))]
            /\ len' = [len EXCEPT ![buf[r]] = 0]
         \/ /\ status[r] >= 500 /\ Land(r, v, "notify") /\ v.err = "50x"
            /\ UNCHANGED <<out, len>>
         \/ /\ status[r] >= 500 => Revalidates(r)
            /\ Land(r, v, "apply") /\ v = Value(r, LastAnswer(r))
            /\ len' = [len EXCEPT ![buf[r]] = 0] /\ UNCHANGED out
  PROVE  AloneInv'
  <1>1. /\ Works(r) /\ Holds(r) /\ Uses(r) /\ buf[r] \in Buffers
        /\ pc[r] \in {"wait", "own"}
    BY DEF Works, Holds, LiveInv, Exclusive, Uses
  <1>2. PICK c : c = LastCall(r)
    OBVIOUS
  <1>3. PICK ans : ans = calls[c].ans
    OBVIOUS
  <1>4. /\ c \in DOMAIN calls /\ calls[c].req = r /\ ans \in AllAnswers
        /\ ans.kind # "abort" /\ status[r] = CodeOf(ans)
        /\ ans.kind = "ok" => BodyFor(r, Bytes(buf[r]))
    <2>1. FetchedOf(r, c)
      BY <1>1, <1>2 DEF LiveInv, FetchedWhole
    <2>2. Fits(r, c)
      BY <2>1 DEF FetchedOf, Fits
    <2>3. calls[c] \in [req : Requests, ans : AllAnswers]
      <3>1. c \in DOMAIN calls /\ calls \in Seq([req : Requests, ans : AllAnswers])
        BY <2>1 DEF FetchedOf, LiveInv, Types
      <3>2. DOMAIN calls = 1..Len(calls)
        BY <3>1
      <3>. QED
        BY <3>1, <3>2, ElementOfSeq
    <2>4. ans.kind = "ok" => Bytes(buf[r]) = <<c>>
      BY <1>3, <2>1 DEF FetchedOf
    <2>. QED
      BY <1>3, <2>1, <2>2, <2>3, <2>4 DEF FetchedOf, BodyFor
  <1>5. /\ status[r] = 200 => ans.kind = "ok"
        /\ status[r] >= 500 => status[r] = 500
    BY <1>4 DEF CodeOf, AllAnswers
  <1>6. out[r].body = <<>> /\ out[r].code = 0 /\ out[r] \in Outs
    BY <1>1 DEF AloneInv, AloneOf
  <1>7. Party(r) = {r}
    BY PartyAlone
  <1>8. \/ /\ Condition(r, ans) # 0 /\ Land(r, v, "notify")
           /\ out' = [out EXCEPT ![r].code = FirstCode(r, Condition(r, ans))]
           /\ len' = [len EXCEPT ![buf[r]] = 0]
        \/ /\ status[r] >= 500 /\ Land(r, v, "notify") /\ v.err = "50x"
           /\ UNCHANGED <<out, len>>
        \/ /\ status[r] >= 500 => Revalidates(r)
           /\ Land(r, v, "apply") /\ v = Value(r, ans)
           /\ len' = [len EXCEPT ![buf[r]] = 0] /\ UNCHANGED out
    BY <1>2, <1>3 DEF LastAnswer, LastCall
  <1>9. /\ wk'[r] \in {"notify", "apply"} /\ res'[r] = v
        /\ \A q \in Requests \ {r} : wk'[q] = wk[q] /\ res'[q] = res[q]
        /\ \A k \in Keys : flight'[k] = None
    <2>1. \A k \in Keys : flight'[k] = None
      BY <1>8, TraefikAssumption DEF Land, AloneInv, LiveInv, Types
    <2>2. CASE Land(r, v, "notify")
      BY <1>7, <2>1, <2>2, Landed DEF LiveInv
    <2>3. CASE Land(r, v, "apply")
      BY <1>7, <2>1, <2>3, Landed DEF LiveInv
    <2>. QED
      BY <1>8, <2>2, <2>3
  <1>10. MemoryStep(buf[r])
    <2>1. CASE len' = len
      BY <1>1, <2>1, NoWrite DEF LiveInv
    <2>2. CASE len' = [len EXCEPT ![buf[r]] = 0]
      BY <1>1, <2>2, EmptiedBuffer DEF LiveInv, Types, MemoryStep
    <2>. QED
      BY <1>8, <2>1, <2>2
  <1>11. /\ out' \in [Requests -> Outs] /\ \A q \in Requests \ {r} : out'[q] = out[q]
         /\ out'[r].body = <<>>
         /\ UNCHANGED out => out'[r].code = 0
         /\ Condition(r, ans) # 0 /\ out' = [out EXCEPT ![r].code = FirstCode(r, Condition(r, ans))]
              => out'[r].code \in {304, 412} /\ pc[r] = "own"
    <2>1. CASE UNCHANGED out
      <3>1. out[r].code = 0 /\ out'[r] = out[r]
        BY <1>6, <2>1
      <3>2. ~(Condition(r, ans) # 0
              /\ out' = [out EXCEPT ![r].code = FirstCode(r, Condition(r, ans))])
        <4>1. ASSUME Condition(r, ans) # 0 PROVE FirstCode(r, Condition(r, ans)) # 0
          BY <1>6, <4>1 DEF FirstCode
        <4>. QED
          BY <3>1, <4>1 DEF AloneInv, Outs
      <3>. QED
        BY <1>6, <2>1, <3>1, <3>2 DEF AloneInv
    <2>2. CASE /\ Condition(r, ans) # 0
               /\ out' = [out EXCEPT ![r].code = FirstCode(r, Condition(r, ans))]
      <3>1. FirstCode(r, Condition(r, ans)) \in {304, 412} /\ pc[r] = "own"
        BY <1>6, <2>2 DEF FirstCode, Condition, Revalidates
      <3>2. PICK k : k = FirstCode(r, Condition(r, ans))
        OBVIOUS
      <3>3. k \in Int /\ k \in {304, 412} /\ out' = [out EXCEPT ![r].code = k]
        BY <2>2, <3>1, <3>2
      <3>4. PICK o : o = [out[r] EXCEPT !.code = k]
        OBVIOUS
      <3>5. o \in Outs /\ o.body = <<>> /\ o.code = k
        BY <1>6, <3>3, <3>4 DEF Outs
      <3>6. out' = [out EXCEPT ![r] = o]
        BY <3>3, <3>4
      <3>7. /\ out' \in [Requests -> Outs] /\ \A q \in Requests \ {r} : out'[q] = out[q]
            /\ out'[r] = o
        BY <3>5, <3>6 DEF AloneInv
      <3>8. out' # out
        BY <1>6, <3>3, <3>5, <3>7
      <3>. QED
        BY <3>1, <3>3, <3>5, <3>7, <3>8
    <2>. QED
      BY <1>8, <2>1, <2>2
  <1>12. OthersStep(r)
    <2>1. \A q \in Requests \ {r} : Uses(q) => mem'[buf[q]] = mem[buf[q]] /\ len'[buf[q]] = len[buf[q]]
      BY <1>1, <1>10, OthersMemory
    <2>. QED
      BY <1>1, <1>9, <1>11, <2>1 DEF OthersStep
  <1>13. AloneOf(r)'
    <2>1. CASE /\ Condition(r, ans) # 0 /\ Land(r, v, "notify")
               /\ out' = [out EXCEPT ![r].code = FirstCode(r, Condition(r, ans))]
      <3>1. wk'[r] = "notify"
        BY <1>7, <2>1, Landed DEF LiveInv
      <3>. QED
        BY <1>1, <1>11, <2>1, <3>1 DEF AloneOf
    <2>2. CASE /\ status[r] >= 500 /\ Land(r, v, "notify") /\ v.err = "50x"
               /\ UNCHANGED <<out, len>>
      <3>1. wk'[r] = "notify" /\ status'[r] = 500 /\ res'[r].err = "50x"
        BY <1>1, <1>4, <1>5, <1>7, <1>9, <2>2, Landed DEF LiveInv
      <3>. QED
        BY <1>1, <1>6, <2>2, <3>1 DEF AloneOf
    <2>3. CASE /\ status[r] >= 500 => Revalidates(r)
               /\ Land(r, v, "apply") /\ v = Value(r, ans) /\ UNCHANGED out
      <3>1. wk'[r] = "apply"
        BY <1>7, <2>3, Landed DEF LiveInv
      <3>2. /\ v.from = buf[r] /\ v.length = len[buf[r]] /\ v.code = status[r]
            /\ pc[r] = "wait" => v.err = "none"
        BY <2>3 DEF Value, Revalidates
      <3>3. ASSUME res'[r].code = 200
            PROVE  BodyFor(r, SubSeq(mem[buf[r]], 1, res[r].length))'
        <4>1. BodyFor(r, SubSeq(mem[buf[r]], 1, v.length))
          BY <1>4, <1>5, <1>9, <3>2, <3>3 DEF Bytes
        <4>. QED
          BY <1>1, <1>9, <4>1 DEF BodyFor, Fits
      <3>. QED
        BY <1>1, <1>6, <1>9, <2>3, <3>1, <3>2, <3>3 DEF AloneOf
    <2>. QED
      BY <1>8, <2>1, <2>2, <2>3
  <1>. QED
    BY <1>9, <1>11, <1>12, <1>13, AloneKeeps

LEMMA ConcludeAlone ==
  ASSUME LiveInv, AloneInv, NEW r \in Requests, Conclude(r)
  PROVE  AloneInv'
  <1>1. wk[r] = "fetched" /\ UNCHANGED <<pc, buf, mem, status, calls>>
    BY DEF Conclude
  <1>2. \E v :
          \/ /\ Condition(r, LastAnswer(r)) # 0 /\ Land(r, v, "notify")
             /\ out' = [out EXCEPT ![r].code = FirstCode(r, Condition(r, LastAnswer(r)))]
             /\ len' = [len EXCEPT ![buf[r]] = 0]
          \/ /\ status[r] >= 500 /\ Land(r, v, "notify") /\ v.err = "50x"
             /\ UNCHANGED <<out, len>>
          \/ /\ status[r] >= 500 => Revalidates(r)
             /\ Land(r, v, "apply") /\ v = Value(r, LastAnswer(r))
             /\ len' = [len EXCEPT ![buf[r]] = 0] /\ UNCHANGED out
    BY DEF Conclude, Error
  <1>. QED
    BY <1>1, <1>2, LandingAlone

LEMMA StoringAlone ==
  ASSUME LiveInv, AloneInv, NEW r \in Requests, SetValue(r) \/ GetMapping(r)
  PROVE  AloneInv'
  <1>1. /\ Works(r)
        /\ wk' = [wk EXCEPT ![r] = "mapping"] \/ wk' = [wk EXCEPT ![r] = "update"]
        /\ UNCHANGED <<pc, buf, mem, len, status, flight, res, calls, out>>
    BY DEF SetValue, GetMapping, Works
  <1>2. /\ wk'[r] \in {"mapping", "update"} /\ pc[r] \in {"wait", "own"}
        /\ \A q \in Requests \ {r} : wk'[q] = wk[q]
    <2>0. DOMAIN wk = Requests
      BY DEF LiveInv, Types
    <2>1. DOMAIN wk = Requests /\ pc[r] \in {"wait", "own"}
      BY <1>1, <2>0 DEF LiveInv, Exclusive
    <2>2. CASE wk' = [wk EXCEPT ![r] = "mapping"]
      BY <2>1, <2>2
    <2>3. CASE wk' = [wk EXCEPT ![r] = "update"]
      BY <2>1, <2>3
    <2>. QED
      BY <1>1, <2>1, <2>2, <2>3
  <1>3. OthersStep(r)
    BY <1>1, <1>2 DEF OthersStep
  <1>4. wk[r] # "notify" /\ AloneOf(r) /\ status[r] = 200
    <2>1. AloneOf(r)
      BY DEF AloneInv
    <2>2. CASE SetValue(r)
      BY <2>1, <2>2 DEF SetValue, MayStore
    <2>3. CASE GetMapping(r)
      BY <2>1, <2>3 DEF GetMapping, AloneOf
    <2>. QED
      BY <2>1, <2>2, <2>3
  <1>5. AloneOf(r)'
    BY <1>1, <1>2, <1>4 DEF AloneOf
  <1>. QED
    BY <1>1, <1>3, <1>5, AloneKeeps DEF AloneInv

LEMMA SetMappingAlone ==
  ASSUME LiveInv, AloneInv, NEW r \in Requests, SetMapping(r)
  PROVE  AloneInv'
  <1>1. /\ wk[r] = "update" /\ Land(r, Value(r, LastAnswer(r)), "apply")
        /\ len' = [len EXCEPT ![buf[r]] = 0]
        /\ UNCHANGED <<pc, buf, mem, status, calls, out>>
    BY DEF SetMapping
  <1>2. ~(status[r] >= 500)
    <2>1. status[r] = 200
      BY <1>1 DEF AloneInv, AloneOf
    <2>. QED
      BY <2>1
  <1>3. PICK v : v = Value(r, LastAnswer(r))
    OBVIOUS
  <1>. QED
    BY <1>1, <1>2, <1>3, LandingAlone

LEMMA ReceiveAlone ==
  ASSUME LiveInv, AloneInv, NEW r \in Requests, Receive(r)
  PROVE  AloneInv'
  <1>1. /\ wk[r] = "notify" /\ Uses(r) /\ pc[r] \in {"wait", "own"}
        /\ pc' = [pc EXCEPT ![r] = "done"] /\ wk' = [wk EXCEPT ![r] = "end"]
        /\ UNCHANGED <<buf, status, flight, res, calls>>
    BY DEF Receive, Return, Uses
  <1>2. /\ pc[r] = "wait" => res[r].err # "other"
        /\ status[r] = 200 /\ out[r].code = 0 => BodyFor(r, Bytes(buf[r]))
    BY <1>1 DEF AloneInv, AloneOf
  <1>3. Send(r, FALSE)
    BY <1>1, <1>2 DEF Receive
  <1>4. wk'[r] \in {"off", "end"} /\ \A q \in Requests \ {r} : wk'[q] = wk[q]
    BY <1>1 DEF LiveInv, Types
  <1>. QED
    BY <1>1, <1>2, <1>3, <1>4, SendAlone

LEMMA InitAlone ==
  ASSUME Init PROVE AloneInv
  <1>1. [code |-> 0, body |-> <<>>, hit |-> FALSE] \in Outs
    BY DEF Outs
  <1>2. out \in [Requests -> Outs] /\ \A k \in Keys : flight[k] = None
    BY <1>1 DEF Init
  <1>3. \A r \in Requests : AloneOf(r)
    BY DEF Init, AloneOf
  <1>. QED
    BY <1>2, <1>3 DEF AloneInv

LEMMA NextAlone ==
  ASSUME setting \in AllSettings, Undisturbed, LiveInv, AloneInv, [Next]_vars
  PROVE  AloneInv'
  <1>1. ASSUME NEW r \in Requests, Abort(r) \/ EndContext(r) \/ Leave(r) PROVE FALSE
    BY <1>1 DEF Abort, EndContext, Leave, LiveInv, Types, Undisturbed
  <1>2. ASSUME NEW r \in Requests,
               \/ Bypass(r) \/ Lookup(r) \/ SendHit(r) \/ Do(r) \/ Fetch(r)
               \/ Conclude(r) \/ SetValue(r) \/ GetMapping(r) \/ SetMapping(r)
               \/ Apply(r) \/ Receive(r)
        PROVE  AloneInv'
    BY <1>2, BypassAlone, LookupAlone, SendHitAlone, DoAlone, FetchAlone,
       ConcludeAlone, StoringAlone, SetMappingAlone, ApplyAlone, ReceiveAlone DEF Undisturbed
  <1>3. ASSUME Tick \/ Finished \/ UNCHANGED vars PROVE AloneInv'
    <2>1. UNCHANGED <<setting, pc, wk, buf, mem, len, status, flight, res, calls, out>>
      BY <1>3 DEF Tick, Finished, vars
    <2>2. ASSUME NEW r \in Requests PROVE AloneOf(r)'
      <3>1. AloneOf(r)
        BY DEF AloneInv
      <3>. QED
        BY <2>1, <3>1, SMTT(60) DEF AloneOf, BodyFor, Fits, Bytes
    <2>. QED
      BY <2>1, <2>2 DEF AloneInv
  <1>. QED
    BY <1>1, <1>2, <1>3 DEF Next

\* The invariant of a run without coalescing.
WholeInv == StoredInv /\ setting \in Settings /\ (Undisturbed => AloneInv)

LEMMA WholeInvariant == Spec => []WholeInv
  <1>1. Init => WholeInv
    BY InitLive, InitAlone DEF WholeInv, StoredInv, Init
  <1>2. WholeInv /\ [Next]_vars => WholeInv'
    <2>. SUFFICES ASSUME WholeInv, [Next]_vars PROVE WholeInv'
      OBVIOUS
    <2>1. StoredInv' /\ setting' = setting
      BY NextKeeps, SettingStays DEF WholeInv, StoredInv
    <2>2. Undisturbed' => Undisturbed
      BY <2>1 DEF Undisturbed
    <2>3. Undisturbed' => AloneInv'
      BY <2>2, NextAlone DEF WholeInv, StoredInv, Undisturbed
    <2>. QED
      BY <2>1, <2>3 DEF WholeInv
  <1>. QED
    BY <1>1, <1>2, PTL DEF Spec

\* With disable_coalescing, every 200 a client receives is the whole body of one
\* response that is for this client: between the upstream call, the storer and
\* the client no pooled buffer is overwritten
\* (plugins/traefik/override/middleware/middleware.go:327-484, 559-829).
\* That no context ends and no answer breaks off is needed: in both cases a
\* client receives something else.
THEOREM AnswersAreWhole ==
  ASSUME \A s \in Settings : s.alone => s.ends = {} /\ \A a \in s.answers : a.kind # "abort"
  PROVE  Spec => []WholeResponse
  <1>1. WholeInv => WholeResponse
    <2>. SUFFICES ASSUME WholeInv, setting.alone PROVE WholeResponseShared
      BY DEF WholeResponse
    <2>1. AloneInv
      BY DEF WholeInv, Undisturbed
    <2>. QED
      BY <2>1 DEF AloneInv, AloneOf, BodyFor, WholeResponseShared
  <1>. QED
    BY <1>1, WholeInvariant, PTL

=============================================================================
