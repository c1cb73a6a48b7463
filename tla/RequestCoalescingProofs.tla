---------------------- MODULE RequestCoalescingProofs ----------------------
(***************************************************************************)
(* Theorems about RequestCoalescing, checked by TLAPS: first that requests *)
(* do not work on one buffer, and then what is sent to clients and stored. *)
(***************************************************************************)
EXTENDS RequestCoalescing, FiniteSetTheorems, TLAPS

\* CustomWriter.Header returns the headers of some call, or none.
LEMMA HeaderType ==
  ASSUME TypeOK, NEW r \in Requests
  PROVE  Header(r) \in SUBSET Nat
  BY DEF TypeOK, Header, Blank

\* Looking for a field in headers answers yes or no.
LEMMA HeaderSaysType ==
  ASSUME NEW h, NEW field
  PROVE  HeaderSays(h, field) \in BOOLEAN
  BY DEF HeaderSays

\* What the leader returns to singleflight is a result.
LEMMA ValueType ==
  ASSUME TypeOK, NEW r \in Requests, buf[r] \in Buffers
  PROVE  Value(r) \in Result
  <1>1. content[buf[r]] \in Body /\ status[r] \in Nat /\ draft[r].private \in BOOLEAN
    BY DEF TypeOK
  <1>2. Header(r) \in SUBSET Nat /\ HeaderSays(Header(r), "cookie") \in BOOLEAN
    BY HeaderType, HeaderSaysType
  <1>3. VariantOf[r] \in Variants /\ NoVariant \in Variants
    BY ConstantsAssumption
  <1>. QED
    BY <1>1, <1>2, <1>3, Zenon DEF Value, Result

\* What Upstream and Store read of the headers is a draft.
LEMMA ReadType ==
  ASSUME TypeOK, NEW r \in Requests
  PROVE  Read(r) \in [private : BOOLEAN, hdr : SUBSET Nat, store : BOOLEAN]
  <1>1. Header(r) \in SUBSET Nat
    BY HeaderType
  <1>. QED
    BY <1>1, HeaderSaysType DEF Read

\* A call without a value is a result too.
LEMMA ErrorType ==
  ASSUME NEW e \in {"none", "50x", "fail", "other", "panic"}
  PROVE  Error(e) \in Result
  <1>1. <<>> \in Body
    BY DEF Body
  <1>. QED
    BY <1>1, ConstantsAssumption DEF Error, Result, Blank

\* singleflight gives the result to callers and frees the key, in type.
LEMMA PublishType ==
  ASSUME TypeOK, NEW r \in Requests, NEW v \in Result, Publish(r, v)
  PROVE  /\ res' \in [Requests -> Result]
         /\ wk' \in [Requests -> WkPlaces]
         /\ flight' \in [Keys -> Requests \union {NoRequest}]
  <1>2. res' \in [Requests -> Result]
    BY DEF Publish, TypeOK
  <1>3. wk' \in [Requests -> WkPlaces]
    BY DEF Publish, TypeOK, WkPlaces
  <1>4. flight' \in [Keys -> Requests \union {NoRequest}]
    BY DEF Publish, TypeOK
  <1>. QED
    BY <1>2, <1>3, <1>4

\* Filling the header map keeps its type.
LEMMA PutHeaderType ==
  ASSUME TypeOK, NEW r \in Requests, NEW h \in SUBSET Nat, PutHeader(r, h)
  PROVE  rwHdr' \in [Requests -> SUBSET Nat]
  <1>1. PICK m \in {h, rwHdr[r] \union h, rwHdr[r]} : rwHdr' = [rwHdr EXCEPT ![r] = m]
    BY DEF PutHeader, Merged
  <1>2. m \in SUBSET Nat
    BY DEF TypeOK
  <1>. QED
    BY <1>1, <1>2 DEF TypeOK

\* Only the map of the request itself is written to.
LEMMA PutHeaderOwn ==
  ASSUME NEW r \in Requests, NEW h, PutHeader(r, h)
  PROVE  \E m \in Merged(r, h) : rwHdr' = [rwHdr EXCEPT ![r] = m]
  BY DEF PutHeader

\* CustomWriter.Send keeps the type of what the client gets.
LEMMA SendType ==
  ASSUME TypeOK, NEW r \in Requests, NEW code \in Nat, NEW body \in Body,
         NEW h \in SUBSET Nat, Send(r, code, body, h)
  PROVE  out' \in [Requests -> [code : Nat, body : Body, hdr : SUBSET Nat]]
  <1>1. FirstCode(r, code) \in Nat
    BY DEF TypeOK, FirstCode
  <1>. QED
    BY <1>1 DEF TypeOK, Send

\* Rw.WriteHeader keeps the type of what the client gets.
LEMMA WriteCodeType ==
  ASSUME TypeOK, NEW r \in Requests, NEW code \in Nat, WriteCode(r, code)
  PROVE  out' \in [Requests -> [code : Nat, body : Body, hdr : SUBSET Nat]]
  <1>1. FirstCode(r, code) \in Nat
    BY DEF TypeOK, FirstCode
  <1>. QED
    BY <1>1 DEF TypeOK, WriteCode

\* The deferred functions of ServeHTTP keep pool and context in type.
LEMMA ReturnType ==
  ASSUME TypeOK, NEW r \in Requests, NEW o \in BOOLEAN, Return(r, o)
  PROVE  /\ pc' \in [Requests -> PcPlaces]
         /\ pool' \in [Buffers -> Nat]
         /\ ctx' \in [Requests -> {"live", "deadline", "canceled"}]
  <1>1. pc' \in [Requests -> PcPlaces]
    BY DEF TypeOK, Return, PcPlaces
  <1>2. pool' \in [Buffers -> Nat]
    <2>1. \A b \in Buffers : pool[b] + 1 \in Nat
      BY DEF TypeOK
    <2>2. pool \in [Buffers -> Nat]
      BY DEF TypeOK
    <2>3. pool' = pool \/ pool' = [pool EXCEPT ![buf[r]] = pool[buf[r]] + 1]
      BY Zenon DEF Return
    <2>. QED
      BY <2>1, <2>2, <2>3
  <1>3. ctx' \in [Requests -> {"live", "deadline", "canceled"}]
    BY DEF TypeOK, Return
  <1>. QED
    BY <1>1, <1>2, <1>3

\* Copying the shared value into a writer keeps its type.
LEMMA CopyValueType ==
  ASSUME TypeOK, NEW r \in Requests, CopyValue(r)
  PROVE  /\ content' \in [Buffers -> Body]
         /\ rwHdr' \in [Requests -> SUBSET Nat]
         /\ status' \in [Requests -> Nat]
  <1>1. res[r].body \in Body /\ res[r].hdr \in SUBSET Nat /\ res[r].code \in Nat
    BY DEF TypeOK, Result
  <1>2. PutHeader(r, res[r].hdr)
    BY DEF CopyValue
  <1>3. rwHdr' \in [Requests -> SUBSET Nat]
    BY <1>1, <1>2, PutHeaderType
  <1>. QED
    BY <1>1, <1>3 DEF CopyValue, TypeOK

\* A request that may touch its buffer has one.
HasBuffer == \A r \in Requests : UsesBuffer(r) => buf[r] \in alloc

\* A buffer that was reset holds a body.
LEMMA EmptyBody == <<>> \in Body
  BY DEF Body

\* The body of a call, whole or cut short, is a body.
LEMMA WholeType == \A c \in Nat : Whole(c) \in Body /\ Cut(c) \in Body
  BY DEF Whole, Cut, Body, Piece

\* Before anything is read, the draft has its type.
LEMMA NoDraftType == NoDraft \in [private : BOOLEAN, hdr : SUBSET Nat, store : BOOLEAN]
  BY DEF NoDraft, Blank

\* bufPoolOwned is true or false.
LEMMA OwnedType ==
  ASSUME TypeOK
  PROVE  \A r \in Requests : owned[r] \in BOOLEAN
  BY DEF TypeOK

\* What a request that uses its buffer finds in its writer.
LEMMA WriterType ==
  ASSUME TypeOK, HasBuffer, NEW r \in Requests, UsesBuffer(r)
  PROVE  /\ buf[r] \in Buffers
         /\ content[buf[r]] \in Body
         /\ status[r] \in Nat
         /\ rwHdr[r] \in SUBSET Nat
         /\ Merged(r, {Cached}) \in SUBSET (SUBSET Nat)
  BY DEF TypeOK, HasBuffer, Merged, Cached

\* Sending a response after Revalidate and returning keep the types.
LEMMA RespondType ==
  ASSUME TypeOK, NEW r \in Requests, NEW code \in Nat, NEW body \in Body,
         NEW h \in SUBSET Nat, Respond(r, code, body, h)
  PROVE  TypeOK'
  <1>1. out' \in [Requests -> [code : Nat, body : Body, hdr : SUBSET Nat]]
    BY SendType DEF Respond
  <1>2. content' \in [Buffers -> Body]
    BY EmptyBody DEF TypeOK, Respond
  <1>3. /\ pc' \in [Requests -> PcPlaces]
        /\ pool' \in [Buffers -> Nat]
        /\ ctx' \in [Requests -> {"live", "deadline", "canceled"}]
    BY OwnedType, ReturnType DEF Respond
  <1>4. wk' \in [Requests -> WkPlaces]
    BY DEF TypeOK, Respond, WkPlaces
  <1>. QED
    BY <1>1, <1>2, <1>3, <1>4 DEF TypeOK, Respond, reqVars

\* An answer of the upstream server keeps the types.
LEMMA FetchType ==
  ASSUME TypeOK, HasBuffer, NEW r \in Requests, Fetch(r)
  PROVE  TypeOK'
  <1>. PICK a \in Answers :
         /\ calls' = Append(calls, [by |-> r, ans |-> a])
         /\ IF a.kind = "fail"
            THEN UNCHANGED <<status, rwHdr, content>>
            ELSE /\ status' = [status EXCEPT ![r] = Code(a)]
                 /\ PutHeader(r, {Len(calls) + 1})
                 /\ content' = [content EXCEPT ![buf[r]] = @ \o
                      CASE a.kind = "abort" -> Cut(Len(calls) + 1)
                        [] a.kind = "notModified" -> <<>>
                        [] OTHER -> Whole(Len(calls) + 1)]
    BY DEF Fetch
  <1>1. Len(calls) + 1 \in Nat
    BY DEF TypeOK
  <1>2. calls' \in Seq([by : Requests, ans : AllAnswers])
    BY ConstantsAssumption DEF TypeOK
  <1>3. status' \in [Requests -> Nat]
    <2>1. Code(a) \in Nat
      BY DEF Code
    <2>2. status' = status \/ status' = [status EXCEPT ![r] = Code(a)]
      OBVIOUS
    <2>. QED
      BY <2>1, <2>2 DEF TypeOK
  <1>4. rwHdr' \in [Requests -> SUBSET Nat]
    <2>1. CASE a.kind = "fail"
      BY <2>1 DEF TypeOK
    <2>2. CASE a.kind # "fail"
      <3>1. PutHeader(r, {Len(calls) + 1})
        BY <2>2
      <3>2. {Len(calls) + 1} \in SUBSET Nat
        BY <1>1
      <3>. QED
        BY <3>1, <3>2, PutHeaderType
    <2>. QED
      BY <2>1, <2>2
  <1>5. content' \in [Buffers -> Body]
    <2>1. content[buf[r]] \in Body
      BY WriterType DEF Fetch, UsesBuffer
    <2>2. \A b1, b2 \in Body : b1 \o b2 \in Body
      BY DEF Body
    <2>. DEFINE piece == CASE a.kind = "abort" -> Cut(Len(calls) + 1)
                           [] a.kind = "notModified" -> <<>>
                           [] OTHER -> Whole(Len(calls) + 1)
    <2>3. piece \in Body
      BY <1>1, WholeType, EmptyBody
    <2>. HIDE DEF piece
    <2>4. content[buf[r]] \o piece \in Body
      BY <2>1, <2>2, <2>3
    <2>5. content' = content \/ content' = [content EXCEPT ![buf[r]] = content[buf[r]] \o piece]
      BY DEF piece
    <2>. QED
      BY <2>4, <2>5 DEF TypeOK
  <1>6. wk' \in [Requests -> WkPlaces]
    BY DEF TypeOK, Fetch, WkPlaces
  <1>. QED
    BY <1>2, <1>3, <1>4, <1>5, <1>6 DEF TypeOK, Fetch, reqVars, bufVars

\* Every step of the request path keeps the types.
LEMMA TypeStep ==
  ASSUME TypeOK, HasBuffer, Next
  PROVE  TypeOK'
  <1>. SUFFICES ASSUME NEW r \in Requests,
                       Handler(r) \/ Participant(r) \/ Fetch(r) \/ EndContext(r)
                PROVE  TypeOK'
    BY DEF Next
  <1>1. CASE Start(r)
    <2>1. /\ pool' \in [Buffers -> Nat]
          /\ alloc' \subseteq Buffers
      BY <1>1 DEF TypeOK, Start, GetBuffer
    <2>2. buf' \in [Requests -> Buffers \union {NoBuffer}]
      BY <1>1 DEF TypeOK, Start
    <2>3. content' \in [Buffers -> Body]
      BY <1>1, EmptyBody DEF TypeOK, Start
    <2>4. pc' \in [Requests -> PcPlaces]
      BY <1>1 DEF TypeOK, Start, PcPlaces
    <2>5. wk' \in [Requests -> WkPlaces]
      BY <1>1 DEF TypeOK, Start, WkPlaces
    <2>. QED
      BY <1>1, <2>1, <2>2, <2>3, <2>4, <2>5 DEF TypeOK, Start, reqVars, bufVars
  <1>2. CASE StartBackground(r)
    <2>1. out' \in [Requests -> [code : Nat, body : Body, hdr : SUBSET Nat]]
      BY <1>2, WholeType, SendType DEF StartBackground, Cached
    <2>2. /\ alloc' \subseteq Buffers
          /\ buf' \in [Requests -> Buffers \union {NoBuffer}]
      BY <1>2 DEF TypeOK, StartBackground
    <2>3. pc' \in [Requests -> PcPlaces]
      BY <1>2 DEF TypeOK, StartBackground, PcPlaces
    <2>4. wk' \in [Requests -> WkPlaces]
      BY <1>2 DEF TypeOK, StartBackground, WkPlaces
    <2>5. rwHdr' \in [Requests -> SUBSET Nat]
      BY <1>2, PutHeaderType DEF StartBackground, Cached
    <2>. QED
      BY <1>2, <2>1, <2>2, <2>3, <2>4, <2>5 DEF TypeOK, StartBackground, reqVars, bufVars
  <1>3. CASE ReturnBackground(r)
    <2>1. /\ pc' \in [Requests -> PcPlaces]
          /\ pool' \in [Buffers -> Nat]
          /\ ctx' \in [Requests -> {"live", "deadline", "canceled"}]
      BY <1>3, ReturnType DEF ReturnBackground
    <2>. QED
      BY <1>3, <2>1 DEF TypeOK, ReturnBackground, reqVars, bufVars
  <1>4. CASE SelectContextDone(r)
    <2>1. owned' \in [Requests -> BOOLEAN]
      BY <1>4 DEF TypeOK, SelectContextDone
    <2>2. out' \in [Requests -> [code : Nat, body : Body, hdr : SUBSET Nat]]
      <3>1. WriteCode(r, 504) \/ out' = out
        BY <1>4 DEF SelectContextDone
      <3>2. CASE WriteCode(r, 504)
        BY <3>2, WriteCodeType
      <3>3. CASE out' = out
        BY <3>3 DEF TypeOK
      <3>. QED
        BY <3>1, <3>2, <3>3
    <2>3. /\ pc' \in [Requests -> PcPlaces]
          /\ pool' \in [Buffers -> Nat]
          /\ ctx' \in [Requests -> {"live", "deadline", "canceled"}]
      BY <1>4, ReturnType DEF SelectContextDone
    <2>. QED
      BY <1>4, <2>1, <2>2, <2>3 DEF TypeOK, SelectContextDone, reqVars, bufVars
  <1>5. CASE SelectResponse(r)
    <2>1. out' \in [Requests -> [code : Nat, body : Body, hdr : SUBSET Nat]]
      BY <1>5, WriterType, SendType DEF TypeOK, SelectResponse, UsesBuffer
    <2>2. content' \in [Buffers -> Body]
      BY <1>5, EmptyBody DEF TypeOK, SelectResponse
    <2>3. /\ pc' \in [Requests -> PcPlaces]
          /\ pool' \in [Buffers -> Nat]
          /\ ctx' \in [Requests -> {"live", "deadline", "canceled"}]
      BY <1>5, OwnedType, ReturnType DEF SelectResponse
    <2>. QED
      BY <1>5, <2>1, <2>2, <2>3 DEF TypeOK, SelectResponse, reqVars, bufVars
  <1>6. CASE Do(r)
    <2>1. wk' \in [Requests -> WkPlaces]
      <3>1. \/ wk' = [wk EXCEPT ![r] = "fetch"]
            \/ wk' = [wk EXCEPT ![r] = "join"]
        BY <1>6, Zenon DEF Do
      <3>. QED
        BY <3>1 DEF TypeOK, WkPlaces
    <2>2. flight' \in [Keys -> Requests \union {NoRequest}]
      BY <1>6 DEF TypeOK, Do
    <2>. QED
      BY <1>6, <2>1, <2>2 DEF TypeOK, Do, reqVars, bufVars
  <1>7. CASE Panic(r)
    <2>1. /\ res' \in [Requests -> Result]
          /\ wk' \in [Requests -> WkPlaces]
          /\ flight' \in [Keys -> Requests \union {NoRequest}]
      BY <1>7, ErrorType, PublishType DEF Panic
    <2>. QED
      BY <1>7, <2>1 DEF TypeOK, Panic, reqVars, bufVars
  <1>8. CASE UpstreamFails(r)
    <2>1. /\ res' \in [Requests -> Result]
          /\ wk' \in [Requests -> WkPlaces]
          /\ flight' \in [Keys -> Requests \union {NoRequest}]
      BY <1>8, ErrorType, PublishType DEF UpstreamFails
    <2>. QED
      BY <1>8, <2>1 DEF TypeOK, UpstreamFails, reqVars, bufVars
  <1>9. CASE UpstreamReads(r)
    <2>1. draft' \in [Requests -> [private : BOOLEAN, hdr : SUBSET Nat, store : BOOLEAN]]
      BY <1>9, ReadType DEF TypeOK, UpstreamReads
    <2>2. wk' \in [Requests -> WkPlaces]
      BY <1>9 DEF TypeOK, UpstreamReads, WkPlaces
    <2>. QED
      BY <1>9, <2>1, <2>2 DEF TypeOK, UpstreamReads, reqVars, bufVars
  <1>10. CASE RevalidateSettles(r)
    <2>1. out' \in [Requests -> [code : Nat, body : Body, hdr : SUBSET Nat]]
      BY <1>10, WriteCodeType DEF RevalidateSettles
    <2>2. content' \in [Buffers -> Body]
      BY <1>10, EmptyBody DEF TypeOK, RevalidateSettles
    <2>3. /\ res' \in [Requests -> Result]
          /\ wk' \in [Requests -> WkPlaces]
          /\ flight' \in [Keys -> Requests \union {NoRequest}]
      BY <1>10, ErrorType, PublishType DEF RevalidateSettles
    <2>. QED
      BY <1>10, <2>1, <2>2, <2>3 DEF TypeOK, RevalidateSettles, reqVars, bufVars
  <1>11. CASE RevalidateReads(r)
    <2>1. draft' \in [Requests -> [private : BOOLEAN, hdr : SUBSET Nat, store : BOOLEAN]]
      BY <1>11, ReadType, NoDraftType DEF TypeOK, RevalidateReads
    <2>2. wk' \in [Requests -> WkPlaces]
      BY <1>11 DEF TypeOK, RevalidateReads, WkPlaces
    <2>. QED
      BY <1>11, <2>1, <2>2 DEF TypeOK, RevalidateReads, reqVars, bufVars
  <1>12. CASE Store(r)
    <2>1. stored' \subseteq Stored
      <3>. DEFINE entry == [key |-> KeyOf[r], body |-> content[buf[r]],
                            hdr |-> draft[r].hdr, variant |-> VariantOf[r]]
      <3>1. content[buf[r]] \in Body
        BY <1>12, WriterType DEF Store, UsesBuffer
      <3>2. draft[r].hdr \in SUBSET Nat
        BY DEF TypeOK
      <3>3. entry \in Stored
        BY <3>1, <3>2, ConstantsAssumption DEF Stored
      <3>4. stored' = stored \/ stored' = stored \union {entry}
        BY <1>12 DEF Store
      <3>. QED
        BY <3>3, <3>4 DEF TypeOK
    <2>2. wk' \in [Requests -> WkPlaces]
      BY <1>12 DEF TypeOK, Store, WkPlaces
    <2>. QED
      BY <1>12, <2>1, <2>2 DEF TypeOK, Store, reqVars, bufVars
  <1>13. CASE Snapshot(r)
    <2>1. /\ res' \in [Requests -> Result]
          /\ wk' \in [Requests -> WkPlaces]
          /\ flight' \in [Keys -> Requests \union {NoRequest}]
      BY <1>13, WriterType, ValueType, PublishType DEF Snapshot, UsesBuffer
    <2>2. content' \in [Buffers -> Body]
      BY <1>13, EmptyBody DEF TypeOK, Snapshot
    <2>3. draft' \in [Requests -> [private : BOOLEAN, hdr : SUBSET Nat, store : BOOLEAN]]
      BY <1>13, NoDraftType DEF TypeOK, Snapshot
    <2>. QED
      BY <1>13, <2>1, <2>2, <2>3 DEF TypeOK, Snapshot, reqVars, bufVars
  <1>14. CASE UpstreamReturnsEarly(r)
    <2>1. res' \in [Requests -> Result]
      BY <1>14, ErrorType DEF TypeOK, UpstreamReturnsEarly, NoResult
    <2>2. wk' \in [Requests -> WkPlaces]
      BY <1>14 DEF TypeOK, UpstreamReturnsEarly, WkPlaces
    <2>. QED
      BY <1>14, <2>1, <2>2 DEF TypeOK, UpstreamReturnsEarly, reqVars, bufVars
  <1>15. CASE UpstreamAgain(r)
    <2>1. solo' \in [Requests -> BOOLEAN]
      BY <1>15, ConstantsAssumption DEF TypeOK, UpstreamAgain, MustGoAlone
    <2>2. res' \in [Requests -> Result]
      BY <1>15, ErrorType DEF TypeOK, UpstreamAgain, NoResult
    <2>3. wk' \in [Requests -> WkPlaces]
      BY <1>15 DEF TypeOK, UpstreamAgain, WkPlaces
    <2>. QED
      BY <1>15, <2>1, <2>2, <2>3 DEF TypeOK, UpstreamAgain, reqVars, bufVars
  <1>16. CASE UpstreamApplies(r)
    <2>1. /\ content' \in [Buffers -> Body]
          /\ rwHdr' \in [Requests -> SUBSET Nat]
          /\ status' \in [Requests -> Nat]
      BY <1>16, CopyValueType DEF UpstreamApplies
    <2>2. res' \in [Requests -> Result]
      BY <1>16, ErrorType DEF TypeOK, UpstreamApplies, NoResult
    <2>3. wk' \in [Requests -> WkPlaces]
      BY <1>16 DEF TypeOK, UpstreamApplies, WkPlaces
    <2>. QED
      BY <1>16, <2>1, <2>2, <2>3 DEF TypeOK, UpstreamApplies, reqVars, bufVars
  <1>17. CASE Release(r)
    <2>1. pool' \in [Buffers -> Nat]
      <3>1. UsesBuffer(r)
        BY <1>17 DEF Release, UsesBuffer
      <3>2. buf[r] \in Buffers
        BY <3>1, WriterType
      <3>3. pool' = pool \/ pool' = [pool EXCEPT ![buf[r]] = @ + 1]
        BY <1>17 DEF Release
      <3>4. pool \in [Buffers -> Nat]
        BY DEF TypeOK
      <3>. QED
        BY <3>2, <3>3, <3>4
    <2>2. content' \in [Buffers -> Body]
      BY <1>17, EmptyBody DEF TypeOK, Release
    <2>3. wk' \in [Requests -> WkPlaces]
      BY <1>17 DEF TypeOK, Release, WkPlaces
    <2>. QED
      BY <1>17, <2>1, <2>2, <2>3 DEF TypeOK, Release, reqVars, bufVars
  <1>18. CASE Notify(r)
    <2>1. wk' \in [Requests -> WkPlaces]
      BY <1>18 DEF TypeOK, Notify, WkPlaces
    <2>. QED
      BY <1>18, <2>1 DEF TypeOK, Notify, reqVars, bufVars
  <1>19. CASE RevalidateApplies(r)
    <2>1. /\ content' \in [Buffers -> Body]
          /\ rwHdr' \in [Requests -> SUBSET Nat]
          /\ status' \in [Requests -> Nat]
      <3>1. CopyValue(r) \/ UNCHANGED <<content, rwHdr, status>>
        BY <1>19 DEF RevalidateApplies
      <3>2. CASE CopyValue(r)
        BY <3>2, CopyValueType
      <3>3. CASE UNCHANGED <<content, rwHdr, status>>
        BY <3>3 DEF TypeOK
      <3>. QED
        BY <3>1, <3>2, <3>3
    <2>2. res' \in [Requests -> Result]
      <3>1. res[r].err \in {"none", "50x", "fail", "other", "panic"}
        BY DEF TypeOK, Result
      <3>2. Error(res[r].err) \in Result
        BY <3>1, ErrorType
      <3>. QED
        BY <1>19, <3>2 DEF TypeOK, RevalidateApplies
    <2>3. wk' \in [Requests -> WkPlaces]
      BY <1>19 DEF TypeOK, RevalidateApplies, WkPlaces
    <2>. QED
      BY <1>19, <2>1, <2>2, <2>3 DEF TypeOK, RevalidateApplies, reqVars, bufVars
  <1>20. CASE RevalidatePanics(r)
    <2>1. wk' \in [Requests -> WkPlaces]
      BY <1>20 DEF TypeOK, RevalidatePanics, WkPlaces
    <2>2. content' \in [Buffers -> Body]
      BY <1>20, EmptyBody DEF TypeOK, RevalidatePanics
    <2>3. /\ pc' \in [Requests -> PcPlaces]
          /\ pool' \in [Buffers -> Nat]
          /\ ctx' \in [Requests -> {"live", "deadline", "canceled"}]
      BY <1>20, OwnedType, ReturnType DEF RevalidatePanics
    <2>. QED
      BY <1>20, <2>1, <2>2, <2>3 DEF TypeOK, RevalidatePanics, reqVars, bufVars
  <1>21. CASE Crash(r)
    <2>1. pc' \in [Requests -> PcPlaces]
      BY <1>21 DEF Crash, PcPlaces
    <2>2. wk' \in [Requests -> WkPlaces]
      BY <1>21 DEF Crash, WkPlaces
    <2>. QED
      BY <1>21, <2>1, <2>2 DEF TypeOK, Crash, reqVars, bufVars
  <1>22. CASE RespondFresh(r)
    <2>1. UsesBuffer(r)
      BY <1>22 DEF RespondFresh, UsesBuffer
    <2>2. content[buf[r]] \in Body
      BY <2>1, WriterType, WholeType, EmptyBody DEF Cached
    <2>. QED
      BY <1>22, <2>1, <2>2, WriterType, RespondType DEF RespondFresh
  <1>23. CASE RespondStaleOnError(r)
    <2>1. UsesBuffer(r)
      BY <1>23 DEF RespondStaleOnError, UsesBuffer
    <2>2. Whole(Cached) \in Body
      BY <2>1, WriterType, WholeType, EmptyBody DEF Cached
    <2>3. PICK h \in Merged(r, {Cached}) : Respond(r, 200, Whole(Cached), h)
      BY <1>23 DEF RespondStaleOnError
    <2>4. h \in SUBSET Nat
      BY <2>1, WriterType
    <2>. QED
      BY <2>2, <2>3, <2>4, RespondType
  <1>24. CASE RespondGatewayTimeout(r)
    <2>1. UsesBuffer(r)
      BY <1>24 DEF RespondGatewayTimeout, UsesBuffer
    <2>2. <<>> \in Body
      BY <2>1, WriterType, WholeType, EmptyBody DEF Cached
    <2>. QED
      BY <1>24, <2>1, <2>2, WriterType, RespondType DEF RespondGatewayTimeout
  <1>25. CASE RespondStored(r)
    <2>1. UsesBuffer(r)
      BY <1>25 DEF RespondStored, UsesBuffer
    <2>2. content[buf[r]] \o Whole(Cached) \in Body
      BY <2>1, WriterType, WholeType, EmptyBody DEF Cached, Body
    <2>3. PICK h \in Merged(r, {Cached}) : Respond(r, 200, content[buf[r]] \o Whole(Cached), h)
      BY <1>25 DEF RespondStored
    <2>4. h \in SUBSET Nat
      BY <2>1, WriterType
    <2>. QED
      BY <2>2, <2>3, <2>4, RespondType
  <1>26. CASE RespondNotModified(r)
    <2>1. UsesBuffer(r)
      BY <1>26 DEF RespondNotModified, UsesBuffer
    <2>2. <<>> \in Body
      BY <2>1, WriterType, WholeType, EmptyBody DEF Cached
    <2>. QED
      BY <1>26, <2>1, <2>2, WriterType, RespondType DEF RespondNotModified
  <1>27. CASE RespondRevalidated(r)
    <2>1. UsesBuffer(r)
      BY <1>27 DEF RespondRevalidated, UsesBuffer
    <2>2. content[buf[r]] \in Body
      BY <2>1, WriterType, WholeType, EmptyBody DEF Cached
    <2>. QED
      BY <1>27, <2>1, <2>2, WriterType, RespondType DEF RespondRevalidated
  <1>28. CASE FallThrough(r)
    <2>1. mode' \in [Requests -> AllModes]
      BY <1>28 DEF TypeOK, FallThrough, AllModes
    <2>2. pc' \in [Requests -> PcPlaces]
      BY <1>28 DEF TypeOK, FallThrough, PcPlaces
    <2>3. wk' \in [Requests -> WkPlaces]
      BY <1>28 DEF TypeOK, FallThrough, WkPlaces
    <2>. QED
      BY <1>28, <2>1, <2>2, <2>3 DEF TypeOK, FallThrough, reqVars, bufVars
  <1>29. CASE Fetch(r)
    BY <1>29, FetchType
  <1>30. CASE EndContext(r)
    <2>1. ctx' \in [Requests -> {"live", "deadline", "canceled"}]
      BY <1>30, ConstantsAssumption DEF TypeOK, EndContext
    <2>. QED
      BY <1>30, <2>1 DEF TypeOK, EndContext, reqVars, bufVars
  <1>. QED
    BY <1>1, <1>2, <1>3, <1>4, <1>5, <1>6, <1>7, <1>8, <1>9, <1>10, <1>11, <1>12, <1>13, <1>14, <1>15, <1>16, <1>17, <1>18, <1>19, <1>20, <1>21, <1>22, <1>23, <1>24, <1>25, <1>26, <1>27, <1>28, <1>29, <1>30
       DEF Handler, Participant

-----------------------------------------------------------------------------
(***************************************************************************)
(* BufferExclusive is not inductive: one must also know that the buffer of *)
(* a request in use has been created, that a pooled buffer has too (so a   *)
(* new buffer is nobody's), and that bufPoolOwned is given up only by the  *)
(* handler of a miss, when it returns.                                     *)
(***************************************************************************)
PooledIsAllocated == \A b \in Buffers : pool[b] > 0 => b \in alloc

OwnedUntilReturn ==
  \A r \in Requests :
    /\ ~owned[r] => pc[r] \in {"done", "crash"} /\ mode[r] = "miss"
    /\ pc[r] = "wait" => mode[r] = "miss"

BufferInv ==
  /\ TypeOK
  /\ BufferExclusive
  /\ HasBuffer
  /\ PooledIsAllocated
  /\ OwnedUntilReturn

\* Before a request starts, all buffers are unused.
LEMMA InitBufferInv == Init => BufferInv
  <1>. SUFFICES ASSUME Init PROVE BufferInv
    OBVIOUS
  <1>1. TypeOK
    <2>1. pc \in [Requests -> PcPlaces] /\ wk \in [Requests -> WkPlaces]
      BY DEF Init, PcPlaces, WkPlaces
    <2>2. mode \in [Requests -> AllModes] /\ cli \in [Requests -> AllClients]
      BY ConstantsAssumption DEF Init
    <2>3. /\ ctx \in [Requests -> {"live", "deadline", "canceled"}]
          /\ solo \in [Requests -> BOOLEAN]
          /\ owned \in [Requests -> BOOLEAN]
      BY ConstantsAssumption DEF Init
    <2>4. /\ buf \in [Requests -> Buffers \union {NoBuffer}]
          /\ content \in [Buffers -> Body]
          /\ pool \in [Buffers -> Nat]
          /\ alloc \subseteq Buffers
      BY EmptyBody DEF Init
    <2>5. /\ status \in [Requests -> Nat]
          /\ rwHdr \in [Requests -> SUBSET Nat]
          /\ draft \in [Requests -> [private : BOOLEAN, hdr : SUBSET Nat, store : BOOLEAN]]
      BY NoDraftType DEF Init, Blank
    <2>6. /\ flight \in [Keys -> Requests \union {NoRequest}]
          /\ calls \in Seq([by : Requests, ans : AllAnswers])
          /\ stored \subseteq Stored
      BY DEF Init
    <2>7. res \in [Requests -> Result]
      BY ErrorType DEF Init, NoResult
    <2>8. out \in [Requests -> [code : Nat, body : Body, hdr : SUBSET Nat]]
      BY EmptyBody DEF Init, Blank
    <2>. QED
      BY <2>1, <2>2, <2>3, <2>4, <2>5, <2>6, <2>7, <2>8 DEF TypeOK
  <1>2. \A r \in Requests : ~UsesBuffer(r)
    BY DEF Init, UsesBuffer
  <1>3. BufferExclusive /\ HasBuffer /\ PooledIsAllocated /\ OwnedUntilReturn
    BY <1>2 DEF Init, BufferExclusive, HasBuffer, PooledIsAllocated,
                OwnedUntilReturn
  <1>. QED
    BY <1>1, <1>3 DEF BufferInv

\* A step that moves no buffer and makes no request a user of one.
LEMMA FrameStep ==
  ASSUME BufferInv, TypeOK',
         UNCHANGED <<buf, pool, alloc>>,
         \A q \in Requests : UsesBuffer(q)' => UsesBuffer(q),
         OwnedUntilReturn'
  PROVE  BufferInv'
  BY DEF BufferInv, BufferExclusive, HasBuffer, PooledIsAllocated

\* A step in which one user of a buffer puts it back and stops using it.
LEMMA PutStep ==
  ASSUME BufferInv, TypeOK', NEW r \in Requests,
         UsesBuffer(r), ~UsesBuffer(r)',
         \/ pool' = [pool EXCEPT ![buf[r]] = @ + 1]
         \/ pool' = pool,
         UNCHANGED <<buf, alloc>>,
         \A q \in Requests \ {r} : UsesBuffer(q)' => UsesBuffer(q),
         OwnedUntilReturn'
  PROVE  BufferInv'
  <1>1. buf[r] \in Buffers /\ pool[buf[r]] = 0 /\ buf[r] \in alloc
    BY DEF BufferInv, BufferExclusive, HasBuffer, TypeOK
  <1>2. pool \in [Buffers -> Nat]
    BY DEF BufferInv, TypeOK
  <1>3. \A b \in Buffers : pool'[b] <= 1 /\ (b # buf[r] => pool'[b] = pool[b])
    BY <1>1, <1>2 DEF BufferInv, BufferExclusive
  <1>4. \A q \in Requests : UsesBuffer(q)' => q # r /\ UsesBuffer(q)
    OBVIOUS
  <1>5. \A q \in Requests : UsesBuffer(q)' => /\ buf[q] # buf[r]
                                              /\ buf[q] \in Buffers
                                              /\ buf[q] \in alloc
                                              /\ pool[buf[q]] = 0
    BY <1>4 DEF BufferInv, BufferExclusive, HasBuffer, TypeOK
  <1>6. BufferExclusive'
    <2>1. \A q \in Requests : UsesBuffer(q)' => pool'[buf'[q]] = 0
      BY <1>3, <1>5
    <2>2. \A p, q \in Requests :
            p # q /\ UsesBuffer(p)' /\ UsesBuffer(q)' => buf'[p] # buf'[q]
      BY <1>4 DEF BufferInv, BufferExclusive
    <2>. QED
      BY <1>3, <2>1, <2>2 DEF BufferExclusive
  <1>7. HasBuffer'
    BY <1>5 DEF HasBuffer
  <1>8. PooledIsAllocated'
    BY <1>1, <1>3 DEF BufferInv, PooledIsAllocated
  <1>. QED
    BY <1>6, <1>7, <1>8 DEF BufferInv

\* A step in which a request starts to use a buffer that nobody uses.
LEMMA GetStep ==
  ASSUME BufferInv, TypeOK', NEW r \in Requests, NEW b \in Buffers,
         GetBuffer(b),
         buf' = [buf EXCEPT ![r] = b],
         \A q \in Requests \ {r} : UsesBuffer(q)' => UsesBuffer(q),
         OwnedUntilReturn'
  PROVE  BufferInv'
  <1>1. pool \in [Buffers -> Nat] /\ buf \in [Requests -> Buffers \union {NoBuffer}]
    BY DEF BufferInv, TypeOK
  <1>2. \A q \in Requests \ {r} : UsesBuffer(q)' => /\ UsesBuffer(q)
                                                    /\ buf[q] \in alloc
                                                    /\ buf[q] \in Buffers
                                                    /\ pool[buf[q]] = 0
    BY DEF BufferInv, BufferExclusive, HasBuffer, TypeOK
  <1>3. /\ b \in alloc' /\ alloc \subseteq alloc'
        /\ \A c \in Buffers : pool'[c] <= pool[c] /\ pool'[c] \in Nat
        /\ pool'[b] = 0
    BY <1>1 DEF GetBuffer, BufferInv, BufferExclusive, PooledIsAllocated
  <1>4. \A q \in Requests \ {r} : UsesBuffer(q)' => buf[q] # b
    BY <1>2 DEF GetBuffer
  <1>5. BufferExclusive'
    <2>1. \A c \in Buffers : pool'[c] <= 1
      BY <1>1, <1>3 DEF BufferInv, BufferExclusive
    <2>2. \A q \in Requests : UsesBuffer(q)' => pool'[buf'[q]] = 0
      BY <1>1, <1>2, <1>3
    <2>3. \A p, q \in Requests :
            p # q /\ UsesBuffer(p)' /\ UsesBuffer(q)' => buf'[p] # buf'[q]
      BY <1>1, <1>2, <1>4 DEF BufferInv, BufferExclusive
    <2>. QED
      BY <2>1, <2>2, <2>3 DEF BufferExclusive
  <1>6. HasBuffer'
    BY <1>1, <1>2, <1>3 DEF HasBuffer
  <1>7. PooledIsAllocated'
    BY <1>1, <1>3 DEF BufferInv, PooledIsAllocated
  <1>. QED
    BY <1>5, <1>6, <1>7 DEF BufferInv

\* A result that is published makes nobody a user of a buffer.
LEMMA PublishUses ==
  ASSUME BufferInv, NEW r \in Requests, NEW v, Publish(r, v), pc' = pc,
         wk[r] \notin {"off", "notify", "end", "crash"}
  PROVE  \A q \in Requests : UsesBuffer(q)' => UsesBuffer(q)
  BY DEF Publish, Followers, UsesBuffer

\* Responding after Revalidate gives the buffer back once.
LEMMA RespondStep ==
  ASSUME BufferInv, TypeOK', NEW r \in Requests, wk[r] = "revalidated",
         NEW code, NEW body, NEW h, Respond(r, code, body, h)
  PROVE  BufferInv'
  <1>1. UsesBuffer(r)
    BY DEF UsesBuffer
  <1>2. ~UsesBuffer(r)' /\ \A q \in Requests \ {r} : UsesBuffer(q)' => UsesBuffer(q)
    BY DEF Respond, Return, UsesBuffer, BufferInv, TypeOK
  <1>3. pool' = [pool EXCEPT ![buf[r]] = @ + 1] \/ pool' = pool
    BY Zenon DEF Respond, Return
  <1>4. OwnedUntilReturn'
    BY DEF Respond, Return, BufferInv, OwnedUntilReturn, TypeOK, reqVars
  <1>. QED
    BY <1>1, <1>2, <1>3, <1>4, PutStep DEF Respond

\* Every step of the request path keeps buffers exclusive.
LEMMA BufferStep ==
  ASSUME BufferInv, [Next]_vars
  PROVE  BufferInv'
  <1>1. CASE UNCHANGED vars
    BY <1>1 DEF vars, BufferInv, TypeOK, BufferExclusive, HasBuffer, UsesBuffer,
                PooledIsAllocated, OwnedUntilReturn
  <1>. SUFFICES ASSUME Next PROVE BufferInv'
    BY <1>1
  <1>2. TypeOK'
    BY TypeStep DEF BufferInv
  <1>. SUFFICES ASSUME NEW r \in Requests,
                       Handler(r) \/ Participant(r) \/ Fetch(r) \/ EndContext(r)
                PROVE  BufferInv'
    BY DEF Next
  <1>3. CASE Start(r)
    <2>1. PICK b \in Buffers : GetBuffer(b) /\ buf' = [buf EXCEPT ![r] = b]
      BY <1>3 DEF Start
    <2>2. \A q \in Requests \ {r} : UsesBuffer(q)' => UsesBuffer(q)
      BY <1>3 DEF Start, UsesBuffer, BufferInv, TypeOK
    <2>3. OwnedUntilReturn'
      BY <1>3 DEF Start, OwnedUntilReturn, BufferInv, TypeOK, reqVars
    <2>. QED
      BY <1>2, <2>1, <2>2, <2>3, GetStep
  <1>4. CASE StartBackground(r)
    <2>1. PICK b \in Buffers : GetBuffer(b) /\ buf' = [buf EXCEPT ![r] = b]
      BY <1>4 DEF StartBackground, GetBuffer
    <2>2. \A q \in Requests \ {r} : UsesBuffer(q)' => UsesBuffer(q)
      BY <1>4 DEF StartBackground, UsesBuffer, BufferInv, TypeOK
    <2>3. OwnedUntilReturn'
      BY <1>4 DEF StartBackground, OwnedUntilReturn, BufferInv, TypeOK, reqVars
    <2>. QED
      BY <1>2, <2>1, <2>2, <2>3, GetStep
  <1>5. CASE ReturnBackground(r)
    <2>1. \A q \in Requests : UsesBuffer(q)' => UsesBuffer(q)
      BY <1>5 DEF ReturnBackground, Return, UsesBuffer, BufferInv, TypeOK
    <2>2. OwnedUntilReturn'
      BY <1>5 DEF ReturnBackground, Return, bufVars, OwnedUntilReturn, BufferInv, TypeOK, reqVars
    <2>3. UNCHANGED <<buf, pool, alloc>>
      BY <1>5 DEF ReturnBackground, Return, bufVars
    <2>. QED
      BY <1>2, <2>1, <2>2, <2>3, FrameStep
  <1>6. CASE SelectContextDone(r)
    <2>1. \A q \in Requests : UsesBuffer(q)' => UsesBuffer(q)
      BY <1>6 DEF SelectContextDone, Return, UsesBuffer, BufferInv, TypeOK
    <2>2. OwnedUntilReturn'
      BY <1>6 DEF SelectContextDone, Return, bufVars, OwnedUntilReturn, BufferInv, TypeOK, reqVars
    <2>3. UNCHANGED <<buf, pool, alloc>>
      BY <1>6 DEF SelectContextDone, Return, bufVars
    <2>. QED
      BY <1>2, <2>1, <2>2, <2>3, FrameStep
  <1>7. CASE SelectResponse(r)
    <2>1. UsesBuffer(r) /\ ~UsesBuffer(r)'
      BY <1>7 DEF SelectResponse, Return, UsesBuffer, BufferInv, TypeOK
    <2>2. \A q \in Requests \ {r} : UsesBuffer(q)' => UsesBuffer(q)
      BY <1>7 DEF SelectResponse, Return, UsesBuffer, BufferInv, TypeOK
    <2>3. pool' = [pool EXCEPT ![buf[r]] = @ + 1] \/ pool' = pool
      BY <1>7, Zenon DEF SelectResponse, Return
    <2>4. OwnedUntilReturn'
      BY <1>7 DEF SelectResponse, Return, OwnedUntilReturn, BufferInv, TypeOK, reqVars
    <2>. QED
      BY <1>2, <1>7, <2>1, <2>2, <2>3, <2>4, PutStep DEF SelectResponse
  <1>8. CASE Do(r)
    <2>1. \A q \in Requests : UsesBuffer(q)' => UsesBuffer(q)
      BY <1>8 DEF Do, Return, UsesBuffer, BufferInv, TypeOK
    <2>2. OwnedUntilReturn'
      BY <1>8 DEF Do, Return, bufVars, OwnedUntilReturn, BufferInv, TypeOK, reqVars
    <2>3. UNCHANGED <<buf, pool, alloc>>
      BY <1>8 DEF Do, Return, bufVars
    <2>. QED
      BY <1>2, <2>1, <2>2, <2>3, FrameStep
  <1>9. CASE Panic(r)
    <2>1. \A q \in Requests : UsesBuffer(q)' => UsesBuffer(q)
      BY <1>9, PublishUses DEF Panic
    <2>2. OwnedUntilReturn'
      BY <1>9 DEF Panic, Return, bufVars, OwnedUntilReturn, BufferInv, TypeOK, reqVars
    <2>3. UNCHANGED <<buf, pool, alloc>>
      BY <1>9 DEF Panic, Return, bufVars
    <2>. QED
      BY <1>2, <2>1, <2>2, <2>3, FrameStep
  <1>10. CASE UpstreamFails(r)
    <2>1. \A q \in Requests : UsesBuffer(q)' => UsesBuffer(q)
      BY <1>10, PublishUses DEF UpstreamFails
    <2>2. OwnedUntilReturn'
      BY <1>10 DEF UpstreamFails, Return, bufVars, OwnedUntilReturn, BufferInv, TypeOK, reqVars
    <2>3. UNCHANGED <<buf, pool, alloc>>
      BY <1>10 DEF UpstreamFails, Return, bufVars
    <2>. QED
      BY <1>2, <2>1, <2>2, <2>3, FrameStep
  <1>11. CASE UpstreamReads(r)
    <2>1. \A q \in Requests : UsesBuffer(q)' => UsesBuffer(q)
      BY <1>11 DEF UpstreamReads, Return, UsesBuffer, BufferInv, TypeOK
    <2>2. OwnedUntilReturn'
      BY <1>11 DEF UpstreamReads, Return, bufVars, OwnedUntilReturn, BufferInv, TypeOK, reqVars
    <2>3. UNCHANGED <<buf, pool, alloc>>
      BY <1>11 DEF UpstreamReads, Return, bufVars
    <2>. QED
      BY <1>2, <2>1, <2>2, <2>3, FrameStep
  <1>12. CASE RevalidateSettles(r)
    <2>1. \A q \in Requests : UsesBuffer(q)' => UsesBuffer(q)
      BY <1>12, PublishUses DEF RevalidateSettles
    <2>2. OwnedUntilReturn'
      BY <1>12 DEF RevalidateSettles, Return, bufVars, OwnedUntilReturn, BufferInv, TypeOK, reqVars
    <2>3. UNCHANGED <<buf, pool, alloc>>
      BY <1>12 DEF RevalidateSettles, Return, bufVars
    <2>. QED
      BY <1>2, <2>1, <2>2, <2>3, FrameStep
  <1>13. CASE RevalidateReads(r)
    <2>1. \A q \in Requests : UsesBuffer(q)' => UsesBuffer(q)
      BY <1>13 DEF RevalidateReads, Return, UsesBuffer, BufferInv, TypeOK
    <2>2. OwnedUntilReturn'
      BY <1>13 DEF RevalidateReads, Return, bufVars, OwnedUntilReturn, BufferInv, TypeOK, reqVars
    <2>3. UNCHANGED <<buf, pool, alloc>>
      BY <1>13 DEF RevalidateReads, Return, bufVars
    <2>. QED
      BY <1>2, <2>1, <2>2, <2>3, FrameStep
  <1>14. CASE Store(r)
    <2>1. \A q \in Requests : UsesBuffer(q)' => UsesBuffer(q)
      BY <1>14 DEF Store, Return, UsesBuffer, BufferInv, TypeOK
    <2>2. OwnedUntilReturn'
      BY <1>14 DEF Store, Return, bufVars, OwnedUntilReturn, BufferInv, TypeOK, reqVars
    <2>3. UNCHANGED <<buf, pool, alloc>>
      BY <1>14 DEF Store, Return, bufVars
    <2>. QED
      BY <1>2, <2>1, <2>2, <2>3, FrameStep
  <1>15. CASE Snapshot(r)
    <2>1. \A q \in Requests : UsesBuffer(q)' => UsesBuffer(q)
      BY <1>15, PublishUses DEF Snapshot
    <2>2. OwnedUntilReturn'
      BY <1>15 DEF Snapshot, Return, bufVars, OwnedUntilReturn, BufferInv, TypeOK, reqVars
    <2>3. UNCHANGED <<buf, pool, alloc>>
      BY <1>15 DEF Snapshot, Return, bufVars
    <2>. QED
      BY <1>2, <2>1, <2>2, <2>3, FrameStep
  <1>16. CASE UpstreamReturnsEarly(r)
    <2>1. \A q \in Requests : UsesBuffer(q)' => UsesBuffer(q)
      BY <1>16 DEF UpstreamReturnsEarly, Return, UsesBuffer, BufferInv, TypeOK
    <2>2. OwnedUntilReturn'
      BY <1>16 DEF UpstreamReturnsEarly, Return, bufVars, OwnedUntilReturn, BufferInv, TypeOK, reqVars
    <2>3. UNCHANGED <<buf, pool, alloc>>
      BY <1>16 DEF UpstreamReturnsEarly, Return, bufVars
    <2>. QED
      BY <1>2, <2>1, <2>2, <2>3, FrameStep
  <1>17. CASE UpstreamAgain(r)
    <2>1. \A q \in Requests : UsesBuffer(q)' => UsesBuffer(q)
      BY <1>17 DEF UpstreamAgain, Return, UsesBuffer, BufferInv, TypeOK
    <2>2. OwnedUntilReturn'
      BY <1>17 DEF UpstreamAgain, Return, bufVars, OwnedUntilReturn, BufferInv, TypeOK, reqVars
    <2>3. UNCHANGED <<buf, pool, alloc>>
      BY <1>17 DEF UpstreamAgain, Return, bufVars
    <2>. QED
      BY <1>2, <2>1, <2>2, <2>3, FrameStep
  <1>18. CASE UpstreamApplies(r)
    <2>1. \A q \in Requests : UsesBuffer(q)' => UsesBuffer(q)
      BY <1>18 DEF UpstreamApplies, Return, UsesBuffer, BufferInv, TypeOK
    <2>2. OwnedUntilReturn'
      BY <1>18 DEF UpstreamApplies, Return, bufVars, OwnedUntilReturn, BufferInv, TypeOK, reqVars
    <2>3. UNCHANGED <<buf, pool, alloc>>
      BY <1>18 DEF UpstreamApplies, Return, bufVars
    <2>. QED
      BY <1>2, <2>1, <2>2, <2>3, FrameStep
  <1>19. CASE Release(r)
    <2>1. UsesBuffer(r) /\ OwnedUntilReturn'
      BY <1>19 DEF Release, UsesBuffer, OwnedUntilReturn, BufferInv, reqVars
    <2>2. \A q \in Requests : UsesBuffer(q)' => UsesBuffer(q)
      BY <1>19 DEF Release, UsesBuffer, BufferInv, TypeOK
    <2>3. CASE owned[r]
      BY <1>2, <1>19, <2>1, <2>2, <2>3, FrameStep DEF Release
    <2>4. CASE ~owned[r]
      <3>1. pc[r] \in {"done", "crash"}
        BY <2>4 DEF BufferInv, OwnedUntilReturn
      <3>2. ~UsesBuffer(r)'
        BY <1>19, <3>1 DEF Release, UsesBuffer, BufferInv, TypeOK
      <3>. QED
        BY <1>2, <1>19, <2>1, <2>2, <2>4, <3>2, PutStep DEF Release
    <2>. QED
      BY <2>3, <2>4
  <1>20. CASE Notify(r)
    <2>1. \A q \in Requests : UsesBuffer(q)' => UsesBuffer(q)
      BY <1>20 DEF Notify, Return, UsesBuffer, BufferInv, TypeOK
    <2>2. OwnedUntilReturn'
      BY <1>20 DEF Notify, Return, bufVars, OwnedUntilReturn, BufferInv, TypeOK, reqVars
    <2>3. UNCHANGED <<buf, pool, alloc>>
      BY <1>20 DEF Notify, Return, bufVars
    <2>. QED
      BY <1>2, <2>1, <2>2, <2>3, FrameStep
  <1>21. CASE RevalidateApplies(r)
    <2>1. \A q \in Requests : UsesBuffer(q)' => UsesBuffer(q)
      BY <1>21 DEF RevalidateApplies, Return, UsesBuffer, BufferInv, TypeOK
    <2>2. OwnedUntilReturn'
      BY <1>21 DEF RevalidateApplies, Return, bufVars, OwnedUntilReturn, BufferInv, TypeOK, reqVars
    <2>3. UNCHANGED <<buf, pool, alloc>>
      BY <1>21 DEF RevalidateApplies, Return, bufVars
    <2>. QED
      BY <1>2, <2>1, <2>2, <2>3, FrameStep
  <1>22. CASE RevalidatePanics(r)
    <2>1. UsesBuffer(r) /\ ~UsesBuffer(r)'
      BY <1>22 DEF RevalidatePanics, Return, UsesBuffer, BufferInv, TypeOK
    <2>2. \A q \in Requests \ {r} : UsesBuffer(q)' => UsesBuffer(q)
      BY <1>22 DEF RevalidatePanics, Return, UsesBuffer, BufferInv, TypeOK
    <2>3. pool' = [pool EXCEPT ![buf[r]] = @ + 1] \/ pool' = pool
      BY <1>22, Zenon DEF RevalidatePanics, Return
    <2>4. OwnedUntilReturn'
      BY <1>22 DEF RevalidatePanics, Return, OwnedUntilReturn, BufferInv, TypeOK, reqVars
    <2>. QED
      BY <1>2, <1>22, <2>1, <2>2, <2>3, <2>4, PutStep DEF RevalidatePanics
  <1>23. CASE Crash(r)
    <2>1. \A q \in Requests : UsesBuffer(q)' => UsesBuffer(q)
      BY <1>23 DEF Crash, Return, UsesBuffer, BufferInv, TypeOK
    <2>2. OwnedUntilReturn'
      BY <1>23 DEF Crash, Return, bufVars, OwnedUntilReturn, BufferInv, TypeOK, reqVars
    <2>3. UNCHANGED <<buf, pool, alloc>>
      BY <1>23 DEF Crash, Return, bufVars
    <2>. QED
      BY <1>2, <2>1, <2>2, <2>3, FrameStep
  <1>24. CASE RespondFresh(r)
    BY <1>2, <1>24, RespondStep DEF RespondFresh
  <1>25. CASE RespondStaleOnError(r)
    BY <1>2, <1>25, RespondStep DEF RespondStaleOnError
  <1>26. CASE RespondGatewayTimeout(r)
    BY <1>2, <1>26, RespondStep DEF RespondGatewayTimeout
  <1>27. CASE RespondStored(r)
    BY <1>2, <1>27, RespondStep DEF RespondStored
  <1>28. CASE RespondNotModified(r)
    BY <1>2, <1>28, RespondStep DEF RespondNotModified
  <1>29. CASE RespondRevalidated(r)
    BY <1>2, <1>29, RespondStep DEF RespondRevalidated
  <1>30. CASE FallThrough(r)
    <2>1. \A q \in Requests : UsesBuffer(q)' => UsesBuffer(q)
      BY <1>30 DEF FallThrough, Return, UsesBuffer, BufferInv, TypeOK
    <2>2. OwnedUntilReturn'
      BY <1>30 DEF FallThrough, Return, bufVars, OwnedUntilReturn, BufferInv, TypeOK, reqVars
    <2>3. UNCHANGED <<buf, pool, alloc>>
      BY <1>30 DEF FallThrough, Return, bufVars
    <2>. QED
      BY <1>2, <2>1, <2>2, <2>3, FrameStep
  <1>31. CASE Fetch(r)
    <2>1. \A q \in Requests : UsesBuffer(q)' => UsesBuffer(q)
      BY <1>31 DEF Fetch, Return, UsesBuffer, BufferInv, TypeOK
    <2>2. OwnedUntilReturn'
      BY <1>31 DEF Fetch, Return, bufVars, OwnedUntilReturn, BufferInv, TypeOK, reqVars
    <2>3. UNCHANGED <<buf, pool, alloc>>
      BY <1>31 DEF Fetch, Return, bufVars
    <2>. QED
      BY <1>2, <2>1, <2>2, <2>3, FrameStep
  <1>32. CASE EndContext(r)
    <2>1. \A q \in Requests : UsesBuffer(q)' => UsesBuffer(q)
      BY <1>32 DEF EndContext, Return, UsesBuffer, BufferInv, TypeOK
    <2>2. OwnedUntilReturn'
      BY <1>32 DEF EndContext, Return, bufVars, OwnedUntilReturn, BufferInv, TypeOK, reqVars
    <2>3. UNCHANGED <<buf, pool, alloc>>
      BY <1>32 DEF EndContext, Return, bufVars
    <2>. QED
      BY <1>2, <2>1, <2>2, <2>3, FrameStep
  <1>. QED
    BY <1>3, <1>4, <1>5, <1>6, <1>7, <1>8, <1>9, <1>10, <1>11, <1>12, <1>13, <1>14, <1>15, <1>16, <1>17, <1>18, <1>19, <1>20, <1>21, <1>22, <1>23, <1>24, <1>25, <1>26, <1>27, <1>28, <1>29, <1>30, <1>31, <1>32
       DEF Handler, Participant

\* Every reachable state has the types that TypeOK gives: the request path never
\* stores, shares or sends anything but whole values of the declared shapes.
THEOREM TypeCorrect == Spec => []TypeOK
  <1>1. BufferInv => TypeOK
    BY DEF BufferInv
  <1>. QED
    BY <1>1, InitBufferInv, BufferStep, PTL DEF Spec

\* For any number of requests, keys and buffers, and any order of timeouts,
\* cancellations, panics and answers, no buffer is in the pool twice or while a
\* request may touch it, and no two requests share one (bufPoolOwned).
THEOREM BuffersAreExclusive == Spec => []BufferExclusive
  <1>1. BufferInv => BufferExclusive
    BY DEF BufferInv
  <1>. QED
    BY <1>1, InitBufferInv, BufferStep, PTL DEF Spec

-----------------------------------------------------------------------------
(***************************************************************************)
(* What is sent to clients and stored.  From the exclusive buffers follows *)
(* how little one request can do to another: it can hand it the result of  *)
(* a call that it has waited for, and nothing else (OthersKeep).  What a   *)
(* request finds in its buffer and in its headers is then its own doing,   *)
(* or comes with such a result.                                            *)
(***************************************************************************)

Step(r) == Handler(r) \/ Participant(r) \/ Fetch(r) \/ EndContext(r)

-----------------------------------------------------------------------------
(* What one request does to the others. *)

\* doCall's deferred function reaches those that have joined the call.
LEMMA PublishReaches ==
  ASSUME TypeOK, NEW r \in Requests, NEW v, Publish(r, v)
  PROVE  /\ wk'[r] = "apply" /\ res'[r] = v
         /\ \A q \in Requests : q # r =>
              \/ wk'[q] = wk[q] /\ res'[q] = res[q]
              \/ /\ wk[q] = "join" /\ KeyOf[q] = KeyOf[r] /\ Followers(r) # {}
                 /\ wk'[q] = "apply" /\ res'[q] = v
  BY DEF Publish, Followers

\* A publication always says whether it was shared, or carries an error.
LEMMA PublishShares ==
  ASSUME TypeOK, NEW r \in Requests, NEW q \in Requests, q # r,
         \/ Panic(r) \/ UpstreamFails(r) \/ RevalidateSettles(r) \/ Snapshot(r)
  PROVE  /\ wk'[r] = "apply" /\ wk[r] \in {"fetched", "snapshot"}
         /\ \/ wk'[q] = wk[q] /\ res'[q] = res[q]
            \/ /\ wk[q] = "join" /\ KeyOf[q] = KeyOf[r]
               /\ wk'[q] = "apply" /\ res'[q] = res'[r]
               /\ res'[r].err = "none" => res'[r].shared
  <1>1. CASE Panic(r) \/ UpstreamFails(r) \/ RevalidateSettles(r)
    <2>1. PICK e \in {"panic", "fail", "50x", "other"} : Publish(r, Error(e))
      BY <1>1 DEF Panic, UpstreamFails, RevalidateSettles
    <2>2. Error(e).err # "none"
      BY DEF Error
    <2>. QED
      BY <1>1, <2>1, <2>2, PublishReaches DEF Panic, UpstreamFails, RevalidateSettles
  <1>2. CASE Snapshot(r)
    <2>1. Publish(r, Value(r)) /\ wk[r] = "snapshot"
      BY <1>2 DEF Snapshot
    <2>2. Followers(r) # {} => Value(r).shared
      BY DEF Value
    <2>. QED
      BY <2>1, <2>2, PublishReaches
  <1>. QED
    BY <1>1, <1>2

\* The writer, the headers and the place of another request stay what they are,
\* its buffer included.
LEMMA OthersKeep ==
  ASSUME BufferInv, NEW r \in Requests, Step(r), NEW q \in Requests, q # r
  PROVE  /\ mode'[q] = mode[q] /\ cli' = cli /\ ctx'[q] = ctx[q]
         /\ status'[q] = status[q] /\ rwHdr'[q] = rwHdr[q] /\ draft'[q] = draft[q]
         /\ out'[q] = out[q] /\ solo'[q] = solo[q] /\ buf'[q] = buf[q]
         /\ UsesBuffer(q) => content'[buf[q]] = content[buf[q]]
  <1>1. TypeOK /\ HasBuffer
    BY DEF BufferInv
  <1>2. UsesBuffer(r) /\ UsesBuffer(q) => buf[r] # buf[q] /\ buf[q] \in Buffers
    BY <1>1 DEF BufferInv, BufferExclusive, HasBuffer, TypeOK
  <1>3. CASE Start(r)
    <2>1. PICK b \in Buffers : GetBuffer(b) /\ buf' = [buf EXCEPT ![r] = b]
                               /\ content' = [content EXCEPT ![b] = <<>>]
      BY <1>3 DEF Start
    <2>2. UsesBuffer(q) => buf[q] # b
      BY <2>1, <1>1 DEF GetBuffer, BufferInv, BufferExclusive, HasBuffer, TypeOK
    <2>. QED
      BY <1>1, <1>3, <2>1, <2>2 DEF Start, TypeOK, reqVars
  <1>4. CASE StartBackground(r)
    <2>1. \E m : rwHdr' = [rwHdr EXCEPT ![r] = m]
      BY <1>4, PutHeaderOwn DEF StartBackground
    <2>2. rwHdr'[q] = rwHdr[q]
      BY <1>1, <2>1 DEF TypeOK
    <2>. QED
      BY <1>1, <1>4, <2>2 DEF StartBackground, TypeOK, Send, reqVars
  <1>5. CASE ReturnBackground(r)
    BY <1>1, <1>2, <1>5 DEF ReturnBackground, TypeOK, reqVars, bufVars, Return
  <1>6. CASE SelectContextDone(r)
    BY <1>1, <1>2, <1>6 DEF SelectContextDone, TypeOK, reqVars, bufVars, Return, WriteCode
  <1>7. CASE SelectResponse(r)
    BY <1>1, <1>2, <1>7 DEF SelectResponse, TypeOK, reqVars, bufVars, Return, Send, UsesBuffer
  <1>8. CASE Do(r)
    BY <1>1, <1>2, <1>8 DEF Do, TypeOK, reqVars, bufVars
  <1>9. CASE Panic(r)
    BY <1>1, <1>2, <1>9 DEF Panic, TypeOK, reqVars, bufVars
  <1>10. CASE UpstreamFails(r)
    BY <1>1, <1>2, <1>10 DEF UpstreamFails, TypeOK, reqVars, bufVars
  <1>11. CASE UpstreamReads(r)
    BY <1>1, <1>2, <1>11 DEF UpstreamReads, TypeOK, reqVars, bufVars
  <1>12. CASE RevalidateSettles(r)
    BY <1>1, <1>2, <1>12 DEF RevalidateSettles, TypeOK, reqVars, bufVars, WriteCode, UsesBuffer
  <1>13. CASE RevalidateReads(r)
    BY <1>1, <1>2, <1>13 DEF RevalidateReads, TypeOK, reqVars, bufVars
  <1>14. CASE Store(r)
    BY <1>1, <1>2, <1>14 DEF Store, TypeOK, reqVars, bufVars
  <1>15. CASE Snapshot(r)
    BY <1>1, <1>2, <1>15 DEF Snapshot, TypeOK, reqVars, bufVars, UsesBuffer
  <1>16. CASE UpstreamReturnsEarly(r)
    BY <1>1, <1>2, <1>16 DEF UpstreamReturnsEarly, TypeOK, reqVars, bufVars
  <1>17. CASE UpstreamAgain(r)
    BY <1>1, <1>2, <1>17 DEF UpstreamAgain, TypeOK, reqVars, bufVars
  <1>18. CASE UpstreamApplies(r)
    BY <1>1, <1>2, <1>18 DEF UpstreamApplies, TypeOK, reqVars, bufVars, CopyValue, PutHeader, UsesBuffer
  <1>19. CASE Release(r)
    <2>1. content' = content \/ content' = [content EXCEPT ![buf[r]] = <<>>]
      BY <1>19 DEF Release
    <2>2. UsesBuffer(q) => content'[buf[q]] = content[buf[q]]
      <3>1. UsesBuffer(r) /\ buf' = buf
        BY <1>19 DEF Release, UsesBuffer, bufVars
      <3>. QED
        BY <1>1, <1>2, <2>1, <3>1 DEF TypeOK
    <2>. QED
      BY <1>19, <2>2 DEF Release, reqVars
  <1>20. CASE Notify(r)
    BY <1>1, <1>2, <1>20 DEF Notify, TypeOK, reqVars, bufVars
  <1>21. CASE RevalidateApplies(r)
    <2>1. /\ content' = content \/ content' = [content EXCEPT ![buf[r]] = res[r].body]
          /\ rwHdr' = rwHdr \/ \E m : rwHdr' = [rwHdr EXCEPT ![r] = m]
          /\ status' = status \/ status' = [status EXCEPT ![r] = res[r].code]
      BY <1>21 DEF RevalidateApplies, CopyValue, PutHeader
    <2>2. UsesBuffer(q) => content'[buf[q]] = content[buf[q]]
      <3>1. UsesBuffer(r) /\ buf' = buf
        BY <1>21 DEF RevalidateApplies, UsesBuffer, bufVars
      <3>. QED
        BY <1>1, <1>2, <2>1, <3>1 DEF TypeOK
    <2>. QED
      BY <1>1, <1>21, <2>1, <2>2 DEF RevalidateApplies, reqVars, bufVars, TypeOK
  <1>22. CASE RevalidatePanics(r)
    BY <1>1, <1>2, <1>22 DEF RevalidatePanics, TypeOK, reqVars, bufVars, Return, UsesBuffer
  <1>23. CASE Crash(r)
    BY <1>1, <1>2, <1>23 DEF Crash, TypeOK, reqVars, bufVars
  <1>24. CASE FallThrough(r)
    BY <1>1, <1>2, <1>24 DEF FallThrough, TypeOK, reqVars, bufVars
  <1>25. CASE Fetch(r)
    <2>1. /\ \E x : content' = content \/ content' = [content EXCEPT ![buf[r]] = x]
          /\ \E c : rwHdr' = rwHdr \/ rwHdr' = [rwHdr EXCEPT ![r] = c]
          /\ \E d : status' = status \/ status' = [status EXCEPT ![r] = d]
      <3>1. PICK a \in Answers :
              IF a.kind = "fail"
              THEN UNCHANGED <<status, rwHdr, content>>
              ELSE /\ status' = [status EXCEPT ![r] = Code(a)]
                   /\ PutHeader(r, {Len(calls) + 1})
                   /\ content' = [content EXCEPT ![buf[r]] = @ \o
                        CASE a.kind = "abort" -> Cut(Len(calls) + 1)
                          [] a.kind = "notModified" -> <<>>
                          [] OTHER -> Whole(Len(calls) + 1)]
        BY <1>25 DEF Fetch
      <3>2. \E x : content' = content \/ content' = [content EXCEPT ![buf[r]] = x]
        BY <3>1
      <3>. QED
        BY <3>1, <3>2 DEF PutHeader
    <2>2. UsesBuffer(q) => content'[buf[q]] = content[buf[q]]
      <3>1. UsesBuffer(r) /\ buf' = buf
        BY <1>25 DEF Fetch, UsesBuffer, bufVars
      <3>. QED
        BY <1>1, <1>2, <2>1, <3>1 DEF TypeOK
    <2>. QED
      <3>1. UNCHANGED <<mode, cli, ctx, draft, out, solo, buf>>
        BY <1>25 DEF Fetch, reqVars, bufVars
      <3>2. status'[q] = status[q] /\ rwHdr'[q] = rwHdr[q]
        BY <1>1, <2>1 DEF TypeOK
      <3>. QED
        BY <2>2, <3>1, <3>2
  <1>26. CASE EndContext(r)
    BY <1>1, <1>2, <1>26 DEF EndContext, TypeOK, reqVars, bufVars
  <1>27. CASE \/ RespondFresh(r) \/ RespondStaleOnError(r) \/ RespondGatewayTimeout(r)
            \/ RespondStored(r) \/ RespondNotModified(r) \/ RespondRevalidated(r)
    <2>1. PICK code, body, h : Respond(r, code, body, h) /\ wk[r] = "revalidated"
      <3>1. CASE RespondFresh(r) \/ RespondStaleOnError(r) \/ RespondGatewayTimeout(r)
        BY <3>1 DEF RespondFresh, RespondStaleOnError, RespondGatewayTimeout
      <3>2. CASE RespondStored(r) \/ RespondNotModified(r) \/ RespondRevalidated(r)
        BY <3>2 DEF RespondStored, RespondNotModified, RespondRevalidated
      <3>. QED
        BY <1>27, <3>1, <3>2
    <2>. QED
      BY <1>1, <1>2, <2>1 DEF Respond, Return, Send, UsesBuffer, TypeOK, reqVars
  <1>. QED
    BY <1>3, <1>4, <1>5, <1>6, <1>7, <1>8, <1>9, <1>10, <1>11, <1>12, <1>13, <1>14, <1>15, <1>16, <1>17, <1>18, <1>19, <1>20, <1>21, <1>22, <1>23, <1>24, <1>25, <1>26, <1>27 DEF Step, Handler, Participant

\* Nor does anybody move another request, but to give it the result it waits
\* for, or by ending the process.
LEMMA OthersWait ==
  ASSUME BufferInv, NEW r \in Requests, Step(r), NEW q \in Requests, q # r
  PROVE  \/ wk'[q] = wk[q] /\ res'[q] = res[q] /\ pc'[q] = pc[q]
         \/ /\ wk[q] = "join" /\ KeyOf[q] = KeyOf[r] /\ wk[r] \in {"fetched", "snapshot"}
            /\ wk'[q] = "apply" /\ wk'[r] = "apply" /\ res'[q] = res'[r] /\ pc'[q] = pc[q]
            /\ res'[r].err = "none" => res'[r].shared
         \/ Crash(r)
  <1>1. TypeOK
    BY DEF BufferInv
  <1>2. CASE Panic(r) \/ UpstreamFails(r) \/ RevalidateSettles(r) \/ Snapshot(r)
    BY <1>1, <1>2, PublishShares DEF Panic, UpstreamFails, RevalidateSettles, Snapshot
  <1>3. CASE \/ Start(r) \/ StartBackground(r) \/ ReturnBackground(r) \/ SelectContextDone(r)
             \/ SelectResponse(r) \/ EndContext(r) \/ Fetch(r)
    BY <1>1, <1>3 DEF Start, StartBackground, ReturnBackground, SelectContextDone,
                      SelectResponse, EndContext, Fetch, Return, TypeOK
  <1>4. CASE \/ Do(r) \/ UpstreamReads(r) \/ RevalidateReads(r) \/ Store(r) \/ UpstreamApplies(r)
             \/ UpstreamReturnsEarly(r) \/ UpstreamAgain(r) \/ Release(r) \/ Notify(r)
             \/ RevalidateApplies(r) \/ RevalidatePanics(r) \/ FallThrough(r)
    BY <1>1, <1>4 DEF Do, UpstreamReads, RevalidateReads, Store, UpstreamApplies,
                      UpstreamReturnsEarly, UpstreamAgain, Release, Notify, RevalidateApplies,
                      RevalidatePanics, FallThrough, Return, TypeOK
  <1>5. CASE RespondFresh(r) \/ RespondStaleOnError(r) \/ RespondGatewayTimeout(r)
    BY <1>1, <1>5 DEF RespondFresh, RespondStaleOnError, RespondGatewayTimeout, Respond,
                      Return, TypeOK
  <1>6. CASE RespondStored(r) \/ RespondNotModified(r) \/ RespondRevalidated(r)
    BY <1>1, <1>6 DEF RespondStored, RespondNotModified, RespondRevalidated, Respond,
                      Return, TypeOK
  <1>. QED
    BY <1>2, <1>3, <1>4, <1>5, <1>6 DEF Step, Handler, Participant

\* Upstream calls are only added, by the request that fetches.
LEMMA CallsGrow ==
  ASSUME BufferInv, NEW r \in Requests, Step(r)
  PROVE  /\ Len(calls) \in Nat
         /\ \/ calls' = calls
            \/ /\ wk[r] = "fetch"
               /\ Len(calls') = Len(calls) + 1
               /\ calls'[Len(calls) + 1].by = r /\ calls'[Len(calls) + 1].ans \in Answers
         /\ \A c \in 1 .. Len(calls) : c \in 1 .. Len(calls') /\ calls'[c] = calls[c]
  <1>1. calls \in Seq([by : Requests, ans : AllAnswers])
    BY DEF BufferInv, TypeOK
  <1>2. CASE Fetch(r)
    <2>1. PICK a \in Answers : calls' = Append(calls, [by |-> r, ans |-> a])
      BY <1>2 DEF Fetch
    <2>2. [by |-> r, ans |-> a] \in [by : Requests, ans : AllAnswers]
      BY ConstantsAssumption
    <2>3. /\ Len(calls') = Len(calls) + 1 /\ calls'[Len(calls) + 1] = [by |-> r, ans |-> a]
          /\ \A c \in 1 .. Len(calls) : calls'[c] = calls[c]
      BY <1>1, <2>1, <2>2
    <2>4. wk[r] = "fetch"
      BY <1>2 DEF Fetch
    <2>. QED
      BY <1>1, <2>3, <2>4
  <1>3. ASSUME Handler(r) \/ EndContext(r) PROVE calls' = calls
    BY <1>3 DEF Handler, Start, StartBackground, ReturnBackground, SelectContextDone,
                      SelectResponse, EndContext
  <1>4. ASSUME \/ Do(r) \/ Panic(r) \/ UpstreamFails(r) \/ UpstreamReads(r)
               \/ RevalidateSettles(r) \/ RevalidateReads(r) \/ Store(r) \/ Snapshot(r)
        PROVE  calls' = calls
    BY <1>4 DEF Do, Panic, UpstreamFails, UpstreamReads, RevalidateSettles,
                      RevalidateReads, Store, Snapshot
  <1>5. ASSUME \/ UpstreamReturnsEarly(r) \/ UpstreamAgain(r) \/ UpstreamApplies(r)
               \/ Release(r) \/ Notify(r) \/ RevalidateApplies(r) \/ RevalidatePanics(r)
               \/ Crash(r) \/ FallThrough(r)
        PROVE  calls' = calls
    BY <1>5 DEF UpstreamReturnsEarly, UpstreamAgain, UpstreamApplies, Release, Notify,
                      RevalidateApplies, RevalidatePanics, Crash, FallThrough
  <1>6. ASSUME \/ RespondFresh(r) \/ RespondStaleOnError(r) \/ RespondGatewayTimeout(r)
               \/ RespondStored(r) \/ RespondNotModified(r) \/ RespondRevalidated(r)
        PROVE  calls' = calls
    BY <1>6 DEF RespondFresh, RespondStaleOnError, RespondGatewayTimeout, RespondStored,
                      RespondNotModified, RespondRevalidated, Respond
  <1>7. Fetch(r) \/ calls' = calls
    BY <1>3, <1>4, <1>5, <1>6 DEF Step, Participant
  <1>8. CASE calls' = calls
    BY <1>1, <1>8
  <1>. QED
    BY <1>2, <1>7, <1>8

-----------------------------------------------------------------------------
(***************************************************************************)
(* What is stored, and what stale-if-error hides, in every mode and with   *)
(* contexts that end at any moment.                                        *)
(***************************************************************************)

\* c is the last call that r has made.
IsLast(c, r) ==
  /\ c \in 1 .. Len(calls) /\ calls[c].by = r
  /\ \A d \in (c + 1) .. Len(calls) : calls[d].by # r

\* The handler itself revalidates: nothing else is written to the header map.
OnlyRevalidates(r) == mode[r] \notin {"miss", "swr"}
Untouched(r) ==
  OnlyRevalidates(r) /\ wk[r] \in {"off", "do", "join", "fetch"} => rwHdr[r] = Blank

\* Nobody takes part in a flight before its handler has started.
Unstarted(r) == pc[r] = "new" => wk[r] = "off"

\* The call that r has made has filled its writer; its headers can be read as
\* long as the context lives.
Filled(r, c) ==
  /\ calls[c].ans.kind # "fail" =>
       status[r] = Code(calls[c].ans) /\ (ctx[r] = "live" => c \in rwHdr[r])
  /\ OnlyRevalidates(r) => rwHdr[r] \subseteq {c}
  /\ calls[c].ans.kind = "ok" =>
       \E i \in DOMAIN content[buf[r]] : content[buf[r]][i].call = c

\* What has been read of the response allows to store it only if it may be.
Storable(r, c) ==
  /\ calls[c].ans.kind # "abort"
  /\ mode[r] = "miss" => calls[c].ans.kind \in {"ok", "notModified"}
  /\ draft[r].store /\ ctx[r] = "live" =>
       /\ c \in draft[r].hdr /\ calls[c].ans.kind = "ok" /\ ~calls[c].ans.private
       /\ OnlyRevalidates(r) => draft[r].hdr = {c}

FetchedOk(r) ==
  wk[r] \in {"fetched", "store", "snapshot"} =>
    \E c \in 1 .. Len(calls) : /\ IsLast(c, r) /\ Filled(r, c)
                               /\ wk[r] # "fetched" => Storable(r, c)

\* A result without an error, and what Revalidate makes of it, is no 50x.
Codes == {200, 304, 500}
ResultOk(r) ==
  /\ status[r] \in Codes /\ res[r].code \in Codes
  /\ wk[r] = "apply" /\ res[r].err = "none" => res[r].val /\ res[r].code # 500
  /\ wk[r] = "revalidated" /\ res[r].err = "none" => status[r] # 500

SentOk(r) == mode[r] = "stale" /\ cli[r].sie => out[r].code \notin {500, 504}

AnswerInv ==
  /\ BufferInv
  /\ \A r \in Requests : FetchedOk(r) /\ ResultOk(r) /\ SentOk(r) /\ Untouched(r) /\ Unstarted(r)
  /\ StoredHeadersIntact

\* LastCall finds the last call.
LEMMA LastCallIs ==
  ASSUME TypeOK, NEW r \in Requests, NEW c, IsLast(c, r)
  PROVE  LastCall(r) = c
  <1>1. Len(calls) \in Nat
    BY DEF TypeOK
  <1>2. \A d \in 1 .. Len(calls) :
          calls[d].by = r /\ (\A e \in (d + 1) .. Len(calls) : calls[e].by # r) => d = c
    BY <1>1 DEF IsLast
  <1>. QED
    BY <1>2 DEF LastCall, IsLast


\* What one request keeps of its own while others take their steps.
LEMMA OtherAnswer ==
  ASSUME AnswerInv, NEW r \in Requests, Step(r), ResultOk(r)', NEW q \in Requests, q # r
  PROVE  /\ FetchedOk(q)' /\ ResultOk(q)' /\ SentOk(q)'
         /\ Untouched(q)' /\ Unstarted(q)'
  <1>1. /\ BufferInv /\ FetchedOk(q) /\ ResultOk(q) /\ SentOk(q)
        /\ Untouched(q) /\ Unstarted(q)
    BY DEF AnswerInv
  <1>2. /\ mode'[q] = mode[q] /\ cli' = cli /\ ctx'[q] = ctx[q]
        /\ status'[q] = status[q] /\ rwHdr'[q] = rwHdr[q] /\ draft'[q] = draft[q]
        /\ out'[q] = out[q] /\ buf'[q] = buf[q]
        /\ UsesBuffer(q) => content'[buf[q]] = content[buf[q]]
    BY <1>1, OthersKeep
  <1>3. \/ wk'[q] = wk[q] /\ res'[q] = res[q]
        \/ wk'[q] = "apply" /\ wk'[r] = "apply" /\ res'[q] = res'[r]
        \/ Crash(r)
    BY <1>1, OthersWait
  <1>4. Crash(r) => wk'[q] = "crash" /\ res' = res
    BY DEF Crash
  <1>5. SentOk(q)'
    BY <1>1, <1>2 DEF SentOk
  <1>6. ResultOk(q)'
    BY <1>1, <1>2, <1>3, <1>4 DEF ResultOk
  <1>7. FetchedOk(q)'
    <2>. SUFFICES ASSUME wk'[q] \in {"fetched", "store", "snapshot"}
                  PROVE  \E c \in 1 .. Len(calls') :
                           /\ IsLast(c, q)' /\ Filled(q, c)'
                           /\ wk'[q] # "fetched" => Storable(q, c)'
      BY DEF FetchedOk
    <2>1. wk'[q] = wk[q] /\ UsesBuffer(q)
      BY <1>3, <1>4 DEF UsesBuffer
    <2>2. PICK c \in 1 .. Len(calls) :
            IsLast(c, q) /\ Filled(q, c) /\ (wk[q] # "fetched" => Storable(q, c))
      BY <1>1, <2>1 DEF FetchedOk
    <2>3. c \in 1 .. Len(calls') /\ calls'[c] = calls[c]
      BY <1>1, CallsGrow
    <2>4. IsLast(c, q)'
      <3>1. Len(calls) \in Nat /\ \A d \in 1 .. Len(calls') :
              \/ d \in 1 .. Len(calls) /\ calls'[d] = calls[d]
              \/ d = Len(calls) + 1 /\ calls'[d].by = r
        <4>1. CASE calls' = calls
          BY <1>1, <4>1, CallsGrow
        <4>2. CASE Len(calls') = Len(calls) + 1 /\ calls'[Len(calls) + 1].by = r
          BY <1>1, <4>2, CallsGrow
        <4>. QED
          BY <1>1, <4>1, <4>2, CallsGrow
      <3>2. \A d \in (c + 1) .. Len(calls') : d \in 1 .. Len(calls')
        BY <3>1
      <3>. QED
        BY <2>2, <2>3, <3>1, <3>2 DEF IsLast
    <2>5. Filled(q, c)'
      BY <1>2, <2>1, <2>2, <2>3 DEF Filled, OnlyRevalidates
    <2>6. Storable(q, c) => Storable(q, c)'
      BY <1>2, <2>1, <2>2, <2>3 DEF Storable, OnlyRevalidates
    <2>. QED
      BY <2>1, <2>2, <2>3, <2>4, <2>5, <2>6
  <1>8. Untouched(q)'
    BY <1>1, <1>2, <1>3, <1>4 DEF Untouched, OnlyRevalidates
  <1>9. Unstarted(q)'
    BY <1>1, OthersWait DEF Unstarted, Crash
  <1>. QED
    BY <1>5, <1>6, <1>7, <1>8, <1>9

\* What the upstream server adds to a buffer ends in a piece of its call.
LEMMA PieceAdded ==
  ASSUME NEW b \in Body, NEW c \in Nat
  PROVE  /\ \E i \in DOMAIN (b \o Whole(c)) : (b \o Whole(c))[i].call = c
         /\ b = <<>> => b \o Whole(c) = Whole(c) /\ b \o Cut(c) = Cut(c) /\ b \o <<>> = <<>>
  <1>. DEFINE p == [call |-> c, whole |-> TRUE]
  <1>1. p \in Piece /\ b \in Seq(Piece)
    BY DEF Piece, Body
  <1>2. Len(b) + 1 \in DOMAIN (b \o <<p>>) /\ (b \o <<p>>)[Len(b) + 1] = p
    BY <1>1
  <1>3. Whole(c) = <<p>> /\ p.call = c
    BY DEF Whole
  <1>4. b = <<>> => b \o Whole(c) = Whole(c) /\ b \o Cut(c) = Cut(c) /\ b \o <<>> = <<>>
    BY DEF Whole, Cut
  <1>. HIDE DEF p
  <1>5. \E i \in DOMAIN (b \o Whole(c)) : (b \o Whole(c))[i].call = c
    BY <1>2, <1>3
  <1>. QED
    BY <1>4, <1>5

\* next answers: the call is the last one of r.
LEMMA FetchCalls ==
  ASSUME BufferInv, NEW r \in Requests, Fetch(r), NEW c, c = Len(calls) + 1
  PROVE  /\ wk[r] = "fetch" /\ wk'[r] = "fetched" /\ c \in Nat \ {0} /\ Len(calls') = c
         /\ calls'[c].by = r /\ calls'[c].ans \in Answers /\ IsLast(c, r)'
  <1>1. wk'[r] = "fetched" /\ wk[r] = "fetch" /\ calls \in Seq([by : Requests, ans : AllAnswers])
    BY DEF Fetch, BufferInv, TypeOK
  <1>2. PICK x \in Answers : calls' = Append(calls, [by |-> r, ans |-> x])
    BY DEF Fetch
  <1>3. [by |-> r, ans |-> x] \in [by : Requests, ans : AllAnswers]
    BY ConstantsAssumption
  <1>4. Len(calls) \in Nat /\ calls'[c] = [by |-> r, ans |-> x] /\ Len(calls') = c
    BY <1>1, <1>2, <1>3
  <1>5. IsLast(c, r)'
    BY <1>4 DEF IsLast
  <1>. QED
    BY <1>1, <1>4, <1>5

\* The writer gets what the upstream server answers, and nothing from an error.
LEMMA FetchFills ==
  ASSUME BufferInv, NEW r \in Requests, Fetch(r), NEW c, c = Len(calls) + 1,
         NEW a, a = calls'[c].ans
  PROVE  /\ a.kind = "fail" => UNCHANGED <<status, rwHdr, content>>
         /\ a.kind # "fail" => status'[r] = Code(a) /\ (ctx[r] = "live" => c \in rwHdr'[r])
         /\ rwHdr'[r] \subseteq rwHdr[r] \union {c}
         /\ a.kind = "abort" => content'[buf[r]] = content[buf[r]] \o Cut(c)
         /\ a.kind = "notModified" => content'[buf[r]] = content[buf[r]] \o <<>>
         /\ a.kind \in {"ok", "error50x"} => content'[buf[r]] = content[buf[r]] \o Whole(c)
  <1>1. TypeOK /\ buf[r] \in Buffers /\ calls \in Seq([by : Requests, ans : AllAnswers])
    BY DEF BufferInv, HasBuffer, TypeOK, Fetch, UsesBuffer
  <1>2. PICK x \in Answers :
          /\ calls' = Append(calls, [by |-> r, ans |-> x])
          /\ IF x.kind = "fail"
             THEN UNCHANGED <<status, rwHdr, content>>
             ELSE /\ status' = [status EXCEPT ![r] = Code(x)]
                  /\ PutHeader(r, {c})
                  /\ content' = [content EXCEPT ![buf[r]] = @ \o
                       CASE x.kind = "abort" -> Cut(c)
                         [] x.kind = "notModified" -> <<>>
                         [] OTHER -> Whole(c)]
    BY DEF Fetch
  <1>3. a = x /\ {c} # Blank
    <2>1. [by |-> r, ans |-> x] \in [by : Requests, ans : AllAnswers]
      BY ConstantsAssumption
    <2>2. Len(calls) \in Nat /\ calls'[c] = [by |-> r, ans |-> x]
      BY <1>1, <1>2, <2>1
    <2>. QED
      BY <2>2 DEF Blank
  <1>4. ASSUME a.kind # "fail"
        PROVE  /\ status'[r] = Code(a) /\ (ctx[r] = "live" => c \in rwHdr'[r])
               /\ rwHdr'[r] \subseteq rwHdr[r] \union {c}
               /\ content'[buf[r]] = content[buf[r]] \o
                    CASE a.kind = "abort" -> Cut(c)
                      [] a.kind = "notModified" -> <<>>
                      [] OTHER -> Whole(c)
    <2>1. content' = [content EXCEPT ![buf[r]] = @ \o
                       CASE a.kind = "abort" -> Cut(c)
                         [] a.kind = "notModified" -> <<>>
                         [] OTHER -> Whole(c)]
      BY <1>2, <1>3, <1>4
    <2>2. status'[r] = Code(a)
      BY <1>1, <1>2, <1>3, <1>4 DEF TypeOK
    <2>3. (ctx[r] = "live" => c \in rwHdr'[r]) /\ rwHdr'[r] \subseteq rwHdr[r] \union {c}
      <3>1. PICK m \in Merged(r, {c}) : rwHdr' = [rwHdr EXCEPT ![r] = m]
        BY <1>2, <1>3, <1>4, PutHeaderOwn
      <3>2. (ctx[r] = "live" => c \in m) /\ m \subseteq rwHdr[r] \union {c}
        BY <1>3, <3>1 DEF Merged
      <3>. QED
        BY <1>1, <3>1, <3>2 DEF TypeOK
    <2>4. content \in [Buffers -> Body]
      BY <1>1 DEF TypeOK
    <2>. QED
      BY <1>1, <2>1, <2>2, <2>3, <2>4
  <1>5. a.kind = "fail" => UNCHANGED <<status, rwHdr, content>>
    BY <1>2, <1>3
  <1>9. rwHdr'[r] \subseteq rwHdr[r] \union {c}
    BY <1>4, <1>5
  <1>6. a.kind = "abort" => content'[buf[r]] = content[buf[r]] \o Cut(c)
    BY <1>4
  <1>7. a.kind = "notModified" => content'[buf[r]] = content[buf[r]] \o <<>>
    BY <1>4
  <1>8. a.kind \in {"ok", "error50x"} => content'[buf[r]] = content[buf[r]] \o Whole(c)
    BY <1>4
  <1>. QED
    BY <1>4, <1>5, <1>6, <1>7, <1>8, <1>9

\* What Upstream and Store read, field by field.
LEMMA ReadSays ==
  ASSUME NEW r \in Requests
  PROVE  /\ Read(r).hdr = Header(r)
         /\ Read(r).private = HeaderSays(Header(r), "private")
         /\ Read(r).store => status[r] = 200 /\ ~HeaderSays(Header(r), "private")
  BY DEF Read

\* The answer to a call is one of those the upstream server gives.
LEMMA AnswerTyped ==
  ASSUME TypeOK, NEW c \in 1 .. Len(calls)
  PROVE  calls[c].ans \in AllAnswers /\ calls[c].by \in Requests
  <1>1. calls \in Seq([by : Requests, ans : AllAnswers])
    BY DEF TypeOK
  <1>. DEFINE Call == [by : Requests, ans : AllAnswers]
  <1>2. calls[c] \in Call
    <2>. HIDE DEF Call
    <2>1. calls \in Seq(Call)
      BY <1>1 DEF Call
    <2>. QED
      BY <2>1
  <1>. QED
    BY <1>2

\* What a request that goes on from next to Store knows of its call.
LEMMA OwnFetched ==
  ASSUME AnswerInv, NEW r \in Requests, Step(r)
  PROVE  FetchedOk(r)'
  <1>1. BufferInv /\ TypeOK /\ FetchedOk(r) /\ Untouched(r) /\ Unstarted(r)
    BY DEF AnswerInv, BufferInv
  <1>2. CASE Fetch(r)
    <2>1. PICK c : c = Len(calls) + 1
      OBVIOUS
    <2>2. IsLast(c, r)' /\ c \in 1 .. Len(calls') /\ wk'[r] = "fetched" /\ c \in Nat
      BY <1>1, <1>2, <2>1, FetchCalls
    <2>3. PICK a : a = calls'[c].ans
      OBVIOUS
    <2>4. /\ a.kind # "fail" => status'[r] = Code(a) /\ (ctx[r] = "live" => c \in rwHdr'[r])
          /\ rwHdr'[r] \subseteq rwHdr[r] \union {c}
          /\ a.kind = "ok" => content'[buf[r]] = content[buf[r]] \o Whole(c)
      BY <1>1, <1>2, <2>1, <2>3, FetchFills
    <2>5. content[buf[r]] \in Body
      BY <1>1, <1>2 DEF Fetch, BufferInv, HasBuffer, UsesBuffer, TypeOK
    <2>6. a.kind = "ok" => \E i \in DOMAIN content'[buf[r]] : content'[buf[r]][i].call = c
      <3>1. PICK b \in Body : b = content[buf[r]]
        BY <2>5
      <3>2. \E i \in DOMAIN (b \o Whole(c)) : (b \o Whole(c))[i].call = c
        BY <2>2, PieceAdded, Zenon
      <3>. QED
        BY <2>4, <3>1, <3>2, Zenon
    <2>7. buf' = buf /\ ctx' = ctx /\ mode' = mode /\ wk[r] = "fetch"
      BY <1>2 DEF Fetch, bufVars, reqVars
    <2>9. OnlyRevalidates(r)' => rwHdr'[r] \subseteq {c}
      BY <1>1, <2>4, <2>7 DEF Untouched, OnlyRevalidates, Blank
    <2>8. Filled(r, c)'
      BY <2>3, <2>4, <2>6, <2>7, <2>9 DEF Filled
    <2>. QED
      BY <2>2, <2>8 DEF FetchedOk
  <1>3. ASSUME UNCHANGED <<wk, calls, status, rwHdr, content, buf, draft, mode>>,
               ctx'[r] = "live" => ctx[r] = "live"
        PROVE  FetchedOk(r)'
    BY <1>1, <1>3 DEF FetchedOk, Filled, Storable, IsLast, OnlyRevalidates
  <1>4. CASE ReturnBackground(r) \/ EndContext(r) \/ SelectContextDone(r)
    BY <1>1, <1>3, <1>4 DEF ReturnBackground, EndContext, SelectContextDone, Return, reqVars,
                            bufVars, TypeOK
  <1>5. CASE UpstreamReads(r) \/ RevalidateReads(r)
    <2>1. PICK c \in 1 .. Len(calls) : IsLast(c, r) /\ Filled(r, c)
      BY <1>1, <1>5 DEF UpstreamReads, RevalidateReads, FetchedOk
    <2>2. AnswerTo(r) = calls[c].ans
      BY <1>1, <2>1, LastCallIs DEF AnswerTo
    <2>3. UNCHANGED <<calls, status, rwHdr, content, buf, mode, ctx>> /\ wk'[r] = "store"
      BY <1>1, <1>5 DEF UpstreamReads, RevalidateReads, reqVars, bufVars, TypeOK
    <2>4. /\ calls[c].ans.kind # "abort"
          /\ mode[r] = "miss" => calls[c].ans.kind \in {"ok", "notModified"}
          /\ draft'[r].store => draft'[r] = Read(r) /\ calls[c].ans.kind # "fail"
      <3>1. CASE UpstreamReads(r)
        BY <1>1, <2>2, <3>1 DEF UpstreamReads, TypeOK
      <3>2. CASE RevalidateReads(r)
        <4>1. draft'[r] = IF calls[c].ans.kind = "fail" THEN NoDraft ELSE Read(r)
          BY <1>1, <2>2, <3>2 DEF RevalidateReads, TypeOK
        <4>. QED
          BY <2>2, <3>2, <4>1 DEF RevalidateReads, NoDraft
      <3>. QED
        BY <1>5, <3>1, <3>2
    <2>5. ASSUME draft'[r].store, ctx[r] = "live"
          PROVE  /\ c \in draft'[r].hdr /\ calls[c].ans.kind = "ok" /\ ~calls[c].ans.private
                 /\ OnlyRevalidates(r) => draft'[r].hdr = {c}
      <3>1. /\ status[r] = Code(calls[c].ans) /\ c \in rwHdr[r]
            /\ OnlyRevalidates(r) => rwHdr[r] = {c}
        BY <2>1, <2>4, <2>5 DEF Filled
      <3>2. status[r] = 200 /\ ~HeaderSays(rwHdr[r], "private") /\ draft'[r].hdr = rwHdr[r]
        <4>1. Read(r).store /\ draft'[r].hdr = Header(r) /\ Header(r) = rwHdr[r]
          BY <2>4, <2>5, <3>1, ReadSays DEF Header
        <4>. QED
          BY <4>1, ReadSays
      <3>3. calls[c].ans \in AllAnswers
        BY <1>1, AnswerTyped
      <3>4. ~calls[c].ans.private
        BY <3>1, <3>2, <3>3 DEF HeaderSays, AllAnswers
      <3>5. calls[c].ans.kind = "ok"
        BY <2>4, <2>5, <3>1, <3>2, <3>3 DEF Code, AllAnswers
      <3>. QED
        BY <3>1, <3>2, <3>4, <3>5
    <2>6. Storable(r, c)'
      BY <2>3, <2>4, <2>5 DEF Storable, OnlyRevalidates
    <2>7. IsLast(c, r)' /\ Filled(r, c)'
      BY <2>1, <2>3 DEF IsLast, Filled, OnlyRevalidates
    <2>. QED
      BY <2>3, <2>6, <2>7 DEF FetchedOk
  <1>6. CASE Store(r)
    <2>1. /\ UNCHANGED <<calls, status, rwHdr, content, buf, mode, ctx, draft>>
          /\ wk[r] = "store" /\ wk'[r] = "snapshot"
      BY <1>1, <1>6 DEF Store, reqVars, bufVars, TypeOK
    <2>. QED
      BY <1>1, <2>1 DEF FetchedOk, Filled, Storable, IsLast, OnlyRevalidates
  <1>7. ASSUME wk'[r] \notin {"fetched", "store", "snapshot"} PROVE FetchedOk(r)'
    BY <1>7 DEF FetchedOk
  <1>8. CASE Panic(r) \/ UpstreamFails(r) \/ RevalidateSettles(r) \/ Snapshot(r)
    BY <1>1, <1>7, <1>8, PublishReaches DEF Panic, UpstreamFails, RevalidateSettles, Snapshot
  <1>9. CASE \/ Start(r) \/ StartBackground(r) \/ SelectResponse(r) \/ Do(r)
             \/ UpstreamReturnsEarly(r) \/ UpstreamAgain(r) \/ UpstreamApplies(r)
             \/ Release(r) \/ Notify(r) \/ RevalidateApplies(r) \/ RevalidatePanics(r)
             \/ Crash(r) \/ FallThrough(r)
    BY <1>1, <1>7, <1>9 DEF Start, StartBackground, SelectResponse, Do, UpstreamReturnsEarly,
              UpstreamAgain, UpstreamApplies, Release, Notify, RevalidateApplies,
              RevalidatePanics, Crash, FallThrough, TypeOK
  <1>10. CASE \/ RespondFresh(r) \/ RespondStaleOnError(r) \/ RespondGatewayTimeout(r)
              \/ RespondStored(r) \/ RespondNotModified(r) \/ RespondRevalidated(r)
    BY <1>1, <1>7, <1>10 DEF RespondFresh, RespondStaleOnError, RespondGatewayTimeout,
              RespondStored, RespondNotModified, RespondRevalidated, Respond, TypeOK
  <1>. QED
    BY <1>2, <1>4, <1>5, <1>6, <1>8, <1>9, <1>10 DEF Step, Handler, Participant


\* A request that has taken a step of its own has started.
LEMMA OwnStarted ==
  ASSUME BufferInv, NEW r \in Requests, Unstarted(r), Step(r)
  PROVE  pc'[r] # "new"
  <1>1. TypeOK
    BY DEF BufferInv
  <1>2. CASE Start(r) \/ StartBackground(r) \/ FallThrough(r) \/ Crash(r)
    BY <1>1, <1>2 DEF Start, StartBackground, FallThrough, Crash, TypeOK
  <1>3. CASE ReturnBackground(r) \/ SelectContextDone(r) \/ SelectResponse(r) \/ RevalidatePanics(r)
    BY <1>1, <1>3 DEF ReturnBackground, SelectContextDone, SelectResponse, RevalidatePanics,
                      Return, TypeOK
  <1>4. CASE EndContext(r)
    BY <1>4 DEF EndContext
  <1>5. ASSUME wk[r] # "off", UNCHANGED pc PROVE pc'[r] # "new"
    BY <1>5 DEF Unstarted
  <1>6. CASE \/ Do(r) \/ Fetch(r) \/ Panic(r) \/ UpstreamFails(r) \/ UpstreamReads(r)
             \/ RevalidateSettles(r) \/ RevalidateReads(r) \/ Store(r) \/ Snapshot(r)
    BY <1>5, <1>6 DEF Do, Fetch, Panic, UpstreamFails, UpstreamReads, RevalidateSettles,
                      RevalidateReads, Store, Snapshot
  <1>7. CASE \/ UpstreamReturnsEarly(r) \/ UpstreamAgain(r) \/ UpstreamApplies(r)
             \/ Release(r) \/ Notify(r) \/ RevalidateApplies(r)
    BY <1>5, <1>7 DEF UpstreamReturnsEarly, UpstreamAgain, UpstreamApplies, Release, Notify,
                      RevalidateApplies
  <1>8. CASE \/ RespondFresh(r) \/ RespondStaleOnError(r) \/ RespondGatewayTimeout(r)
             \/ RespondStored(r) \/ RespondNotModified(r) \/ RespondRevalidated(r)
    BY <1>1, <1>8 DEF RespondFresh, RespondStaleOnError, RespondGatewayTimeout, RespondStored,
                      RespondNotModified, RespondRevalidated, Respond, Return, TypeOK
  <1>. QED
    BY <1>2, <1>3, <1>4, <1>6, <1>7, <1>8 DEF Step, Handler, Participant

\* The header map of a revalidation is empty until its call is answered.
LEMMA OwnUntouched ==
  ASSUME AnswerInv, NEW r \in Requests, Step(r)
  PROVE  Untouched(r)' /\ Unstarted(r)'
  <1>1. BufferInv /\ TypeOK /\ Untouched(r) /\ Unstarted(r)
    BY DEF AnswerInv, BufferInv
  <1>2. Unstarted(r)'
    BY <1>1, OwnStarted DEF Unstarted
  <1>. SUFFICES Untouched(r)'
    BY <1>2
  <1>3. ASSUME wk'[r] \notin {"off", "do", "join", "fetch"} PROVE Untouched(r)'
    BY <1>3 DEF Untouched
  <1>4. ASSUME mode'[r] \in {"miss", "swr"} PROVE Untouched(r)'
    BY <1>4 DEF Untouched, OnlyRevalidates
  <1>5. ASSUME UNCHANGED <<mode, rwHdr>>, wk[r] \in {"off", "do"} \/ UNCHANGED wk
        PROVE  Untouched(r)'
    BY <1>1, <1>5 DEF Untouched, OnlyRevalidates
  <1>6. CASE Start(r) \/ Do(r)
    BY <1>1, <1>5, <1>6 DEF Start, Do, Unstarted, reqVars
  <1>7. CASE ReturnBackground(r) \/ EndContext(r) \/ SelectContextDone(r) \/ SelectResponse(r)
    BY <1>5, <1>7 DEF ReturnBackground, EndContext, SelectContextDone, SelectResponse, reqVars
  <1>8. CASE StartBackground(r) \/ UpstreamAgain(r) \/ FallThrough(r)
    BY <1>1, <1>4, <1>8 DEF StartBackground, UpstreamAgain, FallThrough, reqVars, TypeOK
  <1>9. CASE Panic(r) \/ UpstreamFails(r) \/ RevalidateSettles(r) \/ Snapshot(r)
    BY <1>1, <1>3, <1>9, PublishReaches DEF Panic, UpstreamFails, RevalidateSettles, Snapshot
  <1>10. CASE \/ UpstreamReads(r) \/ RevalidateReads(r) \/ Store(r) \/ Fetch(r)
              \/ UpstreamReturnsEarly(r) \/ UpstreamApplies(r) \/ Release(r) \/ Notify(r)
              \/ RevalidateApplies(r) \/ RevalidatePanics(r) \/ Crash(r)
    BY <1>1, <1>3, <1>10 DEF UpstreamReads, RevalidateReads, Store, Fetch, UpstreamReturnsEarly,
              UpstreamApplies, Release, Notify, RevalidateApplies, RevalidatePanics, Crash, TypeOK
  <1>11. CASE \/ RespondFresh(r) \/ RespondStaleOnError(r) \/ RespondGatewayTimeout(r)
              \/ RespondStored(r) \/ RespondNotModified(r) \/ RespondRevalidated(r)
    BY <1>1, <1>3, <1>11 DEF RespondFresh, RespondStaleOnError, RespondGatewayTimeout,
              RespondStored, RespondNotModified, RespondRevalidated, Respond, TypeOK
  <1>. QED
    BY <1>2, <1>6, <1>7, <1>8, <1>9, <1>10, <1>11 DEF Step, Handler, Participant

\* What Snapshot publishes, field by field.
LEMMA ValueSays ==
  ASSUME TypeOK, NEW r \in Requests
  PROVE  /\ Value(r).val /\ Value(r).code = status[r] /\ Value(r).body = content[buf[r]]
         /\ Value(r).hdr = Header(r)
         /\ mode[r] = "miss" =>
              /\ Value(r).variant = VariantOf[r]
              /\ draft[r].private \/ HeaderSays(Header(r), "cookie") => Value(r).disable
         /\ Followers(r) = {} => ~Value(r).shared
         /\ Value(r).err = "none" /\ mode[r] # "miss" => status[r] # 500
  BY DEF Value

\* A result has the status of an answer, and without an error it is no 50x.
LEMMA OwnResult ==
  ASSUME AnswerInv, NEW r \in Requests, Step(r)
  PROVE  ResultOk(r)'
  <1>1. BufferInv /\ TypeOK /\ FetchedOk(r) /\ ResultOk(r)
    BY DEF AnswerInv, BufferInv
  <1>2. ASSUME UNCHANGED <<status, res>>, wk'[r] \in {wk[r]} \union (WkPlaces \ {"apply", "revalidated"})
        PROVE  ResultOk(r)'
    BY <1>1, <1>2 DEF ResultOk
  <1>3. CASE Handler(r) \/ EndContext(r)
    BY <1>1, <1>2, <1>3 DEF Handler, Start, StartBackground, ReturnBackground, WkPlaces,
              SelectContextDone, SelectResponse, EndContext, TypeOK
  <1>4. CASE Fetch(r)
    <2>1. PICK c : c = Len(calls) + 1
      OBVIOUS
    <2>2. PICK a \in Answers : a = calls'[c].ans
      BY <1>1, <1>4, <2>1, FetchCalls
    <2>3. status' = status \/ status'[r] = Code(a)
      BY <1>1, <1>4, <2>1, <2>2, FetchFills
    <2>4. wk'[r] = "fetched" /\ res' = res
      BY <1>1, <1>4 DEF Fetch, TypeOK
    <2>. QED
      BY <1>1, <2>3, <2>4 DEF ResultOk, Code, Codes
  <1>5. CASE Panic(r) \/ UpstreamFails(r) \/ RevalidateSettles(r)
    <2>1. PICK e \in {"panic", "fail", "50x", "other"} : Publish(r, Error(e)) /\ status' = status
      BY <1>5 DEF Panic, UpstreamFails, RevalidateSettles
    <2>2. Error(e).err # "none" /\ Error(e).code = 200
      BY DEF Error
    <2>. QED
      BY <1>1, <2>1, <2>2, PublishReaches DEF ResultOk, Codes
  <1>6. CASE Snapshot(r)
    <2>1. Publish(r, Value(r)) /\ status' = status /\ wk[r] = "snapshot"
      BY <1>6 DEF Snapshot
    <2>2. PICK c \in 1 .. Len(calls) : Filled(r, c) /\ Storable(r, c)
      BY <1>1, <2>1 DEF FetchedOk
    <2>3. mode[r] = "miss" => status[r] # 500
      BY <2>2 DEF Filled, Storable, Code
    <2>4. res'[r] = Value(r) /\ wk'[r] = "apply"
      BY <1>1, <2>1, PublishReaches
    <2>5. Value(r).val /\ Value(r).code = status[r] /\ (Value(r).err = "none" => status[r] # 500)
      BY <1>1, <2>3, ValueSays
    <2>. QED
      BY <1>1, <2>1, <2>4, <2>5 DEF ResultOk
  <1>7. CASE \/ Do(r) \/ UpstreamReads(r) \/ RevalidateReads(r) \/ Store(r) \/ Release(r)
             \/ Notify(r) \/ Crash(r) \/ FallThrough(r) \/ RevalidatePanics(r)
    BY <1>1, <1>2, <1>7 DEF Do, UpstreamReads, RevalidateReads, Store, Release, Notify, Crash,
              FallThrough, RevalidatePanics, TypeOK, WkPlaces
  <1>8. CASE \/ UpstreamReturnsEarly(r) \/ UpstreamAgain(r)
    <2>1. /\ status' = status /\ wk'[r] \in {"release", "do"}
          /\ res'[r] = res[r] \/ res'[r] = NoResult
      BY <1>1, <1>8 DEF UpstreamReturnsEarly, UpstreamAgain, TypeOK
    <2>. QED
      BY <1>1, <2>1 DEF ResultOk, NoResult, Error, Codes
  <1>9. CASE UpstreamApplies(r)
    <2>1. status'[r] = res[r].code /\ wk'[r] = "release" /\ res'[r] = NoResult
      BY <1>1, <1>9 DEF UpstreamApplies, CopyValue, TypeOK
    <2>. QED
      BY <1>1, <2>1 DEF ResultOk, NoResult, Error, Codes
  <1>10. CASE RevalidateApplies(r)
    <2>1. /\ wk[r] = "apply" /\ res'[r] = Error(res[r].err)
          /\ res[r].val => status'[r] = res[r].code
          /\ ~res[r].val => status' = status
          /\ wk'[r] # "apply"
      BY <1>1, <1>10 DEF RevalidateApplies, CopyValue, TypeOK
    <2>2. Error(res[r].err).err = res[r].err /\ Error(res[r].err).code = 200
      BY DEF Error
    <2>3. res[r].val \in BOOLEAN
      BY <1>1 DEF TypeOK, Result
    <2>. QED
      BY <1>1, <2>1, <2>2, <2>3 DEF ResultOk, Codes
  <1>11. CASE \/ RespondFresh(r) \/ RespondStaleOnError(r) \/ RespondGatewayTimeout(r)
              \/ RespondStored(r) \/ RespondNotModified(r) \/ RespondRevalidated(r)
    BY <1>1, <1>2, <1>11 DEF RespondFresh, RespondStaleOnError, RespondGatewayTimeout,
              RespondStored, RespondNotModified, RespondRevalidated, Respond, TypeOK, WkPlaces
  <1>. QED
    BY <1>3, <1>4, <1>5, <1>6, <1>7, <1>8, <1>9, <1>10, <1>11 DEF Step, Participant


\* What the client is sent has the given status, or the one that came first.
LEMMA SendsCode ==
  ASSUME TypeOK, NEW r \in Requests, NEW code,
         WriteCode(r, code) \/ \E body, h : Send(r, code, body, h)
  PROVE  out'[r].code \in {code, out[r].code}
  BY DEF WriteCode, Send, FirstCode, TypeOK

\* A client for which stale-if-error holds is never sent a 500 or a 504 after a
\* revalidation with a stored ETag.
LEMMA OwnSent ==
  ASSUME AnswerInv, NEW r \in Requests, Step(r)
  PROVE  SentOk(r)'
  <1>1. BufferInv /\ TypeOK /\ ResultOk(r) /\ SentOk(r)
    BY DEF AnswerInv, BufferInv
  <1>2. ASSUME mode'[r] \in {mode[r], "miss"}, cli' = cli,
               mode[r] = "stale" /\ cli[r].sie =>
                 out'[r].code \notin {500, 504} \/ out'[r].code = out[r].code
        PROVE  SentOk(r)'
    BY <1>1, <1>2 DEF SentOk
  <1>3. CASE \/ Start(r) \/ ReturnBackground(r) \/ EndContext(r) \/ Do(r) \/ Panic(r)
             \/ UpstreamFails(r) \/ UpstreamReads(r) \/ RevalidateReads(r) \/ Store(r)
             \/ Snapshot(r) \/ UpstreamReturnsEarly(r) \/ UpstreamAgain(r) \/ UpstreamApplies(r)
    BY <1>2, <1>3 DEF Start, ReturnBackground, EndContext, Do, Panic, UpstreamFails,
              UpstreamReads, RevalidateReads, Store, Snapshot, UpstreamReturnsEarly,
              UpstreamAgain, UpstreamApplies, reqVars
  <1>4. CASE \/ Release(r) \/ Notify(r) \/ RevalidateApplies(r) \/ RevalidatePanics(r)
             \/ Crash(r) \/ Fetch(r)
    BY <1>2, <1>4 DEF Release, Notify, RevalidateApplies, RevalidatePanics, Crash, Fetch, reqVars
  <1>5. CASE FallThrough(r)
    BY <1>1, <1>2, <1>5 DEF FallThrough, TypeOK
  <1>6. CASE StartBackground(r) \/ SelectContextDone(r) \/ SelectResponse(r)
    <2>1. mode[r] \in {"swr", "miss"}
      BY <1>1, <1>6 DEF StartBackground, SelectContextDone, SelectResponse, BufferInv,
                        OwnedUntilReturn
    <2>. QED
      BY <1>2, <1>6, <2>1 DEF StartBackground, SelectContextDone, SelectResponse, reqVars
  <1>7. CASE RevalidateSettles(r)
    <2>1. PICK code \in {412, 304} : WriteCode(r, code)
      BY <1>7 DEF RevalidateSettles
    <2>. QED
      BY <1>1, <1>2, <1>7, <2>1, SendsCode DEF RevalidateSettles, reqVars
  <1>8. ASSUME NEW code, NEW body, NEW h, Respond(r, code, body, h),
               mode[r] = "stale" /\ cli[r].sie => code \notin {500, 504}
        PROVE  SentOk(r)'
    <2>1. out'[r].code \in {code, out[r].code}
      <3>1. Send(r, code, body, h)
        BY <1>8 DEF Respond
      <3>2. \E bd, hd : Send(r, code, bd, hd)
        BY <3>1, Zenon
      <3>. QED
        BY <1>1, <3>2, SendsCode
    <2>2. mode'[r] = mode[r] /\ cli' = cli
      BY <1>8 DEF Respond, reqVars
    <2>3. PICK sent : sent = out'[r].code
      OBVIOUS
    <2>4. mode[r] = "stale" /\ cli[r].sie => sent \notin {500, 504} \/ sent = out[r].code
      BY <1>8, <2>1, <2>3
    <2>. QED
      BY <1>2, <2>2, <2>3, <2>4
  <1>9. CASE RespondFresh(r)
    BY <1>8, <1>9 DEF RespondFresh
  <1>10. CASE RespondStaleOnError(r)
    BY <1>8, <1>10 DEF RespondStaleOnError
  <1>11. CASE RespondGatewayTimeout(r)
    BY <1>8, <1>11 DEF RespondGatewayTimeout
  <1>12. CASE RespondStored(r)
    BY <1>8, <1>12 DEF RespondStored
  <1>13. CASE RespondNotModified(r)
    BY <1>8, <1>13 DEF RespondNotModified
  <1>14. CASE RespondRevalidated(r)
    <2>1. wk[r] = "revalidated" /\ res[r].err = "none" /\ Respond(r, status[r], content[buf[r]], rwHdr[r])
      BY <1>14 DEF RespondRevalidated, Failed
    <2>2. status[r] \notin {500, 504}
      BY <1>1, <2>1 DEF ResultOk, Codes
    <2>. QED
      BY <1>8, <2>1, <2>2
  <1>. QED
    BY <1>3, <1>4, <1>5, <1>6, <1>7, <1>9, <1>10, <1>11, <1>12, <1>13, <1>14
       DEF Step, Handler, Participant

\* The entry carries the headers of its own response, and of no other when a
\* handler has stored it that only revalidates.
Intact(e) ==
  \E c \in e.hdr :
    /\ c \in 1 .. Len(calls) /\ ~calls[c].ans.private
    /\ \E i \in DOMAIN e.body : e.body[i].call = c
    /\ e.hdr = {c} \/ mode[calls[c].by] \in {"miss", "swr"}

\* What the lookup has decided only changes to a miss.
LEMMA ModeStep ==
  ASSUME BufferInv, NEW r \in Requests, Step(r), NEW q \in Requests
  PROVE  mode'[q] = mode[q] \/ mode'[q] = "miss"
  <1>1. CASE q # r
    BY <1>1, OthersKeep
  <1>2. CASE FallThrough(r)
    BY <1>2 DEF FallThrough, BufferInv, TypeOK
  <1>3. CASE mode' = mode
    BY <1>3
  <1>4. CASE Handler(r) \/ EndContext(r) \/ Fetch(r)
    BY <1>3, <1>4 DEF Handler, Start, StartBackground, ReturnBackground, SelectContextDone,
                SelectResponse, EndContext, Fetch, reqVars
  <1>5. CASE \/ Do(r) \/ Panic(r) \/ UpstreamFails(r) \/ UpstreamReads(r) \/ RevalidateSettles(r)
             \/ RevalidateReads(r) \/ Store(r) \/ Snapshot(r)
    BY <1>3, <1>5 DEF Do, Panic, UpstreamFails, UpstreamReads, RevalidateSettles, RevalidateReads,
                Store, Snapshot, reqVars
  <1>6. CASE \/ UpstreamReturnsEarly(r) \/ UpstreamAgain(r) \/ UpstreamApplies(r) \/ Release(r)
             \/ Notify(r) \/ RevalidateApplies(r) \/ RevalidatePanics(r) \/ Crash(r)
    BY <1>3, <1>6 DEF UpstreamReturnsEarly, UpstreamAgain, UpstreamApplies, Release, Notify,
                RevalidateApplies, RevalidatePanics, Crash, reqVars
  <1>7. CASE \/ RespondFresh(r) \/ RespondStaleOnError(r) \/ RespondGatewayTimeout(r)
             \/ RespondStored(r) \/ RespondNotModified(r) \/ RespondRevalidated(r)
    BY <1>3, <1>7 DEF RespondFresh, RespondStaleOnError, RespondGatewayTimeout, RespondStored,
                RespondNotModified, RespondRevalidated, Respond, reqVars
  <1>. QED
    BY <1>2, <1>4, <1>5, <1>6, <1>7 DEF Step, Participant

\* Store passes the response on whose headers it has read, or none.
LEMMA OnlyIntactStored ==
  ASSUME AnswerInv, NEW r \in Requests, Step(r)
  PROVE  StoredHeadersIntact'
  <1>1. BufferInv /\ TypeOK /\ FetchedOk(r) /\ \A e \in stored : Intact(e)
    BY DEF AnswerInv, BufferInv, StoredHeadersIntact, Intact
  <1>2. ASSUME NEW e \in stored PROVE Intact(e)'
    <2>1. PICK c \in e.hdr :
            /\ c \in 1 .. Len(calls) /\ ~calls[c].ans.private
            /\ \E i \in DOMAIN e.body : e.body[i].call = c
            /\ e.hdr = {c} \/ mode[calls[c].by] \in {"miss", "swr"}
      BY <1>1 DEF Intact
    <2>2. c \in 1 .. Len(calls') /\ calls'[c] = calls[c]
      BY <1>1, <2>1, CallsGrow
    <2>3. calls[c].by \in Requests
      BY <1>1, <2>1, AnswerTyped
    <2>4. mode[calls[c].by] \in {"miss", "swr"} => mode'[calls[c].by] \in {"miss", "swr"}
      BY <1>1, <2>3, ModeStep
    <2>. QED
      BY <2>1, <2>2, <2>4 DEF Intact
  <1>3. CASE Store(r)
    <2>1. calls' = calls /\ mode' = mode /\ wk[r] = "store"
      BY <1>3 DEF Store, reqVars
    <2>2. CASE stored' = stored
      BY <1>2, <2>2 DEF StoredHeadersIntact, Intact
    <2>3. CASE /\ MayStore(r)
               /\ stored' = stored \union {[key |-> KeyOf[r], body |-> content[buf[r]],
                                            hdr |-> draft[r].hdr, variant |-> VariantOf[r]]}
      <3>. PICK new : new = [key |-> KeyOf[r], body |-> content[buf[r]],
                             hdr |-> draft[r].hdr, variant |-> VariantOf[r]]
        OBVIOUS
      <3>1. PICK c \in 1 .. Len(calls) : IsLast(c, r) /\ Filled(r, c) /\ Storable(r, c)
        BY <1>1, <2>1 DEF FetchedOk
      <3>2. /\ c \in draft[r].hdr /\ ~calls[c].ans.private /\ calls[c].by = r
            /\ OnlyRevalidates(r) => draft[r].hdr = {c}
            /\ \E i \in DOMAIN content[buf[r]] : content[buf[r]][i].call = c
        BY <2>3, <3>1 DEF MayStore, Storable, Filled, IsLast
      <3>3. new.hdr = draft[r].hdr /\ new.body = content[buf[r]]
        OBVIOUS
      <3>4. stored' = stored \union {new}
        BY <2>3
      <3>5. Intact(new)'
        BY <2>1, <3>1, <3>2, <3>3 DEF Intact, OnlyRevalidates
      <3>6. \A e \in stored' : Intact(e)'
        BY <1>2, <3>4, <3>5
      <3>. QED
        BY <3>6 DEF StoredHeadersIntact, Intact
    <2>. QED
      BY <1>3, <2>2, <2>3 DEF Store
  <1>4. CASE stored' = stored
    BY <1>2, <1>4 DEF StoredHeadersIntact, Intact
  <1>5. Store(r) \/ stored' = stored
    <2>1. CASE Handler(r) \/ EndContext(r) \/ Fetch(r)
      BY <2>1 DEF Handler, Start, StartBackground, ReturnBackground, SelectContextDone,
                  SelectResponse, EndContext, Fetch
    <2>2. CASE \/ Do(r) \/ Panic(r) \/ UpstreamFails(r) \/ UpstreamReads(r) \/ RevalidateSettles(r)
               \/ RevalidateReads(r) \/ Snapshot(r)
      BY <2>2 DEF Do, Panic, UpstreamFails, UpstreamReads, RevalidateSettles, RevalidateReads, Snapshot
    <2>3. CASE \/ UpstreamReturnsEarly(r) \/ UpstreamAgain(r) \/ UpstreamApplies(r)
               \/ Release(r) \/ Notify(r) \/ RevalidateApplies(r) \/ RevalidatePanics(r)
               \/ Crash(r) \/ FallThrough(r)
      BY <2>3 DEF UpstreamReturnsEarly, UpstreamAgain, UpstreamApplies, Release, Notify,
                  RevalidateApplies, RevalidatePanics, Crash, FallThrough
    <2>4. CASE \/ RespondFresh(r) \/ RespondStaleOnError(r) \/ RespondGatewayTimeout(r)
               \/ RespondStored(r) \/ RespondNotModified(r) \/ RespondRevalidated(r)
      BY <2>4 DEF RespondFresh, RespondStaleOnError, RespondGatewayTimeout, RespondStored,
                  RespondNotModified, RespondRevalidated, Respond
    <2>. QED
      BY <2>1, <2>2, <2>3, <2>4 DEF Step, Participant
  <1>. QED
    BY <1>3, <1>4, <1>5

\* Nothing is stored or answered in the beginning.
LEMMA InitAnswerInv == Init => AnswerInv
  <1>. SUFFICES ASSUME Init PROVE AnswerInv
    OBVIOUS
  <1>1. \A r \in Requests : /\ wk[r] = "off" /\ status[r] = 200 /\ res[r].code = 200
                            /\ out[r].code = 0 /\ rwHdr[r] = Blank
    BY DEF Init, NoResult, Error
  <1>2. \A r \in Requests : FetchedOk(r) /\ ResultOk(r) /\ SentOk(r) /\ Untouched(r) /\ Unstarted(r)
    BY <1>1 DEF FetchedOk, ResultOk, SentOk, Codes, Untouched, Unstarted
  <1>3. StoredHeadersIntact
    BY DEF Init, StoredHeadersIntact
  <1>. QED
    BY <1>2, <1>3, InitBufferInv DEF AnswerInv

\* Every step keeps the invariant.
LEMMA AnswerStep ==
  ASSUME AnswerInv, [Next]_vars
  PROVE  AnswerInv'
  <1>1. BufferInv'
    BY BufferStep DEF AnswerInv
  <1>2. CASE UNCHANGED vars
    BY <1>1, <1>2 DEF vars, AnswerInv, FetchedOk, Filled, Storable, IsLast, ResultOk, SentOk,
                      StoredHeadersIntact, Untouched, Unstarted, OnlyRevalidates
  <1>3. ASSUME NEW r \in Requests, Step(r) PROVE AnswerInv'
    <2>1. FetchedOk(r)' /\ ResultOk(r)' /\ SentOk(r)' /\ Untouched(r)' /\ Unstarted(r)'
      BY <1>3, OwnFetched, OwnResult, OwnSent, OwnUntouched
    <2>2. \A q \in Requests : q # r => /\ FetchedOk(q)' /\ ResultOk(q)' /\ SentOk(q)'
                                     /\ Untouched(q)' /\ Unstarted(q)'
      BY <1>3, <2>1, OtherAnswer
    <2>3. StoredHeadersIntact'
      BY <1>3, OnlyIntactStored
    <2>. QED
      BY <1>1, <2>1, <2>2, <2>3 DEF AnswerInv
  <1>. QED
    BY <1>2, <1>3 DEF Next, Step

\* StoredHeadersIntact: whenever contexts end while Upstream and Store read the
\* headers, and whatever several requests do at once, what reaches the storers
\* carries the headers of the response it belongs to and is not private; entries
\* of another response come with them only from a request that misses or that
\* revalidates in the background.
THEOREM StoredHeadersAreIntact == Spec => []StoredHeadersIntact
  <1>1. AnswerInv => StoredHeadersIntact
    BY DEF AnswerInv
  <1>. QED
    BY <1>1, InitAnswerInv, AnswerStep, PTL DEF Spec

\* StaleHidesErrors: with stale-if-error, no revalidation of a stored response
\* shows its failure to the client, not even one that another request has made.
THEOREM StaleAnswersHideErrors == Spec => []StaleHidesErrors
  <1>1. AnswerInv => StaleHidesErrors
    BY DEF AnswerInv, SentOk, StaleHidesErrors
  <1>. QED
    BY <1>1, InitAnswerInv, AnswerStep, PTL DEF Spec


-----------------------------------------------------------------------------
(***************************************************************************)
(* How often a request calls the upstream server.                          *)
(***************************************************************************)

CallsBy(r) == {c \in 1 .. Len(calls) : calls[c].by = r}
AtMostOne(S) == \A c, d \in S : c = d
AtMostTwo(S) == \A c, d, e \in S : c = d \/ d = e \/ c = e

\* r has still to get what it calls Do for.
Early(r) == wk[r] \in {"off", "do", "join", "fetch"}
\* r has been told to go alone.
Alone(r) == solo[r] /\ ~DisableCoalescing

\* One call for the flight of r and one more when it has been told to go alone.
Calls(r) ==
  /\ AtMostTwo(CallsBy(r))
  /\ Early(r) \/ ~Alone(r) => AtMostOne(CallsBy(r))
  /\ Early(r) /\ ~Alone(r) => CallsBy(r) = {}

\* Only one that shares leads or follows.
Shares(r) ==
  /\ DisableCoalescing => solo[r]
  /\ flight[KeyOf[r]] = r =>
       ~solo[r] /\ wk[r] \in {"fetch", "fetched", "store", "snapshot", "crash"}
  /\ wk[r] = "join" => ~solo[r]

\* One that has called the upstream server itself does not do it again because
\* of the variant, and one that has gone alone does not do it for the sharing.
Settled(r) ==
  wk[r] = "apply" =>
    /\ \/ CallsBy(r) = {} \/ mode[r] # "miss"
       \/ res[r].err # "none" \/ res[r].variant = VariantOf[r]
    /\ solo[r] => ~res[r].shared

RetryOk(r) ==
  /\ mode[r] # "staleIfError" /\ (pc[r] = "new" => wk[r] = "off")
  /\ Calls(r) /\ Shares(r) /\ Settled(r)

RetryInv == BufferInv /\ \A r \in Requests : RetryOk(r)

\* Only the one that fetches has called once more.
LEMMA CallsByStep ==
  ASSUME BufferInv, NEW r \in Requests, Step(r), NEW q \in Requests
  PROVE  \/ CallsBy(q)' = CallsBy(q)
         \/ q = r /\ wk[r] = "fetch" /\ CallsBy(q)' = CallsBy(q) \union {Len(calls) + 1}
  BY CallsGrow DEF CallsBy

\* The flight of a key is left by its leader, or taken by one that may share.
LEMMA FlightStep ==
  ASSUME BufferInv, NEW r \in Requests, Step(r), NEW q \in Requests,
         flight'[KeyOf[q]] = q
  PROVE  flight[KeyOf[q]] = q \/ (q = r /\ ~solo[r] /\ Do(r) /\ wk'[r] = "fetch")
  <1>1. TypeOK
    BY DEF BufferInv
  <1>2. CASE Do(r)
    BY <1>1, <1>2, ConstantsAssumption DEF Do, TypeOK
  <1>3. ASSUME NEW v, Publish(r, v) PROVE flight[KeyOf[q]] = q
    BY <1>1, <1>3, ConstantsAssumption DEF Publish, Leads, TypeOK
  <1>4. CASE Panic(r) \/ UpstreamFails(r) \/ RevalidateSettles(r) \/ Snapshot(r)
    BY <1>3, <1>4 DEF Panic, UpstreamFails, RevalidateSettles, Snapshot
  <1>5. CASE flight' = flight
    BY <1>5
  <1>6. CASE Handler(r) \/ EndContext(r) \/ Fetch(r)
    BY <1>5, <1>6 DEF Handler, Start, StartBackground, ReturnBackground, SelectContextDone,
                SelectResponse, EndContext, Fetch
  <1>7. CASE \/ UpstreamReads(r) \/ RevalidateReads(r) \/ Store(r) \/ UpstreamReturnsEarly(r)
             \/ UpstreamAgain(r) \/ UpstreamApplies(r) \/ Release(r) \/ Notify(r)
             \/ RevalidateApplies(r) \/ RevalidatePanics(r) \/ Crash(r) \/ FallThrough(r)
    BY <1>5, <1>7 DEF UpstreamReads, RevalidateReads, Store, UpstreamReturnsEarly, UpstreamAgain,
                UpstreamApplies, Release, Notify, RevalidateApplies, RevalidatePanics, Crash,
                FallThrough
  <1>8. CASE \/ RespondFresh(r) \/ RespondStaleOnError(r) \/ RespondGatewayTimeout(r)
             \/ RespondStored(r) \/ RespondNotModified(r) \/ RespondRevalidated(r)
    BY <1>5, <1>8 DEF RespondFresh, RespondStaleOnError, RespondGatewayTimeout, RespondStored,
                RespondNotModified, RespondRevalidated, Respond
  <1>. QED
    BY <1>2, <1>4, <1>6, <1>7, <1>8 DEF Step, Participant

\* What the others do does not make a request call once more.
LEMMA OtherRetry ==
  ASSUME RetryInv, NEW r \in Requests, Step(r), NEW q \in Requests, q # r
  PROVE  RetryOk(q)'
  <1>1. BufferInv /\ TypeOK /\ RetryOk(q)
    BY DEF RetryInv, BufferInv
  <1>2. mode'[q] = mode[q] /\ solo'[q] = solo[q]
    BY <1>1, OthersKeep
  <1>3. CallsBy(q)' = CallsBy(q)
    BY <1>1, CallsByStep
  <1>4. flight'[KeyOf[q]] = q => flight[KeyOf[q]] = q
    BY <1>1, FlightStep
  <1>5. CASE wk'[q] = wk[q] /\ res'[q] = res[q] /\ pc'[q] = pc[q]
    BY <1>1, <1>2, <1>3, <1>4, <1>5 DEF RetryOk, Calls, Shares, Settled, Early, Alone
  <1>6. CASE wk[q] = "join" /\ wk'[q] = "apply" /\ pc'[q] = pc[q]
    <2>1. CallsBy(q) = {} /\ ~solo[q] /\ flight[KeyOf[q]] # q
      BY <1>1, <1>6 DEF RetryOk, Calls, Shares, Early, Alone
    <2>. QED
      BY <1>1, <1>2, <1>3, <1>4, <1>6, <2>1
         DEF RetryOk, Calls, Shares, Settled, Early, Alone, AtMostOne, AtMostTwo
  <1>7. CASE Crash(r)
    <2>1. wk'[q] = "crash" /\ pc'[q] = "crash"
      BY <1>7 DEF Crash
    <2>. QED
      BY <1>1, <1>2, <1>3, <1>4, <2>1
         DEF RetryOk, Calls, Shares, Settled, Early, Alone, AtMostOne, AtMostTwo
  <1>. QED
    BY <1>1, <1>5, <1>6, <1>7, OthersWait

\* A request calls once for its flight, and once more when it must go alone.
LEMMA OwnRetry ==
  ASSUME RetryInv, NEW r \in Requests, Step(r)
  PROVE  RetryOk(r)'
  <1>1. BufferInv /\ TypeOK /\ RetryOk(r)
    BY DEF RetryInv, BufferInv
  <1>2. flight'[KeyOf[r]] = r => flight[KeyOf[r]] = r \/ (~solo[r] /\ Do(r) /\ wk'[r] = "fetch")
    BY <1>1, FlightStep
  <1>3. wk[r] # "fetch" => CallsBy(r)' = CallsBy(r)
    BY <1>1, CallsByStep
  <1>4. mode[r] # "staleIfError" /\ ~FallThrough(r)
    BY <1>1 DEF RetryOk, FallThrough
  \* The step changes neither the place of the participant nor what it knows.
  <1>5. ASSUME mode' = mode, solo' = solo, wk' = wk, res' = res, pc'[r] # "new" \/ pc' = pc,
               CallsBy(r)' = CallsBy(r), flight' = flight
        PROVE  RetryOk(r)'
    BY <1>1, <1>5 DEF RetryOk, Calls, Shares, Settled, Early, Alone
  \* The step leaves one place for another of the same flight.
  <1>6. ASSUME mode' = mode, solo' = solo, wk[r] # "fetch", wk'[r] \notin {"join", "apply"},
               wk[r] # "off" => pc'[r] # "new" \/ pc' = pc,
               wk[r] = "off" => pc'[r] # "new",
               Early(r) <=> Early(r)',
               wk'[r] \in {"fetch", "fetched", "store", "snapshot", "crash"} \/ flight[KeyOf[r]] # r,
               flight' = flight
        PROVE  RetryOk(r)'
    <2>1. Alone(r)' <=> Alone(r)
      BY <1>6 DEF Alone
    <2>2. Calls(r)'
      BY <1>1, <1>3, <1>6, <2>1 DEF RetryOk, Calls
    <2>3. Shares(r)' /\ Settled(r)'
      BY <1>1, <1>6 DEF RetryOk, Shares, Settled
    <2>. QED
      BY <1>1, <1>6, <2>2, <2>3 DEF RetryOk
  <1>7. wk[r] \notin {"fetch", "fetched", "store", "snapshot", "crash"} => flight[KeyOf[r]] # r
    BY <1>1 DEF RetryOk, Shares
  <1>8. CASE Start(r) \/ StartBackground(r)
    <2>1. wk[r] = "off" /\ wk'[r] = "do" /\ pc'[r] # "new" /\ UNCHANGED <<mode, solo, flight>>
      BY <1>1, <1>8 DEF RetryOk, Start, StartBackground, reqVars, TypeOK
    <2>. QED
      BY <1>6, <1>7, <2>1 DEF Early
  <1>9. CASE ReturnBackground(r) \/ SelectContextDone(r) \/ SelectResponse(r) \/ EndContext(r)
    <2>1. UNCHANGED <<mode, solo, wk, res, calls, flight>> /\ (pc'[r] # "new" \/ pc' = pc)
      BY <1>1, <1>9 DEF ReturnBackground, SelectContextDone, SelectResponse, EndContext, Return,
                        reqVars, TypeOK
    <2>. QED
      BY <1>5, <2>1 DEF CallsBy
  <1>10. CASE Do(r)
    <2>1. /\ UNCHANGED <<mode, solo, pc, calls>> /\ wk[r] = "do" /\ wk'[r] \in {"fetch", "join"}
          /\ wk'[r] = "join" => ~solo[r] /\ flight' = flight
      BY <1>1, <1>10 DEF Do, reqVars, TypeOK
    <2>2. Calls(r)'
      BY <1>1, <1>3, <2>1 DEF RetryOk, Calls, Early, Alone
    <2>3. Shares(r)' /\ Settled(r)'
      BY <1>1, <1>2, <1>7, <2>1 DEF RetryOk, Shares, Settled
    <2>. QED
      BY <1>1, <2>1, <2>2, <2>3 DEF RetryOk
  <1>11. CASE Fetch(r)
    <2>1. UNCHANGED <<mode, solo, pc, flight>> /\ wk[r] = "fetch" /\ wk'[r] = "fetched"
      BY <1>1, <1>11 DEF Fetch, reqVars, TypeOK
    <2>2. \E c : CallsBy(r)' \subseteq CallsBy(r) \union {c}
      BY <1>1, CallsByStep
    <2>3. Calls(r)'
      BY <1>1, <2>1, <2>2 DEF RetryOk, Calls, Early, Alone, AtMostOne, AtMostTwo
    <2>4. Shares(r)' /\ Settled(r)'
      BY <1>1, <2>1 DEF RetryOk, Shares, Settled
    <2>. QED
      BY <1>1, <2>1, <2>3, <2>4 DEF RetryOk
  <1>12. ASSUME NEW v, Publish(r, v), UNCHANGED <<mode, solo, pc>>,
                wk[r] \in {"fetched", "snapshot"},
                v.err # "none" \/ mode[r] # "miss" \/ v.variant = VariantOf[r],
                solo[r] => ~v.shared
         PROVE  RetryOk(r)'
    <2>1. wk'[r] = "apply" /\ res'[r] = v
      BY <1>1, <1>12, PublishReaches
    <2>2. flight'[KeyOf[r]] # r
      BY <1>1, <1>12, ConstantsAssumption DEF Publish, Leads, TypeOK
    <2>3. Calls(r)'
      BY <1>1, <1>3, <1>12, <2>1 DEF RetryOk, Calls, Early, Alone
    <2>4. Shares(r)' /\ Settled(r)'
      BY <1>1, <1>12, <2>1, <2>2 DEF RetryOk, Shares, Settled
    <2>. QED
      BY <1>1, <1>12, <2>1, <2>3, <2>4 DEF RetryOk
  <1>13. CASE Panic(r) \/ UpstreamFails(r) \/ RevalidateSettles(r)
    <2>1. PICK e \in {"panic", "fail", "50x", "other"} : Publish(r, Error(e))
      BY <1>13 DEF Panic, UpstreamFails, RevalidateSettles
    <2>2. Error(e).err # "none" /\ ~Error(e).shared
      BY DEF Error
    <2>3. UNCHANGED <<mode, solo, pc>> /\ wk[r] = "fetched"
      BY <1>13 DEF Panic, UpstreamFails, RevalidateSettles, reqVars
    <2>. QED
      BY <1>12, <2>1, <2>2, <2>3
  <1>14. CASE Snapshot(r)
    <2>1. Publish(r, Value(r)) /\ UNCHANGED <<mode, solo, pc>> /\ wk[r] = "snapshot"
      BY <1>14 DEF Snapshot, reqVars
    <2>2. mode[r] = "miss" => Value(r).variant = VariantOf[r]
      BY DEF Value
    <2>3. solo[r] => ~Value(r).shared
      BY <1>1 DEF Value, Followers, Leads, RetryOk, Shares
    <2>. QED
      BY <1>12, <2>1, <2>2, <2>3
  <1>15. CASE UpstreamReads(r) \/ RevalidateReads(r) \/ Store(r)
    <2>1. /\ UNCHANGED <<mode, solo, pc, flight>>
          /\ wk[r] \in {"fetched", "store"} /\ wk'[r] \in {"store", "snapshot"}
      BY <1>1, <1>15 DEF UpstreamReads, RevalidateReads, Store, reqVars, TypeOK
    <2>. QED
      BY <1>6, <2>1 DEF Early
  <1>16. CASE \/ UpstreamReturnsEarly(r) \/ UpstreamApplies(r) \/ Release(r) \/ Notify(r)
              \/ RevalidateApplies(r)
    <2>1. /\ UNCHANGED <<mode, solo, pc, flight>> /\ wk[r] \in {"apply", "release", "notify"}
          /\ wk'[r] \in {"release", "notify", "end", "revalidated"}
      BY <1>1, <1>16 DEF UpstreamReturnsEarly, UpstreamApplies, Release, Notify,
                         RevalidateApplies, reqVars, TypeOK
    <2>. QED
      BY <1>6, <1>7, <2>1 DEF Early
  <1>17. CASE RevalidatePanics(r) \/ Crash(r)
    <2>1. /\ UNCHANGED <<mode, solo, flight>> /\ wk[r] = "apply" /\ pc'[r] # "new"
          /\ wk'[r] \in {"end", "crash"}
      BY <1>1, <1>17 DEF RevalidatePanics, Crash, Return, reqVars, TypeOK
    <2>. QED
      BY <1>6, <1>7, <2>1 DEF Early
  <1>18. ASSUME NEW code, NEW body, NEW h, Respond(r, code, body, h), wk[r] = "revalidated"
         PROVE  RetryOk(r)'
    <2>1. UNCHANGED <<mode, solo, flight>> /\ pc'[r] # "new" /\ wk'[r] = "end"
      BY <1>1, <1>18 DEF Respond, Return, reqVars, TypeOK
    <2>. QED
      BY <1>6, <1>7, <1>18, <2>1 DEF Early
  <1>19. CASE \/ RespondFresh(r) \/ RespondStaleOnError(r) \/ RespondGatewayTimeout(r)
              \/ RespondStored(r) \/ RespondNotModified(r) \/ RespondRevalidated(r)
    BY <1>18, <1>19 DEF RespondFresh, RespondStaleOnError, RespondGatewayTimeout, RespondStored,
                        RespondNotModified, RespondRevalidated
  <1>20. CASE UpstreamAgain(r)
    <2>1. /\ UNCHANGED <<mode, pc, flight>> /\ wk[r] = "apply" /\ wk'[r] = "do"
          /\ mode[r] = "miss" /\ res[r].err = "none"
          /\ MustGoAlone(r) \/ OtherVariant(r)
          /\ solo'[r] = (DisableCoalescing \/ MustGoAlone(r))
      BY <1>1, <1>20 DEF UpstreamAgain, reqVars, TypeOK
    <2>2. CallsBy(r) = {} \/ ~OtherVariant(r)
      BY <1>1, <2>1 DEF RetryOk, Settled, OtherVariant
    <2>3. MustGoAlone(r) => ~solo[r]
      BY <1>1, <2>1 DEF RetryOk, Settled, MustGoAlone
    <2>4. Calls(r)'
      <3>1. CASE CallsBy(r) = {}
        BY <1>3, <2>1, <3>1 DEF Calls, AtMostOne, AtMostTwo
      <3>2. CASE MustGoAlone(r)
        BY <1>1, <1>3, <2>1, <2>3, <3>2 DEF RetryOk, Calls, Early, Alone, Shares
      <3>. QED
        BY <2>1, <2>2, <3>1, <3>2
    <2>5. Shares(r)' /\ Settled(r)'
      BY <1>1, <1>7, <2>1 DEF RetryOk, Shares, Settled
    <2>. QED
      BY <1>1, <2>1, <2>4, <2>5 DEF RetryOk
  <1>. QED
    BY <1>4, <1>8, <1>9, <1>10, <1>11, <1>13, <1>14, <1>15, <1>16, <1>17, <1>19, <1>20
       DEF Step, Handler, Participant

\* Nobody has called in the beginning.
LEMMA InitRetryInv ==
  ASSUME "staleIfError" \notin Modes, Init
  PROVE  RetryInv
  <1>1. ASSUME NEW r \in Requests
        PROVE  /\ mode[r] # "staleIfError" /\ wk[r] = "off" /\ CallsBy(r) = {}
               /\ solo[r] = DisableCoalescing /\ flight[KeyOf[r]] # r
    BY ConstantsAssumption DEF Init, CallsBy
  <1>2. ASSUME NEW r \in Requests PROVE RetryOk(r)
    BY <1>1 DEF RetryOk, Calls, Shares, Settled, AtMostOne, AtMostTwo
  <1>. QED
    BY <1>2, InitBufferInv DEF RetryInv

\* Every step keeps the invariant.
LEMMA RetryStep ==
  ASSUME RetryInv, [Next]_vars
  PROVE  RetryInv'
  <1>1. BufferInv'
    BY BufferStep DEF RetryInv
  <1>2. CASE UNCHANGED vars
    <2>1. UNCHANGED <<mode, pc, wk, solo, res, calls, flight>>
      BY <1>2 DEF vars
    <2>2. ASSUME NEW r \in Requests PROVE RetryOk(r)'
      <3>1. CallsBy(r)' = CallsBy(r) /\ RetryOk(r)
        BY <2>1 DEF CallsBy, RetryInv
      <3>. QED
        BY <2>1, <3>1 DEF RetryOk, Calls, Shares, Settled, Early, Alone
    <2>. QED
      BY <1>1, <2>2 DEF RetryInv
  <1>3. ASSUME NEW r \in Requests, Step(r) PROVE RetryInv'
    BY <1>1, <1>3, OwnRetry, OtherRetry DEF RetryInv
  <1>. QED
    BY <1>2, <1>3 DEF Next, Step

\* A set without three elements has at most two.
LEMMA TwoAtMost ==
  ASSUME NEW S, AtMostTwo(S)
  PROVE  Cardinality(S) <= 2
  <1>1. CASE S = {}
    BY <1>1, FS_EmptySet
  <1>2. CASE \E c, d \in S : S = {c, d}
    <2>1. PICK c, d \in S : S = {c} \union {d}
      BY <1>2
    <2>2. IsFiniteSet({c}) /\ Cardinality({c}) = 1
      BY FS_Singleton
    <2>. QED
      BY <2>1, <2>2, FS_AddElement
  <1>3. S # {} => \E c, d \in S : S = {c, d}
    <2>1. CASE AtMostOne(S)
      BY <2>1 DEF AtMostOne
    <2>2. CASE ~AtMostOne(S)
      BY <2>2 DEF AtMostOne, AtMostTwo
    <2>. QED
      BY <2>1, <2>2
  <1>. QED
    BY <1>1, <1>2, <1>3

\* BoundedRetries: unless a stored response is tried first for stale-if-error, a
\* request calls the upstream server at most twice, whatever flights it joins.
THEOREM RetriesAreBounded ==
  ASSUME "staleIfError" \notin Modes
  PROVE  Spec => []BoundedRetries
  <1>1. RetryInv => BoundedRetries
    BY TwoAtMost DEF RetryInv, RetryOk, Calls, CallsBy, BoundedRetries
  <1>2. Init => RetryInv
    BY InitRetryInv
  <1>3. RetryInv /\ [Next]_vars => RetryInv'
    BY RetryStep
  <1>. QED
    BY <1>1, <1>2, <1>3, PTL DEF Spec

-----------------------------------------------------------------------------
(***************************************************************************)
(* What coalesced requests are answered with: every request misses, and no *)
(* context ends before its handler returns.                                *)
(***************************************************************************)

MissesOnly == Modes \subseteq {"miss"} /\ CtxEnds = {}

\* A miss runs in its goroutine while its handler waits.
OnMiss(r) ==
  /\ mode[r] = "miss" /\ pc[r] \in {"new", "wait", "done"}
  /\ pc[r] = "new" <=> wk[r] = "off"
  /\ pc[r] = "done" => wk[r] = "end"
  /\ pc[r] # "done" => ctx[r] = "live" /\ out[r].code = 0
  /\ wk[r] \notin {"revalidated", "crash"}

\* The bytes are those of call c, cut short only by an upstream server that has
\* panicked.
Of(body, c) == body = Whole(c) \/ (body = Cut(c) /\ calls[c].ans.kind = "abort")

\* The headers of call c, alone or with those of other calls that r has made.
Under(h, c, r) == c \in h /\ (h = {c} \/ h \subseteq CallsBy(r))

\* The bytes are none, or a response that may be sent to the client of r.
Fits(r, body, h, code) ==
  body = <<>> \/ \E c \in 1 .. Len(calls) :
    /\ Of(body, c) /\ Under(h, c, r) /\ code = Code(calls[c].ans)
    /\ KeyOf[calls[c].by] = KeyOf[r]
    /\ calls[c].ans.vary => VariantOf[calls[c].by] = VariantOf[r]
    /\ calls[c].ans.private \/ calls[c].ans.cookie => calls[c].by = r

\* The value is none, or tells whether it may be sent to the client of r, which
\* has called the upstream server itself or not at all.
FitsValue(r, v) ==
  v.body = <<>> \/ \E c \in 1 .. Len(calls) :
    /\ Of(v.body, c) /\ Under(v.hdr, c, r) /\ v.code = Code(calls[c].ans)
    /\ KeyOf[calls[c].by] = KeyOf[r]
    /\ v.variant = VariantOf[calls[c].by]
    /\ calls[c].ans.private \/ calls[c].ans.cookie => v.disable
    /\ calls[c].by = r \/ (v.shared /\ CallsBy(r) = {})

\* The bytes are none, or those of the call that r has made itself.
Owns(r) ==
  content[buf[r]] = <<>> \/ \E c \in 1 .. Len(calls) :
    /\ Of(content[buf[r]], c) /\ c \in rwHdr[r] /\ status[r] = Code(calls[c].ans)
    /\ calls[c].by = r
    /\ wk[r] # "fetched" /\ calls[c].ans.private => draft[r].private

\* Until it is given a value, its header map has nothing but its own calls.
OwnMap(r) ==
  wk[r] \in {"off", "do", "join", "fetch", "fetched", "store", "snapshot", "apply"}
    => rwHdr[r] \subseteq CallsBy(r)
Empty(r) == wk[r] \in {"do", "join", "fetch"} => content[buf[r]] = <<>>
Filling(r) == wk[r] \in {"fetched", "store", "snapshot"} => Owns(r)
Given(r) ==
  wk[r] = "apply" /\ res[r].err = "none" => content[buf[r]] = <<>> /\ FitsValue(r, res[r])
Fitting(r) ==
  (\/ wk[r] = "apply" /\ res[r].err # "none"
   \/ wk[r] \in {"release", "notify"}
   \/ wk[r] = "end" /\ pc[r] = "wait")
    => Fits(r, content[buf[r]], rwHdr[r], status[r])
SentFits(r) == Fits(r, out[r].body, out[r].hdr, out[r].code)
MissOk(r) ==
  OwnMap(r) /\ Empty(r) /\ Filling(r) /\ Given(r) /\ Fitting(r) /\ SentFits(r)

\* The upstream server has answered as it may.
Answered == \A c \in 1 .. Len(calls) : calls[c].ans \in Answers

MissInv == RetryInv /\ Answered /\ \A r \in Requests : OnMiss(r) /\ MissOk(r)

\* The steps of a request that misses.
LEMMA MissSteps ==
  ASSUME MissesOnly, MissInv, NEW r \in Requests, Step(r)
  PROVE  \/ Start(r) \/ Do(r) \/ Fetch(r) \/ Panic(r) \/ UpstreamFails(r) \/ UpstreamReads(r)
         \/ Store(r) \/ Snapshot(r) \/ UpstreamReturnsEarly(r) \/ UpstreamAgain(r)
         \/ UpstreamApplies(r) \/ Release(r) \/ Notify(r) \/ SelectResponse(r)
  <1>1. OnMiss(r)
    BY DEF MissInv
  <1>2. ~StartBackground(r) /\ ~ReturnBackground(r) /\ ~SelectContextDone(r) /\ ~EndContext(r)
    BY <1>1 DEF OnMiss, MissesOnly, StartBackground, ReturnBackground, SelectContextDone, EndContext
  <1>3. /\ ~RevalidateSettles(r) /\ ~RevalidateReads(r) /\ ~RevalidateApplies(r)
        /\ ~RevalidatePanics(r) /\ ~Crash(r) /\ ~FallThrough(r)
    BY <1>1 DEF OnMiss, RevalidateSettles, RevalidateReads, RevalidateApplies,
                RevalidatePanics, Crash, FallThrough
  <1>4. /\ ~RespondFresh(r) /\ ~RespondStaleOnError(r) /\ ~RespondGatewayTimeout(r)
        /\ ~RespondStored(r) /\ ~RespondNotModified(r) /\ ~RespondRevalidated(r)
    BY <1>1 DEF OnMiss, RespondFresh, RespondStaleOnError, RespondGatewayTimeout,
                RespondStored, RespondNotModified, RespondRevalidated
  <1>. QED
    BY <1>2, <1>3, <1>4 DEF Step, Handler, Participant

\* A request that misses goes on missing.
LEMMA OnMissStep ==
  ASSUME MissesOnly, MissInv, NEW r \in Requests, Step(r), NEW q \in Requests
  PROVE  OnMiss(q)'
  <1>1. TypeOK /\ BufferInv /\ OnMiss(r) /\ OnMiss(q)
    BY DEF MissInv, RetryInv, BufferInv
  <1>2. CASE q # r
    <2>1. ~Crash(r)
      BY <1>1 DEF OnMiss, Crash
    <2>2. \/ wk'[q] = wk[q] /\ pc'[q] = pc[q]
          \/ wk[q] = "join" /\ wk'[q] = "apply" /\ pc'[q] = pc[q]
      BY <1>1, <1>2, <2>1, OthersWait
    <2>3. mode'[q] = mode[q] /\ ctx'[q] = ctx[q] /\ out'[q] = out[q]
      BY <1>1, <1>2, OthersKeep
    <2>. QED
      BY <1>1, <2>2, <2>3 DEF OnMiss
  <1>3. CASE Panic(r) \/ UpstreamFails(r) \/ Snapshot(r)
    <2>1. /\ mode' = mode /\ pc' = pc /\ ctx' = ctx /\ out' = out /\ wk'[r] = "apply"
          /\ wk[r] \in {"fetched", "snapshot"}
      BY <1>1, <1>3, PublishReaches DEF Panic, UpstreamFails, Snapshot, reqVars
    <2>2. CASE q = r
      BY <1>1, <2>1, <2>2 DEF OnMiss
    <2>. QED
      BY <1>2, <2>2
  <1>4. CASE q = r /\ (Start(r) \/ Do(r) \/ Fetch(r) \/ UpstreamReads(r) \/ Store(r))
    BY <1>1, <1>4 DEF OnMiss, TypeOK, Start, Do, Fetch, UpstreamReads, Store, reqVars
  <1>5. CASE q = r /\ (UpstreamReturnsEarly(r) \/ UpstreamAgain(r) \/ UpstreamApplies(r))
    BY <1>1, <1>5 DEF OnMiss, TypeOK, UpstreamReturnsEarly, UpstreamAgain, UpstreamApplies, reqVars
  <1>6. CASE q = r /\ (Release(r) \/ Notify(r) \/ SelectResponse(r))
    BY <1>1, <1>6 DEF OnMiss, TypeOK, Release, Notify, SelectResponse, Return, reqVars
  <1>. QED
    BY <1>2, <1>3, <1>4, <1>5, <1>6, MissSteps

\* What one request finds in its writer while others take their steps.
LEMMA OtherMiss ==
  ASSUME MissesOnly, MissInv, NEW r \in Requests, Step(r), NEW q \in Requests, q # r,
         wk'[q] = wk[q], res'[q] = res[q], pc'[q] = pc[q]
  PROVE  MissOk(q)'
  <1>1. BufferInv /\ OnMiss(q) /\ MissOk(q)
    BY DEF MissInv, RetryInv
  <1>2. /\ status'[q] = status[q] /\ rwHdr'[q] = rwHdr[q] /\ draft'[q] = draft[q]
        /\ out'[q] = out[q] /\ buf'[q] = buf[q]
        /\ UsesBuffer(q) => content'[buf[q]] = content[buf[q]]
    BY <1>1, OthersKeep
  <1>3. \A c \in 1 .. Len(calls) : c \in 1 .. Len(calls') /\ calls'[c] = calls[c]
    BY <1>1, CallsGrow
  <1>11. CallsBy(q)' = CallsBy(q)
    BY <1>1, CallsByStep
  <1>12. OwnMap(q)'
    BY <1>1, <1>2, <1>11 DEF MissOk, OwnMap
  <1>4. wk[q] \notin {"off", "notify", "end", "crash"} \/ pc[q] = "wait" => UsesBuffer(q)
    BY DEF UsesBuffer
  <1>5. wk[q] # "off" /\ pc[q] # "done" => pc[q] = "wait"
    BY <1>1 DEF OnMiss
  <1>6. Empty(q)'
    BY <1>1, <1>2, <1>4 DEF MissOk, Empty
  <1>7. Filling(q)'
    BY <1>1, <1>2, <1>3, <1>4 DEF MissOk, Filling, Owns, Of
  <1>8. Given(q)'
    <2>1. PICK v : v = res[q]
      OBVIOUS
    <2>2. wk[q] = "apply" /\ v.err = "none" => FitsValue(q, v) /\ content[buf[q]] = <<>>
      BY <1>1, <2>1 DEF MissOk, Given
    <2>3. FitsValue(q, v) => FitsValue(q, v)'
      BY <1>3, <1>11 DEF FitsValue, Of, Under
    <2>. QED
      BY <1>2, <1>4, <2>1, <2>2, <2>3 DEF Given
  <1>9. Fitting(q)'
    <2>1. CASE /\ wk[q] \in {"apply", "release", "notify"} \/ (wk[q] = "end" /\ pc[q] = "wait")
      <3>1. content'[buf[q]] = content[buf[q]]
        BY <1>1, <1>2, <1>4, <1>5, <2>1 DEF OnMiss
      <3>. QED
        BY <1>1, <1>2, <1>3, <1>11, <3>1 DEF MissOk, Fitting, Fits, Of, Under
    <2>2. CASE ~(wk[q] \in {"apply", "release", "notify"} \/ (wk[q] = "end" /\ pc[q] = "wait"))
      BY <2>2 DEF Fitting
    <2>. QED
      BY <2>1, <2>2
  <1>10. SentFits(q)'
    BY <1>1, <1>2, <1>3, <1>11 DEF MissOk, SentFits, Fits, Of, Under
  <1>. QED
    BY <1>6, <1>7, <1>8, <1>9, <1>10, <1>12 DEF MissOk

\* What the leader publishes fits those that have waited for it.
LEMMA SnapshotGives ==
  ASSUME MissInv, NEW r \in Requests, Snapshot(r), NEW q \in Requests,
         KeyOf[q] = KeyOf[r], q = r \/ (Value(r).shared /\ CallsBy(q) = {})
  PROVE  FitsValue(q, Value(r))
  <1>1. /\ TypeOK /\ Owns(r) /\ ctx[r] = "live" /\ mode[r] = "miss" /\ wk[r] = "snapshot"
        /\ rwHdr[r] \subseteq CallsBy(r)
    BY DEF MissInv, RetryInv, BufferInv, OnMiss, MissOk, Filling, OwnMap, Snapshot
  <1>5. Value(r).shared => AtMostOne(CallsBy(r))
    BY DEF Value, Followers, Leads, MissInv, RetryInv, RetryOk, Shares, Calls, Alone
  <1>2. Value(r).body = content[buf[r]] /\ Value(r).code = status[r] /\ Value(r).hdr = rwHdr[r]
        /\ Value(r).variant = VariantOf[r]
        /\ (draft[r].private \/ HeaderSays(rwHdr[r], "cookie") => Value(r).disable)
    BY <1>1, ValueSays DEF Header
  <1>3. CASE content[buf[r]] # <<>>
    <2>1. PICK c \in 1 .. Len(calls) :
            /\ Of(content[buf[r]], c) /\ c \in rwHdr[r] /\ status[r] = Code(calls[c].ans)
            /\ calls[c].by = r
            /\ calls[c].ans.private => draft[r].private
      BY <1>1, <1>3 DEF Owns
    <2>2. calls[c].ans.cookie => HeaderSays(rwHdr[r], "cookie")
      BY <2>1 DEF HeaderSays
    <2>3. calls[c].ans.private \/ calls[c].ans.cookie => Value(r).disable
      BY <1>2, <2>1, <2>2
    <2>4. Value(r).shared => rwHdr[r] = {c}
      BY <1>1, <1>5, <2>1 DEF AtMostOne, CallsBy
    <2>5. Under(rwHdr[r], c, q)
      BY <1>1, <2>1, <2>4 DEF Under
    <2>. QED
      BY <1>2, <2>1, <2>3, <2>5 DEF FitsValue
  <1>4. CASE content[buf[r]] = <<>>
    BY <1>2, <1>4 DEF FitsValue
  <1>. QED
    BY <1>3, <1>4

\* What a call of its own has left in a writer may be sent to the client.
LEMMA OwnFits ==
  ASSUME NEW r \in Requests, Owns(r), rwHdr[r] \subseteq CallsBy(r)
  PROVE  Fits(r, content[buf[r]], rwHdr[r], status[r])
  BY DEF Owns, Fits, Under

\* A request that gets what it has waited for.
LEMMA FollowerMiss ==
  ASSUME MissesOnly, MissInv, NEW r \in Requests, Step(r), NEW q \in Requests, q # r,
         wk[q] = "join", wk'[q] = "apply"
  PROVE  MissOk(q)'
  <1>1. BufferInv /\ TypeOK /\ OnMiss(q) /\ MissOk(q) /\ OnMiss(r)
    BY DEF MissInv, RetryInv, BufferInv
  <1>2. /\ rwHdr'[q] = rwHdr[q] /\ out'[q] = out[q] /\ buf'[q] = buf[q]
        /\ UsesBuffer(q) => content'[buf[q]] = content[buf[q]]
    BY <1>1, OthersKeep
  <1>3. content'[buf'[q]] = <<>>
    BY <1>1, <1>2 DEF UsesBuffer, MissOk, Empty
  <1>4. ~Crash(r)
    BY <1>1 DEF OnMiss, Crash
  <1>5. /\ KeyOf[q] = KeyOf[r] /\ wk'[r] = "apply" /\ res'[q] = res'[r]
        /\ wk[r] \in {"fetched", "snapshot"}
        /\ res'[r].err = "none" => res'[r].shared
    BY <1>1, <1>4, OthersWait
  <1>6. PICK v : v = res'[r]
    OBVIOUS
  <1>12. CallsBy(q)' = CallsBy(q) /\ CallsBy(q) = {}
    BY <1>1, CallsByStep DEF MissInv, RetryInv, RetryOk, Calls, Shares, Early, Alone
  <1>13. OwnMap(q)'
    BY <1>1, <1>2, <1>12 DEF MissOk, OwnMap
  <1>7. v.err = "none" => FitsValue(q, v)'
    <2>1. CASE Snapshot(r)
      <3>1. v = Value(r) /\ calls' = calls
        BY <1>1, <1>6, <2>1, PublishReaches DEF Snapshot
      <3>2. v.err = "none" => FitsValue(q, v)
        BY <1>5, <1>6, <1>12, <2>1, <3>1, SnapshotGives
      <3>. QED
        BY <1>12, <3>1, <3>2 DEF FitsValue, Of, Under
    <2>2. CASE Panic(r) \/ UpstreamFails(r)
      <3>1. PICK e \in {"panic", "fail", "50x"} : Publish(r, Error(e))
        BY <2>2 DEF Panic, UpstreamFails
      <3>2. v = Error(e)
        BY <1>1, <1>6, <3>1, PublishReaches
      <3>. QED
        BY <3>2 DEF Error
    <2>3. Snapshot(r) \/ Panic(r) \/ UpstreamFails(r)
      <3>1. ~Start(r) /\ ~Do(r) /\ ~Fetch(r) /\ ~UpstreamReads(r) /\ ~Store(r)
        BY <1>1, <1>5 DEF Start, Do, Fetch, UpstreamReads, Store, TypeOK
      <3>2. /\ ~UpstreamReturnsEarly(r) /\ ~UpstreamAgain(r) /\ ~UpstreamApplies(r)
            /\ ~Release(r) /\ ~Notify(r) /\ ~SelectResponse(r)
        BY <1>1, <1>5 DEF UpstreamReturnsEarly, UpstreamAgain, UpstreamApplies, Release, Notify,
                          SelectResponse, TypeOK
      <3>. QED
        BY <3>1, <3>2, MissSteps
    <2>. QED
      BY <2>1, <2>2, <2>3
  <1>8. Empty(q)' /\ Filling(q)'
    BY DEF Empty, Filling
  <1>9. Given(q)'
    BY <1>3, <1>5, <1>6, <1>7 DEF Given
  <1>10. Fitting(q)'
    BY <1>3 DEF Fitting, Fits
  <1>11. SentFits(q)'
    BY <1>1, <1>2, <1>12, CallsGrow DEF MissOk, SentFits, Fits, Of, Under
  <1>. QED
    BY <1>8, <1>9, <1>10, <1>11, <1>13 DEF MissOk

\* Only answers to its own calls are put into the map before the value is.
LEMMA OwnMapStep ==
  ASSUME MissesOnly, MissInv, NEW r \in Requests, Step(r)
  PROVE  OwnMap(r)'
  <1>1. BufferInv /\ TypeOK /\ OwnMap(r) /\ OnMiss(r)
    BY DEF MissInv, RetryInv, BufferInv, MissOk
  <1>2. CallsBy(r) \subseteq CallsBy(r)'
    BY <1>1, CallsByStep
  <1>3. ASSUME UNCHANGED rwHdr, wk[r] \notin {"release", "notify", "end"}
        PROVE  OwnMap(r)'
    BY <1>1, <1>2, <1>3 DEF OwnMap, OnMiss, TypeOK, WkPlaces
  <1>4. ASSUME wk'[r] \in {"release", "notify", "end"} PROVE OwnMap(r)'
    BY <1>4 DEF OwnMap
  <1>5. CASE Start(r) \/ Do(r) \/ UpstreamReads(r) \/ Store(r) \/ UpstreamAgain(r)
    <2>1. UNCHANGED rwHdr /\ wk[r] \notin {"release", "notify", "end"}
      BY <1>1, <1>5 DEF Start, Do, UpstreamReads, Store, UpstreamAgain, OnMiss
    <2>. QED
      BY <1>3, <2>1
  <1>6. CASE Panic(r) \/ UpstreamFails(r) \/ Snapshot(r)
    BY <1>3, <1>6 DEF Panic, UpstreamFails, Snapshot
  <1>7. CASE UpstreamReturnsEarly(r) \/ UpstreamApplies(r) \/ Release(r) \/ Notify(r)
    BY <1>1, <1>4, <1>7 DEF UpstreamReturnsEarly, UpstreamApplies, Release, Notify, TypeOK
  <1>8. CASE SelectResponse(r)
    BY <1>4, <1>8 DEF SelectResponse
  <1>9. CASE Fetch(r)
    <2>1. PICK c : c = Len(calls) + 1
      OBVIOUS
    <2>2. wk[r] = "fetch" /\ c \in Nat \ {0} /\ Len(calls') = c /\ calls'[c].by = r
      BY <1>1, <1>9, <2>1, FetchCalls
    <2>3. c \in CallsBy(r)'
      BY <2>2 DEF CallsBy
    <2>4. rwHdr'[r] \subseteq rwHdr[r] \union {c}
      BY <1>1, <1>9, <2>1, FetchFills
    <2>. QED
      BY <1>1, <1>2, <2>2, <2>3, <2>4 DEF OwnMap
  <1>. QED
    BY <1>5, <1>6, <1>7, <1>8, <1>9, MissSteps

\* What a request that misses finds in its writer after a step of its own.
LEMMA OwnMiss ==
  ASSUME MissesOnly, MissInv, NEW r \in Requests, Step(r)
  PROVE  MissOk(r)'
  <1>1. BufferInv /\ TypeOK /\ OnMiss(r) /\ MissOk(r)
    BY DEF MissInv, RetryInv, BufferInv
  <1>2. /\ wk[r] \notin {"off", "notify", "end"} => UsesBuffer(r)
        /\ UsesBuffer(r) => buf[r] \in Buffers
    BY <1>1 DEF OnMiss, UsesBuffer, BufferInv, HasBuffer, TypeOK
  <1>17. CallsBy(r) \subseteq CallsBy(r)' /\ (wk[r] # "fetch" => CallsBy(r)' = CallsBy(r))
    BY <1>1, CallsByStep
  <1>3. OwnMap(r)' /\ (out'[r] = out[r] => SentFits(r)')
    BY <1>1, <1>17, OwnMapStep, CallsGrow DEF MissOk, SentFits, Fits, Of, Under
  <1>4. CASE Start(r)
    <2>1. PICK b \in Buffers : buf' = [buf EXCEPT ![r] = b] /\ content' = [content EXCEPT ![b] = <<>>]
      BY <1>4 DEF Start
    <2>2. content'[buf'[r]] = <<>> /\ wk'[r] = "do" /\ out' = out
      BY <1>1, <1>4, <2>1 DEF Start, TypeOK
    <2>. QED
      BY <1>3, <2>2 DEF MissOk, Empty, Filling, Given, Fitting
  <1>5. CASE Do(r)
    <2>1. content'[buf'[r]] = content[buf[r]] /\ wk[r] = "do" /\ wk'[r] \in {"fetch", "join"} /\ out' = out
      BY <1>1, <1>5 DEF Do, TypeOK, bufVars
    <2>. QED
      BY <1>1, <1>3, <2>1 DEF MissOk, Empty, Filling, Given, Fitting
  <1>6. CASE Fetch(r)
    <2>1. PICK c : c = Len(calls) + 1
      OBVIOUS
    <2>2. PICK a \in Answers : a = calls'[c].ans
      BY <1>1, <1>6, <2>1, FetchCalls
    <2>3. wk[r] = "fetch" /\ wk'[r] = "fetched" /\ c \in 1 .. Len(calls') /\ c \in Nat /\ calls'[c].by = r
      BY <1>1, <1>6, <2>1, FetchCalls
    <2>4. content[buf[r]] = <<>> /\ ctx[r] = "live" /\ buf' = buf /\ out' = out
      BY <1>1, <1>6, <2>3 DEF MissOk, Empty, OnMiss, Fetch, bufVars
    <2>5. <<>> \o Whole(c) = Whole(c) /\ <<>> \o Cut(c) = Cut(c) /\ <<>> \o <<>> = <<>>
      BY <2>3, PieceAdded, EmptyBody
    <2>6. a.kind = "fail" \/ a.kind = "notModified" => content'[buf[r]] = <<>>
      <3>1. a.kind = "fail" => content'[buf[r]] = content[buf[r]]
        BY <1>1, <1>6, <2>1, <2>2, FetchFills
      <3>2. a.kind = "notModified" => content'[buf[r]] = content[buf[r]] \o <<>>
        BY <1>1, <1>6, <2>1, <2>2, FetchFills
      <3>. QED
        BY <2>4, <2>5, <3>1, <3>2
    <2>7. a.kind \in {"ok", "error50x"} => content'[buf[r]] = Whole(c)
      <3>1. a.kind \in {"ok", "error50x"} => content'[buf[r]] = content[buf[r]] \o Whole(c)
        BY <1>1, <1>6, <2>1, <2>2, FetchFills
      <3>. QED
        BY <2>4, <2>5, <3>1
    <2>8. a.kind = "abort" => content'[buf[r]] = Cut(c)
      <3>1. a.kind = "abort" => content'[buf[r]] = content[buf[r]] \o Cut(c)
        BY <1>1, <1>6, <2>1, <2>2, FetchFills
      <3>. QED
        BY <2>4, <2>5, <3>1
    <2>9. a.kind # "fail" => status'[r] = Code(a) /\ c \in rwHdr'[r]
      BY <1>1, <1>6, <2>1, <2>2, <2>4, FetchFills
    <2>10. a.kind \in {"ok", "notModified", "error50x", "fail", "abort"}
      BY ConstantsAssumption DEF AllAnswers
    <2>11. Owns(r)'
      <3>1. CASE a.kind = "fail" \/ a.kind = "notModified"
        BY <2>4, <2>6, <3>1 DEF Owns
      <3>2. CASE a.kind \in {"ok", "error50x"}
        BY <2>2, <2>3, <2>4, <2>7, <2>9, <3>2 DEF Owns, Of
      <3>3. CASE a.kind = "abort"
        BY <2>2, <2>3, <2>4, <2>8, <2>9, <3>3 DEF Owns, Of
      <3>. QED
        BY <2>10, <3>1, <3>2, <3>3
    <2>. QED
      BY <1>3, <2>3, <2>4, <2>11 DEF MissOk, Empty, Filling, Given, Fitting
  <1>7. CASE Panic(r) \/ UpstreamFails(r)
    <2>1. PICK e \in {"panic", "fail", "50x"} : Publish(r, Error(e))
      BY <1>7 DEF Panic, UpstreamFails
    <2>2. wk'[r] = "apply" /\ res'[r].err # "none" /\ wk[r] = "fetched"
      BY <1>1, <1>7, <2>1, PublishReaches DEF Error, Panic, UpstreamFails
    <2>3. UNCHANGED <<content, buf, rwHdr, status, calls, out>>
      BY <1>7 DEF Panic, UpstreamFails, bufVars
    <2>4. Fits(r, content[buf[r]], rwHdr[r], status[r])
      BY <1>1, <2>2, OwnFits DEF MissOk, Filling, OwnMap
    <2>5. Fitting(r)'
      BY <1>17, <2>3, <2>4 DEF Fitting, Fits, Of, Under
    <2>. QED
      BY <1>3, <2>2, <2>3, <2>5 DEF MissOk, Empty, Filling, Given
  <1>8. CASE UpstreamReads(r)
    <2>1. /\ UNCHANGED <<content, buf, rwHdr, status, calls, out, ctx>>
          /\ wk[r] = "fetched" /\ wk'[r] = "store" /\ draft'[r] = Read(r)
      BY <1>1, <1>8 DEF UpstreamReads, bufVars, TypeOK
    <2>2. ctx[r] = "live" /\ Owns(r)
      BY <1>1, <2>1 DEF OnMiss, MissOk, Filling
    <2>3. draft'[r].private = HeaderSays(rwHdr[r], "private")
      BY <2>1, <2>2, ReadSays DEF Header
    <2>4. Owns(r)'
      <3>1. CASE content[buf[r]] = <<>>
        BY <2>1, <3>1 DEF Owns
      <3>2. CASE content[buf[r]] # <<>>
        <4>1. PICK c \in 1 .. Len(calls) :
                /\ Of(content[buf[r]], c) /\ c \in rwHdr[r] /\ status[r] = Code(calls[c].ans)
                /\ calls[c].by = r
          BY <2>2, <3>2 DEF Owns
        <4>2. calls[c].ans.private => draft'[r].private
          BY <2>3, <4>1 DEF HeaderSays
        <4>. QED
          BY <2>1, <4>1, <4>2 DEF Owns, Of
      <3>. QED
        BY <3>1, <3>2
    <2>. QED
      BY <1>3, <2>1, <2>4 DEF MissOk, Empty, Filling, Given, Fitting
  <1>9. CASE Store(r)
    <2>1. /\ UNCHANGED <<content, buf, rwHdr, status, calls, out, draft>>
          /\ wk[r] = "store" /\ wk'[r] = "snapshot"
      BY <1>1, <1>9 DEF Store, bufVars, TypeOK
    <2>2. Owns(r)'
      BY <1>1, <2>1 DEF MissOk, Filling, Owns, Of
    <2>. QED
      BY <1>3, <2>1, <2>2 DEF MissOk, Empty, Filling, Given, Fitting
  <1>10. CASE Snapshot(r)
    <2>1. /\ Publish(r, Value(r)) /\ content' = [content EXCEPT ![buf[r]] = <<>>]
          /\ UNCHANGED <<buf, calls, out>> /\ wk[r] = "snapshot"
      BY <1>10 DEF Snapshot, bufVars
    <2>2. wk'[r] = "apply" /\ res'[r] = Value(r)
      BY <1>1, <2>1, PublishReaches
    <2>3. content'[buf'[r]] = <<>>
      BY <1>1, <1>2, <2>1 DEF TypeOK
    <2>4. PICK v : v = Value(r)
      OBVIOUS
    <2>5. FitsValue(r, v)
      BY <1>10, <2>4, SnapshotGives
    <2>6. FitsValue(r, v)'
      BY <1>17, <2>1, <2>5 DEF FitsValue, Of, Under
    <2>7. Given(r)'
      BY <2>2, <2>3, <2>4, <2>6 DEF Given
    <2>8. Fitting(r)'
      BY <2>3 DEF Fitting, Fits
    <2>. QED
      BY <1>3, <2>1, <2>2, <2>7, <2>8 DEF MissOk, Empty, Filling
  <1>11. CASE UpstreamReturnsEarly(r)
    <2>1. /\ UNCHANGED <<content, buf, rwHdr, status, calls, out>>
          /\ wk[r] = "apply" /\ wk'[r] = "release" /\ res[r].err # "none"
      BY <1>1, <1>11 DEF UpstreamReturnsEarly, bufVars, TypeOK
    <2>2. Fits(r, content[buf[r]], rwHdr[r], status[r])
      BY <1>1, <2>1 DEF MissOk, Fitting
    <2>3. Fitting(r)'
      BY <1>17, <2>1, <2>2 DEF Fitting, Fits, Of, Under
    <2>. QED
      BY <1>3, <2>1, <2>3 DEF MissOk, Empty, Filling, Given
  <1>12. CASE UpstreamAgain(r)
    <2>1. /\ UNCHANGED <<content, buf, out>>
          /\ wk[r] = "apply" /\ wk'[r] = "do" /\ res[r].err = "none"
      BY <1>1, <1>12 DEF UpstreamAgain, bufVars, TypeOK
    <2>2. Empty(r)'
      BY <1>1, <2>1 DEF MissOk, Given, Empty
    <2>. QED
      BY <1>3, <2>1, <2>2 DEF MissOk, Fitting, Filling, Given
  <1>13. CASE UpstreamApplies(r)
    <2>1. /\ UNCHANGED <<buf, calls, out>> /\ CopyValue(r) /\ ~MustGoAlone(r) /\ ~OtherVariant(r)
          /\ wk[r] = "apply" /\ wk'[r] = "release" /\ res[r].err = "none"
      BY <1>1, <1>13 DEF UpstreamApplies, bufVars, TypeOK
    <2>2. FitsValue(r, res[r]) /\ ctx[r] = "live"
      BY <1>1, <2>1 DEF MissOk, Given, OnMiss
    <2>3. content'[buf'[r]] = res[r].body /\ status'[r] = res[r].code
      BY <1>1, <1>2, <2>1 DEF CopyValue, TypeOK
    <2>4. CASE res[r].body = <<>>
      <3>1. Fitting(r)'
        BY <2>3, <2>4 DEF Fitting, Fits
      <3>. QED
        BY <1>3, <2>1, <3>1 DEF MissOk, Empty, Filling, Given
    <2>5. CASE res[r].body # <<>>
      <3>1. PICK c \in 1 .. Len(calls) :
              /\ Of(res[r].body, c) /\ Under(res[r].hdr, c, r) /\ res[r].code = Code(calls[c].ans)
              /\ KeyOf[calls[c].by] = KeyOf[r]
              /\ res[r].variant = VariantOf[calls[c].by]
              /\ calls[c].ans.private \/ calls[c].ans.cookie => res[r].disable
              /\ calls[c].by = r \/ (res[r].shared /\ CallsBy(r) = {})
        BY <2>2, <2>5 DEF FitsValue
      <3>2. Under(rwHdr'[r], c, r)
        <4>1. PICK m \in Merged(r, res[r].hdr) : rwHdr' = [rwHdr EXCEPT ![r] = m]
          BY <2>1, PutHeaderOwn DEF CopyValue
        <4>2. m \in {res[r].hdr, rwHdr[r] \union res[r].hdr}
          BY <2>2, <3>1, <4>1 DEF Merged, Under, Blank
        <4>3. rwHdr[r] \subseteq CallsBy(r) /\ (calls[c].by = r => c \in CallsBy(r))
          BY <1>1, <2>1 DEF MissOk, OwnMap, CallsBy
        <4>4. Under(m, c, r)
          BY <3>1, <4>2, <4>3 DEF Under
        <4>. QED
          BY <1>1, <4>1, <4>4 DEF TypeOK
      <3>3. calls[c].ans.private \/ calls[c].ans.cookie => calls[c].by = r
        BY <2>1, <3>1 DEF MustGoAlone
      <3>4. calls[c].ans.vary => VariantOf[calls[c].by] = VariantOf[r]
        BY <2>1, <3>1 DEF OtherVariant, HeaderSays, Under
      <3>6. Under(rwHdr[r], c, r)'
        BY <1>17, <2>1, <3>2 DEF Under
      <3>5. Fitting(r)'
        BY <2>1, <2>3, <3>1, <3>6, <3>3, <3>4 DEF Fitting, Fits, Of
      <3>. QED
        BY <1>3, <2>1, <3>5 DEF MissOk, Empty, Filling, Given
    <2>. QED
      BY <2>4, <2>5
  <1>14. CASE Release(r)
    <2>1. /\ UNCHANGED <<buf, calls, out, rwHdr, status>> /\ wk[r] = "release" /\ wk'[r] = "notify"
          /\ content' = content \/ content' = [content EXCEPT ![buf[r]] = <<>>]
      BY <1>1, <1>14 DEF Release, TypeOK
    <2>2. content'[buf[r]] = content[buf[r]] \/ content'[buf[r]] = <<>>
      BY <1>1, <1>2, <2>1 DEF TypeOK
    <2>3. Fits(r, content[buf[r]], rwHdr[r], status[r])
      BY <1>1, <2>1 DEF MissOk, Fitting
    <2>4. Fitting(r)'
      BY <1>17, <2>1, <2>2, <2>3 DEF Fitting, Fits, Of, Under
    <2>. QED
      BY <1>3, <2>1, <2>4 DEF MissOk, Empty, Filling, Given
  <1>15. CASE Notify(r)
    <2>1. /\ UNCHANGED <<content, buf, calls, out, rwHdr, status>>
          /\ wk[r] = "notify" /\ wk'[r] = "end"
      BY <1>1, <1>15 DEF Notify, bufVars, TypeOK
    <2>2. Fitting(r)'
      BY <1>1, <1>17, <2>1 DEF MissOk, Fitting, Fits, Of, Under
    <2>. QED
      BY <1>3, <2>1, <2>2 DEF MissOk, Empty, Filling, Given
  <1>16. CASE SelectResponse(r)
    <2>1. /\ wk[r] = "end" /\ pc[r] = "wait" /\ wk'[r] = "end" /\ pc'[r] = "done" /\ calls' = calls
          /\ out' = out \/ Send(r, status[r], content[buf[r]], rwHdr[r])
      BY <1>1, <1>16 DEF SelectResponse, Return, TypeOK
    <2>2. Fits(r, content[buf[r]], rwHdr[r], status[r])
      BY <1>1, <2>1 DEF MissOk, Fitting
    <2>3. ASSUME Send(r, status[r], content[buf[r]], rwHdr[r])
          PROVE  SentFits(r)'
      <3>1. out[r].code = 0
        BY <1>1, <2>1 DEF OnMiss
      <3>2. out'[r] = [code |-> status[r], body |-> content[buf[r]], hdr |-> rwHdr[r]]
        BY <1>1, <2>3, <3>1 DEF Send, FirstCode, TypeOK
      <3>3. out'[r].code = status[r] /\ out'[r].body = content[buf[r]] /\ out'[r].hdr = rwHdr[r]
        BY <3>2
      <3>4. PICK body, h, code : body = content[buf[r]] /\ h = rwHdr[r] /\ code = status[r]
        OBVIOUS
      <3>5. Fits(r, body, h, code)'
        BY <1>17, <2>1, <2>2, <3>4 DEF Fits, Of, Under
      <3>. QED
        BY <3>3, <3>4, <3>5 DEF SentFits
    <2>4. SentFits(r)'
      BY <1>3, <2>1, <2>3
    <2>. QED
      BY <1>3, <2>1, <2>4 DEF MissOk, Empty, Filling, Given, Fitting
  <1>. QED
    BY <1>4, <1>5, <1>6, <1>7, <1>8, <1>9, <1>10, <1>11, <1>12, <1>13, <1>14, <1>15, <1>16, MissSteps

\* Nothing has been answered in the beginning.
LEMMA InitMissInv ==
  ASSUME MissesOnly, Init
  PROVE  MissInv
  <1>1. ASSUME NEW r \in Requests
        PROVE  /\ mode[r] = "miss" /\ pc[r] = "new" /\ wk[r] = "off" /\ ctx[r] = "live"
               /\ out[r].code = 0 /\ out[r].body = <<>> /\ rwHdr[r] = {}
    BY DEF Init, MissesOnly, Blank
  <1>2. ASSUME NEW r \in Requests PROVE OnMiss(r)
    BY <1>1 DEF OnMiss
  <1>3. ASSUME NEW r \in Requests PROVE MissOk(r)
    BY <1>1 DEF MissOk, OwnMap, Empty, Filling, Given, Fitting, SentFits, Fits
  <1>4. Answered
    BY DEF Init, Answered
  <1>5. RetryInv
    BY InitRetryInv DEF MissesOnly
  <1>. QED
    BY <1>2, <1>3, <1>4, <1>5 DEF MissInv

\* Every step keeps the invariant.
LEMMA MissStep ==
  ASSUME MissesOnly, MissInv, [Next]_vars
  PROVE  MissInv'
  <1>1. RetryInv'
    BY RetryStep DEF MissInv
  <1>2. CASE UNCHANGED vars
    BY <1>1, <1>2 DEF vars, MissInv, Answered, OnMiss, MissOk, OwnMap, Empty, Filling, Owns,
                      Given, FitsValue, Fitting, SentFits, Fits, Of, Under, CallsBy
  <1>3. ASSUME NEW r \in Requests, Step(r) PROVE MissInv'
    <2>1. \A q \in Requests : OnMiss(q)'
      BY <1>3, OnMissStep
    <2>2. MissOk(r)'
      BY <1>3, OwnMiss
    <2>3. ASSUME NEW q \in Requests, q # r PROVE MissOk(q)'
      <3>1. ~Crash(r)
        BY DEF MissInv, OnMiss, Crash
      <3>2. \/ wk'[q] = wk[q] /\ res'[q] = res[q] /\ pc'[q] = pc[q]
            \/ wk[q] = "join" /\ wk'[q] = "apply"
        BY <1>3, <2>3, <3>1, OthersWait DEF MissInv, RetryInv
      <3>. QED
        BY <1>3, <2>3, <3>2, OtherMiss, FollowerMiss
    <2>4. Answered'
      BY <1>3, CallsGrow DEF MissInv, RetryInv, Answered
    <2>. QED
      BY <1>1, <2>1, <2>2, <2>3, <2>4 DEF MissInv
  <1>. QED
    BY <1>2, <1>3 DEF Next, Step

\* The pieces a client has been sent are those of one call, which fits it.
LEMMA SentPieces ==
  ASSUME MissInv, NEW r \in Requests, NEW i \in DOMAIN out[r].body
  PROVE  \E c \in 1 .. Len(calls) :
           /\ out[r].body[i].call = c
           /\ calls[c].ans.vary => VariantOf[calls[c].by] = VariantOf[r]
           /\ calls[c].ans.private \/ calls[c].ans.cookie => calls[c].by = r
  <1>1. out[r].body # <<>>
    OBVIOUS
  <1>2. PICK c \in 1 .. Len(calls) :
          /\ Of(out[r].body, c)
          /\ calls[c].ans.vary => VariantOf[calls[c].by] = VariantOf[r]
          /\ calls[c].ans.private \/ calls[c].ans.cookie => calls[c].by = r
    BY <1>1 DEF MissInv, MissOk, SentFits, Fits
  <1>3. \A j \in DOMAIN Whole(c) : Whole(c)[j].call = c
    BY DEF Whole
  <1>4. \A j \in DOMAIN Cut(c) : Cut(c)[j].call = c
    BY DEF Cut
  <1>. QED
    BY <1>2, <1>3, <1>4 DEF Of

\* PrivateToItsClient: however many requests that miss share a call, a private
\* response reaches the client that has asked for it, and no other.
THEOREM PrivateStaysPrivate ==
  ASSUME MissesOnly
  PROVE  Spec => []PrivateToItsClient
  <1>1. MissInv => PrivateToItsClient
    BY SentPieces DEF PrivateToItsClient
  <1>2. Init => MissInv
    BY InitMissInv
  <1>3. MissInv /\ [Next]_vars => MissInv'
    BY MissStep
  <1>. QED
    BY <1>1, <1>2, <1>3, PTL DEF Spec

\* VariantMatches: a coalesced client is sent the variant that it has asked for.
THEOREM VariantsMatch ==
  ASSUME MissesOnly
  PROVE  Spec => []VariantMatches
  <1>1. MissInv => VariantMatches
    BY SentPieces DEF VariantMatches
  <1>2. Init => MissInv
    BY InitMissInv
  <1>3. MissInv /\ [Next]_vars => MissInv'
    BY MissStep
  <1>. QED
    BY <1>1, <1>2, <1>3, PTL DEF Spec

\* WholeResponse: unless the upstream server aborts a body, a client is sent one
\* whole response for its key, under the status of the same call and its headers,
\* which only earlier answers to calls of its own may have added to.
THEOREM ResponsesAreWhole ==
  ASSUME MissesOnly, \A a \in Answers : a.kind # "abort"
  PROVE  Spec => []WholeResponse
  <1>1. ASSUME MissInv, NEW r \in Requests, out[r].body # <<>>
        PROVE  \E c \in 0 .. Len(calls) :
                 /\ out[r].body = Whole(c)
                 /\ c \in out[r].hdr
                 /\ \/ out[r].hdr = {c}
                    \/ \A d \in out[r].hdr : d # Cached /\ calls[d].by = r
                 /\ c = Cached => out[r].code = 200
                 /\ c # Cached => /\ KeyOf[calls[c].by] = KeyOf[r]
                                  /\ out[r].code = Code(calls[c].ans)
    <2>1. PICK c \in 1 .. Len(calls) :
            /\ Of(out[r].body, c) /\ Under(out[r].hdr, c, r) /\ out[r].code = Code(calls[c].ans)
            /\ KeyOf[calls[c].by] = KeyOf[r]
      BY <1>1 DEF MissInv, MissOk, SentFits, Fits
    <2>2. out[r].body = Whole(c)
      BY <1>1, <2>1 DEF Of, MissInv, Answered
    <2>3. c # Cached /\ c \in 0 .. Len(calls)
      BY DEF Cached
    <2>4. \A d \in CallsBy(r) : d # Cached /\ calls[d].by = r
      BY DEF CallsBy, Cached
    <2>. QED
      BY <2>1, <2>2, <2>3, <2>4 DEF Under
  <1>2. MissInv => WholeResponse
    BY <1>1 DEF WholeResponse
  <1>3. Init => MissInv
    BY InitMissInv
  <1>4. MissInv /\ [Next]_vars => MissInv'
    BY MissStep
  <1>. QED
    BY <1>2, <1>3, <1>4, PTL DEF Spec

=============================================================================
