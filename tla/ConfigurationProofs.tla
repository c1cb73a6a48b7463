------------------------- MODULE ConfigurationProofs -------------------------
(***************************************************************************)
(* Proofs about the life of a configuration: parsed (ConfigurationParsers),*)
(* provisioned (CaddyLifecycle), and applied to the requests               *)
(* (RequestContext).                                                       *)
(***************************************************************************)
EXTENDS ConfigurationParsers, RequestContext, CaddyLifecycle, WellFoundedInduction,
        NaturalsInduction, SequenceTheorems, FiniteSetTheorems, FunctionTheorems, TLAPS

-----------------------------------------------------------------------------
(* Natural numbers. *)

LEMMA LeastOf ==
  ASSUME NEW T, T \subseteq Nat, T # {}
  PROVE  \E x \in T : \A y \in T : x <= y
<1>1. PICK x \in T : \A y \in T : ~(<<y, x>> \in OpToRel(<, Nat))
  BY NatLessThanWellFounded, WFMin
<1>2. \A y \in T : ~(y < x)
  <2> SUFFICES ASSUME NEW y \in T, y < x PROVE FALSE
    OBVIOUS
  <2>1. x \in Nat /\ y \in Nat
    OBVIOUS
  <2>2. <<y, x>> \in OpToRel(<, Nat)
    BY <2>1, Zenon DEF OpToRel
  <2> QED BY <1>1, <2>2
<1> QED BY <1>2

\* A set that is closed under successor from zero on has all natural numbers.
LEMMA AllNaturals ==
  ASSUME NEW T, 0 \in T, \A n \in Nat : n \in T => n + 1 \in T
  PROVE  Nat \subseteq T
<1> SUFFICES ASSUME Nat \ T # {} PROVE FALSE
  OBVIOUS
<1>1. PICK m \in Nat \ T : \A y \in Nat \ T : m <= y
  BY LeastOf
<1>2. m - 1 \in Nat /\ m - 1 \in T
  BY <1>1
<1> QED BY <1>2

-----------------------------------------------------------------------------
(* Sequences: where a concatenation can be cut, and the order of ranks. *)

\* A concatenation is cut where one of its parts ends.
LEMMA CutAtLength ==
  ASSUME NEW U, NEW p \in Seq(U), NEW q \in Seq(U), NEW x \in Seq(U), NEW y \in Seq(U),
         p \o x = q \o y, Len(p) = Len(q)
  PROVE  p = q /\ x = y
<1>1. \A i \in 1..Len(p) : (p \o x)[i] = p[i] /\ (q \o y)[i] = q[i]
  OBVIOUS
<1>2. Len(x) = Len(y)
  OBVIOUS
<1>3. \A i \in 1..Len(x) : (p \o x)[Len(p) + i] = x[i] /\ (q \o y)[Len(q) + i] = y[i]
  BY <1>2
<1>4. \A i \in 1..Len(p) : p[i] = q[i]
  BY <1>1
<1>5. \A i \in 1..Len(x) : x[i] = y[i]
  BY <1>2, <1>3
<1>6. p = q
  BY <1>4, SeqEqual
<1>7. x = y
  BY <1>2, <1>5, SeqEqual
<1> QED BY <1>6, <1>7

\* It is cut at the first token of D.
LEMMA CutAtFirst ==
  ASSUME NEW U, NEW D, NEW p \in Seq(U), NEW q \in Seq(U), NEW x \in Seq(U), NEW y \in Seq(U),
         p \o x = q \o y,
         ToSet(p) \cap D = {}, ToSet(q) \cap D = {},
         x = <<>> \/ x[1] \in D, y = <<>> \/ y[1] \in D
  PROVE  p = q /\ x = y
<1>1. /\ \A i \in 1..Len(p) : p[i] \notin D
      /\ \A i \in 1..Len(q) : q[i] \notin D
  <2>1. DOMAIN p = 1..Len(p) /\ DOMAIN q = 1..Len(q)
    OBVIOUS
  <2>2. \A i \in 1..Len(p) : p[i] \notin D
    BY <2>1 DEF ToSet
  <2>3. \A i \in 1..Len(q) : q[i] \notin D
    BY <2>1 DEF ToSet
  <2> QED BY <2>2, <2>3
<1>2. Len(p \o x) = Len(p) + Len(x) /\ Len(q \o y) = Len(q) + Len(y)
  OBVIOUS
<1>3. ~(Len(p) < Len(q))
  <2> SUFFICES ASSUME Len(p) < Len(q) PROVE FALSE
    OBVIOUS
  <2>1. x # <<>>
    BY <1>2
  <2>2. (p \o x)[Len(p) + 1] = x[1]
    BY <2>1
  <2>3. (q \o y)[Len(p) + 1] = q[Len(p) + 1]
    OBVIOUS
  <2> QED BY <1>1, <2>1, <2>2, <2>3
<1>4. ~(Len(q) < Len(p))
  <2> SUFFICES ASSUME Len(q) < Len(p) PROVE FALSE
    OBVIOUS
  <2>1. y # <<>>
    BY <1>2
  <2>2. (q \o y)[Len(q) + 1] = y[1]
    BY <2>1
  <2>3. (p \o x)[Len(q) + 1] = p[Len(q) + 1]
    OBVIOUS
  <2> QED BY <1>1, <2>1, <2>2, <2>3
<1>5. Len(p) = Len(q)
  BY <1>3, <1>4
<1> QED BY <1>5, CutAtLength

\* It is cut at the last token d.
LEMMA CutAtLast ==
  ASSUME NEW U, NEW d \in U, NEW p \in Seq(U), NEW q \in Seq(U), NEW v \in Seq(U), NEW w \in Seq(U),
         p \o (<<d>> \o v) = q \o (<<d>> \o w),
         d \notin ToSet(v), d \notin ToSet(w)
  PROVE  p = q /\ v = w
<1> DEFINE x == <<d>> \o v
           y == <<d>> \o w
<1>1. /\ x \in Seq(U) /\ Len(x) = Len(v) + 1 /\ x[1] = d /\ \A i \in 1..Len(v) : x[i + 1] = v[i]
      /\ y \in Seq(U) /\ Len(y) = Len(w) + 1 /\ y[1] = d /\ \A i \in 1..Len(w) : y[i + 1] = w[i]
  OBVIOUS
<1>2. /\ \A i \in 1..Len(v) : v[i] # d
      /\ \A i \in 1..Len(w) : w[i] # d
  BY DEF ToSet
<1>3. p \o x = q \o y
  OBVIOUS
<1> HIDE DEF x, y
<1>4. Len(p) + Len(x) = Len(q) + Len(y)
  <2>1. x \in Seq(U) /\ y \in Seq(U)
    BY <1>1
  <2>2. Len(p \o x) = Len(p) + Len(x) /\ Len(q \o y) = Len(q) + Len(y)
    BY <2>1
  <2>3. Len(p \o x) = Len(q \o y)
    BY <1>3
  <2> QED BY <2>2, <2>3
<1>5. /\ \A i \in 1..Len(x) : (p \o x)[Len(p) + i] = x[i]
      /\ \A i \in 1..Len(y) : (q \o y)[Len(q) + i] = y[i]
  BY <1>1
<1>6. ~(Len(p) < Len(q))
  <2> SUFFICES ASSUME Len(p) < Len(q) PROVE FALSE
    OBVIOUS
  <2> DEFINE i == Len(q) - Len(p)
  <2>1. i \in 1..Len(v)
    BY <1>1, <1>4
  <2>2. x[i + 1] = y[1]
    <3>1. i + 1 \in 1..Len(x) /\ 1 \in 1..Len(y) /\ Len(p) + (i + 1) = Len(q) + 1
      BY <2>1, <1>1
    <3> QED BY <3>1, <1>5, <1>3
  <2> QED BY <2>1, <2>2, <1>1, <1>2
<1>7. ~(Len(q) < Len(p))
  <2> SUFFICES ASSUME Len(q) < Len(p) PROVE FALSE
    OBVIOUS
  <2> DEFINE i == Len(p) - Len(q)
  <2>1. i \in 1..Len(w)
    BY <1>1, <1>4
  <2>2. y[i + 1] = x[1]
    <3>1. i + 1 \in 1..Len(y) /\ 1 \in 1..Len(x) /\ Len(q) + (i + 1) = Len(p) + 1
      BY <2>1, <1>1
    <3> QED BY <3>1, <1>5, <1>3
  <2> QED BY <2>1, <2>2, <1>1, <1>2
<1>8. Len(p) = Len(q)
  BY <1>6, <1>7
<1>9. p = q /\ x = y
  BY <1>1, <1>3, <1>8, CutAtLength
<1>10. Len(<<d>>) = 1 /\ <<d>> \in Seq(U) /\ <<d>> \o v = <<d>> \o w
  BY <1>9 DEF x, y
<1> QED BY <1>9, <1>10, CutAtLength

LEMMA SameLast ==
  ASSUME NEW U, NEW p \in Seq(U), NEW q \in Seq(U), NEW d \in U, p \o <<d>> = q \o <<d>>
  PROVE  p = q
<1>1. Len(p \o <<d>>) = Len(p) + 1 /\ Len(q \o <<d>>) = Len(q) + 1
  OBVIOUS
<1>2. Len(p) = Len(q) /\ <<d>> \in Seq(U)
  BY <1>1
<1> QED BY <1>2, CutAtLength

LEMMA SecondToken ==
  ASSUME NEW U, NEW V, NEW c \in U, NEW d \in U, NEW g \in Seq(U), NEW h \in Seq(V),
         h = <<c, d>> \o g
  PROVE  d \in V
<1>1. Len(<<c, d>> \o g) >= 2 /\ (<<c, d>> \o g)[2] = d
  OBVIOUS
<1>2. Len(h) >= 2 /\ h[2] = d
  BY <1>1
<1>3. 2 \in 1..Len(h)
  BY <1>2
<1> QED BY <1>2, <1>3

LEMMA TokensOfConcat ==
  ASSUME NEW U, NEW s \in Seq(U), NEW t \in Seq(U)
  PROVE  ToSet(s \o t) = ToSet(s) \union ToSet(t)
<1>1. /\ \A i \in 1..Len(s) : (s \o t)[i] = s[i]
      /\ \A i \in 1..Len(t) : (s \o t)[Len(s) + i] = t[i] /\ Len(s) + i \in 1..Len(s \o t)
      /\ \A i \in 1..Len(s \o t) : i \in 1..Len(s) \/ i - Len(s) \in 1..Len(t)
      /\ Len(s \o t) = Len(s) + Len(t)
  OBVIOUS
<1> DEFINE u == s \o t
<1>2. /\ DOMAIN s = 1..Len(s) /\ DOMAIN t = 1..Len(t) /\ DOMAIN u = 1..Len(u)
      /\ \A i \in 1..Len(u) : Len(s) + (i - Len(s)) = i
  OBVIOUS
<1> HIDE DEF u
<1>3. /\ ToSet(s) = {s[i] : i \in 1..Len(s)}
      /\ ToSet(t) = {t[i] : i \in 1..Len(t)}
      /\ ToSet(u) = {u[i] : i \in 1..Len(u)}
  BY <1>2 DEF ToSet
<1>4. ASSUME NEW i \in 1..Len(u) PROVE u[i] \in ToSet(s) \union ToSet(t)
  <2>1. CASE i \in 1..Len(s)
    BY <1>1, <1>3, <2>1 DEF u
  <2>2. CASE i - Len(s) \in 1..Len(t)
    <3>1. u[i] = t[i - Len(s)]
      BY <1>1, <1>2, <2>2 DEF u
    <3> QED BY <1>3, <2>2, <3>1
  <2> QED BY <1>1, <2>1, <2>2 DEF u
<1>5. ASSUME NEW i \in 1..Len(s) PROVE s[i] \in ToSet(u)
  <2>1. i \in 1..Len(u) /\ u[i] = s[i]
    BY <1>1 DEF u
  <2> QED BY <1>3, <2>1
<1>6. ASSUME NEW i \in 1..Len(t) PROVE t[i] \in ToSet(u)
  <2>1. Len(s) + i \in 1..Len(u) /\ u[Len(s) + i] = t[i]
    BY <1>1 DEF u
  <2> QED BY <1>3, <2>1
<1>7. ToSet(u) = ToSet(s) \union ToSet(t)
  BY <1>3, <1>4, <1>5, <1>6
<1> QED BY <1>7 DEF u

\* A longer sequence has the elements of the shorter one and the last one.
LEMMA Appended ==
  ASSUME NEW S, NEW s \in Seq(S), NEW e
  PROVE  /\ ToSet(Append(s, e)) = ToSet(s) \union {e}
         /\ Append(s, e) \in Seq(ToSet(Append(s, e))) /\ Append(s, e) # <<>>
<1> DEFINE U == S \union {e}
           t == Append(s, e)
<1>1. s \in Seq(U) /\ e \in U
  BY SeqMonotonic
<1>2. /\ Len(s) \in Nat /\ DOMAIN s = 1..Len(s)
      /\ t \in Seq(U) /\ t # <<>> /\ Len(t) = Len(s) + 1 /\ DOMAIN t = 1..Len(t)
      /\ t = [i \in 1..Len(t) |-> t[i]]
      /\ \A i \in 1..Len(s) : t[i] = s[i]
      /\ t[Len(s) + 1] = e
  <2> HIDE DEF U
  <2>1. t \in Seq(U) /\ t # <<>> /\ Len(t) = Len(s) + 1
    BY <1>1, AppendProperties
  <2>2. (\A i \in 1..Len(s) : t[i] = s[i]) /\ t[Len(s) + 1] = e
    BY <1>1, AppendProperties
  <2> HIDE DEF t
  <2>3. /\ t \in [1..Len(t) -> U] /\ DOMAIN t = 1..Len(t)
        /\ Len(s) \in Nat /\ DOMAIN s = 1..Len(s)
    BY <1>1, <2>1, LenProperties
  <2>4. t = [i \in 1..Len(t) |-> t[i]]
    BY <2>3
  <2> QED BY <2>1, <2>2, <2>3, <2>4
<1> HIDE DEF U, t
<1>3. 1..Len(t) = (1..Len(s)) \union {Len(s) + 1}
  BY <1>2
<1>4. ToSet(t) = ToSet(s) \union {e}
  BY <1>2, <1>3 DEF ToSet
<1>5. t \in Seq(ToSet(t))
  <2>1. \A i \in 1..Len(t) : t[i] \in ToSet(t)
    BY <1>2 DEF ToSet
  <2>2. t \in [1..Len(t) -> ToSet(t)] /\ Len(t) \in Nat
    BY <1>2, <2>1
  <2> QED BY <2>2
<1> QED BY <1>2, <1>4, <1>5 DEF t

\* Concatenation, for steps that are about its laws only.
Cat(s, t) == s \o t

Associative(S) ==
  /\ \A x, y \in S : Cat(x, y) \in S
  /\ \A x, y, z \in S : Cat(Cat(x, y), z) = Cat(x, Cat(y, z))

LEMMA TextsAssociate == ASSUME NEW U PROVE Associative(Seq(U))
<1>1. ASSUME NEW x \in Seq(U), NEW y \in Seq(U) PROVE Cat(x, y) \in Seq(U)
  BY DEF Cat
<1>2. ASSUME NEW x \in Seq(U), NEW y \in Seq(U), NEW z \in Seq(U)
      PROVE  Cat(Cat(x, y), z) = Cat(x, Cat(y, z))
  BY ConcatAssociative DEF Cat
<1> QED BY <1>1, <1>2 DEF Associative

LEMMA Associated ==
  ASSUME NEW S, NEW s \in S, NEW d \in S, NEW e \in S, NEW f \in S, NEW g \in S,
         Associative(S)
  PROVE  Cat(Cat(Cat(Cat(s, d), e), f), g) = Cat(s, Cat(d, Cat(e, Cat(f, g))))
<1>1. Cat(s, d) \in S /\ Cat(Cat(s, d), e) \in S /\ Cat(f, g) \in S /\ Cat(e, Cat(f, g)) \in S
  BY DEF Associative
<1>2. Cat(Cat(Cat(Cat(s, d), e), f), g) = Cat(Cat(Cat(s, d), e), Cat(f, g))
  BY <1>1 DEF Associative
<1>3. Cat(Cat(Cat(s, d), e), Cat(f, g)) = Cat(Cat(s, d), Cat(e, Cat(f, g)))
  BY <1>1 DEF Associative
<1>4. Cat(Cat(s, d), Cat(e, Cat(f, g))) = Cat(s, Cat(d, Cat(e, Cat(f, g))))
  BY <1>1 DEF Associative
<1> QED BY <1>2, <1>3, <1>4

\* The parts of a flattened sequence up to each element.
PartsOf(s, U) ==
  {f \in [1..Len(s) -> Seq(U)] :
     \A i \in 1..Len(s) : f[i] = IF i = 1 THEN s[i] ELSE f[i - 1] \o s[i]}

LEMMA PartsExist ==
  ASSUME NEW U, NEW s \in Seq(Seq(U))
  PROVE  PartsOf(s, U) # {}
<1> DEFINE Up(n, f) == \A i \in 1..n : f[i] = IF i = 1 THEN s[i] ELSE f[i - 1] \o s[i]
           P(n) == n <= Len(s) => \E f \in [1..n -> Seq(U)] : Up(n, f)
<1>1. P(0)
  <2> DEFINE f == [i \in 1..0 |-> <<>>]
  <2>1. f \in [1..0 -> Seq(U)] /\ Up(0, f)
    OBVIOUS
  <2> QED BY <2>1
<1>2. ASSUME NEW n \in Nat, P(n) PROVE P(n + 1)
  <2> SUFFICES ASSUME n + 1 <= Len(s) PROVE \E f \in [1..(n + 1) -> Seq(U)] : Up(n + 1, f)
    OBVIOUS
  <2>1. PICK g \in [1..n -> Seq(U)] : Up(n, g)
    <3>1. n <= Len(s)
      OBVIOUS
    <3> QED BY <1>2, <3>1
  <2>2. s[n + 1] \in Seq(U)
    OBVIOUS
  <2> DEFINE last == IF n = 0 THEN s[1] ELSE g[n] \o s[n + 1]
             f == [i \in 1..(n + 1) |-> IF i = n + 1 THEN last ELSE g[i]]
  <2>3. last \in Seq(U)
    <3>1. n # 0 => g[n] \in Seq(U)
      OBVIOUS
    <3> QED BY <2>2, <3>1
  <2> HIDE DEF last
  <2>4. f \in [1..(n + 1) -> Seq(U)]
    BY <2>3
  <2>5. ASSUME NEW i \in 1..(n + 1)
        PROVE  f[i] = IF i = 1 THEN s[i] ELSE f[i - 1] \o s[i]
    <3>1. CASE i = n + 1
      BY <3>1 DEF last
    <3>2. CASE i # n + 1
      <4>1. i \in 1..n /\ f[i] = g[i] /\ (i # 1 => f[i - 1] = g[i - 1])
        BY <3>2
      <4>2. g[i] = IF i = 1 THEN s[i] ELSE g[i - 1] \o s[i]
        BY <4>1, <2>1
      <4> QED BY <4>1, <4>2
    <3> QED BY <3>1, <3>2
  <2> QED BY <2>4, <2>5
<1>3. P(Len(s))
  <2> HIDE DEF P
  <2> DEFINE T == {n \in Nat : P(n)}
  <2>1. 0 \in T
    BY <1>1
  <2>2. \A n \in Nat : n \in T => n + 1 \in T
    BY <1>2
  <2> HIDE DEF T
  <2>3. Nat \subseteq T
    BY <2>1, <2>2, AllNaturals
  <2> QED BY <2>3 DEF T
<1>4. PICK f \in [1..Len(s) -> Seq(U)] : Up(Len(s), f)
  <2>1. Len(s) <= Len(s)
    OBVIOUS
  <2> QED BY <2>1, <1>3
<1> QED BY <1>4 DEF PartsOf

LEMMA FlattenIsLastPart ==
  ASSUME NEW U, NEW s \in Seq(Seq(U)), s # <<>>
  PROVE  \E f \in PartsOf(s, U) : FlattenSeq(s) = f[Len(s)]
<1> DEFINE IsFlat(f) == f = [i \in 1..Len(s) |-> IF i = 1 THEN s[i] ELSE f[i - 1] \o s[i]]
           flat == CHOOSE f : IsFlat(f)
<1>1. \A f \in PartsOf(s, U) : IsFlat(f)
  BY DEF PartsOf
<1>2. IsFlat(flat)
  BY <1>1, PartsExist
<1>3. Len(s) # 0
  OBVIOUS
<1>4. FlattenSeq(s) = flat[Len(s)]
  BY <1>3, Zenon DEF FlattenSeq
<1>5. flat \in PartsOf(s, U)
  <2> HIDE DEF flat
  <2>1. \A i \in 1..Len(s) : flat[i] = IF i = 1 THEN s[i] ELSE flat[i - 1] \o s[i]
    BY <1>2
  <2> DEFINE P(n) == n \in 1..Len(s) => flat[n] \in Seq(U)
  <2>2. P(0)
    OBVIOUS
  <2>3. ASSUME NEW n \in Nat, P(n) PROVE P(n + 1)
    <3> SUFFICES ASSUME n + 1 \in 1..Len(s) PROVE flat[n + 1] \in Seq(U)
      OBVIOUS
    <3>1. s[n + 1] \in Seq(U)
      OBVIOUS
    <3>2. CASE n = 0
      BY <2>1, <3>1, <3>2
    <3>3. CASE n # 0
      <4>1. flat[n] \in Seq(U)
        BY <2>3, <3>3
      <4>2. flat[n + 1] = flat[n] \o s[n + 1]
        <5>1. (n + 1) - 1 = n /\ n + 1 # 1
          BY <3>3
        <5> QED BY <2>1, <5>1
      <4> QED BY <3>1, <4>1, <4>2
    <3> QED BY <3>2, <3>3
  <2>4. \A n \in Nat : P(n)
    <3> HIDE DEF P
    <3> DEFINE T == {n \in Nat : P(n)}
    <3>1. 0 \in T
      BY <2>2
    <3>2. \A n \in Nat : n \in T => n + 1 \in T
      BY <2>3
    <3> HIDE DEF T
    <3>3. Nat \subseteq T
      BY <3>1, <3>2, AllNaturals
    <3> QED BY <3>3 DEF T
  <2>5. flat = [i \in 1..Len(s) |-> flat[i]]
    BY <1>2
  <2>6. flat \in [1..Len(s) -> Seq(U)]
    BY <2>4, <2>5
  <2> QED BY <2>1, <2>6 DEF PartsOf
<1> QED BY <1>4, <1>5

\* Flattened texts that each begin with d begin with d.
LEMMA FlattenBegins ==
  ASSUME NEW U, NEW d \in U, NEW s \in Seq(Seq(U)),
         \A i \in 1..Len(s) : s[i] # <<>> /\ s[i][1] = d
  PROVE  /\ FlattenSeq(s) \in Seq(U)
         /\ FlattenSeq(s) = <<>> \/ FlattenSeq(s)[1] = d
<1>1. CASE s = <<>>
  BY <1>1 DEF FlattenSeq
<1>2. CASE s # <<>>
  <2>1. PICK f \in PartsOf(s, U) : FlattenSeq(s) = f[Len(s)]
    BY <1>2, FlattenIsLastPart
  <2>2. /\ f \in [1..Len(s) -> Seq(U)]
        /\ \A i \in 1..Len(s) : f[i] = IF i = 1 THEN s[i] ELSE f[i - 1] \o s[i]
    BY DEF PartsOf
  <2> DEFINE P(n) == n \in 1..Len(s) => f[n] # <<>> /\ f[n][1] = d
  <2>3. P(0)
    OBVIOUS
  <2>4. ASSUME NEW n \in Nat, P(n) PROVE P(n + 1)
    <3> SUFFICES ASSUME n + 1 \in 1..Len(s) PROVE f[n + 1] # <<>> /\ f[n + 1][1] = d
      OBVIOUS
    <3>1. CASE n = 0
      <4>1. n + 1 = 1 /\ 1 \in 1..Len(s)
        BY <3>1
      <4>2. f[1] = s[1]
        BY <4>1, <2>2
      <4>3. s[1] # <<>> /\ s[1][1] = d
        BY <4>1
      <4> QED BY <4>1, <4>2, <4>3
    <3>2. CASE n # 0
      <4>1. n \in 1..Len(s)
        BY <3>2
      <4>2. f[n + 1] = f[n] \o s[n + 1]
        <5>1. (n + 1) - 1 = n /\ n + 1 # 1
          BY <3>2
        <5> QED BY <2>2, <5>1
      <4>3. f[n] # <<>> /\ f[n][1] = d
        BY <4>1, <2>4
      <4>4. f[n] \in Seq(U) /\ s[n + 1] \in Seq(U)
        <5>1. n + 1 \in 1..Len(s)
          OBVIOUS
        <5>2. s[n + 1] \in Seq(U)
          BY <5>1
        <5> QED BY <4>1, <2>2, <5>2
      <4> QED
        <5> DEFINE p == f[n]
                   q == s[n + 1]
        <5>1. p \in Seq(U) /\ q \in Seq(U) /\ p # <<>> /\ p[1] = d
          BY <4>3, <4>4
        <5> HIDE DEF p, q
        <5>2. p \o q # <<>> /\ (p \o q)[1] = d
          BY <5>1
        <5> QED BY <4>2, <5>2 DEF p, q
    <3> QED BY <3>1, <3>2
  <2>5. P(Len(s))
    <3> HIDE DEF P
    <3> DEFINE T == {n \in Nat : P(n)}
    <3>1. 0 \in T
      BY <2>3
    <3>2. \A n \in Nat : n \in T => n + 1 \in T
      BY <2>4
    <3> HIDE DEF T
    <3>3. Nat \subseteq T
      BY <3>1, <3>2, AllNaturals
    <3> QED BY <3>3 DEF T
  <2>6. Len(s) \in 1..Len(s)
    BY <1>2
  <2> QED BY <2>1, <2>2, <2>5, <2>6
<1> QED BY <1>1, <1>2

\* Texts behind separators can be told from their concatenation if, but for the
\* first one, they have no separator themselves.
LEMMA FlattenInjective ==
  ASSUME NEW U, NEW d \in U, NEW n \in Nat,
         NEW v \in [1..n -> Seq(U)], NEW w \in [1..n -> Seq(U)],
         \A i \in 2..n : d \notin ToSet(v[i]) /\ d \notin ToSet(w[i]),
         FlattenSeq([i \in 1..n |-> <<d>> \o v[i]]) = FlattenSeq([i \in 1..n |-> <<d>> \o w[i]])
  PROVE  v = w
<1> DEFINE s == [i \in 1..n |-> <<d>> \o v[i]]
           t == [i \in 1..n |-> <<d>> \o w[i]]
<1>1. CASE n = 0
  BY <1>1
<1>2. CASE n # 0
  <2>1. /\ \A i \in 1..n : s[i] \in Seq(U) /\ t[i] \in Seq(U) /\ v[i] \in Seq(U) /\ w[i] \in Seq(U)
        /\ s = [i \in 1..n |-> s[i]] /\ t = [i \in 1..n |-> t[i]]
        /\ \A i \in 1..n : s[i] = <<d>> \o v[i] /\ t[i] = <<d>> \o w[i]
    OBVIOUS
  <2>2. FlattenSeq(s) = FlattenSeq(t)
    OBVIOUS
  <2> HIDE DEF s, t
  <2>3. /\ s \in Seq(Seq(U)) /\ Len(s) = n /\ s # <<>>
        /\ t \in Seq(Seq(U)) /\ Len(t) = n /\ t # <<>>
    <3>1. s \in [1..n -> Seq(U)] /\ t \in [1..n -> Seq(U)]
      BY <2>1
    <3> QED BY <3>1, <1>2
  <2>4. PICK f \in PartsOf(s, U) : FlattenSeq(s) = f[n]
    BY <2>3, FlattenIsLastPart
  <2>5. PICK g \in PartsOf(t, U) : FlattenSeq(t) = g[n]
    BY <2>3, FlattenIsLastPart
  <2>6. /\ f \in [1..n -> Seq(U)] /\ f[1] = s[1] /\ \A i \in 2..n : f[i] = f[i - 1] \o s[i]
        /\ g \in [1..n -> Seq(U)] /\ g[1] = t[1] /\ \A i \in 2..n : g[i] = g[i - 1] \o t[i]
    <3>1. 1 \in 1..n /\ \A i \in 2..n : i \in 1..n /\ i # 1
      BY <1>2
    <3> QED BY <2>3, <3>1 DEF PartsOf
  <2>7. ASSUME NEW i \in 2..n, f[i] = g[i] PROVE f[i - 1] = g[i - 1] /\ v[i] = w[i]
    <3>1. i \in 1..n /\ i - 1 \in 1..n
      OBVIOUS
    <3>2. f[i - 1] \in Seq(U) /\ g[i - 1] \in Seq(U)
      BY <2>6, <3>1
    <3>3. f[i - 1] \o (<<d>> \o v[i]) = g[i - 1] \o (<<d>> \o w[i])
      BY <2>1, <2>6, <2>7, <3>1
    <3>4. v[i] \in Seq(U) /\ w[i] \in Seq(U) /\ d \notin ToSet(v[i]) /\ d \notin ToSet(w[i])
      BY <3>1
    <3> DEFINE p == f[i - 1]
               q == g[i - 1]
               x == v[i]
               y == w[i]
    <3>5. /\ p \in Seq(U) /\ q \in Seq(U) /\ x \in Seq(U) /\ y \in Seq(U)
          /\ p \o (<<d>> \o x) = q \o (<<d>> \o y)
          /\ d \notin ToSet(x) /\ d \notin ToSet(y)
      BY <3>2, <3>3, <3>4
    <3> HIDE DEF p, q, x, y
    <3>6. p = q /\ x = y
      BY <3>5, CutAtLast
    <3> QED BY <3>6 DEF p, q, x, y
  <2> DEFINE P(j) == j < n => f[n - j] = g[n - j]
  <2>8. P(0)
    <3>1. f[n] = g[n]
      BY <2>2, <2>4, <2>5
    <3>2. n - 0 = n
      OBVIOUS
    <3> QED BY <3>1, <3>2
  <2>9. ASSUME NEW j \in Nat, P(j) PROVE P(j + 1)
    <3> SUFFICES ASSUME j + 1 < n PROVE f[n - (j + 1)] = g[n - (j + 1)]
      OBVIOUS
    <3>1. n - j \in 2..n /\ n - (j + 1) = (n - j) - 1 /\ f[n - j] = g[n - j]
      BY <2>9
    <3> QED BY <3>1, <2>7
  <2>10. \A j \in Nat : P(j)
    <3> HIDE DEF P
    <3> DEFINE T == {j \in Nat : P(j)}
    <3>1. 0 \in T
      BY <2>8
    <3>2. \A j \in Nat : j \in T => j + 1 \in T
      BY <2>9
    <3> HIDE DEF T
    <3>3. Nat \subseteq T
      BY <3>1, <3>2, AllNaturals
    <3> QED BY <3>3 DEF T
  <2>11. ASSUME NEW i \in 1..n PROVE f[i] = g[i]
    <3>1. n - i \in Nat /\ n - i < n /\ n - (n - i) = i
      OBVIOUS
    <3>2. P(n - i)
      BY <2>10, <3>1
    <3> QED BY <3>1, <3>2
  <2>12. v[1] = w[1]
    <3>1. 1 \in 1..n
      BY <1>2
    <3>2. <<d>> \o v[1] = <<d>> \o w[1]
      <4>1. f[1] = g[1] /\ s[1] = <<d>> \o v[1] /\ t[1] = <<d>> \o w[1]
        BY <2>1, <2>11, <3>1
      <4> QED BY <2>6, <4>1
    <3>3. v[1] \in Seq(U) /\ w[1] \in Seq(U) /\ <<d>> \in Seq(U) /\ Len(<<d>>) = 1
      BY <3>1
    <3> QED BY <3>2, <3>3, CutAtLength
  <2>13. \A i \in 1..n : v[i] = w[i]
    <3> SUFFICES ASSUME NEW i \in 1..n PROVE v[i] = w[i]
      OBVIOUS
    <3>1. i = 1 \/ i \in 2..n
      OBVIOUS
    <3> QED BY <2>7, <2>11, <2>12, <3>1
  <2> QED BY <2>13
<1> QED BY <1>1, <1>2

\* What is ranked can be brought into the order of the ranks.
LEMMA OrderExists ==
  ASSUME NEW n \in Nat, NEW r \in [1..n -> Nat]
  PROVE  \E p \in Bijection(1..n, 1..n) : \A i, j \in 1..n : i < j => r[p[i]] <= r[p[j]]
<1> DEFINE Orders(m, rank, p) ==
             /\ p \in [1..m -> 1..m]
             /\ \A i, j \in 1..m : p[i] = p[j] => i = j
             /\ \A k \in 1..m : \E i \in 1..m : p[i] = k
             /\ \A i, j \in 1..m : i < j => rank[p[i]] <= rank[p[j]]
           P(m) == \A rank \in [1..m -> Nat] : \E p : Orders(m, rank, p)
<1>1. P(0)
  <2> SUFFICES ASSUME NEW rank \in [1..0 -> Nat] PROVE \E p : Orders(0, rank, p)
    OBVIOUS
  <2> DEFINE p == [i \in 1..0 |-> i]
  <2>1. Orders(0, rank, p)
    OBVIOUS
  <2> QED BY <2>1
<1>2. ASSUME NEW m \in Nat, P(m) PROVE P(m + 1)
  <2> SUFFICES ASSUME NEW rank \in [1..(m + 1) -> Nat] PROVE \E p : Orders(m + 1, rank, p)
    OBVIOUS
  <2>1. PICK first \in 1..(m + 1) : \A i \in 1..(m + 1) : rank[first] <= rank[i]
    <3> DEFINE R == {rank[i] : i \in 1..(m + 1)}
    <3>1. R \subseteq Nat /\ rank[1] \in R
      OBVIOUS
    <3>2. \E x \in R : \A y \in R : x <= y
      BY <3>1, LeastOf
    <3> QED BY <3>2
  <2> DEFINE Up(i) == IF i = first THEN m + 1 ELSE i
             others == [i \in 1..m |-> rank[Up(i)]]
  <2>2. \A i \in 1..m : Up(i) \in 1..(m + 1) /\ Up(i) # first
    OBVIOUS
  <2>3. \A i, j \in 1..m : Up(i) = Up(j) => i = j
    OBVIOUS
  <2>4. \A k \in 1..(m + 1) : k # first => \E i \in 1..m : Up(i) = k
    <3> SUFFICES ASSUME NEW k \in 1..(m + 1), k # first PROVE \E i \in 1..m : Up(i) = k
      OBVIOUS
    <3>1. CASE k = m + 1
      <4>1. first \in 1..m /\ Up(first) = k
        BY <3>1
      <4> QED BY <4>1
    <3>2. CASE k # m + 1
      <4>1. k \in 1..m /\ Up(k) = k
        BY <3>2
      <4> QED BY <4>1
    <3> QED BY <3>1, <3>2
  <2> HIDE DEF Up
  <2>5. others \in [1..m -> Nat]
    BY <2>2
  <2>6. PICK q : Orders(m, others, q)
    BY <1>2, <2>5
  <2> DEFINE p == [i \in 1..(m + 1) |-> IF i = 1 THEN first ELSE Up(q[i - 1])]
  <2>7. ASSUME NEW i \in 2..(m + 1)
        PROVE  /\ i \in 1..(m + 1) /\ i - 1 \in 1..m /\ q[i - 1] \in 1..m
               /\ p[i] = Up(q[i - 1]) /\ p[i] \in 1..(m + 1) /\ p[i] # first
               /\ others[q[i - 1]] = rank[p[i]]
    <3>1. i \in 1..(m + 1) /\ i - 1 \in 1..m /\ i # 1
      OBVIOUS
    <3>2. q[i - 1] \in 1..m
      BY <2>6, <3>1
    <3>3. p[i] = Up(q[i - 1])
      BY <3>1
    <3> QED BY <2>2, <3>1, <3>2, <3>3
  <2>8. p[1] = first /\ 1 \in 1..(m + 1)
    OBVIOUS
  <2>9. \A i \in 1..(m + 1) : i = 1 \/ i \in 2..(m + 1)
    OBVIOUS
  <2>10. p \in [1..(m + 1) -> 1..(m + 1)]
    <3>1. \A i \in 1..(m + 1) : p[i] \in 1..(m + 1)
      BY <2>7, <2>8, <2>9
    <3>2. p = [i \in 1..(m + 1) |-> p[i]]
      OBVIOUS
    <3> HIDE DEF p
    <3> QED BY <3>1, <3>2
  <2> HIDE DEF p, others
  <2>11. ASSUME NEW i \in 1..(m + 1), NEW j \in 1..(m + 1), p[i] = p[j] PROVE i = j
    <3>1. CASE i = 1 \/ j = 1
      BY <2>7, <2>8, <2>9, <2>11, <3>1
    <3>2. CASE i # 1 /\ j # 1
      <4>1. i \in 2..(m + 1) /\ j \in 2..(m + 1)
        BY <3>2
      <4>2. q[i - 1] = q[j - 1]
        <5>1. q[i - 1] \in 1..m /\ q[j - 1] \in 1..m /\ Up(q[i - 1]) = Up(q[j - 1])
          BY <2>7, <2>11, <4>1
        <5> QED BY <2>3, <5>1
      <4>3. i - 1 = j - 1
        BY <2>6, <2>7, <4>1, <4>2
      <4> QED BY <4>3
    <3> QED BY <3>1, <3>2
  <2>12. ASSUME NEW k \in 1..(m + 1) PROVE \E i \in 1..(m + 1) : p[i] = k
    <3>1. CASE k = first
      BY <2>8, <3>1
    <3>2. CASE k # first
      <4>1. PICK h \in 1..m : Up(h) = k
        BY <2>4, <3>2
      <4>2. PICK i \in 1..m : q[i] = h
        BY <2>6
      <4>3. i + 1 \in 2..(m + 1) /\ (i + 1) - 1 = i
        OBVIOUS
      <4>4. p[i + 1] = k /\ i + 1 \in 1..(m + 1)
        BY <2>7, <4>1, <4>2, <4>3
      <4> QED BY <4>4
    <3> QED BY <3>1, <3>2
  <2>13. ASSUME NEW i \in 1..(m + 1), NEW j \in 1..(m + 1), i < j PROVE rank[p[i]] <= rank[p[j]]
    <3>1. p[j] \in 1..(m + 1)
      BY <2>10
    <3>2. CASE i = 1
      BY <2>1, <2>8, <3>1, <3>2
    <3>3. CASE i # 1
      <4>1. i \in 2..(m + 1) /\ j \in 2..(m + 1) /\ i - 1 < j - 1
        BY <2>13, <3>3
      <4>2. others[q[i - 1]] <= others[q[j - 1]]
        BY <2>6, <2>7, <4>1
      <4> QED BY <2>7, <4>1, <4>2
    <3> QED BY <3>2, <3>3
  <2>14. Orders(m + 1, rank, p)
    BY <2>10, <2>11, <2>12, <2>13
  <2> QED BY <2>14
<1>3. P(n)
  <2> HIDE DEF P
  <2> DEFINE T == {m \in Nat : P(m)}
  <2>1. 0 \in T
    BY <1>1
  <2>2. \A m \in Nat : m \in T => m + 1 \in T
    BY <1>2
  <2> HIDE DEF T
  <2>3. Nat \subseteq T
    BY <2>1, <2>2, AllNaturals
  <2> QED BY <2>3 DEF T
<1>4. PICK p : Orders(n, r, p)
  BY <1>3
<1>5. p \in Bijection(1..n, 1..n)
  BY <1>4 DEF Bijection, Injection, Surjection, IsInjective
<1> QED BY <1>4, <1>5

-----------------------------------------------------------------------------
(* ConfigurationParsers: the lifetimes of Caddy's handlers. *)

Lifetimes == {"ttl", "mapping_eviction_interval"}

\* No lifetime of a Caddyfile is negative: ParseDuration reads one, and nothing
\* refuses it.
NoneNegative ==
  \A d \in Documents : d.format = "caddy" =>
    \A o \in d.options \cap Lifetimes : Inputs["caddy"][o] \subseteq Nat \union {Bad}

\* The configuration of a block has its lifetimes, zero if nothing set them, and
\* those of a handler that was provisioned are positive.
ParsedInv ==
  /\ kind \in Documents /\ block \in {"global", "handler"}
  /\ DOMAIN cfg = {"global", "handler"}
  /\ Format = "caddy" => \A b \in {"global", "handler"} : \A o \in Lifetimes :
       o \in DOMAIN cfg[b] /\ cfg[b][o] \in Nat
  /\ effective \in Seq(Range(effective))
  /\ LifetimesPositive

LEMMA LifetimesZero ==
  ASSUME NEW o \in Lifetimes
  PROVE  o \in DOMAIN ZeroConfiguration /\ ZeroConfiguration[o] = 0
<1>1. o \in AllOptions /\ o \in Durations
  BY DEF Lifetimes, AllOptions, Durations
<1>2. /\ o \notin Texts \union Lists \union Flags \union Providers \union UrlOptions
      /\ o \notin {"cache_keys", "api", "cdn", "key", "timeout", "regex", "found"}
  BY DEF Lifetimes, Texts, Lists, Flags, Providers, UrlOptions
<1>3. ZeroOf(o) = 0
  BY <1>1, <1>2 DEF ZeroOf
<1> QED BY <1>1, <1>3 DEF ZeroConfiguration

LEMMA StartHasLifetimes ==
  ASSUME Format = "caddy", NEW b, NEW o \in Lifetimes
  PROVE  o \in DOMAIN Start(b) /\ Start(b)[o] \in Nat
<1>1. o \in DOMAIN ZeroConfiguration /\ ZeroConfiguration[o] = 0
  BY LifetimesZero
<1> QED BY <1>1 DEF Start, CaddyStart, Lifetimes

\* A directive of a Caddyfile sets the option it names, a lifetime to the
\* duration it gives, unless that does not parse.
LEMMA DirectiveKeepsLifetimes ==
  ASSUME Format = "caddy", NEW c, NEW o, NEW v, NEW l \in Lifetimes,
         l \in DOMAIN c, c[l] \in Nat,
         o \in Lifetimes => v \in Nat \union {Bad}
  PROVE  l \in DOMAIN Parse(o, v, c) /\ Parse(o, v, c)[l] \in Nat
<1>1. Parse(o, v, c) = CaddyOption(o, v, c)
  BY DEF Parse
<1>2. CASE o \in Lifetimes
  <2>1. CaddyScalar(o, v, c) = IF v = Bad THEN c[o] ELSE v
    <3>1. o \in Durations /\ o \notin Flags /\ o # "timeout"
      BY <1>2 DEF Lifetimes, Durations, Flags
    <3> QED BY <3>1 DEF CaddyScalar, ParseDuration
  <2>2. CaddyOption(o, v, c) = [c EXCEPT ![o] = CaddyScalar(o, v, c)]
    BY <1>2 DEF CaddyOption, Lifetimes, Providers
  <2> QED BY <1>1, <1>2, <2>1, <2>2
<1>3. CASE o \notin Lifetimes
  <2>1. "found" # l /\ o # l
    BY <1>3 DEF Lifetimes
  <2>2. DOMAIN CaddyOption(o, v, c) = DOMAIN c /\ CaddyOption(o, v, c)[l] = c[l]
    BY <2>1 DEF CaddyOption
  <2> QED BY <1>1, <2>2
<1> QED BY <1>2, <1>3

\* The app has the lifetimes that its handlers may inherit (FromApp).
LEMMA HandlerHasLifetimes ==
  ASSUME NEW app, NEW c, NEW o \in Lifetimes,
         o \in DOMAIN app, o \in DOMAIN c, app[o] \in Nat, c[o] \in Nat
  PROVE  /\ o \in DOMAIN AppDefaults(app, c) /\ AppDefaults(app, c)[o] \in Nat
         /\ FromApp(AppDefaults(app, c), c)[o] > 0
<1> DEFINE default == IF o = "ttl" THEN 120 ELSE 3600
           a == AppDefaults(app, c)
<1>1. /\ DOMAIN a = DOMAIN app
      /\ a[o] = IF app[o] = 0 /\ c[o] = 0 THEN default ELSE app[o]
  BY DEF AppDefaults, Lifetimes
<1>2. FromApp(a, c)[o] = IF c[o] = ZeroConfiguration[o] THEN a[o] ELSE c[o]
  BY DEF FromApp, Lifetimes, Texts, Durations, Providers
<1>3. ZeroConfiguration[o] = 0
  BY LifetimesZero
<1> QED BY <1>1, <1>2, <1>3

LEMMA ParsedInit == ParsersInit => ParsedInv
BY StartHasLifetimes DEF ParsersInit, ParsedInv, LifetimesPositive

LEMMA ParsedStep ==
  ASSUME NoneNegative
  PROVE  ParsedInv /\ [ParsersNext]_parsersVars => ParsedInv'
<1> SUFFICES ASSUME ParsedInv, [ParsersNext]_parsersVars PROVE ParsedInv'
  OBVIOUS
<1>1. CASE ParseDirective
  <2> DEFINE Directive(o, v) ==
               IF Refuses(o, v, block)
               THEN refused' = TRUE /\ UNCHANGED cfg
               ELSE cfg' = [cfg EXCEPT ![block] = Parse(o, v, @)] /\ UNCHANGED refused
  <2> PICK o \in Options : \E v \in Inputs[Format][o] : Directive(o, v)
    BY <1>1 DEF ParseDirective
  <2> PICK v \in Inputs[Format][o] : Directive(o, v)
    OBVIOUS
  <2>1. UNCHANGED <<kind, block, effective>>
    BY <1>1 DEF ParseDirective
  <2>2. Format = "caddy" /\ o \in Lifetimes => v \in Nat \union {Bad}
    BY DEF NoneNegative, ParsedInv, Format, Options
  <2>3. Format = "caddy" => \A b \in {"global", "handler"} : \A l \in Lifetimes :
          l \in DOMAIN cfg'[b] /\ cfg'[b][l] \in Nat
    BY <2>2, DirectiveKeepsLifetimes DEF ParsedInv
  <2>4. DOMAIN cfg' = DOMAIN cfg
    OBVIOUS
  <2> QED BY <2>1, <2>3, <2>4 DEF ParsedInv, LifetimesPositive, Format
<1>2. CASE EndGlobal
  BY <1>2 DEF EndGlobal, ParsedInv, LifetimesPositive, Format
<1>3. CASE Provision
  <2>1. CASE Format = "caddy"
    <3> DEFINE app == AppDefaults(cfg.global, cfg.handler)
               new == FromApp(app, cfg.handler)
    <3>1. /\ effective' = Append(effective, new)
          /\ cfg' = [cfg EXCEPT !["global"] = app,
                                !["handler"] = IF kind.handlers = 1 THEN @ ELSE Start("handler")]
          /\ UNCHANGED <<kind, block>>
      BY <1>3, <2>1 DEF Provision
    <3>2. \A o \in Lifetimes : o \in DOMAIN app /\ app[o] \in Nat /\ new[o] > 0
      BY <2>1, HandlerHasLifetimes DEF ParsedInv
    <3> HIDE DEF app, new
    <3>3. \A b \in {"global", "handler"} : \A o \in Lifetimes :
            o \in DOMAIN cfg'[b] /\ cfg'[b][o] \in Nat
      BY <2>1, <3>1, <3>2, StartHasLifetimes DEF ParsedInv
    <3>4. effective' \in Seq(Range(effective'))
      <4>1. effective \in Seq(Range(effective))
        BY DEF ParsedInv
      <4>2. effective' \in Seq(ToSet(effective'))
        BY <3>1, <4>1, Appended
      <4> QED BY <4>2 DEF Range, ToSet
    <3>5. \A i \in DOMAIN effective' :
            effective'[i]["ttl"] > 0 /\ effective'[i]["mapping_eviction_interval"] > 0
      BY <2>1, <3>1, <3>2 DEF ParsedInv, LifetimesPositive, Lifetimes
    <3> QED BY <3>1, <3>3, <3>4, <3>5 DEF ParsedInv, LifetimesPositive, Format
  <2>2. CASE Format # "caddy"
    <3>1. effective' = <<cfg.global>> /\ UNCHANGED <<kind, block, cfg>>
      BY <1>3, <2>2 DEF Provision
    <3> QED BY <2>2, <3>1 DEF ParsedInv, LifetimesPositive, Format, Range
  <2> QED BY <2>1, <2>2
<1>4. CASE UNCHANGED parsersVars
  BY <1>4 DEF parsersVars, ParsedInv, LifetimesPositive, Format
<1> QED BY <1>1, <1>2, <1>3, <1>4 DEF ParsersNext

\* If no lifetime is negative, every handler of Caddy has a positive lifetime
\* and a positive interval for the eviction, in whichever order the handlers
\* that share an app are provisioned (FromApp).
THEOREM HandlersHaveLifetimes == NoneNegative /\ ParsersSpec => []LifetimesPositive
<1> SUFFICES ASSUME NoneNegative PROVE ParsersSpec => []LifetimesPositive
  OBVIOUS
<1>1. ParsedInv => LifetimesPositive
  BY DEF ParsedInv
<1> QED BY <1>1, ParsedInit, ParsedStep, PTL DEF ParsersSpec

-----------------------------------------------------------------------------
(* CaddyLifecycle: what the admin API can purge. *)

\* The handlers of a behaviour, and the providers that become storers of one:
\* those that are built in and named by storers, if that names any.
Handlers == UNION {ToSet(c) : c \in family}
Stored(h) == {p \in h.providers : p.name \in Built /\ p.name \in ToSet(Order(h))}
First(h) ==
  LET ranks == {i \in DOMAIN Order(h) : \E p \in Stored(h) : p.name = Order(h)[i]}
      least == CHOOSE i \in ranks : \A j \in ranks : i <= j
  IN CHOOSE p \in Stored(h) : p.name = Order(h)[least]
Places(h) == {Instance(p) : p \in Stored(h)}
Main(h) == Instance(First(h))

\* All handlers are configured alike, over reloads too.
HandlersAlike ==
  \A fam \in Families : \A h, g \in UNION {ToSet(c) : c \in fam} : h = g

\* The first storer, which has the surrogate keys, outlives the process if any does.
FirstLasts ==
  \A fam \in Families : \A h \in UNION {ToSet(c) : c \in fam} :
    Stored(h) # {} /\ First(h).name = "otter" => Stored(h) = {First(h)}

\* A registered storer is the default one, or that of a provider's place.
RegistryInv ==
  /\ \A n \in DOMAIN registry \ {DefaultName} :
       \E h \in Handlers : \E p \in h.providers :
         p.name \in Built /\ n = Uuid(p, h.stale) /\ registry[n] = Instance(p)
  /\ DefaultName \in DOMAIN registry => \E k \in 1..memories : registry[DefaultName] = Memory(k)

\* The handlers of an app, and its admin API, have the storers of the app, and the
\* surrogate keys of the pool.
AppInv(app) ==
  /\ app.handlers \in Seq(ToSet(app.handlers))
  /\ app.handlers = <<>> =>
       app.storers = {} /\ app.surrogate = NoSurrogate /\ app.notifier = <<>> /\ app.admin = {}
  /\ app.handlers # <<>> =>
       /\ pool # NoSurrogate /\ app.surrogate = pool
       /\ app.storers # {} /\ app.storers \subseteq DOMAIN content
       /\ \E g \in Handlers :
            IF Stored(g) # {} THEN app.storers = Places(g)
            ELSE \E k \in 1..memories : app.storers = {Memory(k)}
  /\ \A h \in ToSet(app.handlers) : h.storers = app.storers /\ h.surrogate = pool
  /\ app.notifier \in {<<>>, <<pool>>}
  /\ \A a \in app.admin : a.storers = app.storers /\ a.surrogate = pool

\* Providers that last: everything is listed in the one first storer.
PlacesInv(g) ==
  /\ DOMAIN content \subseteq Places(g)
  /\ DOMAIN content # {} => Main(g) \in DOMAIN content
  /\ \A s \in DOMAIN content : content[s] \subseteq index[Main(g)]
  /\ pool \in {NoSurrogate, Main(g)}

\* Default storers: the pool keeps the keys of the first one.  Another one that
\* is registered has nothing before it serves.
MemoryInv ==
  /\ DOMAIN content \subseteq {Memory(k) : k \in 1..memories}
  /\ pool # NoSurrogate => pool \in DOMAIN content
  /\ \A s \in current.storers : content[s] \subseteq index[pool]
  /\ DefaultName \in DOMAIN registry =>
       /\ registry[DefaultName] \in DOMAIN content
       /\ registry[DefaultName] \in current.storers \/ content[registry[DefaultName]] = {}
  /\ loading.handlers # <<>> =>
       DefaultName \in DOMAIN registry /\ loading.storers = {registry[DefaultName]}

PurgeableInv ==
  /\ family \in Families /\ memories \in Nat /\ loads \in Nat
  /\ todo \in Seq(Handlers) /\ (loading = NoApp => todo = <<>>)
  /\ DOMAIN index = DOMAIN content
  /\ RegistryInv
  /\ AppInv(current) /\ AppInv(loading)
  /\ \A g \in Handlers : IF Stored(g) # {} THEN PlacesInv(g) ELSE MemoryInv

LEMMA NamesOfProviders ==
  ProviderNames = {"badger", "etcd", "nats", "nuts", "olric", "otter", "redis", "simplefs"}
BY DEF ProviderNames, ProviderOrder, ToSet

\* A Uuid begins with the name of its provider, so that it is not the default one.
LEMMA UuidNamed ==
  ASSUME NEW p, NEW stale, p.name \in ProviderNames
  PROVE  Uuid(p, stale)[1] = p.name /\ Uuid(p, stale) # DefaultName
<1>1. \E T : Place(p) \in Seq(T)
  <2>1. p.name \in {"badger", "etcd", "nats", "nuts", "olric", "otter", "redis", "simplefs"}
    BY NamesOfProviders
  <2>2. \A x : <<x>> \in Seq({x})
    OBVIOUS
  <2>3. \A x, y : <<x, y>> \in Seq({x, y})
    OBVIOUS
  <2>4. \A x, y, z : <<x, y, z>> \in Seq({x, y, z})
    OBVIOUS
  <2>5. \A x, y, z, w : <<x, y, z, w>> \in Seq({x, y, z, w})
    OBVIOUS
  <2>6. CASE p.name = "badger"
    BY <2>3, <2>6 DEF Place, BadgerPlace
  <2>7. CASE p.name = "etcd"
    BY <2>4, <2>7 DEF Place, EtcdPlace
  <2>8. CASE p.name \in {"nats", "olric"}
    BY <2>2, <2>8 DEF Place
  <2>9. CASE p.name = "nuts"
    BY <2>2, <2>9 DEF Place, NutsPlace
  <2>10. CASE p.name = "otter"
    BY <2>10 DEF Place
  <2>11. CASE p.name = "redis"
    BY <2>5, <2>11 DEF Place, RedisPlace
  <2>12. CASE p.name = "simplefs"
    BY <2>3, <2>12 DEF Place, SimpleFSPlace
  <2> QED BY <2>1, <2>6, <2>7, <2>8, <2>9, <2>10, <2>11, <2>12
<1>2. PICK T : Place(p) \in Seq(T)
  BY <1>1
<1> DEFINE U == T \union {p.name, stale}
<1>3. /\ <<p.name>> \in Seq(U) /\ Place(p) \in Seq(U) /\ <<stale>> \in Seq(U)
  BY <1>2
<1>4. <<p.name>> \o Place(p) \in Seq(U) /\ Len(<<p.name>> \o Place(p)) >= 1
  BY <1>3
<1>5. (<<p.name>> \o Place(p))[1] = p.name
  BY <1>3
<1>6. ((<<p.name>> \o Place(p)) \o <<stale>>)[1] = p.name
  BY <1>3, <1>4, <1>5
<1>7. p.name # "default"
  BY NamesOfProviders
<1>8. Uuid(p, stale)[1] = p.name
  BY <1>5, <1>6, Zenon DEF Uuid
<1>9. DefaultName[1] = "default"
  BY DEF DefaultName
<1> QED BY <1>7, <1>8, <1>9

LEMMA HandlerTyped ==
  ASSUME family \in Families, NEW h \in Handlers
  PROVE  /\ \A p \in h.providers : p.name \in ProviderNames
         /\ \A p, q \in h.providers : p.name = q.name => p = q
         /\ DOMAIN Order(h) \subseteq Nat
<1>1. PICK c \in family : h \in ToSet(c)
  BY DEF Handlers
<1>2. c \in UNION Families
  OBVIOUS
<1>3. h.order \in Seq(ToSet(h.order))
  BY <1>1, <1>2, LifecycleAssumption DEF LifecycleAssumption
<1>4. DOMAIN Order(h) \subseteq Nat
  <2>1. DOMAIN ProviderOrder \subseteq Nat
    BY DEF ProviderOrder
  <2>2. DOMAIN h.order = 1 .. Len(h.order)
    BY <1>3
  <2> QED BY <1>3, <2>1, <2>2 DEF Order
<1> QED BY <1>1, <1>2, <1>4, LifecycleAssumption DEF LifecycleAssumption

\* The surrogate keys are in one of the handler's own storers.
LEMMA FirstIsStored ==
  ASSUME family \in Families, NEW h \in Handlers, Stored(h) # {}
  PROVE  First(h) \in Stored(h)
<1> DEFINE ranks == {i \in DOMAIN Order(h) : \E p \in Stored(h) : p.name = Order(h)[i]}
           least == CHOOSE i \in ranks : \A j \in ranks : i <= j
<1>1. ranks \subseteq Nat
  BY HandlerTyped
<1>2. ranks # {}
  BY DEF Stored, ToSet
<1>3. least \in ranks
  BY <1>1, <1>2, LeastOf
<1>4. \E p \in Stored(h) : p.name = Order(h)[least]
  BY <1>3
<1>5. First(h) = CHOOSE p \in Stored(h) : p.name = Order(h)[least]
  BY DEF First
<1> QED BY <1>4, <1>5

\* What a handler finds in the registry that it has loaded its storages into:
\* these, and nothing that another handler has left there.
LEMMA FindsItsStorages ==
  ASSUME family \in Families, HandlersAlike, RegistryInv, NEW h \in Handlers
  PROVE  LET reg == ParseStorages(registry, h) IN
         /\ Found(reg, h) = Stored(h)
         /\ \A p \in Stored(h) : Uuid(p, h.stale) \in DOMAIN reg /\ reg[Uuid(p, h.stale)] = Instance(p)
         /\ DefaultName \in DOMAIN reg <=> DefaultName \in DOMAIN registry
         /\ DefaultName \in DOMAIN registry => reg[DefaultName] = registry[DefaultName]
         /\ \A n \in DOMAIN reg \ {DefaultName} :
              \E p \in h.providers : p.name \in Built /\ n = Uuid(p, h.stale) /\ reg[n] = Instance(p)
<1> DEFINE reg == ParseStorages(registry, h)
           built == {p \in h.providers : p.name \in Built}
           uuids == {Uuid(p, h.stale) : p \in built}
<1>1. /\ DOMAIN reg = DOMAIN registry \union uuids
      /\ \A n \in DOMAIN reg :
           reg[n] = IF n \in uuids THEN Instance(CHOOSE p \in built : Uuid(p, h.stale) = n)
                    ELSE registry[n]
  BY DEF ParseStorages
<1>2. \A p, q \in h.providers : Uuid(p, h.stale) = Uuid(q, h.stale) => p = q
  BY HandlerTyped, UuidNamed
<1>3. \A p \in h.providers : Uuid(p, h.stale) # DefaultName
  BY HandlerTyped, UuidNamed
<1>4. \A p \in built : (CHOOSE q \in built : Uuid(q, h.stale) = Uuid(p, h.stale)) = p
  BY <1>2
<1>5. \A p \in built : Uuid(p, h.stale) \in DOMAIN reg /\ reg[Uuid(p, h.stale)] = Instance(p)
  <2> SUFFICES ASSUME NEW p \in built
               PROVE  Uuid(p, h.stale) \in DOMAIN reg /\ reg[Uuid(p, h.stale)] = Instance(p)
    OBVIOUS
  <2> DEFINE n == Uuid(p, h.stale)
  <2>1. n \in uuids /\ n \in DOMAIN reg
    BY <1>1
  <2>2. reg[n] = Instance(CHOOSE q \in built : Uuid(q, h.stale) = n)
    BY <1>1, <2>1
  <2>3. (CHOOSE q \in built : Uuid(q, h.stale) = n) = p
    BY <1>4
  <2> QED BY <2>1, <2>2, <2>3
<1>6. \A g \in Handlers : g = h
  BY DEF HandlersAlike, Handlers
<1>7. \A n \in DOMAIN registry \ {DefaultName} :
        \E p \in built : n = Uuid(p, h.stale) /\ registry[n] = Instance(p)
  BY <1>6 DEF RegistryInv
<1>8. DOMAIN reg \ {DefaultName} = uuids
  BY <1>1, <1>3, <1>7
<1>9. \A p \in h.providers : Uuid(p, h.stale) \in DOMAIN reg => p \in built
  BY <1>2, <1>3, <1>8
<1>10. Found(reg, h) = Stored(h)
  BY <1>5, <1>9 DEF Found, Stored
<1>11. DefaultName \notin uuids
  BY <1>3
<1> HIDE DEF reg
<1>12. \A p \in Stored(h) : Uuid(p, h.stale) \in DOMAIN reg /\ reg[Uuid(p, h.stale)] = Instance(p)
  BY <1>5 DEF Stored
<1>13. \A n \in DOMAIN reg \ {DefaultName} :
              \E p \in h.providers : p.name \in Built /\ n = Uuid(p, h.stale) /\ reg[n] = Instance(p)
  BY <1>5, <1>8
<1> QED BY <1>1, <1>10, <1>11, <1>12, <1>13 DEF reg

\* What NewHTTPCacheHandler makes of the registry: the places of the handler's
\* storages, or the default storer, which is a new one if none is registered.
LEMMA StorersOfHandler ==
  ASSUME family \in Families, HandlersAlike, RegistryInv, NEW h \in Handlers
  PROVE  LET parsed == ParseStorages(registry, h)
             reg    == WithDefault(parsed, h)
         IN
         /\ Stored(h) # {} =>
              /\ HandlerStorers(reg, h) = Places(h) /\ SurrogateStorage(reg, h) = Main(h)
              /\ ~NeedsMemory(parsed, h)
         /\ Stored(h) = {} =>
              /\ HandlerStorers(reg, h) = {reg[DefaultName]}
              /\ SurrogateStorage(reg, h) = reg[DefaultName]
              /\ NeedsMemory(parsed, h) <=> DefaultName \notin DOMAIN registry
              /\ DefaultName \in DOMAIN reg
         /\ DefaultName \in DOMAIN reg =>
              reg[DefaultName] = IF DefaultName \in DOMAIN registry THEN registry[DefaultName]
                                 ELSE Memory(memories + 1)
         /\ DefaultName \in DOMAIN reg <=>
              DefaultName \in DOMAIN registry \/ NeedsMemory(parsed, h)
         /\ \A n \in DOMAIN reg \ {DefaultName} :
              \E p \in h.providers : p.name \in Built /\ n = Uuid(p, h.stale) /\ reg[n] = Instance(p)
<1> DEFINE parsed == ParseStorages(registry, h)
           reg    == WithDefault(parsed, h)
<1>1. /\ Found(parsed, h) = Stored(h)
      /\ \A p \in Stored(h) : Uuid(p, h.stale) \in DOMAIN parsed /\ parsed[Uuid(p, h.stale)] = Instance(p)
      /\ DefaultName \in DOMAIN parsed <=> DefaultName \in DOMAIN registry
      /\ DefaultName \in DOMAIN registry => parsed[DefaultName] = registry[DefaultName]
      /\ \A n \in DOMAIN parsed \ {DefaultName} :
           \E p \in h.providers : p.name \in Built /\ n = Uuid(p, h.stale) /\ parsed[n] = Instance(p)
  BY FindsItsStorages
<1>2. \A p \in h.providers : Uuid(p, h.stale) # DefaultName
  BY HandlerTyped, UuidNamed
<1> HIDE DEF parsed
<1>3. NeedsMemory(parsed, h) <=> Stored(h) = {} /\ DefaultName \notin DOMAIN registry
  BY <1>1 DEF NeedsMemory, Names
<1>4. /\ DOMAIN reg = IF NeedsMemory(parsed, h) THEN DOMAIN parsed \union {DefaultName} ELSE DOMAIN parsed
      /\ NeedsMemory(parsed, h) => reg[DefaultName] = Memory(memories + 1)
      /\ ~NeedsMemory(parsed, h) => reg = parsed
      /\ \A n \in DOMAIN parsed \ {DefaultName} : reg[n] = parsed[n]
  BY DEF WithDefault
<1> HIDE DEF reg
<1>5. Found(reg, h) = Stored(h)
  BY <1>1, <1>2, <1>4 DEF Found
<1>6. Stored(h) # {} => HandlerStorers(reg, h) = Places(h) /\ SurrogateStorage(reg, h) = Main(h)
  <2> SUFFICES ASSUME Stored(h) # {}
               PROVE  HandlerStorers(reg, h) = Places(h) /\ SurrogateStorage(reg, h) = Main(h)
    OBVIOUS
  <2>1. reg = parsed
    BY <1>3, <1>4
  <2>2. Names(reg, h) = {Uuid(p, h.stale) : p \in Stored(h)} /\ Names(reg, h) # {}
    BY <1>5 DEF Names
  <2>3. HandlerStorers(reg, h) = {reg[Uuid(p, h.stale)] : p \in Stored(h)}
    BY <2>2 DEF HandlerStorers, StorerNames
  <2>4. \A p \in Stored(h) : reg[Uuid(p, h.stale)] = Instance(p)
    BY <1>1, <2>1
  <2>5. FirstFound(reg, h) = First(h)
    BY <1>5, Zenon DEF FirstFound, First
  <2>6. First(h) \in Stored(h)
    BY FirstIsStored
  <2>7. SurrogateStorage(reg, h) = Instance(First(h))
    BY <2>2, <2>4, <2>5, <2>6 DEF SurrogateStorage
  <2> QED BY <2>3, <2>4, <2>7 DEF Places, Main
<1>7. Stored(h) = {} =>
        /\ HandlerStorers(reg, h) = {reg[DefaultName]}
        /\ SurrogateStorage(reg, h) = reg[DefaultName]
  BY <1>5 DEF HandlerStorers, StorerNames, Names, SurrogateStorage
<1>8. \A n \in DOMAIN reg \ {DefaultName} :
        \E p \in h.providers : p.name \in Built /\ n = Uuid(p, h.stale) /\ reg[n] = Instance(p)
  BY <1>1, <1>4
<1>9. /\ DefaultName \in DOMAIN reg <=> DefaultName \in DOMAIN registry \/ NeedsMemory(parsed, h)
      /\ DefaultName \in DOMAIN reg =>
           reg[DefaultName] = IF DefaultName \in DOMAIN registry THEN registry[DefaultName]
                              ELSE Memory(memories + 1)
  BY <1>1, <1>3, <1>4
<1>10. ~NeedsMemory(parsed, h) \/ Stored(h) = {}
  BY <1>3
<1> QED BY <1>3, <1>6, <1>7, <1>8, <1>9, <1>10 DEF parsed, reg

LEMMA NoAppInv ==
  /\ current' = NoApp => AppInv(current)'
  /\ loading' = NoApp => AppInv(loading)'
<1>1. /\ NoApp.handlers = <<>> /\ NoApp.storers = {} /\ NoApp.surrogate = NoSurrogate
      /\ NoApp.notifier = <<>> /\ NoApp.admin = {}
  BY DEF NoApp
<1>2. ToSet(<<>>) = {} /\ <<>> \in Seq({})
  BY DEF ToSet
<1>3. current' = NoApp => AppInv(current)'
  BY <1>1, <1>2 DEF AppInv
<1>4. loading' = NoApp => AppInv(loading)'
  BY <1>1, <1>2 DEF AppInv
<1> QED BY <1>3, <1>4

\* An app is not affected by new instances, nor by the pool's first keys while it
\* has no handler.
LEMMA AppKept ==
  ASSUME family' = family, memories \in Nat, memories' \in Nat, memories <= memories',
         DOMAIN content \subseteq DOMAIN content', pool' = pool \/ pool = NoSurrogate
  PROVE  /\ AppInv(current) /\ current' = current => AppInv(current)'
         /\ AppInv(loading) /\ loading' = loading => AppInv(loading)'
         /\ AppInv(loading) /\ current' = loading => AppInv(current)'
<1>1. \A k \in 1 .. memories : k \in 1 .. memories'
  OBVIOUS
<1>2. Handlers' = Handlers
  BY DEF Handlers
<1>3. AppInv(current) /\ current' = current => AppInv(current)'
  BY <1>1, <1>2 DEF AppInv, ToSet
<1>4. AppInv(loading) /\ loading' = loading => AppInv(loading)'
  BY <1>1, <1>2 DEF AppInv, ToSet
<1>5. AppInv(loading) /\ current' = loading => AppInv(current)'
  BY <1>1, <1>2 DEF AppInv, ToSet
<1> QED BY <1>3, <1>4, <1>5

LEMMA PurgeableInit == LifecycleInit => PurgeableInv
<1> SUFFICES ASSUME LifecycleInit PROVE PurgeableInv
  OBVIOUS
<1>1. AppInv(current) /\ AppInv(loading)
  BY DEF LifecycleInit, AppInv, NoApp, ToSet
<1>2. RegistryInv
  BY DEF LifecycleInit, RegistryInv
<1>3. \A g \in Handlers : PlacesInv(g)
  BY DEF LifecycleInit, PlacesInv
<1>4. MemoryInv
  BY DEF LifecycleInit, MemoryInv, NoApp
<1> QED BY <1>1, <1>2, <1>3, <1>4 DEF LifecycleInit, PurgeableInv

LEMMA PurgeableBeginLoad ==
  ASSUME PurgeableInv, NEW c \in family, BeginLoad(c) PROVE PurgeableInv'
<1> USE DEF PurgeableInv
<1>1. /\ UNCHANGED <<family, registry, pool, current, content, index, memories, restarts>>
      /\ loads' = loads + 1 /\ todo' = c /\ loading' = [NoApp EXCEPT !.generation = loads + 1]
  BY DEF BeginLoad
<1>2. Handlers' = Handlers
  BY <1>1 DEF Handlers
<1>3. c \in Seq(Handlers)
  <2>1. c \in Seq(ToSet(c))
    BY LifecycleAssumption DEF LifecycleAssumption
  <2>2. ToSet(c) \subseteq Handlers
    BY DEF Handlers
  <2> QED BY <2>1, <2>2
<1>4. loading'.generation = loads + 1 /\ loading' # NoApp
  BY <1>1 DEF NoApp
<1>5. AppInv(current)'
  BY <1>1, AppKept
<1>6. loading'.handlers = <<>> /\ AppInv(loading)'
  BY <1>1 DEF NoApp, AppInv, ToSet
<1>7. RegistryInv'
  BY <1>1, <1>2 DEF RegistryInv
<1>8. \A g \in Handlers : PlacesInv(g) => PlacesInv(g)'
  BY <1>1 DEF PlacesInv
<1>9. MemoryInv => MemoryInv'
  BY <1>1, <1>6 DEF MemoryInv
<1> QED BY <1>1, <1>2, <1>3, <1>4, <1>5, <1>6, <1>7, <1>8, <1>9

LEMMA PurgeableFailLoad ==
  ASSUME PurgeableInv, NEW started \in BOOLEAN, FailLoad(started) PROVE PurgeableInv'
<1> USE DEF PurgeableInv
<1>1. /\ UNCHANGED <<family, pool, current, content, index, memories, loads, restarts>>
      /\ todo' = <<>> /\ loading' = NoApp
      /\ registry' = registry \/ registry' = Emptied
  BY DEF FailLoad
<1>2. Handlers' = Handlers
  BY <1>1 DEF Handlers
<1>3. AppInv(current)'
  BY <1>1, AppKept
<1>4. AppInv(loading)' /\ loading'.handlers = <<>>
  BY <1>1, NoAppInv DEF NoApp
<1>5. RegistryInv'
  BY <1>1, <1>2 DEF RegistryInv, Emptied
<1>6. \A g \in Handlers : PlacesInv(g) => PlacesInv(g)'
  BY <1>1 DEF PlacesInv
<1>7. MemoryInv => MemoryInv'
  BY <1>1, <1>4 DEF MemoryInv, Emptied
<1> QED BY <1>1, <1>2, <1>3, <1>4, <1>5, <1>6, <1>7

LEMMA PurgeableActivate ==
  ASSUME PurgeableInv, Activate PROVE PurgeableInv'
<1> USE DEF PurgeableInv
<1>1. /\ UNCHANGED <<family, pool, todo, content, index, memories, loads, restarts>>
      /\ current' = loading /\ loading' = NoApp /\ todo = <<>>
      /\ registry' = IF current = NoApp THEN registry ELSE Emptied
  BY DEF Activate
<1>2. Handlers' = Handlers
  BY <1>1 DEF Handlers
<1>3. AppInv(current)'
  BY <1>1, AppKept
<1>4. AppInv(loading)' /\ loading'.handlers = <<>>
  BY <1>1, NoAppInv DEF NoApp
<1>5. RegistryInv'
  BY <1>1, <1>2 DEF RegistryInv, Emptied
<1>6. \A g \in Handlers : PlacesInv(g) => PlacesInv(g)'
  BY <1>1 DEF PlacesInv
<1>7. ASSUME MemoryInv PROVE MemoryInv'
  <2>1. \A s \in loading.storers : content[s] \subseteq index[pool]
    BY <1>7 DEF MemoryInv, AppInv
  <2>2. CASE current = NoApp
    <3>1. current.storers = {} /\ registry' = registry
      BY <1>1, <2>2 DEF NoApp
    <3> QED BY <1>1, <1>4, <1>7, <2>1, <3>1 DEF MemoryInv
  <2>3. CASE current # NoApp
    BY <1>1, <1>4, <1>7, <2>1, <2>3 DEF MemoryInv, Emptied
  <2> QED BY <2>2, <2>3
<1> QED BY <1>1, <1>2, <1>3, <1>4, <1>5, <1>6, <1>7

LEMMA PurgeableAdminReceive ==
  ASSUME PurgeableInv, AdminReceive PROVE PurgeableInv'
<1> USE DEF PurgeableInv
<1>1. /\ UNCHANGED <<family, registry, pool, loading, todo, content, index, memories, loads, restarts>>
      /\ current.notifier # <<>>
      /\ current' = [current EXCEPT
           !.notifier = <<>>,
           !.admin = {[storers |-> current.storers, surrogate |-> Head(current.notifier)]}]
  BY DEF AdminReceive
<1>2. Handlers' = Handlers
  BY <1>1 DEF Handlers
<1>3. current.notifier = <<pool>> /\ Head(current.notifier) = pool /\ current.handlers # <<>>
  BY <1>1 DEF AppInv
<1>4. /\ current'.handlers = current.handlers /\ current'.storers = current.storers
      /\ current'.surrogate = current.surrogate
      /\ current'.notifier \in {current.notifier, <<>>}
      /\ \A a \in current'.admin : a \in current.admin \/ (a.storers = current.storers /\ a.surrogate = pool)
  BY <1>1, <1>3
<1>5. AppInv(current)'
  <2>1. ToSet(current'.handlers) = ToSet(current.handlers)
    BY <1>4
  <2> QED BY <1>1, <1>2, <1>3, <1>4, <2>1 DEF AppInv
<1>6. AppInv(loading)'
  BY <1>1, AppKept
<1>7. RegistryInv'
  BY <1>1, <1>2 DEF RegistryInv
<1>8. \A g \in Handlers : PlacesInv(g) => PlacesInv(g)'
  BY <1>1 DEF PlacesInv
<1>9. MemoryInv => MemoryInv'
  BY <1>1, <1>4 DEF MemoryInv
<1> QED BY <1>1, <1>2, <1>5, <1>6, <1>7, <1>8, <1>9

\* What a restart keeps is listed in the first storer, which is kept too.
LEMMA PurgeableRestart ==
  ASSUME FirstLasts, PurgeableInv, Restart PROVE PurgeableInv'
<1> USE DEF PurgeableInv
<1>1. /\ UNCHANGED <<family, memories, loads>>
      /\ registry' = Emptied /\ pool' = NoSurrogate
      /\ current' = NoApp /\ loading' = NoApp /\ todo' = <<>>
      /\ content' = [s \in {s \in DOMAIN content : Lasting(s)} |-> content[s]]
      /\ index' = [s \in {s \in DOMAIN index : Lasting(s)} |-> index[s]]
  BY DEF Restart
<1>2. Handlers' = Handlers
  BY <1>1 DEF Handlers
<1>3. /\ DOMAIN content' = {s \in DOMAIN content : Lasting(s)}
      /\ DOMAIN index' = DOMAIN content'
      /\ \A s \in DOMAIN content' : content'[s] = content[s] /\ index'[s] = index[s]
  BY <1>1
<1>4. AppInv(current)' /\ AppInv(loading)'
  BY <1>1, NoAppInv
<1>5. RegistryInv'
  BY <1>1 DEF RegistryInv, Emptied
<1>6. ASSUME NEW g \in Handlers, Stored(g) # {} PROVE PlacesInv(g)'
  <2>1. PlacesInv(g)
    BY <1>6
  <2>2. ASSUME DOMAIN content' # {} PROVE Lasting(Main(g))
    <3>1. PICK s \in DOMAIN content' : TRUE
      BY <2>2
    <3>2. PICK p \in Stored(g) : s = Instance(p)
      BY <1>3, <2>1, <3>1 DEF PlacesInv, Places
    <3>3. Lasting(s) /\ s[1] = p.name /\ p.name # "otter"
      BY <1>3, <3>1, <3>2 DEF Lasting, Instance
    <3>4. First(g) \in Stored(g)
      BY <1>6, FirstIsStored
    <3>5. First(g).name # "otter"
      BY <1>6, <3>2, <3>3 DEF FirstLasts, Handlers
    <3>6. First(g).name \in ProviderNames
      BY <3>4, HandlerTyped DEF Stored
    <3>7. First(g).name # "default"
      BY <3>6, NamesOfProviders
    <3> QED BY <3>5, <3>7 DEF Lasting, Main, Instance
  <2>3. DOMAIN content' # {} => Main(g) \in DOMAIN content'
    BY <1>3, <2>1, <2>2 DEF PlacesInv
  <2> QED BY <1>1, <1>3, <2>1, <2>3 DEF PlacesInv
<1>7. MemoryInv => MemoryInv'
  <2>1. \A k : ~Lasting(Memory(k))
    BY DEF Lasting, Memory
  <2> QED BY <1>1, <1>3, <2>1 DEF MemoryInv, NoApp, Emptied
<1> QED BY <1>1, <1>2, <1>3, <1>4, <1>5, <1>6, <1>7

\* A handler stores a response in the storers of the app and lists it where the
\* admin API looks.
LEMMA PurgeableStore ==
  ASSUME PurgeableInv, NEW h \in ToSet(current.handlers), NEW r \in Responses, StoreResponse(h, r)
  PROVE  PurgeableInv'
<1> USE DEF PurgeableInv
<1>1. /\ UNCHANGED <<family, registry, pool, current, loading, todo, memories, loads, restarts>>
      /\ content' = [s \in DOMAIN content |->
                       IF s \in h.storers THEN content[s] \union {r} ELSE content[s]]
      /\ index' = [index EXCEPT ![h.surrogate] = @ \union {r}]
  BY DEF StoreResponse
<1>2. Handlers' = Handlers
  BY <1>1 DEF Handlers
<1>3. h.storers = current.storers /\ h.surrogate = pool /\ pool # NoSurrogate
  <2>1. current.handlers # <<>>
    BY DEF ToSet
  <2> QED BY <2>1 DEF AppInv
<1>4. /\ DOMAIN content' = DOMAIN content /\ DOMAIN index' = DOMAIN index
      /\ \A s \in DOMAIN content :
           content'[s] = IF s \in current.storers THEN content[s] \union {r} ELSE content[s]
      /\ \A s \in DOMAIN index : index'[s] = IF s = pool THEN index[s] \union {r} ELSE index[s]
  BY <1>1, <1>3
<1>5. AppInv(current)' /\ AppInv(loading)'
  BY <1>1, <1>4, AppKept
<1>6. RegistryInv'
  BY <1>1, <1>2 DEF RegistryInv
<1>7. ASSUME NEW g \in Handlers, Stored(g) # {} PROVE PlacesInv(g)'
  BY <1>1, <1>3, <1>4, <1>7 DEF PlacesInv
<1>8. ASSUME MemoryInv PROVE MemoryInv'
  <2>1. current.storers \subseteq DOMAIN content
    BY <1>3 DEF AppInv
  <2> QED BY <1>1, <1>3, <1>4, <1>8, <2>1 DEF MemoryInv
<1> QED BY <1>1, <1>2, <1>4, <1>5, <1>6, <1>7, <1>8

\* A purge deletes from every storer in use what it no longer lists.
LEMMA PurgeablePurge ==
  ASSUME HandlersAlike, PurgeableInv, NEW a \in current.admin, NEW r \in Responses, AdminPurge(a, r)
  PROVE  PurgeableInv'
<1> USE DEF PurgeableInv
<1>1. /\ UNCHANGED <<family, registry, pool, current, loading, todo, memories, loads, restarts>>
      /\ index' = [index EXCEPT ![a.surrogate] = @ \ {r}]
      /\ content' = [s \in DOMAIN content |->
                       IF s \in a.storers /\ r \in index[a.surrogate]
                       THEN content[s] \ {r} ELSE content[s]]
  BY DEF AdminPurge
<1>2. Handlers' = Handlers
  BY <1>1 DEF Handlers
<1>3. /\ a.storers = current.storers /\ a.surrogate = pool /\ pool # NoSurrogate
      /\ current.handlers # <<>>
  BY DEF AppInv
<1>4. /\ DOMAIN content' = DOMAIN content /\ DOMAIN index' = DOMAIN index
      /\ \A s \in DOMAIN content :
           content'[s] = IF s \in current.storers /\ r \in index[pool]
                         THEN content[s] \ {r} ELSE content[s]
      /\ \A s \in DOMAIN index : index'[s] = IF s = pool THEN index[s] \ {r} ELSE index[s]
  BY <1>1, <1>3
<1>5. AppInv(current)' /\ AppInv(loading)'
  BY <1>1, <1>4, AppKept
<1>6. RegistryInv'
  BY <1>1, <1>2 DEF RegistryInv
<1>7. ASSUME NEW g \in Handlers, Stored(g) # {} PROVE PlacesInv(g)'
  <2>1. current.storers = Places(g)
    BY <1>3, <1>7 DEF AppInv, HandlersAlike, Handlers
  <2> QED BY <1>1, <1>3, <1>4, <1>7, <2>1 DEF PlacesInv
<1>8. ASSUME MemoryInv PROVE MemoryInv'
  <2>1. current.storers \subseteq DOMAIN content
    BY <1>3 DEF AppInv
  <2> QED BY <1>1, <1>3, <1>4, <1>8, <2>1 DEF MemoryInv
<1> QED BY <1>1, <1>2, <1>4, <1>5, <1>6, <1>7, <1>8

\* A handler that is provisioned opens the storers that are new, empty, and takes
\* the surrogate keys of the pool (NewHTTPCacheHandler, Provision).
LEMMA PurgeableProvision ==
  ASSUME HandlersAlike, PurgeableInv, ProvisionHandler PROVE PurgeableInv'
<1> USE DEF PurgeableInv
<1> DEFINE h       == Head(todo)
           parsed  == ParseStorages(registry, h)
           reg     == WithDefault(parsed, h)
           storers == HandlerStorers(reg, h)
           own     == SurrogateStorage(reg, h)
           shared  == IF pool = NoSurrogate THEN own ELSE pool
           first   == loading.surrogate = NoSurrogate
           opened  == storers \ DOMAIN content
           served  == [storers |-> storers, surrogate |-> IF first THEN shared ELSE loading.surrogate]
<1>1. /\ UNCHANGED <<family, current, loads, restarts>>
      /\ todo # <<>> /\ todo' = Tail(todo) /\ loading # NoApp
      /\ registry' = reg /\ pool' = shared
      /\ memories' = IF NeedsMemory(parsed, h) THEN memories + 1 ELSE memories
      /\ content' = [s \in DOMAIN content \union opened |-> IF s \in opened THEN {} ELSE content[s]]
      /\ index' = [s \in DOMAIN index \union opened |-> IF s \in opened THEN {} ELSE index[s]]
      /\ loading' = [loading EXCEPT
           !.handlers = Append(@, served),
           !.storers = IF @ = {} THEN storers ELSE @,
           !.surrogate = IF first THEN shared ELSE @,
           !.notifier = IF first THEN <<shared>> ELSE @]
  BY DEF ProvisionHandler, Notification
<1>2. h \in Handlers /\ todo' \in Seq(Handlers) /\ \A g \in Handlers : g = h
  <2>1. h \in Handlers /\ todo' \in Seq(Handlers)
    BY <1>1
  <2> QED BY <2>1 DEF HandlersAlike, Handlers
<1>3. /\ Stored(h) # {} => storers = Places(h) /\ own = Main(h) /\ ~NeedsMemory(parsed, h)
      /\ Stored(h) = {} =>
           /\ storers = {reg[DefaultName]} /\ own = reg[DefaultName]
           /\ NeedsMemory(parsed, h) <=> DefaultName \notin DOMAIN registry
           /\ DefaultName \in DOMAIN reg
      /\ DefaultName \in DOMAIN reg =>
           reg[DefaultName] = IF DefaultName \in DOMAIN registry THEN registry[DefaultName]
                              ELSE Memory(memories + 1)
      /\ DefaultName \in DOMAIN reg <=> DefaultName \in DOMAIN registry \/ NeedsMemory(parsed, h)
      /\ \A n \in DOMAIN reg \ {DefaultName} :
           \E p \in h.providers : p.name \in Built /\ n = Uuid(p, h.stale) /\ reg[n] = Instance(p)
  BY <1>2, StorersOfHandler
<1>4. Handlers' = Handlers
  BY <1>1 DEF Handlers
<1> HIDE DEF h, parsed, reg, storers, own
<1>5. /\ memories' \in Nat /\ memories <= memories'
      /\ DOMAIN content' = DOMAIN content \union opened /\ DOMAIN index' = DOMAIN content'
      /\ \A s \in DOMAIN content' : content'[s] = IF s \in DOMAIN content THEN content[s] ELSE {}
      /\ \A s \in DOMAIN content : index'[s] = index[s]
  BY <1>1
<1>6. storers \subseteq DOMAIN content' /\ own \in storers
  <2>1. CASE Stored(h) # {}
    BY <1>2, <1>3, <1>5, <2>1, FirstIsStored DEF Places, Main
  <2>2. CASE Stored(h) = {}
    BY <1>3, <1>5, <2>2
  <2> QED BY <2>1, <2>2
<1>7. Stored(h) = {} => \E k \in 1 .. memories' : reg[DefaultName] = Memory(k)
  <2> SUFFICES ASSUME Stored(h) = {} PROVE \E k \in 1 .. memories' : reg[DefaultName] = Memory(k)
    OBVIOUS
  <2>1. CASE DefaultName \in DOMAIN registry
    BY <1>3, <1>5, <2>1 DEF RegistryInv
  <2>2. CASE DefaultName \notin DOMAIN registry
    BY <1>1, <1>3, <2>2
  <2> QED BY <2>1, <2>2
<1>8. own # NoSurrogate
  <2>1. CASE Stored(h) # {}
    <3>1. First(h).name \in ProviderNames
      BY <1>2, <2>1, FirstIsStored, HandlerTyped DEF Stored
    <3>2. own[1] = First(h).name
      BY <1>3, <2>1 DEF Main, Instance
    <3>3. First(h).name # "no surrogate"
      BY <3>1, NamesOfProviders
    <3>4. NoSurrogate[1] = "no surrogate"
      BY DEF NoSurrogate
    <3> QED BY <3>2, <3>3, <3>4
  <2>2. CASE Stored(h) = {}
    <3>1. own[1] = "default"
      BY <1>3, <1>7, <2>2 DEF Memory
    <3>2. NoSurrogate[1] = "no surrogate"
      BY DEF NoSurrogate
    <3> QED BY <3>1, <3>2
  <2> QED BY <2>1, <2>2
<1>9. /\ loading'.handlers = Append(loading.handlers, served)
      /\ loading'.storers = IF loading.storers = {} THEN storers ELSE loading.storers
      /\ loading'.surrogate = IF first THEN shared ELSE loading.surrogate
      /\ loading'.notifier = IF first THEN <<shared>> ELSE loading.notifier
      /\ loading'.admin = loading.admin
      /\ served.storers = storers
      /\ served.surrogate = IF first THEN shared ELSE loading.surrogate
  <2>1. AppInv(loading)
    OBVIOUS
  <2> QED BY <1>1
<1>10. first <=> loading.handlers = <<>>
  BY DEF AppInv
<1>11. pool' = shared /\ shared # NoSurrogate /\ (~first => shared = pool)
       /\ loading'.surrogate = shared /\ served.surrogate = shared
  BY <1>1, <1>8, <1>9, <1>10 DEF AppInv
<1>12. loading.handlers # <<>> => loading.storers = storers
  <2> SUFFICES ASSUME loading.handlers # <<>> PROVE loading.storers = storers
    OBVIOUS
  <2>1. CASE Stored(h) # {}
    BY <1>2, <1>3, <2>1 DEF AppInv
  <2>2. CASE Stored(h) = {}
    BY <1>2, <1>3, <2>2 DEF MemoryInv
  <2> QED BY <2>1, <2>2
<1>13. loading'.storers = storers
  BY <1>9, <1>12 DEF AppInv
<1> HIDE DEF served, first, shared, opened
<1>14. AppInv(current)'
  BY <1>1, <1>5, <1>11, AppKept DEF shared
<1>15. AppInv(loading)'
  <2>1. loading.handlers \in Seq(ToSet(loading.handlers))
    BY DEF AppInv
  <2>2. ToSet(loading'.handlers) = ToSet(loading.handlers) \union {served}
    BY <1>9, <2>1, Appended
  <2>3. loading'.handlers \in Seq(ToSet(loading'.handlers)) /\ loading'.handlers # <<>>
    <3> DEFINE old == loading.handlers
               new == loading'.handlers
    <3>1. old \in Seq(ToSet(old)) /\ new = Append(old, served)
      BY <1>9, <2>1
    <3> HIDE DEF old, new
    <3>2. new \in Seq(ToSet(new)) /\ new # <<>>
      BY <3>1, Appended
    <3> QED BY <3>2 DEF new
  <2>4. \A g \in ToSet(loading'.handlers) : g.storers = storers /\ g.surrogate = shared
    <3>1. loading.handlers = <<>> => ToSet(loading.handlers) = {}
      BY DEF ToSet
    <3> QED BY <1>9, <1>10, <1>11, <1>12, <2>2, <3>1 DEF AppInv
  <2>5. IF Stored(h) # {} THEN storers = Places(h)
        ELSE \E k \in 1 .. memories' : storers = {Memory(k)}
    BY <1>3, <1>7
  <2>6. loading'.notifier \in {<<>>, <<shared>>}
    BY <1>9, <1>11 DEF AppInv
  <2>7. \A a \in loading'.admin : a.storers = storers /\ a.surrogate = shared
    BY <1>9, <1>10, <1>11, <1>12 DEF AppInv
  <2>8. storers # {}
    BY <1>6
  <2> QED BY <1>2, <1>4, <1>6, <1>11, <1>13, <2>3, <2>4, <2>5, <2>6, <2>7, <2>8 DEF AppInv
<1>16. RegistryInv'
  <2>1. DefaultName \in DOMAIN registry' => \E k \in 1 .. memories' : registry'[DefaultName] = Memory(k)
    <3>1. CASE DefaultName \in DOMAIN registry
      BY <1>1, <1>3, <1>5, <3>1 DEF RegistryInv
    <3>2. ASSUME DefaultName \notin DOMAIN registry, DefaultName \in DOMAIN registry'
          PROVE  registry'[DefaultName] = Memory(memories + 1) /\ memories' = memories + 1
      BY <1>1, <1>3, <3>2
    <3>3. memories + 1 \in 1 .. (memories + 1)
      OBVIOUS
    <3> QED BY <3>1, <3>2, <3>3
  <2> QED BY <1>1, <1>2, <1>3, <1>4, <2>1 DEF RegistryInv
<1>17. ASSUME NEW g \in Handlers, Stored(g) # {} PROVE PlacesInv(g)'
  <2>1. g = h
    BY <1>2
  <2>2. PlacesInv(g) /\ Main(g) \in DOMAIN content'
    BY <1>3, <1>6, <1>17, <2>1
  <2>3. DOMAIN content' \subseteq Places(g)
    BY <1>3, <1>5, <1>17, <2>1, <2>2 DEF PlacesInv, opened
  <2>4. \A s \in DOMAIN content' : content'[s] \subseteq index'[Main(g)]
    BY <1>5, <2>2 DEF PlacesInv
  <2>5. pool' = Main(g)
    BY <1>3, <1>11, <1>17, <2>1, <2>2 DEF PlacesInv, shared
  <2> QED BY <2>2, <2>3, <2>4, <2>5 DEF PlacesInv
<1>18. ASSUME Stored(h) = {} PROVE MemoryInv'
  <2>1. MemoryInv
    BY <1>2, <1>18
  <2>2. DOMAIN content' \subseteq {Memory(k) : k \in 1 .. memories'}
    <3>1. opened \subseteq {Memory(k) : k \in 1 .. memories'}
      BY <1>3, <1>7, <1>18 DEF opened
    <3> QED BY <1>5, <2>1, <3>1 DEF MemoryInv
  <2>3. pool' \in DOMAIN content'
    BY <1>5, <1>6, <1>11, <2>1 DEF MemoryInv, shared
  <2>4. \A s \in current.storers : content'[s] \subseteq index'[pool']
    <3>1. SUFFICES ASSUME NEW s \in current.storers PROVE content'[s] \subseteq index'[pool']
      OBVIOUS
    <3>2. current.handlers # <<>>
      BY DEF AppInv
    <3>3. pool' = pool /\ s \in DOMAIN content /\ pool \in DOMAIN content
      BY <1>11, <2>1, <3>2 DEF AppInv, MemoryInv, shared
    <3> QED BY <1>5, <2>1, <3>3 DEF MemoryInv
  <2>5. /\ registry'[DefaultName] \in DOMAIN content'
        /\ registry'[DefaultName] \in current.storers \/ content'[registry'[DefaultName]] = {}
    <3>1. CASE DefaultName \in DOMAIN registry
      BY <1>1, <1>3, <1>5, <1>18, <2>1, <3>1 DEF MemoryInv
    <3>2. CASE DefaultName \notin DOMAIN registry
      <4>1. reg[DefaultName] = Memory(memories + 1)
        BY <1>3, <1>18, <3>2
      <4>2. Memory(memories + 1) \notin DOMAIN content
        BY <2>1 DEF MemoryInv, Memory
      <4> QED BY <1>1, <1>3, <1>5, <1>6, <1>18, <4>1, <4>2
    <3> QED BY <3>1, <3>2
  <2>6. DefaultName \in DOMAIN registry' /\ loading'.storers = {registry'[DefaultName]}
    BY <1>1, <1>3, <1>13, <1>18
  <2> QED BY <1>1, <2>2, <2>3, <2>4, <2>5, <2>6 DEF MemoryInv
<1>19. loading' # NoApp
  <2>1. loading.handlers \in Seq(ToSet(loading.handlers))
    BY DEF AppInv
  <2>2. served \in ToSet(loading'.handlers)
    BY <1>9, <2>1, Appended
  <2>3. ToSet(<<>>) = {}
    BY DEF ToSet
  <2>4. loading'.handlers # <<>>
    BY <2>2, <2>3
  <2> QED BY <2>4 DEF NoApp
<1>20. \A g \in Handlers : IF Stored(g) # {} THEN PlacesInv(g)' ELSE MemoryInv'
  BY <1>2, <1>17, <1>18
<1> QED BY <1>1, <1>2, <1>4, <1>5, <1>14, <1>15, <1>16, <1>19, <1>20

LEMMA PurgeableUnchanged ==
  ASSUME PurgeableInv, UNCHANGED lifecycleVars PROVE PurgeableInv'
<1>1. Handlers' = Handlers
  BY DEF lifecycleVars, Handlers
<1>2. AppInv(current)' /\ AppInv(loading)'
  BY AppKept DEF PurgeableInv, lifecycleVars
<1>3. RegistryInv'
  BY <1>1 DEF PurgeableInv, lifecycleVars, RegistryInv
<1>4. \A g \in Handlers : PlacesInv(g) => PlacesInv(g)'
  BY DEF lifecycleVars, PlacesInv
<1>5. MemoryInv => MemoryInv'
  BY DEF lifecycleVars, MemoryInv
<1> QED BY <1>1, <1>2, <1>3, <1>4, <1>5 DEF PurgeableInv, lifecycleVars

\* If all handlers are configured alike and the first of their storers lasts if
\* any does, whatever a handler would answer with can be purged, over reloads,
\* failed loads and restarts (Provision, withSurrogateStorer).
THEOREM StoredIsPurgeable ==
  HandlersAlike /\ FirstLasts /\ LifecycleSpec => []Purgeable
<1> SUFFICES ASSUME HandlersAlike, FirstLasts PROVE LifecycleSpec => []Purgeable
  OBVIOUS
<1>1. PurgeableInv /\ [LifecycleNext]_lifecycleVars => PurgeableInv'
  BY PurgeableBeginLoad, PurgeableProvision, PurgeableFailLoad, PurgeableActivate,
     PurgeableAdminReceive, PurgeableRestart, PurgeableStore, PurgeablePurge, PurgeableUnchanged
     DEF LifecycleNext
<1>2. PurgeableInv => Purgeable
  <2> SUFFICES ASSUME PurgeableInv, NEW h \in ToSet(current.handlers), NEW a \in current.admin,
                      NEW s \in h.storers, NEW r \in content[s]
               PROVE  r \in index[a.surrogate] /\ s \in a.storers
    BY DEF Purgeable
  <2>1. /\ h.storers = current.storers /\ a.storers = current.storers /\ a.surrogate = pool
        /\ current.handlers # <<>> /\ pool # NoSurrogate /\ s \in DOMAIN content
    BY DEF PurgeableInv, AppInv
  <2>2. PICK g \in Handlers : TRUE
    BY <2>1 DEF PurgeableInv, AppInv
  <2>3. CASE Stored(g) # {}
    BY <2>1, <2>3 DEF PurgeableInv, PlacesInv
  <2>4. CASE Stored(g) = {}
    BY <2>1, <2>4 DEF PurgeableInv, MemoryInv
  <2> QED BY <2>1, <2>3, <2>4
<1> QED BY <1>1, <1>2, PurgeableInit, PTL DEF LifecycleSpec

-----------------------------------------------------------------------------
(* RequestContext: sorted queries. *)

\* The parameters that can be read have an order.
LEMMA PlacesExist ==
  ASSUME NEW query, query \in Seq(ToSet(query)),
         \A i \in DOMAIN query : Parameters[query[i]].rank \in Nat
  PROVE  /\ Cardinality(WellFormed(query)) \in Nat
         /\ Cardinality(WellFormed(query)) = 0 <=> WellFormed(query) = {}
         /\ \E p \in Bijection(1..Cardinality(WellFormed(query)), WellFormed(query)) :
              \A i, j \in 1..Cardinality(WellFormed(query)) :
                i < j => Parameters[query[p[i]]].rank <= Parameters[query[p[j]]].rank
<1> DEFINE S == WellFormed(query)
           m == Cardinality(S)
<1>1. DOMAIN query = 1..Len(query) /\ Len(query) \in Nat
  OBVIOUS
<1>2. IsFiniteSet(S)
  <2>1. IsFiniteSet(1..Len(query))
    BY <1>1, FS_Interval
  <2>2. S \in SUBSET (1..Len(query))
    BY <1>1 DEF WellFormed
  <2> QED BY <2>1, <2>2, FS_Subset
<1>3. m \in Nat /\ ExistsBijection(1..m, S) /\ (m = 0 <=> S = {})
  BY <1>2, FS_CardinalityType, FS_EmptySet
<1>4. \A i \in S : Parameters[query[i]].rank \in Nat
  BY DEF WellFormed
<1> HIDE DEF S
<1>5. PICK n \in Nat : n = m
  BY <1>3
<1>6. PICK b \in Bijection(1..n, S) : TRUE
  BY <1>3, <1>5 DEF ExistsBijection
<1>7. \A i \in 1..n : b[i] \in S
  BY <1>6 DEF Bijection, Injection
<1> DEFINE r == [i \in 1..n |-> Parameters[query[b[i]]].rank]
<1>8. r \in [1..n -> Nat]
  BY <1>4, <1>7
<1>9. PICK q \in Bijection(1..n, 1..n) : \A i, j \in 1..n : i < j => r[q[i]] <= r[q[j]]
  BY <1>8, OrderExists
<1>10. \A i \in 1..n : q[i] \in 1..n
  BY <1>9 DEF Bijection, Injection
<1> DEFINE p == [i \in 1..n |-> b[q[i]]]
<1>11. p \in Bijection(1..n, S)
  BY <1>6, <1>9, Fun_BijTransitive
<1>12. \A i \in 1..n : Parameters[query[p[i]]].rank = r[q[i]]
  BY <1>10
<1>13. \A i, j \in 1..n : i < j => Parameters[query[p[i]]].rank <= Parameters[query[p[j]]].rank
  BY <1>9, <1>12
<1> HIDE DEF p
<1> QED BY <1>3, <1>5, <1>11, <1>13 DEF S

\* A sorted query has parameters of the query, and is empty if none of them can
\* be read.
LEMMA SortedKeeps ==
  ASSUME NEW query, query \in Seq(ToSet(query)),
         \A i \in DOMAIN query : Parameters[query[i]].rank \in Nat
  PROVE  /\ Sorted(query) \in Seq(ToSet(query))
         /\ DOMAIN Sorted(query) = {} <=> WellFormed(query) = {}
<1> DEFINE m == Cardinality(WellFormed(query))
           InOrder(p) == \A i, j \in 1..m : i < j => Parameters[query[p[i]]].rank <= Parameters[query[p[j]]].rank
           order == CHOOSE p \in Bijection(1..m, WellFormed(query)) : InOrder(p)
<1>1. m \in Nat /\ (m = 0 <=> WellFormed(query) = {})
  BY PlacesExist
<1>2. \E p \in Bijection(1..m, WellFormed(query)) : InOrder(p)
  BY PlacesExist
<1>3. order \in Bijection(1..m, WellFormed(query))
  BY <1>2
<1>4. Sorted(query) = [i \in 1..m |-> query[order[i]]]
  BY DEF Sorted
<1> HIDE DEF order, m
<1>5. \A i \in 1..m : query[order[i]] \in ToSet(query)
  <2>1. \A i \in 1..m : order[i] \in DOMAIN query
    BY <1>3 DEF Bijection, Injection, WellFormed
  <2> QED BY <2>1 DEF ToSet
<1>6. Sorted(query) \in [1..m -> ToSet(query)] /\ DOMAIN Sorted(query) = 1..m
  BY <1>4, <1>5
<1>7. Sorted(query) \in Seq(ToSet(query))
  <2> DEFINE t == Sorted(query)
             T == ToSet(query)
  <2>1. t \in [1..m -> T] /\ m \in Nat
    BY <1>1, <1>6
  <2> HIDE DEF t, T
  <2>2. t \in Seq(T)
    BY <2>1
  <2> QED BY <2>2 DEF t, T
<1>8. 1..m = {} <=> m = 0
  BY <1>1
<1> QED BY <1>1, <1>6, <1>7, <1>8

\* Queries with the same parameters have both some, or none.
LEMMA SameParametersSize ==
  ASSUME NEW q, NEW r, SameParameters(q, r), q \in Seq(ToSet(q)), r \in Seq(ToSet(r)),
         \A i \in DOMAIN q : Parameters[q[i]].rank \in Nat, \A i \in DOMAIN r : Parameters[r[i]].rank \in Nat
  PROVE  q = <<>> <=> r = <<>>
<1>1. Sorted(q) = Sorted(r) /\ Malformed(q) = Malformed(r)
  BY DEF SameParameters
<1>2. WellFormed(q) = {} <=> WellFormed(r) = {}
  BY <1>1, SortedKeeps
<1>3. ASSUME NEW t, t \in Seq(ToSet(t))
      PROVE  t = <<>> <=> WellFormed(t) = {} /\ Malformed(t) = {}
  <2>1. t = <<>> <=> DOMAIN t = {}
    BY <1>3
  <2>2. Malformed(t) = {} <=> DOMAIN t \subseteq WellFormed(t)
    BY DEF Malformed
  <2>3. WellFormed(t) \subseteq DOMAIN t
    BY DEF WellFormed
  <2> QED BY <2>1, <2>2, <2>3
<1> QED BY <1>1, <1>2, <1>3

-----------------------------------------------------------------------------
(* RequestContext: what shares a key. *)

\* The configuration has no template in front of rules of cache_keys, which
\* computeKey would then not look at.
RulesReached ==
  \A c \in Configurations : c.key.template = <<>> \/ c.cacheKeys = <<>>

LEMMA RuleIsUsed ==
  ASSUME RulesReached, conf \in Configurations, NEW rq
  PROVE  Used(rq) = RuleFor(rq)
BY DEF RulesReached, Used, RuleFor, Override

\* A key depends on nothing but the configuration and the request.
LEMMA KeyKept ==
  ASSUME conf' = conf, NEW rq
  PROVE  /\ Key(rq)' = Key(rq) /\ Varied(rq)' = Varied(rq)
         /\ SupportedMethod(rq)' = SupportedMethod(rq)
         /\ RuleFor(rq)' = RuleFor(rq)
         /\ IsMutationRequest(rq)' = IsMutationRequest(rq)
BY DEF Key, KeyText, Used, Override, PlainKey, HashBody, GraphQL, Varied, DisableVary,
       SupportedMethod, AllowedVerbs, RuleFor, IsMutationRequest

\* What is stored is filed under the key and the varied value of its request,
\* and nothing else is filed there.
FiledInv ==
  /\ conf \in Configurations
  /\ \A e \in cache :
       /\ e.request \in Requests
       /\ e.key = Key(e.request) /\ e.varied = Varied(e.request)
  /\ \A e, f \in cache : e.key = f.key /\ e.varied = f.varied => e = f

LEMMA FiledInit == ContextInit => FiledInv
BY DEF ContextInit, FiledInv

LEMMA FiledStep == FiledInv /\ [ContextNext]_contextVars => FiledInv'
<1> SUFFICES ASSUME FiledInv, [ContextNext]_contextVars PROVE FiledInv'
  OBVIOUS
<1>1. ASSUME NEW rq \in Requests, Pass(rq) PROVE FiledInv'
  BY <1>1, KeyKept DEF Pass, FiledInv
<1>2. ASSUME NEW rq \in Requests, Invalidate(rq) PROVE FiledInv'
  <2>1. conf' = conf /\ cache' \subseteq cache
    BY <1>2 DEF Invalidate
  <2> QED BY <2>1, KeyKept DEF FiledInv
<1>3. ASSUME NEW rq \in Requests, Hit(rq) PROVE FiledInv'
  BY <1>3, KeyKept DEF Hit, FiledInv
<1>4. ASSUME NEW rq \in Requests, Miss(rq) PROVE FiledInv'
  <2> DEFINE new == [key |-> Key(rq), varied |-> Varied(rq), request |-> rq, ttl |-> TTL(rq)]
  <2>1. conf' = conf /\ cache' = cache \union {new}
    BY <1>4 DEF Miss
  <2>2. \A e \in cache : e.key # new.key \/ e.varied # new.varied
    BY <1>4 DEF Miss, Candidates
  <2>3. new.request = rq /\ new.key = Key(rq) /\ new.varied = Varied(rq)
    OBVIOUS
  <2> HIDE DEF new
  <2>4. \A e \in cache' :
          e.request \in Requests /\ e.key = Key(e.request)' /\ e.varied = Varied(e.request)'
    BY <2>1, <2>3, KeyKept DEF FiledInv
  <2>5. \A e, f \in cache' : e.key = f.key /\ e.varied = f.varied => e = f
    BY <2>1, <2>2 DEF FiledInv
  <2> QED BY <2>1, <2>4, <2>5 DEF FiledInv
<1>5. CASE UNCHANGED contextVars
  BY <1>5, KeyKept DEF contextVars, FiledInv
<1> QED BY <1>1, <1>2, <1>3, <1>4, <1>5 DEF ContextNext

\* The query is in the key as the rule says: the same if it is sorted and the
\* sorted queries are the same.
LEMMA QueryShared ==
  ASSUME NEW rq \in Requests, NEW as \in Requests, NEW k,
         \/ "query" \in k.disabled
         \/ rq.query = as.query
         \/ k.sortQuery /\ SameParameters(rq.query, as.query)
  PROVE  QueryPart(rq, k) = QueryPart(as, k)
<1>1. /\ rq.query \in Seq(ToSet(rq.query)) /\ as.query \in Seq(ToSet(as.query))
      /\ \A i \in DOMAIN rq.query : Parameters[rq.query[i]].rank \in Nat
      /\ \A i \in DOMAIN as.query : Parameters[as.query[i]].rank \in Nat
  BY ContextAssumption DEF ContextAssumption, IsText
<1>2. SameParameters(rq.query, as.query) => (rq.query = <<>> <=> as.query = <<>>)
  BY <1>1, SameParametersSize
<1>3. SameParameters(rq.query, as.query) => Sorted(rq.query) = Sorted(as.query)
  BY DEF SameParameters
<1> QED BY <1>2, <1>3 DEF QueryPart

\* Requests that their rule tells nothing apart of have one key.
LEMMA KeyShared ==
  ASSUME RulesReached, conf \in Configurations,
         NEW rq \in Requests, NEW as \in Requests,
         rq.path = as.path, rq.headers = as.headers,
         RuleFor(rq).template = <<>>,
         \A part \in Parts \ {"query"} :
           part \notin RuleFor(rq).disabled => rq[part] = as[part],
         \/ "query" \in RuleFor(rq).disabled
         \/ rq.query = as.query
         \/ RuleFor(rq).sortQuery /\ SameParameters(rq.query, as.query)
  PROVE  Key(rq) = Key(as) /\ Varied(rq) = Varied(as)
<1> DEFINE k == RuleFor(rq)
<1>1. Used(rq) = k /\ Used(as) = k
  BY RuleIsUsed DEF RuleFor, Override
<1> HIDE DEF k
<1>2. QueryPart(rq, k) = QueryPart(as, k)
  BY QueryShared DEF k
<1>3. /\ "method" \notin k.disabled => rq.method = as.method
      /\ "scheme" \notin k.disabled => rq.scheme = as.scheme
      /\ "host" \notin k.disabled => rq.host = as.host
      /\ "body" \notin k.disabled => rq.body = as.body
  BY DEF k, Parts
<1>4. HeaderValues(rq, k) = HeaderValues(as, k)
  BY DEF HeaderValues
<1>5. PlainKey(rq, k) = PlainKey(as, k)
  BY <1>2, <1>3, <1>4 DEF PlainKey, Unless, HashBody, isMutation
<1> QED BY <1>1, <1>5 DEF Key, KeyText, Varied, k

\* If the rules are reached, requests that they tell nothing apart of share one
\* response (computeKey, SetContext).
THEOREM RequestsShareResponses == RulesReached /\ ContextSpec => []SharedAsConfigured
<1> SUFFICES ASSUME RulesReached PROVE ContextSpec => []SharedAsConfigured
  OBVIOUS
<1>1. FiledInv => SharedAsConfigured
  <2> SUFFICES ASSUME FiledInv, NEW e \in cache, NEW f \in cache,
                      e.request.path = f.request.path /\ e.request.headers = f.request.headers,
                      RuleFor(e.request).template = <<>>,
                      \A part \in Parts \ {"query"} :
                        part \notin RuleFor(e.request).disabled => e.request[part] = f.request[part],
                      \/ "query" \in RuleFor(e.request).disabled
                      \/ e.request.query = f.request.query
                      \/ RuleFor(e.request).sortQuery
                           /\ SameParameters(e.request.query, f.request.query)
               PROVE  e = f
    BY DEF SharedAsConfigured
  <2>1. e.request \in Requests /\ f.request \in Requests
    BY DEF FiledInv
  <2>2. Key(e.request) = Key(f.request) /\ Varied(e.request) = Varied(f.request)
    BY <2>1, KeyShared DEF FiledInv
  <2> QED BY <2>2 DEF FiledInv
<1> QED BY <1>1, FiledInit, FiledStep, PTL DEF ContextSpec

-----------------------------------------------------------------------------
(* RequestContext: what a key tells apart. *)

Rules(c) == {c.key} \union {c.cacheKeys[i].rule : i \in DOMAIN c.cacheKeys}

\* No rule is a template, and none takes vary up again.
PlainRules ==
  \A c \in Configurations : \A k \in Rules(c) :
    k.template = <<>> /\ ("vary" \in c.key.disabled => "vary" \in k.disabled)

\* The separator of a body or of headers, if they may follow in a key.
Separators(c) == IF c.verbs # {} \/ \E k \in Rules(c) : k.headers # <<>> THEN {"-"} ELSE {}

Digest(rq) == <<"sha256", rq.body>>

HeaderTokens == {"-"} \union
  UNION {UNION {ToSet(rq.headers[h]) : h \in DOMAIN rq.headers} : rq \in Requests}

Tokens == {"?"} \union HeaderTokens \union
  UNION {{rq.method, rq.scheme, Digest(rq)} \union ToSet(rq.host) \union ToSet(rq.path)
           \union ToSet(rq.query) : rq \in Requests}

\* A text can be told from what follows it in the key: a path starts with a
\* slash, which is not in what precedes it, and neither path nor query nor a
\* header, but for the first one of a rule, have the separator that may end them.
\* Bodies with the same text are the same.
SeparableTexts ==
  /\ \A rq \in Requests :
       /\ ({rq.method, rq.scheme} \union ToSet(rq.host)) \cap {"/", "xxhash"} = {}
       /\ rq.path # <<>> /\ rq.path[1] = "/" /\ "?" \notin ToSet(rq.path)
       /\ Digest(rq) \notin HeaderTokens
       /\ \A as \in Requests : rq.body.text = as.body.text => rq.body = as.body
  /\ \A c \in Configurations, rq \in Requests :
       /\ (ToSet(rq.path) \union ToSet(rq.query)) \cap Separators(c) = {}
       /\ \A k \in Rules(c) : \A i \in 2..Len(k.headers) : "-" \notin ToSet(rq.headers[k.headers[i]])

\* url.ParseQuery can read all parameters of a query that is sorted.
ReadableQueries ==
  \A c \in Configurations : \A k \in Rules(c), rq \in Requests :
    k.sortQuery => Malformed(rq.query) = {}

\* The rule of a request is one of the configuration's.
LEMMA RuleOfConfiguration ==
  ASSUME conf \in Configurations, NEW rq \in Requests
  PROVE  RuleFor(rq) \in Rules(conf)
<1> DEFINE hits == {i \in DOMAIN conf.cacheKeys : rq.path \in conf.cacheKeys[i].matches}
<1>1. CASE hits = {}
  BY <1>1 DEF RuleFor, Override, Rules
<1>2. CASE hits # {}
  <2>1. hits \subseteq Nat
    BY ContextAssumption DEF ContextAssumption
  <2>2. PICK i \in hits : \A j \in hits : i <= j
    BY <1>2, <2>1, LeastOf
  <2>3. Override(rq) \in hits
    BY <1>2, <2>2 DEF Override
  <2>4. Override(rq) # 0
    <3>1. 0 \notin DOMAIN conf.cacheKeys
      BY ContextAssumption DEF ContextAssumption
    <3> QED BY <2>3, <3>1
  <2> QED BY <2>3, <2>4 DEF RuleFor, Rules
<1> QED BY <1>1, <1>2

KeyStart(rq, k) ==
  (Unless("method", k, <<rq.method, "-">>) \o Unless("scheme", k, <<rq.scheme, "-">>))
    \o Unless("host", k, rq.host \o <<"-">>)

BodyPart(rq, k) == Unless("body", k, HashBody(rq))

KeyEnd(rq, k) == BodyPart(rq, k) \o HeaderValues(rq, k)

LEMMA TextWidens ==
  ASSUME NEW t, IsText(t), NEW U, ToSet(t) \subseteq U
  PROVE  t \in Seq(U)
<1>1. t \in [1..Len(t) -> U] /\ Len(t) \in Nat
  <2>1. t = [i \in 1..Len(t) |-> t[i]] /\ Len(t) \in Nat
    BY DEF IsText
  <2>2. \A i \in 1..Len(t) : t[i] \in ToSet(t)
    BY <2>1 DEF ToSet
  <2> QED BY <2>1, <2>2
<1> QED BY <1>1

LEMMA TextsTyped ==
  ASSUME NEW rq \in Requests
  PROVE  /\ rq.host \in Seq(Tokens) /\ rq.path \in Seq(Tokens) /\ rq.query \in Seq(Tokens)
         /\ rq.method \in Tokens /\ rq.scheme \in Tokens /\ Digest(rq) \in Tokens
         /\ "-" \in Tokens /\ "?" \in Tokens /\ HeaderTokens \subseteq Tokens
         /\ \A h \in DOMAIN rq.headers : rq.headers[h] \in Seq(HeaderTokens)
<1>1. IsText(rq.host) /\ IsText(rq.path) /\ IsText(rq.query)
  BY ContextAssumption DEF ContextAssumption
<1>2. /\ ToSet(rq.host) \subseteq Tokens /\ ToSet(rq.path) \subseteq Tokens
      /\ ToSet(rq.query) \subseteq Tokens
      /\ rq.method \in Tokens /\ rq.scheme \in Tokens /\ Digest(rq) \in Tokens
      /\ "?" \in Tokens /\ HeaderTokens \subseteq Tokens
  BY DEF Tokens
<1>3. "-" \in HeaderTokens
  BY DEF HeaderTokens
<1>4. ASSUME NEW h \in DOMAIN rq.headers PROVE rq.headers[h] \in Seq(HeaderTokens)
  <2>1. IsText(rq.headers[h])
    BY ContextAssumption DEF ContextAssumption
  <2>2. ToSet(rq.headers[h]) \subseteq HeaderTokens
    BY DEF HeaderTokens
  <2> QED BY <2>1, <2>2, TextWidens
<1> QED BY <1>1, <1>2, <1>3, <1>4, TextWidens

\* The headers of a rule are behind separators in the key.
LEMMA HeadersTyped ==
  ASSUME conf \in Configurations, NEW rq \in Requests, NEW k \in Rules(conf)
  PROVE  /\ HeaderValues(rq, k) \in Seq(HeaderTokens)
         /\ HeaderValues(rq, k) = <<>> \/ HeaderValues(rq, k)[1] = "-"
         /\ k.headers = <<>> => HeaderValues(rq, k) = <<>>
         /\ \A i \in DOMAIN k.headers : rq.headers[k.headers[i]] \in Seq(HeaderTokens)
         /\ DOMAIN k.headers = 1..Len(k.headers) /\ Len(k.headers) \in Nat
<1> DEFINE n == Len(k.headers)
           s == [i \in DOMAIN k.headers |-> <<"-">> \o rq.headers[k.headers[i]]]
<1>1. IsRule(k)
  BY ContextAssumption DEF ContextAssumption, Rules
<1>2. DOMAIN k.headers = 1..n /\ n \in Nat
  BY <1>1 DEF IsRule, IsText
<1>3. ASSUME NEW i \in DOMAIN k.headers PROVE rq.headers[k.headers[i]] \in Seq(HeaderTokens)
  <2>1. k.headers[i] \in DOMAIN rq.headers
    BY <1>1 DEF IsRule, ToSet
  <2> QED BY <2>1, TextsTyped
<1>4. "-" \in HeaderTokens
  BY DEF HeaderTokens
<1>5. ASSUME NEW i \in DOMAIN k.headers
      PROVE  s[i] \in Seq(HeaderTokens) /\ s[i] # <<>> /\ s[i][1] = "-"
  <2> DEFINE v == rq.headers[k.headers[i]]
  <2>1. v \in Seq(HeaderTokens)
    BY <1>3
  <2> HIDE DEF v
  <2>2. <<"-">> \o v \in Seq(HeaderTokens) /\ <<"-">> \o v # <<>> /\ (<<"-">> \o v)[1] = "-"
    BY <1>4, <2>1
  <2> QED BY <2>2 DEF v
<1>6. s \in Seq(Seq(HeaderTokens)) /\ Len(s) = n
  <2>1. s = [i \in 1..n |-> s[i]]
    BY <1>2
  <2>2. \A i \in 1..n : s[i] \in Seq(HeaderTokens)
    BY <1>2, <1>5
  <2> HIDE DEF s
  <2>3. s \in [1..n -> Seq(HeaderTokens)]
    BY <2>1, <2>2
  <2> QED BY <2>3, <1>2
<1>7. HeaderValues(rq, k) = FlattenSeq(s)
  BY DEF HeaderValues
<1>8. /\ FlattenSeq(s) \in Seq(HeaderTokens)
      /\ FlattenSeq(s) = <<>> \/ FlattenSeq(s)[1] = "-"
  <2> HIDE DEF s
  <2>1. \A i \in 1..Len(s) : s[i] # <<>> /\ s[i][1] = "-"
    BY <1>2, <1>5, <1>6
  <2> QED BY <1>4, <1>6, <2>1, FlattenBegins
<1>9. k.headers = <<>> => FlattenSeq(s) = <<>>
  <2> SUFFICES ASSUME k.headers = <<>> PROVE FlattenSeq(s) = <<>>
    OBVIOUS
  <2>1. s = <<>>
    BY <1>6
  <2> QED BY <2>1 DEF FlattenSeq
<1> QED BY <1>2, <1>3, <1>7, <1>8, <1>9

\* The same headers in a key are the same headers.
LEMMA HeadersTold ==
  ASSUME SeparableTexts, conf \in Configurations,
         NEW rq \in Requests, NEW as \in Requests, NEW k \in Rules(conf),
         HeaderValues(rq, k) = HeaderValues(as, k)
  PROVE  \A i \in DOMAIN k.headers : rq.headers[k.headers[i]] = as.headers[k.headers[i]]
<1> DEFINE n == Len(k.headers)
           v == [i \in 1..n |-> rq.headers[k.headers[i]]]
           w == [i \in 1..n |-> as.headers[k.headers[i]]]
<1>1. DOMAIN k.headers = 1..n /\ n \in Nat
  BY HeadersTyped
<1>2. v \in [1..n -> Seq(HeaderTokens)] /\ w \in [1..n -> Seq(HeaderTokens)]
  BY <1>1, HeadersTyped
<1>3. \A i \in 2..n : "-" \notin ToSet(v[i]) /\ "-" \notin ToSet(w[i])
  <2> SUFFICES ASSUME NEW i \in 2..n
               PROVE  "-" \notin ToSet(v[i]) /\ "-" \notin ToSet(w[i])
    OBVIOUS
  <2>1. i \in 1..n
    BY <1>1
  <2>2. v[i] = rq.headers[k.headers[i]] /\ w[i] = as.headers[k.headers[i]]
    BY <2>1
  <2>3. \A r \in Requests : "-" \notin ToSet(r.headers[k.headers[i]])
    BY DEF SeparableTexts
  <2> QED BY <2>2, <2>3
<1>4. /\ HeaderValues(rq, k) = FlattenSeq([i \in 1..n |-> <<"-">> \o v[i]])
      /\ HeaderValues(as, k) = FlattenSeq([i \in 1..n |-> <<"-">> \o w[i]])
  <2>1. /\ [i \in 1..n |-> <<"-">> \o v[i]] =
             [i \in DOMAIN k.headers |-> <<"-">> \o rq.headers[k.headers[i]]]
        /\ [i \in 1..n |-> <<"-">> \o w[i]] =
             [i \in DOMAIN k.headers |-> <<"-">> \o as.headers[k.headers[i]]]
    BY <1>1
  <2> QED BY <2>1 DEF HeaderValues
<1>5. "-" \in HeaderTokens
  BY DEF HeaderTokens
<1>6. v = w
  <2> HIDE DEF v, w, n
  <2> QED BY <1>1, <1>2, <1>3, <1>4, <1>5, FlattenInjective
<1>7. \A i \in 1..n : v[i] = rq.headers[k.headers[i]] /\ w[i] = as.headers[k.headers[i]]
  OBVIOUS
<1> QED BY <1>1, <1>6, <1>7

\* The parts of a key are texts.
LEMMA PartsTyped ==
  ASSUME conf \in Configurations, NEW rq \in Requests, NEW k \in Rules(conf)
  PROVE  /\ Unless("method", k, <<rq.method, "-">>) \in Seq(Tokens)
         /\ Unless("scheme", k, <<rq.scheme, "-">>) \in Seq(Tokens)
         /\ Unless("host", k, rq.host \o <<"-">>) \in Seq(Tokens)
         /\ rq.path \in Seq(Tokens)
         /\ QueryPart(rq, k) \in Seq(Tokens)
         /\ BodyPart(rq, k) \in Seq(Tokens)
         /\ HeaderValues(rq, k) \in Seq(Tokens)
<1>1. /\ rq.host \in Seq(Tokens) /\ rq.path \in Seq(Tokens) /\ rq.query \in Seq(Tokens)
      /\ rq.method \in Tokens /\ rq.scheme \in Tokens /\ Digest(rq) \in Tokens
      /\ "-" \in Tokens /\ "?" \in Tokens
  BY TextsTyped DEF HeaderTokens
<1>2. \A part : <<>> \in Seq(Tokens)
  OBVIOUS
<1>3. /\ Unless("method", k, <<rq.method, "-">>) \in Seq(Tokens)
      /\ Unless("scheme", k, <<rq.scheme, "-">>) \in Seq(Tokens)
      /\ Unless("host", k, rq.host \o <<"-">>) \in Seq(Tokens)
  BY <1>1 DEF Unless
<1>4. QueryPart(rq, k) \in Seq(Tokens)
  <2>1. IsText(rq.query) /\ \A i \in DOMAIN rq.query : Parameters[rq.query[i]].rank \in Nat
    BY ContextAssumption DEF ContextAssumption
  <2>2. IsText(Sorted(rq.query)) /\ ToSet(Sorted(rq.query)) \subseteq ToSet(rq.query)
    BY <2>1, SortedKeeps DEF IsText, ToSet
  <2>3. ToSet(rq.query) \subseteq Tokens
    BY DEF Tokens
  <2>4. Sorted(rq.query) \in Seq(Tokens)
    BY <2>2, <2>3, TextWidens
  <2> QED BY <1>1, <2>4 DEF QueryPart
<1>5. BodyPart(rq, k) \in Seq(Tokens)
  <2>1. <<"-", Digest(rq)>> \in Seq(Tokens) /\ <<>> \in Seq(Tokens)
    BY <1>1
  <2>2. BodyPart(rq, k) \in {<<>>, <<"-", Digest(rq)>>}
    BY DEF BodyPart, Unless, HashBody, Digest
  <2> QED BY <2>1, <2>2
<1>6. HeaderValues(rq, k) \in Seq(Tokens)
  <2>1. HeaderValues(rq, k) \in Seq(HeaderTokens) /\ HeaderTokens \subseteq Tokens
    BY HeadersTyped, TextsTyped
  <2> QED BY <2>1
<1> QED BY <1>1, <1>3, <1>4, <1>5, <1>6

LEMMA KeyInParts ==
  ASSUME conf \in Configurations, NEW rq \in Requests, NEW k \in Rules(conf)
  PROVE  /\ PlainKey(rq, k) = KeyStart(rq, k) \o (rq.path \o (QueryPart(rq, k) \o KeyEnd(rq, k)))
         /\ KeyStart(rq, k) \in Seq(Tokens) /\ KeyEnd(rq, k) \in Seq(Tokens)
<1>1. PlainKey(rq, k) = KeyStart(rq, k) \o (rq.path \o (QueryPart(rq, k) \o KeyEnd(rq, k)))
  <2> DEFINE q == QueryPart(rq, k)
             b == BodyPart(rq, k)
             v == HeaderValues(rq, k)
  <2>1. PlainKey(rq, k) = Cat(Cat(Cat(Cat(KeyStart(rq, k), rq.path), q), b), v)
    BY DEF PlainKey, KeyStart, BodyPart, Cat
  <2>2. Cat(Cat(Cat(Cat(KeyStart(rq, k), rq.path), q), b), v) =
          Cat(KeyStart(rq, k), Cat(rq.path, Cat(q, Cat(b, v))))
    <3>1. KeyStart(rq, k) \in Seq(Tokens)
      BY PartsTyped DEF KeyStart
    <3>2. rq.path \in Seq(Tokens) /\ q \in Seq(Tokens) /\ b \in Seq(Tokens) /\ v \in Seq(Tokens)
      BY PartsTyped
    <3> DEFINE start == KeyStart(rq, k)
               path == rq.path
               S == Seq(Tokens)
    <3>3. Associative(S)
      BY TextsAssociate
    <3>4. start \in S /\ path \in S /\ q \in S /\ b \in S /\ v \in S
      BY <3>1, <3>2
    <3> HIDE DEF q, b, v, start, path, S
    <3>5. Cat(Cat(Cat(Cat(start, path), q), b), v) = Cat(start, Cat(path, Cat(q, Cat(b, v))))
      BY <3>3, <3>4, Associated
    <3> QED BY <3>5 DEF start, path
  <2> QED BY <2>1, <2>2 DEF Cat, KeyEnd
<1>2. KeyStart(rq, k) \in Seq(Tokens) /\ KeyEnd(rq, k) \in Seq(Tokens)
  BY PartsTyped DEF KeyStart, KeyEnd
<1> QED BY <1>1, <1>2

\* What precedes the path has no slash.
LEMMA StartTokens ==
  ASSUME SeparableTexts, conf \in Configurations, NEW rq \in Requests, NEW k \in Rules(conf)
  PROVE  ToSet(KeyStart(rq, k)) \cap {"/", "xxhash"} = {}
<1> DEFINE a == Unless("method", k, <<rq.method, "-">>)
           b == Unless("scheme", k, <<rq.scheme, "-">>)
           c == Unless("host", k, rq.host \o <<"-">>)
<1>1. a \in Seq(Tokens) /\ b \in Seq(Tokens) /\ c \in Seq(Tokens)
  BY PartsTyped
<1>2. ToSet(a) \subseteq {rq.method, "-"} /\ ToSet(b) \subseteq {rq.scheme, "-"}
  BY DEF Unless, ToSet
<1>3. ToSet(c) \subseteq ToSet(rq.host) \union {"-"}
  <2>1. rq.host \in Seq(Tokens) /\ <<"-">> \in Seq(Tokens)
    BY TextsTyped
  <2> DEFINE host == rq.host
             dash == <<"-">>
  <2>2. ToSet(host \o dash) = ToSet(host) \union ToSet(dash)
    <3>1. host \in Seq(Tokens) /\ dash \in Seq(Tokens)
      BY <2>1
    <3> HIDE DEF host, dash
    <3> QED BY <3>1, TokensOfConcat
  <2>3. ToSet(<<"-">>) = {"-"} /\ ToSet(<<>>) = {}
    BY DEF ToSet
  <2> QED BY <2>2, <2>3 DEF Unless
<1>4. ToSet(KeyStart(rq, k)) = ToSet(a) \union ToSet(b) \union ToSet(c)
  <2> HIDE DEF a, b, c
  <2>1. a \o b \in Seq(Tokens)
    BY <1>1
  <2>2. ToSet(a \o b) = ToSet(a) \union ToSet(b)
    BY <1>1, TokensOfConcat
  <2> DEFINE ab == a \o b
  <2>3. ToSet(ab \o c) = ToSet(ab) \union ToSet(c)
    <3>1. ab \in Seq(Tokens) /\ c \in Seq(Tokens)
      BY <1>1, <2>1
    <3> HIDE DEF ab
    <3> QED BY <3>1, TokensOfConcat
  <2> QED BY <2>2, <2>3 DEF KeyStart, a, b, c
<1>5. "-" \notin {"/", "xxhash"}
  OBVIOUS
<1> HIDE DEF a, b, c
<1> QED BY <1>2, <1>3, <1>4, <1>5 DEF SeparableTexts

\* A query ends where a body or headers may follow.
LEMMA QueryTokens ==
  ASSUME SeparableTexts, conf \in Configurations, NEW rq \in Requests, NEW k \in Rules(conf)
  PROVE  ToSet(QueryPart(rq, k)) \cap Separators(conf) = {}
<1>1. "?" \notin Separators(conf)
  BY DEF Separators
<1>2. ToSet(rq.query) \cap Separators(conf) = {}
  BY DEF SeparableTexts
<1>3. IsText(rq.query) /\ \A i \in DOMAIN rq.query : Parameters[rq.query[i]].rank \in Nat
  BY ContextAssumption DEF ContextAssumption
<1>4. ToSet(Sorted(rq.query)) \subseteq ToSet(rq.query)
  BY <1>3, SortedKeeps DEF IsText, ToSet
<1>5. rq.query \in Seq(Tokens) /\ <<"?">> \in Seq(Tokens) /\ Sorted(rq.query) \in Seq(Tokens)
  <2>1. ToSet(rq.query) \subseteq Tokens
    BY DEF Tokens
  <2>2. IsText(Sorted(rq.query))
    BY <1>3, SortedKeeps DEF IsText, ToSet
  <2> QED BY <1>4, <2>1, <2>2, TextWidens, TextsTyped
<1>6. /\ ToSet(<<"?">> \o rq.query) = {"?"} \union ToSet(rq.query)
      /\ ToSet(<<"?">> \o Sorted(rq.query)) = {"?"} \union ToSet(Sorted(rq.query))
  <2>1. ToSet(<<"?">>) = {"?"}
    BY DEF ToSet
  <2> DEFINE mark == <<"?">>
  <2>2. ASSUME NEW t \in Seq(Tokens) PROVE ToSet(mark \o t) = ToSet(mark) \union ToSet(t)
    <3>1. mark \in Seq(Tokens)
      BY <1>5
    <3> HIDE DEF mark
    <3> QED BY <3>1, TokensOfConcat
  <2> QED BY <1>5, <2>1, <2>2
<1>7. ToSet(<<>>) = {}
  BY DEF ToSet
<1> QED BY <1>1, <1>2, <1>4, <1>6, <1>7 DEF QueryPart

\* Nothing follows the query, or what does begins with the separator.
LEMMA EndBegins ==
  ASSUME SeparableTexts, conf \in Configurations, NEW rq \in Requests, NEW k \in Rules(conf)
  PROVE  KeyEnd(rq, k) = <<>> \/ KeyEnd(rq, k)[1] \in Separators(conf)
<1>1. /\ BodyPart(rq, k) = <<>> \/ (BodyPart(rq, k) = <<"-", Digest(rq)>> /\ conf.verbs # {})
  BY DEF BodyPart, Unless, HashBody, GraphQL, Digest
<1>2. /\ HeaderValues(rq, k) \in Seq(Tokens) /\ BodyPart(rq, k) \in Seq(Tokens)
      /\ HeaderValues(rq, k) = <<>> \/ (HeaderValues(rq, k)[1] = "-" /\ k.headers # <<>>)
  BY PartsTyped, HeadersTyped
<1> DEFINE b == BodyPart(rq, k)
           h == HeaderValues(rq, k)
<1> HIDE DEF b, h
<1>3. CASE b = <<>>
  <2>1. KeyEnd(rq, k) = h
    BY <1>2, <1>3 DEF KeyEnd, b, h
  <2> QED BY <1>2, <2>1 DEF Separators, h
<1>4. CASE b = <<"-", Digest(rq)>> /\ conf.verbs # {}
  <2>1. (b \o h)[1] = b[1] /\ b[1] = "-"
    BY <1>2, <1>4 DEF b, h
  <2> QED BY <1>4, <2>1 DEF KeyEnd, Separators, b, h
<1> QED BY <1>1, <1>3, <1>4 DEF b

KeyTexts == Seq(Tokens)

LEMMA CatOfTexts ==
  ASSUME NEW x \in KeyTexts, NEW y \in KeyTexts
  PROVE  Cat(x, y) \in KeyTexts /\ Len(Cat(x, y)) = Len(x) + Len(y)
BY DEF Cat, KeyTexts

LEMMA CutTextsAtLength ==
  ASSUME NEW p \in KeyTexts, NEW q \in KeyTexts, NEW x \in KeyTexts, NEW y \in KeyTexts,
         Cat(p, x) = Cat(q, y), Len(p) = Len(q)
  PROVE  p = q /\ x = y
BY CutAtLength DEF Cat, KeyTexts

LEMMA CutInThree ==
  ASSUME NEW a \in KeyTexts, NEW b \in KeyTexts, NEW c \in KeyTexts,
         NEW x \in KeyTexts, NEW y \in KeyTexts, NEW z \in KeyTexts,
         Len(a) = Len(x), Len(b) = Len(y), Cat(Cat(a, b), c) = Cat(Cat(x, y), z)
  PROVE  a = x /\ b = y /\ c = z
<1>1. Cat(a, b) \in KeyTexts /\ Cat(x, y) \in KeyTexts /\ Len(Cat(a, b)) = Len(Cat(x, y))
  <2>1. Cat(a, b) \in KeyTexts /\ Len(Cat(a, b)) = Len(a) + Len(b)
    BY CatOfTexts
  <2>2. Cat(x, y) \in KeyTexts /\ Len(Cat(x, y)) = Len(x) + Len(y)
    BY CatOfTexts
  <2> QED BY <2>1, <2>2
<1>2. Cat(a, b) = Cat(x, y) /\ c = z
  BY <1>1, CutTextsAtLength
<1> QED BY <1>2, CutTextsAtLength

\* The same start of a key has the same method, scheme and host.
LEMMA StartTold ==
  ASSUME conf \in Configurations, NEW rq \in Requests, NEW as \in Requests, NEW k \in Rules(conf),
         KeyStart(rq, k) = KeyStart(as, k)
  PROVE  /\ "method" \notin k.disabled => rq.method = as.method
         /\ "scheme" \notin k.disabled => rq.scheme = as.scheme
         /\ "host" \notin k.disabled => rq.host = as.host
<1> DEFINE m == Unless("method", k, <<rq.method, "-">>)
           s == Unless("scheme", k, <<rq.scheme, "-">>)
           h == Unless("host", k, rq.host \o <<"-">>)
           n == Unless("method", k, <<as.method, "-">>)
           t == Unless("scheme", k, <<as.scheme, "-">>)
           g == Unless("host", k, as.host \o <<"-">>)
<1>1. /\ m \in Seq(Tokens) /\ s \in Seq(Tokens) /\ h \in Seq(Tokens)
      /\ n \in Seq(Tokens) /\ t \in Seq(Tokens) /\ g \in Seq(Tokens)
  BY PartsTyped
<1>2. Cat(Cat(m, s), h) = Cat(Cat(n, t), g)
  BY DEF KeyStart, Cat
<1>3. Len(m) = Len(n) /\ Len(s) = Len(t)
  BY DEF Unless
<1>4. m = n /\ s = t /\ h = g
  <2>1. m \in KeyTexts /\ s \in KeyTexts /\ h \in KeyTexts /\ n \in KeyTexts /\ t \in KeyTexts /\ g \in KeyTexts
    BY <1>1 DEF KeyTexts
  <2> HIDE DEF m, s, h, n, t, g
  <2> QED BY <1>2, <1>3, <2>1, CutInThree
<1>5. "method" \notin k.disabled => rq.method = as.method
  <2>1. "method" \notin k.disabled => <<rq.method, "-">> = <<as.method, "-">>
    BY <1>4 DEF Unless
  <2> QED BY <2>1
<1>6. "scheme" \notin k.disabled => rq.scheme = as.scheme
  <2>1. "scheme" \notin k.disabled => <<rq.scheme, "-">> = <<as.scheme, "-">>
    BY <1>4 DEF Unless
  <2> QED BY <2>1
<1>7. "host" \notin k.disabled => rq.host = as.host
  <2> SUFFICES ASSUME "host" \notin k.disabled PROVE rq.host = as.host
    OBVIOUS
  <2> DEFINE p == rq.host
             q == as.host
  <2>1. p \in Seq(Tokens) /\ q \in Seq(Tokens) /\ "-" \in Tokens
    BY TextsTyped DEF HeaderTokens
  <2>2. p \o <<"-">> = q \o <<"-">>
    BY <1>4 DEF Unless
  <2> HIDE DEF p, q
  <2>3. p = q
    BY <2>1, <2>2, SameLast
  <2> QED BY <2>3 DEF p, q
<1> QED BY <1>5, <1>6, <1>7

\* The same end of a key has the same body and headers: a digest is no header.
LEMMA EndHasBody ==
  ASSUME SeparableTexts, conf \in Configurations,
         NEW rq \in Requests, NEW as \in Requests, NEW k \in Rules(conf),
         KeyEnd(rq, k) = KeyEnd(as, k), BodyPart(rq, k) = <<>>
  PROVE  BodyPart(as, k) = <<>>
<1> DEFINE g == HeaderValues(as, k)
           h == HeaderValues(rq, k)
           d == Digest(as)
<1> SUFFICES ASSUME BodyPart(as, k) # <<>> PROVE FALSE
  OBVIOUS
<1>1. BodyPart(as, k) = <<"-", d>>
  BY DEF BodyPart, Unless, HashBody, Digest
<1>2. h \in Seq(HeaderTokens)
  BY HeadersTyped
<1>3. g \in Seq(Tokens)
  BY PartsTyped
<1>4. d \in Tokens /\ "-" \in Tokens
  BY TextsTyped DEF HeaderTokens
<1>5. d \notin HeaderTokens
  BY DEF SeparableTexts
<1>6. <<>> \o h = <<"-", d>> \o g
  BY <1>1 DEF KeyEnd
<1> HIDE DEF d, g, h
<1>7. <<>> \o h = h
  BY <1>2
<1>8. h = <<"-", d>> \o g
  BY <1>6, <1>7
<1> QED BY <1>2, <1>3, <1>4, <1>5, <1>8, SecondToken

LEMMA EndTold ==
  ASSUME SeparableTexts, conf \in Configurations,
         NEW rq \in Requests, NEW as \in Requests, NEW k \in Rules(conf),
         ~IsMutationRequest(rq), ~IsMutationRequest(as),
         KeyEnd(rq, k) = KeyEnd(as, k)
  PROVE  /\ HeaderValues(rq, k) = HeaderValues(as, k)
         /\ "body" \notin k.disabled /\ GraphQL => rq.body = as.body
<1> DEFINE b == BodyPart(rq, k)
           c == BodyPart(as, k)
           g == HeaderValues(rq, k)
           h == HeaderValues(as, k)
<1>1. b \in KeyTexts /\ c \in KeyTexts /\ g \in KeyTexts /\ h \in KeyTexts
  BY PartsTyped DEF KeyTexts
<1>2. b \in {<<>>, <<"-", Digest(rq)>>} /\ c \in {<<>>, <<"-", Digest(as)>>}
  BY DEF BodyPart, Unless, HashBody, Digest
<1>3. b = <<>> <=> c = <<>>
  BY EndHasBody
<1>4. Cat(b, g) = Cat(c, h)
  BY DEF KeyEnd, Cat
<1>5. "body" \notin k.disabled /\ GraphQL =>
        /\ b = IF rq.body.text = "" THEN <<>> ELSE <<"-", Digest(rq)>>
        /\ c = IF as.body.text = "" THEN <<>> ELSE <<"-", Digest(as)>>
  BY DEF BodyPart, Unless, HashBody, Digest, IsMutationRequest
<1> HIDE DEF b, c
<1>6. Len(b) = Len(c)
  <2>1. CASE b = <<>>
    BY <1>3, <2>1
  <2>2. CASE b # <<>>
    <3>1. b = <<"-", Digest(rq)>> /\ c = <<"-", Digest(as)>>
      BY <1>2, <1>3, <2>2
    <3> QED BY <3>1
  <2> QED BY <2>1, <2>2
<1>7. b = c /\ g = h
  <2> HIDE DEF g, h
  <2> QED BY <1>1, <1>4, <1>6, CutTextsAtLength
<1>8. ASSUME "body" \notin k.disabled, GraphQL PROVE rq.body = as.body
  <2>1. CASE rq.body.text = "" \/ as.body.text = ""
    <3>1. \A d : <<"-", d>> # <<>>
      OBVIOUS
    <3>2. rq.body.text = as.body.text
      BY <1>5, <1>7, <1>8, <2>1, <3>1
    <3> QED BY <3>2 DEF SeparableTexts
  <2>2. CASE rq.body.text # "" /\ as.body.text # ""
    <3>1. <<"-", Digest(rq)>> = <<"-", Digest(as)>>
      BY <1>5, <1>7, <1>8, <2>2
    <3>2. Digest(rq) = Digest(as)
      BY <3>1
    <3> QED BY <3>2 DEF Digest
  <2> QED BY <2>1, <2>2
<1> QED BY <1>7, <1>8

\* The same query in a key is the same query, or the same once it is sorted.
LEMMA QueryTold ==
  ASSUME NEW rq \in Requests, NEW as \in Requests, NEW k,
         QueryPart(rq, k) = QueryPart(as, k), "query" \notin k.disabled
  PROVE  \/ rq.query = as.query
         \/ Sorted(rq.query) = Sorted(as.query) /\ k.sortQuery
<1>1. ASSUME NEW r \in Requests
      PROVE  /\ r.query \in Seq(ToSet(r.query))
             /\ Sorted(r.query) \in Seq(ToSet(r.query))
  <2>1. IsText(r.query) /\ \A i \in DOMAIN r.query : Parameters[r.query[i]].rank \in Nat
    BY ContextAssumption DEF ContextAssumption
  <2> QED BY <2>1, SortedKeeps DEF IsText
<1> DEFINE t(r) == IF k.sortQuery THEN Sorted(r.query) ELSE r.query
<1>2. \A r \in Requests : t(r) \in Seq(ToSet(r.query))
  BY <1>1
<1>3. \A r \in Requests : QueryPart(r, k) = IF r.query = <<>> THEN <<>> ELSE <<"?">> \o t(r)
  BY DEF QueryPart
<1> HIDE DEF t
<1>4. \A r \in Requests : <<"?">> \o t(r) # <<>>
  BY <1>2
<1>5. CASE rq.query = <<>> \/ as.query = <<>>
  BY <1>3, <1>4, <1>5
<1>6. CASE rq.query # <<>> /\ as.query # <<>>
  <2> DEFINE U == {"?"} \union ToSet(rq.query) \union ToSet(as.query)
             x == t(rq)
             y == t(as)
  <2>1. x \in Seq(U) /\ y \in Seq(U)
    <3>1. x \in Seq(ToSet(rq.query)) /\ y \in Seq(ToSet(as.query))
      BY <1>2
    <3> HIDE DEF x, y
    <3> QED BY <3>1, SeqMonotonic
  <2>2. <<"?">> \o x = <<"?">> \o y
    BY <1>3, <1>6
  <2>3. "?" \in U
    OBVIOUS
  <2> HIDE DEF U, x, y
  <2>4. x = y
    <3>1. <<"?">> \in Seq(U) /\ Len(<<"?">>) = 1
      BY <2>3
    <3> QED BY <2>1, <2>2, <3>1, CutAtLength
  <2> QED BY <2>4 DEF x, y, t
<1> QED BY <1>5, <1>6

LEMMA CutTextsAtFirst ==
  ASSUME NEW D, NEW p \in KeyTexts, NEW q \in KeyTexts, NEW x \in KeyTexts, NEW y \in KeyTexts,
         Cat(p, x) = Cat(q, y),
         ToSet(p) \cap D = {}, ToSet(q) \cap D = {},
         x = <<>> \/ x[1] \in D, y = <<>> \/ y[1] \in D
  PROVE  p = q /\ x = y
BY CutAtFirst DEF Cat, KeyTexts

\* What follows the start of a key: its path, query, body and headers.
KeyRest(rq, k) == Cat(rq.path, Cat(QueryPart(rq, k), KeyEnd(rq, k)))

LEMMA RestTyped ==
  ASSUME SeparableTexts, conf \in Configurations, NEW rq \in Requests, NEW k \in Rules(conf)
  PROVE  /\ PlainKey(rq, k) = Cat(KeyStart(rq, k), KeyRest(rq, k))
         /\ KeyStart(rq, k) \in KeyTexts /\ rq.path \in KeyTexts /\ QueryPart(rq, k) \in KeyTexts
         /\ KeyEnd(rq, k) \in KeyTexts /\ Cat(QueryPart(rq, k), KeyEnd(rq, k)) \in KeyTexts
         /\ KeyRest(rq, k) \in KeyTexts /\ KeyRest(rq, k) # <<>> /\ KeyRest(rq, k)[1] = "/"
<1>1. PlainKey(rq, k) = Cat(KeyStart(rq, k), KeyRest(rq, k))
  BY KeyInParts DEF Cat, KeyRest
<1>2. /\ KeyStart(rq, k) \in KeyTexts /\ rq.path \in KeyTexts /\ QueryPart(rq, k) \in KeyTexts
      /\ KeyEnd(rq, k) \in KeyTexts
  BY KeyInParts, PartsTyped DEF KeyTexts
<1>3. Cat(QueryPart(rq, k), KeyEnd(rq, k)) \in KeyTexts
  BY <1>2, CatOfTexts
<1>4. KeyRest(rq, k) \in KeyTexts
  BY <1>2, <1>3, CatOfTexts DEF KeyRest
<1>5. KeyRest(rq, k) # <<>> /\ KeyRest(rq, k)[1] = "/"
  <2> DEFINE p == rq.path
             x == Cat(QueryPart(rq, k), KeyEnd(rq, k))
  <2>1. p \in Seq(Tokens) /\ x \in Seq(Tokens) /\ p # <<>> /\ p[1] = "/"
    BY <1>2, <1>3 DEF KeyTexts, SeparableTexts
  <2> HIDE DEF p, x
  <2>2. p \o x # <<>> /\ (p \o x)[1] = "/"
    BY <2>1
  <2> QED BY <2>2 DEF KeyRest, Cat, p, x
<1> QED BY <1>1, <1>2, <1>3, <1>4, <1>5

\* A path ends where a query, a body or headers may follow.
LEMMA PathEnds ==
  ASSUME SeparableTexts, conf \in Configurations, NEW rq \in Requests, NEW k \in Rules(conf)
  PROVE  LET x == Cat(QueryPart(rq, k), KeyEnd(rq, k))
         IN  x = <<>> \/ x[1] \in {"?"} \union Separators(conf)
<1> DEFINE q == QueryPart(rq, k)
           e == KeyEnd(rq, k)
<1>1. q \in Seq(Tokens) /\ e \in Seq(Tokens)
  BY RestTyped DEF KeyTexts
<1>2. e = <<>> \/ e[1] \in Separators(conf)
  BY EndBegins
<1>3. q = <<>> \/ (q # <<>> /\ q[1] = "?")
  <2>1. IsText(rq.query) /\ \A i \in DOMAIN rq.query : Parameters[rq.query[i]].rank \in Nat
    BY ContextAssumption DEF ContextAssumption
  <2>2. Sorted(rq.query) \in Seq(ToSet(rq.query)) /\ rq.query \in Seq(ToSet(rq.query))
    BY <2>1, SortedKeeps DEF IsText
  <2>3. \A t \in Seq(ToSet(rq.query)) : <<"?">> \o t # <<>> /\ (<<"?">> \o t)[1] = "?"
    OBVIOUS
  <2> QED BY <2>2, <2>3 DEF QueryPart
<1> HIDE DEF q, e
<1>4. CASE q = <<>>
  <2>1. q \o e = e
    BY <1>1, <1>4
  <2> QED BY <1>2, <2>1 DEF Cat, q, e
<1>5. CASE q # <<>> /\ q[1] = "?"
  <2>1. (q \o e)[1] = "?"
    BY <1>1, <1>5
  <2> QED BY <2>1 DEF Cat, q, e
<1> QED BY <1>3, <1>4, <1>5

\* A plain key is no digest.
LEMMA NoDigest ==
  ASSUME SeparableTexts, conf \in Configurations, NEW rq \in Requests, NEW k \in Rules(conf)
  PROVE  PlainKey(rq, k)[1] # "xxhash"
<1> DEFINE s == KeyStart(rq, k)
           r == KeyRest(rq, k)
<1>1. /\ s \in Seq(Tokens) /\ r \in Seq(Tokens) /\ r # <<>> /\ r[1] = "/"
      /\ PlainKey(rq, k) = s \o r
  BY RestTyped DEF Cat, KeyTexts
<1>2. ToSet(s) \cap {"/", "xxhash"} = {}
  BY StartTokens
<1> HIDE DEF s, r
<1>3. CASE s = <<>>
  <2>1. s \o r = r
    BY <1>1, <1>3
  <2> QED BY <1>1, <2>1
<1>4. CASE s # <<>>
  <2>1. (s \o r)[1] = s[1] /\ s[1] \in ToSet(s)
    <3>1. 1 \in 1..Len(s) /\ 1 \in DOMAIN s
      BY <1>1, <1>4
    <3>2. (s \o r)[1] = s[1]
      BY <1>1, <3>1
    <3> QED BY <3>1, <3>2 DEF ToSet
  <2> QED BY <1>1, <1>2, <2>1
<1> QED BY <1>3, <1>4

\* Requests with the same key have the same path, hence the same rule, and the
\* same parts of the key.
LEMMA KeyTold ==
  ASSUME PlainRules, SeparableTexts, conf \in Configurations,
         NEW rq \in Requests, NEW as \in Requests, Key(rq) = Key(as)
  PROVE  /\ rq.path = as.path /\ RuleFor(rq) = RuleFor(as)
         /\ KeyStart(rq, RuleFor(rq)) = KeyStart(as, RuleFor(rq))
         /\ QueryPart(rq, RuleFor(rq)) = QueryPart(as, RuleFor(rq))
         /\ KeyEnd(rq, RuleFor(rq)) = KeyEnd(as, RuleFor(rq))
<1> DEFINE k == RuleFor(rq)
           l == RuleFor(as)
<1>1. k \in Rules(conf) /\ l \in Rules(conf)
  BY RuleOfConfiguration
<1>2. Used(rq) = k /\ Used(as) = l /\ k.template = <<>> /\ l.template = <<>>
  <2>1. conf.key.template = <<>>
    BY DEF PlainRules, Rules
  <2>2. k.template = <<>> /\ l.template = <<>>
    BY <1>1 DEF PlainRules
  <2> QED BY <2>1, <2>2 DEF Used, RuleFor
<1>3. KeyText(rq) = PlainKey(rq, k) /\ KeyText(as) = PlainKey(as, l)
  BY <1>2 DEF KeyText
<1> HIDE DEF k, l
<1>4. PlainKey(rq, k) = PlainKey(as, l)
  <2>1. /\ Key(rq) = IF k.hash THEN <<"xxhash", PlainKey(rq, k)>> ELSE PlainKey(rq, k)
        /\ Key(as) = IF l.hash THEN <<"xxhash", PlainKey(as, l)>> ELSE PlainKey(as, l)
    BY <1>2, <1>3 DEF Key
  <2>2. PlainKey(rq, k)[1] # "xxhash" /\ PlainKey(as, l)[1] # "xxhash"
    BY <1>1, NoDigest
  <2>3. \A t : <<"xxhash", t>>[1] = "xxhash"
    OBVIOUS
  <2>4. k.hash \in BOOLEAN /\ l.hash \in BOOLEAN
    <3>1. IsRule(k) /\ IsRule(l)
      BY <1>1, ContextAssumption DEF ContextAssumption, Rules
    <3> QED BY <3>1 DEF IsRule
  <2>5. CASE k.hash /\ l.hash
    <3>1. <<"xxhash", PlainKey(rq, k)>> = <<"xxhash", PlainKey(as, l)>>
      BY <2>1, <2>5
    <3> QED BY <3>1
  <2>6. CASE ~k.hash /\ ~l.hash
    BY <2>1, <2>6
  <2> QED BY <2>1, <2>2, <2>3, <2>4, <2>5, <2>6
<1>5. KeyStart(rq, k) = KeyStart(as, l) /\ KeyRest(rq, k) = KeyRest(as, l)
  <2>1. Cat(KeyStart(rq, k), KeyRest(rq, k)) = Cat(KeyStart(as, l), KeyRest(as, l))
    BY <1>1, <1>4, RestTyped
  <2>2. /\ KeyStart(rq, k) \in KeyTexts /\ KeyStart(as, l) \in KeyTexts
        /\ KeyRest(rq, k) \in KeyTexts /\ KeyRest(as, l) \in KeyTexts
        /\ KeyRest(rq, k)[1] = "/" /\ KeyRest(as, l)[1] = "/"
    BY <1>1, RestTyped
  <2>3. /\ ToSet(KeyStart(rq, k)) \cap {"/"} = {} /\ ToSet(KeyStart(as, l)) \cap {"/"} = {}
    BY <1>1, StartTokens
  <2> QED BY <2>1, <2>2, <2>3, CutTextsAtFirst
<1>6. rq.path = as.path /\ Cat(QueryPart(rq, k), KeyEnd(rq, k)) = Cat(QueryPart(as, l), KeyEnd(as, l))
  <2> DEFINE D == {"?"} \union Separators(conf)
             p == rq.path
             q == as.path
             x == Cat(QueryPart(rq, k), KeyEnd(rq, k))
             y == Cat(QueryPart(as, l), KeyEnd(as, l))
  <2>1. p \in KeyTexts /\ q \in KeyTexts /\ x \in KeyTexts /\ y \in KeyTexts
    BY <1>1, RestTyped
  <2>2. Cat(p, x) = Cat(q, y)
    BY <1>5 DEF KeyRest
  <2>3. ToSet(p) \cap D = {} /\ ToSet(q) \cap D = {}
    BY DEF SeparableTexts
  <2>4. (x = <<>> \/ x[1] \in D) /\ (y = <<>> \/ y[1] \in D)
    BY <1>1, PathEnds
  <2> HIDE DEF D, p, q, x, y
  <2>5. p = q /\ x = y
    BY <2>1, <2>2, <2>3, <2>4, CutTextsAtFirst
  <2> QED BY <2>5 DEF p, q, x, y
<1>7. k = l
  <2>1. Override(rq) = Override(as)
    BY <1>6 DEF Override
  <2> QED BY <2>1 DEF k, l, RuleFor
<1>8. QueryPart(rq, k) = QueryPart(as, k) /\ KeyEnd(rq, k) = KeyEnd(as, k)
  <2> DEFINE D == Separators(conf)
             p == QueryPart(rq, k)
             q == QueryPart(as, k)
             x == KeyEnd(rq, k)
             y == KeyEnd(as, k)
  <2>1. p \in KeyTexts /\ q \in KeyTexts /\ x \in KeyTexts /\ y \in KeyTexts
    BY <1>1, RestTyped
  <2>2. Cat(p, x) = Cat(q, y)
    BY <1>6, <1>7
  <2>3. ToSet(p) \cap D = {} /\ ToSet(q) \cap D = {}
    BY <1>1, QueryTokens
  <2>4. (x = <<>> \/ x[1] \in D) /\ (y = <<>> \/ y[1] \in D)
    BY <1>1, EndBegins
  <2> HIDE DEF D, p, q, x, y
  <2>5. p = q /\ x = y
    BY <2>1, <2>2, <2>3, <2>4, CutTextsAtFirst
  <2> QED BY <2>5 DEF p, q, x, y
<1> QED BY <1>5, <1>6, <1>7, <1>8 DEF k, l

\* What is filed under the key of a request and its varied value answers it.
LEMMA SameKeyAnswers ==
  ASSUME PlainRules, SeparableTexts, ReadableQueries, conf \in Configurations,
         answer.storedFor # NoRequest =>
           /\ answer.request \in Requests /\ answer.storedFor \in Requests
           /\ ~IsMutationRequest(answer.request) /\ ~IsMutationRequest(answer.storedFor)
           /\ Key(answer.request) = Key(answer.storedFor)
           /\ Varied(answer.request) = Varied(answer.storedFor)
  PROVE  AnswerMatches
<1> DEFINE rq == answer.request
           as == answer.storedFor
           k == RuleFor(rq)
<1> SUFFICES ASSUME as # NoRequest
             PROVE  /\ \A part \in Parts \ {"query"} : Keeps(k, part) => rq[part] = as[part]
                    /\ Keeps(k, "query") =>
                         rq.query = as.query \/ (k.sortQuery /\ SameParameters(rq.query, as.query))
                    /\ rq.path = as.path
                    /\ \A i \in DOMAIN k.headers : rq.headers[k.headers[i]] = as.headers[k.headers[i]]
                    /\ "vary" \notin k.disabled => rq.headers[VaryOn] = as.headers[VaryOn]
  BY DEF AnswerMatches
<1>1. /\ rq \in Requests /\ as \in Requests
      /\ ~IsMutationRequest(rq) /\ ~IsMutationRequest(as)
      /\ Key(rq) = Key(as) /\ Varied(rq) = Varied(as)
  OBVIOUS
<1> HIDE DEF rq, as
<1>2. k \in Rules(conf)
  BY <1>1, RuleOfConfiguration
<1>3. /\ rq.path = as.path /\ KeyStart(rq, k) = KeyStart(as, k)
      /\ QueryPart(rq, k) = QueryPart(as, k) /\ KeyEnd(rq, k) = KeyEnd(as, k)
  BY <1>1, KeyTold
<1> HIDE DEF k
<1>4. /\ "method" \notin k.disabled => rq.method = as.method
      /\ "scheme" \notin k.disabled => rq.scheme = as.scheme
      /\ "host" \notin k.disabled => rq.host = as.host
  BY <1>1, <1>2, <1>3, StartTold
<1>5. /\ HeaderValues(rq, k) = HeaderValues(as, k)
      /\ "body" \notin k.disabled /\ GraphQL => rq.body = as.body
  BY <1>1, <1>2, <1>3, EndTold
<1>6. \A i \in DOMAIN k.headers : rq.headers[k.headers[i]] = as.headers[k.headers[i]]
  BY <1>1, <1>2, <1>5, HeadersTold
<1>7. k.template = <<>> /\ ("vary" \notin k.disabled => ~DisableVary)
  BY <1>2 DEF PlainRules, DisableVary
<1>8. \A part \in Parts \ {"query"} : Keeps(k, part) => rq[part] = as[part]
  BY <1>4, <1>5, <1>7 DEF Keeps, Parts
<1>9. Keeps(k, "query") =>
        rq.query = as.query \/ (k.sortQuery /\ SameParameters(rq.query, as.query))
  <2>1. Keeps(k, "query") =>
          rq.query = as.query \/ (k.sortQuery /\ Sorted(rq.query) = Sorted(as.query))
    BY <1>1, <1>3, <1>7, QueryTold DEF Keeps
  <2>2. k.sortQuery => Malformed(rq.query) = {} /\ Malformed(as.query) = {}
    BY <1>1, <1>2 DEF ReadableQueries
  <2> QED BY <2>1, <2>2 DEF SameParameters
<1>10. "vary" \notin k.disabled => rq.headers[VaryOn] = as.headers[VaryOn]
  BY <1>1, <1>7 DEF Varied
<1> QED BY <1>3, <1>6, <1>8, <1>9, <1>10

\* What is stored answers no mutation, and the last answer was stored under the
\* key and the varied value of the request that it was given to.
MatchInv ==
  /\ FiledInv
  /\ \A e \in cache : ~IsMutationRequest(e.request)
  /\ answer.storedFor # NoRequest =>
       /\ answer.request \in Requests /\ answer.storedFor \in Requests
       /\ ~IsMutationRequest(answer.request) /\ ~IsMutationRequest(answer.storedFor)
       /\ Key(answer.request) = Key(answer.storedFor)
       /\ Varied(answer.request) = Varied(answer.storedFor)

LEMMA MatchInit == ContextInit => MatchInv
BY FiledInit DEF ContextInit, MatchInv

LEMMA MatchStep == MatchInv /\ [ContextNext]_contextVars => MatchInv'
<1> SUFFICES ASSUME MatchInv, [ContextNext]_contextVars PROVE MatchInv'
  OBVIOUS
<1>1. FiledInv'
  BY FiledStep DEF MatchInv
<1>2. ASSUME NEW rq \in Requests, Pass(rq) PROVE MatchInv'
  <2>1. conf' = conf /\ cache' = cache /\ answer'.storedFor = NoRequest
    BY <1>2 DEF Pass
  <2> QED BY <1>1, <2>1, KeyKept DEF MatchInv
<1>3. ASSUME NEW rq \in Requests, Invalidate(rq) PROVE MatchInv'
  <2>1. conf' = conf /\ cache' \subseteq cache /\ answer'.storedFor = NoRequest
    BY <1>3 DEF Invalidate
  <2> QED BY <1>1, <2>1, KeyKept DEF MatchInv
<1>4. ASSUME NEW rq \in Requests, Hit(rq) PROVE MatchInv'
  <2>1. PICK e \in cache :
          /\ e.key = Key(rq) /\ e.varied = Varied(rq)
          /\ answer'.request = rq /\ answer'.storedFor = e.request
    BY <1>4 DEF Hit, Candidates
  <2>2. conf' = conf /\ cache' = cache /\ ~IsMutationRequest(rq)
    BY <1>4 DEF Hit
  <2>3. /\ e.request \in Requests /\ ~IsMutationRequest(e.request)
        /\ Key(rq) = Key(e.request) /\ Varied(rq) = Varied(e.request)
    BY <2>1 DEF MatchInv, FiledInv
  <2> QED BY <1>1, <2>1, <2>2, <2>3, KeyKept DEF MatchInv
<1>5. ASSUME NEW rq \in Requests, Miss(rq) PROVE MatchInv'
  <2> DEFINE new == [key |-> Key(rq), varied |-> Varied(rq), request |-> rq, ttl |-> TTL(rq)]
  <2>1. /\ conf' = conf /\ cache' = cache \union {new} /\ answer'.storedFor = NoRequest
        /\ ~IsMutationRequest(new.request)
    BY <1>5 DEF Miss
  <2> HIDE DEF new
  <2> QED BY <1>1, <2>1, KeyKept DEF MatchInv
<1>6. CASE UNCHANGED contextVars
  BY <1>1, <1>6, KeyKept DEF contextVars, MatchInv
<1> QED BY <1>2, <1>3, <1>4, <1>5, <1>6 DEF ContextNext

\* With rules that are no templates and texts that do not contain the separators
\* of the key, and with queries that can be read where they are sorted, a
\* response is only given to requests that agree with the one it was stored for
\* on all that their rule keeps in the key (computeKey, SetContext, the lookup
\* of ServeHTTP).
THEOREM AnswersMatchRules ==
  PlainRules /\ SeparableTexts /\ ReadableQueries /\ ContextSpec => []AnswerMatches
<1> SUFFICES ASSUME PlainRules, SeparableTexts, ReadableQueries PROVE ContextSpec => []AnswerMatches
  OBVIOUS
<1>1. MatchInv => AnswerMatches
  <2> SUFFICES ASSUME MatchInv PROVE AnswerMatches
    OBVIOUS
  <2> QED BY SameKeyAnswers DEF MatchInv, FiledInv
<1> QED BY <1>1, MatchInit, MatchStep, PTL DEF ContextSpec
=============================================================================
