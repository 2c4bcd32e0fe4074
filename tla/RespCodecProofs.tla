--------------------------- MODULE RespCodecProofs ---------------------------
(***************************************************************************)
(* For every wire, however it is cut into pieces: the decoder keeps its    *)
(* place, fails only on a malformed wire, and leaves nothing behind.  What *)
(* the encoder writes is well formed, and the decoder reads of it the      *)
(* values that were sent.                                                  *)
(***************************************************************************)
EXTENDS RespCodec, WellFoundedInduction, SequenceTheorems, TLAPS

USE DEF CR, LF

-----------------------------------------------------------------------------
(* Induction, over sets of numbers, and the functions it defines.           *)

\* A set of numbers has a least one.
LEMMA LeastNatural ==
  ASSUME NEW T, T \subseteq Nat, T # {}
  PROVE  \E x \in T : \A y \in T : x <= y
  <1> DEFINE R == OpToRel(<, Nat)
  <1>1. IsWellFoundedOn(R, Nat) BY NatLessThanWellFounded
  <1>2. \A x, y \in Nat : x < y => <<x, y>> \in R BY DEF OpToRel
  <1> HIDE DEF R
  <1>3. PICK x \in T : \A y \in T : ~ (<<y, x>> \in R) BY <1>1, WFMin
  <1>4. \A y \in T : ~ y < x BY <1>2, <1>3
  <1> QED BY <1>4

\* Induction, for the set of the numbers that have a property.
LEMMA SetInduction ==
  ASSUME NEW S, 0 \in S, \A n \in Nat : n \in S => n + 1 \in S
  PROVE  Nat \subseteq S
  <1> SUFFICES ASSUME Nat \ S # {} PROVE FALSE OBVIOUS
  <1>1. PICK x \in Nat \ S : \A y \in Nat \ S : x <= y
    <2>1. Nat \ S \subseteq Nat OBVIOUS
    <2> QED BY <2>1, LeastNatural
  <1>2. x # 0 BY <1>1
  <1>3. x - 1 \in Nat /\ x - 1 \in S BY <1>1, <1>2
  <1>4. (x - 1) + 1 \in S BY <1>3
  <1> QED BY <1>1, <1>4

\* FlattenSeq's function of the first elements.
Flat(ss, f, i) == IF i = 1 THEN ss[i] ELSE f[i - 1] \o ss[i]

\* There is a function that FlattenSeq chooses.
LEMMA FlatExists ==
  ASSUME NEW ss, Len(ss) \in Nat
  PROVE  \E f : f = [i \in 1 .. Len(ss) |-> Flat(ss, f, i)]
  <1> DEFINE S == {n \in Nat : \E f : /\ f = [i \in 1 .. Len(ss) |-> f[i]]
                                      /\ \A i \in 1 .. Len(ss) : i <= n => f[i] = Flat(ss, f, i)}
  <1>1. 0 \in S
    <2> DEFINE f == [i \in 1 .. Len(ss) |-> i]
    <2>1. f = [i \in 1 .. Len(ss) |-> f[i]] OBVIOUS
    <2>2. \A i \in 1 .. Len(ss) : ~ i <= 0 OBVIOUS
    <2> HIDE DEF f
    <2> QED BY <2>1, <2>2
  <1>2. ASSUME NEW n \in Nat, n \in S PROVE n + 1 \in S
    <2>1. PICK f : /\ f = [i \in 1 .. Len(ss) |-> f[i]]
                   /\ \A i \in 1 .. Len(ss) : i <= n => f[i] = Flat(ss, f, i)
      BY <1>2
    <2> DEFINE g == [i \in 1 .. Len(ss) |-> Flat(ss, f, i)]
    <2>2. g = [i \in 1 .. Len(ss) |-> g[i]] /\ \A i \in 1 .. Len(ss) : g[i] = Flat(ss, f, i) OBVIOUS
    <2> HIDE DEF g
    <2>3. ASSUME NEW i \in 1 .. Len(ss), i <= n + 1 PROVE g[i] = Flat(ss, g, i)
      <3>1. CASE i = 1 BY <2>2, <3>1 DEF Flat
      <3>2. CASE i # 1
        <4>1. i - 1 \in 1 .. Len(ss) /\ i - 1 <= n BY <2>3, <3>2
        <4>2. g[i - 1] = f[i - 1] BY <2>1, <2>2, <4>1
        <4> QED BY <2>2, <3>2, <4>2 DEF Flat
      <3> QED BY <3>1, <3>2
    <2>4. n + 1 \in Nat OBVIOUS
    <2> QED BY <2>2, <2>3, <2>4
  <1>3. Len(ss) \in S
    <2> HIDE DEF S
    <2>1. Nat \subseteq S BY <1>1, <1>2, SetInduction
    <2> QED BY <2>1
  <1>4. PICK f : /\ f = [i \in 1 .. Len(ss) |-> f[i]]
                 /\ \A i \in 1 .. Len(ss) : i <= Len(ss) => f[i] = Flat(ss, f, i)
    BY <1>3
  <1>5. \A i \in 1 .. Len(ss) : f[i] = Flat(ss, f, i) BY <1>4
  <1>6. f = [i \in 1 .. Len(ss) |-> Flat(ss, f, i)] BY <1>4, <1>5
  <1> QED BY <1>6

\* A concatenation, entry by entry.
LEMMA Concat ==
  ASSUME NEW T, NEW a \in Seq(T), NEW b \in Seq(T)
  PROVE  /\ Len(a) \in Nat /\ Len(b) \in Nat /\ a \o b \in Seq(T) /\ Len(a \o b) = Len(a) + Len(b)
         /\ \A i \in 1 .. Len(a) : (a \o b)[i] = a[i]
         /\ \A i \in 1 .. Len(b) : (a \o b)[Len(a) + i] = b[i]
  <1> DEFINE c == a \o b
             m == Len(a)
             n == Len(b)
  <1>1. m \in Nat /\ n \in Nat OBVIOUS
  <1>2. /\ c \in Seq(T) /\ Len(c) = m + n
        /\ \A i \in 1 .. m + n : c[i] = IF i <= m THEN a[i] ELSE b[i - m]
    BY ConcatProperties
  <1> HIDE DEF c, m, n
  <1>3. \A i \in 1 .. m : c[i] = a[i] BY <1>1, <1>2
  <1>4. ASSUME NEW i \in 1 .. n PROVE c[m + i] = b[i]
    <2>1. m + i \in 1 .. m + n /\ ~ m + i <= m /\ (m + i) - m = i BY <1>1
    <2>2. c[m + i] = b[(m + i) - m] BY <1>2, <2>1
    <2> QED BY <2>1, <2>2
  <1> QED BY <1>1, <1>2, <1>3, <1>4 DEF c, m, n

\* What FlattenSeq takes its last value from.
LEMMA FlattenDef ==
  ASSUME NEW T, NEW ss \in Seq(Seq(T)), ss # <<>>
  PROVE  \E f \in [1 .. Len(ss) -> Seq(T)] :
           /\ \A i \in 1 .. Len(ss) : f[i] = Flat(ss, f, i)
           /\ FlattenSeq(ss) = f[Len(ss)]
  <1> DEFINE F == CHOOSE f : f = [i \in 1 .. Len(ss) |-> Flat(ss, f, i)]
  <1>1. Len(ss) \in Nat /\ Len(ss) # 0 /\ \A i \in 1 .. Len(ss) : ss[i] \in Seq(T) OBVIOUS
  <1>2. F = [i \in 1 .. Len(ss) |-> Flat(ss, F, i)]
    <2>1. \E f : f = [i \in 1 .. Len(ss) |-> Flat(ss, f, i)] BY <1>1, FlatExists
    <2> QED BY <2>1, Zenon
  <1>3. FlattenSeq(ss) = F[Len(ss)]
    BY <1>1 DEF FlattenSeq, Flat
  <1> HIDE DEF F
  <1>4. \A i \in 1 .. Len(ss) : F[i] = Flat(ss, F, i) BY <1>2
  <1> DEFINE S == {n \in Nat : \A i \in 1 .. Len(ss) : i <= n => F[i] \in Seq(T)}
  <1>5. 0 \in S OBVIOUS
  <1>6. ASSUME NEW n \in Nat, n \in S PROVE n + 1 \in S
    <2>1. ASSUME NEW i \in 1 .. Len(ss), i <= n + 1 PROVE F[i] \in Seq(T)
      <3>1. CASE i = 1 BY <1>1, <1>4, <3>1 DEF Flat
      <3>2. CASE i # 1
        <4>1. i - 1 \in 1 .. Len(ss) /\ i - 1 <= n BY <2>1, <3>2
        <4>2. F[i - 1] \in Seq(T) BY <1>6, <4>1
        <4>3. F[i] = F[i - 1] \o ss[i] BY <1>4, <3>2 DEF Flat
        <4> QED BY <1>1, <4>2, <4>3
      <3> QED BY <3>1, <3>2
    <2> QED BY <2>1
  <1>7. Len(ss) \in S
    <2> HIDE DEF S
    <2> QED BY <1>1, <1>5, <1>6, SetInduction
  <1>8. F \in [1 .. Len(ss) -> Seq(T)] BY <1>2, <1>7
  <1> QED BY <1>3, <1>4, <1>8

\* FlattenSeq, sequence by sequence.
LEMMA FlattenEmpty == FlattenSeq(<<>>) = <<>>
  BY DEF FlattenSeq

LEMMA FlattenType ==
  ASSUME NEW T, NEW ss \in Seq(Seq(T))
  PROVE  FlattenSeq(ss) \in Seq(T)
  <1>1. CASE ss = <<>>
    <2>1. FlattenSeq(ss) = <<>> BY <1>1, FlattenEmpty
    <2>2. <<>> \in Seq(T) OBVIOUS
    <2> QED BY <2>1, <2>2
  <1>2. CASE ss # <<>>
    <2>1. Len(ss) \in 1 .. Len(ss) BY <1>2
    <2>2. \E f \in [1 .. Len(ss) -> Seq(T)] : FlattenSeq(ss) = f[Len(ss)] BY <1>2, FlattenDef
    <2> QED BY <2>1, <2>2
  <1> QED BY <1>1, <1>2

LEMMA FlattenAppend ==
  ASSUME NEW T, NEW ss \in Seq(Seq(T)), NEW s \in Seq(T)
  PROVE  FlattenSeq(Append(ss, s)) = FlattenSeq(ss) \o s
  <1> DEFINE tt == Append(ss, s)
             n == Len(ss)
  <1>1. /\ tt \in Seq(Seq(T)) /\ tt # <<>> /\ Len(tt) = n + 1 /\ tt[n + 1] = s /\ n \in Nat
        /\ \A i \in 1 .. n : tt[i] = ss[i]
    <2>1. n \in Nat OBVIOUS
    <2> QED BY <2>1, AppendProperties
  <1> HIDE DEF tt
  <1>2. PICK f \in [1 .. Len(tt) -> Seq(T)] :
          /\ \A i \in 1 .. Len(tt) : f[i] = Flat(tt, f, i)
          /\ FlattenSeq(tt) = f[Len(tt)]
    BY <1>1, FlattenDef
  <1>3. CASE ss = <<>>
    <2>1. n = 0 BY <1>3
    <2>2. f[1] = s BY <1>1, <1>2, <2>1 DEF Flat
    <2>3. FlattenSeq(ss) = <<>> BY <1>3, FlattenEmpty
    <2>4. <<>> \o s = s OBVIOUS
    <2> QED BY <1>1, <1>2, <2>1, <2>2, <2>3, <2>4 DEF tt
  <1>4. CASE ss # <<>>
    <2>1. PICK g \in [1 .. n -> Seq(T)] :
            /\ \A i \in 1 .. n : g[i] = Flat(ss, g, i)
            /\ FlattenSeq(ss) = g[n]
      BY <1>4, FlattenDef
    <2> DEFINE S == {k \in Nat : \A i \in 1 .. n : i <= k => f[i] = g[i]}
    <2>2. 0 \in S OBVIOUS
    <2>3. ASSUME NEW k \in Nat, k \in S PROVE k + 1 \in S
      <3>1. ASSUME NEW i \in 1 .. n, i <= k + 1 PROVE f[i] = g[i]
        <4>0. i \in 1 .. Len(tt) BY <1>1
        <4>1. CASE i = 1 BY <1>1, <1>2, <2>1, <4>0, <4>1 DEF Flat
        <4>2. CASE i # 1
          <5>1. i - 1 \in 1 .. n /\ i - 1 <= k BY <3>1, <4>2
          <5>2. f[i - 1] = g[i - 1] BY <2>3, <5>1
          <5>3. f[i] = f[i - 1] \o tt[i] BY <1>2, <4>0, <4>2 DEF Flat
          <5>4. g[i] = g[i - 1] \o ss[i] BY <2>1, <4>2 DEF Flat
          <5> QED BY <1>1, <5>2, <5>3, <5>4
        <4> QED BY <4>1, <4>2
      <3> QED BY <3>1
    <2>4. n \in S
      <3> HIDE DEF S
      <3> QED BY <1>1, <2>2, <2>3, SetInduction
    <2>5. n \in 1 .. n /\ n + 1 \in 1 .. Len(tt) /\ n + 1 # 1 BY <1>1, <1>4
    <2>6. f[n] = g[n] BY <2>4, <2>5
    <2>7. f[n + 1] = f[(n + 1) - 1] \o s BY <1>1, <1>2, <2>5 DEF Flat
    <2>8. (n + 1) - 1 = n BY <1>1
    <2> QED BY <1>1, <1>2, <2>1, <2>6, <2>7, <2>8 DEF tt
  <1> QED BY <1>3, <1>4

\* The parts of a concatenation, flattened, are those of its halves.
LEMMA FlattenConcat ==
  ASSUME NEW T, NEW ss \in Seq(Seq(T)), NEW tt \in Seq(Seq(T))
  PROVE  FlattenSeq(ss \o tt) = FlattenSeq(ss) \o FlattenSeq(tt)
  <1> DEFINE U(n) == \A uu \in Seq(Seq(T)) :
                       Len(uu) = n => FlattenSeq(ss \o uu) = FlattenSeq(ss) \o FlattenSeq(uu)
             S == {n \in Nat : U(n)}
  <1>0. FlattenSeq(ss) \in Seq(T) BY FlattenType
  <1>1. 0 \in S
    <2>1. ASSUME NEW uu \in Seq(Seq(T)), Len(uu) = 0
          PROVE  FlattenSeq(ss \o uu) = FlattenSeq(ss) \o FlattenSeq(uu)
      <3>1. uu = <<>> BY <2>1
      <3>2. ss \o uu = ss BY <3>1
      <3>3. FlattenSeq(uu) = <<>> BY <3>1, FlattenEmpty
      <3>4. FlattenSeq(ss) \o <<>> = FlattenSeq(ss) BY <1>0
      <3> QED BY <3>2, <3>3, <3>4
    <2> QED BY <2>1
  <1>2. ASSUME NEW n \in Nat, n \in S PROVE n + 1 \in S
    <2>1. ASSUME NEW uu \in Seq(Seq(T)), Len(uu) = n + 1
          PROVE  FlattenSeq(ss \o uu) = FlattenSeq(ss) \o FlattenSeq(uu)
      <3>0. uu # <<>> BY <2>1
      <3>1. PICK vv \in Seq(Seq(T)), s \in Seq(T) : uu = Append(vv, s)
        BY <3>0, SequenceEmptyOrAppend
      <3>2. Len(vv) = n BY <2>1, <3>1
      <3>3. FlattenSeq(ss \o vv) = FlattenSeq(ss) \o FlattenSeq(vv) BY <1>2, <3>2
      <3>4. ss \o uu = Append(ss \o vv, s) BY <3>1
      <3>5. ss \o vv \in Seq(Seq(T)) OBVIOUS
      <3>6. FlattenSeq(ss \o uu) = FlattenSeq(ss \o vv) \o s BY <3>4, <3>5, FlattenAppend
      <3>7. FlattenSeq(uu) = FlattenSeq(vv) \o s BY <3>1, FlattenAppend
      <3>8. FlattenSeq(vv) \in Seq(T) BY FlattenType
      <3>9. (FlattenSeq(ss) \o FlattenSeq(vv)) \o s = FlattenSeq(ss) \o (FlattenSeq(vv) \o s)
        <4> DEFINE x == FlattenSeq(ss)
                   y == FlattenSeq(vv)
        <4>1. x \in Seq(T) /\ y \in Seq(T) BY <1>0, <3>8
        <4> HIDE DEF x, y
        <4>2. (x \o y) \o s = x \o (y \o s) BY <4>1, ConcatAssociative, SMTT(30)
        <4> QED BY <4>2 DEF x, y
      <3> QED BY <3>3, <3>6, <3>7, <3>9
    <2> QED BY <2>1
  <1>3. Len(tt) \in Nat OBVIOUS
  <1>4. Len(tt) \in S
    <2> HIDE DEF S
    <2> QED BY <1>1, <1>2, <1>3, SetInduction
  <1> QED BY <1>4

-----------------------------------------------------------------------------
(* Values and their encoding.                                              *)

\* A value is one of the variants.
LEMMA Variants ==
  ASSUME NEW v \in Values
  PROVE  \/ v.type \in {"simple", "error", "bulk"} /\ v = [type |-> v.type, s |-> v.s] /\ v.s \in Seq(Tokens)
         \/ v.type = "integer" /\ v = [type |-> "integer", n |-> v.n] /\ v.n \in DOMAIN Numeral
         \/ v.type = "null" /\ v = Null
         \/ v.type = "array" /\ v = ArrayOf(v.elems) /\ v.elems \in Seq(Values)
  <1>1. v \in [type : {"simple", "error", "bulk"}, s : Seq(Tokens)]
             \union [type : {"integer"}, n : DOMAIN Numeral] \union {Null}
             \union [type : {"array"}, elems : Seq(Values)]
    BY ValuesAssumption
  <1>2. CASE v \in [type : {"simple", "error", "bulk"}, s : Seq(Tokens)] BY <1>2
  <1>3. CASE v \in [type : {"integer"}, n : DOMAIN Numeral] BY <1>3
  <1>4. CASE v = Null BY <1>4 DEF Null
  <1>5. CASE v \in [type : {"array"}, elems : Seq(Values)] BY <1>5 DEF ArrayOf
  <1> QED BY <1>1, <1>2, <1>3, <1>4, <1>5

\* An array is deeper than its elements.
LEMMA Deeper ==
  ASSUME NEW v \in Values, v.type = "array", NEW i \in DOMAIN v.elems
  PROVE  /\ v.elems[i] \in Values /\ Depth[v] \in Nat /\ Depth[v.elems[i]] \in Nat
         /\ Depth[v.elems[i]] < Depth[v]
  <1>1. v.elems \in Seq(Values) BY Variants
  <1>2. v.elems[i] \in Values BY <1>1
  <1> QED BY <1>2, ValuesAssumption

\* What Encode and Parts do with a value, given what they do with those that are less deep.
Elements(f, v) == FlattenSeq([i \in DOMAIN v.elems |-> f[v.elems[i]]])
Code(f, v) ==
  IF v.type = "array" THEN Line("*", <<Numeral[Len(v.elems)]>>) \o Elements(f, v) ELSE EncodePlain(v)
PartsBy(f, v) ==
  {v} \union (IF v.type = "array" THEN UNION {f[v.elems[i]] : i \in DOMAIN v.elems} ELSE {})
Body(of, f, v) == IF of = "code" THEN Code(f, v) ELSE PartsBy(f, v)

\* What is computed for a value depends on its elements only.
LEMMA BodyOfElements ==
  ASSUME NEW of, NEW v \in Values, NEW f, NEW g,
         v.type = "array" => \A i \in DOMAIN v.elems : f[v.elems[i]] = g[v.elems[i]]
  PROVE  Body(of, f, v) = Body(of, g, v)
  <1>1. Code(f, v) = Code(g, v)
    <2>1. CASE v.type = "array"
      <3>1. [i \in DOMAIN v.elems |-> f[v.elems[i]]] = [i \in DOMAIN v.elems |-> g[v.elems[i]]]
        BY <2>1
      <3>2. Elements(f, v) = Elements(g, v) BY <3>1 DEF Elements
      <3> QED BY <2>1, <3>2 DEF Code
    <2>2. CASE v.type # "array" BY <2>2 DEF Code
    <2> QED BY <2>1, <2>2
  <1>2. PartsBy(f, v) = PartsBy(g, v)
    <2>1. CASE v.type = "array"
      <3>1. {f[v.elems[i]] : i \in DOMAIN v.elems} = {g[v.elems[i]] : i \in DOMAIN v.elems} BY <2>1
      <3> QED BY <2>1, <3>1 DEF PartsBy
    <2>2. CASE v.type # "array" BY <2>2 DEF PartsBy
    <2> QED BY <2>1, <2>2
  <1> QED BY <1>1, <1>2 DEF Body

\* f is such a function, for the values whose depth is below n.
UpTo(of, f, n) ==
  /\ f = [v \in Values |-> f[v]]
  /\ \A v \in Values : Depth[v] < n => f[v] = Body(of, f, v)

\* A function computes it for the values up to a depth.
LEMMA UpToAnyDepth ==
  ASSUME NEW of, NEW n \in Nat
  PROVE  \E f : UpTo(of, f, n)
  <1> DEFINE S == {k \in Nat : \E f : UpTo(of, f, k)}
  <1>0. Depth \in [Values -> Nat] BY ValuesAssumption
  <1>1. 0 \in S
    <2> DEFINE f == [v \in Values |-> v]
    <2>1. f = [v \in Values |-> f[v]] OBVIOUS
    <2>2. \A v \in Values : ~ Depth[v] < 0 BY <1>0
    <2> HIDE DEF f
    <2> QED BY <2>1, <2>2 DEF UpTo
  <1>2. ASSUME NEW k \in Nat, k \in S PROVE k + 1 \in S
    <2>1. PICK f : UpTo(of, f, k) BY <1>2
    <2> DEFINE g == [v \in Values |-> Body(of, f, v)]
    <2>2. g = [v \in Values |-> g[v]] /\ \A v \in Values : g[v] = Body(of, f, v) OBVIOUS
    <2> HIDE DEF g
    <2>3. ASSUME NEW v \in Values, Depth[v] < k + 1 PROVE g[v] = Body(of, g, v)
      <3>1. ASSUME v.type = "array", NEW i \in DOMAIN v.elems
            PROVE  f[v.elems[i]] = g[v.elems[i]]
        <4>1. v.elems[i] \in Values /\ Depth[v.elems[i]] < k BY <2>3, <3>1, Deeper
        <4> QED BY <2>1, <2>2, <4>1 DEF UpTo
      <3>2. Body(of, f, v) = Body(of, g, v) BY <3>1, BodyOfElements
      <3> QED BY <2>2, <3>2
    <2>4. UpTo(of, g, k + 1) BY <2>2, <2>3 DEF UpTo
    <2> QED BY <2>4
  <1>3. n \in S
    <2> HIDE DEF S
    <2> QED BY <1>1, <1>2, SetInduction
  <1> QED BY <1>3

\* Two such functions agree.
LEMMA UpToUnique ==
  ASSUME NEW of, NEW f, NEW m \in Nat, UpTo(of, f, m), NEW g, NEW n \in Nat, UpTo(of, g, n),
         NEW v \in Values, Depth[v] < m, Depth[v] < n
  PROVE  f[v] = g[v]
  <1> DEFINE T == {Depth[u] : u \in {w \in Values : Depth[w] < m /\ Depth[w] < n /\ f[w] # g[w]}}
  <1> SUFFICES ASSUME f[v] # g[v] PROVE FALSE OBVIOUS
  <1>0. Depth \in [Values -> Nat] BY ValuesAssumption
  <1>1. Depth[v] \in T OBVIOUS
  <1>2. T \subseteq Nat BY <1>0
  <1>3. PICK x \in T : \A y \in T : x <= y BY <1>1, <1>2, LeastNatural
  <1>4. PICK u \in Values : Depth[u] = x /\ Depth[u] < m /\ Depth[u] < n /\ f[u] # g[u] BY <1>3
  <1>5. ASSUME u.type = "array", NEW i \in DOMAIN u.elems
        PROVE  f[u.elems[i]] = g[u.elems[i]]
    <2>1. /\ u.elems[i] \in Values /\ Depth[u] \in Nat /\ Depth[u.elems[i]] \in Nat
          /\ Depth[u.elems[i]] < Depth[u]
      BY <1>5, Deeper
    <2>2. Depth[u.elems[i]] < m /\ Depth[u.elems[i]] < n BY <1>4, <2>1
    <2>3. ~ Depth[u.elems[i]] \in T BY <1>3, <1>4, <2>1
    <2> QED BY <2>1, <2>2, <2>3
  <1>6. Body(of, f, u) = Body(of, g, u) BY <1>5, BodyOfElements
  <1> QED BY <1>4, <1>6 DEF UpTo

\* So the recursive functions on values are what their equations say.
LEMMA RecursionHasSolution ==
  ASSUME NEW of
  PROVE  \E f : f = [u \in Values |-> Body(of, f, u)]
  <1> DEFINE G(n) == CHOOSE f : UpTo(of, f, n)
             F == [u \in Values |-> G(Depth[u] + 1)[u]]
  <1>0. \A u \in Values : Depth[u] \in Nat /\ Depth[u] + 1 \in Nat /\ Depth[u] < Depth[u] + 1
    BY ValuesAssumption
  <1>1. \A n \in Nat : UpTo(of, G(n), n) BY UpToAnyDepth, Zenon
  <1>2. \A u \in Values : F[u] = G(Depth[u] + 1)[u] OBVIOUS
  <1>3. F = [u \in Values |-> F[u]] OBVIOUS
  <1> HIDE DEF G, F
  <1>4. ASSUME NEW u \in Values PROVE F[u] = Body(of, F, u)
    <2>1. UpTo(of, G(Depth[u] + 1), Depth[u] + 1) BY <1>0, <1>1
    <2>2. ASSUME u.type = "array", NEW i \in DOMAIN u.elems
          PROVE  G(Depth[u] + 1)[u.elems[i]] = F[u.elems[i]]
      <3> DEFINE e == u.elems[i]
      <3>1. e \in Values /\ Depth[e] \in Nat /\ Depth[u] \in Nat /\ Depth[e] < Depth[u] BY <2>2, Deeper
      <3> HIDE DEF e
      <3>2. Depth[e] < Depth[u] + 1 /\ Depth[e] < Depth[e] + 1 BY <3>1
      <3>3. UpTo(of, G(Depth[e] + 1), Depth[e] + 1) BY <1>0, <1>1, <3>1
      <3>4. G(Depth[u] + 1)[e] = G(Depth[e] + 1)[e]
        BY <1>0, <2>1, <3>1, <3>2, <3>3, UpToUnique
      <3>5. G(Depth[u] + 1)[e] = F[e] BY <1>2, <3>1, <3>4
      <3> QED BY <3>5 DEF e
    <2>3. Body(of, G(Depth[u] + 1), u) = Body(of, F, u) BY <2>2, BodyOfElements
    <2>4. G(Depth[u] + 1)[u] = Body(of, G(Depth[u] + 1), u) BY <1>0, <2>1 DEF UpTo
    <2> QED BY <1>2, <2>3, <2>4
  <1>5. F = [u \in Values |-> Body(of, F, u)] BY <1>3, <1>4
  <1> QED BY <1>5

\* Encode is what its definition says.
LEMMA EncodeDef ==
  ASSUME NEW v \in Values
  PROVE  Encode[v] = Code(Encode, v)
  <1>1. PICK f : f = [u \in Values |-> Body("code", f, u)] BY RecursionHasSolution
  <1>2. [u \in Values |-> Body("code", f, u)] = [u \in Values |-> Code(f, u)] BY DEF Body
  <1>3. \E g : g = [u \in Values |-> Code(g, u)] BY <1>1, <1>2
  <1>4. Encode = CHOOSE g : g = [u \in Values |-> Code(g, u)] BY DEF Encode, Code, Elements
  <1>5. Encode = [u \in Values |-> Code(Encode, u)] BY <1>3, <1>4, Zenon
  <1> QED BY <1>5

\* And so is Parts.
LEMMA PartsDef ==
  ASSUME NEW v \in Values
  PROVE  Parts[v] = PartsBy(Parts, v)
  <1>1. PICK f : f = [u \in Values |-> Body("parts", f, u)] BY RecursionHasSolution
  <1>2. [u \in Values |-> Body("parts", f, u)] = [u \in Values |-> PartsBy(f, u)] BY DEF Body
  <1>3. \E g : g = [u \in Values |-> PartsBy(g, u)] BY <1>1, <1>2
  <1>4. Parts = CHOOSE g : g = [u \in Values |-> PartsBy(g, u)] BY DEF Parts, PartsBy
  <1>5. Parts = [u \in Values |-> PartsBy(Parts, u)] BY <1>3, <1>4, Zenon
  <1> QED BY <1>5

\* The parts of a value are values, it is one of them, and so are the elements of each.
LEMMA PartsAreClosed ==
  ASSUME NEW v \in Values
  PROVE  /\ Parts[v] \subseteq Values /\ v \in Parts[v]
         /\ \A p \in Parts[v] : p.type = "array" => \A i \in DOMAIN p.elems : p.elems[i] \in Parts[v]
  <1> DEFINE Good(u) == /\ Parts[u] \subseteq Values /\ u \in Parts[u]
                        /\ \A p \in Parts[u] : p.type = "array" =>
                             \A i \in DOMAIN p.elems : p.elems[i] \in Parts[u]
             T == {Depth[u] : u \in {w \in Values : ~ Good(w)}}
  <1> SUFFICES ASSUME ~ Good(v) PROVE FALSE OBVIOUS
  <1>1. Depth[v] \in T OBVIOUS
  <1>2. T \subseteq Nat BY ValuesAssumption
  <1>3. PICK x \in T : \A y \in T : x <= y
    <2> HIDE DEF T
    <2> QED BY <1>1, <1>2, LeastNatural
  <1>4. PICK u \in Values : Depth[u] = x /\ ~ Good(u) BY <1>3
  <1>5. ASSUME u.type = "array", NEW i \in DOMAIN u.elems PROVE Good(u.elems[i])
    <2>1. /\ u.elems[i] \in Values /\ Depth[u] \in Nat /\ Depth[u.elems[i]] \in Nat
          /\ Depth[u.elems[i]] < Depth[u]
      BY <1>5, Deeper
    <2>2. ~ Depth[u] <= Depth[u.elems[i]] BY <2>1
    <2>3. ~ Depth[u.elems[i]] \in T BY <1>3, <1>4, <2>2
    <2> QED BY <2>1, <2>3
  <1>6. Parts[u] = PartsBy(Parts, u) BY PartsDef
  <1>7. u.type = "array" => \A i \in DOMAIN u.elems : Parts[u.elems[i]] \subseteq Parts[u]
    BY <1>6 DEF PartsBy
  <1>8. u \in Parts[u] BY <1>6 DEF PartsBy
  <1>9. ASSUME NEW p \in Parts[u]
        PROVE  p = u \/ (u.type = "array" /\ \E i \in DOMAIN u.elems : p \in Parts[u.elems[i]])
    BY <1>6 DEF PartsBy
  <1>10. Parts[u] \subseteq Values BY <1>5, <1>9
  <1>11. ASSUME NEW p \in Parts[u], p.type = "array", NEW i \in DOMAIN p.elems
         PROVE  p.elems[i] \in Parts[u]
    <2>1. CASE p = u
      <3>1. p.elems[i] \in Parts[u.elems[i]] BY <1>5, <1>11, <2>1
      <3> QED BY <1>7, <1>11, <2>1, <3>1
    <2>2. CASE u.type = "array" /\ \E j \in DOMAIN u.elems : p \in Parts[u.elems[j]]
      <3>1. PICK j \in DOMAIN u.elems : p \in Parts[u.elems[j]] BY <2>2
      <3>2. p.elems[i] \in Parts[u.elems[j]] BY <1>5, <1>11, <2>2, <3>1
      <3> QED BY <1>7, <2>2, <3>2
    <2> QED BY <1>9, <2>1, <2>2
  <1> QED BY <1>4, <1>8, <1>10, <1>11

LEMMA TokensThere ==
  /\ CR \in Tokens /\ LF \in Tokens
  /\ "+" \in Tokens /\ "-" \in Tokens /\ ":" \in Tokens /\ "$" \in Tokens /\ "*" \in Tokens
  BY TokensAssumption DEF Markers, LineMarkers

LEMMA LineEnd ==
  /\ <<CR, LF>> \in Seq(Tokens) /\ Len(<<CR, LF>>) = 2
  /\ <<CR, LF>>[1] = CR /\ <<CR, LF>>[2] = LF
  <1>1. <<CR, LF>> \in Seq(Tokens) BY TokensThere
  <1> QED BY <1>1

LEMMA NumeralText ==
  ASSUME NEW n \in DOMAIN Numeral
  PROVE  <<Numeral[n]>> \in Seq(Tokens)
  <1>1. Numeral[n] \in Tokens BY NumeralAssumption
  <1> QED BY <1>1

LEMMA LineType ==
  ASSUME NEW marker \in Tokens, NEW text \in Seq(Tokens)
  PROVE  /\ Line(marker, text) \in Seq(Tokens) /\ Len(Line(marker, text)) = Len(text) + 3
         /\ Line(marker, text)[1] = marker
         /\ \A j \in 1 .. Len(text) : Line(marker, text)[j + 1] = text[j]
         /\ Line(marker, text)[Len(text) + 2] = CR /\ Line(marker, text)[Len(text) + 3] = LF
  <1> DEFINE x == <<marker>>
             y == <<CR, LF>>
  <1>1. x \in Seq(Tokens) /\ Len(x) = 1 /\ x[1] = marker OBVIOUS
  <1>2. y \in Seq(Tokens) /\ Len(y) = 2 /\ y[1] = CR /\ y[2] = LF BY LineEnd
  <1>3. Line(marker, text) = (x \o text) \o y BY DEF Line
  <1> HIDE DEF x, y
  <1> DEFINE z == x \o text
             l == z \o y
  <1>4. Len(text) \in Nat OBVIOUS
  <1>5. /\ z \in Seq(Tokens) /\ Len(z) = 1 + Len(text) /\ z[1] = marker
        /\ \A i \in 1 .. Len(text) : z[1 + i] = text[i]
    <2>0. x \in Seq(Tokens) /\ text \in Seq(Tokens) BY <1>1
    <2>1. /\ z \in Seq(Tokens) /\ Len(z) = Len(x) + Len(text)
          /\ \A i \in 1 .. Len(x) : z[i] = x[i]
          /\ \A i \in 1 .. Len(text) : z[Len(x) + i] = text[i]
      BY <2>0, Concat
    <2> HIDE DEF z
    <2> QED BY <1>1, <2>1
  <1> HIDE DEF z
  <1>6. /\ l \in Seq(Tokens) /\ Len(l) = Len(z) + 2
        /\ \A i \in 1 .. Len(z) : l[i] = z[i]
        /\ \A i \in 1 .. 2 : l[Len(z) + i] = y[i]
    <2>1. z \in Seq(Tokens) /\ y \in Seq(Tokens) BY <1>2, <1>5
    <2>2. /\ l \in Seq(Tokens) /\ Len(l) = Len(z) + Len(y)
          /\ \A i \in 1 .. Len(z) : l[i] = z[i]
          /\ \A i \in 1 .. Len(y) : l[Len(z) + i] = y[i]
      BY <2>1, Concat
    <2> HIDE DEF l
    <2> QED BY <1>2, <2>2
  <1> HIDE DEF l
  <1>7. l[1] = marker BY <1>4, <1>5, <1>6
  <1>8. ASSUME NEW j \in 1 .. Len(text) PROVE l[j + 1] = text[j]
    <2>1. 1 + j \in 1 .. Len(z) /\ 1 + j = j + 1 BY <1>4, <1>5
    <2>2. l[1 + j] = z[1 + j] BY <1>6, <2>1
    <2> QED BY <1>5, <2>1, <2>2
  <1>9. l[Len(text) + 2] = CR /\ l[Len(text) + 3] = LF
    <2>1. Len(text) + 2 = Len(z) + 1 /\ Len(text) + 3 = Len(z) + 2 BY <1>4, <1>5
    <2>2. l[Len(z) + 1] = y[1] /\ l[Len(z) + 2] = y[2] BY <1>6
    <2> QED BY <1>2, <2>1, <2>2
  <1>10. Len(l) = Len(text) + 3 BY <1>4, <1>5, <1>6
  <1>11. Line(marker, text) = l BY <1>3 DEF l, z
  <1> QED BY <1>6, <1>7, <1>8, <1>9, <1>10, <1>11

\* The parts of an encoding: its line, what the line announces, and the elements.
MarkOf(v) ==
  IF v.type = "simple" THEN "+" ELSE IF v.type = "error" THEN "-" ELSE IF v.type = "integer" THEN ":"
  ELSE IF v.type = "array" THEN "*" ELSE "$"
LineText(v) ==
  IF v.type \in {"simple", "error"} THEN v.s
  ELSE IF v.type = "integer" THEN <<Numeral[v.n]>>
  ELSE IF v.type = "bulk" THEN <<Numeral[Len(v.s)]>>
  ELSE IF v.type = "array" THEN <<Numeral[Len(v.elems)]>>
  ELSE <<Numeral[-1]>>
Payload(v) == IF v.type = "bulk" THEN v.s \o <<CR, LF>> ELSE <<>>
Opened(v) == IF v.type = "array" THEN v.elems ELSE <<>>

LEMMA PartTypes ==
  ASSUME NEW v \in Values
  PROVE  /\ MarkOf(v) \in Tokens /\ LineText(v) \in Seq(Tokens) /\ Payload(v) \in Seq(Tokens)
         /\ Opened(v) \in Seq(Values)
  <1>1. MarkOf(v) \in Tokens BY TokensThere DEF MarkOf
  <1>2. LineText(v) \in Seq(Tokens)
    <2>1. CASE v.type \in {"simple", "error"} BY <2>1, Variants DEF LineText
    <2>2. CASE v.type = "integer" BY <2>2, Variants, NumeralText DEF LineText
    <2>3. CASE v.type = "bulk" BY <2>3, ValuesAssumption, NumeralText DEF LineText
    <2>4. CASE v.type = "array" BY <2>4, ValuesAssumption, NumeralText DEF LineText
    <2>5. CASE v.type = "null" BY <2>5, NumeralAssumption, NumeralText DEF LineText
    <2> QED BY <2>1, <2>2, <2>3, <2>4, <2>5, Variants
  <1>3. Payload(v) \in Seq(Tokens)
    <2>1. CASE v.type = "bulk"
      <3>1. v.s \in Seq(Tokens) BY <2>1, Variants
      <3>2. <<CR, LF>> \in Seq(Tokens) BY LineEnd
      <3> QED BY <2>1, <3>1, <3>2 DEF Payload
    <2>2. CASE v.type # "bulk" BY <2>2 DEF Payload
    <2> QED BY <2>1, <2>2
  <1>4. Opened(v) \in Seq(Values)
    <2>1. CASE v.type = "array" BY <2>1, Variants DEF Opened
    <2>2. CASE v.type # "array" BY <2>2 DEF Opened
    <2> QED BY <2>1, <2>2
  <1> QED BY <1>1, <1>2, <1>3, <1>4

\* A value that is no array: its line, and the data of a bulk string.
LEMMA EncodeParts ==
  ASSUME NEW v \in Values, v.type # "array"
  PROVE  Encode[v] = Line(MarkOf(v), LineText(v)) \o Payload(v)
  <1>1. Encode[v] = EncodePlain(v) BY EncodeDef DEF Code
  <1> DEFINE l == Line(MarkOf(v), LineText(v))
  <1>2. l \in Seq(Tokens) BY PartTypes, LineType
  <1>3. CASE v.type = "bulk"
    <2>1. EncodePlain(v) = BulkBytes(v.s) BY <1>3 DEF EncodePlain
    <2>2. BulkBytes(v.s) = (l \o v.s) \o <<CR, LF>> BY <1>3 DEF BulkBytes, MarkOf, LineText
    <2>3. v.s \in Seq(Tokens) BY <1>3, Variants
    <2> DEFINE y == <<CR, LF>>
               d == v.s
    <2>4. y \in Seq(Tokens) /\ d \in Seq(Tokens) BY <2>3, LineEnd
    <2> HIDE DEF l, y, d
    <2>5. (l \o d) \o y = l \o (d \o y) BY <1>2, <2>4, ConcatAssociative, SMTT(30)
    <2> QED BY <1>1, <1>3, <2>1, <2>2, <2>5 DEF Payload, l, y, d
  <1>4. CASE v.type # "bulk"
    <2>1. EncodePlain(v) = l
      <3>1. CASE v.type = "simple" BY <3>1 DEF EncodePlain, MarkOf, LineText
      <3>2. CASE v.type = "error" BY <3>2 DEF EncodePlain, MarkOf, LineText
      <3>3. CASE v.type = "integer" BY <3>3 DEF EncodePlain, MarkOf, LineText
      <3>4. CASE v.type = "null" BY <3>4 DEF EncodePlain, MarkOf, LineText
      <3> QED BY <1>4, <3>1, <3>2, <3>3, <3>4, Variants
    <2>2. Payload(v) = <<>> BY <1>4 DEF Payload
    <2> HIDE DEF l
    <2>3. l \o <<>> = l BY <1>2
    <2> QED BY <1>1, <2>1, <2>2, <2>3 DEF l
  <1> QED BY <1>3, <1>4

\* What is written of a value are tokens.
LEMMA EncodeType ==
  ASSUME NEW v \in Values
  PROVE  Encode[v] \in Seq(Tokens)
  <1> DEFINE T == {Depth[u] : u \in {w \in Values : Encode[w] \notin Seq(Tokens)}}
  <1> SUFFICES ASSUME Encode[v] \notin Seq(Tokens) PROVE FALSE OBVIOUS
  <1>1. Depth[v] \in T OBVIOUS
  <1>2. T \subseteq Nat BY ValuesAssumption
  <1>3. PICK x \in T : \A y \in T : x <= y BY <1>1, <1>2, LeastNatural
  <1>4. PICK u \in Values : Depth[u] = x /\ Encode[u] \notin Seq(Tokens) BY <1>3
  <1>5. CASE u.type # "array"
    <2> DEFINE l == Line(MarkOf(u), LineText(u))
               d == Payload(u)
    <2>1. l \in Seq(Tokens) /\ d \in Seq(Tokens) BY PartTypes, LineType
    <2>2. Encode[u] = l \o d BY <1>5, EncodeParts
    <2> HIDE DEF l, d
    <2> QED BY <1>4, <2>1, <2>2
  <1>6. CASE u.type = "array"
    <2>1. u.elems \in Seq(Values) BY <1>6, Variants
    <2>2. ASSUME NEW i \in DOMAIN u.elems PROVE Encode[u.elems[i]] \in Seq(Tokens)
      <3>1. /\ u.elems[i] \in Values /\ Depth[u] \in Nat /\ Depth[u.elems[i]] \in Nat
            /\ Depth[u.elems[i]] < Depth[u]
        BY <1>6, Deeper
      <3>2. ~ Depth[u] <= Depth[u.elems[i]] BY <3>1
      <3>3. ~ Depth[u.elems[i]] \in T BY <1>3, <1>4, <3>2
      <3> QED BY <3>1, <3>3
    <2> DEFINE es == [i \in DOMAIN u.elems |-> Encode[u.elems[i]]]
    <2>3. es \in Seq(Seq(Tokens)) BY <2>1, <2>2
    <2> HIDE DEF es
    <2>4. FlattenSeq(es) \in Seq(Tokens) BY <2>3, FlattenType
    <2>5. Encode[u] = Line("*", <<Numeral[Len(u.elems)]>>) \o FlattenSeq(es)
      BY <1>6, EncodeDef DEF Code, Elements, es
    <2>6. Line("*", <<Numeral[Len(u.elems)]>>) \in Seq(Tokens)
      <3>1. Len(u.elems) \in DOMAIN Numeral BY <1>6, ValuesAssumption
      <3>2. <<Numeral[Len(u.elems)]>> \in Seq(Tokens) BY <3>1, NumeralText
      <3> QED BY <3>2, TokensThere, LineType
    <2> DEFINE l == Line("*", <<Numeral[Len(u.elems)]>>)
               d == FlattenSeq(es)
    <2>7. l \in Seq(Tokens) /\ d \in Seq(Tokens) /\ Encode[u] = l \o d BY <2>4, <2>5, <2>6
    <2> HIDE DEF l, d
    <2> QED BY <1>4, <2>7
  <1> QED BY <1>5, <1>6

Codes(vs) == [i \in DOMAIN vs |-> Encode[vs[i]]]

LEMMA CodesType ==
  ASSUME NEW vs \in Seq(Values)
  PROVE  /\ Codes(vs) \in Seq(Seq(Tokens)) /\ Len(Codes(vs)) = Len(vs)
         /\ EncodeBatch(vs) = FlattenSeq(Codes(vs)) /\ EncodeBatch(vs) \in Seq(Tokens)
  <1>1. \A i \in 1 .. Len(vs) : Encode[vs[i]] \in Seq(Tokens) BY EncodeType
  <1>2. Codes(vs) \in Seq(Seq(Tokens)) /\ Len(Codes(vs)) = Len(vs) BY <1>1 DEF Codes
  <1>3. EncodeBatch(vs) = FlattenSeq(Codes(vs)) BY DEF EncodeBatch, Codes
  <1> QED BY <1>2, <1>3, FlattenType

\* Batches are written one after the other.
LEMMA BatchConcat ==
  ASSUME NEW vs \in Seq(Values), NEW us \in Seq(Values)
  PROVE  EncodeBatch(vs \o us) = EncodeBatch(vs) \o EncodeBatch(us)
  <1>1. Codes(vs \o us) = Codes(vs) \o Codes(us)
    <2> DEFINE w == vs \o us
               c == Codes(vs)
               d == Codes(us)
               x == c \o d
               m == Len(vs)
               n == Len(us)
    <2>1. /\ w \in Seq(Values) /\ Len(w) = m + n /\ m \in Nat /\ n \in Nat
          /\ \A i \in 1 .. m : w[i] = vs[i]
          /\ \A i \in 1 .. n : w[m + i] = us[i]
      BY Concat
    <2>2. /\ c \in Seq(Seq(Tokens)) /\ Len(c) = m /\ \A i \in 1 .. m : c[i] = Encode[vs[i]]
          /\ d \in Seq(Seq(Tokens)) /\ Len(d) = n /\ \A i \in 1 .. n : d[i] = Encode[us[i]]
      <3>1. (\A i \in 1 .. m : c[i] = Encode[vs[i]]) /\ (\A i \in 1 .. n : d[i] = Encode[us[i]])
        BY DEF Codes
      <3> QED BY <3>1, CodesType
    <2> HIDE DEF w
    <2>3. /\ Codes(w) \in Seq(Seq(Tokens)) /\ Len(Codes(w)) = m + n
          /\ \A i \in 1 .. m + n : Codes(w)[i] = Encode[w[i]]
      <3>1. \A i \in 1 .. m + n : Codes(w)[i] = Encode[w[i]] BY <2>1 DEF Codes
      <3> QED BY <2>1, <3>1, CodesType
    <2> HIDE DEF c, d
    <2>4. /\ x \in Seq(Seq(Tokens)) /\ Len(x) = m + n
          /\ \A i \in 1 .. m : x[i] = c[i]
          /\ \A i \in 1 .. n : x[m + i] = d[i]
      <3>1. c \in Seq(Seq(Tokens)) /\ d \in Seq(Seq(Tokens)) BY <2>2
      <3>2. /\ x \in Seq(Seq(Tokens)) /\ Len(x) = Len(c) + Len(d)
            /\ \A i \in 1 .. Len(c) : x[i] = c[i]
            /\ \A i \in 1 .. Len(d) : x[Len(c) + i] = d[i]
        BY <3>1, Concat
      <3> HIDE DEF x, m, n
      <3> QED BY <2>2, <3>2
    <2> HIDE DEF x, m, n
    <2>5. ASSUME NEW i \in 1 .. m + n PROVE Codes(w)[i] = x[i]
      <3>1. CASE i <= m
        <4>1. i \in 1 .. m BY <2>1, <3>1
        <4>2. Codes(w)[i] = Encode[w[i]] BY <2>3
        <4> QED BY <2>1, <2>2, <2>4, <4>1, <4>2
      <3>2. CASE ~ i <= m
        <4>1. i - m \in 1 .. n /\ m + (i - m) = i BY <2>1, <3>2
        <4>2. Codes(w)[i] = Encode[w[i]] BY <2>3
        <4>3. w[m + (i - m)] = us[i - m] BY <2>1, <4>1
        <4>4. x[m + (i - m)] = d[i - m] BY <2>4, <4>1
        <4>5. d[i - m] = Encode[us[i - m]] BY <2>2, <4>1
        <4> QED BY <4>1, <4>2, <4>3, <4>4, <4>5
      <3> QED BY <3>1, <3>2
    <2>6. Codes(w) = x BY <2>3, <2>4, <2>5, SeqEqual
    <2> QED BY <2>6 DEF w, x, c, d
  <1>2. vs \o us \in Seq(Values) OBVIOUS
  <1>3. FlattenSeq(Codes(vs) \o Codes(us)) = FlattenSeq(Codes(vs)) \o FlattenSeq(Codes(us))
    BY CodesType, FlattenConcat
  <1> QED BY <1>1, <1>2, <1>3, CodesType

LEMMA BatchEmpty == EncodeBatch(<<>>) = <<>>
  <1>1. [i \in DOMAIN <<>> |-> Encode[<<>>[i]]] = <<>> OBVIOUS
  <1> QED BY <1>1, FlattenEmpty DEF EncodeBatch

LEMMA BatchOne ==
  ASSUME NEW v \in Values
  PROVE  EncodeBatch(<<v>>) = Encode[v]
  <1>1. <<v>> \in Seq(Values) /\ Len(<<v>>) = 1 OBVIOUS
  <1>2. Codes(<<v>>) = Append(<<>>, Encode[v])
    <2>1. Codes(<<v>>) \in Seq(Seq(Tokens)) /\ Len(Codes(<<v>>)) = 1 BY <1>1, CodesType
    <2>2. Codes(<<v>>)[1] = Encode[v] BY <1>1 DEF Codes
    <2> QED BY <2>1, <2>2
  <1>3. <<>> \in Seq(Seq(Tokens)) OBVIOUS
  <1>4. FlattenSeq(Codes(<<v>>)) = FlattenSeq(<<>>) \o Encode[v]
    BY <1>2, <1>3, EncodeType, FlattenAppend
  <1>5. <<>> \o Encode[v] = Encode[v] BY EncodeType
  <1> QED BY <1>1, <1>4, <1>5, FlattenEmpty, CodesType

\* The encoding of a value: a line, what the line announces, the encodings of its elements.
LEMMA EncodeShape ==
  ASSUME NEW v \in Values
  PROVE  Encode[v] = Line(MarkOf(v), LineText(v)) \o (Payload(v) \o EncodeBatch(Opened(v)))
  <1>1. CASE v.type = "array"
    <2>1. Payload(v) = <<>> /\ Opened(v) = v.elems BY <1>1 DEF Payload, Opened
    <2>2. Encode[v] = Line("*", <<Numeral[Len(v.elems)]>>) \o EncodeBatch(v.elems)
      BY <1>1, EncodeDef DEF Code, Elements, EncodeBatch
    <2>3. MarkOf(v) = "*" /\ LineText(v) = <<Numeral[Len(v.elems)]>> BY <1>1 DEF MarkOf, LineText
    <2>4. v.elems \in Seq(Values) BY <1>1, Variants
    <2>5. EncodeBatch(v.elems) \in Seq(Tokens) BY <2>4, CodesType
    <2>6. <<>> \o EncodeBatch(v.elems) = EncodeBatch(v.elems) BY <2>5
    <2> QED BY <2>1, <2>2, <2>3, <2>6
  <1>2. CASE v.type # "array"
    <2>1. Opened(v) = <<>> BY <1>2 DEF Opened
    <2>2. Payload(v) \o <<>> = Payload(v) BY PartTypes
    <2> QED BY <1>2, <2>1, <2>2, BatchEmpty, EncodeParts
  <1> QED BY <1>1, <1>2

-----------------------------------------------------------------------------
(* What the grammar finds where a value was written.                       *)

Rest(w, i) == SubSeq(w, i, Len(w))

LEMMA RestType ==
  ASSUME NEW w \in Seq(Tokens), NEW i \in 1 .. Len(w) + 1
  PROVE  /\ Rest(w, i) \in Seq(Tokens) /\ Len(Rest(w, i)) = Len(w) - i + 1 /\ Len(w) \in Nat
         /\ \A j \in 1 .. Len(w) - i + 1 : Rest(w, i)[j] = w[i + j - 1]
  <1> DEFINE n == Len(w)
  <1>1. n \in Nat /\ \A k \in 1 .. n : w[k] \in Tokens OBVIOUS
  <1> HIDE DEF n
  <1>2. \A k \in i .. n : w[k] \in Tokens BY <1>1 DEF n
  <1>3. i \in Int /\ n \in Int /\ i <= n + 1 BY <1>1 DEF n
  <1>4. /\ SubSeq(w, i, n) \in Seq(Tokens)
        /\ Len(SubSeq(w, i, n)) = IF i <= n THEN n - i + 1 ELSE 0
        /\ \A j \in 1 .. n - i + 1 : SubSeq(w, i, n)[j] = w[i + j - 1]
    BY <1>2, <1>3, SubSeqProperties
  <1>5. (IF i <= n THEN n - i + 1 ELSE 0) = n - i + 1 BY <1>3
  <1> QED BY <1>1, <1>4, <1>5 DEF Rest, n

\* What the rest of a wire begins with is there.
LEMMA RestSplit ==
  ASSUME NEW w \in Seq(Tokens), NEW i \in 1 .. Len(w) + 1,
         NEW x \in Seq(Tokens), NEW y \in Seq(Tokens), Rest(w, i) = x \o y
  PROVE  /\ Len(x) \in Nat /\ i + Len(x) \in 1 .. Len(w) + 1
         /\ \A j \in 1 .. Len(x) : w[i + j - 1] = x[j]
  <1> DEFINE m == Len(x)
             n == Len(w)
             k == Len(y)
             r == Rest(w, i)
  <1>1. /\ m \in Nat /\ k \in Nat /\ Len(x \o y) = m + k
        /\ \A j \in 1 .. m : (x \o y)[j] = x[j]
        /\ \A j \in 1 .. k : (x \o y)[m + j] = y[j]
    BY Concat
  <1>2. Len(r) = n - i + 1 /\ n \in Nat /\ \A j \in 1 .. n - i + 1 : r[j] = w[i + j - 1]
    BY RestType
  <1>3. r = x \o y OBVIOUS
  <1> HIDE DEF r, m, n, k
  <1>4. n - i + 1 = m + k /\ i \in Int /\ i >= 1 BY <1>1, <1>2, <1>3 DEF n
  <1>5. i + m \in 1 .. n + 1 BY <1>1, <1>2, <1>4
  <1>6. ASSUME NEW j \in 1 .. m PROVE w[i + j - 1] = x[j]
    <2>1. j \in 1 .. n - i + 1 BY <1>1, <1>2, <1>4
    <2> QED BY <1>1, <1>2, <1>3, <2>1
  <1> QED BY <1>1, <1>5, <1>6 DEF m, n

\* The rest of the rest comes after it.
LEMMA RestAfter ==
  ASSUME NEW w \in Seq(Tokens), NEW i \in 1 .. Len(w) + 1,
         NEW x \in Seq(Tokens), NEW y \in Seq(Tokens), Rest(w, i) = x \o y
  PROVE  Rest(w, i + Len(x)) = y
  <1> DEFINE m == Len(x)
             n == Len(w)
             k == Len(y)
             r == Rest(w, i)
  <1>1. /\ m \in Nat /\ k \in Nat /\ Len(x \o y) = m + k
        /\ \A j \in 1 .. m : (x \o y)[j] = x[j]
        /\ \A j \in 1 .. k : (x \o y)[m + j] = y[j]
    BY Concat
  <1>2. Len(r) = n - i + 1 /\ n \in Nat /\ \A j \in 1 .. n - i + 1 : r[j] = w[i + j - 1]
    BY RestType
  <1>3. r = x \o y OBVIOUS
  <1> HIDE DEF r, m, n, k
  <1>4. n - i + 1 = m + k /\ i \in Int /\ i >= 1 BY <1>1, <1>2, <1>3 DEF n
  <1>5. i + m \in 1 .. n + 1 BY <1>1, <1>2, <1>4
  <1>7. Rest(w, i + m) = y
    <2> DEFINE q == Rest(w, i + m)
               h == i + m
    <2>0. h \in 1 .. n + 1 BY <1>5
    <2>1. /\ Rest(w, h) \in Seq(Tokens) /\ Len(Rest(w, h)) = n - h + 1
          /\ \A j \in 1 .. n - h + 1 : Rest(w, h)[j] = w[h + j - 1]
      <3> HIDE DEF h
      <3> QED BY <2>0, RestType DEF n
    <2>2. n - h + 1 = k BY <1>1, <1>2, <1>4
    <2>3. ASSUME NEW j \in 1 .. k PROVE Rest(w, h)[j] = y[j]
      <3>1. m + j \in 1 .. n - i + 1 /\ i + (m + j) - 1 = h + j - 1 BY <1>1, <1>2, <1>4
      <3>2. Rest(w, h)[j] = w[h + j - 1] BY <2>1, <2>2
      <3>3. r[m + j] = w[i + (m + j) - 1] BY <1>2, <3>1
      <3> QED BY <1>1, <1>3, <3>1, <3>2, <3>3
    <2>4. Rest(w, h) \in Seq(Tokens) /\ Len(Rest(w, h)) = k BY <2>1, <2>2
    <2> HIDE DEF h
    <2>5. Rest(w, h) = y BY <2>3, <2>4, SeqEqual DEF k
    <2> QED BY <2>5 DEF h
  <1> QED BY <1>7 DEF m

\* What is written of a value comes first.
LEMMA BatchFirst ==
  ASSUME NEW v \in Values, NEW us \in Seq(Values)
  PROVE  EncodeBatch(<<v>> \o us)
           = Line(MarkOf(v), LineText(v)) \o (Payload(v) \o EncodeBatch(Opened(v) \o us))
  <1> DEFINE l == Line(MarkOf(v), LineText(v))
             p == Payload(v)
             o == EncodeBatch(Opened(v))
             u == EncodeBatch(us)
  <1>1. <<v>> \in Seq(Values) OBVIOUS
  <1>2. EncodeBatch(<<v>> \o us) = EncodeBatch(<<v>>) \o u BY <1>1, BatchConcat
  <1>3. EncodeBatch(<<v>>) = l \o (p \o o) BY BatchOne, EncodeShape
  <1>4. l \in Seq(Tokens) BY PartTypes, LineType
  <1>5. p \in Seq(Tokens) /\ Opened(v) \in Seq(Values) BY PartTypes
  <1>6. o \in Seq(Tokens) /\ u \in Seq(Tokens) BY <1>5, CodesType
  <1>7. EncodeBatch(Opened(v) \o us) = o \o u BY <1>5, BatchConcat
  <1> HIDE DEF l, p, o, u
  <1>8. p \o o \in Seq(Tokens) BY <1>5, <1>6
  <1>9. (l \o (p \o o)) \o u = l \o ((p \o o) \o u) BY <1>4, <1>6, <1>8, ConcatAssociative, SMTT(30)
  <1>10. (p \o o) \o u = p \o (o \o u) BY <1>5, <1>6, ConcatAssociative, SMTT(30)
  <1> QED BY <1>2, <1>3, <1>7, <1>9, <1>10 DEF l, p

\* The text of a line does not end it.
LEMMA LineTextHasNoEnd ==
  ASSUME NEW v \in Values, NEW j \in 1 .. Len(LineText(v)) - 1
  PROVE  ~ (LineText(v)[j] = CR /\ LineText(v)[j + 1] = LF)
  <1>1. CASE v.type \in {"simple", "error"}
    <2>1. LineText(v) = v.s BY <1>1 DEF LineText
    <2> QED BY <1>1, <2>1, ValuesAssumption
  <1>2. CASE v.type \notin {"simple", "error"}
    <2>1. Len(LineText(v)) = 1
      <3>1. CASE v.type = "integer" BY <3>1 DEF LineText
      <3>2. CASE v.type = "bulk" BY <3>2 DEF LineText
      <3>3. CASE v.type = "array" BY <3>3 DEF LineText
      <3>4. CASE v.type = "null" BY <3>4 DEF LineText
      <3> QED BY <1>2, <3>1, <3>2, <3>3, <3>4, Variants
    <2> QED BY <2>1
  <1> QED BY <1>1, <1>2

\* The line a value begins with ends where its text does.
LineEndOf(v, i) == i + Len(LineText(v)) + 1

\* The line of the value that comes first, as find_line_end finds it.
LEMMA ValueLine ==
  ASSUME NEW w \in Seq(Tokens), NEW i \in 1 .. Len(w) + 1, NEW v \in Values, NEW us \in Seq(Values),
         Rest(w, i) = EncodeBatch(<<v>> \o us)
  PROVE  /\ w[i] = MarkOf(v) /\ IsLineEnd(w, i, Len(w), LineEndOf(v, i))
         /\ Text(w, i, LineEndOf(v, i)) = LineText(v)
         /\ LineEndOf(v, i) \in 1 .. Len(w) - 1
         /\ Rest(w, LineEndOf(v, i) + 2) = Payload(v) \o EncodeBatch(Opened(v) \o us)
  <1> DEFINE t == LineText(v)
             l == Line(MarkOf(v), t)
             m == Len(t)
             n == Len(w)
             e == LineEndOf(v, i)
             y == Payload(v) \o EncodeBatch(Opened(v) \o us)
  <1>1. Rest(w, i) = l \o y BY BatchFirst
  <1>2. t \in Seq(Tokens) /\ MarkOf(v) \in Tokens BY PartTypes
  <1>3. y \in Seq(Tokens)
    <2>1. Payload(v) \in Seq(Tokens) /\ Opened(v) \o us \in Seq(Values) BY PartTypes
    <2>2. EncodeBatch(Opened(v) \o us) \in Seq(Tokens) BY <2>1, CodesType
    <2> HIDE DEF t, l
    <2> QED BY <2>1, <2>2
  <1>4. m \in Nat /\ n \in Nat /\ e = i + m + 1 BY <1>2 DEF LineEndOf
  <1>5. /\ l \in Seq(Tokens) /\ Len(l) = m + 3 /\ l[1] = MarkOf(v)
        /\ \A j \in 1 .. m : l[j + 1] = t[j]
        /\ l[m + 2] = CR /\ l[m + 3] = LF
    BY <1>2, LineType
  <1>6. \A j \in 1 .. m - 1 : ~ (t[j] = CR /\ t[j + 1] = LF) BY LineTextHasNoEnd
  <1> HIDE DEF t, l, y, m, e
  <1>7. /\ i + Len(l) \in 1 .. n + 1 /\ Rest(w, i + Len(l)) = y
        /\ \A j \in 1 .. Len(l) : w[i + j - 1] = l[j]
    BY <1>1, <1>3, <1>5, RestSplit, RestAfter
  <1> HIDE DEF n
  <1>8. i \in Int /\ i >= 1 BY DEF n
  <1>9. /\ e \in 1 .. n - 1 /\ e + 2 = i + Len(l) /\ e >= i + 1 /\ e \in Int
    BY <1>4, <1>5, <1>7, <1>8
  <1>10. w[i] = MarkOf(v)
    <2>1. 1 \in 1 .. Len(l) /\ i + 1 - 1 = i BY <1>4, <1>5, <1>8
    <2>2. w[i + 1 - 1] = l[1] BY <1>7, <2>1
    <2> QED BY <1>5, <2>1, <2>2
  <1>11. ASSUME NEW j \in 1 .. m PROVE w[i + j] = t[j]
    <2>1. j + 1 \in 1 .. Len(l) /\ i + (j + 1) - 1 = i + j BY <1>4, <1>5, <1>8
    <2>2. w[i + (j + 1) - 1] = l[j + 1] BY <1>7, <2>1
    <2> QED BY <1>5, <2>1, <2>2
  <1>12. w[e] = CR /\ w[e + 1] = LF
    <2>1. /\ m + 2 \in 1 .. Len(l) /\ i + (m + 2) - 1 = e
          /\ m + 3 \in 1 .. Len(l) /\ i + (m + 3) - 1 = e + 1
      BY <1>4, <1>5, <1>8
    <2>2. w[i + (m + 2) - 1] = l[m + 2] /\ w[i + (m + 3) - 1] = l[m + 3] BY <1>7, <2>1
    <2> QED BY <1>5, <2>1, <2>2
  <1>13. ASSUME NEW j \in i + 1 .. e - 1, w[j] = CR, w[j + 1] = LF PROVE FALSE
    <2>1. j - i \in 1 .. m /\ i + (j - i) = j BY <1>4, <1>8
    <2>2. t[j - i] = CR BY <1>11, <1>13, <2>1
    <2>3. CASE j - i = m
      <3>1. j + 1 = e BY <1>4, <1>8, <2>3
      <3> QED BY <1>12, <1>13, <3>1
    <2>4. CASE j - i # m
      <3>1. (j - i) + 1 \in 1 .. m /\ j - i \in 1 .. m - 1 /\ i + ((j - i) + 1) = j + 1
        BY <1>4, <1>8, <2>1, <2>4
      <3>2. t[(j - i) + 1] = LF BY <1>11, <1>13, <3>1
      <3> QED BY <1>6, <2>2, <3>1, <3>2
    <2> QED BY <2>3, <2>4
  <1>14. IsLineEnd(w, i, n, e) BY <1>4, <1>8, <1>9, <1>12, <1>13 DEF IsLineEnd
  <1>15. Text(w, i, e) = t
    <2>1. \A k \in i + 1 .. e - 1 : w[k] \in Tokens
      <3>1. \A k \in 1 .. n : w[k] \in Tokens BY DEF n
      <3>2. ASSUME NEW k \in i + 1 .. e - 1 PROVE k \in 1 .. n BY <1>4, <1>8, <1>9
      <3> QED BY <3>1, <3>2
    <2>2. i + 1 \in Int /\ e - 1 \in Int BY <1>8, <1>9
    <2> DEFINE s == SubSeq(w, i + 1, e - 1)
    <2>3. /\ s \in Seq(Tokens)
          /\ Len(s) = IF i + 1 <= e - 1 THEN (e - 1) - (i + 1) + 1 ELSE 0
          /\ \A j \in 1 .. (e - 1) - (i + 1) + 1 : s[j] = w[(i + 1) + j - 1]
      BY <2>1, <2>2, SubSeqProperties
    <2>4. (e - 1) - (i + 1) + 1 = m /\ (IF i + 1 <= e - 1 THEN (e - 1) - (i + 1) + 1 ELSE 0) = m
      BY <1>4, <1>8
    <2>5. ASSUME NEW j \in 1 .. m PROVE s[j] = t[j]
      <3>1. (i + 1) + j - 1 = i + j BY <1>4, <1>8
      <3> QED BY <1>11, <2>3, <2>4, <3>1
    <2>6. Len(s) = m /\ s \in Seq(Tokens) BY <2>3, <2>4
    <2> HIDE DEF s
    <2>7. s = t BY <1>2, <2>5, <2>6, SeqEqual DEF m, t
    <2> QED BY <2>7 DEF Text, s
  <1> QED BY <1>7, <1>9, <1>10, <1>14, <1>15 DEF t, n, e, y

-----------------------------------------------------------------------------
(* The grammar.                                                            *)

LEMMA WireSeq ==
  ASSUME NEW w \in Wires
  PROVE  /\ w \in Seq(Tokens) /\ Len(w) \in Nat
         /\ 1 \in ItemStarts[w] /\ ItemStarts[w] \subseteq Ends(w)
  BY StartsAssumption

\* A line end found in a part of the wire is that of the whole wire.
LEMMA LineEndOfPart ==
  ASSUME NEW w \in Wires, NEW i \in Nat, NEW last \in 0 .. Len(w), NEW e \in Int
  PROVE  /\ IsLineEnd(w, i, last, e) => IsLineEnd(w, i, Len(w), e)
         /\ IsLineEnd(w, i, Len(w), e) /\ e < last => IsLineEnd(w, i, last, e)
  BY WireSeq DEF IsLineEnd

\* There is at most one.
LEMMA LineEndUnique ==
  ASSUME NEW w \in Wires, NEW i \in Nat, NEW e, NEW f,
         IsLineEnd(w, i, Len(w), e), IsLineEnd(w, i, Len(w), f)
  PROVE  e = f
  <1>1. Len(w) \in Nat BY WireSeq
  <1>2. e \in Int /\ f \in Int BY <1>1 DEF IsLineEnd
  <1>3. ~ e < f BY <1>1, <1>2 DEF IsLineEnd
  <1>4. ~ f < e BY <1>1, <1>2 DEF IsLineEnd
  <1> QED BY <1>2, <1>3, <1>4

\* A text is that of one number.
LEMMA NumberUnique ==
  ASSUME NEW text, NEW m, NEW n, IsNumber(text, m), IsNumber(text, n)
  PROVE  m = n /\ m \in Int
  BY NumeralAssumption DEF IsNumber

\* Items end where items begin.
LEMMA NextIsStart ==
  ASSUME NEW w \in Wires, NEW i \in ItemStarts[w], NEW e \in Int, NEW next \in Int,
         IsItem(w, i, e, next), next <= Len(w) + 1
  PROVE  next \in ItemStarts[w]
  <1>1. i \in Ends(w) /\ Len(w) \in Nat BY WireSeq
  <1>2. e \in 1 .. Len(w) BY <1>1 DEF IsItem, IsLineEnd, Ends
  <1>3. next \in Ends(w)
    <2>1. next = e + 2 \/ \E n \in DOMAIN Numeral : n >= 0 /\ next = e + n + 4 BY DEF IsItem
    <2>2. \A n \in DOMAIN Numeral : n \in Int BY NumeralAssumption
    <2> QED BY <1>1, <1>2, <2>1, <2>2 DEF Ends
  <1> QED BY <1>2, <1>3, StartsAssumption

\* An item that begins at i is one item.
LEMMA ItemUnique ==
  ASSUME NEW w \in Wires, NEW i \in Nat, NEW e, NEW next, NEW f, NEW other,
         IsItem(w, i, e, next), IsItem(w, i, f, other)
  PROVE  e = f /\ next = other
  <1>1. e = f BY LineEndUnique DEF IsItem
  <1>2. \A m, n \in DOMAIN Numeral :
          m \in Int /\ (IsNumber(Text(w, i, e), m) /\ IsNumber(Text(w, i, e), n) => m = n)
    BY NumberUnique, NumeralAssumption
  <1>3. IsNumber(Text(w, i, e), -1) => -1 \in DOMAIN Numeral BY DEF IsNumber
  <1>4. CASE w[i] # "$"
    <2>1. next = e + 2 BY <1>4 DEF IsItem
    <2>2. other = f + 2 BY <1>4 DEF IsItem
    <2> QED BY <1>1, <2>1, <2>2
  <1>5. CASE w[i] = "$"
    <2>1. \/ next = e + 2 /\ IsNumber(Text(w, i, e), -1)
          \/ \E n \in DOMAIN Numeral : n >= 0 /\ IsNumber(Text(w, i, e), n) /\ next = e + n + 4
      BY <1>5 DEF IsItem
    <2>2. \/ other = e + 2 /\ IsNumber(Text(w, i, e), -1)
          \/ \E n \in DOMAIN Numeral : n >= 0 /\ IsNumber(Text(w, i, e), n) /\ other = e + n + 4
      BY <1>1, <1>5 DEF IsItem
    <2>3. CASE IsNumber(Text(w, i, e), -1)
      <3>1. ~ \E n \in DOMAIN Numeral : n >= 0 /\ IsNumber(Text(w, i, e), n)
        BY <1>2, <1>3, <2>3
      <3> QED BY <1>1, <2>1, <2>2, <3>1
    <2>4. CASE ~ IsNumber(Text(w, i, e), -1)
      <3>1. PICK m \in DOMAIN Numeral : IsNumber(Text(w, i, e), m) /\ next = e + m + 4 BY <2>1, <2>4
      <3>2. PICK n \in DOMAIN Numeral : IsNumber(Text(w, i, e), n) /\ other = e + n + 4 BY <2>2, <2>4
      <3>3. m = n BY <1>2, <3>1, <3>2
      <3> QED BY <1>1, <3>1, <3>2, <3>3
    <2> QED BY <2>3, <2>4
  <1> QED BY <1>4, <1>5

\* The data of a bulk string and the line end after it.
LEMMA DataLen ==
  ASSUME NEW d \in Seq(Tokens)
  PROVE  Len(d \o <<CR, LF>>) = Len(d) + 2
  <1> DEFINE c == <<CR, LF>>
  <1>1. c \in Seq(Tokens) /\ Len(c) = 2 BY LineEnd
  <1>2. c \in Seq(Tokens) BY <1>1
  <1> HIDE DEF c
  <1>3. Len(d \o c) = Len(d) + Len(c) BY <1>2, Concat
  <1> QED BY <1>1, <1>3 DEF c

\* The rest comes after the data, and the data is found in its place.
LEMMA DataAfter ==
  ASSUME NEW w \in Seq(Tokens), NEW h \in 1 .. Len(w) + 1, NEW d \in Seq(Tokens),
         NEW y \in Seq(Tokens), NEW p \in Seq(Tokens), p = d \o <<CR, LF>>, Rest(w, h) = p \o y
  PROVE  Rest(w, h + (Len(d) + 2)) = y
  <1>3. Len(p) = Len(d) + 2 BY DataLen
  <1>4. Rest(w, h + Len(p)) = y BY RestAfter
  <1> QED BY <1>3, <1>4

LEMMA DataThere ==
  ASSUME NEW w \in Seq(Tokens), NEW h \in 1 .. Len(w) + 1, NEW d \in Seq(Tokens),
         NEW y \in Seq(Tokens), NEW p \in Seq(Tokens), p = d \o <<CR, LF>>, Rest(w, h) = p \o y
  PROVE  SubSeq(w, h, h + Len(d) - 1) = d
  <1> DEFINE c == <<CR, LF>>
             k == Len(d)
             n == Len(w)
  <1>1. c \in Seq(Tokens) /\ Len(c) = 2 BY LineEnd
  <1>2. k \in Nat /\ n \in Nat /\ h \in Int /\ h >= 1 OBVIOUS
  <1> HIDE DEF c
  <1>3. Len(p) = Len(d) + Len(c) /\ \A j \in 1 .. Len(d) : p[j] = d[j]
    <2>1. p = d \o c BY DEF c
    <2>2. Len(d \o c) = Len(d) + Len(c) /\ \A j \in 1 .. Len(d) : (d \o c)[j] = d[j]
      BY <1>1, Concat, ZenonT(20)
    <2> QED BY <2>1, <2>2
  <1>4. /\ h + Len(p) \in 1 .. Len(w) + 1
        /\ \A j \in 1 .. Len(p) : w[h + j - 1] = p[j]
    BY RestSplit, ZenonT(20)
  <1>7. Len(p) = k + 2 BY <1>1, <1>3
  <1> DEFINE f == h + k - 1
             s == SubSeq(w, h, f)
  <1> HIDE DEF k, n
  <1>8. f \in Int /\ f + 3 \in 1 .. n + 1 /\ f - h + 1 = k
    <2>1. h + (k + 2) \in 1 .. n + 1 BY <1>4, <1>7 DEF n
    <2> QED BY <1>2, <2>1
  <1>9. \A j \in h .. f : w[j] \in Tokens
    <2>1. \A j \in 1 .. n : w[j] \in Tokens BY DEF n
    <2>2. ASSUME NEW j \in h .. f PROVE j \in 1 .. n BY <1>2, <1>8
    <2> QED BY <2>1, <2>2
  <1> HIDE DEF f
  <1>10. /\ s \in Seq(Tokens)
         /\ Len(s) = IF h <= f THEN f - h + 1 ELSE 0
         /\ \A j \in 1 .. f - h + 1 : s[j] = w[h + j - 1]
    BY <1>2, <1>8, <1>9, SubSeqProperties
  <1> HIDE DEF s
  <1>11. Len(s) = k BY <1>2, <1>8, <1>10
  <1>12. ASSUME NEW j \in 1 .. k PROVE s[j] = d[j]
    <2>1. j \in 1 .. Len(p) BY <1>2, <1>7
    <2>2. w[h + j - 1] = p[j] BY <1>4, <2>1
    <2>3. s[j] = w[h + j - 1] BY <1>8, <1>10
    <2>4. p[j] = d[j] BY <1>3 DEF k
    <2> QED BY <2>2, <2>3, <2>4
  <1>13. s = d BY <1>10, <1>11, <1>12, SeqEqual DEF k
  <1> QED BY <1>13 DEF s, f, k

\* Where the item of a value that was written ends.
NextOf(v, i) == LineEndOf(v, i) + (IF v.type = "bulk" THEN Len(v.s) + 4 ELSE 2)

\* A value that was written is an item, and after it come its elements.
LEMMA ValueItem ==
  ASSUME NEW w \in Seq(Tokens), NEW i \in 1 .. Len(w) + 1, NEW v \in Values, NEW us \in Seq(Values),
         Rest(w, i) = EncodeBatch(<<v>> \o us)
  PROVE  /\ IsItem(w, i, LineEndOf(v, i), NextOf(v, i))
         /\ NextOf(v, i) \in i + 1 .. Len(w) + 1
         /\ Rest(w, NextOf(v, i)) = EncodeBatch(Opened(v) \o us)
         /\ v.type = "bulk" => SubSeq(w, LineEndOf(v, i) + 2, LineEndOf(v, i) + 1 + Len(v.s)) = v.s
  <1> DEFINE e == LineEndOf(v, i)
             n == Len(w)
             y == EncodeBatch(Opened(v) \o us)
  <1>1. /\ w[i] = MarkOf(v) /\ IsLineEnd(w, i, n, e) /\ Text(w, i, e) = LineText(v)
        /\ e \in 1 .. n - 1 /\ Rest(w, e + 2) = Payload(v) \o y
    BY ValueLine
  <1>2. n \in Nat /\ i \in Int /\ e \in i + 1 .. n - 1 BY <1>1 DEF IsLineEnd
  <1>3. Payload(v) \in Seq(Tokens) /\ y \in Seq(Tokens)
    <2>1. Opened(v) \o us \in Seq(Values) BY PartTypes
    <2> QED BY <2>1, PartTypes, CodesType
  <1> HIDE DEF e, y
  <1>4. CASE v.type = "bulk"
    <2> DEFINE d == v.s
               k == Len(d)
               p == Payload(v)
    <2>1. d \in Seq(Tokens) /\ k \in Nat /\ p = d \o <<CR, LF>> /\ k \in DOMAIN Numeral
      BY <1>4, Variants, ValuesAssumption DEF Payload
    <2>2. MarkOf(v) = "$" /\ LineText(v) = <<Numeral[k]>> BY <1>4 DEF MarkOf, LineText
    <2>3. NextOf(v, i) = e + k + 4
      <3>1. NextOf(v, i) = e + (k + 4) BY <1>4 DEF NextOf, e
      <3> QED BY <1>2, <2>1, <3>1
    <2> HIDE DEF d, k, p
    <2>4. /\ (e + 2) + (k + 2) \in 1 .. n + 1 /\ Rest(w, (e + 2) + (k + 2)) = y
          /\ SubSeq(w, e + 2, (e + 2) + k - 1) = d
      <3> DEFINE h == e + 2
      <3>1. h \in 1 .. Len(w) + 1 /\ Rest(w, h) = p \o y /\ p = d \o <<CR, LF>> BY <1>1, <1>2, <2>1 DEF p
      <3>2. y \in Seq(Tokens) /\ d \in Seq(Tokens) BY <1>3, <2>1
      <3> HIDE DEF h
      <3>3. /\ h + (Len(d) + 2) \in 1 .. Len(w) + 1 /\ Rest(w, h + (Len(d) + 2)) = y
            /\ SubSeq(w, h, h + Len(d) - 1) = d
        <4>0. p \in Seq(Tokens) BY <1>3 DEF p
        <4>1. SubSeq(w, h, h + Len(d) - 1) = d BY <3>1, <3>2, <4>0, DataThere
        <4>2. h + (Len(d) + 2) \in 1 .. Len(w) + 1
          <5>1. Len(p) = Len(d) + 2 BY <3>1, <3>2, DataLen
          <5>2. h + Len(p) \in 1 .. Len(w) + 1 BY <3>1, <3>2, <4>0, RestSplit
          <5> QED BY <5>1, <5>2
        <4>3. Rest(w, h + (Len(d) + 2)) = y BY <3>1, <3>2, <4>0, DataAfter
        <4> QED BY <4>1, <4>2, <4>3
      <3> QED BY <3>3 DEF h, k
    <2>5. (e + 2) + (k + 2) = e + k + 4 /\ (e + 2) + k - 1 = e + 1 + k BY <1>2, <2>1
    <2>6. e + k + 4 \in 1 .. n + 1 /\ Rest(w, e + k + 4) = y /\ SubSeq(w, e + 2, e + 1 + k) = d
      BY <2>4, <2>5
    <2>7. e + k + 4 \in i + 1 .. n + 1 BY <1>2, <2>1, <2>6
    <2>8. IsItem(w, i, e, e + k + 4)
      <3>1. IsNumber(Text(w, i, e), k) BY <1>1, <2>1, <2>2 DEF IsNumber
      <3>2. k >= 0 /\ e + k + 4 <= n + 1 BY <1>2, <2>1, <2>7
      <3> QED BY <1>1, <2>1, <2>2, <3>1, <3>2 DEF IsItem
    <2> QED BY <2>3, <2>6, <2>7, <2>8 DEF e, y, d, k
  <1>5. CASE v.type # "bulk"
    <2>1. NextOf(v, i) = e + 2 BY <1>5 DEF NextOf, e
    <2>2. Payload(v) = <<>> BY <1>5 DEF Payload
    <2>3. <<>> \o y = y BY <1>3
    <2>4. Rest(w, e + 2) = y BY <1>1, <2>2, <2>3
    <2>5. e + 2 \in i + 1 .. n + 1 BY <1>2
    <2>6. IsItem(w, i, e, e + 2)
      <3>1. CASE v.type \in {"simple", "error"}
        <4>1. w[i] \in {"+", "-"} BY <1>1, <3>1 DEF MarkOf
        <4> QED BY <1>1, <4>1 DEF IsItem
      <3>2. CASE v.type = "integer"
        <4>1. w[i] = ":" /\ Text(w, i, e) = <<Numeral[v.n]>> /\ v.n \in DOMAIN Numeral
          BY <1>1, <3>2, Variants DEF MarkOf, LineText
        <4>2. \E k \in DOMAIN Numeral : IsNumber(Text(w, i, e), k) BY <4>1 DEF IsNumber
        <4> QED BY <1>1, <4>1, <4>2 DEF IsItem
      <3>3. CASE v.type = "null"
        <4>1. w[i] = "$" /\ Text(w, i, e) = <<Numeral[-1]>> /\ -1 \in DOMAIN Numeral
          BY <1>1, <3>3, NumeralAssumption DEF MarkOf, LineText
        <4>2. IsNumber(Text(w, i, e), -1) BY <4>1 DEF IsNumber
        <4> QED BY <1>1, <4>1, <4>2 DEF IsItem
      <3>4. CASE v.type = "array"
        <4>1. w[i] = "*" /\ Text(w, i, e) = <<Numeral[Len(v.elems)]>>
          BY <1>1, <3>4 DEF MarkOf, LineText
        <4>2. Len(v.elems) \in DOMAIN Numeral /\ v.elems \in Seq(Values)
          BY <3>4, ValuesAssumption, Variants
        <4>3. Len(v.elems) >= 0 BY <4>2
        <4>4. IsNumber(Text(w, i, e), Len(v.elems)) BY <4>1, <4>2 DEF IsNumber
        <4> QED BY <1>1, <4>1, <4>2, <4>3, <4>4 DEF IsItem
      <3> QED BY <1>5, <3>1, <3>2, <3>3, <3>4, Variants
    <2> QED BY <1>5, <2>1, <2>4, <2>5, <2>6 DEF e, y
  <1> QED BY <1>4, <1>5

\* A value comes first where anything is left.
LEMMA SomethingFirst ==
  ASSUME NEW w \in Seq(Tokens), NEW i \in 1 .. Len(w), NEW vs \in Seq(Values),
         Rest(w, i) = EncodeBatch(vs)
  PROVE  vs # <<>> /\ vs[1] \in Values /\ Tail(vs) \in Seq(Values) /\ vs = <<vs[1]>> \o Tail(vs)
  <1>1. i \in 1 .. Len(w) + 1 OBVIOUS
  <1>2. Len(Rest(w, i)) # 0 
    <2>1. Len(Rest(w, i)) = Len(w) - i + 1 /\ Len(w) \in Nat BY <1>1, RestType
    <2> QED BY <2>1
  <1>3. Len(<<>>) = 0 OBVIOUS
  <1>4. vs # <<>> BY <1>2, <1>3, BatchEmpty
  <1>5. vs[1] \in Values /\ Tail(vs) \in Seq(Values) BY <1>4
  <1>6. vs = <<vs[1]>> \o Tail(vs) BY <1>4
  <1> QED BY <1>4, <1>5, <1>6

\* Wherever an item of what the encoder wrote begins, the rest is what it wrote of some values.
LEMMA StartsAreValues ==
  ASSUME NEW b \in Batches, NEW i \in ItemStarts[EncodeBatch(b)]
  PROVE  /\ i \in 1 .. Len(EncodeBatch(b)) + 1
         /\ \E vs \in Seq(Values) : Rest(EncodeBatch(b), i) = EncodeBatch(vs)
  <1> DEFINE w == EncodeBatch(b)
             Good(j) == \E vs \in Seq(Values) : Rest(w, j) = EncodeBatch(vs)
             T == {j \in ItemStarts[w] : ~ Good(j)}
  <1>1. b \in Seq(Values) /\ w \in Wires BY ValuesAssumption DEF Wires
  <1>2. w \in Seq(Tokens) /\ ItemStarts[w] \subseteq 1 .. Len(w) + 1 BY <1>1, WireSeq DEF Ends
  <1>3. Good(1)
    <2>1. Rest(w, 1) = w BY <1>2, SubSeqFull DEF Rest
    <2> QED BY <1>1, <2>1
  <1> SUFFICES ASSUME T # {} PROVE FALSE BY <1>2
  <1>4. PICK x \in T : \A y \in T : x <= y
    <2>1. T \subseteq Nat BY <1>2
    <2> HIDE DEF T
    <2> QED BY <2>1, LeastNatural
  <1>5. x # 1 /\ x \in ItemStarts[w] BY <1>3, <1>4
  <1> HIDE DEF w
  <1>6. PICK j \in ItemStarts[w], e \in 1 .. Len(w) : j < x /\ IsItem(w, j, e, x)
    BY <1>1, <1>5, StartsAssumption
  <1>7. j \in 1 .. Len(w) + 1 /\ x \in 1 .. Len(w) + 1 /\ Len(w) \in Nat BY <1>2, <1>5
  <1>8. Good(j)
    <2>1. ~ x <= j BY <1>6, <1>7
    <2>2. j \notin T BY <1>4, <2>1
    <2> QED BY <1>6, <2>2
  <1>9. PICK vs \in Seq(Values) : Rest(w, j) = EncodeBatch(vs) BY <1>8
  <1>10. j \in 1 .. Len(w) BY <1>6, <1>7 DEF IsItem, IsLineEnd
  <1> DEFINE v == vs[1]
             us == Tail(vs)
  <1>11. v \in Values /\ us \in Seq(Values) /\ Rest(w, j) = EncodeBatch(<<v>> \o us)
    BY <1>2, <1>9, <1>10, SomethingFirst
  <1> HIDE DEF v, us
  <1>12. /\ IsItem(w, j, LineEndOf(v, j), NextOf(v, j))
         /\ Rest(w, NextOf(v, j)) = EncodeBatch(Opened(v) \o us)
    BY <1>2, <1>7, <1>11, ValueItem
  <1>13. NextOf(v, j) = x
    <2>1. j \in Nat BY <1>10
    <2> QED BY <1>1, <1>6, <1>12, <2>1, ItemUnique
  <1>14. Opened(v) \o us \in Seq(Values) BY <1>11, PartTypes
  <1>15. Good(x) BY <1>12, <1>13, <1>14
  <1> QED BY <1>4, <1>15

\* What the encoder writes is a sequence of items, whatever the values are.
THEOREM EncoderWritesItems == \A b \in Batches : WellFormed(EncodeBatch(b))
  <1> SUFFICES ASSUME NEW b \in Batches, NEW i \in ItemStarts[EncodeBatch(b)], i <= Len(EncodeBatch(b))
               PROVE  WellFormedAt(EncodeBatch(b), i)
    BY DEF WellFormed
  <1> DEFINE w == EncodeBatch(b)
  <1>1. w \in Wires /\ w \in Seq(Tokens) /\ Len(w) \in Nat
    <2>1. w \in Wires BY DEF Wires
    <2> QED BY <2>1, WireSeq
  <1>2. i \in 1 .. Len(w) + 1 BY StartsAreValues
  <1>3. PICK vs \in Seq(Values) : Rest(w, i) = EncodeBatch(vs) BY StartsAreValues
  <1> HIDE DEF w
  <1>4. i \in 1 .. Len(w) BY <1>1, <1>2 DEF w
  <1> DEFINE v == vs[1]
             us == Tail(vs)
  <1>5. v \in Values /\ us \in Seq(Values) /\ Rest(w, i) = EncodeBatch(<<v>> \o us)
    BY <1>1, <1>3, <1>4, SomethingFirst
  <1> HIDE DEF v, us
  <1> DEFINE e == LineEndOf(v, i)
             next == NextOf(v, i)
  <1>6. IsItem(w, i, e, next) /\ next \in i + 1 .. Len(w) + 1
    BY <1>1, <1>2, <1>5, ValueItem
  <1> HIDE DEF e, next
  <1>7. e \in 1 .. Len(w) BY <1>1, <1>4, <1>6 DEF IsItem, IsLineEnd
  <1>8. next \in Ends(w) BY <1>1, <1>4, <1>6 DEF Ends
  <1>9. WellFormedAt(w, i) BY <1>6, <1>7, <1>8 DEF WellFormedAt
  <1> QED BY <1>9 DEF w

-----------------------------------------------------------------------------
(* Commands.                                                               *)

\* All the arguments of a command are found.
LEMMA BulksOfCommand ==
  ASSUME NEW elems \in Seq(Values), elems # <<>>, \A i \in DOMAIN elems : elems[i].type = "bulk"
  PROVE  BulksFrom(elems, 2) = [j \in 1 .. Len(elems) - 1 |-> elems[j + 1].s]
  <1> DEFINE n == Len(elems)
             Args(i) == [j \in 1 .. i - 1 |-> elems[j + 1].s]
             F == CHOOSE f : f = [i \in 2 - 1 .. n |->
                    IF i < 2 THEN <<>>
                    ELSE IF elems[i].type = "bulk" THEN Append(f[i - 1], elems[i].s) ELSE f[i - 1]]
             g == [i \in 2 - 1 .. n |-> Args(i)]
  <1>1. n \in Nat /\ n # 0 /\ 2 - 1 = 1 OBVIOUS
  <1>2. \A i \in 1 .. n : elems[i].type = "bulk" OBVIOUS
  <1>3. BulksFrom(elems, 2) = F[n] BY DEF BulksFrom
  <1>4. \A i \in 1 .. n : g[i] = Args(i) BY <1>1
  <1>5. Args(1) = <<>> OBVIOUS
  <1>6. ASSUME NEW i \in 2 .. n PROVE Append(Args(i - 1), elems[i].s) = Args(i)
    <2>0. i \in Int /\ i - 2 \in Nat /\ (i - 1) - 1 = i - 2 /\ (i - 2) + 1 = i - 1 BY <1>1
    <2> DEFINE a == [j \in 1 .. i - 2 |-> elems[j + 1].s]
    <2>1. Args(i - 1) = a BY <2>0
    <2>2. Append(a, elems[i].s) = [j \in 1 .. i - 1 |-> elems[j + 1].s]
      <3> DEFINE S == {elems[j + 1].s : j \in 1 .. i - 1}
                 c == [j \in 1 .. i - 1 |-> elems[j + 1].s]
                 e == elems[i].s
      <3>0. i - 1 \in Nat /\ i - 2 \in Nat BY <2>0
      <3>1. \A j \in 1 .. i - 1 : c[j] \in S /\ c[j] = elems[j + 1].s OBVIOUS
      <3>2. \A j \in 1 .. i - 2 : a[j] \in S /\ a[j] = elems[j + 1].s
        <4>1. \A j \in 1 .. i - 2 : j \in 1 .. i - 1 BY <3>0
        <4> QED BY <4>1
      <3>3. e \in S
        <4>1. i - 1 \in 1 .. i - 1 /\ (i - 1) + 1 = i BY <2>0
        <4> QED BY <4>1
      <3>4. a = [j \in 1 .. i - 2 |-> a[j]] /\ c = [j \in 1 .. i - 1 |-> c[j]] OBVIOUS
      <3> HIDE DEF a, c, S
      <3>5. a \in [1 .. i - 2 -> S] BY <3>2, <3>4
      <3>6. c \in [1 .. i - 1 -> S] BY <3>1, <3>4
      <3>7. a \in Seq(S) /\ Len(a) = i - 2 BY <3>0, <3>5
      <3>8. c \in Seq(S) /\ Len(c) = i - 1 BY <3>0, <3>6
      <3>9. a \in Seq(S) BY <3>7
      <3> DEFINE b == Append(a, e)
      <3> HIDE DEF e
      <3>10. /\ b \in Seq(S) /\ Len(b) = Len(a) + 1
             /\ \A j \in 1 .. Len(a) : b[j] = a[j]
             /\ b[Len(a) + 1] = e
        BY <3>3, <3>9, AppendProperties
      <3> HIDE DEF b
      <3>11. ASSUME NEW j \in 1 .. i - 1 PROVE b[j] = c[j]
        <4>1. CASE j = i - 1
          <5>1. c[j] = elems[i].s
            <6>1. j + 1 = i BY <2>0, <4>1
            <6> QED BY <3>1, <6>1
          <5>2. j = Len(a) + 1 BY <2>0, <3>7, <4>1
          <5>3. b[j] = e BY <3>10, <5>2
          <5> QED BY <5>1, <5>3 DEF e
        <4>2. CASE j # i - 1
          <5>1. j \in 1 .. i - 2 /\ j \in 1 .. Len(a) BY <2>0, <3>7, <4>2
          <5> QED BY <3>1, <3>2, <3>10, <5>1
        <4> QED BY <4>1, <4>2
      <3>12. Len(b) = i - 1 BY <2>0, <3>7, <3>10
      <3>13. b \in Seq(S) BY <3>10
      <3>14. b = c BY <3>8, <3>11, <3>12, <3>13, SeqEqual
      <3> QED BY <3>14 DEF b, c, e
    <2> QED BY <2>1, <2>2
  <1> HIDE DEF Args
  <1>7. \E f : f = [i \in 2 - 1 .. n |->
                    IF i < 2 THEN <<>>
                    ELSE IF elems[i].type = "bulk" THEN Append(f[i - 1], elems[i].s) ELSE f[i - 1]]
    <2>1. g = [i \in 2 - 1 .. n |->
                    IF i < 2 THEN <<>>
                    ELSE IF elems[i].type = "bulk" THEN Append(g[i - 1], elems[i].s) ELSE g[i - 1]]
      <3>1. ASSUME NEW i \in 1 .. n
            PROVE  Args(i) = IF i < 2 THEN <<>>
                             ELSE IF elems[i].type = "bulk" THEN Append(g[i - 1], elems[i].s) ELSE g[i - 1]
        <4>1. CASE i < 2
          <5>1. i = 1 BY <4>1
          <5> QED BY <1>5, <4>1, <5>1
        <4>2. CASE ~ i < 2
          <5>1. i \in 2 .. n /\ i - 1 \in 1 .. n BY <1>1, <4>2
          <5>2. g[i - 1] = Args(i - 1) BY <1>4, <5>1
          <5> QED BY <1>2, <1>6, <4>2, <5>1, <5>2
        <4> QED BY <4>1, <4>2
      <3> QED BY <1>1, <3>1
    <2> HIDE DEF g
    <2> QED BY <2>1
  <1>8. F = [i \in 2 - 1 .. n |->
                    IF i < 2 THEN <<>>
                    ELSE IF elems[i].type = "bulk" THEN Append(F[i - 1], elems[i].s) ELSE F[i - 1]]
    BY <1>7, Zenon
  <1> HIDE DEF F
  <1>9. \A i \in 1 .. n : F[i] = IF i < 2 THEN <<>> ELSE Append(F[i - 1], elems[i].s)
    BY <1>1, <1>2, <1>8
  <1> DEFINE S == {k \in Nat : \A i \in 1 .. n : i <= k => F[i] = Args(i)}
  <1>10. 0 \in S OBVIOUS
  <1>11. ASSUME NEW k \in Nat, k \in S PROVE k + 1 \in S
    <2>1. ASSUME NEW i \in 1 .. n, i <= k + 1 PROVE F[i] = Args(i)
      <3>1. CASE i < 2
        <4>1. i = 1 BY <3>1
        <4> QED BY <1>5, <1>9, <3>1, <4>1
      <3>2. CASE ~ i < 2
        <4>1. i \in 2 .. n /\ i - 1 \in 1 .. n /\ i - 1 <= k BY <1>1, <2>1, <3>2
        <4>2. F[i - 1] = Args(i - 1) BY <1>11, <4>1
        <4> QED BY <1>6, <1>9, <3>2, <4>1, <4>2
      <3> QED BY <3>1, <3>2
    <2> QED BY <2>1
  <1>12. n \in S
    <2> HIDE DEF S
    <2> QED BY <1>1, <1>10, <1>11, SetInduction
  <1>13. F[n] = Args(n)
    <2>1. n \in 1 .. n BY <1>1
    <2> QED BY <1>12, <2>1
  <1> QED BY <1>3, <1>13 DEF Args

\* as_command finds in a command what encode_command made it of.
LEMMA CommandIsFound ==
  ASSUME NEW v \in Values, IsCommand(v)
  PROVE  AsCommand(v).ok /\ v = Command(AsCommand(v).cmd, AsCommand(v).args)
  <1> DEFINE elems == v.elems
             n == Len(elems)
             args == [j \in 1 .. n - 1 |-> elems[j + 1].s]
             bulks == [i \in DOMAIN args |-> Bulk(args[i])]
             w == <<Bulk(elems[1].s)>> \o bulks
  <1>1. /\ v.type = "array" /\ elems # <<>> /\ elems \in Seq(Values) /\ v = ArrayOf(elems)
        /\ \A i \in DOMAIN elems : elems[i].type = "bulk"
    BY Variants DEF IsCommand
  <1>2. n \in Nat /\ n # 0 /\ 1 \in DOMAIN elems BY <1>1
  <1>3. AsCommand(v) = [cmd |-> elems[1].s, args |-> args, ok |-> TRUE]
    <2>1. BulksFrom(elems, 2) = args BY <1>1, BulksOfCommand
    <2> QED BY <1>1, <1>2, <2>1 DEF AsCommand
  <1>4. \A i \in 1 .. n : elems[i] = Bulk(elems[i].s) /\ elems[i] \in Values
    <2>1. ASSUME NEW i \in 1 .. n PROVE elems[i] = Bulk(elems[i].s) /\ elems[i] \in Values
      <3>1. i \in DOMAIN elems /\ elems[i] \in Values BY <1>1
      <3>2. elems[i].type = "bulk" BY <1>1, <3>1
      <3> QED BY <3>1, <3>2, Variants DEF Bulk
    <2> QED BY <2>1
  <1> HIDE DEF elems
  <1>5. DOMAIN args = 1 .. n - 1 /\ \A j \in 1 .. n - 1 : args[j] = elems[j + 1].s OBVIOUS
  <1> HIDE DEF args
  <1>6. ASSUME NEW j \in 1 .. n - 1 PROVE bulks[j] = elems[j + 1] /\ elems[j + 1] \in Values
    <2>1. j + 1 \in 1 .. n BY <1>2
    <2>2. elems[j + 1] = Bulk(elems[j + 1].s) BY <1>4, <2>1
    <2> QED BY <1>4, <1>5, <2>1, <2>2
  <1>7. bulks \in Seq(Values) /\ Len(bulks) = n - 1
    <2>1. bulks = [j \in 1 .. n - 1 |-> bulks[j]] BY <1>5
    <2>2. n - 1 \in Nat BY <1>2
    <2>3. \A j \in 1 .. n - 1 : bulks[j] \in Values BY <1>6
    <2> HIDE DEF bulks
    <2> QED BY <2>1, <2>2, <2>3
  <1> HIDE DEF bulks
  <1>8. w = elems
    <2> DEFINE x == <<Bulk(elems[1].s)>>
    <2>1. x \in Seq(Values) /\ Len(x) = 1 /\ x[1] = elems[1] BY <1>1, <1>2, <1>4
    <2>2. x \in Seq(Values) BY <2>1
    <2>7. bulks \in Seq(Values) BY <1>7
    <2> HIDE DEF x
    <2>3. /\ x \o bulks \in Seq(Values) /\ Len(x \o bulks) = Len(x) + Len(bulks)
          /\ \A i \in 1 .. Len(x) : (x \o bulks)[i] = x[i]
          /\ \A i \in 1 .. Len(bulks) : (x \o bulks)[Len(x) + i] = bulks[i]
      BY <2>2, <2>7, Concat
    <2> DEFINE y == x \o bulks
    <2> HIDE DEF y
    <2>4. y \in Seq(Values) /\ Len(y) = n BY <1>2, <1>7, <2>1, <2>3 DEF y
    <2>5. ASSUME NEW i \in 1 .. n PROVE y[i] = elems[i]
      <3>1. CASE i = 1 BY <2>1, <2>3, <3>1 DEF y
      <3>2. CASE i # 1
        <4>1. i - 1 \in 1 .. n - 1 /\ (i - 1) + 1 = i /\ 1 + (i - 1) = i BY <1>2, <3>2
        <4>2. y[1 + (i - 1)] = bulks[i - 1] BY <1>7, <2>1, <2>3, <4>1 DEF y
        <4> QED BY <1>6, <4>1, <4>2
      <3> QED BY <3>1, <3>2
    <2>6. y = elems BY <1>1, <2>4, <2>5, SeqEqual DEF elems
    <2> QED BY <2>6 DEF y, x
  <1>9. v = ArrayOf(w) BY <1>1, <1>8 DEF elems
  <1>10. w = <<Bulk(elems[1].s)>> \o [i \in DOMAIN args |-> Bulk(args[i])] BY DEF bulks
  <1>11. ArrayOf(w) = Command(elems[1].s, args) BY <1>10 DEF Command
  <1> QED BY <1>3, <1>9, <1>11

-----------------------------------------------------------------------------
(* The steps.                                                              *)

\* The wire is one of the wires, and that of what was sent.
WireOK == wire \in Wires /\ (sent # <<>> => sent \in Batches /\ wire = EncodeBatch(sent))

\* What is proved inductive; each part is needed for the ones after it.
Inv == TypeOK /\ WireOK /\ InPlace /\ ErrorMeansMalformed /\ Drained

\* The buffer begins with an item whose line ends at e.
LEMMA AtFacts ==
  ASSUME Inv, NEW m, NEW e, At(m, e)
  PROVE  /\ wire \in Wires /\ head \in Nat /\ fed \in Nat /\ Len(wire) \in Nat /\ e \in Int
         /\ head < fed /\ fed <= Len(wire) /\ e >= head + 2 /\ e + 1 <= fed
         /\ wire[head + 1] = m /\ IsLineEnd(wire, head + 1, Len(wire), e)
  <1>1. wire \in Wires /\ Len(wire) \in Nat BY WireSeq DEF Inv, TypeOK
  <1>2. head \in Nat /\ fed \in Nat /\ fed <= Len(wire) /\ fed \in 0 .. Len(wire)
    BY <1>1 DEF Inv, TypeOK
  <1>3. IsLineEnd(wire, head + 1, fed, e) /\ head < fed /\ wire[head + 1] = m BY DEF At, Marker
  <1>4. e \in Int /\ e >= head + 2 /\ e + 1 <= fed BY <1>2, <1>3 DEF IsLineEnd
  <1>5. IsLineEnd(wire, head + 1, Len(wire), e)
    BY <1>1, <1>2, <1>3, <1>4, LineEndOfPart
  <1> QED BY <1>1, <1>2, <1>3, <1>4, <1>5

\* What a step that takes an item out of the buffer, or gives one back, does.
TookItem ==
  /\ UNCHANGED <<sent, wire, fed, lost>>
  /\ head <= head' /\ head' <= fed /\ head' \in Nat /\ offset' \in Nat
  /\ WellFormed(wire) => head' + 1 \in ItemStarts[wire]
  /\ answer' = answer \/ answer' = "some"
  /\ pc' \in {"idle", "decode"} /\ (pc' = "idle" => stack' = <<>>)
  /\ head < fed \/ (pc = "decode" /\ head' = head)

Returned ==
  /\ answer' = answer \/ answer' = "some"
  /\ pc' \in {"idle", "decode"} /\ (pc' = "idle" => stack' = <<>>)

LEMMA ReturnType ==
  ASSUME pc = "decode", NEW below, NEW v, Return(below, v)
  PROVE  Returned
  BY DEF Return, Returned

LEMMA TakeLineType ==
  ASSUME Inv, NEW m, NEW e, At(m, e), TakeLine(e)
  PROVE  /\ head <= head' /\ head' <= fed /\ head' \in Nat /\ offset' \in Nat
         /\ head' = e + 1 /\ head < fed
  <1>1. offset \in Nat BY DEF Inv, TypeOK
  <1> QED BY <1>1, AtFacts DEF TakeLine

\* A line that is an item by itself leaves the buffer in place.
LEMMA LineTaken ==
  ASSUME Inv, NEW m, NEW e, At(m, e), TakeLine(e), IsItem(wire, head + 1, e, e + 2)
  PROVE  WellFormed(wire) => head' + 1 \in ItemStarts[wire]
  <1>1. head' + 1 = e + 2 BY AtFacts, TakeLineType
  <1>2. ASSUME WellFormed(wire) PROVE e + 2 \in ItemStarts[wire]
    <2>1. head + 1 \in ItemStarts[wire] BY <1>2 DEF Inv, InPlace
    <2>2. e + 2 <= Len(wire) + 1 /\ e \in Int /\ e + 2 \in Int /\ wire \in Wires BY AtFacts
    <2> QED BY <2>1, <2>2, NextIsStart
  <1> QED BY <1>1, <1>2

LEMMA SimpleStringTakes ==
  ASSUME Inv, NEW e, SimpleString(e)
  PROVE  TookItem
  <1>1. At("+", e) /\ TakeLine(e) /\ pc = "decode" BY DEF SimpleString, At, AtItem
  <1>2. IsItem(wire, head + 1, e, e + 2) BY <1>1, AtFacts DEF IsItem
  <1>3. WellFormed(wire) => head' + 1 \in ItemStarts[wire] BY <1>1, <1>2, LineTaken
  <1>4. UNCHANGED <<sent, wire, fed, lost>> BY DEF SimpleString
  <1>5. Returned BY <1>1, ReturnType DEF SimpleString
  <1>6. head <= head' /\ head' <= fed /\ head' \in Nat /\ offset' \in Nat /\ head < fed
    BY <1>1, TakeLineType
  <1> QED BY <1>3, <1>4, <1>5, <1>6 DEF TookItem, Returned

LEMMA ErrorTakes ==
  ASSUME Inv, NEW e, Error(e)
  PROVE  TookItem
  <1>1. At("-", e) /\ TakeLine(e) /\ pc = "decode" BY DEF Error, At, AtItem
  <1>2. IsItem(wire, head + 1, e, e + 2) BY <1>1, AtFacts DEF IsItem
  <1>3. WellFormed(wire) => head' + 1 \in ItemStarts[wire] BY <1>1, <1>2, LineTaken
  <1>4. UNCHANGED <<sent, wire, fed, lost>> BY DEF Error
  <1>5. Returned BY <1>1, ReturnType DEF Error
  <1>6. head <= head' /\ head' <= fed /\ head' \in Nat /\ offset' \in Nat /\ head < fed
    BY <1>1, TakeLineType
  <1> QED BY <1>3, <1>4, <1>5, <1>6 DEF TookItem, Returned

LEMMA IntegerTakes ==
  ASSUME Inv, NEW e, NEW n \in DOMAIN Numeral, Integer(e, n)
  PROVE  TookItem
  <1>1. At(":", e) /\ TakeLine(e) /\ pc = "decode" /\ IsNumber(Text(wire, head + 1, e), n)
    BY DEF Integer, At, AtItem
  <1>2. IsItem(wire, head + 1, e, e + 2) BY <1>1, AtFacts DEF IsItem
  <1>3. WellFormed(wire) => head' + 1 \in ItemStarts[wire] BY <1>1, <1>2, LineTaken
  <1>4. UNCHANGED <<sent, wire, fed, lost>> BY DEF Integer
  <1>5. Returned BY <1>1, ReturnType DEF Integer
  <1>6. head <= head' /\ head' <= fed /\ head' \in Nat /\ offset' \in Nat /\ head < fed
    BY <1>1, TakeLineType
  <1> QED BY <1>3, <1>4, <1>5, <1>6 DEF TookItem, Returned

LEMMA NullValueTakes ==
  ASSUME Inv, NEW e, NullValue(e)
  PROVE  TookItem
  <1>1. PICK m \in {"$", "*"} : At(m, e) BY DEF NullValue
  <1>2. TakeLine(e) /\ pc = "decode" /\ IsNumber(Text(wire, head + 1, e), -1)
    BY <1>1 DEF NullValue, At, AtItem
  <1>3. IsItem(wire, head + 1, e, e + 2) BY <1>1, <1>2, AtFacts DEF IsItem
  <1>4. WellFormed(wire) => head' + 1 \in ItemStarts[wire] BY <1>1, <1>2, <1>3, LineTaken
  <1>5. UNCHANGED <<sent, wire, fed, lost>> BY DEF NullValue
  <1>6. Returned BY <1>2, ReturnType DEF NullValue
  <1>7. head <= head' /\ head' <= fed /\ head' \in Nat /\ offset' \in Nat /\ head < fed
    BY <1>1, <1>2, TakeLineType
  <1> QED BY <1>4, <1>5, <1>6, <1>7 DEF TookItem, Returned

LEMMA BulkStringTakes ==
  ASSUME Inv, NEW e, NEW n \in DOMAIN Numeral, BulkString(e, n)
  PROVE  TookItem
  <1>1. /\ At("$", e) /\ pc = "decode" /\ IsNumber(Text(wire, head + 1, e), n)
        /\ n >= 0 /\ e + 1 + n + 2 <= fed
        /\ head' = e + 1 + n + 2 /\ offset' = offset + (head' - head)
    BY DEF BulkString, At, AtItem, BulkWhole
  <1>2. n \in Int /\ offset \in Nat BY NumeralAssumption DEF Inv, TypeOK
  <1>3. head <= head' /\ head' <= fed /\ head' \in Nat /\ offset' \in Nat /\ head < fed
    BY <1>1, <1>2, AtFacts, SMTT(20)
  <1>4. IsItem(wire, head + 1, e, e + n + 4) BY <1>1, <1>2, AtFacts, SMTT(20) DEF IsItem
  <1>5. ASSUME WellFormed(wire) PROVE head' + 1 \in ItemStarts[wire]
    <2>1. head + 1 \in ItemStarts[wire] BY <1>5 DEF Inv, InPlace
    <2>3. e \in Int /\ fed \in Nat /\ fed <= Len(wire) /\ Len(wire) \in Nat /\ wire \in Wires
      BY <1>1, AtFacts
    <2>2. /\ e + n + 4 \in Int /\ e + n + 4 <= Len(wire) + 1
          /\ head' + 1 = e + n + 4
      BY <1>1, <1>2, <2>3
    <2> QED BY <1>4, <2>1, <2>2, <2>3, NextIsStart
  <1>6. UNCHANGED <<sent, wire, fed, lost>> BY DEF BulkString
  <1>7. Returned BY <1>1, ReturnType DEF BulkString
  <1> QED BY <1>3, <1>5, <1>6, <1>7 DEF TookItem, Returned

LEMMA ArrayHeaderTakes ==
  ASSUME Inv, NEW e, NEW n \in DOMAIN Numeral, ArrayHeader(e, n)
  PROVE  TookItem
  <1>1. At("*", e) /\ TakeLine(e) /\ pc = "decode" /\ n >= 0 /\ IsNumber(Text(wire, head + 1, e), n)
    BY DEF ArrayHeader, At, AtItem
  <1>2. IsItem(wire, head + 1, e, e + 2) BY <1>1, AtFacts DEF IsItem
  <1>3. WellFormed(wire) => head' + 1 \in ItemStarts[wire] BY <1>1, <1>2, LineTaken
  <1>4. UNCHANGED <<sent, wire, fed, pc, decoded, answer, lost>> BY DEF ArrayHeader
  <1>5. head <= head' /\ head' <= fed /\ head' \in Nat /\ offset' \in Nat /\ head < fed
    BY <1>1, TakeLineType
  <1> QED BY <1>1, <1>3, <1>4, <1>5 DEF TookItem

LEMMA ArrayDoneTakes ==
  ASSUME Inv, ArrayDone
  PROVE  TookItem
  <1>1. pc = "decode" /\ UNCHANGED <<sent, wire, fed, head, offset, lost>> BY DEF ArrayDone
  <1>3. Returned BY <1>1, ReturnType DEF ArrayDone
  <1>2. head \in Nat /\ head <= fed /\ offset \in Nat
        /\ (WellFormed(wire) => head + 1 \in ItemStarts[wire])
    <2>1. Len(wire) \in Nat BY WireSeq DEF Inv, TypeOK
    <2> QED BY <2>1 DEF Inv, TypeOK, InPlace
  <1> QED BY <1>1, <1>2, <1>3 DEF TookItem, Returned

-----------------------------------------------------------------------------
(* The invariant.                                                          *)

\* Where a well-formed wire has an item, something is missing only of a part of the wire.
LEMMA NothingMissing ==
  ASSUME Inv, AtItem, Missing, WellFormed(wire), fed = Len(wire)
  PROVE  head = fed
  <1> SUFFICES ASSUME head # fed PROVE FALSE OBVIOUS
  <1>1. wire \in Wires /\ Len(wire) \in Nat BY WireSeq DEF Inv, TypeOK
  <1>2. head \in Nat /\ head < fed BY <1>1 DEF Inv, TypeOK
  <1>3. head + 1 \in ItemStarts[wire] BY DEF Inv, InPlace
  <1>4. PICK e \in 1 .. Len(wire), next \in Ends(wire) : IsItem(wire, head + 1, e, next)
    <2>1. head + 1 <= Len(wire) BY <1>1, <1>2
    <2> QED BY <1>3, <2>1 DEF WellFormed, WellFormedAt
  <1>5. IsLineEnd(wire, head + 1, Len(wire), e) /\ HasLine(wire, head + 1, fed)
    BY <1>1, <1>2, <1>4 DEF IsItem, IsLineEnd, HasLine
  <1>6. PICK f \in 1 .. fed, n \in DOMAIN Numeral :
          At("$", f) /\ IsNumber(Text(wire, head + 1, f), n) /\ n >= 0 /\ ~ BulkWhole(f, n)
    BY <1>2, <1>5 DEF Missing
  <1>7. e = f BY <1>1, <1>2, <1>5, <1>6, AtFacts, LineEndUnique
  <1>8. wire[head + 1] = "$" BY <1>6, AtFacts
  <1>9. n \in Int /\ n # -1 BY <1>6, NumeralAssumption
  <1>10. ~ IsNumber(Text(wire, head + 1, e), -1) BY <1>6, <1>7, <1>9, NumberUnique
  <1>11. PICK k \in DOMAIN Numeral :
           IsNumber(Text(wire, head + 1, e), k) /\ next = e + k + 4 /\ next <= Len(wire) + 1
    BY <1>4, <1>8, <1>10 DEF IsItem
  <1>12. k = n BY <1>6, <1>7, <1>11, NumberUnique
  <1>13. e + n + 4 <= Len(wire) + 1 BY <1>11, <1>12
  <1> QED BY <1>1, <1>6, <1>7, <1>9, <1>13 DEF BulkWhole

\* What does not decode is not well formed.
LEMMA FailsOnlyMalformed ==
  ASSUME Inv, AtItem, Malformed
  PROVE  ~ WellFormed(wire)
  <1> SUFFICES ASSUME WellFormed(wire) PROVE FALSE OBVIOUS
  <1>1. wire \in Wires /\ Len(wire) \in Nat BY WireSeq DEF Inv, TypeOK
  <1>2. head \in Nat /\ fed \in Nat /\ head < fed /\ fed <= Len(wire)
    BY <1>1 DEF Inv, TypeOK, Malformed
  <1>3. head + 1 \in ItemStarts[wire] BY DEF Inv, InPlace
  <1>4. PICK e \in 1 .. Len(wire), next \in Ends(wire) : IsItem(wire, head + 1, e, next)
    <2>1. head + 1 <= Len(wire) BY <1>1, <1>2
    <2> QED BY <1>3, <2>1 DEF WellFormed, WellFormedAt
  <1>5. Marker \in Markers BY <1>4 DEF IsItem, Marker, Markers, LineMarkers
  <1>6. PICK f \in 1 .. fed, m \in {":", "$", "*"} :
          /\ At(m, f)
          /\ \A n \in DOMAIN Numeral : IsNumber(Text(wire, head + 1, f), n) => m # ":" /\ n < -1
    BY <1>5 DEF Malformed
  <1>7. e = f
    BY <1>1, <1>2, <1>4, <1>6, AtFacts, LineEndUnique DEF IsItem
  <1>8. wire[head + 1] = m BY <1>6, AtFacts
  <1>9. \E n \in DOMAIN Numeral : IsNumber(Text(wire, head + 1, e), n) /\ (m = ":" \/ n >= -1)
    <2>1. \A n \in DOMAIN Numeral : n \in Int BY NumeralAssumption
    <2>2. IsNumber(Text(wire, head + 1, e), -1) => -1 \in DOMAIN Numeral BY DEF IsNumber
    <2>3. m \in {":", "$", "*"} BY <1>6
    <2> QED BY <1>4, <1>8, <2>1, <2>2, <2>3 DEF IsItem
  <1>10. PICK n \in DOMAIN Numeral : IsNumber(Text(wire, head + 1, e), n) /\ (m = ":" \/ n >= -1)
    BY <1>9
  <1> QED BY <1>6, <1>7, <1>10, NumeralAssumption

LEMMA InitInv == Init => Inv
  <1> SUFFICES ASSUME Init PROVE Inv OBVIOUS
  <1>1. wire \in Wires /\ (sent # <<>> => sent \in Batches /\ wire = EncodeBatch(sent))
    BY DEF Init, Wires
  <1>2. Len(wire) \in Nat /\ 1 \in ItemStarts[wire] BY <1>1, WireSeq
  <1>3. fed = 0 /\ head = 0 /\ offset = 0 /\ pc = "idle" /\ stack = <<>> /\ answer = "fed" /\ lost = FALSE
    BY DEF Init
  <1>4. TypeOK
    <2>1. lost \in BOOLEAN /\ MaxBuffer \in Nat BY <1>3, ValuesAssumption
    <2>2. fed - head <= MaxBuffer BY <1>3, <2>1
    <2>3. head \in 0 .. fed /\ fed \in 0 .. Len(wire) /\ offset \in Nat BY <1>2, <1>3
    <2> QED BY <1>1, <1>3, <2>1, <2>2, <2>3 DEF TypeOK
  <1> QED BY <1>1, <1>2, <1>3, <1>4 DEF Inv, WireOK, InPlace, ErrorMeansMalformed, Drained

\* What is taken from the buffer makes it shorter.
LEMMA LessIsLess ==
  ASSUME NEW f \in Int, NEW h \in Int, NEW k \in Int, NEW m \in Int, h <= k, f - h <= m
  PROVE  f - k <= m
  OBVIOUS

\* A step that takes an item keeps the invariant.
LEMMA TookItemInv ==
  ASSUME Inv, TookItem
  PROVE  Inv'
  <1>1. Len(wire) \in Nat /\ head \in Nat /\ fed \in Nat /\ MaxBuffer \in Nat
    <2>1. Len(wire) \in Nat BY WireSeq DEF Inv, TypeOK
    <2> QED BY <2>1, ValuesAssumption DEF Inv, TypeOK
  <1>2. TypeOK'
    <2>1. wire' = wire /\ fed' = fed /\ lost' = lost BY DEF TookItem
    <2>2. wire' \in Wires /\ fed' \in 0 .. Len(wire') /\ lost' \in BOOLEAN
      BY <2>1 DEF Inv, TypeOK
    <2>3. /\ head <= head' /\ head' <= fed /\ head' \in Nat /\ offset' \in Nat
          /\ pc' \in {"idle", "decode"} /\ (pc' = "idle" => stack' = <<>>)
      BY DEF TookItem
    <2>4. fed - head <= MaxBuffer BY DEF Inv, TypeOK
    <2>5. head' \in 0 .. fed' /\ fed' - head' <= MaxBuffer
      <3>1. head' \in Nat /\ head <= head' /\ head' <= fed BY <2>3
      <3>2. head \in Int /\ fed \in Int /\ MaxBuffer \in Int /\ head' \in Int BY <1>1, <3>1
      <3>3. fed - head' <= MaxBuffer BY <2>4, <3>1, <3>2, LessIsLess
      <3>4. head' \in 0 .. fed BY <3>1, <3>2
      <3> QED BY <2>1, <3>3, <3>4
    <2>6. answer \in {"some", "none", "err", "fed"} BY DEF Inv, TypeOK
    <2>7. answer' = answer \/ answer' = "some" BY DEF TookItem
    <2>8. answer' \in {"some", "none", "err", "fed"} BY <2>6, <2>7
    <2> QED BY <2>2, <2>3, <2>5, <2>8 DEF TypeOK
  <1>3. WireOK' BY DEF Inv, WireOK, TookItem
  <1>4. InPlace' BY DEF InPlace, TookItem, WellFormed, WellFormedAt
  <1>5. ErrorMeansMalformed'
    BY DEF Inv, ErrorMeansMalformed, TookItem, WellFormed, WellFormedAt
  <1>6. Drained'
    <2> SUFFICES ASSUME answer' = "none", fed' = Len(wire'), WellFormed(wire)' PROVE head' = fed'
      BY DEF Drained
    <2>1. answer = "none" /\ fed = Len(wire) /\ WellFormed(wire) /\ fed' = fed
      BY DEF TookItem, WellFormed, WellFormedAt
    <2>2. head = fed BY <2>1 DEF Inv, Drained
    <2> QED BY <1>1, <2>1, <2>2 DEF TookItem
  <1> QED BY <1>2, <1>3, <1>4, <1>5, <1>6 DEF Inv

LEMMA FeedInv ==
  ASSUME Inv, NEW n \in Lengths, Feed(n)
  PROVE  Inv'
  <1>1. wire \in Wires /\ Len(wire) \in Nat /\ MaxBuffer \in Nat /\ n \in Nat /\ n > 0
    BY WireSeq, ValuesAssumption DEF Inv, TypeOK, Lengths
  <1>2. fed' = fed + n /\ answer' = "fed" /\ UNCHANGED <<sent, wire, head, offset, pc, stack, lost>>
        /\ fed + n <= Len(wire) /\ fed + n - head <= MaxBuffer
    BY DEF Feed
  <1>3. TypeOK' BY <1>1, <1>2 DEF Inv, TypeOK
  <1>4. InPlace' BY <1>2 DEF Inv, InPlace, WellFormed, WellFormedAt
  <1> QED BY <1>2, <1>3, <1>4 DEF Inv, WireOK, ErrorMeansMalformed, Drained

LEMMA DecodeInv ==
  ASSUME Inv, Decode
  PROVE  Inv'
  <1>1. UNCHANGED <<sent, wire, fed, head, offset, stack, lost>> BY DEF Decode
  <1>2. \/ head = fed /\ answer' = "none" /\ pc' = pc
        \/ pc' = "decode" /\ answer' = answer
    BY DEF Decode
  <1>3. TypeOK' BY <1>1, <1>2 DEF Inv, TypeOK
  <1> QED BY <1>1, <1>2, <1>3
      DEF Inv, WireOK, InPlace, ErrorMeansMalformed, Drained, WellFormed, WellFormedAt

LEMMA IncompleteInv ==
  ASSUME Inv, Incomplete
  PROVE  Inv'
  <1>1. /\ AtItem /\ Missing /\ answer' = "none" /\ pc' = "idle" /\ stack' = <<>>
        /\ lost' = (lost \/ stack # <<>>) /\ UNCHANGED <<sent, wire, fed, head, offset>>
    BY DEF Incomplete
  <1>2. TypeOK'
    <2>1. lost' \in BOOLEAN BY <1>1
    <2> QED BY <1>1, <2>1 DEF Inv, TypeOK
  <1>3. Drained' BY <1>1, NothingMissing DEF Drained, WellFormed, WellFormedAt
  <1> QED BY <1>1, <1>2, <1>3
      DEF Inv, WireOK, InPlace, ErrorMeansMalformed, WellFormed, WellFormedAt

LEMMA FailsInv ==
  ASSUME Inv, Fails
  PROVE  Inv'
  <1>1. /\ AtItem /\ Malformed /\ answer' = "err" /\ pc' = "idle" /\ stack' = <<>>
        /\ head' = fed /\ UNCHANGED <<sent, wire, fed, offset, lost>>
    BY DEF Fails
  <1>2. ~ WellFormed(wire) BY <1>1, FailsOnlyMalformed
  <1>3. sent = <<>> BY <1>2, EncoderWritesItems DEF Inv, WireOK
  <1>4. TypeOK'
    <2>1. Len(wire) \in Nat /\ MaxBuffer \in Nat BY WireSeq, ValuesAssumption DEF Inv, TypeOK
    <2> QED BY <1>1, <2>1 DEF Inv, TypeOK
  <1> QED BY <1>1, <1>2, <1>3, <1>4
      DEF Inv, WireOK, InPlace, ErrorMeansMalformed, Drained, WellFormed, WellFormedAt

LEMMA ResetInv == Reset => Inv'
  <1>1. Init' => Inv' BY InitInv, PTL
  <1>2. Reset => Init' BY DEF Reset, Init
  <1> QED BY <1>1, <1>2

LEMMA NextInv ==
  ASSUME Inv, [Next]_vars
  PROVE  Inv'
  <1>1. CASE \E n \in Lengths : Feed(n) BY <1>1, FeedInv
  <1>2. CASE Decode BY <1>2, DecodeInv
  <1>3. CASE \E e \in Lengths : SimpleString(e) \/ Error(e) \/ NullValue(e)
    BY <1>3, SimpleStringTakes, ErrorTakes, NullValueTakes, TookItemInv
  <1>4. CASE \E e \in Lengths, n \in DOMAIN Numeral : Integer(e, n) \/ BulkString(e, n) \/ ArrayHeader(e, n)
    BY <1>4, IntegerTakes, BulkStringTakes, ArrayHeaderTakes, TookItemInv
  <1>5. CASE ArrayDone BY <1>5, ArrayDoneTakes, TookItemInv
  <1>6. CASE Incomplete BY <1>6, IncompleteInv
  <1>7. CASE Fails BY <1>7, FailsInv
  <1>8. CASE Reset BY <1>8, ResetInv
  <1>9. CASE UNCHANGED vars
    BY <1>9 DEF vars, Inv, TypeOK, WireOK, InPlace, ErrorMeansMalformed, Drained, WellFormed, WellFormedAt
  <1> QED BY <1>1, <1>2, <1>3, <1>4, <1>5, <1>6, <1>7, <1>8, <1>9 DEF Next, DecodeItem

\* The invariant holds in every reachable state, for every wire and every way to cut it.
THEOREM Invariance == Spec => []Inv
  <1>1. Inv /\ [Next]_vars => Inv' BY NextInv
  <1> QED BY InitInv, <1>1, PTL DEF Spec

\* Every variable keeps its type: what leaves the buffer was in it, and the buffer keeps
\* within max_buffer_size (feed, decode_*).
THEOREM TypeCorrect == Spec => []TypeOK
  <1>1. Inv => TypeOK BY DEF Inv
  <1> QED BY Invariance, <1>1, PTL

\* The decoder never loses its place in a well-formed stream, whatever the pieces are and
\* whatever incomplete arrays it has dropped.
THEOREM KeepsPlace == Spec => []InPlace
  <1>1. Inv => InPlace BY DEF Inv
  <1> QED BY Invariance, <1>1, PTL

\* decode never returns Err for what the encoder wrote, nor for any well-formed stream.
THEOREM NoFalseError == Spec => []ErrorMeansMalformed
  <1>1. Inv => ErrorMeansMalformed BY DEF Inv
  <1> QED BY Invariance, <1>1, PTL

\* A well-formed stream that was fed whole and decoded until Ok(None) leaves an empty buffer.
THEOREM LeavesNothing == Spec => []Drained
  <1>1. Inv => Drained BY DEF Inv
  <1> QED BY Invariance, <1>1, PTL

-----------------------------------------------------------------------------
(* What remains of the values when the decoder is in arrays.  Level 0 is   *)
(* the call of decode, level j the j-th array of the stack.                *)

Join(x, y) == x \o y

\* got[j] of whole[j] has been read and rest[j] is to come, with the array of level j + 1 in
\* between; cnt[j] is the length of whole[j].  todo[j] comes when level j is the last one.
Reads(P, d, got, cnt, whole, rest, todo) ==
  /\ got \in [0 .. d -> Seq(P)] /\ cnt \in [1 .. d -> Nat]
  /\ whole \in [Nat -> Seq(P)] /\ rest \in [Nat -> Seq(P)] /\ todo \in [Nat -> Seq(P)]
  /\ whole[d] = Join(got[d], rest[d])
  /\ \A j \in 0 .. d - 1 :
       /\ whole[j] = Join(got[j], Cons(ArrayOf(whole[j + 1]), rest[j]))
       /\ ArrayOf(whole[j + 1]) \in P /\ cnt[j + 1] = Len(whole[j + 1])
  /\ todo[0] = rest[0]
  /\ \A j \in 1 .. d : todo[j] = Join(rest[j], todo[j - 1])

LEMMA JoinType ==
  ASSUME NEW P, NEW x \in Seq(P), NEW y \in Seq(P)
  PROVE  Join(x, y) \in Seq(P)
  BY DEF Join

LEMMA JoinEmpty ==
  ASSUME NEW P, NEW x \in Seq(P)
  PROVE  Join(x, <<>>) = x /\ Join(<<>>, x) = x
  BY DEF Join

LEMMA FirstAndRest ==
  ASSUME NEW P, NEW x \in Seq(P), x # <<>>
  PROVE  x[1] \in P /\ Tail(x) \in Seq(P) /\ x = Cons(x[1], Tail(x))
  BY DEF Cons

\* A sequence begins with one element.
LEMMA ConsEqual ==
  ASSUME NEW P, NEW a \in P, NEW x \in Seq(P), NEW b \in P, NEW y \in Seq(P),
         Cons(a, x) = Cons(b, y)
  PROVE  a = b /\ x = y
  <1> DEFINE s == <<a>> \o x
             t == <<b>> \o y
  <1>1. Head(s) = a /\ Tail(s) = x OBVIOUS
  <1>2. Head(t) = b /\ Tail(t) = y OBVIOUS
  <1>3. s = t BY DEF Cons
  <1> HIDE DEF s, t
  <1> QED BY <1>1, <1>2, <1>3

LEMMA ConsJoin ==
  ASSUME NEW P, NEW a \in P, NEW x \in Seq(P), NEW y \in Seq(P)
  PROVE  Join(Cons(a, x), y) = Cons(a, Join(x, y))
  <1> DEFINE o == <<a>>
  <1>1. o \in Seq(P) OBVIOUS
  <1> HIDE DEF o
  <1>2. (o \o x) \o y = o \o (x \o y) BY <1>1, ConcatAssociative, SMTT(30)
  <1> QED BY <1>2 DEF o, Cons, Join

LEMMA AppendJoin ==
  ASSUME NEW P, NEW x \in Seq(P), NEW v \in P, NEW y \in Seq(P)
  PROVE  Join(x, Cons(v, y)) = Join(Append(x, v), y)
  <1> DEFINE o == <<v>>
  <1>1. o \in Seq(P) OBVIOUS
  <1>2. Append(x, v) = x \o o OBVIOUS
  <1> HIDE DEF o
  <1>3. x \o (o \o y) = (x \o o) \o y BY <1>1, ConcatAssociative, SMTT(30)
  <1> QED BY <1>2, <1>3 DEF o, Cons, Join

\* What a sequence that is not empty begins with.
LEMMA FirstOf ==
  ASSUME NEW P, NEW x \in Seq(P), x # <<>>, NEW t \in Seq(P), NEW v \in P, NEW us \in Seq(P),
         Join(x, t) = Cons(v, us)
  PROVE  \E r \in Seq(P) : x = Cons(v, r) /\ us = Join(r, t)
  <1> DEFINE a == x[1]
             r == Tail(x)
  <1>1. a \in P /\ r \in Seq(P) /\ x = Cons(a, r) BY FirstAndRest
  <1> HIDE DEF a, r
  <1>2. Join(Cons(a, r), t) = Cons(a, Join(r, t)) BY <1>1, ConsJoin
  <1>3. Join(r, t) \in Seq(P) BY <1>1, JoinType
  <1>4. Cons(a, Join(r, t)) = Cons(v, us) BY <1>1, <1>2
  <1>5. a = v /\ Join(r, t) = us BY <1>1, <1>3, <1>4, ConsEqual
  <1> QED BY <1>1, <1>5

\* Something of level d is to come.
More(d, got, cnt) == d > 0 => cnt[d] # Len(got[d])

\* It begins with v, and r and us come after it.
Comes(d, rest, todo, v, us, r) ==
  /\ rest[d] = Cons(v, r)
  /\ d = 0 => us = r
  /\ d > 0 => us = Join(r, todo[d - 1])

\* The first value to come is the first of the level the decoder is in.
LEMMA RestFirst ==
  ASSUME NEW P, NEW d \in Nat, NEW got, NEW cnt, NEW whole, NEW rest, NEW todo,
         Reads(P, d, got, cnt, whole, rest, todo),
         More(d, got, cnt),
         NEW v \in P, NEW us \in Seq(P), todo[d] = Cons(v, us)
  PROVE  \E r \in Seq(P) : Comes(d, rest, todo, v, us, r)
  <1>1. CASE d = 0 BY <1>1 DEF Reads, Comes
  <1>2. CASE d > 0
    <2> DEFINE x == rest[d]
               t == todo[d - 1]
               g == got[d]
               w == whole[d]
    <2>1. /\ x \in Seq(P) /\ t \in Seq(P) /\ g \in Seq(P) /\ w \in Seq(P)
      <3>1. d - 1 \in Nat /\ d \in 0 .. d BY <1>2
      <3> QED BY <3>1 DEF Reads
    <2>2. w = Join(g, x) /\ todo[d] = Join(x, t)
      <3>1. d \in 1 .. d BY <1>2
      <3> QED BY <3>1 DEF Reads
    <2>3. cnt[d] = Len(w)
      <3>1. d - 1 \in 0 .. d - 1 /\ (d - 1) + 1 = d BY <1>2
      <3>2. cnt[(d - 1) + 1] = Len(whole[(d - 1) + 1]) BY <3>1 DEF Reads
      <3> QED BY <3>1, <3>2
    <2>4. Len(w) # Len(g) BY <1>2, <2>3 DEF More
    <2> HIDE DEF x, t, g, w
    <2>5. x # <<>>
      <3> SUFFICES ASSUME x = <<>> PROVE FALSE OBVIOUS
      <3>1. Join(g, <<>>) = g BY <2>1, JoinEmpty
      <3> QED BY <2>2, <2>4, <3>1
    <2>6. Join(x, t) = Cons(v, us) BY <2>2
    <2>7. PICK r \in Seq(P) : x = Cons(v, r) /\ us = Join(r, t) BY <2>1, <2>5, <2>6, FirstOf
    <2>11. rest[d] = Cons(v, r) /\ us = Join(r, todo[d - 1]) BY <2>7 DEF x, t
    <2>12. Comes(d, rest, todo, v, us, r) BY <1>2, <2>11 DEF Comes
    <2> QED BY <2>12
  <1>3. d = 0 \/ d > 0 OBVIOUS
  <1> QED BY <1>1, <1>2, <1>3

\* v is the next of level d.
Grown(P, d, got, v, got2) ==
  /\ got2 \in [0 .. d -> Seq(P)] /\ got2[d] = Append(got[d], v)
  /\ \A j \in 0 .. d - 1 : got2[j] = got[j]

\* A value that is no array is read.
LEMMA LeafRead ==
  ASSUME NEW P, NEW d \in Nat, NEW got, NEW cnt, NEW whole, NEW rest, NEW todo,
         Reads(P, d, got, cnt, whole, rest, todo),
         More(d, got, cnt),
         NEW v \in P, NEW us \in Seq(P), todo[d] = Cons(v, us),
         NEW got2, Grown(P, d, got, v, got2)
  PROVE  \E rest2, todo2 : Reads(P, d, got2, cnt, whole, rest2, todo2) /\ todo2[d] = us
  <1>0. PICK r \in Seq(P) : Comes(d, rest, todo, v, us, r) BY RestFirst
  <1>1. /\ rest[d] = Cons(v, r)
        /\ d = 0 => us = r
        /\ d > 0 => us = Join(r, todo[d - 1])
    BY <1>0 DEF Comes
  <1>g. /\ got2 \in [0 .. d -> Seq(P)] /\ got2[d] = Append(got[d], v)
        /\ \A j \in 0 .. d - 1 : got2[j] = got[j]
    BY DEF Grown
  <1> DEFINE rest2 == [j \in Nat |-> IF j = d THEN r ELSE rest[j]]
             todo2 == [j \in Nat |-> IF j = d THEN us ELSE todo[j]]
  <1>2. rest2[d] = r /\ todo2[d] = us OBVIOUS
  <1>3. \A j \in Nat : j # d => rest2[j] = rest[j] /\ todo2[j] = todo[j] OBVIOUS
  <1>4. rest2 \in [Nat -> Seq(P)] /\ todo2 \in [Nat -> Seq(P)] BY DEF Reads
  <1> HIDE DEF rest2, todo2
  <1>5. whole[d] = Join(got2[d], rest2[d])
    <2>1. whole[d] = Join(got[d], Cons(v, r)) BY <1>1 DEF Reads
    <2>2. got[d] \in Seq(P)
      <3>1. d \in 0 .. d OBVIOUS
      <3> QED BY <3>1 DEF Reads
    <2>3. Join(got[d], Cons(v, r)) = Join(Append(got[d], v), r)
      <3> DEFINE g == got[d]
      <3>1. g \in Seq(P) /\ v \in P /\ r \in Seq(P) BY <2>2
      <3> HIDE DEF g
      <3>2. Join(g, Cons(v, r)) = Join(Append(g, v), r) BY <3>1, AppendJoin
      <3> QED BY <3>2 DEF g
    <2> QED BY <1>2, <1>g, <2>1, <2>3
  <1>6. ASSUME NEW j \in 0 .. d - 1
        PROVE  /\ whole[j] = Join(got2[j], Cons(ArrayOf(whole[j + 1]), rest2[j]))
               /\ ArrayOf(whole[j + 1]) \in P /\ cnt[j + 1] = Len(whole[j + 1])
    <2>1. j \in Nat /\ j # d OBVIOUS
    <2>2. rest2[j] = rest[j] /\ got2[j] = got[j] BY <1>3, <1>g, <2>1
    <2>3. /\ whole[j] = Join(got[j], Cons(ArrayOf(whole[j + 1]), rest[j]))
          /\ ArrayOf(whole[j + 1]) \in P /\ cnt[j + 1] = Len(whole[j + 1])
      BY DEF Reads
    <2> QED BY <2>2, <2>3, Zenon
  <1>7. todo2[0] = rest2[0]
    <2>1. CASE d = 0 BY <1>1, <1>2, <2>1
    <2>2. CASE d # 0
      <3>1. rest2[0] = rest[0] /\ todo2[0] = todo[0] BY <1>3, <2>2
      <3> QED BY <3>1 DEF Reads
    <2> QED BY <2>1, <2>2
  <1>8. ASSUME NEW j \in 1 .. d PROVE todo2[j] = Join(rest2[j], todo2[j - 1])
    <2>0. j \in Nat /\ j - 1 \in Nat /\ j - 1 # d /\ d > 0 OBVIOUS
    <2>1. todo2[j - 1] = todo[j - 1] BY <1>3, <2>0
    <2>2. CASE j = d BY <1>1, <1>2, <2>0, <2>1, <2>2
    <2>3. CASE j # d
      <3>1. todo2[j] = todo[j] /\ rest2[j] = rest[j] BY <1>3, <2>0, <2>3
      <3> QED BY <2>1, <3>1 DEF Reads
    <2> QED BY <2>2, <2>3
  <1>9. Reads(P, d, got2, cnt, whole, rest2, todo2)
    <2>1. cnt \in [1 .. d -> Nat] /\ whole \in [Nat -> Seq(P)] BY DEF Reads
    <2> QED BY <1>4, <1>5, <1>6, <1>7, <1>8, <1>g, <2>1, Zenon DEF Reads
  <1> QED BY <1>2, <1>9

\* An array of n elements begins at level d + 1.
Grew(P, d, got, cnt, n, got2, cnt2) ==
  /\ got2 \in [0 .. d + 1 -> Seq(P)] /\ got2[d + 1] = <<>> /\ \A j \in 0 .. d : got2[j] = got[j]
  /\ cnt2 \in [1 .. d + 1 -> Nat] /\ cnt2[d + 1] = n /\ \A j \in 1 .. d : cnt2[j] = cnt[j]

\* An array begins: its elements are to come, and then what came after it.
LEMMA ArrayOpened ==
  ASSUME NEW P, NEW d \in Nat, NEW got, NEW cnt, NEW whole, NEW rest, NEW todo,
         Reads(P, d, got, cnt, whole, rest, todo),
         More(d, got, cnt),
         NEW es \in Seq(P), NEW us \in Seq(P), ArrayOf(es) \in P, todo[d] = Cons(ArrayOf(es), us),
         NEW got2, NEW cnt2, Grew(P, d, got, cnt, Len(es), got2, cnt2)
  PROVE  \E whole2, rest2, todo2 :
           /\ Reads(P, d + 1, got2, cnt2, whole2, rest2, todo2)
           /\ todo2[d + 1] = Join(es, us)
           /\ whole2[0] = whole[0]
  <1> DEFINE v == ArrayOf(es)
  <1>v. v \in P /\ todo[d] = Cons(v, us) OBVIOUS
  <1> HIDE DEF v
  <1>0. PICK r \in Seq(P) : Comes(d, rest, todo, v, us, r) BY <1>v, RestFirst
  <1>1. /\ rest[d] = Cons(v, r)
        /\ d = 0 => us = r
        /\ d > 0 => us = Join(r, todo[d - 1])
    BY <1>0 DEF Comes
  <1>g. /\ got2 \in [0 .. d + 1 -> Seq(P)] /\ got2[d + 1] = <<>> /\ \A j \in 0 .. d : got2[j] = got[j]
        /\ cnt2 \in [1 .. d + 1 -> Nat] /\ cnt2[d + 1] = Len(es) /\ \A j \in 1 .. d : cnt2[j] = cnt[j]
    BY DEF Grew
  <1> DEFINE whole2 == [j \in Nat |-> IF j = d + 1 THEN es ELSE whole[j]]
             rest2 == [j \in Nat |-> IF j = d THEN r ELSE IF j = d + 1 THEN es ELSE rest[j]]
             todo2 == [j \in Nat |-> IF j = d THEN us ELSE IF j = d + 1 THEN Join(es, us) ELSE todo[j]]
  <1>2. d + 1 \in Nat /\ d # d + 1 /\ d + 1 # 0 /\ (d + 1) - 1 = d OBVIOUS
  <1>3. /\ whole2[d + 1] = es /\ rest2[d + 1] = es /\ todo2[d + 1] = Join(es, us)
        /\ whole2[d] = whole[d] /\ rest2[d] = r /\ todo2[d] = us
    BY <1>2
  <1>4. \A j \in Nat : j # d /\ j # d + 1 =>
          rest2[j] = rest[j] /\ todo2[j] = todo[j] /\ whole2[j] = whole[j]
    OBVIOUS
  <1>5. /\ whole2 \in [Nat -> Seq(P)] /\ rest2 \in [Nat -> Seq(P)] /\ todo2 \in [Nat -> Seq(P)]
    <2>1. Join(es, us) \in Seq(P) BY JoinType
    <2> QED BY <2>1 DEF Reads
  <1> HIDE DEF whole2, rest2, todo2
  <1>6. whole2[d + 1] = Join(got2[d + 1], rest2[d + 1]) BY <1>3, <1>g, JoinEmpty
  <1>7. ASSUME NEW j \in 0 .. (d + 1) - 1
        PROVE  /\ whole2[j] = Join(got2[j], Cons(ArrayOf(whole2[j + 1]), rest2[j]))
               /\ ArrayOf(whole2[j + 1]) \in P /\ cnt2[j + 1] = Len(whole2[j + 1])
    <2>0. j \in Nat /\ j \in 0 .. d /\ got2[j] = got[j] BY <1>g
    <2>1. CASE j = d
      <3>1. whole2[d] = Join(got2[d], Cons(v, r)) BY <1>1, <1>3, <2>0, <2>1 DEF Reads
      <3>2. v = ArrayOf(whole2[d + 1]) BY <1>3 DEF v
      <3>3. whole2[d] = Join(got2[d], Cons(ArrayOf(whole2[d + 1]), rest2[d])) BY <1>3, <3>1, <3>2
      <3>4. ArrayOf(whole2[d + 1]) \in P BY <1>v, <3>2
      <3>5. cnt2[d + 1] = Len(whole2[d + 1]) BY <1>3, <1>g
      <3> QED BY <2>1, <3>3, <3>4, <3>5
    <2>2. CASE j # d
      <3>1. j \in 0 .. d - 1 /\ j # d + 1 /\ j + 1 \in 1 .. d /\ j + 1 # d + 1 /\ j + 1 \in Nat
        BY <2>0, <2>2
      <3>2. /\ whole[j] = Join(got[j], Cons(ArrayOf(whole[j + 1]), rest[j]))
            /\ ArrayOf(whole[j + 1]) \in P /\ cnt[j + 1] = Len(whole[j + 1])
        BY <3>1 DEF Reads
      <3>3. whole2[j + 1] = whole[j + 1]
        <4>1. CASE j + 1 = d BY <1>3, <4>1
        <4>2. CASE j + 1 # d BY <1>4, <3>1, <4>2
        <4> QED BY <4>1, <4>2
      <3>4. whole2[j] = whole[j] /\ rest2[j] = rest[j] /\ cnt2[j + 1] = cnt[j + 1]
        BY <1>4, <1>g, <2>0, <2>2, <3>1
      <3> QED BY <2>0, <3>2, <3>3, <3>4
    <2> QED BY <2>1, <2>2
  <1>8. todo2[0] = rest2[0]
    <2>1. CASE d = 0 BY <1>1, <1>3, <2>1
    <2>2. CASE d # 0
      <3>1. rest2[0] = rest[0] /\ todo2[0] = todo[0] BY <1>2, <1>4, <2>2
      <3> QED BY <3>1 DEF Reads
    <2> QED BY <2>1, <2>2
  <1>9. ASSUME NEW j \in 1 .. d + 1 PROVE todo2[j] = Join(rest2[j], todo2[j - 1])
    <2>0. j \in Nat /\ j - 1 \in Nat /\ j - 1 # d + 1 OBVIOUS
    <2>1. CASE j = d + 1
      <3>1. j - 1 = d BY <2>1
      <3> QED BY <1>3, <2>1, <3>1
    <2>2. CASE j = d
      <3>1. j - 1 # d /\ d > 0 BY <2>0, <2>2
      <3>2. todo2[j - 1] = todo[j - 1] BY <1>4, <2>0, <3>1
      <3> QED BY <1>1, <1>3, <2>2, <3>1, <3>2
    <2>3. CASE j # d /\ j # d + 1
      <3>1. j - 1 # d /\ j \in 1 .. d BY <2>0, <2>3
      <3>2. todo2[j - 1] = todo[j - 1] /\ todo2[j] = todo[j] /\ rest2[j] = rest[j]
        BY <1>4, <2>0, <2>3, <3>1
      <3>3. todo[j] = Join(rest[j], todo[j - 1]) BY <3>1 DEF Reads
      <3> QED BY <3>2, <3>3
    <2> QED BY <2>1, <2>2, <2>3
  <1>10. Reads(P, d + 1, got2, cnt2, whole2, rest2, todo2)
    BY <1>5, <1>6, <1>7, <1>8, <1>9, <1>g DEF Reads
  <1>11. whole2[0] = whole[0]
    <2>1. CASE d = 0 BY <1>3, <2>1
    <2>2. CASE d # 0 BY <1>2, <1>4, <2>2
    <2> QED BY <2>1, <2>2
  <1> QED BY <1>3, <1>10, <1>11

\* An array has all its elements: nothing of it is to come.
LEMMA ArrayWhole ==
  ASSUME NEW P, NEW d \in Nat, d > 0, NEW got, NEW cnt, NEW whole, NEW rest, NEW todo,
         Reads(P, d, got, cnt, whole, rest, todo),
         cnt[d] = Len(got[d])
  PROVE  /\ ArrayOf(got[d]) \in P /\ todo[d] = todo[d - 1]
         /\ whole[d - 1] = Join(got[d - 1], Cons(ArrayOf(got[d]), rest[d - 1]))
  <1> DEFINE c == d - 1
             x == rest[d]
             g == got[d]
             w == whole[d]
             t == todo[c]
  <1>1. c \in Nat /\ d \in 0 .. d /\ d \in 1 .. d /\ c \in 0 .. d - 1 /\ c + 1 = d OBVIOUS
  <1>2. x \in Seq(P) /\ g \in Seq(P) /\ w \in Seq(P) /\ t \in Seq(P)
    <2> HIDE DEF c
    <2> QED BY <1>1 DEF Reads
  <1>3. w = Join(g, x) /\ todo[d] = Join(x, t) BY <1>1 DEF Reads
  <1>4. whole[c] = Join(got[c], Cons(ArrayOf(w), rest[c])) /\ ArrayOf(w) \in P /\ cnt[d] = Len(w)
    <2>1. /\ whole[c] = Join(got[c], Cons(ArrayOf(whole[c + 1]), rest[c]))
          /\ ArrayOf(whole[c + 1]) \in P /\ cnt[c + 1] = Len(whole[c + 1])
      BY <1>1 DEF Reads
    <2> QED BY <1>1, <2>1
  <1>5. Len(w) = Len(g) BY <1>4
  <1>6. x = <<>>
    <2> HIDE DEF g, x, w
    <2>1. Len(w) = Len(g) + Len(x) /\ Len(x) \in Nat /\ Len(g) \in Nat
      BY <1>2, <1>3, Concat DEF Join
    <2>2. Len(x) = 0 BY <1>5, <2>1
    <2> QED BY <1>2, <2>2
  <1> HIDE DEF c, x, g, w, t
  <1>7. w = g /\ todo[d] = t BY <1>2, <1>3, <1>6, JoinEmpty
  <1> QED BY <1>4, <1>7 DEF c, g, t

\* It is the next value of the array around it.
LEMMA ArrayClosed ==
  ASSUME NEW P, NEW d \in Nat, d > 0, NEW got, NEW cnt, NEW whole, NEW rest, NEW todo,
         Reads(P, d, got, cnt, whole, rest, todo),
         cnt[d] = Len(got[d]),
         NEW got2, Grown(P, d - 1, got, ArrayOf(got[d]), got2),
         NEW cnt2 \in [1 .. d - 1 -> Nat], \A j \in 1 .. d - 1 : cnt2[j] = cnt[j]
  PROVE  Reads(P, d - 1, got2, cnt2, whole, rest, todo)
  <1> DEFINE c == d - 1
             g == got[d]
  <1>1. c \in Nat /\ c \in 0 .. d /\ c + 1 = d OBVIOUS
  <1>2. rest[c] \in Seq(P) /\ got[c] \in Seq(P)
    <2> HIDE DEF c
    <2> QED BY <1>1 DEF Reads
  <1>3. ArrayOf(g) \in P /\ whole[c] = Join(got[c], Cons(ArrayOf(g), rest[c])) BY ArrayWhole
  <1> HIDE DEF c, g
  <1>8. /\ got2[c] = Append(got[c], ArrayOf(g)) /\ got2 \in [0 .. c -> Seq(P)]
        /\ \A j \in 0 .. c - 1 : got2[j] = got[j]
    BY DEF Grown, c, g
  <1>9. whole[c] = Join(got2[c], rest[c])
    <2>1. Join(got[c], Cons(ArrayOf(g), rest[c])) = Join(Append(got[c], ArrayOf(g)), rest[c])
      <3> DEFINE a == ArrayOf(g)
                 y == got[c]
                 z == rest[c]
      <3>1. a \in P /\ y \in Seq(P) /\ z \in Seq(P) BY <1>2, <1>3
      <3> HIDE DEF a, y, z
      <3>2. Join(y, Cons(a, z)) = Join(Append(y, a), z) BY <3>1, AppendJoin
      <3> QED BY <3>2 DEF a, y, z
    <2> QED BY <1>3, <1>8, <2>1
  <1>10. ASSUME NEW j \in 0 .. c - 1
         PROVE  /\ whole[j] = Join(got2[j], Cons(ArrayOf(whole[j + 1]), rest[j]))
                /\ ArrayOf(whole[j + 1]) \in P /\ cnt2[j + 1] = Len(whole[j + 1])
    <2>1. j \in 0 .. d - 1 /\ j + 1 \in 1 .. d - 1 BY <1>1 DEF c
    <2>2. /\ whole[j] = Join(got[j], Cons(ArrayOf(whole[j + 1]), rest[j]))
          /\ ArrayOf(whole[j + 1]) \in P /\ cnt[j + 1] = Len(whole[j + 1])
      BY <2>1 DEF Reads
    <2>3. got2[j] = got[j] /\ cnt2[j + 1] = cnt[j + 1] BY <1>8, <2>1
    <2> QED BY <2>2, <2>3
  <1>11. todo[0] = rest[0] BY DEF Reads
  <1>12. ASSUME NEW j \in 1 .. c PROVE todo[j] = Join(rest[j], todo[j - 1])
    <2>1. j \in 1 .. d BY <1>1 DEF c
    <2> QED BY <2>1 DEF Reads
  <1>13. whole \in [Nat -> Seq(P)] /\ rest \in [Nat -> Seq(P)] /\ todo \in [Nat -> Seq(P)] BY DEF Reads
  <1>14. got2 \in [0 .. c -> Seq(P)] /\ cnt2 \in [1 .. c -> Nat] BY <1>8 DEF c
  <1>15. Reads(P, c, got2, cnt2, whole, rest, todo)
    BY <1>9, <1>10, <1>11, <1>12, <1>13, <1>14 DEF Reads
  <1> QED BY <1>15 DEF c

\* At level 0: what was read, and what is to come.
LEMMA Started ==
  ASSUME NEW P, NEW got, NEW cnt, got \in [0 .. 0 -> Seq(P)], cnt \in [1 .. 0 -> Nat],
         NEW us \in Seq(P)
  PROVE  \E whole, rest, todo :
           Reads(P, 0, got, cnt, whole, rest, todo) /\ todo[0] = us /\ whole[0] = Join(got[0], us)
  <1> DEFINE whole == [j \in Nat |-> Join(got[0], us)]
             rest == [j \in Nat |-> us]
  <1>1. Join(got[0], us) \in Seq(P)
    <2>1. got[0] \in Seq(P) OBVIOUS
    <2> QED BY <2>1, JoinType
  <1>2. whole \in [Nat -> Seq(P)] /\ rest \in [Nat -> Seq(P)] BY <1>1
  <1>3. whole[0] = Join(got[0], us) /\ rest[0] = us OBVIOUS
  <1> HIDE DEF whole, rest
  <1>4. Reads(P, 0, got, cnt, whole, rest, rest)
    <2>1. \A j \in 0 .. 0 - 1 : FALSE OBVIOUS
    <2>2. \A j \in 1 .. 0 : FALSE OBVIOUS
    <2> QED BY <1>2, <1>3, <2>1, <2>2 DEF Reads
  <1> QED BY <1>3, <1>4

-----------------------------------------------------------------------------
(* What the decoder has read of what was sent.                             *)

Frames(P) == [count : Nat, elems : Seq(P)]
GotIn(st, dec) == [j \in 0 .. Len(st) |-> IF j = 0 THEN dec ELSE st[j].elems]
CountIn(st) == [j \in 1 .. Len(st) |-> st[j].count]

\* The values sent, and their elements.
SentParts == UNION {Parts[sent[j]] : j \in DOMAIN sent}

\* The buffer begins with what is to come of the innermost array, and of those around it.
Reading ==
  sent # <<>> =>
    /\ stack \in Seq(Frames(SentParts)) /\ decoded \in Seq(SentParts)
    /\ \E whole, rest, todo :
         /\ Reads(SentParts, Len(stack), GotIn(stack, decoded), CountIn(stack), whole, rest, todo)
         /\ Rest(wire, head + 1) = EncodeBatch(todo[Len(stack)])
         /\ ~ lost => whole[0] = sent

\* The call that found nothing more was the last one.
Settled == answer = "none" /\ fed = Len(wire) /\ sent # <<>> => pc = "idle"

LEMMA GotType ==
  ASSUME NEW P, NEW st \in Seq(Frames(P)), NEW dec \in Seq(P)
  PROVE  /\ GotIn(st, dec) \in [0 .. Len(st) -> Seq(P)] /\ CountIn(st) \in [1 .. Len(st) -> Nat]
         /\ Len(st) \in Nat
         /\ \A j \in 1 .. Len(st) : GotIn(st, dec)[j] = st[j].elems /\ CountIn(st)[j] = st[j].count
         /\ GotIn(st, dec)[0] = dec
  <1>1. Len(st) \in Nat OBVIOUS
  <1>2. ASSUME NEW j \in 1 .. Len(st)
        PROVE  st[j].elems \in Seq(P) /\ st[j].count \in Nat
    <2>1. st[j] \in Frames(P) OBVIOUS
    <2> QED BY <2>1 DEF Frames
  <1>3. ASSUME NEW j \in 0 .. Len(st)
        PROVE  (IF j = 0 THEN dec ELSE st[j].elems) \in Seq(P)
    <2>1. j = 0 \/ j \in 1 .. Len(st) BY <1>1
    <2> QED BY <1>2, <2>1
  <1> QED BY <1>1, <1>2, <1>3 DEF GotIn, CountIn

\* What try_decode returns is the next element of the array below, or the next value.
LEMMA ReturnGot ==
  ASSUME NEW P, NEW below \in Seq(Frames(P)), decoded \in Seq(P), NEW v \in P, Return(below, v)
  PROVE  /\ stack' \in Seq(Frames(P)) /\ decoded' \in Seq(P) /\ Len(stack') = Len(below)
         /\ Grown(P, Len(below), GotIn(below, decoded), v, GotIn(stack', decoded'))
         /\ \A j \in 1 .. Len(below) : CountIn(stack')[j] = CountIn(below)[j]
  <1>1. CASE below = <<>>
    <2>1. stack' = <<>> /\ decoded' = Append(decoded, v) BY <1>1 DEF Return
    <2>2. stack' \in Seq(Frames(P)) /\ decoded' \in Seq(P) /\ Len(stack') = 0 /\ Len(below) = 0
      BY <1>1, <2>1
    <2>3. GotIn(stack', decoded')[0] = decoded' /\ GotIn(below, decoded)[0] = decoded
      <3>1. \A st, dec : 0 \in 0 .. Len(st) => GotIn(st, dec)[0] = dec BY DEF GotIn
      <3>2. 0 \in 0 .. Len(stack') /\ 0 \in 0 .. Len(below) BY <2>2
      <3> QED BY <3>1, <3>2
    <2>4. GotIn(stack', decoded') \in [0 .. 0 -> Seq(P)]
      <3>1. GotIn(stack', decoded') \in [0 .. Len(stack') -> Seq(P)] BY <2>2, GotType
      <3> QED BY <2>2, <3>1
    <2> QED BY <2>1, <2>2, <2>3, <2>4 DEF Grown
  <1>2. CASE below # <<>>
    <2> DEFINE d == Len(below)
               f == [below[d] EXCEPT !.elems = Append(@, v)]
    <2>1. d \in Nat /\ d > 0 /\ d \in 1 .. d BY <1>2
    <2>2. stack' = [below EXCEPT ![d] = f] /\ decoded' = decoded BY <1>2 DEF Return
    <2>3. below[d] \in Frames(P) BY <2>1
    <2>4. f \in Frames(P) /\ f.elems = Append(below[d].elems, v) /\ f.count = below[d].count
      <3> DEFINE b == below[d]
                 a == Append(b.elems, v)
      <3>1. b \in Frames(P) BY <2>3
      <3> HIDE DEF b
      <3>2. b.elems \in Seq(P) /\ b.count \in Nat /\ b = [count |-> b.count, elems |-> b.elems]
        BY <3>1 DEF Frames
      <3>3. a \in Seq(P) BY <3>2
      <3>4. f = [b EXCEPT !.elems = a] BY DEF b
      <3> HIDE DEF a, f
      <3>5. f = [count |-> b.count, elems |-> a] BY <3>2, <3>4
      <3>6. f \in Frames(P) BY <3>2, <3>3, <3>5 DEF Frames
      <3>7. f.elems = a /\ f.count = b.count BY <3>5
      <3> QED BY <3>6, <3>7 DEF a, b
    <2> HIDE DEF f
    <2>5. /\ stack' \in Seq(Frames(P)) /\ Len(stack') = d /\ stack'[d] = f
          /\ \A j \in 1 .. d : j # d => stack'[j] = below[j]
      <3>1. \A j \in 1 .. d : below[j] \in Frames(P) OBVIOUS
      <3>2. below \in [1 .. d -> Frames(P)] OBVIOUS
      <3> HIDE DEF d
      <3>3. stack' \in [1 .. d -> Frames(P)] BY <2>2, <2>4, <3>2
      <3>4. stack'[d] = f /\ \A j \in 1 .. d : j # d => stack'[j] = below[j] BY <2>1, <2>2, <3>2
      <3>5. stack' \in Seq(Frames(P)) /\ Len(stack') = d BY <2>1, <3>3
      <3> QED BY <3>4, <3>5
    <2> HIDE DEF d
    <2>6. decoded' \in Seq(P) BY <2>2
    <2>7. /\ \A j \in 1 .. d : /\ GotIn(stack', decoded')[j] = stack'[j].elems
                               /\ CountIn(stack')[j] = stack'[j].count
          /\ GotIn(stack', decoded')[0] = decoded'
      BY <2>5, <2>6, GotType
    <2>8. /\ \A j \in 1 .. d : /\ GotIn(below, decoded)[j] = below[j].elems
                               /\ CountIn(below)[j] = below[j].count
          /\ GotIn(below, decoded)[0] = decoded
      BY GotType DEF d
    <2>9. GotIn(stack', decoded')[d] = Append(GotIn(below, decoded)[d], v)
      BY <2>1, <2>4, <2>5, <2>7, <2>8
    <2>10. ASSUME NEW j \in 0 .. d - 1 PROVE GotIn(stack', decoded')[j] = GotIn(below, decoded)[j]
      <3>1. CASE j = 0 BY <2>2, <2>7, <2>8, <3>1
      <3>2. CASE j # 0
        <4>1. j \in 1 .. d /\ j # d BY <2>1, <3>2
        <4> QED BY <2>5, <2>7, <2>8, <4>1
      <3> QED BY <3>1, <3>2
    <2>11. ASSUME NEW j \in 1 .. d PROVE CountIn(stack')[j] = CountIn(below)[j]
      <3>1. stack'[j].count = below[j].count BY <2>4, <2>5
      <3> QED BY <2>7, <2>8, <3>1
    <2>12. GotIn(stack', decoded') \in [0 .. d -> Seq(P)]
      <3>1. GotIn(stack', decoded') \in [0 .. Len(stack') -> Seq(P)] BY <2>5, <2>6, GotType
      <3> QED BY <2>5, <3>1
    <2>13. Grown(P, d, GotIn(below, decoded), v, GotIn(stack', decoded'))
      BY <2>9, <2>10, <2>12 DEF Grown
    <2> QED BY <2>5, <2>6, <2>11, <2>13 DEF d
  <1> QED BY <1>1, <1>2

\* What was sent.
LEMMA SentFacts ==
  ASSUME Inv, sent # <<>>
  PROVE  /\ wire \in Wires /\ wire \in Seq(Tokens) /\ wire = EncodeBatch(sent) /\ WellFormed(wire)
         /\ sent \in Seq(Values) /\ sent \in Seq(SentParts) /\ SentParts \subseteq Values
         /\ \A v \in SentParts : v.type = "array" => v.elems \in Seq(SentParts)
  <1>1. sent \in Batches /\ wire = EncodeBatch(sent) /\ wire \in Wires BY DEF Inv, WireOK
  <1>2. sent \in Seq(Values) BY <1>1, ValuesAssumption
  <1>3. wire \in Seq(Tokens) /\ WellFormed(wire) BY <1>1, WireSeq, EncoderWritesItems
  <1>4. \A j \in DOMAIN sent : sent[j] \in Values BY <1>2
  <1>5. SentParts \subseteq Values
    <2>1. \A j \in DOMAIN sent : Parts[sent[j]] \subseteq Values BY <1>4, PartsAreClosed
    <2> QED BY <2>1 DEF SentParts
  <1>6. ASSUME NEW j \in DOMAIN sent PROVE sent[j] \in SentParts
    <2>1. sent[j] \in Parts[sent[j]] BY <1>4, PartsAreClosed
    <2> QED BY <2>1 DEF SentParts
  <1>7. sent \in Seq(SentParts) BY <1>2, <1>6
  <1>8. ASSUME NEW v \in SentParts, v.type = "array" PROVE v.elems \in Seq(SentParts)
    <2>1. PICK j \in DOMAIN sent : v \in Parts[sent[j]] BY DEF SentParts
    <2>2. \A i \in DOMAIN v.elems : v.elems[i] \in Parts[sent[j]] BY <1>4, <1>8, <2>1, PartsAreClosed
    <2>3. \A i \in DOMAIN v.elems : v.elems[i] \in SentParts BY <2>2 DEF SentParts
    <2> DEFINE es == v.elems
    <2>4. es \in Seq(Values) BY <1>5, <1>8, Variants
    <2>5. \A i \in DOMAIN es : es[i] \in SentParts BY <2>3
    <2> HIDE DEF es
    <2>6. es \in Seq(SentParts) BY <2>4, <2>5
    <2> QED BY <2>6 DEF es
  <1> QED BY <1>1, <1>2, <1>3, <1>5, <1>7, <1>8

\* The value whose line ends at e is v.
Came(v, m, e) ==
  /\ MarkOf(v) = m /\ LineText(v) = Text(wire, head + 1, e) /\ e = LineEndOf(v, head + 1)
  /\ v.type = "bulk" => SubSeq(wire, e + 2, e + 1 + Len(v.s)) = v.s

\* The line decode finds is that of the first value to come.
LEMMA FirstValue ==
  ASSUME Inv, sent # <<>>, NEW m, NEW e, At(m, e),
         NEW vs \in Seq(SentParts), Rest(wire, head + 1) = EncodeBatch(vs)
  PROVE  \E v \in SentParts, us \in Seq(SentParts) :
           /\ vs = Cons(v, us) /\ Came(v, m, e)
           /\ Rest(wire, NextOf(v, head + 1)) = EncodeBatch(Join(Opened(v), us))
  <1> DEFINE i == head + 1
  <1>1. /\ wire \in Wires /\ wire \in Seq(Tokens) /\ SentParts \subseteq Values
    BY SentFacts
  <1>2. /\ i \in 1 .. Len(wire) /\ wire[i] = m /\ IsLineEnd(wire, i, Len(wire), e)
        /\ i \in Nat /\ i \in 1 .. Len(wire) + 1
    BY AtFacts
  <1> HIDE DEF i
  <1>3. vs \in Seq(Values) /\ Rest(wire, i) = EncodeBatch(vs)
    <2>1. \A j \in DOMAIN vs : vs[j] \in Values BY <1>1
    <2>2. vs \in Seq(Values) BY <2>1
    <2> QED BY <2>2 DEF i
  <1> DEFINE v == vs[1]
             us == Tail(vs)
  <1>4. /\ vs # <<>> /\ v \in Values /\ us \in Seq(Values) /\ vs = <<v>> \o us
    BY <1>1, <1>2, <1>3, SomethingFirst
  <1>5. v \in SentParts /\ us \in Seq(SentParts) /\ vs = Cons(v, us) BY <1>4, FirstAndRest
  <1> HIDE DEF v, us
  <1>6. Rest(wire, i) = EncodeBatch(<<v>> \o us) BY <1>3, <1>4
  <1>7. /\ wire[i] = MarkOf(v) /\ IsLineEnd(wire, i, Len(wire), LineEndOf(v, i))
        /\ Text(wire, i, LineEndOf(v, i)) = LineText(v)
    BY <1>1, <1>2, <1>4, <1>6, ValueLine
  <1>8. e = LineEndOf(v, i) BY <1>1, <1>2, <1>7, LineEndUnique
  <1>9. v.type = "bulk" => SubSeq(wire, LineEndOf(v, i) + 2, LineEndOf(v, i) + 1 + Len(v.s)) = v.s
    BY <1>1, <1>2, <1>4, <1>6, ValueItem
  <1>10. Rest(wire, NextOf(v, i)) = EncodeBatch(Opened(v) \o us)
    BY <1>1, <1>2, <1>4, <1>6, ValueItem
  <1>11. Came(v, m, e) BY <1>2, <1>7, <1>8, <1>9 DEF Came, i
  <1>12. Rest(wire, NextOf(v, head + 1)) = EncodeBatch(Join(Opened(v), us)) BY <1>10 DEF i, Join
  <1> QED BY <1>5, <1>11, <1>12

\* Where Reading is: what is to come, of each level.
ReadingBy(whole, rest, todo) ==
  /\ Reads(SentParts, Len(stack), GotIn(stack, decoded), CountIn(stack), whole, rest, todo)
  /\ Rest(wire, head + 1) = EncodeBatch(todo[Len(stack)])
  /\ ~ lost => whole[0] = sent

\* The invariant without the case that it does not speak of.
LEMMA ReadingFacts ==
  ASSUME Reading, sent # <<>>
  PROVE  /\ stack \in Seq(Frames(SentParts)) /\ decoded \in Seq(SentParts) /\ Len(stack) \in Nat
         /\ \E whole, rest, todo : ReadingBy(whole, rest, todo)
  <1>1. stack \in Seq(Frames(SentParts)) /\ decoded \in Seq(SentParts) BY DEF Reading
  <1>2. Len(stack) \in Nat BY <1>1
  <1> QED BY <1>1, <1>2 DEF Reading, ReadingBy

\* The array decode is in lacks elements.
LEMMA AtItemMore ==
  ASSUME stack \in Seq(Frames(SentParts)), decoded \in Seq(SentParts), AtItem
  PROVE  More(Len(stack), GotIn(stack, decoded), CountIn(stack))
  <1> SUFFICES ASSUME Len(stack) > 0
               PROVE  CountIn(stack)[Len(stack)] # Len(GotIn(stack, decoded)[Len(stack)])
    BY DEF More
  <1>1. Len(stack) \in 1 .. Len(stack) /\ stack # <<>> OBVIOUS
  <1>2. /\ GotIn(stack, decoded)[Len(stack)] = stack[Len(stack)].elems
        /\ CountIn(stack)[Len(stack)] = stack[Len(stack)].count
    BY <1>1, GotType
  <1> QED BY <1>1, <1>2 DEF AtItem, Full, Top

\* A value that is no array is taken: it is the one that comes first.
LEMMA LeafTaken ==
  ASSUME Inv, Reading, sent # <<>>, UNCHANGED <<sent, wire, fed, lost>>,
         NEW m, NEW e, At(m, e), NEW u, Return(stack, u),
         \A v \in SentParts : Came(v, m, e) => v = u /\ Opened(v) = <<>> /\ head' + 1 = NextOf(v, head + 1)
  PROVE  Reading'
  <1> DEFINE P == SentParts
             d == Len(stack)
             got == GotIn(stack, decoded)
             got2 == GotIn(stack', decoded')
             cnt == CountIn(stack)
             cnt2 == CountIn(stack')
  <1>1. PICK whole, rest, todo : ReadingBy(whole, rest, todo) BY ReadingFacts
  <1>2. stack \in Seq(Frames(P)) /\ decoded \in Seq(P) /\ d \in Nat BY ReadingFacts
  <1>3. Reads(P, d, got, cnt, whole, rest, todo) /\ Rest(wire, head + 1) = EncodeBatch(todo[d])
    BY <1>1 DEF ReadingBy
  <1>4. todo[d] \in Seq(P) BY <1>2, <1>3 DEF Reads
  <1>5. PICK v \in P, us \in Seq(P) :
          /\ todo[d] = Cons(v, us) /\ Came(v, m, e)
          /\ Rest(wire, NextOf(v, head + 1)) = EncodeBatch(Join(Opened(v), us))
    BY <1>3, <1>4, FirstValue
  <1>6. v = u /\ Rest(wire, head' + 1) = EncodeBatch(us)
    <2>1. v = u /\ Opened(v) = <<>> /\ head' + 1 = NextOf(v, head + 1) BY <1>5
    <2>2. Join(<<>>, us) = us BY JoinEmpty
    <2> QED BY <1>5, <2>1, <2>2
  <1>7. SentParts' = SentParts /\ wire' = wire /\ sent' = sent /\ lost' = lost BY DEF SentParts
  <1>8. /\ stack' \in Seq(Frames(P)) /\ decoded' \in Seq(P) /\ Len(stack') = d
        /\ Grown(P, d, got, v, got2)
        /\ \A j \in 1 .. d : cnt2[j] = cnt[j]
    BY <1>2, <1>6, ReturnGot
  <1>9. /\ got2 \in [0 .. d -> Seq(P)] /\ cnt2 \in [1 .. d -> Nat] /\ cnt \in [1 .. d -> Nat]
    <2>1. got2 \in [0 .. Len(stack') -> Seq(P)] /\ cnt2 \in [1 .. Len(stack') -> Nat] BY <1>8, GotType
    <2>2. cnt \in [1 .. d -> Nat] BY <1>2, GotType
    <2> QED BY <1>8, <2>1, <2>2
  <1>10. More(d, got, cnt)
    <2>1. AtItem BY DEF At
    <2> QED BY <1>2, <2>1, AtItemMore
  <1>w. Reads(P, d, got, cnt, whole, rest, todo) => whole \in [Nat -> Seq(P)] BY DEF Reads
  <1>l. ~ lost => whole[0] = sent BY <1>1 DEF ReadingBy
  <1>c. cnt2 = cnt
    <2> HIDE DEF cnt, cnt2, d
    <2> QED BY <1>8, <1>9
  <1> HIDE DEF P, got, got2, cnt, cnt2, d
  <1>11. PICK rest2, todo2 : Reads(P, d, got2, cnt, whole, rest2, todo2) /\ todo2[d] = us
    <2>1. d \in Nat /\ Reads(P, d, got, cnt, whole, rest, todo) BY <1>2, <1>3
    <2>2. todo[d] = Cons(v, us) BY <1>5
    <2>3. Grown(P, d, got, v, got2) BY <1>8
    <2> QED BY <1>10, <2>1, <2>2, <2>3, LeafRead
  <1>12. ReadingBy(whole, rest2, todo2)'
    BY <1>6, <1>7, <1>8, <1>11, <1>c, <1>l DEF ReadingBy, P, got2, cnt2
  <1> QED BY <1>7, <1>8, <1>12 DEF Reading, ReadingBy, P

\* What a value is, that comes with a marker.
LEMMA MarkedType ==
  ASSUME NEW v \in Values
  PROVE  /\ MarkOf(v) = "+" => v.type = "simple"
         /\ MarkOf(v) = "-" => v.type = "error"
         /\ MarkOf(v) = ":" => v.type = "integer"
         /\ MarkOf(v) = "*" => v.type = "array"
         /\ MarkOf(v) = "$" => v.type \in {"bulk", "null"}
  BY Variants DEF MarkOf

\* Each step, when what is read was sent.
LEMMA SimpleStringReads ==
  ASSUME Inv, Reading, sent # <<>>, NEW e, SimpleString(e)
  PROVE  Reading'
  <1> DEFINE u == [type |-> "simple", s |-> Text(wire, head + 1, e)]
  <1>1. /\ At("+", e) /\ TakeLine(e) /\ Return(stack, u) /\ UNCHANGED <<sent, wire, fed, lost>>
    BY DEF SimpleString
  <1>2. ASSUME NEW v \in SentParts, Came(v, "+", e)
        PROVE  v = u /\ Opened(v) = <<>> /\ head' + 1 = NextOf(v, head + 1)
    <2>1. v \in Values BY SentFacts
    <2>2. v.type = "simple" BY <1>2, <2>1, MarkedType DEF Came
    <2>3. v = [type |-> "simple", s |-> v.s] BY <2>1, <2>2, Variants
    <2>4. v.s = Text(wire, head + 1, e) /\ e = LineEndOf(v, head + 1) BY <1>2, <2>2 DEF Came, LineText
    <2>5. head' = e + 1 /\ e \in Int BY <1>1, AtFacts DEF TakeLine
    <2>6. head' + 1 = e + 2 BY <2>5
    <2> QED BY <2>2, <2>3, <2>4, <2>6 DEF Opened, NextOf
  <1> HIDE DEF u
  <1> QED BY <1>1, <1>2, LeafTaken

LEMMA ErrorReads ==
  ASSUME Inv, Reading, sent # <<>>, NEW e, Error(e)
  PROVE  Reading'
  <1> DEFINE u == [type |-> "error", s |-> Text(wire, head + 1, e)]
  <1>1. /\ At("-", e) /\ TakeLine(e) /\ Return(stack, u) /\ UNCHANGED <<sent, wire, fed, lost>>
    BY DEF Error
  <1>2. ASSUME NEW v \in SentParts, Came(v, "-", e)
        PROVE  v = u /\ Opened(v) = <<>> /\ head' + 1 = NextOf(v, head + 1)
    <2>1. v \in Values BY SentFacts
    <2>2. v.type = "error" BY <1>2, <2>1, MarkedType DEF Came
    <2>3. v = [type |-> "error", s |-> v.s] BY <2>1, <2>2, Variants
    <2>4. v.s = Text(wire, head + 1, e) /\ e = LineEndOf(v, head + 1) BY <1>2, <2>2 DEF Came, LineText
    <2>5. head' = e + 1 /\ e \in Int BY <1>1, AtFacts DEF TakeLine
    <2>6. head' + 1 = e + 2 BY <2>5
    <2> QED BY <2>2, <2>3, <2>4, <2>6 DEF Opened, NextOf
  <1> HIDE DEF u
  <1> QED BY <1>1, <1>2, LeafTaken

LEMMA IntegerReads ==
  ASSUME Inv, Reading, sent # <<>>, NEW e, NEW n \in DOMAIN Numeral, Integer(e, n)
  PROVE  Reading'
  <1> DEFINE u == [type |-> "integer", n |-> n]
  <1>1. /\ At(":", e) /\ TakeLine(e) /\ Return(stack, u) /\ UNCHANGED <<sent, wire, fed, lost>>
        /\ IsNumber(Text(wire, head + 1, e), n)
    BY DEF Integer
  <1>2. ASSUME NEW v \in SentParts, Came(v, ":", e)
        PROVE  v = u /\ Opened(v) = <<>> /\ head' + 1 = NextOf(v, head + 1)
    <2>1. v \in Values BY SentFacts
    <2>2. v.type = "integer" BY <1>2, <2>1, MarkedType DEF Came
    <2>3. v = [type |-> "integer", n |-> v.n] /\ v.n \in DOMAIN Numeral BY <2>1, <2>2, Variants
    <2>4. IsNumber(Text(wire, head + 1, e), v.n) /\ e = LineEndOf(v, head + 1)
      BY <1>2, <2>2, <2>3 DEF Came, LineText, IsNumber
    <2>5. v.n = n BY <1>1, <2>4, NumberUnique
    <2>6. head' = e + 1 /\ e \in Int BY <1>1, AtFacts DEF TakeLine
    <2>7. head' + 1 = e + 2 BY <2>6
    <2> QED BY <2>2, <2>3, <2>4, <2>5, <2>7 DEF Opened, NextOf
  <1> HIDE DEF u
  <1> QED BY <1>1, <1>2, LeafTaken

LEMMA NullValueReads ==
  ASSUME Inv, Reading, sent # <<>>, NEW e, NullValue(e)
  PROVE  Reading'
  <1>1. PICK m \in {"$", "*"} : At(m, e) BY DEF NullValue
  <1>2. /\ TakeLine(e) /\ Return(stack, Null) /\ UNCHANGED <<sent, wire, fed, lost>>
        /\ IsNumber(Text(wire, head + 1, e), -1)
    BY DEF NullValue
  <1>3. ASSUME NEW v \in SentParts, Came(v, m, e)
        PROVE  v = Null /\ Opened(v) = <<>> /\ head' + 1 = NextOf(v, head + 1)
    <2>1. v \in Values BY SentFacts
    <2>2. v.type \in {"bulk", "null", "array"} BY <1>1, <1>3, <2>1, MarkedType DEF Came
    <2>3. v.type # "bulk"
      <3> SUFFICES ASSUME v.type = "bulk" PROVE FALSE OBVIOUS
      <3>1. Len(v.s) \in DOMAIN Numeral /\ v.s \in Seq(Tokens) BY <2>1, Variants, ValuesAssumption
      <3>2. IsNumber(Text(wire, head + 1, e), Len(v.s)) BY <1>3, <3>1 DEF Came, LineText, IsNumber
      <3>3. Len(v.s) = -1 BY <1>2, <3>2, NumberUnique
      <3> QED BY <3>1, <3>3
    <2>4. v.type # "array"
      <3> SUFFICES ASSUME v.type = "array" PROVE FALSE OBVIOUS
      <3>1. Len(v.elems) \in DOMAIN Numeral /\ v.elems \in Seq(Values) BY <2>1, Variants, ValuesAssumption
      <3>2. IsNumber(Text(wire, head + 1, e), Len(v.elems)) BY <1>3, <3>1 DEF Came, LineText, IsNumber
      <3>3. Len(v.elems) = -1 BY <1>2, <3>2, NumberUnique
      <3> QED BY <3>1, <3>3
    <2>5. v.type = "null" /\ v = Null BY <2>1, <2>2, <2>3, <2>4, Variants
    <2>6. head' = e + 1 /\ e \in Int /\ e = LineEndOf(v, head + 1) BY <1>1, <1>2, <1>3, AtFacts DEF TakeLine, Came
    <2>7. head' + 1 = e + 2 BY <2>6
    <2> QED BY <2>5, <2>6, <2>7 DEF Opened, NextOf
  <1> QED BY <1>1, <1>2, <1>3, LeafTaken

LEMMA BulkStringReads ==
  ASSUME Inv, Reading, sent # <<>>, NEW e, NEW n \in DOMAIN Numeral, BulkString(e, n)
  PROVE  Reading'
  <1> DEFINE u == Bulk(SubSeq(wire, e + 2, e + 1 + n))
  <1>1. /\ At("$", e) /\ Return(stack, u) /\ UNCHANGED <<sent, wire, fed, lost>>
        /\ IsNumber(Text(wire, head + 1, e), n) /\ n >= 0 /\ head' = e + 1 + n + 2
    BY DEF BulkString
  <1>2. ASSUME NEW v \in SentParts, Came(v, "$", e)
        PROVE  v = u /\ Opened(v) = <<>> /\ head' + 1 = NextOf(v, head + 1)
    <2>1. v \in Values BY SentFacts
    <2>2. v.type = "bulk"
      <3> SUFFICES ASSUME v.type = "null" PROVE FALSE BY <1>2, <2>1, MarkedType DEF Came
      <3>1. IsNumber(Text(wire, head + 1, e), -1)
        BY <1>2, NumeralAssumption DEF Came, LineText, IsNumber
      <3>2. n = -1 BY <1>1, <3>1, NumberUnique
      <3> QED BY <1>1, <3>2
    <2>3. v = [type |-> "bulk", s |-> v.s] /\ Len(v.s) \in DOMAIN Numeral
      BY <2>1, <2>2, Variants, ValuesAssumption
    <2>4. IsNumber(Text(wire, head + 1, e), Len(v.s)) /\ e = LineEndOf(v, head + 1)
      BY <1>2, <2>2, <2>3 DEF Came, LineText, IsNumber
    <2>5. Len(v.s) = n /\ n \in Int BY <1>1, <2>4, NumberUnique
    <2>6. SubSeq(wire, e + 2, e + 1 + n) = v.s BY <1>2, <2>2, <2>5 DEF Came
    <2>7. v = u BY <2>3, <2>6 DEF Bulk
    <2>8. e \in Int BY <1>1, AtFacts
    <2>9. head' + 1 = e + (n + 4) BY <1>1, <2>5, <2>8
    <2>10. head' + 1 = NextOf(v, head + 1) BY <2>2, <2>4, <2>5, <2>9 DEF NextOf
    <2> QED BY <2>2, <2>7, <2>10 DEF Opened
  <1> HIDE DEF u
  <1> QED BY <1>1, <1>2, LeafTaken

\* Only reset begins another stream.
LEMMA SentKept ==
  ASSUME [Next]_vars, ~ Reset
  PROVE  UNCHANGED sent
  BY DEF Next, vars, Feed, Decode, DecodeItem, SimpleString, Error, NullValue, Integer, BulkString,
         ArrayHeader, ArrayDone, Incomplete, Fails

\* What takes an item does not answer "none".
LEMMA TookSettled ==
  ASSUME Inv, Settled, TookItem, pc = "decode", answer' = "none", fed' = Len(wire'), sent' # <<>>
  PROVE  pc' = "idle"
  BY DEF Settled, TookItem

LEMMA ArrayHeaderReads ==
  ASSUME Inv, Reading, sent # <<>>, NEW e, NEW n \in DOMAIN Numeral, ArrayHeader(e, n)
  PROVE  Reading'
  <1> DEFINE P == SentParts
             d == Len(stack)
             got == GotIn(stack, decoded)
             got2 == GotIn(stack', decoded')
             cnt == CountIn(stack)
             cnt2 == CountIn(stack')
             f == [count |-> n, elems |-> <<>>]
  <1>0. /\ At("*", e) /\ TakeLine(e) /\ UNCHANGED <<sent, wire, fed, lost, decoded>>
        /\ IsNumber(Text(wire, head + 1, e), n) /\ n >= 0 /\ stack' = Append(stack, f)
    BY DEF ArrayHeader
  <1>1. PICK whole, rest, todo : ReadingBy(whole, rest, todo) BY ReadingFacts
  <1>2. stack \in Seq(Frames(P)) /\ decoded \in Seq(P) /\ d \in Nat BY ReadingFacts
  <1>3. Reads(P, d, got, cnt, whole, rest, todo) /\ Rest(wire, head + 1) = EncodeBatch(todo[d])
    BY <1>1 DEF ReadingBy
  <1>4. todo[d] \in Seq(P) BY <1>2, <1>3 DEF Reads
  <1>5. PICK v \in P, us \in Seq(P) :
          /\ todo[d] = Cons(v, us) /\ Came(v, "*", e)
          /\ Rest(wire, NextOf(v, head + 1)) = EncodeBatch(Join(Opened(v), us))
    BY <1>0, <1>3, <1>4, FirstValue
  <1> DEFINE es == v.elems
  <1>6. v.type = "array" /\ v = ArrayOf(es) /\ es \in Seq(P) /\ Len(es) \in DOMAIN Numeral
    <2>1. v \in Values BY SentFacts
    <2>2. v.type = "array" BY <1>5, <2>1, MarkedType DEF Came
    <2> QED BY <2>1, <2>2, Variants, SentFacts, ValuesAssumption
  <1>7. Len(es) = n /\ n \in Nat
    <2>1. IsNumber(Text(wire, head + 1, e), Len(es)) BY <1>5, <1>6 DEF Came, LineText, IsNumber
    <2> QED BY <1>0, <2>1, NumberUnique
  <1>8. Rest(wire, head' + 1) = EncodeBatch(Join(es, us))
    <2>1. head' = e + 1 /\ e \in Int /\ e = LineEndOf(v, head + 1) BY <1>0, <1>5, AtFacts DEF TakeLine, Came
    <2>2. head' + 1 = e + 2 BY <2>1
    <2>3. head' + 1 = NextOf(v, head + 1) BY <1>6, <2>1, <2>2 DEF NextOf
    <2>4. Opened(v) = es BY <1>6 DEF Opened
    <2> QED BY <1>5, <2>3, <2>4
  <1>9. SentParts' = SentParts /\ wire' = wire /\ sent' = sent /\ lost' = lost
    BY <1>0 DEF SentParts
  <1>10. stack' \in Seq(Frames(P)) /\ decoded' \in Seq(P) /\ Len(stack') = d + 1
    <2>1. f \in Frames(P) BY <1>7 DEF Frames
    <2> HIDE DEF f
    <2> QED BY <1>0, <1>2, <2>1
  <1>11. Grew(P, d, got, cnt, Len(es), got2, cnt2)
    <2>1. /\ stack'[d + 1] = f /\ \A j \in 1 .. d : stack'[j] = stack[j]
      <3> HIDE DEF f
      <3> QED BY <1>0, <1>2
    <2>2. /\ got2 \in [0 .. Len(stack') -> Seq(P)] /\ cnt2 \in [1 .. Len(stack') -> Nat]
          /\ \A j \in 1 .. Len(stack') : got2[j] = stack'[j].elems /\ cnt2[j] = stack'[j].count
          /\ got2[0] = decoded'
      BY <1>10, GotType
    <2>3. /\ \A j \in 1 .. d : got[j] = stack[j].elems /\ cnt[j] = stack[j].count
          /\ got[0] = decoded
      BY <1>2, GotType
    <2>4. decoded' = decoded BY <1>0
    <2>5. f.elems = <<>> /\ f.count = n OBVIOUS
    <2> HIDE DEF got, got2, cnt, cnt2, d, f
    <2>6. got2 \in [0 .. d + 1 -> Seq(P)] /\ cnt2 \in [1 .. d + 1 -> Nat] BY <1>10, <2>2
    <2>7. \A j \in 1 .. d + 1 : got2[j] = stack'[j].elems /\ cnt2[j] = stack'[j].count
      BY <1>10, <2>2
    <2>8. d \in Nat /\ d + 1 \in 1 .. d + 1 BY <1>2 DEF d
    <2>9. got2[d + 1] = <<>> /\ cnt2[d + 1] = Len(es) BY <1>7, <2>1, <2>5, <2>7, <2>8
    <2>10. ASSUME NEW j \in 1 .. d PROVE got2[j] = got[j] /\ cnt2[j] = cnt[j]
      <3>1. j \in 1 .. d + 1 BY <2>8
      <3> QED BY <2>1, <2>3, <2>7, <3>1
    <2>11. ASSUME NEW j \in 0 .. d PROVE got2[j] = got[j]
      <3>1. j = 0 \/ j \in 1 .. d BY <2>8
      <3> QED BY <2>2, <2>3, <2>4, <2>10, <3>1
    <2> QED BY <2>6, <2>9, <2>10, <2>11 DEF Grew
  <1>12. More(d, got, cnt)
    <2>1. AtItem BY <1>0 DEF At
    <2> QED BY <1>2, <2>1, AtItemMore
  <1>l. ~ lost => whole[0] = sent BY <1>1 DEF ReadingBy
  <1> HIDE DEF P, got, got2, cnt, cnt2, d, es
  <1>13. PICK whole2, rest2, todo2 :
           /\ Reads(P, d + 1, got2, cnt2, whole2, rest2, todo2)
           /\ todo2[d + 1] = Join(es, us)
           /\ whole2[0] = whole[0]
    <2>1. d \in Nat /\ Reads(P, d, got, cnt, whole, rest, todo) BY <1>2, <1>3 DEF d
    <2>2. es \in Seq(P) BY <1>6
    <2>3. ArrayOf(es) \in P /\ todo[d] = Cons(ArrayOf(es), us) BY <1>5, <1>6
    <2> QED BY <1>11, <1>12, <2>1, <2>2, <2>3, ArrayOpened
  <1>14. ReadingBy(whole2, rest2, todo2)'
    BY <1>8, <1>9, <1>10, <1>13, <1>l DEF ReadingBy, P, got2, cnt2
  <1> QED BY <1>9, <1>10, <1>14 DEF Reading, ReadingBy, P

\* The stack without its last array.
LEMMA FrontFrames ==
  ASSUME NEW F, NEW st \in Seq(F), st # <<>>
  PROVE  /\ Front(st) \in Seq(F) /\ Len(Front(st)) = Len(st) - 1 /\ Len(st) \in Nat /\ Len(st) > 0
         /\ \A j \in 1 .. Len(st) - 1 : Front(st)[j] = st[j]
  <1> DEFINE n == Len(st)
  <1>1. n \in Nat /\ n > 0 OBVIOUS
  <1>2. \A j \in 1 .. n - 1 : st[j] \in F OBVIOUS
  <1> HIDE DEF n
  <1>3. 1 \in Int /\ n - 1 \in Int BY <1>1
  <1> DEFINE s == SubSeq(st, 1, n - 1)
  <1>4. /\ s \in Seq(F) /\ Len(s) = IF 1 <= n - 1 THEN (n - 1) - 1 + 1 ELSE 0
        /\ \A j \in 1 .. (n - 1) - 1 + 1 : s[j] = st[1 + j - 1]
    BY <1>2, <1>3, SubSeqProperties
  <1>5. (IF 1 <= n - 1 THEN (n - 1) - 1 + 1 ELSE 0) = n - 1 /\ (n - 1) - 1 + 1 = n - 1 BY <1>1
  <1> HIDE DEF s
  <1>6. \A j \in 1 .. n - 1 : s[j] = st[j]
    <2>1. ASSUME NEW j \in 1 .. n - 1 PROVE s[j] = st[j]
      <3>1. 1 + j - 1 = j /\ j \in 1 .. (n - 1) - 1 + 1 BY <1>1, <1>5
      <3>2. s[j] = st[1 + j - 1] BY <1>4, <3>1
      <3> QED BY <3>1, <3>2
    <2> QED BY <2>1
  <1>7. Front(st) = s BY DEF Front, s, n
  <1> QED BY <1>1, <1>4, <1>5, <1>6, <1>7 DEF n

LEMMA ArrayDoneReads ==
  ASSUME Inv, Reading, sent # <<>>, ArrayDone
  PROVE  Reading'
  <1> DEFINE P == SentParts
             d == Len(stack)
             below == Front(stack)
             got == GotIn(stack, decoded)
             gotB == GotIn(below, decoded)
             got2 == GotIn(stack', decoded')
             cnt == CountIn(stack)
             cntB == CountIn(below)
             cnt2 == CountIn(stack')
             a == ArrayOf(got[d])
  <1>0. /\ Full /\ Return(below, ArrayOf(Top.elems)) /\ UNCHANGED <<sent, wire, fed, head, lost>>
    BY DEF ArrayDone
  <1>1. PICK whole, rest, todo : ReadingBy(whole, rest, todo) BY ReadingFacts
  <1>2. stack \in Seq(Frames(P)) /\ decoded \in Seq(P) /\ d \in Nat BY ReadingFacts
  <1>3. Reads(P, d, got, cnt, whole, rest, todo) /\ Rest(wire, head + 1) = EncodeBatch(todo[d])
        /\ (~ lost => whole[0] = sent)
    BY <1>1 DEF ReadingBy
  <1>4. /\ below \in Seq(Frames(P)) /\ Len(below) = d - 1 /\ d > 0
        /\ \A j \in 1 .. d - 1 : below[j] = stack[j]
    <2>1. stack # <<>> BY <1>0 DEF Full
    <2> QED BY <1>2, <2>1, FrontFrames
  <1>5. d \in 1 .. d /\ d - 1 \in Nat BY <1>2, <1>4
  <1>6. /\ \A j \in 1 .. d : got[j] = stack[j].elems /\ cnt[j] = stack[j].count
        /\ got[0] = decoded
    BY <1>2, GotType
  <1>7. cnt[d] = Len(got[d]) /\ Top.elems = got[d] BY <1>0, <1>5, <1>6 DEF Full, Top
  <1>8. /\ \A j \in 1 .. d - 1 : gotB[j] = below[j].elems /\ cntB[j] = below[j].count
        /\ gotB[0] = decoded
    <2>1. /\ \A j \in 1 .. Len(below) : gotB[j] = below[j].elems /\ cntB[j] = below[j].count
          /\ gotB[0] = decoded
      <3>1. below \in Seq(Frames(P)) BY <1>4
      <3> HIDE DEF below
      <3> QED BY <1>2, <3>1, GotType
    <2> QED BY <1>4, <2>1
  <1> HIDE DEF below
  <1>9. /\ \A j \in 1 .. d - 1 : gotB[j] = got[j] /\ cntB[j] = cnt[j]
        /\ gotB[0] = got[0]
    <2> HIDE DEF got, gotB, cnt, cntB
    <2>1. ASSUME NEW j \in 1 .. d - 1 PROVE gotB[j] = got[j] /\ cntB[j] = cnt[j]
      <3>1. j \in 1 .. d BY <1>2
      <3> QED BY <1>4, <1>6, <1>8, <3>1
    <2> QED BY <1>6, <1>8, <2>1
  <1>10. a \in P /\ todo[d] = todo[d - 1]
    <2> HIDE DEF got, cnt, d, P
    <2> QED BY <1>2, <1>3, <1>4, <1>7, ArrayWhole DEF d
  <1>11. /\ stack' \in Seq(Frames(P)) /\ decoded' \in Seq(P) /\ Len(stack') = Len(below)
         /\ Grown(P, Len(below), gotB, a, got2)
         /\ \A j \in 1 .. Len(below) : cnt2[j] = cntB[j]
    <2>1. Return(below, a) BY <1>0, <1>7
    <2>2. below \in Seq(Frames(P)) /\ decoded \in Seq(P) BY <1>2, <1>4
    <2> HIDE DEF a
    <2> QED BY <1>10, <2>1, <2>2, ReturnGot
  <1>12. Grown(P, d - 1, got, a, got2)
    <2> HIDE DEF got, gotB, got2, a, d
    <2>1. Grown(P, d - 1, gotB, a, got2) BY <1>4, <1>11
    <2>2. ASSUME NEW j \in 0 .. d - 1 PROVE gotB[j] = got[j]
      <3>1. j = 0 \/ j \in 1 .. d - 1 BY <1>2 DEF d
      <3> QED BY <1>9, <3>1
    <2>3. d - 1 \in 0 .. d - 1 BY <1>5
    <2>4. gotB[d - 1] = got[d - 1] BY <2>2, <2>3
    <2>5. ASSUME NEW j \in 0 .. (d - 1) - 1 PROVE gotB[j] = got[j]
      <3>1. j \in 0 .. d - 1 BY <1>5
      <3> QED BY <2>2, <3>1
    <2> QED BY <2>1, <2>4, <2>5 DEF Grown
  <1>13. cnt2 \in [1 .. d - 1 -> Nat] /\ \A j \in 1 .. d - 1 : cnt2[j] = cnt[j]
    <2>1. cnt2 \in [1 .. Len(stack') -> Nat] BY <1>11, GotType
    <2> HIDE DEF cnt, cntB, cnt2, d
    <2> QED BY <1>4, <1>9, <1>11, <2>1
  <1>14. SentParts' = SentParts /\ wire' = wire /\ sent' = sent /\ lost' = lost /\ head' = head
    BY <1>0 DEF SentParts
  <1> HIDE DEF P, got, gotB, got2, cnt, cntB, cnt2, d
  <1>15. Reads(P, d - 1, got2, cnt2, whole, rest, todo)
    <2>1. d \in Nat /\ d > 0 /\ Reads(P, d, got, cnt, whole, rest, todo) BY <1>2, <1>3, <1>4 DEF d
    <2>2. cnt[d] = Len(got[d]) BY <1>7
    <2>3. cnt2 \in [1 .. d - 1 -> Nat] BY <1>13
    <2>4. \A j \in 1 .. d - 1 : cnt2[j] = cnt[j] BY <1>13
    <2> QED BY <1>12, <2>1, <2>2, <2>3, <2>4, ArrayClosed DEF a
  <1>16. Len(stack') = d - 1 BY <1>4, <1>11
  <1>17. ReadingBy(whole, rest, todo)'
    BY <1>3, <1>10, <1>14, <1>15, <1>16 DEF ReadingBy, P, got2, cnt2
  <1> QED BY <1>11, <1>14, <1>17 DEF Reading, ReadingBy, P

\* The arrays are dropped: what is to come of them comes next, as values of their own.
LEMMA IncompleteReads ==
  ASSUME Inv, Reading, sent # <<>>, Incomplete
  PROVE  Reading'
  <1> DEFINE P == SentParts
             d == Len(stack)
  <1>0. /\ stack' = <<>> /\ lost' = (lost \/ stack # <<>>)
        /\ UNCHANGED <<sent, wire, fed, head, decoded>>
    BY DEF Incomplete
  <1>1. PICK whole, rest, todo : ReadingBy(whole, rest, todo) BY ReadingFacts
  <1>2. stack \in Seq(Frames(P)) /\ decoded \in Seq(P) /\ d \in Nat BY ReadingFacts
  <1>3. SentParts' = SentParts /\ wire' = wire /\ sent' = sent /\ head' = head /\ decoded' = decoded
    BY <1>0 DEF SentParts
  <1>4. CASE stack = <<>>
    <2>1. stack' = stack BY <1>0, <1>4
    <2>2. lost' => lost BY <1>0, <1>4
    <2>3. lost' = lost BY <1>0, <1>4 DEF Inv, TypeOK
    <2> QED BY <1>3, <2>1, <2>3 DEF Reading
  <1>5. CASE stack # <<>>
    <2>1. lost' BY <1>0, <1>5
    <2>2. todo[d] \in Seq(P) /\ Rest(wire, head + 1) = EncodeBatch(todo[d])
      BY <1>1, <1>2 DEF ReadingBy, Reads
    <2>3. stack' \in Seq(Frames(P)) /\ Len(stack') = 0 BY <1>0
    <2>4. /\ GotIn(stack', decoded') \in [0 .. 0 -> Seq(P)] /\ CountIn(stack') \in [1 .. 0 -> Nat]
      <3>1. decoded' \in Seq(P) BY <1>2, <1>3
      <3>2. /\ GotIn(stack', decoded') \in [0 .. Len(stack') -> Seq(P)]
            /\ CountIn(stack') \in [1 .. Len(stack') -> Nat]
        BY <2>3, <3>1, GotType
      <3> QED BY <2>3, <3>2
    <2> DEFINE us == todo[d]
               got2 == GotIn(stack', decoded')
               cnt2 == CountIn(stack')
    <2>5. PICK whole2, rest2, todo2 :
            /\ Reads(P, 0, got2, cnt2, whole2, rest2, todo2) /\ todo2[0] = us
            /\ whole2[0] = Join(got2[0], us)
      <3>1. us \in Seq(P) BY <2>2
      <3>2. got2 \in [0 .. 0 -> Seq(P)] BY <2>4
      <3>3. cnt2 \in [1 .. 0 -> Nat] BY <2>4
      <3> HIDE DEF us, got2, cnt2, P
      <3> QED BY <3>1, <3>2, <3>3, Started, SMTT(20)
    <2>6. ReadingBy(whole2, rest2, todo2)'
      <3> HIDE DEF got2, cnt2
      <3> QED BY <1>3, <2>1, <2>2, <2>3, <2>5 DEF ReadingBy, got2, cnt2
    <2>7. decoded' \in Seq(P) BY <1>2, <1>3
    <2> QED BY <1>3, <2>3, <2>6, <2>7 DEF Reading, ReadingBy
  <1> QED BY <1>4, <1>5

LEMMA InitReading == Init => Reading
  <1> SUFFICES ASSUME Init, sent # <<>> PROVE Reading BY DEF Reading
  <1> DEFINE P == SentParts
             got == GotIn(stack, decoded)
             cnt == CountIn(stack)
  <1>1. stack = <<>> /\ decoded = <<>> /\ head = 0 BY DEF Init
  <1>2. Inv BY InitInv
  <1>3. wire = EncodeBatch(sent) /\ wire \in Seq(Tokens) /\ sent \in Seq(P) BY <1>2, SentFacts
  <1>4. stack \in Seq(Frames(P)) /\ decoded \in Seq(P) /\ Len(stack) = 0 BY <1>1
  <1>5. got \in [0 .. 0 -> Seq(P)] /\ cnt \in [1 .. 0 -> Nat] /\ got[0] = <<>>
    <2>1. /\ got \in [0 .. Len(stack) -> Seq(P)] /\ cnt \in [1 .. Len(stack) -> Nat] /\ got[0] = decoded
      <3>1. stack \in Seq(Frames(P)) /\ decoded \in Seq(P) BY <1>4
      <3> HIDE DEF P
      <3> QED BY <3>1, GotType
    <2> QED BY <1>1, <1>4, <2>1
  <1>6. PICK whole, rest, todo :
          Reads(P, 0, got, cnt, whole, rest, todo) /\ todo[0] = sent /\ whole[0] = Join(got[0], sent)
    <2> HIDE DEF got, cnt, P
    <2> QED BY <1>3, <1>5, Started
  <1>7. whole[0] = sent BY <1>3, <1>5, <1>6, JoinEmpty
  <1>8. Rest(wire, head + 1) = EncodeBatch(sent)
    <2>1. head + 1 = 1 BY <1>1
    <2>2. Rest(wire, 1) = wire BY <1>3, SubSeqFull DEF Rest
    <2> QED BY <1>3, <2>1, <2>2
  <1>9. ReadingBy(whole, rest, todo) BY <1>4, <1>6, <1>7, <1>8 DEF ReadingBy
  <1> QED BY <1>4, <1>9 DEF Reading, ReadingBy

LEMMA NextReading ==
  ASSUME Inv, Reading, [Next]_vars
  PROVE  Reading'
  <1>1. CASE Reset
    <2>1. Init' => Reading' BY InitReading, PTL
    <2>2. Reset => Init' BY DEF Reset, Init
    <2> QED BY <1>1, <2>1, <2>2
  <1>2. CASE ~ Reset
    <2>1. UNCHANGED sent BY <1>2, SentKept
    <2>2. CASE sent = <<>> BY <2>1, <2>2 DEF Reading
    <2>3. CASE sent # <<>>
      <3>1. CASE \E n \in Lengths : Feed(n)
        <4>1. UNCHANGED <<sent, wire, head, stack, decoded, lost>> BY <3>1 DEF Feed
        <4>2. SentParts' = SentParts BY <4>1 DEF SentParts
        <4> QED BY <4>1, <4>2 DEF Reading
      <3>2. CASE Decode
        <4>1. UNCHANGED <<sent, wire, head, stack, decoded, lost>> BY <3>2 DEF Decode
        <4>2. SentParts' = SentParts BY <4>1 DEF SentParts
        <4> QED BY <4>1, <4>2 DEF Reading
      <3>3. CASE \E e \in Lengths : SimpleString(e) \/ Error(e) \/ NullValue(e)
        BY <2>3, <3>3, SimpleStringReads, ErrorReads, NullValueReads
      <3>4. CASE \E e \in Lengths, n \in DOMAIN Numeral : Integer(e, n) \/ BulkString(e, n) \/ ArrayHeader(e, n)
        BY <2>3, <3>4, IntegerReads, BulkStringReads, ArrayHeaderReads
      <3>5. CASE ArrayDone BY <2>3, <3>5, ArrayDoneReads
      <3>6. CASE Incomplete BY <2>3, <3>6, IncompleteReads
      <3>7. CASE Fails
        <4>1. ~ WellFormed(wire) BY <3>7, FailsOnlyMalformed DEF Fails
        <4> QED BY <2>3, <4>1, SentFacts
      <3>8. CASE UNCHANGED vars
        <4>1. UNCHANGED <<sent, wire, head, stack, decoded, lost>> BY <3>8 DEF vars
        <4>2. SentParts' = SentParts BY <4>1 DEF SentParts
        <4> QED BY <4>1, <4>2 DEF Reading
      <3> QED BY <1>2, <3>1, <3>2, <3>3, <3>4, <3>5, <3>6, <3>7, <3>8 DEF Next, DecodeItem
    <2> QED BY <2>2, <2>3
  <1> QED BY <1>1, <1>2

LEMMA InitSettled == Init => Settled
  BY DEF Init, Settled

LEMMA NextSettled ==
  ASSUME Inv, Settled, [Next]_vars
  PROVE  Settled'
  <1> SUFFICES ASSUME answer' = "none", fed' = Len(wire'), sent' # <<>> PROVE pc' = "idle"
    BY DEF Settled
  <1>1. CASE \E n \in Lengths : Feed(n) BY <1>1 DEF Feed
  <1>2. CASE Decode
    <2>1. UNCHANGED <<sent, wire, fed, head>> BY <1>2 DEF Decode
    <2>2. CASE head = fed BY <1>2, <2>2 DEF Decode
    <2>3. CASE head # fed
      <3>1. answer = "none" /\ fed = Len(wire) /\ sent # <<>> BY <1>2, <2>1, <2>3 DEF Decode
      <3>2. WellFormed(wire) BY <3>1, SentFacts
      <3> QED BY <2>3, <3>1, <3>2 DEF Inv, Drained
    <2> QED BY <2>2, <2>3
  <1>3. CASE \E e \in Lengths : SimpleString(e) \/ Error(e) \/ NullValue(e)
    <2>1. TookItem /\ pc = "decode"
      BY <1>3, SimpleStringTakes, ErrorTakes, NullValueTakes
         DEF SimpleString, Error, NullValue, At, AtItem
    <2> QED BY <2>1, TookSettled
  <1>4. CASE \E e \in Lengths, n \in DOMAIN Numeral : Integer(e, n) \/ BulkString(e, n) \/ ArrayHeader(e, n)
    <2>1. TookItem /\ pc = "decode"
      BY <1>4, IntegerTakes, BulkStringTakes, ArrayHeaderTakes
         DEF Integer, BulkString, ArrayHeader, At, AtItem
    <2> QED BY <2>1, TookSettled
  <1>5. CASE ArrayDone
    <2>1. TookItem /\ pc = "decode" BY <1>5, ArrayDoneTakes DEF ArrayDone
    <2> QED BY <2>1, TookSettled
  <1>6. CASE Incomplete BY <1>6 DEF Incomplete
  <1>7. CASE Fails BY <1>7 DEF Fails
  <1>8. CASE Reset BY <1>8 DEF Reset
  <1>9. CASE UNCHANGED vars BY <1>9 DEF vars, Settled
  <1> QED BY <1>1, <1>2, <1>3, <1>4, <1>5, <1>6, <1>7, <1>8, <1>9 DEF Next, DecodeItem

\* The three parts hold together.
LEMMA ReadingInvariance == Spec => [](Inv /\ Reading /\ Settled)
  <1>1. Init => Inv /\ Reading /\ Settled BY InitInv, InitReading, InitSettled
  <1>2. Inv /\ Reading /\ Settled /\ [Next]_vars => (Inv /\ Reading /\ Settled)'
    BY NextInv, NextReading, NextSettled
  <1> QED BY <1>1, <1>2, PTL DEF Spec

\* The invariant, at level 0.
LEMMA ReadSoFar ==
  ASSUME Inv, Reading, sent # <<>>, ~ lost
  PROVE  /\ decoded \in Seq(SentParts)
         /\ \E x \in Seq(SentParts) : sent = Join(decoded, x)
  <1> DEFINE P == SentParts
             d == Len(stack)
             got == GotIn(stack, decoded)
  <1>1. PICK whole, rest, todo : ReadingBy(whole, rest, todo) BY ReadingFacts
  <1>2. stack \in Seq(Frames(P)) /\ decoded \in Seq(P) /\ d \in Nat BY ReadingFacts
  <1>3. Reads(P, d, got, CountIn(stack), whole, rest, todo) /\ whole[0] = sent
    BY <1>1 DEF ReadingBy
  <1>4. got[0] = decoded BY <1>2, GotType
  <1>5. CASE d = 0
    <2>1. whole[0] = Join(got[0], rest[0]) /\ rest[0] \in Seq(P) BY <1>3, <1>5 DEF Reads
    <2> QED BY <1>2, <1>3, <1>4, <2>1
  <1>6. CASE d > 0
    <2> DEFINE x == Cons(ArrayOf(whole[0 + 1]), rest[0])
    <2>0. 0 \in 0 .. d - 1 BY <1>2, <1>6
    <2>1. whole[0] = Join(got[0], x) /\ ArrayOf(whole[0 + 1]) \in P /\ rest[0] \in Seq(P)
      <3> HIDE DEF d, got
      <3> QED BY <1>3, <2>0 DEF Reads
    <2>2. x \in Seq(P) BY <2>1 DEF Cons
    <2> HIDE DEF x
    <2> QED BY <1>2, <1>3, <1>4, <2>1, <2>2
  <1>7. d = 0 \/ d > 0 BY <1>2
  <1> QED BY <1>5, <1>6, <1>7

\* What was read when nothing is left is all of it.
LEMMA ReadAll ==
  ASSUME Inv, Reading, Settled, sent # <<>>, ~ lost, answer = "none", fed = Len(wire)
  PROVE  decoded = sent
  <1> DEFINE P == SentParts
             got == GotIn(stack, decoded)
  <1>1. PICK whole, rest, todo : ReadingBy(whole, rest, todo) BY ReadingFacts
  <1>2. /\ wire \in Wires /\ wire \in Seq(Tokens) /\ WellFormed(wire) /\ SentParts \subseteq Values
    BY SentFacts
  <1>3. head = fed BY <1>2 DEF Inv, Drained
  <1>4. stack = <<>> BY DEF Settled, Inv, TypeOK
  <1>5. decoded \in Seq(P) /\ stack \in Seq(Frames(P)) BY ReadingFacts
  <1>6. Len(stack) = 0 /\ got[0] = decoded
    <2>1. got[0] = decoded BY <1>5, GotType
    <2> QED BY <1>4, <2>1
  <1>7. Reads(P, 0, got, CountIn(stack), whole, rest, todo) /\ Rest(wire, head + 1) = EncodeBatch(todo[0])
        /\ whole[0] = sent
    BY <1>1, <1>6 DEF ReadingBy
  <1> HIDE DEF P, got
  <1>8. whole[0] = Join(got[0], rest[0]) /\ todo[0] = rest[0] /\ rest[0] \in Seq(P)
    BY <1>7 DEF Reads
  <1>9. todo[0] = <<>>
    <2> DEFINE vs == todo[0]
    <2> SUFFICES ASSUME vs # <<>> PROVE FALSE OBVIOUS
    <2>1. vs \in Seq(P) BY <1>8
    <2> HIDE DEF vs
    <2>2. vs[1] \in P /\ Tail(vs) \in Seq(P) /\ vs = <<vs[1]>> \o Tail(vs) BY <2>1, FirstAndRest DEF Cons
    <2> DEFINE v == vs[1]
               us == Tail(vs)
    <2>3. v \in Values BY <1>2, <2>2 DEF P
    <2>4. us \in Seq(Values)
      <3>1. us \in Seq(P) BY <2>2
      <3> HIDE DEF us
      <3>2. \A j \in DOMAIN us : us[j] \in Values BY <1>2, <3>1 DEF P
      <3> QED BY <3>1, <3>2
    <2>5. vs = <<v>> \o us BY <2>2
    <2> HIDE DEF v, us
    <2> DEFINE i == head + 1
    <2>6. Rest(wire, i) = EncodeBatch(<<v>> \o us) BY <1>7, <2>5 DEF vs
    <2>7. i = Len(wire) + 1 /\ Len(wire) \in Nat /\ i \in 1 .. Len(wire) + 1
      <3>1. Len(wire) \in Nat BY <1>2, WireSeq
      <3> QED BY <1>3, <3>1
    <2> HIDE DEF i
    <2>8. NextOf(v, i) \in i + 1 .. Len(wire) + 1 BY <1>2, <2>3, <2>4, <2>6, <2>7, ValueItem
    <2> QED BY <2>7, <2>8
  <1>10. Join(decoded, <<>>) = decoded BY <1>5, JoinEmpty
  <1> QED BY <1>6, <1>7, <1>8, <1>9, <1>10

\* A sequence is a prefix of what continues it.
LEMMA JoinPrefix ==
  ASSUME NEW P, NEW x \in Seq(P), NEW y \in Seq(P), NEW s, s = Join(x, y)
  PROVE  IsPrefix(x, s) /\ \A i \in DOMAIN x : i \in DOMAIN s /\ s[i] = x[i]
  <1> DEFINE m == Len(x)
             n == Len(s)
  <1>1. /\ m \in Nat /\ Len(y) \in Nat /\ s \in Seq(P) /\ n = m + Len(y)
        /\ \A i \in 1 .. m : s[i] = x[i]
    BY Concat DEF Join
  <1>2. m \in 0 .. n /\ m <= n /\ n \in Nat BY <1>1
  <1>3. \A i \in 1 .. m : i \in 1 .. n BY <1>1
  <1>4. SubSeq(s, 1, m) = x
    <2> DEFINE t == SubSeq(s, 1, m)
    <2>1. \A j \in 1 .. m : s[j] \in P BY <1>1, <1>3
    <2>2. 1 \in Int /\ m \in Int BY <1>1
    <2>3. /\ t \in Seq(P) /\ Len(t) = IF 1 <= m THEN m - 1 + 1 ELSE 0
          /\ \A j \in 1 .. m - 1 + 1 : t[j] = s[1 + j - 1]
      <3> HIDE DEF m, n
      <3> QED BY <2>1, <2>2, SubSeqProperties
    <2>4. (IF 1 <= m THEN m - 1 + 1 ELSE 0) = m /\ m - 1 + 1 = m BY <1>1
    <2> HIDE DEF t
    <2>5. Len(t) = m /\ t \in Seq(P) BY <2>3, <2>4
    <2>6. ASSUME NEW j \in 1 .. m PROVE t[j] = x[j]
      <3>1. 1 + j - 1 = j BY <1>1
      <3>2. t[j] = s[1 + j - 1] BY <2>3, <2>4
      <3> QED BY <1>1, <3>1, <3>2
    <2>7. t = x BY <2>5, <2>6, SeqEqual DEF m
    <2> QED BY <2>7 DEF t
  <1>5. IsPrefix(x, s) BY <1>2, <1>4 DEF IsPrefix
  <1> QED BY <1>1, <1>3, <1>5

\* Encoding and decoding are inverse to each other: as long as decode was not called on a part
\* of an array, it has returned the first of the values sent, all of them once the buffer was
\* drained, and as_command gives back the commands encode_command was given.
THEOREM RoundTripCorrect == Spec => []RoundTrip
  <1>1. Inv /\ Reading /\ Settled => RoundTrip
    <2> SUFFICES ASSUME Inv, Reading, Settled, sent # <<>>, ~ lost
                 PROVE  /\ IsPrefix(decoded, sent)
                        /\ answer = "none" /\ fed = Len(wire) => decoded = sent
                        /\ \A i \in DOMAIN decoded : IsCommand(sent[i]) =>
                             LET c == AsCommand(decoded[i]) IN c.ok /\ sent[i] = Command(c.cmd, c.args)
      BY DEF RoundTrip
    <2>1. decoded \in Seq(SentParts) BY ReadSoFar
    <2>2. PICK x \in Seq(SentParts) : sent = Join(decoded, x) BY ReadSoFar
    <2>3. IsPrefix(decoded, sent) /\ \A i \in DOMAIN decoded : i \in DOMAIN sent /\ sent[i] = decoded[i]
      BY <2>1, <2>2, JoinPrefix
    <2>4. answer = "none" /\ fed = Len(wire) => decoded = sent BY ReadAll
    <2>5. ASSUME NEW i \in DOMAIN decoded, IsCommand(sent[i])
          PROVE  LET c == AsCommand(decoded[i]) IN c.ok /\ sent[i] = Command(c.cmd, c.args)
      <3>1. sent[i] = decoded[i] /\ i \in DOMAIN sent BY <2>3
      <3>2. sent[i] \in Values
        <4>1. sent \in Seq(Values) BY SentFacts
        <4> QED BY <3>1, <4>1
      <3> DEFINE v == sent[i]
      <3> HIDE DEF v
      <3>3. v \in Values /\ IsCommand(v) BY <2>5, <3>2 DEF v
      <3>4. AsCommand(v).ok /\ v = Command(AsCommand(v).cmd, AsCommand(v).args)
        BY <3>3, CommandIsFound
      <3> QED BY <3>1, <3>4 DEF v
    <2> QED BY <2>3, <2>4, <2>5
  <1> QED BY ReadingInvariance, <1>1, PTL

\* Whatever arrays were dropped on the way, decode returns values that were sent, or elements
\* of them.
THEOREM NothingInventedEver == Spec => []NothingInvented
  <1>1. Inv /\ Reading => NothingInvented
    <2> SUFFICES ASSUME Inv, Reading, sent # <<>>, NEW i \in DOMAIN decoded
                 PROVE  \E j \in DOMAIN sent : decoded[i] \in Parts[sent[j]]
      BY DEF NothingInvented
    <2>1. decoded \in Seq(SentParts) BY ReadingFacts
    <2>2. decoded[i] \in SentParts BY <2>1
    <2> QED BY <2>2 DEF SentParts
  <1> QED BY ReadingInvariance, <1>1, PTL
=============================================================================
