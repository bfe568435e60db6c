------------------------- MODULE ChainBuilderProofs -------------------------
(***************************************************************************)
(* Proofs about ChainBuilder, for any certificates, tables, requests and   *)
(* bounds: what an incomplete chain says of itself, what an analysis may   *)
(* write, and which certificates the verification gets to choose from.     *)
(*                                                                         *)
(* The last is about paths, of any length, through sets that change while  *)
(* they are read.  It needs what lies behind every answer of FindIssuers   *)
(* (NamedComplete: a name with few certificates is answered in full), that *)
(* what stayed in the pool throughout is among the answers (CandsInv,      *)
(* WalkInv), and that a path through one set leads through every set that  *)
(* has its certificates (PathsShared, TrustShared).                        *)
(***************************************************************************)
EXTENDS ChainBuilder, FiniteSetTheorems, TLAPS

-----------------------------------------------------------------------------
(***************************************************************************)
(* Sequences.  The provers know no induction; a property of all numbers    *)
(* up to n is proved by its least counterexample.                          *)
(***************************************************************************)

LEMMA LeastNat ==
  ASSUME NEW T, T \subseteq Nat, T # {}
  PROVE  \E n \in T : \A m \in T : ~(m < n)
<1> DEFINE R == OpToRel(<, Nat)
<1>1. IsWellFoundedOn(R, Nat)
  BY NatLessThanWellFounded
<1>2. PICK n \in T : \A m \in T : ~(<<m, n>> \in R)
  <2> HIDE DEF R
  <2> QED
    BY <1>1, WFMin
<1>3. \A m \in T : ~(m < n)
  BY <1>2 DEF OpToRel
<1> QED
  BY <1>3

\* f[i] is what Only keeps of the first i elements of s.
Keeps(f, s, S, n) ==
  f = [i \in 0..n |-> IF i = 0 THEN <<>>
                      ELSE IF s[i] \in S THEN Append(f[i - 1], s[i])
                      ELSE f[i - 1]]

LEMMA KeepsExists ==
  ASSUME NEW s, NEW S, NEW k \in Nat
  PROVE  \E f : Keeps(f, s, S, k)
<1> DEFINE T == {n \in Nat : ~\E f : Keeps(f, s, S, n)}
<1>1. SUFFICES ASSUME T # {} PROVE FALSE
  OBVIOUS
<1>2. PICK n \in T : \A m \in T : ~(m < n)
  <2> HIDE DEF T
  <2>1. T \subseteq Nat
    BY DEF T
  <2> QED
    BY <1>1, <2>1, LeastNat
<1>3. n # 0
  <2> DEFINE f == [i \in 0..0 |-> <<>>]
  <2>1. Keeps(f, s, S, 0)
    BY DEF Keeps
  <2> QED
    BY <2>1
<1>4. PICK f : Keeps(f, s, S, n - 1)
  BY <1>2, <1>3
<1> DEFINE g == [i \in 0..n |-> IF i < n THEN f[i]
                                ELSE IF s[n] \in S THEN Append(f[n - 1], s[n])
                                ELSE f[n - 1]]
<1>5. Keeps(g, s, S, n)
  <2> SUFFICES ASSUME NEW i \in 0..n
               PROVE  g[i] = IF i = 0 THEN <<>>
                             ELSE IF s[i] \in S THEN Append(g[i - 1], s[i])
                             ELSE g[i - 1]
    BY DEF Keeps
  <2>1. CASE i = n
    BY <1>3, <2>1
  <2>2. CASE i < n
    <3>1. i \in 0..(n - 1) /\ g[i] = f[i]
      BY <2>2
    <3>2. i # 0 => g[i - 1] = f[i - 1]
      BY <2>2
    <3>3. f[i] = IF i = 0 THEN <<>>
                 ELSE IF s[i] \in S THEN Append(f[i - 1], s[i])
                 ELSE f[i - 1]
      BY <1>4, <3>1 DEF Keeps
    <3> QED
      BY <3>1, <3>2, <3>3
  <2> QED
    BY <2>1, <2>2
<1> QED
  BY <1>5

LEMMA OnlyKeeps ==
  ASSUME NEW U, NEW s \in Seq(U), NEW S
  PROVE  \E f : Keeps(f, s, S, Len(s)) /\ Only(s, S) = f[Len(s)]
<1> DEFINE f == CHOOSE g : Keeps(g, s, S, Len(s))
<1>1. Keeps(f, s, S, Len(s))
  BY KeepsExists
<1>2. Only(s, S) = f[Len(s)]
  BY DEF Only, Keeps
<1> QED
  BY <1>1, <1>2

\* What Only keeps of the first i elements of s.
KeptOf(t, s, S, U, i) ==
  /\ t \in Seq(U)
  /\ \A x : (\E k \in 1..Len(t) : t[k] = x) <=> x \in S /\ \E k \in 1..i : s[k] = x
  /\ IsInjective(s) => IsInjective(t)

LEMMA OnlyIs ==
  ASSUME NEW U, NEW s \in Seq(U), NEW S
  PROVE  KeptOf(Only(s, S), s, S, U, Len(s))
<1>1. PICK f : Keeps(f, s, S, Len(s)) /\ Only(s, S) = f[Len(s)]
  BY OnlyKeeps
<1>2. f[0] = <<>>
  BY <1>1 DEF Keeps
<1>3. ASSUME NEW i \in 1..Len(s)
      PROVE  f[i] = IF s[i] \in S THEN Append(f[i - 1], s[i]) ELSE f[i - 1]
  <2>1. i \in 0..Len(s) /\ i # 0
    OBVIOUS
  <2>2. f[i] = IF i = 0 THEN <<>>
               ELSE IF s[i] \in S THEN Append(f[i - 1], s[i])
               ELSE f[i - 1]
    BY <1>1, <2>1 DEF Keeps
  <2> QED
    BY <2>1, <2>2
<1> DEFINE T == {n \in 0..Len(s) : ~KeptOf(f[n], s, S, U, n)}
<1>4. SUFFICES ASSUME T # {} PROVE FALSE
  BY <1>1
<1>5. PICK n \in T : \A m \in T : ~(m < n)
  <2> HIDE DEF T
  <2>1. T \subseteq Nat
    BY DEF T
  <2> QED
    BY <1>4, <2>1, LeastNat
<1>6. n # 0
  <2>1. <<>> \in Seq(U) /\ Len(<<>>) = 0 /\ DOMAIN <<>> = {}
    OBVIOUS
  <2>2. KeptOf(<<>>, s, S, U, 0)
    BY <2>1 DEF KeptOf, IsInjective
  <2> QED
    BY <1>2, <1>5, <2>2
<1>7. n \in 1..Len(s) /\ KeptOf(f[n - 1], s, S, U, n - 1)
  BY <1>5, <1>6
<1> HIDE DEF T
<1> DEFINE t == f[n - 1]
           u == f[n]
<1>8. KeptOf(u, s, S, U, n)
  <2>1. t \in Seq(U) /\ s[n] \in U
    BY <1>7 DEF KeptOf
  <2>2. CASE s[n] \in S
    <3>1. u = Append(t, s[n])
      BY <1>3, <1>7, <2>2
    <3> HIDE DEF t, u
    <3>2. u \in Seq(U) /\ Len(u) = Len(t) + 1 /\ u[Len(t) + 1] = s[n]
          /\ \A k \in 1..Len(t) : u[k] = t[k]
      BY <2>1, <3>1
    <3>3. ASSUME NEW x
          PROVE  (\E k \in 1..Len(u) : u[k] = x) <=> x \in S /\ \E k \in 1..n : s[k] = x
      <4>1. (\E k \in 1..Len(t) : t[k] = x) <=> x \in S /\ \E k \in 1..(n - 1) : s[k] = x
        BY <1>7 DEF KeptOf, t
      <4>2. (\E k \in 1..Len(u) : u[k] = x) <=> (\E k \in 1..Len(t) : t[k] = x) \/ x = s[n]
        BY <2>1, <3>2
      <4>3. (\E k \in 1..n : s[k] = x) <=> (\E k \in 1..(n - 1) : s[k] = x) \/ x = s[n]
        BY <1>7
      <4> QED
        BY <4>1, <4>2, <4>3, <2>2
    <3>4. IsInjective(s) => IsInjective(u)
      <4> SUFFICES ASSUME IsInjective(s) PROVE IsInjective(u)
        OBVIOUS
      <4>1. IsInjective(t)
        BY <1>7 DEF KeptOf, t
      <4>2. \A k \in 1..(n - 1) : s[k] # s[n]
        BY <1>7 DEF IsInjective
      <4>3. \A k \in 1..Len(t) : t[k] # s[n]
        BY <1>7, <4>2 DEF KeptOf, t
      <4> QED
        BY <2>1, <3>2, <4>1, <4>3 DEF IsInjective
    <3> QED
      BY <3>2, <3>3, <3>4 DEF KeptOf
  <2>3. CASE s[n] \notin S
    <3>1. u = t
      BY <1>3, <1>7, <2>3
    <3> HIDE DEF t, u
    <3>2. \A x : x \in S => ((\E k \in 1..n : s[k] = x) <=> \E k \in 1..(n - 1) : s[k] = x)
      BY <1>7, <2>3
    <3> QED
      BY <1>7, <3>1, <3>2 DEF KeptOf, t
  <2> QED
    BY <2>2, <2>3
<1> QED
  BY <1>5, <1>8 DEF T

LEMMA OnlyFacts ==
  ASSUME NEW U, NEW s \in Seq(U), NEW S
  PROVE  /\ Only(s, S) \in Seq(U)
         /\ ToSet(Only(s, S)) = ToSet(s) \cap S
         /\ IsInjective(s) => IsInjective(Only(s, S))
<1> DEFINE t == Only(s, S)
<1>1. KeptOf(t, s, S, U, Len(s))
  BY OnlyIs
<1> HIDE DEF t
<1>2. t \in Seq(U) /\ (IsInjective(s) => IsInjective(t))
  BY <1>1 DEF KeptOf
<1>3. ASSUME NEW x PROVE x \in ToSet(t) <=> x \in ToSet(s) \cap S
  <2>1. DOMAIN t = 1..Len(t) /\ DOMAIN s = 1..Len(s)
    BY <1>2
  <2>2. (\E k \in 1..Len(t) : t[k] = x) <=> x \in S /\ \E k \in 1..Len(s) : s[k] = x
    BY <1>1 DEF KeptOf
  <2> QED
    BY <2>1, <2>2 DEF ToSet
<1>4. ToSet(t) = ToSet(s) \cap S
  BY <1>3
<1> QED
  BY <1>2, <1>4 DEF t


LEMMA CatFacts ==
  ASSUME NEW U, NEW s \in Seq(U), NEW t \in Seq(U)
  PROVE  /\ s \o t \in Seq(U)
         /\ ToSet(s \o t) = ToSet(s) \cup ToSet(t)
         /\ IsInjective(s) /\ IsInjective(t) /\ ToSet(s) \cap ToSet(t) = {} => IsInjective(s \o t)
<1> DEFINE c == s \o t
<1>1. c \in Seq(U) /\ Len(c) = Len(s) + Len(t) /\ Len(s) \in Nat /\ Len(t) \in Nat
  OBVIOUS
<1>2. \A i \in 1..Len(s) : c[i] = s[i]
  OBVIOUS
<1>3. \A i \in 1..Len(t) : c[Len(s) + i] = t[i]
  OBVIOUS
<1> HIDE DEF c
<1>4. \A i \in 1..Len(c) : i \in 1..Len(s) \/ (i - Len(s) \in 1..Len(t) /\ c[i] = t[i - Len(s)])
  BY <1>1, <1>3
<1>5. DOMAIN s = 1..Len(s) /\ DOMAIN t = 1..Len(t) /\ DOMAIN c = 1..Len(c)
  BY <1>1
<1>6. ToSet(c) = ToSet(s) \cup ToSet(t)
  <2>1. ASSUME NEW x \in ToSet(c) PROVE x \in ToSet(s) \cup ToSet(t)
    BY <1>2, <1>4, <1>5, <2>1 DEF ToSet
  <2>2. ASSUME NEW x \in ToSet(s) PROVE x \in ToSet(c)
    BY <1>1, <1>2, <1>5, <2>2 DEF ToSet
  <2>3. ASSUME NEW x \in ToSet(t) PROVE x \in ToSet(c)
    <3>1. PICK i \in 1..Len(t) : x = t[i]
      BY <1>5, <2>3 DEF ToSet
    <3>2. Len(s) + i \in 1..Len(c) /\ c[Len(s) + i] = x
      BY <1>1, <1>3, <3>1
    <3> QED
      BY <1>5, <3>2 DEF ToSet
  <2> QED
    BY <2>1, <2>2, <2>3
<1>7. ASSUME IsInjective(s), IsInjective(t), ToSet(s) \cap ToSet(t) = {}
      PROVE  IsInjective(c)
  <2> SUFFICES ASSUME NEW i \in 1..Len(c), NEW j \in 1..Len(c), c[i] = c[j] PROVE i = j
    BY <1>5 DEF IsInjective
  <2>1. \A k \in 1..Len(s), m \in 1..Len(t) : s[k] # t[m]
    BY <1>5, <1>7 DEF ToSet
  <2>2. \A k, m \in 1..Len(s) : s[k] = s[m] => k = m
    BY <1>5, <1>7 DEF IsInjective
  <2>3. \A k, m \in 1..Len(t) : t[k] = t[m] => k = m
    BY <1>5, <1>7 DEF IsInjective
  <2>4. CASE i \in 1..Len(s) /\ j \in 1..Len(s)
    BY <2>4, <2>2, <1>2
  <2>5. CASE i \in 1..Len(s) /\ j \notin 1..Len(s)
    BY <2>5, <2>1, <1>2, <1>4
  <2>6. CASE i \notin 1..Len(s) /\ j \in 1..Len(s)
    BY <2>6, <2>1, <1>2, <1>4
  <2>7. CASE i \notin 1..Len(s) /\ j \notin 1..Len(s)
    <3>1. i - Len(s) = j - Len(s)
      BY <2>7, <2>3, <1>4
    <3> QED
      BY <1>1, <3>1
  <2> QED
    BY <2>4, <2>5, <2>6, <2>7
<1> QED
  BY <1>1, <1>6, <1>7 DEF c

LEMMA CatsFacts ==
  ASSUME NEW U, NEW s \in Seq(U), NEW t \in Seq(U), NEW u \in Seq(U), NEW v \in Seq(U)
  PROVE  /\ s \o t \o u \o v \in Seq(U)
         /\ ToSet(s \o t \o u \o v) = ToSet(s) \cup ToSet(t) \cup ToSet(u) \cup ToSet(v)
         /\ /\ IsInjective(s) /\ IsInjective(t) /\ IsInjective(u) /\ IsInjective(v)
            /\ ToSet(s) \cap ToSet(t) = {}
            /\ (ToSet(s) \cup ToSet(t)) \cap ToSet(u) = {}
            /\ (ToSet(s) \cup ToSet(t) \cup ToSet(u)) \cap ToSet(v) = {}
            => IsInjective(s \o t \o u \o v)
<1> DEFINE a == s \o t
           b == a \o u
           c == b \o v
<1>1. /\ a \in Seq(U) /\ ToSet(a) = ToSet(s) \cup ToSet(t)
      /\ IsInjective(s) /\ IsInjective(t) /\ ToSet(s) \cap ToSet(t) = {} => IsInjective(a)
  BY CatFacts
<1> HIDE DEF a
<1>2. /\ b \in Seq(U) /\ ToSet(b) = ToSet(a) \cup ToSet(u)
      /\ IsInjective(a) /\ IsInjective(u) /\ ToSet(a) \cap ToSet(u) = {} => IsInjective(b)
  BY <1>1, CatFacts
<1> HIDE DEF b
<1>3. /\ c \in Seq(U) /\ ToSet(c) = ToSet(b) \cup ToSet(v)
      /\ IsInjective(b) /\ IsInjective(v) /\ ToSet(b) \cap ToSet(v) = {} => IsInjective(c)
  BY <1>2, CatFacts
<1>4. s \o t \o u \o v = c
  BY DEF a, b
<1> HIDE DEF c
<1> QED
  BY <1>1, <1>2, <1>3, <1>4

LEMMA AppendFacts ==
  ASSUME NEW U, NEW s \in Seq(U), NEW x \in U
  PROVE  /\ Append(s, x) \in Seq(U) /\ Append(s, x) # <<>>
         /\ Len(Append(s, x)) = Len(s) + 1
         /\ Append(s, x)[Len(s) + 1] = x
         /\ \A i \in 1..Len(s) : Append(s, x)[i] = s[i]
         /\ ToSet(Append(s, x)) = ToSet(s) \cup {x}
<1> DEFINE c == Append(s, x)
<1>1. /\ c \in Seq(U) /\ Len(c) = Len(s) + 1 /\ Len(s) \in Nat /\ c # <<>>
      /\ c[Len(s) + 1] = x /\ \A i \in 1..Len(s) : c[i] = s[i]
  OBVIOUS
<1> HIDE DEF c
<1>2. DOMAIN s = 1..Len(s) /\ DOMAIN c = 1..Len(c)
  BY <1>1
<1>3. ToSet(c) = ToSet(s) \cup {x}
  BY <1>1, <1>2 DEF ToSet
<1> QED
  BY <1>1, <1>3 DEF c

LEMMA TailFacts ==
  ASSUME NEW U, NEW s \in Seq(U), s # <<>>
  PROVE  /\ Tail(s) \in Seq(U) /\ Head(s) \in U /\ Head(s) \in ToSet(s)
         /\ ToSet(s) = ToSet(Tail(s)) \cup {Head(s)}
<1> DEFINE c == Tail(s)
<1>1. /\ c \in Seq(U) /\ Len(c) = Len(s) - 1 /\ Len(s) \in Nat \ {0} /\ Head(s) = s[1]
      /\ \A i \in 1..Len(c) : c[i] = s[i + 1]
  OBVIOUS
<1> HIDE DEF c
<1>2. DOMAIN s = 1..Len(s) /\ DOMAIN c = 1..Len(c)
  BY <1>1
<1>3. ASSUME NEW x \in ToSet(s) PROVE x \in ToSet(c) \cup {Head(s)}
  <2>1. PICK i \in 1..Len(s) : x = s[i]
    BY <1>2, <1>3 DEF ToSet
  <2>2. CASE i = 1
    BY <1>1, <2>1, <2>2
  <2>3. CASE i # 1
    <3>1. i - 1 \in 1..Len(c) /\ c[i - 1] = x
      BY <1>1, <2>1, <2>3
    <3> QED
      BY <1>2, <3>1 DEF ToSet
  <2> QED
    BY <2>2, <2>3
<1>4. ASSUME NEW x \in ToSet(c) PROVE x \in ToSet(s)
  <2>1. PICK i \in 1..Len(c) : x = c[i]
    BY <1>2, <1>4 DEF ToSet
  <2>2. i + 1 \in 1..Len(s) /\ s[i + 1] = x
    BY <1>1, <2>1
  <2> QED
    BY <1>2, <2>2 DEF ToSet
<1>5. 1 \in 1..Len(s) /\ Head(s) \in ToSet(s) /\ Head(s) \in U
  BY <1>1, <1>2 DEF ToSet
<1> QED
  BY <1>1, <1>3, <1>4, <1>5 DEF c

LEMMA FirstFacts ==
  ASSUME NEW U, NEW s \in Seq(U), NEW n \in Nat
  PROVE  /\ First(s, n) \in Seq(U)
         /\ ToSet(First(s, n)) \subseteq ToSet(s)
         /\ Len(s) <= n => First(s, n) = s
<1> DEFINE m == IF n < Len(s) THEN n ELSE Len(s)
           c == SubSeq(s, 1, m)
<1>1. First(s, n) = c
  BY DEF First
<1>2. m \in 0..Len(s) /\ Len(s) \in Nat
  OBVIOUS
<1>3. Len(s) <= n => m = Len(s)
  OBVIOUS
<1> HIDE DEF m
<1>4. c \in Seq(U) /\ Len(c) = m /\ \A i \in 1..m : c[i] = s[i]
  BY <1>2
<1>5. m = Len(s) => c = s
  BY <1>2, <1>4
<1> HIDE DEF c
<1>6. DOMAIN s = 1..Len(s) /\ DOMAIN c = 1..Len(c)
  BY <1>4
<1>7. ToSet(c) \subseteq ToSet(s)
  BY <1>2, <1>4, <1>6 DEF ToSet
<1> QED
  BY <1>1, <1>3, <1>4, <1>5, <1>7

LEMMA ReverseFacts ==
  ASSUME NEW U, NEW s \in Seq(U)
  PROVE  Reverse(s) \in Seq(U)
<1>1. \A i \in 1..Len(s) : (Len(s) - i) + 1 \in 1..Len(s)
  OBVIOUS
<1>2. \A i \in 1..Len(s) : s[(Len(s) - i) + 1] \in U
  BY <1>1
<1> QED
  BY <1>2 DEF Reverse

\* A sequence without repetitions is no longer than the set it is drawn from.
LEMMA InjectiveLen ==
  ASSUME NEW U, NEW s \in Seq(U), IsInjective(s), NEW T, IsFiniteSet(T), ToSet(s) \subseteq T
  PROVE  Len(s) <= Cardinality(T)
<1>1. Len(s) \in Nat /\ DOMAIN s = 1..Len(s)
  OBVIOUS
<1>2. s \in [1..Len(s) -> T]
  BY <1>1 DEF ToSet
<1>3. s \in Injection(1..Len(s), T)
  BY <1>2 DEF Injection
<1>4. Cardinality(1..Len(s)) <= Cardinality(T)
  BY <1>3, FS_Injection
<1>5. Cardinality(1..Len(s)) = Len(s)
  BY <1>1, FS_Interval
<1> QED
  BY <1>4, <1>5


-----------------------------------------------------------------------------
(***************************************************************************)
(* The queries                                                             *)
(***************************************************************************)

StoreInv ==
  /\ table \in Seq(Certs) /\ IsInjective(table)
  /\ pool \cup trusted \subseteq ToSet(table)
  /\ steady \subseteq pool \cup trusted

\* The rows one rank of FindIssuers selects.
Rows(name, aki, ss, tr) ==
  {c \in Certs : Issues(c, name, aki) /\ InPool(c) /\ SelfSigned(c) = ss /\ (c \in trusted) = tr}

Rank(name, aki, ss, tr) == Only(table, Rows(name, aki, ss, tr))

LEMMA RankFacts ==
  ASSUME StoreInv, NEW name, NEW aki, NEW ss, NEW tr
  PROVE  /\ Rank(name, aki, ss, tr) \in Seq(Certs)
         /\ ToSet(Rank(name, aki, ss, tr)) = ToSet(table) \cap Rows(name, aki, ss, tr)
         /\ IsInjective(Rank(name, aki, ss, tr))
BY OnlyFacts DEF StoreInv, Rank

LEMMA PoolIssuersIs ==
  ASSUME NEW name, NEW aki
  PROVE  PoolIssuers(name, aki) =
           First(Rank(name, aki, TRUE, TRUE) \o Rank(name, aki, TRUE, FALSE) \o
                 Rank(name, aki, FALSE, TRUE) \o Rank(name, aki, FALSE, FALSE), MaxAltCandidates)
BY DEF PoolIssuers, Rank, Rows

LEMMA PoolIssuersType ==
  ASSUME StoreInv, NEW name, NEW aki
  PROVE  PoolIssuers(name, aki) \in Seq(Certs)
<1>1. \A ss, tr : Rank(name, aki, ss, tr) \in Seq(Certs)
  BY RankFacts
<1>2. Rank(name, aki, TRUE, TRUE) \o Rank(name, aki, TRUE, FALSE) \o
      Rank(name, aki, FALSE, TRUE) \o Rank(name, aki, FALSE, FALSE) \in Seq(Certs)
  BY <1>1, CatsFacts
<1>3. MaxAltCandidates \in Nat
  BY BoundsAssumption
<1> QED
  BY <1>2, <1>3, FirstFacts, PoolIssuersIs

\* A name that few certificates bear: the query returns every one in the pool.
LEMMA NamedComplete ==
  ASSUME StoreInv, NEW name,
         Cardinality({d \in Certs : Info[d].name = name}) =< MaxAltCandidates,
         NEW c \in pool \cup trusted, Info[c].name = name
  PROVE  c \in ToSet(Named(name))
<1> DEFINE Q(ss, tr) == Rows(name, None, ss, tr)
           r1 == Rank(name, None, TRUE, TRUE)
           r2 == Rank(name, None, TRUE, FALSE)
           r3 == Rank(name, None, FALSE, TRUE)
           r4 == Rank(name, None, FALSE, FALSE)
           T == {d \in Certs : Info[d].name = name}
<1>1. /\ r1 \in Seq(Certs) /\ ToSet(r1) = ToSet(table) \cap Q(TRUE, TRUE) /\ IsInjective(r1)
      /\ r2 \in Seq(Certs) /\ ToSet(r2) = ToSet(table) \cap Q(TRUE, FALSE) /\ IsInjective(r2)
      /\ r3 \in Seq(Certs) /\ ToSet(r3) = ToSet(table) \cap Q(FALSE, TRUE) /\ IsInjective(r3)
      /\ r4 \in Seq(Certs) /\ ToSet(r4) = ToSet(table) \cap Q(FALSE, FALSE) /\ IsInjective(r4)
  BY RankFacts
<1>2. Named(name) = First(r1 \o r2 \o r3 \o r4, MaxAltCandidates)
  BY PoolIssuersIs DEF Named
<1>3. /\ Q(TRUE, TRUE) \cap Q(TRUE, FALSE) = {}
      /\ (Q(TRUE, TRUE) \cup Q(TRUE, FALSE)) \cap Q(FALSE, TRUE) = {}
      /\ (Q(TRUE, TRUE) \cup Q(TRUE, FALSE) \cup Q(FALSE, TRUE)) \cap Q(FALSE, FALSE) = {}
  BY DEF Rows
<1>4. Q(TRUE, TRUE) \cup Q(TRUE, FALSE) \cup Q(FALSE, TRUE) \cup Q(FALSE, FALSE) \subseteq T
  BY DEF Rows, Issues
<1>5. c \in ToSet(table) /\ c \in Certs
  BY DEF StoreInv, ToSet
<1>6. c \in Q(TRUE, TRUE) \cup Q(TRUE, FALSE) \cup Q(FALSE, TRUE) \cup Q(FALSE, FALSE)
  <2>1. SelfSigned(c) = TRUE \/ SelfSigned(c) = FALSE
    BY <1>5, InfoAssumption DEF SelfSigned
  <2>2. (c \in trusted) = TRUE \/ (c \in trusted) = FALSE
    OBVIOUS
  <2>3. Issues(c, name, None) /\ InPool(c)
    BY DEF Issues, InPool
  <2> QED
    BY <1>5, <2>1, <2>2, <2>3 DEF Rows
<1> HIDE DEF Q, r1, r2, r3, r4, T
<1> DEFINE all == r1 \o r2 \o r3 \o r4
<1>7. all \in Seq(Certs) /\ ToSet(all) = ToSet(r1) \cup ToSet(r2) \cup ToSet(r3) \cup ToSet(r4)
  <2> r1 \in Seq(Certs) /\ r2 \in Seq(Certs) /\ r3 \in Seq(Certs) /\ r4 \in Seq(Certs)
    BY <1>1
  <2>1. all \in Seq(Certs)
    BY CatsFacts
  <2>2. ToSet(all) = ToSet(r1) \cup ToSet(r2) \cup ToSet(r3) \cup ToSet(r4)
    BY CatsFacts
  <2> QED
    BY <2>1, <2>2
<1>8. IsInjective(all)
  <2>1. /\ ToSet(r1) \cap ToSet(r2) = {}
        /\ (ToSet(r1) \cup ToSet(r2)) \cap ToSet(r3) = {}
        /\ (ToSet(r1) \cup ToSet(r2) \cup ToSet(r3)) \cap ToSet(r4) = {}
    BY <1>1, <1>3
  <2> QED
    BY <1>1, <2>1, CatsFacts
<1> HIDE DEF all
<1>9. IsFiniteSet(T) /\ ToSet(all) \subseteq T
  <2>1. IsFiniteSet(T)
    BY CertsAssumption, FS_Subset DEF T
  <2> QED
    BY <2>1, <1>1, <1>4, <1>7
<1>10. Len(all) <= Cardinality(T)
  BY <1>7, <1>8, <1>9, InjectiveLen
<1>11. Cardinality(T) =< MaxAltCandidates /\ Cardinality(T) \in Nat /\ Len(all) \in Nat
       /\ MaxAltCandidates \in Nat
  BY <1>7, <1>9, FS_CardinalityType, BoundsAssumption DEF T
<1>12. Named(name) = all
  <2>1. Len(all) <= MaxAltCandidates
    BY <1>10, <1>11
  <2>2. First(all, MaxAltCandidates) = all
    BY <1>7, <1>11, <2>1, FirstFacts
  <2> QED
    BY <1>2, <2>2 DEF all
<1> QED
  BY <1>1, <1>5, <1>6, <1>7, <1>12

LEMMA ArchivedIssuersType ==
  ASSUME StoreInv, NEW name, NEW aki
  PROVE  ArchivedIssuers(name, aki) \in Seq(Certs)
<1> DEFINE others == Only(table, {c \in Certs : Issues(c, name, aki) /\ ~InPool(c)})
           oldest == First(others, ArchiveSample)
           newest == First(Reverse(others), ArchiveSample)
           rest == Only(newest, Certs \ ToSet(oldest))
<1>1. ArchivedIssuers(name, aki) = oldest \o rest
  BY DEF ArchivedIssuers
<1>2. others \in Seq(Certs)
  BY OnlyFacts DEF StoreInv
<1> HIDE DEF others
<1>3. ArchiveSample \in Nat
  BY BoundsAssumption
<1>4. oldest \in Seq(Certs) /\ newest \in Seq(Certs)
  BY <1>2, <1>3, FirstFacts, ReverseFacts
<1> HIDE DEF oldest, newest
<1>5. rest \in Seq(Certs)
  BY <1>4, OnlyFacts
<1> QED
  BY <1>1, <1>4, <1>5, CatFacts


-----------------------------------------------------------------------------
(***************************************************************************)
(* Paths to a trusted root                                                 *)
(***************************************************************************)

Longer(P, S) == P \cup UNION {{Append(p, d) : d \in Above(p, S)} : p \in P}

Start(c) == {p \in {<<c>>} : Info[c].valid}

\* f[i] holds the paths from c with at most i certificates above it.
Climbs(f, c, S, n) ==
  f = [i \in 0..n |-> IF i = 0 THEN Start(c) ELSE Longer(f[i - 1], S)]

LEMMA ClimbsExists ==
  ASSUME NEW c, NEW S, NEW k \in Nat
  PROVE  \E f : Climbs(f, c, S, k)
<1> DEFINE T == {n \in Nat : ~\E f : Climbs(f, c, S, n)}
<1>1. SUFFICES ASSUME T # {} PROVE FALSE
  OBVIOUS
<1>2. PICK n \in T : \A m \in T : ~(m < n)
  <2> HIDE DEF T
  <2>1. T \subseteq Nat
    BY DEF T
  <2> QED
    BY <1>1, <2>1, LeastNat
<1>3. n # 0
  <2> DEFINE f == [i \in 0..0 |-> Start(c)]
  <2>1. Climbs(f, c, S, 0)
    BY DEF Climbs
  <2> QED
    BY <2>1
<1>4. PICK f : Climbs(f, c, S, n - 1)
  BY <1>2, <1>3
<1> DEFINE g == [i \in 0..n |-> IF i < n THEN f[i] ELSE Longer(f[n - 1], S)]
<1>5. Climbs(g, c, S, n)
  <2> SUFFICES ASSUME NEW i \in 0..n
               PROVE  g[i] = IF i = 0 THEN Start(c) ELSE Longer(g[i - 1], S)
    BY DEF Climbs
  <2>1. CASE i = n
    BY <1>3, <2>1
  <2>2. CASE i < n
    <3>1. i \in 0..(n - 1) /\ g[i] = f[i]
      BY <2>2
    <3>2. i # 0 => g[i - 1] = f[i - 1]
      BY <2>2
    <3>3. f[i] = IF i = 0 THEN Start(c) ELSE Longer(f[i - 1], S)
      BY <1>4, <3>1 DEF Climbs
    <3> QED
      BY <3>1, <3>2, <3>3
  <2> QED
    BY <2>1, <2>2
<1> QED
  BY <1>5

LEMMA PathsFromClimbs ==
  ASSUME NEW c, NEW S, IsFiniteSet(S)
  PROVE  \E f : /\ f[0] = Start(c)
                /\ \A i \in 1..Cardinality(S) : f[i] = Longer(f[i - 1], S)
                /\ PathsFrom(c, S) = f[Cardinality(S)]
<1> DEFINE N == Cardinality(S)
           f == CHOOSE g : Climbs(g, c, S, N)
<1>1. N \in Nat
  BY FS_CardinalityType
<1>2. Climbs(f, c, S, N)
  BY <1>1, ClimbsExists
<1>3. PathsFrom(c, S) = f[N]
  BY DEF PathsFrom, Climbs, Start, Longer
<1> HIDE DEF N, f
<1>4. ASSUME NEW i \in 0..N PROVE f[i] = IF i = 0 THEN Start(c) ELSE Longer(f[i - 1], S)
  BY <1>2 DEF Climbs
<1>5. f[0] = Start(c) /\ \A i \in 1..N : f[i] = Longer(f[i - 1], S)
  BY <1>1, <1>4
<1> QED
  BY <1>3, <1>5 DEF N

\* A path through S that leads through T as well, and the names Ns.
Shared(p, c, T, Ns, g) ==
  /\ p \in Seq(Certs) /\ p # <<>> /\ p[1] = c /\ IsInjective(p)
  /\ \A i \in 2..Len(p) : p[i] \in T
  /\ SelfSigned(Last(p)) \/ Info[Last(p)].issuer \in Ns
  /\ \A k \in 0..Cardinality(T) : Len(p) - 1 <= k => p \in g[k]

\* One more certificate on such a path.
LEMMA SharedLonger ==
  ASSUME NEW c \in Certs, NEW S \in SUBSET Certs, NEW T \in SUBSET Certs, NEW Ns, NEW g,
         \A d \in S : Info[d].name \in Ns /\ d # c => d \in T,
         \A d \in S : Info[d].name \in Ns /\ ~SelfSigned(d) => Info[d].issuer \in Ns,
         Cardinality(T) \in Nat,
         \A i \in 1..Cardinality(T) : g[i] = Longer(g[i - 1], T),
         NEW q, Shared(q, c, T, Ns, g), NEW d \in Above(q, S)
  PROVE  Shared(Append(q, d), c, T, Ns, g)
<1> DEFINE p == Append(q, d)
<1>1. /\ d \in S /\ d \notin ToSet(q) /\ Info[d].valid /\ ~SelfSigned(Last(q))
      /\ Signed(d, Last(q))
  BY DEF Above
<1>2. q \in Seq(Certs) /\ Len(q) \in Nat \ {0} /\ q[1] = c /\ DOMAIN q = 1..Len(q)
  BY DEF Shared
<1>3. Info[d].name \in Ns
  BY <1>1 DEF Shared, Signed
<1>4. d # c /\ d \in T /\ d \in Certs
  <2>1. c \in ToSet(q)
    BY <1>2 DEF ToSet
  <2> QED
    BY <1>1, <1>3, <2>1
<1>5. d \in Above(q, T)
  BY <1>1, <1>4 DEF Above
<1>6. /\ p \in Seq(Certs) /\ p # <<>> /\ Len(p) = Len(q) + 1 /\ p[Len(q) + 1] = d
      /\ \A i \in 1..Len(q) : p[i] = q[i]
  BY <1>2, <1>4, AppendFacts
<1>7. ASSUME NEW k \in 0..Cardinality(T), Len(p) - 1 <= k PROVE p \in g[k]
  <2>1. k - 1 \in 0..Cardinality(T) /\ Len(q) - 1 <= k - 1 /\ k \in 1..Cardinality(T)
    BY <1>2, <1>6, <1>7
  <2>2. q \in g[k - 1]
    BY <2>1 DEF Shared
  <2>3. p \in Longer(g[k - 1], T)
    BY <2>2, <1>5 DEF Longer
  <2> QED
    BY <2>1, <2>3
<1> HIDE DEF p
<1>8. Last(p) = d
  BY <1>6 DEF Last
<1>9. SelfSigned(Last(p)) \/ Info[Last(p)].issuer \in Ns
  BY <1>1, <1>3, <1>8
<1>10. p[1] = c /\ \A i \in 2..Len(p) : p[i] \in T
  <2>1. \A i \in 2..Len(q) : q[i] \in T
    BY DEF Shared
  <2> QED
    BY <1>2, <1>4, <1>6, <2>1
<1>11. IsInjective(p)
  <2>1. DOMAIN p = 1..(Len(q) + 1)
    BY <1>6
  <2>2. \A i \in 1..Len(q) : q[i] # d
    BY <1>1, <1>2 DEF ToSet
  <2>3. \A i, j \in 1..Len(q) : q[i] = q[j] => i = j
    BY <1>2 DEF Shared, IsInjective
  <2>4. \A i, j \in 1..(Len(q) + 1) : p[i] = p[j] => i = j
    BY <1>2, <1>6, <2>2, <2>3
  <2> QED
    BY <2>1, <2>4 DEF IsInjective
<1> QED
  BY <1>6, <1>7, <1>9, <1>10, <1>11 DEF Shared, p

LEMMA PathsShared ==
  ASSUME NEW c \in Certs, NEW S \in SUBSET Certs, NEW T \in SUBSET Certs, NEW Ns,
         Info[c].issuer \in Ns,
         \A d \in S : Info[d].name \in Ns /\ d # c => d \in T,
         \A d \in S : Info[d].name \in Ns /\ ~SelfSigned(d) => Info[d].issuer \in Ns
  PROVE  \A p \in PathsFrom(c, S) :
           /\ p \in Seq(Certs) /\ IsInjective(p)
           /\ p \in PathsFrom(c, T) /\ (Last(p) = c \/ Last(p) \in T)
<1>1. IsFiniteSet(S) /\ IsFiniteSet(T)
  BY CertsAssumption, FS_Subset
<1>2. Cardinality(S) \in Nat /\ Cardinality(T) \in Nat
  BY <1>1, FS_CardinalityType
<1>3. PICK f : /\ f[0] = Start(c)
               /\ \A i \in 1..Cardinality(S) : f[i] = Longer(f[i - 1], S)
               /\ PathsFrom(c, S) = f[Cardinality(S)]
  BY <1>1, PathsFromClimbs
<1>4. PICK g : /\ g[0] = Start(c)
               /\ \A i \in 1..Cardinality(T) : g[i] = Longer(g[i - 1], T)
               /\ PathsFrom(c, T) = g[Cardinality(T)]
  BY <1>1, PathsFromClimbs
<1>5. ASSUME NEW p \in Start(c) PROVE Shared(p, c, T, Ns, g)
  <2> DEFINE Misses == {k \in 0..Cardinality(T) : p \notin g[k]}
  <2>1. Misses = {}
    <3> SUFFICES ASSUME Misses # {} PROVE FALSE
      OBVIOUS
    <3>1. PICK k \in Misses : \A m \in Misses : ~(m < k)
      <4>1. Misses \subseteq Nat
        BY <1>2
      <4> HIDE DEF Misses
      <4> QED
        BY <4>1, LeastNat
    <3>2. k # 0
      BY <1>4, <3>1
    <3>3. k \in 1..Cardinality(T) /\ k - 1 \in 0..Cardinality(T) /\ k - 1 < k
      BY <1>2, <3>1, <3>2
    <3>4. p \in g[k - 1]
      BY <3>1, <3>3
    <3> QED
      BY <1>4, <3>1, <3>3, <3>4 DEF Longer
  <2>2. p = <<c>>
    BY DEF Start
  <2>3. p \in Seq(Certs) /\ p # <<>> /\ Len(p) = 1 /\ p[1] = c /\ DOMAIN p = 1..1
    BY <2>2
  <2> QED
    BY <2>1, <2>3 DEF Shared, Last, IsInjective
<1> DEFINE Bad == {n \in 0..Cardinality(S) : ~\A p \in f[n] : Shared(p, c, T, Ns, g)}
<1>6. Bad = {}
  <2> SUFFICES ASSUME Bad # {} PROVE FALSE
    OBVIOUS
  <2>1. PICK n \in Bad : \A m \in Bad : ~(m < n)
    <3>1. Bad \subseteq Nat
      BY <1>2
    <3> HIDE DEF Bad
    <3> QED
      BY <3>1, LeastNat
  <2>2. n # 0
    BY <1>3, <1>5, <2>1
  <2>3. n \in 1..Cardinality(S) /\ n - 1 \in 0..Cardinality(S) /\ n - 1 < n
    BY <1>2, <2>1, <2>2
  <2>4. \A q \in f[n - 1] : Shared(q, c, T, Ns, g)
    BY <2>1, <2>3
  <2>5. ASSUME NEW p \in f[n] PROVE Shared(p, c, T, Ns, g)
    <3>1. p \in Longer(f[n - 1], S)
      BY <1>3, <2>3
    <3>2. CASE p \in f[n - 1]
      BY <2>4, <3>2
    <3>3. CASE p \notin f[n - 1]
      <4>1. PICK q \in f[n - 1] : \E d \in Above(q, S) : p = Append(q, d)
        BY <3>1, <3>3 DEF Longer
      <4>2. PICK d \in Above(q, S) : p = Append(q, d)
        BY <4>1
      <4>3. Shared(q, c, T, Ns, g)
        BY <2>4, <4>1
      <4>4. Shared(Append(q, d), c, T, Ns, g)
        BY <1>2, <1>4, <4>2, <4>3, SharedLonger
      <4> QED
        BY <4>2, <4>4
    <3> QED
      BY <3>2, <3>3
  <2> QED
    BY <2>1, <2>5
<1>7. ASSUME NEW p \in PathsFrom(c, S)
      PROVE  /\ p \in Seq(Certs) /\ IsInjective(p)
             /\ p \in PathsFrom(c, T) /\ (Last(p) = c \/ Last(p) \in T)
  <2>1. Shared(p, c, T, Ns, g)
    BY <1>2, <1>3, <1>6
  <2> DEFINE t == Tail(p)
  <2>2. p \in Seq(Certs) /\ Len(p) \in Nat \ {0} /\ DOMAIN p = 1..Len(p)
    BY <2>1 DEF Shared
  <2>3. t \in Seq(Certs) /\ Len(t) = Len(p) - 1 /\ \A i \in 1..Len(t) : t[i] = p[i + 1]
    BY <2>2
  <2> HIDE DEF t
  <2>4. DOMAIN t = 1..Len(t)
    BY <2>3
  <2>5. ToSet(t) \subseteq T
    <3>1. \A i \in 2..Len(p) : p[i] \in T
      BY <2>1 DEF Shared
    <3>2. \A i \in 1..Len(t) : i + 1 \in 2..Len(p)
      BY <2>2, <2>3
    <3> QED
      BY <2>3, <2>4, <3>1, <3>2 DEF ToSet
  <2>6. IsInjective(t)
    <3>1. \A i, j \in 1..Len(p) : p[i] = p[j] => i = j
      BY <2>1, <2>2 DEF Shared, IsInjective
    <3>2. \A i, j \in 1..Len(t) : t[i] = t[j] => i = j
      <4> SUFFICES ASSUME NEW i \in 1..Len(t), NEW j \in 1..Len(t), t[i] = t[j] PROVE i = j
        OBVIOUS
      <4>1. i + 1 \in 1..Len(p) /\ j + 1 \in 1..Len(p) /\ p[i + 1] = p[j + 1]
        BY <2>2, <2>3, SMTT(30)
      <4>2. i + 1 = j + 1
        BY <3>1, <4>1
      <4> QED
        BY <4>2
    <3> QED
      BY <2>4, <3>2 DEF IsInjective
  <2>7. Len(p) - 1 <= Cardinality(T)
    BY <1>1, <2>3, <2>5, <2>6, InjectiveLen
  <2>8. p \in g[Cardinality(T)]
    BY <1>2, <2>1, <2>7 DEF Shared
  <2>9. IsInjective(p) /\ (Last(p) = c \/ Last(p) \in T)
    BY <2>1, <2>2 DEF Shared, Last
  <2> QED
    BY <1>4, <2>2, <2>8, <2>9
<1> QED
  BY <1>7

LEMMA PathsType ==
  ASSUME NEW c \in Certs, NEW S \in SUBSET Certs, NEW p \in PathsFrom(c, S)
  PROVE  p \in Seq(Certs) /\ IsInjective(p)
<1> DEFINE Ns == {Info[d].issuer : d \in Certs}
<1>1. /\ Info[c].issuer \in Ns
      /\ \A d \in S : Info[d].name \in Ns /\ d # c => d \in S
      /\ \A d \in S : Info[d].name \in Ns /\ ~SelfSigned(d) => Info[d].issuer \in Ns
  OBVIOUS
<1> HIDE DEF Ns
<1> QED
  BY <1>1, PathsShared

\* A trusted path through S leads through T as well when T has what the names
\* on it lead to.
LEMMA TrustShared ==
  ASSUME NEW c \in Certs, NEW S \in SUBSET Certs, NEW T \in SUBSET Certs, NEW Ns,
         Info[c].issuer \in Ns,
         \A d \in S : Info[d].name \in Ns /\ d # c => d \in T,
         \A d \in S : Info[d].name \in Ns /\ ~SelfSigned(d) => Info[d].issuer \in Ns,
         c \in S /\ SelfSigned(c) => c \in T,
         PathsToTrust(c, S) # {}
  PROVE  PathsToTrust(c, T) # {}
<1>1. PICK p \in PathsFrom(c, S) : SelfSigned(Last(p)) /\ Last(p) \in S \cap trusted
  BY DEF PathsToTrust
<1>2. p \in PathsFrom(c, T) /\ (Last(p) = c \/ Last(p) \in T)
  BY <1>1, PathsShared
<1> QED
  BY <1>1, <1>2 DEF PathsToTrust


-----------------------------------------------------------------------------
(***************************************************************************)
(* The inductive invariant                                                 *)
(***************************************************************************)

Entries == [cert : Certs, src : {"upload", "link", "tls", "cache", "fetched", "archive"}]

Names == {Info[c].issuer : c \in Certs}

\* What the site sent with the leaf.
Sent == IF IsUpload THEN {} ELSE ToSet(input.bag)

\* A CRL is walked for, a certificate has a chain that starts with it.
RequestInv ==
  /\ input \in Inputs
  /\ IsUpload => pc \in {"walk", "done"} /\ chain = <<>>
  /\ ~IsUpload => pc # "walk" /\ chain # <<>> /\ chain[1].cert = Leaf

\* An issuer is looked for only while there is room for it.
ChainInv ==
  /\ chain \in Seq(Entries) /\ Len(chain) =< MaxChainDepth
  /\ \A i, j \in DOMAIN chain : chain[i].cert = chain[j].cert => i = j
  /\ pc \in {"aia", "fallback"} => Len(chain) < MaxChainDepth

\* What the resolver keeps from one source to the next.
ResolverInv ==
  /\ expired \in Certs \cup {None}
  /\ archived \in Seq(Certs)
  /\ urls \in Seq(DOMAIN Served)

\* A bag entry marked tls came from the site and from no link.
BagInv ==
  /\ bag \in Seq(Entries)
  /\ \A b \in ToSet(bag) : b.src = "tls" => b.cert \in Sent \ Transient

\* Only the chain and what the site sent waits to be saved.
SavesInv ==
  /\ saves \in Seq(Certs)
  /\ ToSet(saves) \subseteq (ChainCerts \cup Sent) \ Transient

\* The warnings go with the statement that gave up.
ControlInv ==
  /\ pc \in {"save", "resolve", "aia", "fallback", "archive", "alternates",
             "verify", "walk", "done", "failed"}
  /\ warnings \subseteq {"loop", "depth", "issuer", "aia", "urls"}
  /\ IncompleteIsWarned

\* What has been written; nothing before the first save.
WroteInv ==
  /\ LinkLeavesNoTrace /\ OnlyChainIsArchived
  /\ pc = "save" => wrote = {}

\* The candidates, and where the loops that collect them stand.
CandsInv ==
  /\ cands \subseteq Certs
  /\ alt \in Nat \ {0} /\ depth \in Nat
  /\ names \in Seq(Names)

\* The reliable certificates of the names whose alternates have been read.
OfferInv ==
  pc \in {"alternates", "verify"} =>
    /\ OwnCandidates \subseteq cands
    /\ \A k \in DOMAIN chain : k < alt \/ pc = "verify" =>
         \A c \in Reliable : Info[c].name = Info[chain[k].cert].issuer => c \in cands

\* The names seen lead, through reliable certificates, to names seen or queued.
WalkInv ==
  pc = "walk" =>
    /\ Info[input.crlCA].issuer \in seen \cup ToSet(names)
    /\ \A c \in Reliable : Info[c].name \in seen =>
         c \in cands /\ (SelfSigned(c) \/ Info[c].issuer \in seen \cup ToSet(names))

IndInv ==
  /\ StoreInv /\ RequestInv /\ ChainInv /\ ResolverInv /\ BagInv /\ SavesInv
  /\ ControlInv /\ WroteInv /\ CandsInv /\ OfferInv /\ WalkInv


-----------------------------------------------------------------------------
(***************************************************************************)
(* The loop over resolveIssuer                                             *)
(***************************************************************************)

LEMMA InputFacts ==
  ASSUME input \in Inputs
  PROVE  /\ IsUpload => input.crlCA \in Certs
         /\ ~IsUpload => Leaf \in Certs /\ input.bag \in Seq(Certs) /\ input.link \in BOOLEAN
<1>1. CASE input \in [leaf : Certs, bag : Seq(Certs), link : BOOLEAN]
  BY <1>1 DEF IsUpload, Leaf
<1>2. CASE input \in [crlCA : Certs]
  BY <1>2 DEF IsUpload
<1> QED
  BY <1>1, <1>2, InputsAssumption

LEMMA InputFrame ==
  ASSUME input' = input
  PROVE  /\ IsUpload' <=> IsUpload
         /\ Transient' = Transient /\ Sent' = Sent /\ Leaf' = Leaf
BY DEF IsUpload, Transient, Sent, Leaf

LEMMA EntryCert == \A e \in Entries : e.cert \in Certs
BY DEF Entries

LEMMA EntriesCerts ==
  ASSUME NEW s \in Seq(Entries), NEW i \in 1..Len(s)
  PROVE  s[i] \in Entries /\ s[i].cert \in Certs
<1>1. s[i] \in Entries
  OBVIOUS
<1> QED
  BY <1>1, EntryCert

LEMMA ChainCertsIs ==
  ASSUME ChainInv
  PROVE  ChainCerts = {chain[i].cert : i \in 1..Len(chain)} /\ ChainCerts \subseteq Certs
<1>1. chain \in Seq(Entries) /\ DOMAIN chain = 1..Len(chain)
  BY DEF ChainInv
<1> QED
  BY <1>1, EntriesCerts DEF ChainCerts

\* The certificates of some entries.
LEMMA CertificatesFacts ==
  ASSUME NEW s \in Seq(Entries)
  PROVE  /\ [i \in DOMAIN s |-> s[i].cert] \in Seq(Certs)
         /\ ToSet([i \in DOMAIN s |-> s[i].cert]) = {b.cert : b \in ToSet(s)}
<1>1. DOMAIN s = 1..Len(s) /\ Len(s) \in Nat
  OBVIOUS
<1>2. \A i \in 1..Len(s) : s[i] \in Entries /\ s[i].cert \in Certs
  BY EntriesCerts
<1>3. [i \in 1..Len(s) |-> s[i].cert] \in Seq(Certs)
  BY <1>1, <1>2
<1> QED
  BY <1>1, <1>3 DEF ToSet

\* What LeaveLoop archives is on the chain or was sent by the site, and no part
\* of a link.
LEMMA ToArchiveFacts ==
  ASSUME RequestInv, ChainInv, BagInv, ~IsUpload
  PROVE  /\ ToArchive \in Seq(Certs)
         /\ ToSet(ToArchive) \subseteq (ChainCerts \cup Sent) \ Transient
<1> DEFINE Certificates(s) == [i \in DOMAIN s |-> s[i].cert]
           tls == Only(bag, {b \in ToSet(bag) : b.src = "tls"})
           some == First(tls, MaxChainDepth)
           above == Tail(chain)
           mine == Only(Certificates(above), Certs \ Transient)
<1>1. ToArchive = mine \o Certificates(some)
  BY DEF ToArchive
<1>2. above \in Seq(Entries) /\ ToSet(above) \subseteq ToSet(chain)
  BY TailFacts DEF RequestInv, ChainInv
<1>3. tls \in Seq(Entries) /\ ToSet(tls) \subseteq {b \in ToSet(bag) : b.src = "tls"}
  BY OnlyFacts DEF BagInv
<1>4. some \in Seq(Entries) /\ ToSet(some) \subseteq ToSet(tls)
  <2>1. MaxChainDepth \in Nat
    BY BoundsAssumption
  <2> HIDE DEF tls
  <2> QED
    BY <1>3, <2>1, FirstFacts
<1> HIDE DEF above, tls, some
<1>5. /\ Certificates(above) \in Seq(Certs)
      /\ ToSet(Certificates(above)) = {b.cert : b \in ToSet(above)}
  BY <1>2, CertificatesFacts
<1>6. /\ Certificates(some) \in Seq(Certs)
      /\ ToSet(Certificates(some)) = {b.cert : b \in ToSet(some)}
  BY <1>4, CertificatesFacts
<1> HIDE DEF Certificates
<1>7. /\ mine \in Seq(Certs)
      /\ ToSet(mine) = ToSet(Certificates(above)) \cap (Certs \ Transient)
  BY <1>5, OnlyFacts
<1> HIDE DEF mine
<1>8. ToSet(mine) \subseteq ChainCerts \ Transient
  <2>1. \A b \in ToSet(chain) : b.cert \in ChainCerts
    BY DEF ToSet, ChainCerts
  <2> QED
    BY <1>2, <1>5, <1>7, <2>1
<1>9. ToSet(Certificates(some)) \subseteq Sent \ Transient
  BY <1>3, <1>4, <1>6 DEF BagInv
<1>10. /\ mine \o Certificates(some) \in Seq(Certs)
       /\ ToSet(mine \o Certificates(some)) = ToSet(mine) \cup ToSet(Certificates(some))
  BY <1>6, <1>7, CatFacts
<1> QED
  BY <1>1, <1>8, <1>9, <1>10

\* What the loop leaves alone.
Frame == UNCHANGED <<input, cands, alt, walk, store>>

Looping == pc \in {"resolve", "aia", "fallback"}

LEMMA FrameStep ==
  ASSUME IndInv, Looping, Frame, pc' \in {"resolve", "aia", "fallback", "archive"},
         ChainCerts \subseteq ChainCerts'
  PROVE  StoreInv' /\ CandsInv' /\ OfferInv' /\ WalkInv' /\ WroteInv'
<1>1. StoreInv' /\ CandsInv'
  BY DEF IndInv, Frame, store, walk, StoreInv, CandsInv
<1>2. OfferInv' /\ WalkInv'
  BY DEF OfferInv, WalkInv
<1>3. WroteInv'
  <2>1. wrote' = wrote /\ input' = input /\ Transient' = Transient
    BY InputFrame DEF Frame, store
  <2>2. wrote \cap Transient = {} /\ wrote \subseteq ChainCerts \cup ToSet(input.bag)
    BY DEF IndInv, WroteInv, LinkLeavesNoTrace, OnlyChainIsArchived, Looping
  <2> QED
    BY <2>1, <2>2 DEF WroteInv, LinkLeavesNoTrace, OnlyChainIsArchived
<1> QED
  BY <1>1, <1>2, <1>3

LEMMA LoopingFacts ==
  ASSUME IndInv, Looping
  PROVE  /\ ~IsUpload /\ chain \in Seq(Entries) /\ Len(chain) \in Nat \ {0}
         /\ Current \in Certs /\ Leaf \in Certs
         /\ StoreInv
<1>1. ~IsUpload /\ chain # <<>> /\ chain \in Seq(Entries)
  BY DEF IndInv, Looping, RequestInv, ChainInv
<1>2. Len(chain) \in Nat \ {0} /\ Current \in Certs
  <2>1. Len(chain) \in Nat \ {0} /\ Len(chain) \in 1..Len(chain)
    BY <1>1
  <2> QED
    BY <1>1, <2>1, EntriesCerts DEF Current, Last
<1> QED
  BY <1>1, <1>2, InputFacts DEF IndInv, RequestInv

LEMMA LeaveStep ==
  ASSUME IndInv, Looping, Frame, LeaveLoop, UNCHANGED chain, BagInv', ResolverInv',
         warnings' \subseteq {"loop", "depth", "issuer", "aia", "urls"},
         SelfSigned(Current) \/ warnings' \cap {"loop", "depth", "issuer"} # {}
  PROVE  IndInv'
<1>1. pc' = "archive" /\ saves' = ToArchive /\ chain' = chain /\ ChainCerts' = ChainCerts
  BY DEF LeaveLoop, ChainCerts
<1>2. StoreInv' /\ CandsInv' /\ OfferInv' /\ WalkInv' /\ WroteInv'
  BY <1>1, FrameStep
<1>3. input' = input /\ (IsUpload' <=> IsUpload) /\ Transient' = Transient /\ Sent' = Sent
      /\ Leaf' = Leaf
  BY InputFrame DEF Frame
<1>4. RequestInv'
  BY <1>1, <1>3, LoopingFacts DEF IndInv, RequestInv, Looping
<1>5. ChainInv'
  BY <1>1 DEF IndInv, ChainInv
<1>6. SavesInv'
  BY <1>1, <1>3, LoopingFacts, ToArchiveFacts DEF IndInv, SavesInv
<1>7. ControlInv'
  <2>1. Current' = Current
    BY <1>1 DEF Current
  <2> QED
    BY <1>1, <2>1 DEF ControlInv, IncompleteIsWarned, SelfSigned
<1> QED
  BY <1>2, <1>4, <1>5, <1>6, <1>7 DEF IndInv

LEMMA StayStep ==
  ASSUME IndInv, Looping, Frame, Len(chain) < MaxChainDepth,
         pc' \in {"aia", "fallback"}, UNCHANGED <<chain, saves>>, BagInv', ResolverInv',
         warnings' \subseteq {"loop", "depth", "issuer", "aia", "urls"}
  PROVE  IndInv'
<1>1. chain' = chain /\ ChainCerts' = ChainCerts
  BY DEF ChainCerts
<1>2. StoreInv' /\ CandsInv' /\ OfferInv' /\ WalkInv' /\ WroteInv'
  BY <1>1, FrameStep
<1>3. input' = input /\ (IsUpload' <=> IsUpload) /\ Transient' = Transient /\ Sent' = Sent
      /\ Leaf' = Leaf
  BY InputFrame DEF Frame
<1>4. RequestInv'
  BY <1>1, <1>3, LoopingFacts DEF IndInv, RequestInv, Looping
<1>5. ChainInv'
  BY <1>1 DEF IndInv, ChainInv
<1>6. SavesInv'
  BY <1>1, <1>3 DEF IndInv, SavesInv
<1>7. ControlInv'
  BY DEF ControlInv, IncompleteIsWarned
<1> QED
  BY <1>2, <1>4, <1>5, <1>6, <1>7 DEF IndInv

LEMMA ExtendStep ==
  ASSUME IndInv, Looping, Frame, Len(chain) < MaxChainDepth, BagInv',
         NEW c, NEW s, Entry(c, s) \in Entries, Extend(c, s)
  PROVE  IndInv'
<1>1. ResolverInv'
  <2>1. expired' = None /\ archived' = <<>> /\ urls' = <<>>
    BY DEF Extend
  <2> QED
    BY <2>1 DEF ResolverInv
<1>2. CASE Looped(c)
  <2>1. LeaveLoop /\ UNCHANGED chain /\ warnings' = warnings \cup {"loop"}
    BY <1>2 DEF Extend
  <2> QED
    BY <1>1, <2>1, LeaveStep DEF IndInv, ControlInv
<1>3. CASE ~Looped(c)
  <2>1. /\ chain' = Append(chain, Entry(c, s))
        /\ pc' = "resolve" /\ warnings' = warnings /\ saves' = saves
    BY <1>3 DEF Extend
  <2>2. chain \in Seq(Entries) /\ Len(chain) \in Nat \ {0} /\ ~IsUpload
    BY LoopingFacts
  <2>3. /\ chain' \in Seq(Entries) /\ chain' # <<>>
        /\ Len(chain') = Len(chain) + 1
        /\ chain'[Len(chain) + 1] = Entry(c, s)
        /\ \A i \in 1..Len(chain) : chain'[i] = chain[i]
    BY <2>1, <2>2, AppendFacts
  <2>4. DOMAIN chain = 1..Len(chain) /\ DOMAIN chain' = 1..(Len(chain) + 1)
    BY <2>2, <2>3
  <2>5. ChainCerts \subseteq ChainCerts'
    BY <2>2, <2>3, <2>4 DEF ChainCerts
  <2>6. StoreInv' /\ CandsInv' /\ OfferInv' /\ WalkInv' /\ WroteInv'
    BY <2>1, <2>5, FrameStep
  <2>7. input' = input /\ (IsUpload' <=> IsUpload) /\ Transient' = Transient /\ Sent' = Sent
        /\ Leaf' = Leaf
    BY InputFrame DEF Frame
  <2>8. RequestInv'
    BY <2>1, <2>2, <2>3, <2>7 DEF IndInv, RequestInv
  <2>9. ChainInv'
    <3>1. \A i \in 1..Len(chain) : chain[i].cert # c
      BY <1>3, <2>4 DEF Looped, ChainCerts
    <3>2. \A i, j \in 1..Len(chain) : chain[i].cert = chain[j].cert => i = j
      BY <2>4 DEF IndInv, ChainInv
    <3>3. Entry(c, s).cert = c
      BY DEF Entry
    <3>4. \A i, j \in DOMAIN chain' : chain'[i].cert = chain'[j].cert => i = j
      BY <2>2, <2>3, <2>4, <3>1, <3>2, <3>3
    <3>5. Len(chain') =< MaxChainDepth
      BY <2>2, <2>3, BoundsAssumption
    <3> QED
      BY <2>1, <2>3, <3>4, <3>5 DEF ChainInv
  <2>10. SavesInv'
    BY <2>1, <2>5, <2>7 DEF IndInv, SavesInv
  <2>11. ControlInv'
    BY <2>1 DEF IndInv, ControlInv, IncompleteIsWarned
  <2> QED
    BY <1>1, <2>6, <2>8, <2>9, <2>10, <2>11 DEF IndInv
<1> QED
  BY <1>2, <1>3


LEMMA BagFrame ==
  ASSUME BagInv, UNCHANGED <<bag, input>>
  PROVE  BagInv'
<1>1. bag' = bag /\ Transient' = Transient /\ Sent' = Sent
  BY InputFrame
<1> QED
  BY <1>1 DEF BagInv

LEMMA BagGrows ==
  ASSUME BagInv, UNCHANGED input, NEW t \in Seq(Certs), NEW s \in {"fetched", "archive"},
         bag' = bag \o [i \in DOMAIN t |-> Entry(t[i], s)]
  PROVE  BagInv'
<1> DEFINE new == [i \in DOMAIN t |-> Entry(t[i], s)]
<1>1. DOMAIN t = 1..Len(t) /\ Len(t) \in Nat
  OBVIOUS
<1>2. \A i \in 1..Len(t) : Entry(t[i], s) \in Entries /\ Entry(t[i], s).src # "tls"
  BY DEF Entry, Entries
<1>3. new \in Seq(Entries) /\ \A b \in ToSet(new) : b.src # "tls"
  <2>1. [i \in 1..Len(t) |-> Entry(t[i], s)] \in Seq(Entries)
    BY <1>1, <1>2
  <2> QED
    BY <1>1, <1>2, <2>1 DEF ToSet
<1> HIDE DEF new
<1>4. bag \in Seq(Entries) /\ bag' = bag \o new
  BY DEF BagInv, new
<1>5. bag \o new \in Seq(Entries) /\ ToSet(bag \o new) = ToSet(bag) \cup ToSet(new)
  BY <1>3, <1>4, CatFacts
<1>6. Transient' = Transient /\ Sent' = Sent
  BY InputFrame
<1> QED
  BY <1>3, <1>4, <1>5, <1>6 DEF BagInv

LEMMA HeadOnly ==
  ASSUME NEW U, NEW s \in Seq(U), NEW S, Only(s, S) # <<>>
  PROVE  Head(Only(s, S)) \in U
<1>1. Only(s, S) \in Seq(U)
  BY OnlyFacts
<1> QED
  BY <1>1, TailFacts

LEMMA SeqOfSet ==
  ASSUME NEW U, NEW s \in Seq(U), NEW D, ToSet(s) \subseteq D
  PROVE  s \in Seq(D)
<1>1. Len(s) \in Nat /\ DOMAIN s = 1..Len(s)
  OBVIOUS
<1>2. s \in [1..Len(s) -> D]
  BY <1>1 DEF ToSet
<1> QED
  BY <1>1, <1>2

LEMMA CertEntry ==
  ASSUME NEW c \in Certs, NEW s \in {"cache", "fetched", "archive"}
  PROVE  Entry(c, s) \in Entries
BY DEF Entry, Entries

LEMMA ResolvingFacts ==
  ASSUME IndInv, Resolving
  PROVE  Looping /\ Len(chain) < MaxChainDepth /\ Current \in Certs /\ StoreInv /\ BagInv
<1>1. Looping /\ Len(chain) < MaxChainDepth
  BY DEF Resolving, Looping
<1> QED
  BY <1>1, LoopingFacts DEF IndInv

LEMMA MatchBagStep ==
  ASSUME IndInv, MatchBag PROVE IndInv'
<1>1. /\ Resolving /\ BagMatches # <<>> /\ Extend(Head(BagMatches).cert, Head(BagMatches).src)
      /\ Frame /\ UNCHANGED <<bag, input>>
  BY DEF MatchBag, Frame
<1>2. Looping /\ Len(chain) < MaxChainDepth /\ BagInv
  BY <1>1, ResolvingFacts
<1>3. Head(BagMatches) \in Entries
  BY <1>1, <1>2, HeadOnly DEF BagMatches, BagInv
<1>4. \A e \in Entries : Entry(e.cert, e.src) = e
  BY DEF Entry, Entries
<1> QED
  BY <1>1, <1>2, <1>3, <1>4, BagFrame, ExtendStep

LEMMA MatchPoolStep ==
  ASSUME IndInv, MatchPool PROVE IndInv'
<1>1. /\ Resolving /\ OfPool(TRUE) # <<>> /\ Extend(Head(OfPool(TRUE)), "cache")
      /\ Frame /\ UNCHANGED <<bag, input>>
  BY DEF MatchPool, Frame
<1>2. Looping /\ Len(chain) < MaxChainDepth /\ BagInv /\ StoreInv
  BY <1>1, ResolvingFacts
<1>3. Head(OfPool(TRUE)) \in Certs
  BY <1>1, <1>2, PoolIssuersType, HeadOnly DEF OfPool
<1>4. Entry(Head(OfPool(TRUE)), "cache") \in Entries
  BY <1>3, CertEntry
<1> QED
  BY <1>1, <1>2, <1>4, BagFrame, ExtendStep

LEMMA MissPoolStep ==
  ASSUME IndInv, MissPool PROVE IndInv'
<1>1. /\ Resolving /\ pc' = "aia" /\ UNCHANGED <<chain, saves>>
      /\ Frame /\ UNCHANGED <<bag, input>>
  BY DEF MissPool, Frame
<1>2. Looping /\ Len(chain) < MaxChainDepth /\ BagInv /\ StoreInv /\ Current \in Certs
  BY <1>1, ResolvingFacts
<1>3. expired' \in Certs \cup {None}
  <2>1. expired' = IF OfPool(FALSE) = <<>> THEN None ELSE Head(OfPool(FALSE))
    BY DEF MissPool
  <2>2. OfPool(FALSE) # <<>> => Head(OfPool(FALSE)) \in Certs
    BY <1>2, PoolIssuersType, HeadOnly DEF OfPool
  <2> QED
    BY <2>1, <2>2
<1>4. archived' \in Seq(Certs)
  BY <1>2, ArchivedIssuersType DEF MissPool
<1>5. urls' \in Seq(DOMAIN Served)
  <2> DEFINE aia == Info[Current].aia
             good == Only(aia, DOMAIN Served)
  <2>1. urls' = First(good, MaxAIAURLs)
    BY DEF MissPool
  <2>2. aia \in Seq(ToSet(aia))
    BY <1>2, InfoAssumption
  <2>3. good \in Seq(ToSet(aia)) /\ ToSet(good) \subseteq DOMAIN Served
    BY <2>2, OnlyFacts
  <2> HIDE DEF good, aia
  <2>4. good \in Seq(DOMAIN Served)
    BY <2>3, SeqOfSet
  <2>5. MaxAIAURLs \in Nat
    BY BoundsAssumption
  <2> QED
    BY <2>1, <2>4, <2>5, FirstFacts
<1>6. ResolverInv'
  BY <1>3, <1>4, <1>5 DEF ResolverInv
<1>7. warnings' \subseteq {"loop", "depth", "issuer", "aia", "urls"}
  BY DEF MissPool, IndInv, ControlInv
<1> QED
  BY <1>1, <1>2, <1>6, <1>7, BagFrame, StayStep

LEMMA AIAFacts ==
  ASSUME IndInv, pc \in {"aia", "fallback"}
  PROVE  Looping /\ Len(chain) < MaxChainDepth /\ ResolverInv /\ BagInv
         /\ warnings \subseteq {"loop", "depth", "issuer", "aia", "urls"}
BY DEF IndInv, Looping, ChainInv, ControlInv

LEMMA FetchFailsStep ==
  ASSUME IndInv, FetchFails PROVE IndInv'
<1>1. /\ pc = "aia" /\ pc' = "aia" /\ UNCHANGED <<chain, saves>> /\ Frame /\ UNCHANGED <<bag, input>>
      /\ urls # <<>> /\ urls' = Tail(urls) /\ UNCHANGED <<expired, archived>>
      /\ warnings' = warnings \cup {"aia"}
  BY DEF FetchFails, Frame
<1>2. ResolverInv'
  BY <1>1, AIAFacts, TailFacts DEF ResolverInv
<1> QED
  BY <1>1, <1>2, AIAFacts, BagFrame, StayStep

LEMMA AIAMatchType ==
  ASSUME NEW parsed \in Seq(Certs), parsed # <<>>
  PROVE  AIAMatch(parsed) \in Certs
<1> DEFINE Keyed(c) == Info[Current].aki # None /\ Info[c].ski = Info[Current].aki
           keyed == Only(parsed, {c \in Certs : Keyed(c)})
           roots == Only(keyed, {c \in Certs : SelfSigned(c)})
           all == roots \o keyed \o parsed
<1>1. AIAMatch(parsed) = Head(all)
  BY DEF AIAMatch
<1>2. keyed \in Seq(Certs)
  BY OnlyFacts
<1> HIDE DEF keyed
<1>3. roots \in Seq(Certs)
  BY <1>2, OnlyFacts
<1> HIDE DEF roots
<1>4. all \in Seq(Certs) /\ all # <<>>
  BY <1>2, <1>3
<1> HIDE DEF all
<1> QED
  BY <1>1, <1>4

LEMMA FetchStep ==
  ASSUME IndInv, Fetch PROVE IndInv'
<1>1. pc = "aia" /\ urls # <<>> /\ Frame /\ UNCHANGED input
  BY DEF Fetch, Frame
<1>2. PICK response \in Served[Head(urls)] : TooMany(response) \/ FetchAIA(response)
  BY DEF Fetch
<1>3. Looping /\ Len(chain) < MaxChainDepth /\ ResolverInv /\ BagInv
      /\ warnings \subseteq {"loop", "depth", "issuer", "aia", "urls"}
  BY <1>1, AIAFacts
<1>4. /\ urls \in Seq(DOMAIN Served) /\ Tail(urls) \in Seq(DOMAIN Served)
      /\ Head(urls) \in DOMAIN Served
  BY <1>1, <1>3, TailFacts DEF ResolverInv
<1>5. response \in Seq(Certs \cup {None})
  BY <1>2, <1>4, ServedAssumption
<1>6. CASE TooMany(response)
  <2>1. /\ urls' = Tail(urls) /\ warnings' = warnings \cup {"aia"}
        /\ UNCHANGED <<pc, chain, bag, saves, expired, archived>>
    BY <1>6 DEF TooMany
  <2>2. ResolverInv'
    BY <1>3, <1>4, <2>1 DEF ResolverInv
  <2> QED
    BY <1>1, <1>3, <2>1, <2>2, BagFrame, StayStep
<1>7. CASE FetchAIA(response)
  <2> DEFINE parsed == Only(response, Certs)
  <2>1. parsed \in Seq(Certs)
    <3>1. parsed \in Seq(Certs \cup {None}) /\ ToSet(parsed) \subseteq Certs
      BY <1>5, OnlyFacts
    <3> HIDE DEF parsed
    <3> QED
      BY <3>1, SeqOfSet
  <2>2. bag' = bag \o [i \in DOMAIN parsed |-> Entry(parsed[i], "fetched")]
    BY <1>7 DEF FetchAIA
  <2>3. \/ /\ urls' = Tail(urls)
           /\ UNCHANGED <<pc, chain, warnings, saves, expired, archived>>
        \/ parsed # <<>> /\ Extend(AIAMatch(parsed), "fetched")
    BY <1>7 DEF FetchAIA
  <2> HIDE DEF parsed
  <2>4. BagInv'
    BY <1>1, <1>3, <2>1, <2>2, BagGrows
  <2>5. CASE /\ urls' = Tail(urls)
             /\ UNCHANGED <<pc, chain, warnings, saves, expired, archived>>
    <3>1. ResolverInv'
      BY <1>3, <1>4, <2>5 DEF ResolverInv
    <3> QED
      BY <1>1, <1>3, <2>4, <2>5, <3>1, StayStep
  <2>6. CASE parsed # <<>> /\ Extend(AIAMatch(parsed), "fetched")
    <3>1. Entry(AIAMatch(parsed), "fetched") \in Entries
      BY <2>1, <2>6, AIAMatchType, CertEntry
    <3> QED
      BY <1>1, <1>3, <2>4, <2>6, <3>1, ExtendStep
  <2> QED
    BY <2>3, <2>5, <2>6
<1> QED
  BY <1>2, <1>6, <1>7

LEMMA AIAExhaustedStep ==
  ASSUME IndInv, AIAExhausted PROVE IndInv'
<1>1. /\ pc = "aia" /\ pc' = "fallback" /\ UNCHANGED <<chain, saves>> /\ Frame
      /\ UNCHANGED <<bag, input>> /\ UNCHANGED <<warnings, expired, archived, urls>>
  BY DEF AIAExhausted, Frame, resolver
<1>2. ResolverInv'
  BY <1>1, AIAFacts DEF ResolverInv
<1> QED
  BY <1>1, <1>2, AIAFacts, BagFrame, StayStep

LEMMA TakeExpiredStep ==
  ASSUME IndInv, TakeExpired PROVE IndInv'
<1>1. /\ pc = "fallback" /\ expired # None /\ Extend(expired, "cache") /\ Frame
      /\ UNCHANGED <<bag, input>>
  BY DEF TakeExpired, Frame
<1>2. Entry(expired, "cache") \in Entries
  BY <1>1, AIAFacts, CertEntry DEF ResolverInv
<1> QED
  BY <1>1, <1>2, AIAFacts, BagFrame, ExtendStep

LEMMA ArchiveIssuerStep ==
  ASSUME IndInv, ArchiveIssuer PROVE IndInv'
<1> DEFINE valid == Only(archived, {c \in Certs : Info[c].valid})
           all == valid \o archived
<1>1. /\ pc = "fallback" /\ archived # <<>> /\ Extend(Head(all), "archive") /\ Frame
      /\ UNCHANGED input
      /\ bag' = bag \o [i \in DOMAIN archived |-> Entry(archived[i], "archive")]
  BY DEF ArchiveIssuer, Frame
<1>2. archived \in Seq(Certs) /\ BagInv
  BY <1>1, AIAFacts DEF ResolverInv
<1>3. valid \in Seq(Certs)
  BY <1>2, OnlyFacts
<1> HIDE DEF valid
<1>4. all \in Seq(Certs) /\ all # <<>>
  BY <1>1, <1>2, <1>3
<1> HIDE DEF all
<1>5. Entry(Head(all), "archive") \in Entries
  BY <1>4, TailFacts, CertEntry
<1>6. BagInv'
  BY <1>1, <1>2, BagGrows
<1> QED
  BY <1>1, <1>5, <1>6, AIAFacts, ExtendStep

LEMMA NoIssuerStep ==
  ASSUME IndInv, NoIssuer PROVE IndInv'
<1>1. /\ pc = "fallback" /\ LeaveLoop /\ UNCHANGED chain /\ Frame /\ UNCHANGED <<bag, input>>
      /\ UNCHANGED <<expired, archived, urls>> /\ warnings' = warnings \cup {"issuer"}
  BY DEF NoIssuer, Frame, resolver
<1>2. ResolverInv'
  BY <1>1, AIAFacts DEF ResolverInv
<1> QED
  BY <1>1, <1>2, AIAFacts, BagFrame, LeaveStep

LEMMA ChainStandsStep ==
  ASSUME IndInv, ChainStands PROVE IndInv'
<1>1. /\ pc = "resolve" /\ ~Resolving /\ LeaveLoop /\ UNCHANGED chain /\ Frame
      /\ UNCHANGED <<bag, input>> /\ UNCHANGED <<expired, archived, urls>>
      /\ warnings' = warnings \cup (IF DepthReached THEN {"depth"} ELSE {})
  BY DEF ChainStands, Frame, resolver
<1>2. Looping /\ BagInv /\ ResolverInv
      /\ warnings \subseteq {"loop", "depth", "issuer", "aia", "urls"}
  BY <1>1 DEF IndInv, Looping, ControlInv
<1>3. ResolverInv'
  BY <1>1, <1>2 DEF ResolverInv
<1>4. SelfSigned(Current) \/ DepthReached
  <2>1. Len(chain) \in Nat /\ MaxChainDepth \in Nat
    BY <1>2, LoopingFacts, BoundsAssumption
  <2> QED
    BY <1>1, <2>1 DEF Resolving, DepthReached
<1>5. /\ warnings' \subseteq {"loop", "depth", "issuer", "aia", "urls"}
      /\ SelfSigned(Current) \/ warnings' \cap {"loop", "depth", "issuer"} # {}
  BY <1>1, <1>2, <1>4
<1> QED
  BY <1>1, <1>2, <1>3, <1>5, BagFrame, LeaveStep


-----------------------------------------------------------------------------
(***************************************************************************)
(* Writes                                                                  *)
(***************************************************************************)

LEMMA InsertFacts ==
  ASSUME StoreInv, NEW new \in Seq(Certs), IsInjective(new), Insert(new)
  PROVE  /\ table' \in Seq(Certs) /\ IsInjective(table')
         /\ ToSet(table') = ToSet(table) \cup ToSet(new)
<1> DEFINE t == Only(new, Certs \ ToSet(table))
<1>1. table \in Seq(Certs) /\ IsInjective(table)
  BY DEF StoreInv
<1>2. t \in Seq(Certs) /\ IsInjective(t) /\ ToSet(t) = ToSet(new) \cap (Certs \ ToSet(table))
  BY OnlyFacts
<1>3. table' = table \o t
  BY DEF Insert
<1> HIDE DEF t
<1>4. ToSet(table) \cap ToSet(t) = {}
  BY <1>2
<1>5. /\ table \o t \in Seq(Certs) /\ IsInjective(table \o t)
      /\ ToSet(table \o t) = ToSet(table) \cup ToSet(t)
  BY <1>1, <1>2, <1>4, CatFacts
<1>6. ToSet(new) \subseteq Certs
  BY DEF ToSet
<1> QED
  BY <1>2, <1>3, <1>5, <1>6

LEMMA SingleFacts ==
  ASSUME NEW c \in Certs
  PROVE  <<c>> \in Seq(Certs) /\ IsInjective(<<c>>) /\ ToSet(<<c>>) = {c}
<1>1. <<c>> \in Seq(Certs) /\ DOMAIN <<c>> = {1} /\ <<c>>[1] = c
  OBVIOUS
<1> QED
  BY <1>1 DEF IsInjective, ToSet

LEMMA SteadyShrinks ==
  ASSUME steady' \subseteq steady
  PROVE  Reliable' \subseteq Reliable
BY DEF Reliable

\* A step that changes the store, and at most ends a phase of the analysis.
LEMMA WriteStep ==
  ASSUME IndInv, UNCHANGED <<input, chain, bag, warnings, resolver, cands, alt, walk>>,
         \/ pc' = pc
         \/ pc = "save" /\ pc' = "resolve"
         \/ pc' = "done"
         \/ pc \in {"resolve", "verify"} /\ pc' = "failed",
         StoreInv', steady' \subseteq steady, SavesInv', WroteInv'
  PROVE  IndInv'
<1>1. /\ input' = input /\ chain' = chain /\ bag' = bag /\ warnings' = warnings
      /\ cands' = cands /\ alt' = alt /\ names' = names /\ seen' = seen /\ depth' = depth
      /\ expired' = expired /\ archived' = archived /\ urls' = urls
  BY DEF resolver, walk
<1>2. (IsUpload' <=> IsUpload) /\ Leaf' = Leaf
  BY <1>1, InputFrame
<1>3. RequestInv'
  BY <1>1, <1>2 DEF IndInv, RequestInv
<1>4. ChainInv'
  BY <1>1 DEF IndInv, ChainInv
<1>5. ResolverInv'
  BY <1>1 DEF IndInv, ResolverInv
<1>6. BagInv'
  BY BagFrame DEF IndInv
<1>7. ControlInv'
  <2>1. Current' = Current
    BY <1>1 DEF Current
  <2> QED
    BY <1>1, <2>1 DEF IndInv, ControlInv, IncompleteIsWarned, SelfSigned
<1>8. CandsInv'
  BY <1>1 DEF IndInv, CandsInv
<1>9. Reliable' \subseteq Reliable
  BY SteadyShrinks
<1>10. OfferInv'
  <2>1. OwnCandidates' = OwnCandidates
    BY <1>1 DEF OwnCandidates, BagCerts, SelfSigned
  <2> QED
    BY <1>1, <1>9, <2>1 DEF IndInv, OfferInv
<1>11. WalkInv'
  BY <1>1, <1>9 DEF IndInv, WalkInv, SelfSigned
<1> QED
  BY <1>3, <1>4, <1>5, <1>6, <1>7, <1>8, <1>10, <1>11 DEF IndInv

LEMMA SavesFrame ==
  ASSUME IndInv, UNCHANGED <<input, chain, saves>>
  PROVE  SavesInv' /\ ChainCerts' = ChainCerts /\ Transient' = Transient
<1>1. Transient' = Transient /\ Sent' = Sent /\ ChainCerts' = ChainCerts
  BY InputFrame DEF ChainCerts
<1> QED
  BY <1>1 DEF IndInv, SavesInv

LEMMA AbortStep ==
  ASSUME IndInv, Abort PROVE IndInv'
<1>1. /\ UNCHANGED <<input, chain, bag, warnings, resolver, cands, alt, walk>>
      /\ UNCHANGED <<input, chain, saves>> /\ UNCHANGED store
      /\ pc \in {"resolve", "verify"} /\ pc' = "failed"
  BY DEF Abort, Resolving
<1>2. StoreInv' /\ steady' \subseteq steady
  BY <1>1 DEF IndInv, StoreInv, store
<1>3. SavesInv' /\ Transient' = Transient
  BY <1>1, SavesFrame
<1>4. WroteInv'
  BY <1>1, <1>3 DEF IndInv, WroteInv, LinkLeavesNoTrace, OnlyChainIsArchived, store
<1> QED
  BY <1>1, <1>2, <1>3, <1>4, WriteStep

LEMMA SaveLeafStep ==
  ASSUME IndInv, SaveLeaf PROVE IndInv'
<1>1. /\ UNCHANGED <<input, chain, bag, warnings, resolver, cands, alt, walk>>
      /\ UNCHANGED <<input, chain, saves>> /\ UNCHANGED <<pool, trusted, steady>>
      /\ pc = "save" /\ pc' = "resolve" /\ input' = input
      /\ \/ Leaf \notin Transient /\ Insert(<<Leaf>>) /\ wrote' = {Leaf}
         \/ UNCHANGED <<table, wrote>>
  BY DEF SaveLeaf
<1>2. ~IsUpload /\ Leaf \in Certs /\ chain # <<>> /\ chain[1].cert = Leaf /\ StoreInv
      /\ chain \in Seq(Entries)
  BY <1>1, InputFacts DEF IndInv, RequestInv, ChainInv
<1>3. Leaf \in ChainCerts
  <2>1. 1 \in DOMAIN chain
    BY <1>2
  <2> QED
    BY <1>2, <2>1 DEF ChainCerts
<1>4. SavesInv' /\ Transient' = Transient /\ ChainCerts' = ChainCerts
  BY <1>1, SavesFrame
<1>5. StoreInv'
  <2>1. CASE Insert(<<Leaf>>)
    <3>1. /\ table' \in Seq(Certs) /\ IsInjective(table')
          /\ ToSet(table') = ToSet(table) \cup ToSet(<<Leaf>>)
      BY <1>2, <2>1, SingleFacts, InsertFacts
    <3> QED
      BY <1>1, <1>2, <3>1 DEF StoreInv
  <2>2. CASE UNCHANGED table
    BY <1>1, <1>2, <2>2 DEF StoreInv
  <2> QED
    BY <1>1, <2>1, <2>2
<1>6. WroteInv'
  <2>1. wrote = {}
    BY <1>1 DEF IndInv, WroteInv
  <2>2. wrote' \cap Transient = {} /\ wrote' \subseteq ChainCerts
    BY <1>1, <1>3, <2>1
  <2> QED
    BY <1>1, <1>4, <2>2 DEF WroteInv, LinkLeavesNoTrace, OnlyChainIsArchived
<1> QED
  BY <1>1, <1>4, <1>5, <1>6, WriteStep

LEMMA ArchiveStep ==
  ASSUME IndInv, Archive PROVE IndInv'
<1>1. /\ UNCHANGED <<input, chain, bag, warnings, resolver, cands, alt, walk>>
      /\ input' = input /\ chain' = chain /\ UNCHANGED <<pool, trusted, steady>>
      /\ pc = "archive" /\ pc' = pc /\ saves # <<>> /\ saves' = Tail(saves)
      /\ \/ Insert(<<Head(saves)>>) /\ wrote' = wrote \cup {Head(saves)}
         \/ UNCHANGED <<table, wrote>>
  BY DEF Archive
<1>2. /\ saves \in Seq(Certs) /\ ToSet(saves) \subseteq (ChainCerts \cup Sent) \ Transient
      /\ StoreInv /\ ~IsUpload
  BY <1>1 DEF IndInv, SavesInv, RequestInv
<1>3. /\ Tail(saves) \in Seq(Certs) /\ Head(saves) \in Certs /\ Head(saves) \in ToSet(saves)
      /\ ToSet(Tail(saves)) \subseteq ToSet(saves)
  BY <1>1, <1>2, TailFacts
<1>4. Transient' = Transient /\ Sent' = Sent /\ ChainCerts' = ChainCerts
      /\ Sent = ToSet(input.bag)
  BY <1>1, <1>2, InputFrame DEF ChainCerts, Sent
<1>5. SavesInv'
  BY <1>1, <1>2, <1>3, <1>4 DEF SavesInv
<1>6. StoreInv'
  <2>1. CASE Insert(<<Head(saves)>>)
    <3>1. /\ table' \in Seq(Certs) /\ IsInjective(table')
          /\ ToSet(table') = ToSet(table) \cup ToSet(<<Head(saves)>>)
      BY <1>2, <1>3, <2>1, SingleFacts, InsertFacts
    <3> QED
      BY <1>1, <1>2, <3>1 DEF StoreInv
  <2>2. CASE UNCHANGED table
    BY <1>1, <1>2, <2>2 DEF StoreInv
  <2> QED
    BY <1>1, <2>1, <2>2
<1>7. WroteInv'
  <2>1. wrote \cap Transient = {} /\ wrote \subseteq ChainCerts \cup ToSet(input.bag)
    BY <1>1 DEF IndInv, WroteInv, LinkLeavesNoTrace, OnlyChainIsArchived
  <2>2. wrote' \cap Transient = {} /\ wrote' \subseteq ChainCerts \cup ToSet(input.bag)
    BY <1>1, <1>2, <1>3, <1>4, <2>1
  <2> QED
    BY <1>1, <1>4, <2>2 DEF WroteInv, LinkLeavesNoTrace, OnlyChainIsArchived
<1> QED
  BY <1>1, <1>5, <1>6, <1>7, WriteStep

LEMMA TrustedPathStep ==
  ASSUME IndInv, UNCHANGED <<input, chain, bag, warnings, resolver, cands, alt, walk>>,
         UNCHANGED saves, pc' = pc \/ pc' = "done", pc \in {"verify", "walk"},
         NEW c \in Certs, TrustedPath(c)
  PROVE  IndInv'
<1>1. StoreInv /\ cands \in SUBSET Certs
  BY DEF IndInv, CandsInv
<1>2. SavesInv' /\ Transient' = Transient /\ ChainCerts' = ChainCerts
  BY SavesFrame
<1>3. wrote \cap Transient = {}
  BY DEF IndInv, WroteInv, LinkLeavesNoTrace
<1>4. CASE UNCHANGED store
  <2>1. StoreInv' /\ steady' \subseteq steady /\ wrote' = wrote
    BY <1>1, <1>4 DEF StoreInv, store
  <2>2. WroteInv'
    BY <1>2, <1>3, <2>1 DEF WroteInv, LinkLeavesNoTrace, OnlyChainIsArchived
  <2> QED
    BY <1>2, <2>1, <2>2, WriteStep
<1>5. CASE ~UNCHANGED store
  <2>1. PICK p \in PathsToTrust(c, cands) :
          \E saved \in SUBSET {d \in ToSet(p) \ Transient : Info[d].ca} :
            /\ Insert(Only(p, saved))
            /\ pool' = pool \cup saved
            /\ wrote' = wrote \cup saved
            /\ UNCHANGED <<trusted, steady, changes>>
    BY <1>5 DEF TrustedPath
  <2>2. PICK saved \in SUBSET {d \in ToSet(p) \ Transient : Info[d].ca} :
            /\ Insert(Only(p, saved))
            /\ pool' = pool \cup saved
            /\ wrote' = wrote \cup saved
            /\ UNCHANGED <<trusted, steady, changes>>
    BY <2>1
  <2>3. p \in Seq(Certs) /\ IsInjective(p)
    BY <1>1, PathsType DEF PathsToTrust
  <2>4. /\ Only(p, saved) \in Seq(Certs) /\ IsInjective(Only(p, saved))
        /\ ToSet(Only(p, saved)) = ToSet(p) \cap saved
    BY <2>3, OnlyFacts
  <2>5. /\ table' \in Seq(Certs) /\ IsInjective(table')
        /\ ToSet(table') = ToSet(table) \cup ToSet(Only(p, saved))
    BY <1>1, <2>2, <2>4, InsertFacts
  <2>6. saved \subseteq ToSet(p) \ Transient
    OBVIOUS
  <2>7. StoreInv' /\ steady' \subseteq steady
    BY <1>1, <2>2, <2>4, <2>5, <2>6 DEF StoreInv
  <2>8. WroteInv'
    BY <1>2, <1>3, <2>2, <2>6 DEF WroteInv, LinkLeavesNoTrace, OnlyChainIsArchived
  <2> QED
    BY <1>2, <2>7, <2>8, WriteStep
<1> QED
  BY <1>4, <1>5

LEMMA VerifyStep ==
  ASSUME IndInv, Verify \/ \E i \in 1..MaxChainDepth : CheckIssuer(i)
  PROVE  IndInv'
<1>1. pc = "verify" /\ ~IsUpload /\ Leaf \in Certs
  BY InputFacts DEF Verify, CheckIssuer, IndInv, RequestInv
<1>2. CASE Verify
  BY <1>1, <1>2, TrustedPathStep DEF Verify
<1>3. ASSUME NEW i \in 1..MaxChainDepth, CheckIssuer(i) PROVE IndInv'
  <2>1. chain[i].cert \in Certs
    <3>1. chain \in Seq(Entries) /\ i \in 1..Len(chain)
      BY <1>3 DEF CheckIssuer, IndInv, ChainInv
    <3> QED
      BY <3>1, EntriesCerts
  <2> QED
    BY <1>1, <1>3, <2>1, TrustedPathStep DEF CheckIssuer
<1> QED
  BY <1>2, <1>3

LEMMA WalkedStep ==
  ASSUME IndInv, Walked PROVE IndInv'
<1>1. pc = "walk" /\ input.crlCA \in Certs
  BY InputFacts DEF Walked, WalkStands, IndInv, RequestInv
<1> QED
  BY <1>1, TrustedPathStep DEF Walked

LEMMA TrustedCAStep ==
  ASSUME IndInv, TrustedCA PROVE IndInv'
<1>1. /\ UNCHANGED <<input, chain, bag, warnings, resolver, cands, alt, walk>>
      /\ UNCHANGED <<input, chain, saves>> /\ UNCHANGED store
      /\ pc' = "done"
  BY DEF TrustedCA
<1>2. StoreInv' /\ steady' \subseteq steady
  BY <1>1 DEF IndInv, StoreInv, store
<1>3. SavesInv' /\ Transient' = Transient
  BY <1>1, SavesFrame
<1>4. WroteInv'
  BY <1>1, <1>3 DEF IndInv, WroteInv, LinkLeavesNoTrace, OnlyChainIsArchived, store
<1> QED
  BY <1>1, <1>2, <1>3, <1>4, WriteStep

LEMMA OthersStep ==
  ASSUME IndInv, NEW c \in Certs, OtherSaves(c) \/ ToggleTrust(c)
  PROVE  IndInv'
<1>1. /\ UNCHANGED <<input, chain, bag, warnings, resolver, cands, alt, walk>>
      /\ UNCHANGED <<input, chain, saves>> /\ pc' = pc /\ wrote' = wrote
  BY DEF OtherSaves, ToggleTrust, analysis
<1>2. SavesInv' /\ Transient' = Transient /\ ChainCerts' = ChainCerts /\ input' = input
  BY <1>1, SavesFrame
<1>3. WroteInv'
  BY <1>1, <1>2 DEF IndInv, WroteInv, LinkLeavesNoTrace, OnlyChainIsArchived
<1>4. StoreInv' /\ steady' \subseteq steady
  <2>1. CASE OtherSaves(c)
    <3>1. /\ table' \in Seq(Certs) /\ IsInjective(table')
          /\ ToSet(table') = ToSet(table) \cup {c}
      BY <2>1, SingleFacts, InsertFacts DEF OtherSaves, IndInv
    <3>2. /\ pool \subseteq pool' /\ pool' \subseteq pool \cup {c}
          /\ trusted' = trusted /\ steady' = steady
      BY <2>1 DEF OtherSaves
    <3> QED
      BY <3>1, <3>2 DEF IndInv, StoreInv
  <2>2. CASE ToggleTrust(c)
    BY <2>2 DEF ToggleTrust, IndInv, StoreInv, SymDiff
  <2> QED
    BY <2>1, <2>2
<1> QED
  BY <1>1, <1>2, <1>3, <1>4, WriteStep


-----------------------------------------------------------------------------
(***************************************************************************)
(* The candidates and the walk                                             *)
(***************************************************************************)

LEMMA OwnCandidatesType ==
  ASSUME ChainInv, BagInv
  PROVE  OwnCandidates \subseteq Certs
<1>1. chain \in Seq(Entries) /\ DOMAIN chain = 1..Len(chain)
  BY DEF ChainInv
<1>2. bag \in Seq(Entries) /\ DOMAIN bag = 1..Len(bag)
  BY DEF BagInv
<1>3. \A i \in DOMAIN chain : chain[i].cert \in Certs
  BY <1>1, EntriesCerts
<1>4. \A i \in DOMAIN bag : bag[i].cert \in Certs
  BY <1>2, EntriesCerts
<1> QED
  BY <1>3, <1>4 DEF OwnCandidates, BagCerts

\* A query for a name misses no reliable certificate that bears it.
LEMMA NamedReliable ==
  ASSUME StoreInv, NEW name, NEW c \in Reliable, Info[c].name = name
  PROVE  c \in ToSet(Named(name))
<1>1. c \in steady /\ Cardinality({d \in Certs : Info[d].name = Info[c].name}) =< MaxAltCandidates
  BY DEF Reliable
<1>2. c \in pool \cup trusted
  BY <1>1 DEF StoreInv
<1>3. Cardinality({d \in Certs : Info[d].name = name}) =< MaxAltCandidates
  BY <1>1
<1> QED
  BY <1>2, <1>3, NamedComplete

LEMMA NamedType ==
  ASSUME StoreInv, NEW name
  PROVE  Named(name) \in Seq(Certs) /\ ToSet(Named(name)) \subseteq Certs
<1>1. Named(name) \in Seq(Certs)
  BY PoolIssuersType DEF Named
<1> QED
  BY <1>1 DEF ToSet

LEMMA CollectStep ==
  ASSUME IndInv, Collect PROVE IndInv'
<1>1. /\ input' = input /\ chain' = chain /\ bag' = bag /\ saves' = saves
      /\ UNCHANGED resolver /\ UNCHANGED walk /\ UNCHANGED store
      /\ pc = "archive" /\ pc' = "alternates"
      /\ cands' = OwnCandidates /\ alt' = 1
      /\ warnings \subseteq warnings' /\ warnings' \subseteq warnings \cup {"urls"}
  BY DEF Collect
<1>2. StoreInv' /\ ResolverInv'
  BY <1>1 DEF IndInv, StoreInv, ResolverInv, store, resolver
<1>3. (IsUpload' <=> IsUpload) /\ Leaf' = Leaf /\ ~IsUpload
  BY <1>1, InputFrame DEF IndInv, RequestInv
<1>4. RequestInv' /\ ChainInv'
  BY <1>1, <1>3 DEF IndInv, RequestInv, ChainInv
<1>5. BagInv'
  BY <1>1, BagFrame DEF IndInv
<1>6. SavesInv' /\ ChainCerts' = ChainCerts /\ Transient' = Transient
  BY <1>1, SavesFrame
<1>7. ControlInv'
  <2>1. Current' = Current
    BY <1>1 DEF Current
  <2>2. SelfSigned(Current) \/ warnings \cap {"loop", "depth", "issuer"} # {}
    BY <1>1 DEF IndInv, ControlInv, IncompleteIsWarned
  <2> QED
    BY <1>1, <2>1, <2>2 DEF IndInv, ControlInv, IncompleteIsWarned, SelfSigned
<1>8. WroteInv'
  BY <1>1, <1>6 DEF IndInv, WroteInv, LinkLeavesNoTrace, OnlyChainIsArchived, store
<1>9. CandsInv'
  <2>1. OwnCandidates \subseteq Certs
    BY OwnCandidatesType DEF IndInv
  <2> QED
    BY <1>1, <2>1 DEF IndInv, CandsInv, walk
<1>10. OfferInv'
  <2>1. OwnCandidates' = OwnCandidates
    BY <1>1 DEF OwnCandidates, BagCerts, SelfSigned
  <2>2. \A k \in DOMAIN chain : ~(k < 1)
    BY DEF IndInv, ChainInv
  <2> QED
    BY <1>1, <2>1, <2>2 DEF OfferInv
<1>11. WalkInv'
  BY <1>1 DEF WalkInv
<1> QED
  BY <1>2, <1>4, <1>5, <1>6, <1>7, <1>8, <1>9, <1>10, <1>11 DEF IndInv

LEMMA AlternatesStep ==
  ASSUME IndInv, Alternates PROVE IndInv'
<1>1. /\ input' = input /\ chain' = chain /\ bag' = bag /\ saves' = saves /\ warnings' = warnings
      /\ UNCHANGED resolver /\ UNCHANGED walk /\ UNCHANGED store
      /\ pc = "alternates" /\ pc' \in {"alternates", "verify"}
  BY DEF Alternates
<1>2. \/ /\ alt =< Len(chain) /\ alt' = alt + 1 /\ pc' = pc
         /\ cands' = cands \cup ToSet(Named(Info[chain[alt].cert].issuer))
      \/ alt > Len(chain) /\ pc' = "verify" /\ cands' = cands /\ alt' = alt
  BY DEF Alternates
<1>3. StoreInv /\ StoreInv' /\ ResolverInv'
  BY <1>1 DEF IndInv, StoreInv, ResolverInv, store, resolver
<1>4. (IsUpload' <=> IsUpload) /\ Leaf' = Leaf /\ ~IsUpload
  BY <1>1, InputFrame DEF IndInv, RequestInv
<1>5. RequestInv' /\ ChainInv'
  BY <1>1, <1>4 DEF IndInv, RequestInv, ChainInv
<1>6. BagInv'
  BY <1>1, BagFrame DEF IndInv
<1>7. SavesInv' /\ ChainCerts' = ChainCerts /\ Transient' = Transient
  BY <1>1, SavesFrame
<1>8. ControlInv'
  <2>1. Current' = Current
    BY <1>1 DEF Current
  <2> QED
    BY <1>1, <2>1 DEF IndInv, ControlInv, IncompleteIsWarned, SelfSigned
<1>9. WroteInv'
  BY <1>1, <1>7 DEF IndInv, WroteInv, LinkLeavesNoTrace, OnlyChainIsArchived, store
<1>10. CandsInv'
  <2>1. cands' \subseteq Certs
    BY <1>2, <1>3, NamedType DEF IndInv, CandsInv
  <2>2. alt' \in Nat \ {0}
    BY <1>2 DEF IndInv, CandsInv
  <2> QED
    BY <1>1, <2>1, <2>2 DEF IndInv, CandsInv, walk
<1>11. OfferInv'
  <2>1. OwnCandidates' = OwnCandidates /\ Reliable' = Reliable
    BY <1>1 DEF OwnCandidates, BagCerts, SelfSigned, Reliable, store
  <2>2. cands \subseteq cands' /\ OwnCandidates \subseteq cands
    BY <1>1, <1>2 DEF IndInv, OfferInv
  <2>3. ASSUME NEW k \in DOMAIN chain, k < alt' \/ pc' = "verify", NEW c \in Reliable,
               Info[c].name = Info[chain[k].cert].issuer
        PROVE  c \in cands'
    <3>1. k \in 1..Len(chain) /\ Len(chain) \in Nat /\ alt \in Nat
      BY DEF IndInv, ChainInv, CandsInv
    <3>2. CASE k < alt
      BY <1>1, <2>2, <2>3, <3>2 DEF IndInv, OfferInv
    <3>3. CASE ~(k < alt)
      <4>1. k = alt /\ cands' = cands \cup ToSet(Named(Info[chain[alt].cert].issuer))
        BY <1>1, <1>2, <2>3, <3>1, <3>3
      <4>2. c \in ToSet(Named(Info[chain[k].cert].issuer))
        BY <1>3, <2>3, NamedReliable
      <4> QED
        BY <4>1, <4>2
    <3> QED
      BY <3>2, <3>3
  <2> QED
    BY <1>1, <2>1, <2>2, <2>3 DEF OfferInv
<1>12. WalkInv'
  BY <1>1 DEF WalkInv
<1> QED
  BY <1>3, <1>5, <1>6, <1>7, <1>8, <1>9, <1>10, <1>11, <1>12 DEF IndInv

\* The issuers of the certificates found are queued behind the names that wait.
LEMMA QueuedFacts ==
  ASSUME names \in Seq(Names), names # <<>>, NEW found \in Seq(Certs)
  PROVE  /\ Queued(found) \in Seq(Names)
         /\ ToSet(names) \subseteq {Head(names)} \cup ToSet(Queued(found))
         /\ \A c \in ToSet(found) : SelfSigned(c) \/ Info[c].issuer \in ToSet(Queued(found))
<1> DEFINE next == Only(found, {c \in Certs : ~SelfSigned(c)})
           new == [i \in DOMAIN next |-> Info[next[i]].issuer]
<1>1. Queued(found) = Tail(names) \o new
  BY DEF Queued
<1>2. next \in Seq(Certs) /\ ToSet(next) = ToSet(found) \cap {c \in Certs : ~SelfSigned(c)}
  BY OnlyFacts
<1> HIDE DEF next
<1>3. DOMAIN next = 1..Len(next) /\ Len(next) \in Nat
  BY <1>2
<1>4. new \in Seq(Names) /\ \A c \in ToSet(next) : Info[c].issuer \in ToSet(new)
  <2>1. \A i \in 1..Len(next) : Info[next[i]].issuer \in Names
    BY <1>2 DEF Names
  <2>2. [i \in 1..Len(next) |-> Info[next[i]].issuer] \in Seq(Names)
    BY <1>3, <2>1
  <2> QED
    BY <1>3, <2>2 DEF ToSet
<1> HIDE DEF new
<1>5. Tail(names) \in Seq(Names) /\ ToSet(names) = ToSet(Tail(names)) \cup {Head(names)}
  BY TailFacts
<1>6. /\ Tail(names) \o new \in Seq(Names)
      /\ ToSet(Tail(names) \o new) = ToSet(Tail(names)) \cup ToSet(new)
  BY <1>4, <1>5, CatFacts, ZenonT(60)
<1>7. \A c \in ToSet(found) : c \in Certs
  BY DEF ToSet
<1> QED
  BY <1>1, <1>2, <1>4, <1>5, <1>6, <1>7

LEMMA WalkStep ==
  ASSUME IndInv, Walk PROVE IndInv'
<1>1. /\ input' = input /\ chain' = chain /\ bag' = bag /\ saves' = saves /\ warnings' = warnings
      /\ UNCHANGED resolver /\ UNCHANGED store /\ alt' = alt
      /\ pc = "walk" /\ pc' = pc /\ names # <<>> /\ depth' = depth + 1
  BY DEF Walk
<1> DEFINE found == Named(Head(names))
<1>2. \/ Head(names) \in seen /\ names' = Tail(names) /\ seen' = seen /\ cands' = cands
      \/ /\ seen' = seen \cup {Head(names)} /\ cands' = cands \cup ToSet(found)
         /\ names' = Queued(found)
  BY DEF Walk
<1>3. StoreInv /\ StoreInv' /\ ResolverInv'
  BY <1>1 DEF IndInv, StoreInv, ResolverInv, store, resolver
<1>4. (IsUpload' <=> IsUpload) /\ Leaf' = Leaf /\ IsUpload
  BY <1>1, InputFrame DEF IndInv, RequestInv
<1>5. RequestInv' /\ ChainInv'
  BY <1>1, <1>4 DEF IndInv, RequestInv, ChainInv
<1>6. BagInv'
  BY <1>1, BagFrame DEF IndInv
<1>7. SavesInv' /\ ChainCerts' = ChainCerts /\ Transient' = Transient
  BY <1>1, SavesFrame
<1>8. ControlInv'
  BY <1>1 DEF IndInv, ControlInv, IncompleteIsWarned
<1>9. WroteInv'
  BY <1>1, <1>7 DEF IndInv, WroteInv, LinkLeavesNoTrace, OnlyChainIsArchived, store
<1>10. /\ found \in Seq(Certs) /\ ToSet(found) \subseteq Certs /\ names \in Seq(Names)
       /\ cands \subseteq Certs /\ depth \in Nat /\ alt \in Nat \ {0}
  BY <1>3, NamedType DEF IndInv, CandsInv
<1> HIDE DEF found
<1>11. /\ Tail(names) \in Seq(Names)
       /\ ToSet(names) = ToSet(Tail(names)) \cup {Head(names)}
  BY <1>1, <1>10, TailFacts
<1>12. /\ Queued(found) \in Seq(Names)
       /\ ToSet(names) \subseteq {Head(names)} \cup ToSet(Queued(found))
       /\ \A c \in ToSet(found) : SelfSigned(c) \/ Info[c].issuer \in ToSet(Queued(found))
  BY <1>1, <1>10, QueuedFacts
<1>13. CandsInv'
  <2>1. names' \in Seq(Names)
    BY <1>2, <1>11, <1>12
  <2>2. cands' \subseteq Certs
    BY <1>2, <1>10
  <2>3. depth' \in Nat /\ alt' \in Nat \ {0}
    BY <1>1, <1>10
  <2> QED
    BY <2>1, <2>2, <2>3 DEF CandsInv
<1>14. OfferInv'
  BY <1>1 DEF OfferInv
<1>15. WalkInv'
  <2>1. Reliable' = Reliable
    BY <1>1 DEF Reliable, store
  <2>2. /\ Info[input.crlCA].issuer \in seen \cup ToSet(names)
        /\ \A c \in Reliable : Info[c].name \in seen =>
             c \in cands /\ (SelfSigned(c) \/ Info[c].issuer \in seen \cup ToSet(names))
    BY <1>1 DEF IndInv, WalkInv
  <2>3. seen \cup ToSet(names) \subseteq seen' \cup ToSet(names') /\ cands \subseteq cands'
    BY <1>2, <1>11, <1>12
  <2>4. ASSUME NEW c \in Reliable, Info[c].name \in seen'
        PROVE  c \in cands' /\ (SelfSigned(c) \/ Info[c].issuer \in seen' \cup ToSet(names'))
    <3>1. CASE Info[c].name \in seen
      BY <2>2, <2>3, <3>1
    <3>2. CASE Info[c].name \notin seen
      <4>1. /\ Info[c].name = Head(names) /\ cands' = cands \cup ToSet(found)
            /\ names' = Queued(found)
        BY <1>2, <2>4, <3>2
      <4>2. c \in ToSet(found)
        BY <1>3, <4>1, NamedReliable DEF found
      <4> QED
        BY <1>12, <4>1, <4>2
    <3> QED
      BY <3>1, <3>2
  <2> QED
    BY <1>1, <2>1, <2>2, <2>3, <2>4 DEF WalkInv, SelfSigned
<1> QED
  BY <1>3, <1>5, <1>6, <1>7, <1>8, <1>9, <1>13, <1>14, <1>15 DEF IndInv

-----------------------------------------------------------------------------
(***************************************************************************)
(* The theorems                                                            *)
(***************************************************************************)

LEMMA InitIndInv == Init => IndInv
<1> SUFFICES ASSUME Init PROVE IndInv
  OBVIOUS
<1>1. /\ warnings = {} /\ expired = None /\ archived = <<>> /\ urls = <<>> /\ saves = <<>>
      /\ cands = {} /\ alt = 1 /\ seen = {} /\ depth = 0 /\ wrote = {}
      /\ steady = pool \cup trusted /\ input \in Inputs
      /\ pc = IF IsUpload THEN "walk" ELSE "save"
  BY DEF Init
<1>2. StoreInv
  BY <1>1, TablesAssumption DEF Init, StoreInv
<1>3. ResolverInv /\ WroteInv /\ OfferInv
  BY <1>1 DEF ResolverInv, WroteInv, OfferInv, LinkLeavesNoTrace, OnlyChainIsArchived
<1>4. ControlInv
  BY <1>1 DEF ControlInv, IncompleteIsWarned
<1>5. SavesInv
  BY <1>1 DEF SavesInv, ToSet
<1>6. CASE IsUpload
  <2>1. /\ chain = <<>> /\ bag = <<>> /\ pc = "walk" /\ names = <<Info[input.crlCA].issuer>>
        /\ input.crlCA \in Certs
    BY <1>1, <1>6, InputFacts DEF Init
  <2>2. RequestInv
    BY <1>1, <1>6, <2>1 DEF RequestInv
  <2>3. ChainInv
    <3>1. <<>> \in Seq(Entries) /\ Len(<<>>) = 0 /\ DOMAIN <<>> = {}
      OBVIOUS
    <3> QED
      BY <2>1, <3>1, BoundsAssumption DEF ChainInv
  <2>4. BagInv
    BY <2>1 DEF BagInv, ToSet
  <2>5. names \in Seq(Names) /\ Info[input.crlCA].issuer \in ToSet(names)
    BY <2>1 DEF Names, ToSet
  <2>6. CandsInv
    BY <1>1, <2>5 DEF CandsInv
  <2>7. WalkInv
    BY <1>1, <2>5 DEF WalkInv
  <2> QED
    BY <1>2, <1>3, <1>4, <1>5, <2>2, <2>3, <2>4, <2>6, <2>7 DEF IndInv
<1>7. CASE ~IsUpload
  <2>1. /\ chain = <<Entry(Leaf, IF input.link THEN "link" ELSE "upload")>>
        /\ bag = [i \in DOMAIN input.bag |->
                    Entry(input.bag[i], IF input.link THEN "link" ELSE "tls")]
        /\ pc = "save" /\ names = <<>>
        /\ Leaf \in Certs /\ input.bag \in Seq(Certs) /\ input.link \in BOOLEAN
    BY <1>1, <1>7, InputFacts DEF Init
  <2> DEFINE e == Entry(Leaf, IF input.link THEN "link" ELSE "upload")
  <2>2. e \in Entries /\ e.cert = Leaf
    BY <2>1 DEF Entry, Entries
  <2>3. chain = <<e>>
    BY <2>1
  <2> HIDE DEF e
  <2>4. chain \in Seq(Entries) /\ Len(chain) = 1 /\ DOMAIN chain = {1} /\ chain # <<>>
        /\ chain[1] = e
    BY <2>2, <2>3
  <2>5. RequestInv
    BY <1>1, <1>7, <2>1, <2>2, <2>4 DEF RequestInv
  <2>6. ChainInv
    BY <2>1, <2>4, BoundsAssumption DEF ChainInv
  <2>7. BagInv
    <3> DEFINE s == IF input.link THEN "link" ELSE "tls"
               t == input.bag
    <3>1. bag = [i \in DOMAIN t |-> Entry(t[i], s)] /\ t \in Seq(Certs) /\ DOMAIN t = 1..Len(t)
          /\ s \in {"link", "tls"} /\ (s = "tls" => ~input.link)
      BY <2>1
    <3>2. s = "tls" => Transient = {}
      BY <3>1 DEF Transient
    <3>3. Sent = ToSet(t)
      BY <1>7 DEF Sent
    <3> HIDE DEF s, t
    <3>4. \A i \in 1..Len(t) : /\ Entry(t[i], s) \in Entries
                               /\ Entry(t[i], s).src = s /\ Entry(t[i], s).cert = t[i]
      BY <3>1 DEF Entry, Entries
    <3>5. bag \in Seq(Entries)
      BY <3>1, <3>4
    <3>6. \A b \in ToSet(bag) : b.src = s /\ b.cert \in ToSet(t)
      BY <3>1, <3>4 DEF ToSet
    <3> QED
      BY <3>2, <3>3, <3>5, <3>6 DEF BagInv
  <2>8. CandsInv /\ WalkInv
    BY <1>1, <2>1 DEF CandsInv, WalkInv
  <2> QED
    BY <1>2, <1>3, <1>4, <1>5, <2>5, <2>6, <2>7, <2>8 DEF IndInv
<1> QED
  BY <1>6, <1>7

LEMMA StutterIndInv == IndInv /\ UNCHANGED vars => IndInv'
<1> SUFFICES ASSUME IndInv, UNCHANGED vars PROVE IndInv'
  OBVIOUS
<1>1. /\ UNCHANGED <<input, chain, bag, warnings, resolver, cands, alt, walk>>
      /\ UNCHANGED <<input, chain, saves>> /\ UNCHANGED store /\ pc' = pc /\ wrote' = wrote
  BY DEF vars, resolver, walk, store
<1>2. StoreInv' /\ steady' \subseteq steady
  BY <1>1 DEF IndInv, StoreInv, store
<1>3. SavesInv' /\ Transient' = Transient /\ ChainCerts' = ChainCerts /\ input' = input
  BY <1>1, SavesFrame
<1>4. WroteInv'
  BY <1>1, <1>3 DEF IndInv, WroteInv, LinkLeavesNoTrace, OnlyChainIsArchived
<1> QED
  BY <1>1, <1>2, <1>3, <1>4, WriteStep

LEMMA NextIndInv == IndInv /\ [Next]_vars => IndInv'
<1> SUFFICES ASSUME IndInv, [Next]_vars PROVE IndInv'
  OBVIOUS
<1>1. CASE SaveLeaf \/ Abort \/ MatchBag \/ MatchPool \/ MissPool
  BY <1>1, SaveLeafStep, AbortStep, MatchBagStep, MatchPoolStep, MissPoolStep
<1>2. CASE FetchFails \/ Fetch \/ AIAExhausted \/ TakeExpired \/ ArchiveIssuer \/ NoIssuer
  BY <1>2, FetchFailsStep, FetchStep, AIAExhaustedStep, TakeExpiredStep, ArchiveIssuerStep,
     NoIssuerStep
<1>3. CASE ChainStands \/ Archive \/ Collect \/ Alternates
  BY <1>3, ChainStandsStep, ArchiveStep, CollectStep, AlternatesStep
<1>4. CASE Verify \/ \E i \in 1..MaxChainDepth : CheckIssuer(i)
  BY <1>4, VerifyStep
<1>5. CASE TrustedCA \/ Walk \/ Walked
  BY <1>5, TrustedCAStep, WalkStep, WalkedStep
<1>6. CASE \E c \in Certs : OtherSaves(c) \/ ToggleTrust(c)
  BY <1>6, OthersStep
<1>7. CASE UNCHANGED vars
  BY <1>7, StutterIndInv
<1> QED
  BY <1>1, <1>2, <1>3, <1>4, <1>5, <1>6, <1>7 DEF Next

LEMMA Inductive == Spec => []IndInv
BY InitIndInv, NextIndInv, PTL DEF Spec


\* Type correctness; an entry of the chain never repeats, and the chain never
\* outgrows maxChainDepth.
THEOREM TypeCorrect == Spec => []TypeOK
<1>1. IndInv => TypeOK
  <2> SUFFICES ASSUME IndInv PROVE TypeOK
    OBVIOUS
  <2>1. IsInjective(table) /\ ToSet(table) \subseteq Certs
    BY DEF IndInv, StoreInv, ToSet
  <2>2. BagCerts \subseteq Certs
    <3>1. bag \in Seq(Entries) /\ DOMAIN bag = 1..Len(bag)
      BY DEF IndInv, BagInv
    <3> QED
      BY <3>1, EntriesCerts DEF BagCerts
  <2>3. ToSet(archived) \cup ToSet(saves) \cup cands \subseteq Certs
    <3>1. archived \in Seq(Certs) /\ saves \in Seq(Certs) /\ cands \subseteq Certs
      BY DEF IndInv, ResolverInv, SavesInv, CandsInv
    <3> QED
      BY <3>1 DEF ToSet
  <2> QED
    BY <2>1, <2>2, <2>3 DEF TypeOK, IndInv, StoreInv, ControlInv, ChainInv, ResolverInv
<1> QED
  BY <1>1, Inductive, PTL

\* A chain that analyzeData leaves without a self-signed end carries the warning
\* that says why: loop, depth or no issuer.
THEOREM Warned == Spec => []IncompleteIsWarned
<1>1. IndInv => IncompleteIsWarned
  BY DEF IndInv, ControlInv
<1> QED
  BY <1>1, Inductive, PTL

\* No analysis stores a certificate that came in its link, whichever of AIA,
\* archive, chain or verified path yields it.
THEOREM NoTrace == Spec => []LinkLeavesNoTrace
<1>1. IndInv => LinkLeavesNoTrace
  BY DEF IndInv, WroteInv
<1> QED
  BY <1>1, Inductive, PTL

\* Until OpenSSL has verified a path, an analysis writes only its chain and what
\* the site sent.
THEOREM ArchivesChain == Spec => []OnlyChainIsArchived
<1>1. IndInv => OnlyChainIsArchived
  BY DEF IndInv, WroteInv
<1> QED
  BY <1>1, Inductive, PTL

LEMMA ReliableType ==
  ASSUME StoreInv
  PROVE  Reliable \subseteq Certs
BY DEF StoreInv, Reliable, ToSet

\* The candidates of analyzeData hold a path to a trusted root whenever the
\* certificates in hand and the pool's certificates named in the chain do.
THEOREM Offered == Spec => []AlternatesOffered
<1>1. IndInv => AlternatesOffered
  <2> DEFINE issuers == {Info[c].issuer : c \in ChainCerts}
             named == {c \in Reliable : Info[c].name \in issuers}
             S == ChainCerts \cup BagCerts \cup named
  <2> SUFFICES ASSUME IndInv, pc = "verify", PathsToTrust(Leaf, S) # {}
               PROVE  PathsToTrust(Leaf, cands) # {}
    BY DEF AlternatesOffered
  <2>1. /\ ~IsUpload /\ Leaf \in Certs /\ chain \in Seq(Entries) /\ chain # <<>>
        /\ chain[1].cert = Leaf /\ StoreInv /\ ChainInv /\ BagInv /\ cands \subseteq Certs
    BY InputFacts DEF IndInv, RequestInv, ChainInv, CandsInv
  <2>2. DOMAIN chain = 1..Len(chain) /\ Len(chain) \in Nat \ {0}
    BY <2>1
  <2>3. BagCerts \cup OwnCandidates \subseteq Certs /\ BagCerts \subseteq OwnCandidates
    BY <2>1, OwnCandidatesType DEF OwnCandidates
  <2>4. S \in SUBSET Certs /\ cands \in SUBSET Certs
    BY <2>1, <2>3, ChainCertsIs, ReliableType
  <2>5. OwnCandidates \subseteq cands
    BY DEF IndInv, OfferInv
  <2>6. ASSUME NEW d \in S, d # Leaf PROVE d \in cands
    <3>1. CASE d \in ChainCerts
      <4>1. PICK i \in DOMAIN chain : d = chain[i].cert
        BY <3>1 DEF ChainCerts
      <4>2. i > 1
        BY <2>1, <2>2, <2>6, <4>1
      <4> QED
        BY <2>5, <4>1, <4>2 DEF OwnCandidates
    <3>2. CASE d \in BagCerts
      BY <2>3, <2>5, <3>2
    <3>3. CASE d \in named
      <4>1. PICK k \in DOMAIN chain : Info[d].name = Info[chain[k].cert].issuer
        BY <3>3 DEF ChainCerts
      <4> QED
        BY <3>3, <4>1 DEF IndInv, OfferInv
    <3> QED
      BY <2>6, <3>1, <3>2, <3>3
  <2>7. SelfSigned(Leaf) => Leaf \in cands
    <3>1. 1 \in DOMAIN chain
      BY <2>2
    <3> QED
      BY <2>1, <2>5, <3>1 DEF OwnCandidates
  <2> DEFINE Ns == {Info[d].issuer : d \in Certs}
  <2>8. /\ Info[Leaf].issuer \in Ns
        /\ \A d \in S : Info[d].name \in Ns /\ ~SelfSigned(d) => Info[d].issuer \in Ns
    BY <2>1, <2>4
  <2> HIDE DEF S, Ns
  <2> QED
    BY <2>1, <2>4, <2>6, <2>7, <2>8, TrustShared
<1> QED
  BY <1>1, Inductive, PTL

\* A walk of chainsToTrust that runs out of names has found every path of the
\* CA through reliable pool certificates to a trusted root.
THEOREM WalkComplete == Spec => []WalkFindsPath
<1>1. IndInv => WalkFindsPath
  <2> SUFFICES ASSUME IndInv, WalkStands, names = <<>>, PathsToTrust(input.crlCA, Reliable) # {}
               PROVE  PathsToTrust(input.crlCA, cands) # {}
    BY DEF WalkFindsPath
  <2>1. pc = "walk" /\ IsUpload /\ input.crlCA \in Certs
    BY InputFacts DEF WalkStands, IndInv, RequestInv
  <2>2. Reliable \in SUBSET Certs /\ cands \in SUBSET Certs
    BY ReliableType DEF IndInv, CandsInv
  <2>3. ToSet(names) = {}
    BY DEF ToSet
  <2>4. Info[input.crlCA].issuer \in seen
    BY <2>1, <2>3 DEF IndInv, WalkInv
  <2>5. \A d \in Reliable : Info[d].name \in seen =>
          d \in cands /\ (SelfSigned(d) \/ Info[d].issuer \in seen)
    BY <2>1, <2>3 DEF IndInv, WalkInv
  <2>6. SelfSigned(input.crlCA) => Info[input.crlCA].name \in seen
    BY <2>1, <2>4, InfoAssumption DEF SelfSigned
  <2> QED
    BY <2>1, <2>2, <2>4, <2>5, <2>6, TrustShared
<1> QED
  BY <1>1, Inductive, PTL
=============================================================================
