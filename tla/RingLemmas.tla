----------------------------- MODULE RingLemmas ------------------------------
(***************************************************************************)
(* What the operators of PcbRings do to the sequences their structures     *)
(* stand for.                                                              *)
(***************************************************************************)
EXTENDS PcbRings, SequenceTheorems, FiniteSetTheorems, TLAPS

(* A sequence without repetitions.                                         *)
Simple(s) == \A i, j \in 1 .. Len(s) : s[i] = s[j] => i = j

In(x, s) == \E i \in 1 .. Len(s) : s[i] = x

(* s is what the search of Chain finds from y on, after seen.              *)
Path(next, seen, y, s) ==
    /\ s \in Seq(DOMAIN next) /\ Simple(s)
    /\ \A i \in 1 .. Len(s) : s[i] \notin seen
    /\ s = <<>> => y = NULL \/ y \in seen
    /\ s # <<>> =>
          /\ y = s[1]
          /\ \A i \in 1 .. Len(s) - 1 : next[s[i]] = s[i + 1]
          /\ LET end == next[s[Len(s)]]
             IN  end = NULL \/ end \in seen \/ In(end, s)

(* The length and the elements of a sequence.                              *)
LEMMA SeqFacts ==
    ASSUME NEW S, NEW s \in Seq(S)
    PROVE  /\ Len(s) \in Nat
           /\ s = <<>> <=> Len(s) = 0
           /\ \A i \in 1 .. Len(s) : s[i] \in S
  BY EmptySeq, LenProperties, ElementOfSeq

(* A path in front of which one more element is put.                       *)
LEMMA PathCons ==
    ASSUME NEW D, NULL \notin D, NEW next \in [D -> D \cup {NULL}],
           NEW seen \in SUBSET D, NEW y \in D, y \notin seen,
           NEW s, Path(next, seen \cup {y}, next[y], s)
    PROVE  Path(next, seen, y, <<y>> \o s)
<1> DEFINE t == <<y>> \o s
<1>1. s \in Seq(D) /\ Len(s) \in Nat /\ (s = <<>> <=> Len(s) = 0)
      /\ \A i \in 1 .. Len(s) : s[i] \in D
  BY SeqFacts DEF Path
<1>2. <<y>> \in Seq(D) /\ Len(<<y>>) = 1 /\ <<y>>[1] = y
  OBVIOUS
<1>3. /\ t \in Seq(D) /\ Len(t) = 1 + Len(s)
      /\ t[1] = y /\ \A i \in 2 .. Len(s) + 1 : t[i] = s[i - 1]
  BY <1>1, <1>2, ConcatProperties
<1>4. t # <<>>
  BY <1>1, <1>3, SeqFacts
<1> HIDE DEF t
<1>5. \A i \in 1 .. Len(t) : t[i] \notin seen /\ (i > 1 => t[i] # y)
  <2> SUFFICES ASSUME NEW i \in 1 .. Len(t)
               PROVE  t[i] \notin seen /\ (i > 1 => t[i] # y)
    OBVIOUS
  <2>1. CASE i = 1
    BY <1>3, <2>1
  <2>2. CASE i > 1
    <3>1. i \in 2 .. Len(s) + 1 /\ i - 1 \in 1 .. Len(s)
      BY <1>1, <1>3, <2>2
    <3> QED
      BY <1>3, <3>1 DEF Path
  <2> QED
    BY <2>1, <2>2
<1>6. Simple(t)
  <2> SUFFICES ASSUME NEW i \in 1 .. Len(t), NEW j \in 1 .. Len(t), t[i] = t[j]
               PROVE  i = j
    BY DEF Simple
  <2>1. CASE i = 1 \/ j = 1
    BY <1>1, <1>3, <1>5, <2>1
  <2>2. CASE i > 1 /\ j > 1
    <3>1. /\ i \in 2 .. Len(s) + 1 /\ i - 1 \in 1 .. Len(s)
          /\ j \in 2 .. Len(s) + 1 /\ j - 1 \in 1 .. Len(s)
      BY <1>1, <1>3, <2>2
    <3>2. s[i - 1] = s[j - 1]
      BY <1>3, <3>1
    <3> QED
      BY <3>1, <3>2 DEF Path, Simple
  <2> QED
    BY <1>1, <1>3, <2>1, <2>2
<1>7. \A i \in 1 .. Len(t) - 1 : next[t[i]] = t[i + 1]
  <2> SUFFICES ASSUME NEW i \in 1 .. Len(t) - 1
               PROVE  next[t[i]] = t[i + 1]
    OBVIOUS
  <2>1. s # <<>> /\ next[y] = s[1]
    BY <1>1, <1>3 DEF Path
  <2>2. CASE i = 1
    <3>1. t[2] = s[1]
      BY <1>1, <1>3, <2>1
    <3> QED
      BY <1>3, <2>1, <2>2, <3>1
  <2>3. CASE i > 1
    <3>1. /\ i \in 2 .. Len(s) + 1 /\ i - 1 \in 1 .. Len(s) - 1
          /\ i + 1 \in 2 .. Len(s) + 1 /\ (i + 1) - 1 = (i - 1) + 1
      BY <1>1, <1>3, <2>3
    <3>2. t[i] = s[i - 1] /\ t[i + 1] = s[(i - 1) + 1]
      BY <1>3, <3>1
    <3> QED
      BY <2>1, <3>1, <3>2 DEF Path
  <2> QED
    BY <1>1, <1>3, <2>2, <2>3
<1>8. \A x : In(x, s) => In(x, t)
  <2> SUFFICES ASSUME NEW x, NEW i \in 1 .. Len(s), s[i] = x
               PROVE  In(x, t)
    BY DEF In
  <2>1. i + 1 \in 2 .. Len(s) + 1 /\ (i + 1) - 1 = i /\ i + 1 \in 1 .. Len(t)
    BY <1>1, <1>3
  <2> QED
    BY <1>3, <2>1 DEF In
<1>9. In(y, t)
  BY <1>1, <1>3 DEF In
<1>10. LET end == next[t[Len(t)]]
       IN  end = NULL \/ end \in seen \/ In(end, t)
  <2>1. CASE s = <<>>
    BY <1>1, <1>3, <1>9, <2>1 DEF Path
  <2>2. CASE s # <<>>
    <3>1. t[Len(t)] = s[Len(s)]
      <4>1. Len(t) \in 2 .. Len(s) + 1 /\ Len(t) - 1 = Len(s)
        BY <1>1, <1>3, <2>2
      <4> QED
        BY <1>3, <4>1
    <3> QED
      BY <1>8, <1>9, <2>2, <3>1 DEF Path
  <2> QED
    BY <2>1, <2>2
<1> QED
  <2>1. DOMAIN next = D
    OBVIOUS
  <2> QED
    BY <1>3, <1>4, <1>5, <1>6, <1>7, <1>10, <2>1 DEF Path, t

(* Every set of naturals has a least element.                              *)
LEMMA Least ==
    ASSUME NEW T \in SUBSET Nat, T # {}
    PROVE  \E n \in T : \A m \in T : n <= m
<1> DEFINE Below == {mn \in Nat \X Nat : mn[1] < mn[2]}
<1>1. IsWellFoundedOn(Below, Nat)
  BY NatLessThanWellFounded DEF OpToRel
<1>2. \A m, n \in T : m < n => <<m, n>> \in Below
  OBVIOUS
<1> HIDE DEF Below
<1>3. PICK n \in T : \A m \in T : <<m, n>> \notin Below
  BY <1>1, WFMin
<1>4. ASSUME NEW m \in T  PROVE n <= m
  <2>1. ~(m < n)
    BY <1>2, <1>3, Zenon
  <2> QED
    BY <2>1
<1> QED
  BY <1>4

(* Two paths from the same start have the same elements,                   *)
LEMMA PathsAgree ==
    ASSUME NEW D, NULL \notin D, NEW next \in [D -> D \cup {NULL}],
           NEW seen, NEW y, NEW s, NEW t,
           Path(next, seen, y, s), Path(next, seen, y, t),
           NEW i \in 1 .. Len(s), i \in 1 .. Len(t)
    PROVE  s[i] = t[i]
<1> DEFINE T == {n \in Nat : n \in 1 .. Len(s) /\ n \in 1 .. Len(t) /\ s[n] # t[n]}
<1> SUFFICES ASSUME s[i] # t[i]  PROVE FALSE
  OBVIOUS
<1>1. Len(s) \in Nat /\ Len(t) \in Nat /\ s # <<>> /\ t # <<>>
  BY SeqFacts DEF Path
<1>2. T \in SUBSET Nat /\ T # {}
  BY <1>1
<1>3. PICK n \in T : \A m \in T : n <= m
  <2> HIDE DEF T
  <2> QED
    BY <1>2, Least
<1>4. n # 1
  BY <1>1, <1>3 DEF Path
<1>5. /\ n - 1 \in 1 .. Len(s) - 1 /\ n - 1 \in 1 .. Len(t) - 1
      /\ n - 1 \in Nat /\ (n - 1) + 1 = n /\ n - 1 \notin T
  BY <1>1, <1>3, <1>4
<1>6. s[n - 1] = t[n - 1]
  BY <1>1, <1>5
<1>7. s[n] = next[s[n - 1]] /\ t[n] = next[t[n - 1]]
  BY <1>1, <1>5 DEF Path
<1> QED
  BY <1>3, <1>6, <1>7

(* and the same length,                                                    *)
LEMMA PathNoLonger ==
    ASSUME NEW D, NULL \notin D, NEW next \in [D -> D \cup {NULL}],
           NEW seen, NEW y, NEW s, NEW t,
           Path(next, seen, y, s), Path(next, seen, y, t)
    PROVE  Len(t) <= Len(s)
<1> SUFFICES ASSUME ~(Len(t) <= Len(s))  PROVE FALSE
  OBVIOUS
<1>1. /\ Len(s) \in Nat /\ Len(t) \in Nat /\ (s = <<>> <=> Len(s) = 0)
      /\ \A i \in 1 .. Len(t) : t[i] \in D /\ t[i] \notin seen
      /\ \A i \in 1 .. Len(s) : s[i] = t[i]
  <2>1. Len(s) \in Nat /\ Len(t) \in Nat /\ (s = <<>> <=> Len(s) = 0)
        /\ \A i \in 1 .. Len(t) : t[i] \in D
    BY SeqFacts DEF Path
  <2>2. \A i \in 1 .. Len(s) : s[i] = t[i]
    <3> SUFFICES ASSUME NEW i \in 1 .. Len(s)  PROVE s[i] = t[i]
      OBVIOUS
    <3>1. i \in 1 .. Len(t)
      BY <2>1
    <3> QED
      BY <3>1, PathsAgree
  <2> QED
    BY <2>1, <2>2 DEF Path
<1>2. t # <<>> /\ y = t[1] /\ 1 \in 1 .. Len(t)
  BY <1>1, SeqFacts DEF Path
<1>3. CASE s = <<>>
  BY <1>1, <1>2, <1>3 DEF Path
<1>4. CASE s # <<>>
  <2>1. /\ Len(s) \in 1 .. Len(s) /\ Len(s) \in 1 .. Len(t) - 1
        /\ Len(s) + 1 \in 1 .. Len(t)
    BY <1>1, <1>4
  <2>2. next[s[Len(s)]] = t[Len(s) + 1]
    BY <1>1, <1>2, <2>1 DEF Path
  <2>3. In(t[Len(s) + 1], s)
    BY <1>1, <1>4, <2>1, <2>2 DEF Path
  <2>4. PICK i \in 1 .. Len(s) : s[i] = t[Len(s) + 1]
    BY <2>3 DEF In
  <2>5. i \in 1 .. Len(t) /\ t[i] = t[Len(s) + 1] /\ i # Len(s) + 1
    BY <1>1, <2>1, <2>4
  <2> QED
    BY <2>1, <2>5 DEF Path, Simple
<1> QED
  BY <1>3, <1>4

(* so they are the same.                                                   *)
LEMMA PathUnique ==
    ASSUME NEW D, NULL \notin D, NEW next \in [D -> D \cup {NULL}],
           NEW seen, NEW y, NEW s, NEW t,
           Path(next, seen, y, s), Path(next, seen, y, t)
    PROVE  s = t
<1>1. Len(s) \in Nat /\ Len(t) \in Nat /\ s \in Seq(D) /\ t \in Seq(D)
  BY SeqFacts DEF Path
<1>2. Len(t) <= Len(s) /\ Len(s) <= Len(t)
  BY PathNoLonger
<1>3. Len(s) = Len(t)
  BY <1>1, <1>2
<1>4. \A i \in 1 .. Len(s) : s[i] = t[i]
  BY <1>3, PathsAgree
<1> QED
  BY <1>1, <1>3, <1>4, SeqEqual

(* A path exists, since the set of places is finite.                       *)
LEMMA PathExists ==
    ASSUME NEW D, NULL \notin D, NEW next \in [D -> D \cup {NULL}],
           IsFiniteSet(D), NEW seen \in SUBSET D, NEW y \in D \cup {NULL}
    PROVE  \E s : Path(next, seen, y, s)
<1> DEFINE Blind == {U \in SUBSET D : \E z \in D \cup {NULL} :
                                         ~\E s : Path(next, D \ U, z, s)}
<1> SUFFICES ASSUME ~\E s : Path(next, seen, y, s)  PROVE FALSE
  OBVIOUS
<1>1. D \ seen \in Blind
  <2>1. D \ (D \ seen) = seen
    OBVIOUS
  <2> QED
    BY <2>1
<1>2. PICK U \in Blind : \A V \in Blind : ~(V \subseteq U /\ V # U)
  <2>1. IsWellFoundedOn(StrictSubsetOrdering(D), SUBSET D)
    BY FS_StrictSubsetOrderingWellFounded, FS_FiniteSubsetsOfFinite
  <2>2. Blind \subseteq SUBSET D /\ Blind # {}
    BY <1>1
  <2> HIDE DEF Blind
  <2>3. PICK U \in Blind :
            \A V \in Blind : <<V, U>> \notin StrictSubsetOrdering(D)
    BY <2>1, <2>2, WFMin
  <2>4. \A V \in Blind : V \subseteq U /\ V # U =>
            <<V, U>> \in StrictSubsetOrdering(D)
    BY <2>2 DEF StrictSubsetOrdering
  <2>5. \A V \in Blind : ~(V \subseteq U /\ V # U)
    BY <2>3, <2>4, Zenon
  <2> QED
    BY <2>5
<1>3. PICK z \in D \cup {NULL} : ~\E s : Path(next, D \ U, z, s)
  OBVIOUS
<1>4. z # NULL /\ z \in U
  <2>1. CASE z = NULL \/ z \in D \ U
    <3>1. Path(next, D \ U, z, <<>>)
      <4>1. <<>> \in Seq(DOMAIN next) /\ Len(<<>>) = 0
        OBVIOUS
      <4> QED
        BY <2>1, <4>1 DEF Path, Simple
    <3> QED
      BY <1>3, <3>1
  <2> QED
    BY <2>1
<1>5. U \ {z} \notin Blind
  BY <1>2, <1>4
<1>6. D \ (U \ {z}) = (D \ U) \cup {z}
  BY <1>4
<1>7. next[z] \in D \cup {NULL}
  BY <1>4
<1>8. PICK s : Path(next, (D \ U) \cup {z}, next[z], s)
  <2>1. U \ {z} \in SUBSET D
    OBVIOUS
  <2>2. \E s : Path(next, D \ (U \ {z}), next[z], s)
    BY <1>5, <1>7, <2>1
  <2> QED
    BY <1>6, <2>2
<1>9. Path(next, D \ U, z, <<z>> \o s)
  BY <1>4, <1>8, PathCons
<1> QED
  BY <1>3, <1>9

(* The recursive function in Chain.                                        *)
Searches(next, from) ==
    from = [seen \in SUBSET DOMAIN next |->
               [y \in DOMAIN next \cup {NULL} |->
                   IF y = NULL \/ y \in seen THEN <<>>
                   ELSE <<y>> \o from[seen \cup {y}][next[y]]]]

(* The empty path from NULL or from where the search has been.             *)
LEMMA EmptyPath ==
    ASSUME NEW next, NEW seen, NEW y, y = NULL \/ y \in seen
    PROVE  Path(next, seen, y, <<>>)
<1>1. <<>> \in Seq(DOMAIN next) /\ Len(<<>>) = 0
  OBVIOUS
<1> QED
  BY <1>1 DEF Path, Simple

(* A function that satisfies the recursion of Chain finds the path.        *)
LEMMA SearchFinds ==
    ASSUME NEW D, NULL \notin D, NEW next \in [D -> D \cup {NULL}],
           IsFiniteSet(D), NEW f, Searches(next, f),
           NEW seen \in SUBSET D, NEW y \in D \cup {NULL}
    PROVE  Path(next, seen, y, f[seen][y])
<1> DEFINE Blind == {U \in SUBSET D : \E z \in D \cup {NULL} :
                                         ~Path(next, D \ U, z, f[D \ U][z])}
<1> SUFFICES ASSUME ~Path(next, seen, y, f[seen][y])  PROVE FALSE
  OBVIOUS
<1>1. D \ seen \in Blind
  <2>1. D \ (D \ seen) = seen
    OBVIOUS
  <2> QED
    BY <2>1
<1>2. PICK U \in Blind : \A V \in Blind : ~(V \subseteq U /\ V # U)
  <2>1. IsWellFoundedOn(StrictSubsetOrdering(D), SUBSET D)
    BY FS_StrictSubsetOrderingWellFounded, FS_FiniteSubsetsOfFinite
  <2>2. Blind \subseteq SUBSET D /\ Blind # {}
    BY <1>1
  <2> HIDE DEF Blind
  <2>3. PICK U \in Blind :
            \A V \in Blind : <<V, U>> \notin StrictSubsetOrdering(D)
    BY <2>1, <2>2, WFMin
  <2>4. \A V \in Blind : V \subseteq U /\ V # U =>
            <<V, U>> \in StrictSubsetOrdering(D)
    BY <2>2 DEF StrictSubsetOrdering
  <2>5. \A V \in Blind : ~(V \subseteq U /\ V # U)
    BY <2>3, <2>4, Zenon
  <2> QED
    BY <2>5
<1>3. PICK z \in D \cup {NULL} : ~Path(next, D \ U, z, f[D \ U][z])
  OBVIOUS
<1>4. f[D \ U][z] = IF z = NULL \/ z \in D \ U THEN <<>>
                    ELSE <<z>> \o f[(D \ U) \cup {z}][next[z]]
  <2>1. D \ U \in SUBSET DOMAIN next /\ z \in DOMAIN next \cup {NULL}
    OBVIOUS
  <2>2. f[D \ U] = [t \in DOMAIN next \cup {NULL} |->
                       IF t = NULL \/ t \in D \ U THEN <<>>
                       ELSE <<t>> \o f[(D \ U) \cup {t}][next[t]]]
    BY <2>1, Zenon DEF Searches
  <2> QED
    BY <2>1, <2>2, Zenon
<1>5. z # NULL /\ z \in U
  BY <1>3, <1>4, EmptyPath
<1>6. U \ {z} \notin Blind
  BY <1>2, <1>5
<1>7. D \ (U \ {z}) = (D \ U) \cup {z} /\ U \ {z} \in SUBSET D
  BY <1>5
<1>8. next[z] \in D \cup {NULL}
  BY <1>5
<1>9. Path(next, (D \ U) \cup {z}, next[z], f[(D \ U) \cup {z}][next[z]])
  BY <1>6, <1>7, <1>8
<1>10. Path(next, D \ U, z, f[D \ U][z])
  <2>1. z \in D /\ D \ U \in SUBSET D /\ z \notin D \ U
    BY <1>5
  <2>2. f[D \ U][z] = <<z>> \o f[(D \ U) \cup {z}][next[z]]
    BY <1>4, <2>1, <1>5
  <2>3. Path(next, D \ U, z, <<z>> \o f[(D \ U) \cup {z}][next[z]])
    BY <1>9, <2>1, PathCons
  <2> QED
    BY <2>2, <2>3
<1> QED
  BY <1>3, <1>10

(* There is such a function.                                               *)
LEMMA SearchExists ==
    ASSUME NEW D, NULL \notin D, NEW next \in [D -> D \cup {NULL}],
           IsFiniteSet(D)
    PROVE  \E f : Searches(next, f)
<1> DEFINE found(seen, y) == CHOOSE s : Path(next, seen, y, s)
           g == [seen \in SUBSET DOMAIN next |->
                     [y \in DOMAIN next \cup {NULL} |-> found(seen, y)]]
<1>1. ASSUME NEW seen \in SUBSET D, NEW y \in D \cup {NULL}
      PROVE  Path(next, seen, y, found(seen, y))
  BY PathExists
<1>2. ASSUME NEW seen \in SUBSET D, NEW y \in D \cup {NULL}
      PROVE  g[seen][y] = found(seen, y)
  OBVIOUS
<1> HIDE DEF found
<1>3. ASSUME NEW seen \in SUBSET D, NEW y \in D \cup {NULL}
      PROVE  found(seen, y) = IF y = NULL \/ y \in seen THEN <<>>
                              ELSE <<y>> \o g[seen \cup {y}][next[y]]
  <2>1. CASE y = NULL \/ y \in seen
    <3>1. Path(next, seen, y, <<>>)
      BY <2>1, EmptyPath
    <3> QED
      BY <1>1, <2>1, <3>1, PathUnique
  <2>2. CASE y # NULL /\ y \notin seen
    <3>1. y \in D /\ seen \cup {y} \in SUBSET D /\ next[y] \in D \cup {NULL}
      BY <2>2
    <3>2. Path(next, seen \cup {y}, next[y], g[seen \cup {y}][next[y]])
      BY <1>1, <1>2, <3>1
    <3>3. Path(next, seen, y, <<y>> \o g[seen \cup {y}][next[y]])
      BY <2>2, <3>1, <3>2, PathCons
    <3>4. found(seen, y) = <<y>> \o g[seen \cup {y}][next[y]]
      <4> DEFINE s == found(seen, y)
                 t == <<y>> \o g[seen \cup {y}][next[y]]
      <4>1. Path(next, seen, y, s) /\ Path(next, seen, y, t)
        BY <1>1, <3>3
      <4> HIDE DEF s, t
      <4>2. s = t
        BY <4>1, PathUnique
      <4> QED
        BY <4>2 DEF s, t
    <3> QED
      BY <2>2, <3>4
  <2> QED
    BY <2>1, <2>2
<1>4. g = [seen \in SUBSET DOMAIN next |->
              [y \in DOMAIN next \cup {NULL} |->
                  IF y = NULL \/ y \in seen THEN <<>>
                  ELSE <<y>> \o g[seen \cup {y}][next[y]]]]
  <2>1. DOMAIN next = D
    OBVIOUS
  <2>2. g = [seen \in SUBSET D |-> g[seen]]
    OBVIOUS
  <2>3. ASSUME NEW seen \in SUBSET D
        PROVE  g[seen] = [y \in D \cup {NULL} |->
                             IF y = NULL \/ y \in seen THEN <<>>
                             ELSE <<y>> \o g[seen \cup {y}][next[y]]]
    <3>1. g[seen] = [y \in D \cup {NULL} |-> g[seen][y]]
      OBVIOUS
    <3>2. \A y \in D \cup {NULL} :
              g[seen][y] = IF y = NULL \/ y \in seen THEN <<>>
                           ELSE <<y>> \o g[seen \cup {y}][next[y]]
      BY <1>2, <1>3
    <3> HIDE DEF g
    <3> QED
      BY <3>1, <3>2
  <2> HIDE DEF g
  <2> QED
    BY <2>1, <2>2, <2>3
<1>5. Searches(next, g)
  BY <1>4 DEF Searches
<1> QED
  BY <1>5

(* Chain finds the list that starts at x.                                  *)
LEMMA ChainIsPath ==
    ASSUME NEW D, NULL \notin D, NEW next \in [D -> D \cup {NULL}],
           IsFiniteSet(D), NEW x \in D \cup {NULL}
    PROVE  Path(next, {}, x, Chain(next, x))
<1>1. Chain(next, x) = (CHOOSE from : Searches(next, from))[{}][x]
  BY DEF Chain, Searches
<1>2. Searches(next, CHOOSE from : Searches(next, from))
  BY SearchExists
<1> DEFINE f == CHOOSE from : Searches(next, from)
<1> HIDE DEF f
<1>3. Path(next, {}, x, f[{}][x])
  BY <1>2, SearchFinds DEF f
<1> QED
  BY <1>1, <1>3 DEF f

-----------------------------------------------------------------------------
(* A list ends with NULL, and a ring where it begins.                      *)
List(next, x, s) ==
    /\ s \in Seq(DOMAIN next) /\ Simple(s)
    /\ x = IF s = <<>> THEN NULL ELSE s[1]
    /\ \A i \in 1 .. Len(s) :
           next[s[i]] = IF i = Len(s) THEN NULL ELSE s[i + 1]

Links == [Proc -> Proc \cup {NULL}]
Ringed == [next : Links, prev : Links, tp : Proc \cup {NULL}]

IsRing(r, s) ==
    /\ s \in Seq(Proc) /\ Simple(s)
    /\ r.tp = IF s = <<>> THEN NULL ELSE s[Len(s)]
    /\ \A i \in 1 .. Len(s) :
          /\ r.next[s[i]] = IF i = Len(s) THEN s[1] ELSE s[i + 1]
          /\ r.prev[s[i]] = IF i = 1 THEN s[Len(s)] ELSE s[i - 1]

(* Chain finds a list that ends with NULL.                                 *)
LEMMA ListIsChain ==
    ASSUME NEW D, NULL \notin D, NEW next \in [D -> D \cup {NULL}],
           IsFiniteSet(D), NEW x, NEW s, List(next, x, s)
    PROVE  Chain(next, x) = s
<1>1. s \in Seq(D) /\ Len(s) \in Nat /\ (s = <<>> <=> Len(s) = 0)
      /\ \A i \in 1 .. Len(s) : s[i] \in D
  <2>1. s \in Seq(D)
    BY DEF List
  <2> QED
    BY <2>1, SeqFacts
<1>2. x \in D \cup {NULL}
  BY <1>1 DEF List
<1>3. Path(next, {}, x, s)
  <2>1. s \in Seq(DOMAIN next) /\ Simple(s)
    BY DEF List
  <2>2. CASE s = <<>>
    BY <1>1, <2>1, <2>2 DEF Path, List
  <2>3. CASE s # <<>>
    <3>1. Len(s) \in 1 .. Len(s) /\ \A i \in 1 .. Len(s) - 1 : i \in 1 .. Len(s) /\ i # Len(s)
      BY <1>1, <2>3
    <3>2. next[s[Len(s)]] = NULL /\ \A i \in 1 .. Len(s) - 1 : next[s[i]] = s[i + 1]
      BY <3>1 DEF List
    <3> QED
      BY <2>1, <2>3, <3>2 DEF Path, List
  <2> QED
    BY <2>2, <2>3
<1> QED
  BY <1>2, <1>3, ChainIsPath, PathUnique

(* Ring finds a ring, from its head to its tail.                           *)
LEMMA RingIs ==
    ASSUME NEW next \in Links, NEW prev, NEW tp, NEW s,
           IsRing([next |-> next, prev |-> prev, tp |-> tp], s)
    PROVE  Ring(next, tp) = s
<1>1. s \in Seq(Proc) /\ Len(s) \in Nat /\ (s = <<>> <=> Len(s) = 0)
      /\ \A i \in 1 .. Len(s) : s[i] \in Proc
  <2>1. s \in Seq(Proc)
    BY DEF IsRing
  <2> QED
    BY <2>1, SeqFacts
<1>2. NULL \notin Proc /\ IsFiniteSet(Proc)
  BY RingsAssumption
<1>3. CASE s = <<>>
  BY <1>3 DEF IsRing, Ring
<1>4. CASE s # <<>>
  <2>1. Len(s) \in 1 .. Len(s) /\ 1 \in 1 .. Len(s)
        /\ \A i \in 1 .. Len(s) - 1 : i \in 1 .. Len(s) /\ i # Len(s)
    BY <1>1, <1>4
  <2>2. /\ tp = s[Len(s)] /\ next[s[Len(s)]] = s[1]
        /\ \A i \in 1 .. Len(s) - 1 : next[s[i]] = s[i + 1]
    BY <1>4, <2>1 DEF IsRing
  <2>3. Path(next, {}, s[1], s)
    <3>1. s \in Seq(DOMAIN next) /\ Simple(s)
      BY DEF IsRing, Links
    <3>2. In(s[1], s)
      BY <2>1 DEF In
    <3> QED
      BY <1>4, <2>2, <3>1, <3>2 DEF Path
  <2>4. Chain(next, s[1]) = s
    BY <1>1, <1>2, <2>1, <2>3, ChainIsPath, PathUnique DEF Links
  <2> QED
    BY <1>1, <1>2, <1>4, <2>1, <2>2, <2>4 DEF Ring
<1> QED
  BY <1>3, <1>4

(* Three ways to say that x is on a sequence.                              *)
LEMMA Members ==
    ASSUME NEW S, NEW s \in Seq(S), NEW x
    PROVE  (x \in ToSet(s) <=> In(x, s)) /\ (Contains(s, x) <=> In(x, s))
<1>1. DOMAIN s = 1 .. Len(s)
  BY LenProperties
<1> QED
  BY <1>1 DEF ToSet, Contains, In

(* insertProcQ appends.                                                    *)
LEMMA InsertRing ==
    ASSUME NEW r \in Ringed, NEW s, IsRing(r, s), NEW p \in Proc, ~In(p, s)
    PROVE  /\ insertProcQ(r, p) \in Ringed
           /\ IsRing(insertProcQ(r, p), Append(s, p))
           /\ \A x \in Proc : x # p /\ ~In(x, s) =>
                  /\ insertProcQ(r, p).next[x] = r.next[x]
                  /\ insertProcQ(r, p).prev[x] = r.prev[x]
<1> DEFINE q == insertProcQ(r, p)
           t == Append(s, p)
           n == Len(s)
<1>1. /\ s \in Seq(Proc) /\ n \in Nat /\ (s = <<>> <=> n = 0)
      /\ \A i \in 1 .. n : s[i] \in Proc /\ s[i] # p
  <2>1. s \in Seq(Proc)
    BY DEF IsRing
  <2> QED
    BY <2>1, SeqFacts DEF In
<1>2. /\ t \in Seq(Proc) /\ t # <<>> /\ Len(t) = n + 1
      /\ \A i \in 1 .. n : t[i] = s[i]
      /\ t[n + 1] = p
  BY <1>1, AppendProperties
<1>3. Simple(t)
  <2> HIDE DEF t
  <2>1. \A i \in 1 .. Len(t) : i \in 1 .. n \/ i = n + 1
    BY <1>1, <1>2
  <2> QED
    BY <1>1, <1>2, <2>1 DEF Simple, IsRing
<1>4. r.next \in Links /\ r.prev \in Links /\ NULL \notin Proc
  BY RingsAssumption DEF Ringed
<1>5. CASE n = 0
  <2>1. q = [next |-> [r.next EXCEPT ![p] = p],
             prev |-> [r.prev EXCEPT ![p] = p], tp |-> p]
    BY <1>1, <1>5 DEF insertProcQ, emptyProcQ, IsRing
  <2> HIDE DEF q, t
  <2>2. q \in Ringed
    BY <1>4, <2>1 DEF Ringed, Links
  <2>3. /\ q.tp = p /\ q.next[p] = p /\ q.prev[p] = p
        /\ \A x \in Proc : x # p => q.next[x] = r.next[x] /\ q.prev[x] = r.prev[x]
    BY <1>4, <2>1 DEF Links
  <2>4. Len(t) = 1 /\ t[1] = p
    BY <1>2, <1>5
  <2>5. IsRing(q, t)
    BY <1>2, <1>3, <2>3, <2>4 DEF IsRing
  <2> QED
    BY <2>2, <2>3, <2>5 DEF q, t
<1>6. CASE n # 0
  <2>1. /\ n \in 1 .. n /\ 1 \in 1 .. n /\ s # <<>>
        /\ r.tp = s[n] /\ r.next[s[n]] = s[1] /\ r.tp # NULL
    BY <1>1, <1>4, <1>6 DEF IsRing
  <2>2. q = [next |-> [r.next EXCEPT ![p] = s[1], ![s[n]] = p],
             prev |-> [r.prev EXCEPT ![s[1]] = p, ![p] = s[n]], tp |-> p]
    BY <2>1 DEF insertProcQ, emptyProcQ
  <2> HIDE DEF q, t
  <2>3. q \in Ringed
    BY <1>1, <1>4, <2>1, <2>2 DEF Ringed, Links
  <2>4. /\ q.tp = p /\ q.next[p] = s[1] /\ q.next[s[n]] = p
        /\ q.prev[s[1]] = p /\ q.prev[p] = s[n]
        /\ \A x \in Proc : /\ x # p /\ x # s[n] => q.next[x] = r.next[x]
                           /\ x # p /\ x # s[1] => q.prev[x] = r.prev[x]
    BY <1>1, <1>4, <2>1, <2>2 DEF Links
  <2>5. ASSUME NEW i \in 1 .. Len(t)
        PROVE  q.next[t[i]] = IF i = Len(t) THEN t[1] ELSE t[i + 1]
    <3>1. CASE i = n + 1
      BY <1>2, <2>1, <2>4, <3>1
    <3>2. CASE i = n
      <4>1. n # n + 1
        BY <1>1
      <4> QED
        BY <1>2, <2>1, <2>4, <3>2, <4>1
    <3>3. CASE i < n
      <4>1. i \in 1 .. n /\ i + 1 \in 1 .. n /\ i # n /\ i # Len(t)
        BY <1>1, <1>2, <3>3
      <4>2. s[i] # s[n] /\ r.next[s[i]] = s[i + 1]
        BY <2>1, <4>1 DEF IsRing, Simple
      <4> QED
        BY <1>1, <1>2, <2>4, <4>1, <4>2
    <3> QED
      BY <1>1, <1>2, <3>1, <3>2, <3>3
  <2>6. ASSUME NEW i \in 1 .. Len(t)
        PROVE  q.prev[t[i]] = IF i = 1 THEN t[Len(t)] ELSE t[i - 1]
    <3>1. CASE i = n + 1
      <4>1. i # 1 /\ i - 1 = n
        BY <1>1, <1>6, <3>1
      <4> QED
        BY <1>2, <2>1, <2>4, <3>1, <4>1
    <3>2. CASE i = 1
      BY <1>2, <2>1, <2>4, <3>2
    <3>3. CASE i # 1 /\ i < n + 1
      <4>1. i \in 1 .. n /\ i - 1 \in 1 .. n
        BY <1>1, <3>3
      <4>2. s[i] # s[1] /\ r.prev[s[i]] = s[i - 1]
        BY <2>1, <3>3, <4>1 DEF IsRing, Simple
      <4> QED
        BY <1>1, <1>2, <2>4, <3>3, <4>1, <4>2
    <3> QED
      BY <1>1, <1>2, <3>1, <3>2, <3>3
  <2>7. IsRing(q, t)
    BY <1>2, <1>3, <2>4, <2>5, <2>6 DEF IsRing
  <2>8. \A x \in Proc : ~In(x, s) => x # s[n] /\ x # s[1]
    BY <2>1 DEF In
  <2> QED
    BY <2>3, <2>4, <2>7, <2>8 DEF q, t
<1> QED
  BY <1>1, <1>5, <1>6

(* removeProcQ takes out the head.                                         *)
LEMMA RemoveRing ==
    ASSUME NEW r \in Ringed, NEW s, IsRing(r, s), s # <<>>
    PROVE  /\ removeProcQ(r) \in Ringed
           /\ IsRing(removeProcQ(r), Tail(s))
           /\ r.tp # NULL /\ r.next[r.tp] = Head(s)
           /\ \A x \in Proc : ~In(x, s) =>
                  /\ removeProcQ(r).next[x] = r.next[x]
                  /\ removeProcQ(r).prev[x] = r.prev[x]
<1> DEFINE q == removeProcQ(r)
           t == Tail(s)
           n == Len(s)
<1>1. /\ s \in Seq(Proc) /\ n \in Nat /\ n # 0
      /\ \A i \in 1 .. n : s[i] \in Proc
  <2>1. s \in Seq(Proc)
    BY DEF IsRing
  <2> QED
    BY <2>1, SeqFacts
<1>2. /\ t \in Seq(Proc) /\ Len(t) = n - 1
      /\ \A i \in 1 .. n - 1 : t[i] = s[i + 1]
      /\ Head(s) = s[1]
  BY <1>1, HeadTailProperties
<1>3. Simple(t)
  <2> HIDE DEF t
  <2>1. \A i \in 1 .. Len(t) : i + 1 \in 1 .. n /\ t[i] = s[i + 1]
    BY <1>1, <1>2
  <2> QED
    BY <1>1, <1>2, <2>1 DEF Simple, IsRing
<1>4. r.next \in Links /\ r.prev \in Links /\ NULL \notin Proc
  BY RingsAssumption DEF Ringed
<1>5. /\ n \in 1 .. n /\ 1 \in 1 .. n
      /\ r.tp = s[n] /\ r.next[s[n]] = s[1] /\ r.tp # NULL
  BY <1>1, <1>4 DEF IsRing
<1>6. s[n] = s[1] <=> n = 1
  BY <1>5 DEF IsRing, Simple
<1>7. CASE n = 1
  <2>1. q = [r EXCEPT !.tp = NULL]
    BY <1>5, <1>6, <1>7 DEF removeProcQ, emptyProcQ, mkEmptyProcQ
  <2>2. q \in Ringed /\ q.tp = NULL /\ q.next = r.next /\ q.prev = r.prev
    BY <2>1 DEF Ringed
  <2>3. t = <<>> /\ 1 .. Len(t) = {}
    <3>1. Len(t) = 0
      BY <1>2, <1>7
    <3> QED
      BY <1>2, <3>1, SeqFacts
  <2> HIDE DEF q, t
  <2>4. IsRing(q, t)
    BY <1>2, <1>3, <2>2, <2>3 DEF IsRing
  <2> QED
    BY <1>2, <1>5, <2>2, <2>4 DEF q, t
<1>8. CASE n # 1
  <2>1. 2 \in 1 .. n /\ 1 # n /\ r.next[s[1]] = s[2] /\ s[2] # s[1]
        /\ s[n] # s[1]
    BY <1>1, <1>5, <1>6, <1>8 DEF IsRing, Simple
  <2>2. q = [r EXCEPT !.next[s[n]] = s[2], !.prev[s[2]] = s[n]]
    BY <1>5, <2>1 DEF removeProcQ, emptyProcQ
  <2>3. /\ q \in Ringed /\ q.tp = s[n]
        /\ q.next = [r.next EXCEPT ![s[n]] = s[2]]
        /\ q.prev = [r.prev EXCEPT ![s[2]] = s[n]]
    <3>1. s[n] \in Proc /\ s[2] \in Proc
      BY <1>1, <1>5, <2>1
    <3>2. /\ q.tp = s[n] /\ q.next = [r.next EXCEPT ![s[n]] = s[2]]
          /\ q.prev = [r.prev EXCEPT ![s[2]] = s[n]]
          /\ q = [next |-> q.next, prev |-> q.prev, tp |-> q.tp]
      BY <1>5, <2>2 DEF Ringed
    <3>3. q.next \in Links /\ q.prev \in Links
      BY <1>4, <3>1, <3>2 DEF Links
    <3> QED
      BY <3>1, <3>2, <3>3 DEF Ringed
  <2>4. /\ q.next[s[n]] = s[2] /\ q.prev[s[2]] = s[n]
        /\ \A x \in Proc : /\ x # s[n] => q.next[x] = r.next[x]
                           /\ x # s[2] => q.prev[x] = r.prev[x]
    BY <1>1, <1>4, <1>5, <2>1, <2>3 DEF Links
  <2>5. t # <<>> /\ t[n - 1] = s[n] /\ t[1] = s[2] /\ Len(t) \in 1 .. Len(t)
    <3>1. n \in Nat /\ n >= 2
      BY <2>1
    <3> HIDE DEF n
    <3>2. /\ n - 1 \in 1 .. n - 1 /\ (n - 1) + 1 = n /\ 1 \in 1 .. n - 1
          /\ n - 1 # 0 /\ 1 + 1 = 2
      BY <3>1
    <3> HIDE DEF t
    <3>3. t # <<>>
      BY <1>2, <3>2, SeqFacts
    <3>4. t[n - 1] = s[(n - 1) + 1] /\ t[1] = s[1 + 1]
      BY <1>2, <3>2
    <3> QED
      BY <1>2, <3>2, <3>3, <3>4
  <2> HIDE DEF q, t
  <2>6. ASSUME NEW i \in 1 .. Len(t)
        PROVE  q.next[t[i]] = IF i = Len(t) THEN t[1] ELSE t[i + 1]
    <3>1. CASE i = Len(t)
      BY <1>2, <2>4, <2>5, <3>1
    <3>2. CASE i # Len(t)
      <4>1. /\ i \in 1 .. n - 1 /\ i + 1 \in 1 .. n - 1 /\ i + 1 # n
            /\ i + 1 \in 1 .. n
        BY <1>1, <1>2, <3>2
      <4>2. s[i + 1] # s[n] /\ r.next[s[i + 1]] = s[(i + 1) + 1]
        BY <1>5, <4>1 DEF IsRing, Simple
      <4> QED
        BY <1>1, <1>2, <2>4, <3>2, <4>1, <4>2
    <3> QED
      BY <3>1, <3>2
  <2>7. ASSUME NEW i \in 1 .. Len(t)
        PROVE  q.prev[t[i]] = IF i = 1 THEN t[Len(t)] ELSE t[i - 1]
    <3>1. CASE i = 1
      BY <1>2, <2>4, <2>5, <3>1
    <3>2. CASE i # 1
      <4>1. /\ i \in 1 .. n - 1 /\ i - 1 \in 1 .. n - 1 /\ i + 1 # 2
            /\ i + 1 \in 1 .. n /\ i + 1 # 1 /\ (i - 1) + 1 = (i + 1) - 1
        BY <1>1, <1>2, <3>2
      <4>2. s[i + 1] # s[2] /\ r.prev[s[i + 1]] = s[(i + 1) - 1]
        BY <2>1, <4>1 DEF IsRing, Simple
      <4> QED
        BY <1>1, <1>2, <2>4, <3>2, <4>1, <4>2
    <3> QED
      BY <3>1, <3>2
  <2>8. IsRing(q, t)
    BY <1>2, <1>3, <2>3, <2>5, <2>6, <2>7 DEF IsRing
  <2>9. \A x \in Proc : ~In(x, s) => x # s[n] /\ x # s[2]
    BY <1>5, <2>1 DEF In
  <2> QED
    BY <1>2, <1>5, <2>3, <2>4, <2>8, <2>9 DEF q, t
<1> QED
  BY <1>7, <1>8

(* RemoveFirst where there is one only.                                    *)
LEMMA RemoveOnly ==
    ASSUME NEW S, NEW s \in Seq(S), Simple(s), NEW k \in 1 .. Len(s)
    PROVE  LET t == RemoveFirst(s, s[k])
           IN  /\ t \in Seq(S) /\ Len(t) = Len(s) - 1
               /\ \A i \in 1 .. Len(t) : t[i] = IF i < k THEN s[i] ELSE s[i + 1]
<1> DEFINE p == s[k]
           a == SubSeq(s, 1, k - 1)
           b == SubSeq(s, k + 1, Len(s))
<1>1. Len(s) \in Nat /\ \A i \in 1 .. Len(s) : s[i] \in S
  BY SeqFacts
<1>2. RemoveFirst(s, p) = a \o b
  <2>1. {i \in 1 .. Len(s) : s[i] = p} = {k}
    BY DEF Simple
  <2>2. SelectInSeq(s, LAMBDA v : v = p) = k
    <3>1. Min({k}) = k
      BY DEF Min
    <3> QED
      BY <2>1, <3>1 DEF SelectInSeq
  <2> QED
    BY <2>2 DEF RemoveFirst, RemoveAt
<1>3. /\ a \in Seq(S) /\ Len(a) = k - 1
      /\ \A i \in 1 .. k - 1 : a[i] = s[i]
  <2>1. /\ 1 \in Int /\ k - 1 \in Int /\ \A i \in 1 .. k - 1 : s[i] \in S
        /\ (k - 1) - 1 + 1 = k - 1 /\ (1 <= k - 1 \/ k - 1 = 0)
        /\ \A i \in 1 .. k - 1 : 1 + i - 1 = i
    BY <1>1
  <2> QED
    BY <2>1, SubSeqProperties
<1>4. /\ b \in Seq(S) /\ Len(b) = Len(s) - k
      /\ \A i \in 1 .. Len(s) - k : b[i] = s[k + i]
  <2> DEFINE m == k + 1
  <2>1. /\ m \in Int /\ Len(s) \in Int /\ \A i \in m .. Len(s) : s[i] \in S
        /\ Len(s) - m + 1 = Len(s) - k
        /\ (m <= Len(s) \/ (~(m <= Len(s)) /\ Len(s) - k = 0))
        /\ \A i \in 1 .. Len(s) - k : m + i - 1 = k + i
    BY <1>1
  <2> HIDE DEF m
  <2>2. /\ SubSeq(s, m, Len(s)) \in Seq(S)
        /\ Len(SubSeq(s, m, Len(s))) = IF m <= Len(s) THEN Len(s) - m + 1 ELSE 0
        /\ \A i \in 1 .. Len(s) - m + 1 : SubSeq(s, m, Len(s))[i] = s[m + i - 1]
    BY <2>1, SubSeqProperties
  <2>3. b = SubSeq(s, m, Len(s))
    BY DEF m
  <2> QED
    BY <2>1, <2>2, <2>3
<1> HIDE DEF a, b, p
<1>5. /\ a \o b \in Seq(S) /\ Len(a \o b) = Len(s) - 1
      /\ \A i \in 1 .. Len(s) - 1 :
             (a \o b)[i] = IF i <= k - 1 THEN a[i] ELSE b[i - (k - 1)]
  <2>1. Len(a) + Len(b) = Len(s) - 1
    BY <1>1, <1>3, <1>4
  <2> QED
    <3>1. /\ a \o b \in Seq(S) /\ Len(a \o b) = Len(a) + Len(b)
          /\ \A i \in 1 .. Len(a) + Len(b) :
                 (a \o b)[i] = IF i <= Len(a) THEN a[i] ELSE b[i - Len(a)]
      BY <1>3, <1>4, ConcatProperties
    <3> QED
      BY <1>3, <2>1, <3>1
<1>6. ASSUME NEW i \in 1 .. Len(s) - 1
      PROVE  (a \o b)[i] = IF i < k THEN s[i] ELSE s[i + 1]
  <2>1. CASE i < k
    BY <1>1, <1>3, <1>5, <2>1
  <2>2. CASE ~(i < k)
    <3>1. i - (k - 1) \in 1 .. Len(s) - k /\ k + (i - (k - 1)) = i + 1
          /\ ~(i <= k - 1)
      BY <1>1, <2>2
    <3> QED
      BY <1>4, <1>5, <2>2, <3>1
  <2> QED
    BY <2>1, <2>2
<1> QED
  BY <1>2, <1>5, <1>6 DEF p

(* outProcQ takes p out, wherever it is.                                   *)
LEMMA OutRing ==
    ASSUME NEW r \in Ringed, NEW s, IsRing(r, s), NEW p, In(p, s)
    PROVE  /\ outProcQ(r, p) \in Ringed
           /\ IsRing(outProcQ(r, p), RemoveFirst(s, p))
           /\ \A x \in Proc : ~In(x, s) =>
                  /\ outProcQ(r, p).next[x] = r.next[x]
                  /\ outProcQ(r, p).prev[x] = r.prev[x]
<1> DEFINE q == outProcQ(r, p)
           t == RemoveFirst(s, p)
           n == Len(s)
<1>1. /\ s \in Seq(Proc) /\ Simple(s) /\ n \in Nat
      /\ \A i \in 1 .. n : s[i] \in Proc
  <2>1. s \in Seq(Proc)
    BY DEF IsRing
  <2> QED
    BY <2>1, SeqFacts DEF IsRing
<1>2. PICK k \in 1 .. n : s[k] = p
  BY DEF In
<1>3. /\ t \in Seq(Proc) /\ Len(t) = n - 1
      /\ \A i \in 1 .. n - 1 : t[i] = IF i < k THEN s[i] ELSE s[i + 1]
  BY <1>1, <1>2, RemoveOnly
<1>4. Simple(t)
  <2> HIDE DEF t
  <2>1. \A i \in 1 .. Len(t) : i \in 1 .. n /\ i + 1 \in 1 .. n
    BY <1>1, <1>3
  <2>2. ASSUME NEW i \in 1 .. Len(t), NEW j \in 1 .. Len(t), t[i] = t[j]
        PROVE  i = j
    <3>1. CASE i < k /\ j < k
      BY <1>1, <1>3, <2>1, <2>2, <3>1 DEF Simple
    <3>2. CASE ~(i < k) /\ ~(j < k)
      <4>1. i + 1 = j + 1
        BY <1>1, <1>3, <2>1, <2>2, <3>2 DEF Simple
      <4> QED
        BY <1>1, <1>3, <4>1
    <3>3. CASE i < k /\ ~(j < k)
      <4>1. i = j + 1
        BY <1>1, <1>3, <2>1, <2>2, <3>3 DEF Simple
      <4> QED
        BY <1>1, <1>3, <3>3, <4>1
    <3>4. CASE ~(i < k) /\ j < k
      <4>1. i + 1 = j
        BY <1>1, <1>3, <2>1, <2>2, <3>4 DEF Simple
      <4> QED
        BY <1>1, <1>3, <3>4, <4>1
    <3> QED
      BY <3>1, <3>2, <3>3, <3>4
  <2> QED
    BY <2>2 DEF Simple
<1>5. r.next \in Links /\ r.prev \in Links /\ NULL \notin Proc
  BY RingsAssumption DEF Ringed
<1>6. /\ n \in 1 .. n /\ 1 \in 1 .. n /\ s # <<>>
      /\ r.tp = s[n] /\ r.next[s[n]] = s[1] /\ r.tp # NULL
  <2>1. n \in 1 .. n /\ 1 \in 1 .. n /\ s # <<>>
    BY <1>1, <1>2, SeqFacts
  <2> QED
    BY <1>1, <1>5, <2>1 DEF IsRing
<1>7. p \in ToSet(Ring(r.next, r.tp))
  <2>1. r = [next |-> r.next, prev |-> r.prev, tp |-> r.tp]
    BY DEF Ringed
  <2>2. Ring(r.next, r.tp) = s
    BY <1>5, <2>1, RingIs, Zenon
  <2> QED
    BY <1>1, <2>2, Members
<1>8. s[n] = s[1] <=> n = 1
  BY <1>1, <1>6 DEF Simple
<1>9. CASE n = 1
  <2>1. q = [r EXCEPT !.tp = NULL]
    BY <1>6, <1>7, <1>8, <1>9 DEF outProcQ, removeProcQ, emptyProcQ, mkEmptyProcQ
  <2>2. q \in Ringed /\ q.tp = NULL /\ q.next = r.next /\ q.prev = r.prev
    BY <2>1 DEF Ringed
  <2>3. t = <<>> /\ 1 .. Len(t) = {}
    <3>1. Len(t) = 0
      BY <1>3, <1>9
    <3> HIDE DEF t
    <3>2. t = <<>>
      BY <1>3, <3>1, SeqFacts
    <3>3. 1 .. 0 = {}
      OBVIOUS
    <3> QED
      BY <3>1, <3>2, <3>3, Zenon
  <2> HIDE DEF q, t
  <2>4. IsRing(q, t)
    BY <1>3, <1>4, <2>2, <2>3 DEF IsRing
  <2> QED
    BY <2>2, <2>4 DEF q, t
<1> DEFINE before == IF k = 1 THEN n ELSE k - 1
           after  == IF k = n THEN 1 ELSE k + 1
           last   == IF k = n THEN n - 1 ELSE n
<1>10. CASE n # 1
  <2>0. n \in Nat /\ n >= 2 /\ k \in 1 .. n
    <3>1. n \in Nat /\ n # 0 /\ n # 1 /\ k \in 1 .. n
      BY <1>1, <1>2, <1>6, <1>10
    <3> HIDE DEF n
    <3> QED
      BY <3>1
  <2>1. /\ before \in 1 .. n /\ after \in 1 .. n /\ before # k /\ after # k
        /\ last \in 1 .. n
        /\ r.prev[p] = s[before] /\ r.next[p] = s[after]
        /\ r.next[s[before]] = p /\ s[before] # p
    <3>1. /\ before \in 1 .. n /\ after \in 1 .. n /\ before # k /\ after # k
          /\ last \in 1 .. n /\ (before = n <=> k = 1)
          /\ (k # 1 => before + 1 = k)
      <4> HIDE DEF n
      <4> QED
        BY <2>0
    <3>2. r.prev[p] = s[before] /\ r.next[p] = s[after]
      BY <1>2 DEF IsRing
    <3>3. r.next[s[before]] = p /\ s[before] # p
      BY <1>1, <1>2, <3>1 DEF IsRing, Simple
    <3> QED
      BY <3>1, <3>2, <3>3
  <2> HIDE DEF before, after
  <2>2. /\ q.tp = s[last] /\ q.next = [r.next EXCEPT ![s[before]] = s[after]]
        /\ q.prev = [r.prev EXCEPT ![s[after]] = s[before]]
        /\ q = [next |-> q.next, prev |-> q.prev, tp |-> q.tp]
    <3> DEFINE u == [r EXCEPT !.tp = s[before]]
    <3>1. u \in Ringed /\ u.tp = s[before] /\ u.next = r.next /\ u.prev = r.prev
      BY <1>1, <2>1 DEF Ringed
    <3>2. u.next[u.tp] = p /\ u.next[u.next[u.tp]] = s[after]
          /\ u.tp # NULL /\ u.tp # u.next[u.tp]
      BY <1>1, <1>5, <2>1, <3>1
    <3> HIDE DEF u
    <3>3. removeProcQ(u) = [u EXCEPT !.next[s[before]] = s[after],
                                     !.prev[s[after]] = s[before]]
      BY <3>1, <3>2 DEF removeProcQ, emptyProcQ
    <3>4. /\ removeProcQ(u).tp = s[before]
          /\ removeProcQ(u).next = [r.next EXCEPT ![s[before]] = s[after]]
          /\ removeProcQ(u).prev = [r.prev EXCEPT ![s[after]] = s[before]]
          /\ removeProcQ(u) = [next |-> removeProcQ(u).next,
                               prev |-> removeProcQ(u).prev,
                               tp |-> removeProcQ(u).tp]
      BY <3>1, <3>3 DEF Ringed
    <3>5. CASE k = n
      <4>1. r.tp = p /\ s[last] = s[before]
        BY <1>1, <1>2, <1>6, <1>10, <3>5 DEF before
      <4>2. q = removeProcQ(u)
        BY <1>6, <1>7, <1>8, <1>10, <2>1, <4>1 DEF outProcQ, u
      <4> QED
        BY <3>4, <4>1, <4>2
    <3>6. CASE k # n
      <4>1. r.tp # p /\ last = n
        BY <1>1, <1>2, <1>6, <3>6 DEF Simple
      <4>2. q = [removeProcQ(u) EXCEPT !.tp = r.tp]
        BY <1>6, <1>7, <1>8, <1>10, <2>1, <4>1 DEF outProcQ, u
      <4> HIDE DEF q
      <4>3. /\ q.next = removeProcQ(u).next /\ q.prev = removeProcQ(u).prev
            /\ q.tp = r.tp
            /\ q = [next |-> q.next, prev |-> q.prev, tp |-> q.tp]
        BY <3>4, <4>2
      <4> QED
        BY <1>6, <3>4, <4>1, <4>3
    <3> QED
      BY <3>5, <3>6
  <2>3. q \in Ringed
    <3> HIDE DEF q
    <3>1. q.next \in Links /\ q.prev \in Links /\ q.tp \in Proc
      BY <1>1, <1>5, <2>1, <2>2 DEF Links
    <3> QED
      BY <2>2, <3>1 DEF Ringed
  <2> HIDE DEF q, t
  <2>4. /\ q.next[s[before]] = s[after] /\ q.prev[s[after]] = s[before]
        /\ \A x \in Proc : /\ x # s[before] => q.next[x] = r.next[x]
                           /\ x # s[after] => q.prev[x] = r.prev[x]
    BY <1>1, <1>5, <2>1, <2>2 DEF Links
  <2>5. /\ t # <<>> /\ Len(t) \in 1 .. Len(t) /\ 1 \in 1 .. Len(t)
        /\ t[Len(t)] = s[last]
        /\ t[1] = IF k = 1 THEN s[2] ELSE s[1]
    <3>1. /\ n - 1 \in 1 .. n - 1 /\ 1 \in 1 .. n - 1 /\ (n - 1) + 1 = n
          /\ n - 1 # 0 /\ (1 < k <=> k # 1) /\ (n - 1 < k <=> k = n) /\ 1 + 1 = 2
      <4> HIDE DEF n
      <4> QED
        BY <2>0
    <3>2. t # <<>>
      BY <1>3, <3>1, SeqFacts
    <3>3. t[n - 1] = (IF n - 1 < k THEN s[n - 1] ELSE s[(n - 1) + 1])
          /\ t[1] = IF 1 < k THEN s[1] ELSE s[1 + 1]
      BY <1>3, <3>1
    <3> QED
      BY <1>3, <3>1, <3>2, <3>3
  <2>6. ASSUME NEW i \in 1 .. Len(t)
        PROVE  q.next[t[i]] = IF i = Len(t) THEN t[1] ELSE t[i + 1]
    <3> DEFINE j == IF i < k THEN i ELSE i + 1
    <3>1. j \in 1 .. n /\ j # k /\ t[i] = s[j] /\ s[j] \in Proc
      BY <1>1, <1>3
    <3>2. r.next[s[j]] = IF j = n THEN s[1] ELSE s[j + 1]
      BY <3>1 DEF IsRing
    <3>3. CASE j = before
      <4>1. q.next[t[i]] = s[after]
        BY <2>4, <3>1, <3>3
      <4>2. CASE i = Len(t)
        <5>1. k = n \/ k = 1
          BY <1>1, <1>3, <3>1, <3>3, <4>2 DEF before
        <5>2. s[after] = t[1]
          <6>1. k = n => k # 1
            <7> HIDE DEF n
            <7> QED
              BY <2>0
          <6>2. 1 + 1 = 2
            OBVIOUS
          <6> QED
            BY <2>5, <5>1, <6>1, <6>2 DEF after
        <5> QED
          BY <4>1, <4>2, <5>2
      <4>3. CASE i # Len(t)
        <5>1. i + 1 = k /\ k # n /\ i + 1 \in 1 .. n - 1 /\ ~(i + 1 < k)
          BY <1>1, <1>3, <3>1, <3>3, <4>3 DEF before
        <5>2. t[i + 1] = s[(i + 1) + 1]
          BY <1>3, <5>1
        <5> QED
          BY <4>1, <4>3, <5>1, <5>2 DEF after
      <4> QED
        BY <4>2, <4>3
    <3>4. CASE j # before
      <4>1. q.next[t[i]] = r.next[s[j]]
        BY <1>1, <2>1, <2>4, <3>1, <3>4 DEF Simple
      <4>2. CASE i = Len(t)
        <5>1. j = n /\ k # 1
          BY <1>1, <1>3, <3>1, <3>4, <4>2 DEF before
        <5> QED
          BY <2>5, <3>2, <4>1, <4>2, <5>1
      <4>3. CASE i # Len(t)
        <5>1. /\ i + 1 \in 1 .. n - 1 /\ j # n
              /\ j + 1 = IF i + 1 < k THEN i + 1 ELSE (i + 1) + 1
          BY <1>1, <1>3, <3>1, <3>4, <4>3 DEF before
        <5>2. t[i + 1] = s[j + 1]
          BY <1>3, <5>1
        <5> QED
          BY <3>2, <4>1, <4>3, <5>1, <5>2
      <4> QED
        BY <4>2, <4>3
    <3> QED
      BY <3>3, <3>4
  <2>7. ASSUME NEW i \in 1 .. Len(t)
        PROVE  q.prev[t[i]] = IF i = 1 THEN t[Len(t)] ELSE t[i - 1]
    <3> DEFINE j == IF i < k THEN i ELSE i + 1
    <3>1. j \in 1 .. n /\ j # k /\ t[i] = s[j] /\ s[j] \in Proc
      BY <1>1, <1>3
    <3>2. r.prev[s[j]] = IF j = 1 THEN s[n] ELSE s[j - 1]
      BY <3>1 DEF IsRing
    <3>3. CASE j = after
      <4>1. q.prev[t[i]] = s[before]
        BY <2>4, <3>1, <3>3
      <4>2. CASE i = 1
        <5>1. (k = n /\ before = last) \/ (k = 1 /\ before = last)
          BY <1>1, <1>3, <1>10, <3>1, <3>3, <4>2 DEF before, after
        <5> QED
          BY <2>5, <4>1, <4>2, <5>1
      <4>3. CASE i # 1
        <5>1. /\ i - 1 \in 1 .. n - 1 /\ i = k /\ i - 1 < k /\ before = i - 1
          BY <1>1, <1>3, <3>1, <3>3, <4>3 DEF before, after
        <5>2. t[i - 1] = s[i - 1]
          BY <1>3, <5>1
        <5> QED
          BY <4>1, <4>3, <5>1, <5>2
      <4> QED
        BY <4>2, <4>3
    <3>4. CASE j # after
      <4>1. q.prev[t[i]] = r.prev[s[j]]
        BY <1>1, <2>1, <2>4, <3>1, <3>4 DEF Simple
      <4>2. CASE i = 1
        <5>1. j = 1 /\ k # n
          BY <1>1, <1>3, <1>10, <3>1, <3>4, <4>2 DEF after
        <5> QED
          BY <2>5, <3>2, <4>1, <4>2, <5>1
      <4>3. CASE i # 1
        <5>1. /\ i - 1 \in 1 .. n - 1 /\ j # 1
              /\ j - 1 = IF i - 1 < k THEN i - 1 ELSE (i - 1) + 1
          BY <1>1, <1>3, <3>1, <3>4, <4>3 DEF after
        <5>2. t[i - 1] = s[j - 1]
          BY <1>3, <5>1
        <5> QED
          BY <3>2, <4>1, <4>3, <5>1, <5>2
      <4> QED
        BY <4>2, <4>3
    <3> QED
      BY <3>3, <3>4
  <2>8. IsRing(q, t)
    BY <1>3, <1>4, <2>2, <2>5, <2>6, <2>7 DEF IsRing
  <2>9. \A x \in Proc : ~In(x, s) => x # s[before] /\ x # s[after]
    BY <2>1 DEF In
  <2> QED
    BY <2>3, <2>4, <2>8, <2>9 DEF q, t
<1> QED
  BY <1>9, <1>10

-----------------------------------------------------------------------------
(* All rings together, the pcbs that are held, and the sequences they      *)
(* stand for.                                                              *)
QueueId == {-1, 0} \cup Addr    \* pcbFree, the ready queue, the semaphores

OfTail(next, prev, tp) == [next |-> next, prev |-> prev, tp |-> tp]

RingsOK(next, prev, T, S, held) ==
    /\ next \in Links /\ prev \in Links /\ held \subseteq Proc
    /\ T \in [QueueId -> Proc \cup {NULL}] /\ S \in [QueueId -> Seq(Proc)]
    /\ \A k \in QueueId : IsRing(OfTail(next, prev, T[k]), S[k])
    /\ \A k, l \in QueueId : \A x : In(x, S[k]) /\ In(x, S[l]) => k = l
    /\ \A k \in QueueId : \A x : In(x, S[k]) => x \notin held

(* Who is on a queue after insertProcQ,                                    *)
LEMMA InAppend ==
    ASSUME NEW D, NEW s \in Seq(D), NEW p \in D, NEW x
    PROVE  In(x, Append(s, p)) <=> In(x, s) \/ x = p
<1> DEFINE t == Append(s, p)
<1>1. /\ Len(s) \in Nat /\ Len(t) = Len(s) + 1 /\ t[Len(s) + 1] = p
      /\ \A i \in 1 .. Len(s) : t[i] = s[i]
  BY AppendProperties, SeqFacts
<1> HIDE DEF t
<1>2. \A i \in 1 .. Len(t) : i \in 1 .. Len(s) \/ i = Len(s) + 1
  BY <1>1
<1>3. Len(s) + 1 \in 1 .. Len(t) /\ \A i \in 1 .. Len(s) : i \in 1 .. Len(t)
  BY <1>1
<1>4. In(x, t) <=> In(x, s) \/ x = p
  BY <1>1, <1>2, <1>3 DEF In
<1> QED
  BY <1>4 DEF t

(* after removeProcQ,                                                      *)
LEMMA InTail ==
    ASSUME NEW D, NEW s \in Seq(D), s # <<>>, Simple(s), NEW x
    PROVE  /\ In(x, Tail(s)) => In(x, s) /\ x # Head(s)
           /\ In(Head(s), s) /\ Head(s) \in D
<1> DEFINE t == Tail(s)
<1>1. /\ Len(s) \in Nat /\ Len(t) = Len(s) - 1 /\ Head(s) = s[1]
      /\ \A i \in 1 .. Len(t) : t[i] = s[i + 1]
      /\ Len(s) # 0 /\ Head(s) \in D
  BY HeadTailProperties, SeqFacts
<1> HIDE DEF t
<1>2. 1 \in 1 .. Len(s) /\ \A i \in 1 .. Len(t) : i + 1 \in 1 .. Len(s) /\ i + 1 # 1
  BY <1>1
<1>3. In(x, t) => In(x, s) /\ x # Head(s)
  BY <1>1, <1>2 DEF In, Simple
<1> QED
  BY <1>1, <1>2, <1>3 DEF t, In

(* and after outProcQ.                                                     *)
LEMMA InRemoved ==
    ASSUME NEW D, NEW s \in Seq(D), Simple(s), NEW p, In(p, s), NEW x
    PROVE  In(x, RemoveFirst(s, p)) => In(x, s) /\ x # p
<1> DEFINE t == RemoveFirst(s, p)
<1>1. PICK k \in 1 .. Len(s) : s[k] = p
  BY DEF In
<1>2. /\ Len(s) \in Nat /\ Len(t) = Len(s) - 1
      /\ \A i \in 1 .. Len(t) : t[i] = IF i < k THEN s[i] ELSE s[i + 1]
  BY <1>1, RemoveOnly, SeqFacts
<1> HIDE DEF t
<1>3. ASSUME NEW i \in 1 .. Len(t)
      PROVE  \E j \in 1 .. Len(s) : j # k /\ t[i] = s[j]
  <2>1. CASE i < k
    <3>1. i \in 1 .. Len(s) /\ i # k
      BY <1>2, <2>1
    <3> QED
      BY <1>2, <2>1, <3>1
  <2>2. CASE ~(i < k)
    <3>1. i + 1 \in 1 .. Len(s) /\ i + 1 # k
      BY <1>2, <2>2
    <3> QED
      BY <1>2, <2>2, <3>1
  <2> QED
    BY <2>1, <2>2
<1>4. In(x, t) => In(x, s) /\ x # p
  BY <1>1, <1>3 DEF In, Simple
<1> QED
  BY <1>4 DEF t

(* Who is left: all but the head,                                          *)
LEMMA InTailOr ==
    ASSUME NEW D, NEW s \in Seq(D), s # <<>>, NEW x, In(x, s), x # Head(s)
    PROVE  In(x, Tail(s))
<1> DEFINE t == Tail(s)
<1>1. /\ Len(s) \in Nat /\ Len(t) = Len(s) - 1 /\ Head(s) = s[1]
      /\ \A i \in 1 .. Len(t) : t[i] = s[i + 1]
  BY HeadTailProperties, SeqFacts
<1>2. PICK i \in 1 .. Len(s) : s[i] = x
  BY DEF In
<1> HIDE DEF t
<1>3. i # 1
  BY <1>1, <1>2
<1>4. i - 1 \in 1 .. Len(t) /\ (i - 1) + 1 = i
  BY <1>1, <1>3
<1>5. t[i - 1] = x
  BY <1>1, <1>2, <1>4
<1> QED
  BY <1>4, <1>5 DEF In, t

(* and all but the one taken out.                                          *)
LEMMA InRemovedOr ==
    ASSUME NEW D, NEW s \in Seq(D), Simple(s), NEW p, In(p, s),
           NEW x, In(x, s), x # p
    PROVE  In(x, RemoveFirst(s, p))
<1> DEFINE t == RemoveFirst(s, p)
<1>1. PICK k \in 1 .. Len(s) : s[k] = p
  BY DEF In
<1>2. /\ Len(s) \in Nat /\ Len(t) = Len(s) - 1
      /\ \A i \in 1 .. Len(t) : t[i] = IF i < k THEN s[i] ELSE s[i + 1]
  BY <1>1, RemoveOnly, SeqFacts
<1>3. PICK i \in 1 .. Len(s) : s[i] = x
  BY DEF In
<1> HIDE DEF t
<1>4. i # k
  BY <1>1, <1>3
<1>5. CASE i < k
  <2>1. i \in 1 .. Len(t)
    BY <1>2, <1>5
  <2>2. t[i] = x
    BY <1>2, <1>3, <1>5, <2>1
  <2> QED
    BY <2>1, <2>2 DEF In, t
<1>6. CASE i > k
  <2>1. i - 1 \in 1 .. Len(t) /\ ~(i - 1 < k) /\ (i - 1) + 1 = i
    BY <1>2, <1>6
  <2>2. t[i - 1] = x
    BY <1>2, <1>3, <2>1
  <2> QED
    BY <2>1, <2>2 DEF In, t
<1> QED
  BY <1>4, <1>5, <1>6

(* One ring changes within its own pcbs and those held.                    *)
LEMMA RingsChange ==
    ASSUME NEW next, NEW prev, NEW T, NEW S, NEW held,
           RingsOK(next, prev, T, S, held), NEW k \in QueueId,
           NEW r \in Ringed, NEW t, IsRing(r, t),
           NEW kept \in SUBSET Proc,
           \A x \in Proc : ~In(x, S[k]) /\ x \notin held =>
               r.next[x] = next[x] /\ r.prev[x] = prev[x],
           \A x : In(x, t) \/ x \in kept => In(x, S[k]) \/ x \in held,
           \A x : In(x, t) => x \notin kept
    PROVE  RingsOK(r.next, r.prev, [T EXCEPT ![k] = r.tp],
                   [S EXCEPT ![k] = t], kept)
<1> DEFINE U == [T EXCEPT ![k] = r.tp]
           V == [S EXCEPT ![k] = t]
<1>1. /\ T \in [QueueId -> Proc \cup {NULL}] /\ S \in [QueueId -> Seq(Proc)]
      /\ \A l \in QueueId : IsRing(OfTail(next, prev, T[l]), S[l])
      /\ \A l, m \in QueueId : \A x : In(x, S[l]) /\ In(x, S[m]) => l = m
      /\ \A l \in QueueId : \A x : In(x, S[l]) => x \notin held
  BY DEF RingsOK
<1>2. /\ r.next \in Links /\ r.prev \in Links /\ r.tp \in Proc \cup {NULL}
      /\ t \in Seq(Proc)
      /\ r = OfTail(r.next, r.prev, r.tp)
  BY DEF Ringed, IsRing, OfTail
<1>3. /\ U \in [QueueId -> Proc \cup {NULL}] /\ V \in [QueueId -> Seq(Proc)]
      /\ U[k] = r.tp /\ V[k] = t
      /\ \A l \in QueueId : l # k => U[l] = T[l] /\ V[l] = S[l]
  BY <1>1, <1>2
<1> HIDE DEF U, V
<1>4. ASSUME NEW l \in QueueId  PROVE IsRing(OfTail(r.next, r.prev, U[l]), V[l])
  <2>1. CASE l = k
    BY <1>2, <1>3, <2>1
  <2>2. CASE l # k
    <3>1. /\ S[l] \in Seq(Proc)
          /\ \A i \in 1 .. Len(S[l]) : S[l][i] \in Proc /\ In(S[l][i], S[l])
      BY <1>1, SeqFacts DEF In
    <3>2. \A i \in 1 .. Len(S[l]) : /\ r.next[S[l][i]] = next[S[l][i]]
                                    /\ r.prev[S[l][i]] = prev[S[l][i]]
      BY <1>1, <2>2, <3>1
    <3>3. IsRing(OfTail(next, prev, T[l]), S[l])
      BY <1>1
    <3> QED
      BY <1>3, <2>2, <3>2, <3>3 DEF IsRing, OfTail
  <2> QED
    BY <2>1, <2>2
<1>5. ASSUME NEW l \in QueueId, NEW x, In(x, V[l])
      PROVE  /\ x \notin kept
             /\ \A m \in QueueId : In(x, V[m]) => l = m
  BY <1>1, <1>3, <1>5
<1>6. RingsOK(r.next, r.prev, U, V, kept)
  BY <1>2, <1>3, <1>4, <1>5 DEF RingsOK
<1> QED
  BY <1>6 DEF U, V

(* What RingsOK says of one queue.                                         *)
LEMMA RingsParts ==
    ASSUME NEW next, NEW prev, NEW T, NEW S, NEW held,
           RingsOK(next, prev, T, S, held), NEW k \in QueueId
    PROVE  /\ OfTail(next, prev, T[k]) \in Ringed
           /\ IsRing(OfTail(next, prev, T[k]), S[k])
           /\ S[k] \in Seq(Proc) /\ Simple(S[k])
           /\ Ring(next, T[k]) = S[k]
           /\ T[k] = NULL <=> S[k] = <<>>
           /\ \A x : In(x, S[k]) => x \in Proc
<1>1. /\ next \in Links /\ prev \in Links /\ T[k] \in Proc \cup {NULL}
      /\ S[k] \in Seq(Proc) /\ IsRing(OfTail(next, prev, T[k]), S[k])
  BY DEF RingsOK
<1>2. OfTail(next, prev, T[k]) \in Ringed /\ Simple(S[k])
  BY <1>1 DEF Ringed, OfTail, IsRing
<1>3. Ring(next, T[k]) = S[k]
  BY <1>1, RingIs DEF OfTail
<1>4. \A x : In(x, S[k]) => x \in Proc
  BY <1>1, SeqFacts DEF In
<1>5. T[k] = NULL <=> S[k] = <<>>
  <2>1. T[k] = IF S[k] = <<>> THEN NULL ELSE S[k][Len(S[k])]
    BY <1>1 DEF IsRing, OfTail
  <2>2. S[k] # <<>> => S[k][Len(S[k])] \in Proc
    <3>1. Len(S[k]) \in Nat /\ (S[k] = <<>> <=> Len(S[k]) = 0)
          /\ \A i \in 1 .. Len(S[k]) : S[k][i] \in Proc
      BY <1>1, SeqFacts
    <3>2. Len(S[k]) # 0 => Len(S[k]) \in 1 .. Len(S[k])
      BY <3>1
    <3> QED
      BY <3>1, <3>2
  <2> QED
    BY <2>1, <2>2, RingsAssumption
<1> QED
  BY <1>1, <1>2, <1>3, <1>4, <1>5

(* insertProcQ of a pcb the caller holds, with all queues.                 *)
LEMMA RingsInsert ==
    ASSUME NEW next, NEW prev, NEW T, NEW S, NEW held,
           RingsOK(next, prev, T, S, held), NEW k \in QueueId, NEW p \in held
    PROVE  LET r == insertProcQ(OfTail(next, prev, T[k]), p)
           IN  /\ r.tp \in Proc
               /\ RingsOK(r.next, r.prev, [T EXCEPT ![k] = r.tp],
                          [S EXCEPT ![k] = Append(@, p)], held \ {p})
<1> DEFINE q == OfTail(next, prev, T[k])
           r == insertProcQ(q, p)
           t == Append(S[k], p)
<1>1. /\ q \in Ringed /\ IsRing(q, S[k]) /\ S[k] \in Seq(Proc)
      /\ p \in Proc /\ ~In(p, S[k]) /\ held \subseteq Proc
      /\ \A x : In(x, S[k]) => x \notin held
      /\ S \in [QueueId -> Seq(Proc)]
  BY RingsParts DEF RingsOK
<1>2. q.next = next /\ q.prev = prev
  BY DEF OfTail
<1>3. r.tp \in Proc
  BY <1>1 DEF insertProcQ
<1> HIDE DEF q
<1>4. /\ r \in Ringed /\ IsRing(r, t)
      /\ \A x \in Proc : x # p /\ ~In(x, S[k]) =>
             r.next[x] = next[x] /\ r.prev[x] = prev[x]
  BY <1>1, <1>2, InsertRing
<1>5. \A x : In(x, t) <=> In(x, S[k]) \/ x = p
  BY <1>1, InAppend
<1> HIDE DEF r, t
<1>6. RingsOK(r.next, r.prev, [T EXCEPT ![k] = r.tp], [S EXCEPT ![k] = t],
              held \ {p})
  <2>1. held \ {p} \in SUBSET Proc
    BY <1>1
  <2>2. \A x \in Proc : ~In(x, S[k]) /\ x \notin held =>
            r.next[x] = next[x] /\ r.prev[x] = prev[x]
    BY <1>4
  <2>3. \A x : In(x, t) \/ x \in held \ {p} => In(x, S[k]) \/ x \in held
    BY <1>5
  <2>4. \A x : In(x, t) => x \notin held \ {p}
    BY <1>1, <1>5
  <2> QED
    BY <1>4, <2>1, <2>2, <2>3, <2>4, RingsChange
<1> QED
  BY <1>3, <1>6 DEF q, r, t

(* removeProcQ, with all queues.                                           *)
LEMMA RingsRemove ==
    ASSUME NEW next, NEW prev, NEW T, NEW S, NEW held,
           RingsOK(next, prev, T, S, held), NEW k \in QueueId, T[k] # NULL
    PROVE  LET r == removeProcQ(OfTail(next, prev, T[k]))
           IN  /\ S[k] # <<>> /\ next[T[k]] = Head(S[k]) /\ Head(S[k]) \in Proc
               /\ RingsOK(r.next, r.prev, [T EXCEPT ![k] = r.tp],
                          [S EXCEPT ![k] = Tail(@)], held \cup {Head(S[k])})
<1> DEFINE q == OfTail(next, prev, T[k])
           r == removeProcQ(q)
           t == Tail(S[k])
<1>1. /\ q \in Ringed /\ IsRing(q, S[k]) /\ S[k] \in Seq(Proc)
      /\ Simple(S[k]) /\ S[k] # <<>> /\ held \subseteq Proc
      /\ \A x : In(x, S[k]) => x \notin held
      /\ S \in [QueueId -> Seq(Proc)]
  <2>1. /\ q \in Ringed /\ IsRing(q, S[k]) /\ S[k] \in Seq(Proc)
        /\ Simple(S[k]) /\ S[k] # <<>>
    BY RingsParts
  <2>2. /\ held \subseteq Proc /\ S \in [QueueId -> Seq(Proc)]
        /\ \A x : In(x, S[k]) => x \notin held
    BY DEF RingsOK
  <2> QED
    BY <2>1, <2>2
<1>2. q.next = next /\ q.prev = prev /\ q.tp = T[k]
  BY DEF OfTail
<1> HIDE DEF q
<1>3. /\ r \in Ringed /\ IsRing(r, t) /\ next[T[k]] = Head(S[k])
      /\ \A x \in Proc : ~In(x, S[k]) =>
             r.next[x] = next[x] /\ r.prev[x] = prev[x]
  BY <1>1, <1>2, RemoveRing
<1>4. /\ \A x : In(x, t) => In(x, S[k]) /\ x # Head(S[k])
      /\ In(Head(S[k]), S[k]) /\ Head(S[k]) \in Proc
  BY <1>1, InTail
<1> HIDE DEF r, t
<1>5. RingsOK(r.next, r.prev, [T EXCEPT ![k] = r.tp], [S EXCEPT ![k] = t],
              held \cup {Head(S[k])})
  <2>1. held \cup {Head(S[k])} \in SUBSET Proc
    BY <1>1, <1>4
  <2>2. \A x \in Proc : ~In(x, S[k]) /\ x \notin held =>
            r.next[x] = next[x] /\ r.prev[x] = prev[x]
    BY <1>3
  <2>3. \A x : In(x, t) \/ x \in held \cup {Head(S[k])} =>
            In(x, S[k]) \/ x \in held
    BY <1>4
  <2>4. \A x : In(x, t) => x \notin held \cup {Head(S[k])}
    BY <1>1, <1>4
  <2> QED
    BY <1>3, <2>1, <2>2, <2>3, <2>4, RingsChange
<1> QED
  BY <1>1, <1>3, <1>4, <1>5 DEF q, r, t

(* outProcQ, with all queues.                                              *)
LEMMA RingsOut ==
    ASSUME NEW next, NEW prev, NEW T, NEW S, NEW held,
           RingsOK(next, prev, T, S, held), NEW k \in QueueId,
           NEW p, In(p, S[k])
    PROVE  LET r == outProcQ(OfTail(next, prev, T[k]), p)
           IN  /\ p \in Proc
               /\ RingsOK(r.next, r.prev, [T EXCEPT ![k] = r.tp],
                          [S EXCEPT ![k] = RemoveFirst(@, p)], held \cup {p})
<1> DEFINE q == OfTail(next, prev, T[k])
           r == outProcQ(q, p)
           t == RemoveFirst(S[k], p)
<1>1. /\ q \in Ringed /\ IsRing(q, S[k]) /\ S[k] \in Seq(Proc)
      /\ Simple(S[k]) /\ p \in Proc /\ held \subseteq Proc
      /\ \A x : In(x, S[k]) => x \notin held
      /\ S \in [QueueId -> Seq(Proc)]
  BY RingsParts DEF RingsOK
<1>2. q.next = next /\ q.prev = prev
  BY DEF OfTail
<1> HIDE DEF q
<1>3. /\ r \in Ringed /\ IsRing(r, t)
      /\ \A x \in Proc : ~In(x, S[k]) =>
             r.next[x] = next[x] /\ r.prev[x] = prev[x]
  BY <1>1, <1>2, OutRing
<1>4. \A x : In(x, t) => In(x, S[k]) /\ x # p
  BY <1>1, InRemoved
<1> HIDE DEF r, t
<1>5. RingsOK(r.next, r.prev, [T EXCEPT ![k] = r.tp], [S EXCEPT ![k] = t],
              held \cup {p})
  <2>1. held \cup {p} \in SUBSET Proc
    BY <1>1
  <2>2. \A x \in Proc : ~In(x, S[k]) /\ x \notin held =>
            r.next[x] = next[x] /\ r.prev[x] = prev[x]
    BY <1>3
  <2>3. \A x : In(x, t) \/ x \in held \cup {p} => In(x, S[k]) \/ x \in held
    BY <1>4
  <2>4. \A x : In(x, t) => x \notin held \cup {p}
    BY <1>1, <1>4
  <2> QED
    BY <1>3, <2>1, <2>2, <2>3, <2>4, RingsChange
<1> QED
  BY <1>1, <1>5 DEF q, r, t

(* allocPcb clears the links of the pcb it has taken.                      *)
LEMMA RingsClear ==
    ASSUME NEW next, NEW prev, NEW T, NEW S, NEW held,
           RingsOK(next, prev, T, S, held), NEW p \in held
    PROVE  RingsOK([next EXCEPT ![p] = NULL], [prev EXCEPT ![p] = NULL],
                   T, S, held)
<1> DEFINE m == [next EXCEPT ![p] = NULL]
           w == [prev EXCEPT ![p] = NULL]
<1>1. /\ T \in [QueueId -> Proc \cup {NULL}] /\ S \in [QueueId -> Seq(Proc)]
      /\ \A l \in QueueId : IsRing(OfTail(next, prev, T[l]), S[l])
      /\ \A l \in QueueId : \A x : In(x, S[l]) => x \notin held
      /\ next \in Links /\ prev \in Links /\ held \subseteq Proc
  BY DEF RingsOK
<1>2. /\ m \in Links /\ w \in Links
      /\ \A x \in Proc : x # p => m[x] = next[x] /\ w[x] = prev[x]
  BY <1>1 DEF Links
<1> HIDE DEF m, w
<1>3. ASSUME NEW l \in QueueId  PROVE IsRing(OfTail(m, w, T[l]), S[l])
  <2>1. /\ S[l] \in Seq(Proc)
        /\ \A i \in 1 .. Len(S[l]) : S[l][i] \in Proc /\ In(S[l][i], S[l])
    BY <1>1, SeqFacts DEF In
  <2>2. \A i \in 1 .. Len(S[l]) : /\ m[S[l][i]] = next[S[l][i]]
                                  /\ w[S[l][i]] = prev[S[l][i]]
    BY <1>1, <1>2, <2>1
  <2>3. IsRing(OfTail(next, prev, T[l]), S[l])
    BY <1>1
  <2> QED
    BY <2>2, <2>3 DEF IsRing, OfTail
<1>4. RingsOK(m, w, T, S, held)
  BY <1>1, <1>2, <1>3 DEF RingsOK
<1> QED
  BY <1>4 DEF m, w
=============================================================================
