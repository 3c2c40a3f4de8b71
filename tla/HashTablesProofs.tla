-------------------------- MODULE HashTablesProofs --------------------------
(***************************************************************************)
(* Proofs about HashTables, for any keys, values, addresses and sizes.     *)
(* First come lemmas about the operators on sequences that the model uses: *)
(* selecting, removing, flattening.  Induction over the length of a        *)
(* sequence is induction over a least counterexample.                      *)
(***************************************************************************)
EXTENDS HashTables, SequencesExt, WellFoundedInduction, SequenceTheorems,
        FiniteSetTheorems, TLAPS

(* A set of natural numbers has a least element.                           *)
LEMMA LeastElement ==
    ASSUME NEW T, T \subseteq Nat, T # {}
    PROVE  \E n \in T : \A m \in T : n <= m
<1>1. IsWellFoundedOn(OpToRel(<, Nat), Nat)
  BY NatLessThanWellFounded
<1>2. PICK n \in T : \A m \in T : ~ (<<m, n>> \in OpToRel(<, Nat))
  BY <1>1, WFMin
<1>3. \A m \in T : ~ (m < n)
  BY <1>2 DEF OpToRel
<1> QED BY <1>3

(* Min is that element.                                                    *)
LEMMA MinIsLeast ==
    ASSUME NEW T, T \subseteq Nat, T # {}
    PROVE  Min(T) \in T /\ \A m \in T : Min(T) <= m
BY LeastElement DEF Min

(* The first k elements of the flattening, for each k.                     *)
Flattens(f, ss, k) ==
    f = [i \in 1 .. k |-> IF i = 1 THEN ss[i] ELSE f[i - 1] \o ss[i]]

(* A function that is defined by recursion over the positions exists, and  *)
(* its values are sequences.                                               *)
LEMMA FlatteningExists ==
    ASSUME NEW S, NEW ss \in Seq(Seq(S)), NEW n \in 0 .. Len(ss)
    PROVE  \E f \in [1 .. n -> Seq(S)] : Flattens(f, ss, n)
<1> DEFINE P(k) == \E f \in [1 .. k -> Seq(S)] : Flattens(f, ss, k)
           Bad == {k \in 0 .. Len(ss) : ~P(k)}
<1>1. Len(ss) \in Nat /\ \A i \in 1 .. Len(ss) : ss[i] \in Seq(S)
  OBVIOUS
<1>2. SUFFICES ASSUME Bad # {}
               PROVE  FALSE
  OBVIOUS
<1>3. PICK k \in Bad : \A m \in Bad : k <= m
  <2>1. Bad \subseteq Nat
    BY <1>1
  <2> QED BY <2>1, <1>2, LeastElement
<1>4. k # 0
  <2>1. [i \in 1 .. 0 |-> <<>>] \in [1 .. 0 -> Seq(S)]
    OBVIOUS
  <2>2. Flattens([i \in 1 .. 0 |-> <<>>], ss, 0)
    BY DEF Flattens
  <2>3. P(0)
    BY <2>1, <2>2
  <2> QED BY <2>3
<1>5. P(k - 1)
  <2> HIDE DEF P
  <2>1. k - 1 \in 0 .. Len(ss) /\ ~ (k <= k - 1)
    BY <1>1, <1>3, <1>4
  <2> QED BY <2>1, <1>3
<1>6. PICK f \in [1 .. k - 1 -> Seq(S)] : Flattens(f, ss, k - 1)
  BY <1>5
<1> DEFINE g == [i \in 1 .. k |-> IF i = k THEN (IF k = 1 THEN ss[k] ELSE f[k - 1] \o ss[k])
                                           ELSE f[i]]
<1>7. g \in [1 .. k -> Seq(S)]
  <2>1. k = 1 \/ (k - 1 \in 1 .. k - 1 /\ f[k - 1] \in Seq(S))
    BY <1>3, <1>4, <1>1
  <2>2. (IF k = 1 THEN ss[k] ELSE f[k - 1] \o ss[k]) \in Seq(S)
    BY <2>1, <1>1, <1>3, <1>4, ConcatProperties
  <2> QED BY <2>2, <1>1, <1>3, <1>4
<1>8. \A i \in 1 .. k : g[i] = IF i = 1 THEN ss[i] ELSE g[i - 1] \o ss[i]
  <2> TAKE i \in 1 .. k
  <2>1. CASE i = k
    BY <2>1, <1>3, <1>4, <1>1
  <2>2. CASE i # k
    <3>1. i \in 1 .. k - 1 /\ g[i] = f[i]
      BY <2>2, <1>3, <1>1
    <3>2. f[i] = IF i = 1 THEN ss[i] ELSE f[i - 1] \o ss[i]
      BY <3>1, <1>6 DEF Flattens
    <3>3. i # 1 => g[i - 1] = f[i - 1]
      BY <2>2, <1>3, <1>1
    <3> QED BY <3>1, <3>2, <3>3
  <2> QED BY <2>1, <2>2
<1>9. Flattens(g, ss, k)
  <2> HIDE DEF g
  <2>1. g = [i \in 1 .. k |-> g[i]]
    BY <1>7
  <2> QED BY <1>8, <2>1, Zenon DEF Flattens
<1> QED BY <1>7, <1>9, <1>3

(* There is one such function.                                             *)
LEMMA FlatteningUnique ==
    ASSUME NEW n \in Nat, NEW ss, NEW f, NEW g, Flattens(f, ss, n), Flattens(g, ss, n)
    PROVE  f = g
<1> DEFINE Bad == {i \in 1 .. n : f[i] # g[i]}
<1>1. ASSUME NEW h, Flattens(h, ss, n)
      PROVE  /\ h = [i \in 1 .. n |-> h[i]]
             /\ \A i \in 1 .. n : h[i] = IF i = 1 THEN ss[i] ELSE h[i - 1] \o ss[i]
  BY <1>1 DEF Flattens
<1>2. SUFFICES ASSUME Bad # {}
               PROVE  FALSE
  BY <1>1
<1>3. PICK k \in Bad : \A m \in Bad : k <= m
  <2>1. Bad \subseteq Nat
    OBVIOUS
  <2> QED BY <2>1, <1>2, LeastElement
<1>4. k # 1 /\ k - 1 \in 1 .. n /\ f[k - 1] # g[k - 1]
  BY <1>1, <1>3
<1> QED BY <1>3, <1>4

(* The library's recursive function is the flattening that exists.         *)
LEMMA FlattenSeqIs ==
    ASSUME NEW S, NEW ss \in Seq(Seq(S)), Len(ss) # 0
    PROVE  \E f \in [1 .. Len(ss) -> Seq(S)] :
              Flattens(f, ss, Len(ss)) /\ FlattenSeq(ss) = f[Len(ss)]
<1>1. PICK g \in [1 .. Len(ss) -> Seq(S)] : Flattens(g, ss, Len(ss))
  BY FlatteningExists
<1>2. Flattens(CHOOSE f : Flattens(f, ss, Len(ss)), ss, Len(ss))
  BY <1>1, Zenon
<1>3. g = CHOOSE f : Flattens(f, ss, Len(ss))
  BY <1>1, <1>2, FlatteningUnique
<1>4. FlattenSeq(ss) = (CHOOSE f : Flattens(f, ss, Len(ss)))[Len(ss)]
  BY Zenon DEF FlattenSeq, Flattens
<1> QED BY <1>1, <1>3, <1>4
(* The places of the elements of the first k sequences of ss.              *)
PlacesIn(ss, k) == {q \in Nat \X Nat : q[1] \in 1 .. k /\ q[2] \in 1 .. Len(ss[q[1]])}

(* p gives each element of s its place among the first k sequences of ss.  *)
Arranges(p, s, ss, k) ==
    /\ p \in [1 .. Len(s) -> PlacesIn(ss, k)]
    /\ \A m, n \in 1 .. Len(s) : p[m] = p[n] => m = n
    /\ \A q \in PlacesIn(ss, k) : \E n \in 1 .. Len(s) : p[n] = q
    /\ \A n \in 1 .. Len(s) : s[n] = ss[p[n][1]][p[n][2]]

(* The arrangement of k - 1 sequences and of one more.                     *)
LEMMA ArrangeNext ==
    ASSUME NEW S, NEW ss \in Seq(Seq(S)), NEW k \in 1 .. Len(ss), NEW s \in Seq(S),
           NEW p, Arranges(p, s, ss, k - 1)
    PROVE  \E q : Arranges(q, s \o ss[k], ss, k)
<1> DEFINE t == s \o ss[k]
           q == [n \in 1 .. Len(t) |-> IF n <= Len(s) THEN p[n] ELSE <<k, n - Len(s)>>]
<1>1. ss[k] \in Seq(S) /\ k \in Nat
  OBVIOUS
<1>2. /\ t \in Seq(S) /\ Len(t) = Len(s) + Len(ss[k]) /\ Len(s) \in Nat /\ Len(ss[k]) \in Nat
      /\ \A n \in 1 .. Len(t) : t[n] = IF n <= Len(s) THEN s[n] ELSE ss[k][n - Len(s)]
  BY <1>1, ConcatProperties, LenProperties
<1> HIDE DEF t
<1>3. \A r : r \in PlacesIn(ss, k) <=>
          r \in PlacesIn(ss, k - 1) \/ \E j \in 1 .. Len(ss[k]) : r = <<k, j>>
  <2>1. 1 .. k = (1 .. k - 1) \cup {k}
    BY <1>1
  <2>2. ASSUME NEW r \in PlacesIn(ss, k), r \notin PlacesIn(ss, k - 1)
        PROVE  \E j \in 1 .. Len(ss[k]) : r = <<k, j>>
    <3>1. r[1] = k /\ r = <<r[1], r[2]>>
      BY <2>1, <2>2 DEF PlacesIn
    <3> QED BY <3>1, <2>2 DEF PlacesIn
  <2>3. \A j \in 1 .. Len(ss[k]) : <<k, j>> \in PlacesIn(ss, k)
    BY <1>1, <1>2 DEF PlacesIn
  <2>4. PlacesIn(ss, k - 1) \subseteq PlacesIn(ss, k)
    BY <2>1 DEF PlacesIn
  <2> QED BY <2>2, <2>3, <2>4
<1>4. \A r \in PlacesIn(ss, k - 1) : r[1] \in 1 .. k - 1
  BY DEF PlacesIn
<1>5. \A n \in 1 .. Len(t) :
         \/ /\ n \in 1 .. Len(s) /\ q[n] = p[n]
            /\ q[n] \in PlacesIn(ss, k - 1)
         \/ /\ n \notin 1 .. Len(s) /\ n - Len(s) \in 1 .. Len(ss[k])
            /\ q[n] = <<k, n - Len(s)>>
  <2>1. \A n \in 1 .. Len(s) : p[n] \in PlacesIn(ss, k - 1)
    BY Zenon DEF Arranges
  <2>2. \A n \in 1 .. Len(t) : q[n] = IF n <= Len(s) THEN p[n] ELSE <<k, n - Len(s)>>
    OBVIOUS
  <2> HIDE DEF q
  <2>3. \A n \in 1 .. Len(t) : IF n <= Len(s) THEN n \in 1 .. Len(s)
                                 ELSE n \notin 1 .. Len(s) /\ n - Len(s) \in 1 .. Len(ss[k])
    BY <1>2
  <2> QED BY <2>1, <2>2, <2>3, Zenon
<1>6. q \in [1 .. Len(t) -> PlacesIn(ss, k)]
  BY <1>3, <1>5
<1>7. \A m, n \in 1 .. Len(t) : q[m] = q[n] => m = n
  <2> HIDE DEF q
  <2> SUFFICES ASSUME NEW m \in 1 .. Len(t), NEW n \in 1 .. Len(t), q[m] = q[n]
               PROVE  m = n
    OBVIOUS
  <2>1. \A r \in 1 .. Len(t) : r \notin 1 .. Len(s) => q[r][1] = k /\ q[r][2] = r - Len(s)
    BY <1>5
  <2>2. \A r \in 1 .. Len(s) : r \in 1 .. Len(t) => q[r][1] \in 1 .. k - 1 /\ q[r] = p[r]
    BY <1>4, <1>5
  <2>3. CASE m \in 1 .. Len(s) /\ n \in 1 .. Len(s)
    BY <2>2, <2>3 DEF Arranges
  <2>4. CASE m \notin 1 .. Len(s) /\ n \notin 1 .. Len(s)
    <3>1. m - Len(s) = n - Len(s)
      BY <2>1, <2>4
    <3> QED BY <3>1, <1>2
  <2>5. CASE m \in 1 .. Len(s) /\ n \notin 1 .. Len(s)
    <3>1. q[m][1] \in 1 .. k - 1 /\ q[n][1] = k
      BY <2>1, <2>2, <2>5
    <3> QED BY <3>1, <1>1
  <2>6. CASE m \notin 1 .. Len(s) /\ n \in 1 .. Len(s)
    <3>1. q[n][1] \in 1 .. k - 1 /\ q[m][1] = k
      BY <2>1, <2>2, <2>6
    <3> QED BY <3>1, <1>1
  <2> QED BY <2>3, <2>4, <2>5, <2>6
<1>8. \A r \in PlacesIn(ss, k) : \E n \in 1 .. Len(t) : q[n] = r
  <2> TAKE r \in PlacesIn(ss, k)
  <2>1. CASE r \in PlacesIn(ss, k - 1)
    <3>1. PICK n \in 1 .. Len(s) : p[n] = r
      BY <2>1 DEF Arranges
    <3>2. n \in 1 .. Len(t) /\ q[n] = r
      BY <3>1, <1>2
    <3> QED BY <3>2
  <2>2. ASSUME NEW j \in 1 .. Len(ss[k]), r = <<k, j>>
        PROVE  \E n \in 1 .. Len(t) : q[n] = r
    <3>1. Len(s) + j \in 1 .. Len(t) /\ q[Len(s) + j] = <<k, j>>
      BY <1>2
    <3> QED BY <3>1, <2>2
  <2> QED BY <1>3, <2>1, <2>2
<1>9. \A n \in 1 .. Len(t) : t[n] = ss[q[n][1]][q[n][2]]
  <2> TAKE n \in 1 .. Len(t)
  <2>1. CASE n \in 1 .. Len(s)
    BY <2>1, <1>2, <1>5 DEF Arranges
  <2>2. CASE n \notin 1 .. Len(s)
    BY <2>2, <1>2, <1>5
  <2> QED BY <2>1, <2>2
<1>10. Arranges(q, t, ss, k)
  BY <1>6, <1>7, <1>8, <1>9, Zenon DEF Arranges
<1> QED BY <1>10, Zenon DEF t

(* A flattening has the elements of all the sequences, each once.          *)
LEMMA FlattenSeqArranges ==
    ASSUME NEW S, NEW ss \in Seq(Seq(S))
    PROVE  FlattenSeq(ss) \in Seq(S) /\ \E p : Arranges(p, FlattenSeq(ss), ss, Len(ss))
<1>1. CASE Len(ss) = 0
  <2>1. FlattenSeq(ss) = <<>> /\ ss = <<>>
    BY <1>1, EmptySeq DEF FlattenSeq
  <2>2. PlacesIn(ss, Len(ss)) = {}
    BY <1>1 DEF PlacesIn
  <2>3. Arranges([n \in 1 .. 0 |-> <<>>], <<>>, ss, Len(ss))
    BY <1>1, <2>2 DEF Arranges
  <2> QED BY <2>1, <2>3
<1>2. CASE Len(ss) # 0
  <2>1. PICK f \in [1 .. Len(ss) -> Seq(S)] : Flattens(f, ss, Len(ss)) /\ FlattenSeq(ss) = f[Len(ss)]
    BY <1>2, FlattenSeqIs
  <2>2. \A i \in 1 .. Len(ss) : f[i] = IF i = 1 THEN ss[i] ELSE f[i - 1] \o ss[i]
    BY <2>1 DEF Flattens
  <2> DEFINE P(k) == \E p : Arranges(p, f[k], ss, k)
             Bad == {k \in 1 .. Len(ss) : ~P(k)}
  <2>3. Len(ss) \in Nat /\ Len(ss) \in 1 .. Len(ss)
    BY <1>2
  <2>4. Bad = {}
    <3>1. SUFFICES ASSUME Bad # {}
                   PROVE  FALSE
      OBVIOUS
    <3> HIDE DEF P
    <3>2. PICK k \in Bad : \A m \in Bad : k <= m
      <4>1. Bad \subseteq Nat
        BY <2>3
      <4> QED BY <4>1, <3>1, LeastElement
    <3> USE DEF P
    <3>3. CASE k = 1
      <4>1. <<>> \o ss[1] = ss[1] /\ f[1] = ss[1]
        <5>1. 1 \in 1 .. Len(ss) /\ ss[1] \in Seq(S)
          BY <2>3
        <5> QED BY <5>1, <2>2, ConcatEmptySeq
      <4>2. Arranges([n \in 1 .. 0 |-> <<>>], <<>>, ss, 1 - 1)
        BY DEF Arranges, PlacesIn
      <4>3. P(1)
        <5>1. 1 \in 1 .. Len(ss) /\ <<>> \in Seq(S)
          BY <2>3
        <5>2. \E q : Arranges(q, <<>> \o ss[1], ss, 1)
          BY <4>2, <5>1, ArrangeNext
        <5> QED BY <4>1, <5>2
      <4> QED BY <3>2, <3>3, <4>3
    <3>4. CASE k # 1
      <4>1. k - 1 \in 1 .. Len(ss) /\ ~ (k <= k - 1) /\ k \in 1 .. Len(ss)
        BY <3>2, <3>4, <2>3
      <4>2. P(k - 1)
        <5> HIDE DEF P
        <5> QED BY <4>1, <3>2
      <4>3. f[k - 1] \in Seq(S) /\ f[k] = f[k - 1] \o ss[k]
        BY <2>1, <2>2, <3>4, <4>1
      <4>4. P(k)
        BY <4>1, <4>2, <4>3, ArrangeNext
      <4> QED BY <3>2, <4>4
    <3> QED BY <3>3, <3>4
  <2>5. P(Len(ss))
    <3> HIDE DEF P
    <3> QED BY <2>3, <2>4
  <2> QED BY <2>1, <2>3, <2>5
<1> QED BY <1>1, <1>2
(* The two parts of a sequence.                                            *)
LEMMA FrontIs ==
    ASSUME NEW S, NEW s \in Seq(S), NEW n \in 0 .. Len(s)
    PROVE  /\ SubSeq(s, 1, n) \in Seq(S) /\ Len(SubSeq(s, 1, n)) = n
           /\ \A i \in 1 .. n : SubSeq(s, 1, n)[i] = s[i]
<1>1. Len(s) \in Nat /\ \A i \in 1 .. Len(s) : s[i] \in S
  BY ElementOfSeq, LenProperties
<1>2. \A i \in 1 .. n : s[i] \in S
  BY <1>1
<1>3. /\ SubSeq(s, 1, n) \in Seq(S)
      /\ Len(SubSeq(s, 1, n)) = IF 1 <= n THEN n - 1 + 1 ELSE 0
      /\ \A i \in 1 .. n - 1 + 1 : SubSeq(s, 1, n)[i] = s[1 + i - 1]
  BY <1>1, <1>2, SubSeqProperties
<1> QED BY <1>1, <1>3

(* What is left of a sequence after its first n elements.                  *)
LEMMA RestIs ==
    ASSUME NEW S, NEW s \in Seq(S), NEW n \in 0 .. Len(s)
    PROVE  /\ SubSeq(s, n + 1, Len(s)) \in Seq(S) /\ Len(SubSeq(s, n + 1, Len(s))) = Len(s) - n
           /\ \A i \in 1 .. Len(s) - n : SubSeq(s, n + 1, Len(s))[i] = s[n + i]
<1>1. Len(s) \in Nat /\ \A i \in 1 .. Len(s) : s[i] \in S
  BY ElementOfSeq, LenProperties
<1>2. \A i \in n + 1 .. Len(s) : s[i] \in S
  BY <1>1
<1>3. /\ SubSeq(s, n + 1, Len(s)) \in Seq(S)
      /\ Len(SubSeq(s, n + 1, Len(s))) = IF n + 1 <= Len(s) THEN Len(s) - (n + 1) + 1 ELSE 0
      /\ \A i \in 1 .. Len(s) - (n + 1) + 1 :
            SubSeq(s, n + 1, Len(s))[i] = s[(n + 1) + i - 1]
  BY <1>1, <1>2, SubSeqProperties
<1> QED BY <1>1, <1>3

(* One element is removed.                                                 *)
LEMMA RemoveAtIs ==
    ASSUME NEW S, NEW s \in Seq(S), NEW j \in 1 .. Len(s)
    PROVE  /\ RemoveAt(s, j) \in Seq(S) /\ Len(RemoveAt(s, j)) = Len(s) - 1
           /\ \A n \in 1 .. Len(s) - 1 : RemoveAt(s, j)[n] = IF n < j THEN s[n] ELSE s[n + 1]
<1> DEFINE a == SubSeq(s, 1, j - 1)
           b == SubSeq(s, j + 1, Len(s))
<1>1. Len(s) \in Nat /\ j - 1 \in 0 .. Len(s) /\ j \in 0 .. Len(s)
  OBVIOUS
<1>2. /\ a \in Seq(S) /\ Len(a) = j - 1 /\ \A i \in 1 .. j - 1 : a[i] = s[i]
      /\ b \in Seq(S) /\ Len(b) = Len(s) - j /\ \A i \in 1 .. Len(s) - j : b[i] = s[j + i]
  BY <1>1, FrontIs, RestIs
<1>3. RemoveAt(s, j) = a \o b
  BY DEF RemoveAt
<1> HIDE DEF a, b
<1>4. /\ a \o b \in Seq(S) /\ Len(a \o b) = Len(a) + Len(b)
      /\ \A i \in 1 .. Len(a) + Len(b) : (a \o b)[i] = IF i <= Len(a) THEN a[i] ELSE b[i - Len(a)]
  BY <1>2, ConcatProperties
<1>5. \A n \in 1 .. Len(s) - 1 : (a \o b)[n] = IF n < j THEN s[n] ELSE s[n + 1]
  <2> TAKE n \in 1 .. Len(s) - 1
  <2>0. n \in 1 .. Len(a) + Len(b) /\ n \in Nat /\ j \in Nat
    BY <1>1, <1>2
  <2>1. CASE n < j
    BY <2>1, <2>0, <1>2, <1>4
  <2>2. CASE ~ (n < j)
    <3>1. n - (j - 1) \in 1 .. Len(s) - j /\ j + (n - (j - 1)) = n + 1
      BY <2>2, <2>0, <1>1
    <3>2. ~ (n <= Len(a)) /\ n - Len(a) = n - (j - 1)
      BY <2>2, <2>0, <1>2
    <3> QED BY <3>1, <3>2, <2>0, <2>2, <1>2, <1>4
  <2> QED BY <2>1, <2>2
<1> QED BY <1>1, <1>2, <1>3, <1>4, <1>5

(* One element is put in front.                                            *)
LEMMA PutInFront ==
    ASSUME NEW S, NEW s \in Seq(S), NEW e \in S
    PROVE  /\ <<e>> \o s \in Seq(S) /\ Len(<<e>> \o s) = Len(s) + 1
           /\ (<<e>> \o s)[1] = e
           /\ \A n \in 1 .. Len(s) : (<<e>> \o s)[n + 1] = s[n]
<1>1. <<e>> \in Seq(S) /\ Len(<<e>>) = 1 /\ <<e>>[1] = e /\ Len(s) \in Nat
  OBVIOUS
<1> QED BY <1>1, ConcatProperties

(***************************************************************************)
(* Frames and the stack.                                                   *)
(***************************************************************************)
(* What a frame has, by its operation.                                     *)
LEMMA FrameHas ==
    ASSUME NEW f \in Frame
    PROVE  /\ f.op \in {"check", "clear", "get", "rem", "looping", "rehash", "growing"} \cup Adding
           /\ f.op \in {"get", "rem", "looping"} => f = [op |-> f.op, key |-> f.key] /\ f.key \in Keys
           /\ f.op \in Adding => f.key \in Keys /\ f.val \in Values
           /\ f.op \in {"add", "array", "index"} => f = [op |-> f.op, key |-> f.key, val |-> f.val]
           /\ f.op \in {"address", "push"} => f.index \in 0 .. MaxSize - 1
           /\ f.op = "push" => f.stored \in Addresses
           /\ f.op \in Lists => f.list \in Seq(Entry) /\ f = [op |-> f.op, list |-> f.list]
BY DEF Frame, Adding, Lists

(* The frames that the operations make.                                    *)
LEMMA FramesOf ==
    /\ \A op \in {"check", "clear"} : [op |-> op] \in Frame
    /\ \A op \in {"get", "rem", "looping"}, k \in Keys : [op |-> op, key |-> k] \in Frame
    /\ \A op \in {"add", "array", "index"}, k \in Keys, v \in Values :
          [op |-> op, key |-> k, val |-> v] \in Frame
    /\ \A k \in Keys, v \in Values, i \in 0 .. MaxSize - 1 :
          [op |-> "address", key |-> k, val |-> v, index |-> i] \in Frame
    /\ \A k \in Keys, v \in Values, i \in 0 .. MaxSize - 1, a \in Addresses :
          [op |-> "push", key |-> k, val |-> v, index |-> i, stored |-> a] \in Frame
    /\ \A op \in Lists, l \in Seq(Entry) : [op |-> op, list |-> l] \in Frame
BY DEF Frame, Lists

(* The stack after each of the three ways to go on.                        *)
LEMMA Gone ==
    ASSUME stack \in Seq(Frame), ~Idle, NEW f \in Frame, Goto(f)
    PROVE  /\ stack' \in Seq(Frame) /\ Depth' = Depth /\ Depth \in Nat \ {0}
           /\ ~Idle' /\ Top' = f
           /\ \A i \in 1 .. Depth - 1 : stack'[i] = stack[i]
BY DEF Goto, Depth, Idle, Top

(* A frame that is taken off uncovers the one below it.                    *)
LEMMA Returned ==
    ASSUME stack \in Seq(Frame), ~Idle, Return
    PROVE  /\ stack' \in Seq(Frame) /\ Depth' = Depth - 1 /\ Depth \in Nat \ {0}
           /\ Idle' <=> Depth = 1
           /\ \A i \in 1 .. Depth - 1 : stack'[i] = stack[i]
<1>1. Len(stack) \in Nat \ {0} /\ Len(stack) - 1 \in 0 .. Len(stack)
  BY DEF Idle
<1>2. /\ SubSeq(stack, 1, Len(stack) - 1) \in Seq(Frame)
      /\ Len(SubSeq(stack, 1, Len(stack) - 1)) = Len(stack) - 1
      /\ \A i \in 1 .. Len(stack) - 1 : SubSeq(stack, 1, Len(stack) - 1)[i] = stack[i]
  BY <1>1, FrontIs
<1>3. stack' = SubSeq(stack, 1, Len(stack) - 1)
  BY DEF Return, Depth
<1>4. stack' = <<>> <=> Len(stack') = 0
  BY <1>2, <1>3, EmptySeq
<1> QED BY <1>1, <1>2, <1>3, <1>4 DEF Depth, Idle

(* A frame that is put on leaves those below the one it came from.         *)
LEMMA Called ==
    ASSUME stack \in Seq(Frame), ~Idle, NEW f \in Frame, NEW g \in Frame, Call(f, g)
    PROVE  /\ stack' \in Seq(Frame) /\ Depth' = Depth + 1 /\ Depth \in Nat \ {0}
           /\ ~Idle' /\ Top' = f /\ stack'[Depth] = g
           /\ \A i \in 1 .. Depth - 1 : stack'[i] = stack[i]
BY DEF Call, Depth, Idle, Top
(***************************************************************************)
(* The operators of the table.                                             *)
(***************************************************************************)
(* The place of a key in a bucket.                                         *)
LEMMA FindIs ==
    ASSUME NEW b \in Seq(Entry), NEW k
    PROVE  \/ /\ Find(k, b) \in 1 .. Len(b) /\ b[Find(k, b)].key = k
              /\ Find(k, b) # 0
           \/ Find(k, b) = 0 /\ \A j \in 1 .. Len(b) : b[j].key # k
<1> DEFINE I == {j \in 1 .. Len(b) : b[j].key = k}
<1>1. Find(k, b) = IF I # {} THEN Min(I) ELSE 0
  BY DEF Find, SelectInSeq
<1>2. Len(b) \in Nat /\ I \subseteq Nat
  OBVIOUS
<1>3. I # {} => Min(I) \in I
  BY <1>2, MinIsLeast
<1> QED BY <1>1, <1>2, <1>3

(* The first stale entry of a bucket, if it has one.                       *)
LEMMA FirstStaleIs ==
    ASSUME TypeOK, NEW i \in DOMAIN table
    PROVE  \/ FirstStale(i) \in 1 .. Len(table[i]) /\ Stale(table[i][FirstStale(i)])
           \/ FirstStale(i) = 0 /\ \A j \in 1 .. Len(table[i]) : ~ Stale(table[i][j])
<1> DEFINE I == {j \in 1 .. Len(table[i]) : Stale(table[i][j])}
<1>1. FirstStale(i) = IF I # {} THEN Min(I) ELSE 0
  BY DEF FirstStale, SelectInSeq
<1>2. Len(table[i]) \in Nat /\ I \subseteq Nat
  BY DEF TypeOK
<1>3. I # {} => Min(I) \in I
  BY <1>2, MinIsLeast
<1> QED BY <1>1, <1>2, <1>3

(* The lowest generation of some keys.                                     *)
LEMMA NewestIs ==
    ASSUME TypeOK, NEW ks \in SUBSET Keys
    PROVE  Newest(ks) \in 0 .. 3 /\ \A k \in ks : Newest(ks) <= gen[k]
<1> DEFINE G == {gen[k] : k \in ks} \cup {3}
<1>1. gen \in [Keys -> 0 .. 2]
  BY DEF TypeOK, Generations
<1>2. G \subseteq 0 .. 3 /\ G # {}
  BY <1>1
<1>3. PICK g \in G : \A h \in G : g <= h
  <2>1. G \subseteq Nat
    BY <1>2
  <2> QED BY <2>1, <1>2, LeastElement
<1>4. \E h \in 0 .. 3 : h \in G /\ \A k \in ks : h <= gen[k]
  BY <1>2, <1>3
<1> QED BY <1>4 DEF Newest

(* A table is a row of sequences of entries.                               *)
LEMMA TableHas ==
    ASSUME TypeOK
    PROVE  /\ DOMAIN table = 0 .. size - 1 /\ size \in Nat \ {0} /\ size <= MaxSize /\ MaxSize \in Nat
           /\ \A i \in DOMAIN table : /\ table[i] \in Seq(Entry) /\ Len(table[i]) \in Nat
                                      /\ DOMAIN table[i] = 1 .. Len(table[i])
                                      /\ \A j \in DOMAIN table[i] : table[i][j] \in Entry
<1>1. size \in Nat \ {0} /\ size <= MaxSize /\ MaxSize \in Nat
  BY TableAssumption DEF TypeOK
<1>2. table \in [0 .. size - 1 -> Seq(Entry)]
  BY DEF TypeOK
<1> QED BY <1>1, <1>2

(* A key hashes to a bucket of the table.                                  *)
LEMMA IndexIn ==
    ASSUME TypeOK, NEW k \in Keys
    PROVE  Index(k) \in DOMAIN table /\ Index(k) \in 0 .. MaxSize - 1
<1>1. addr[k] \in Nat
  BY TableAssumption DEF TypeOK
<1> QED BY <1>1, TableHas DEF Index

(* The sequences of buckets that become lists.                             *)
LEMMA BucketsType ==
    ASSUME TypeOK
    PROVE  /\ Buckets \in Seq(Seq(Entry)) /\ Len(Buckets) = size
           /\ GivenUp \in Seq(Seq(Entry)) /\ Len(GivenUp) = size
<1>1. Buckets \in [1 .. size -> Seq(Entry)] /\ size \in Nat
  BY TableHas DEF Buckets
<1>2. GivenUp \in [1 .. size -> Seq(Entry)]
  BY TableHas DEF GivenUp
<1> QED BY <1>1, <1>2

(* An operation in progress has a frame on top.                            *)
LEMMA TopHas ==
    ASSUME TypeOK, ~ Idle
    PROVE  Depth \in Nat \ {0} /\ Top \in Frame /\ \A i \in 1 .. Depth : stack[i] \in Frame
BY DEF TypeOK, Idle, Top, Depth
(***************************************************************************)
(* What each step does to the stack.                                       *)
(***************************************************************************)
AddFrame(op, k, v) == [op |-> op, key |-> k, val |-> v]
ListFrame(op, l) == [op |-> op, list |-> l]

(* The test for a rehash becomes the rehash or ends.                       *)
LEMMA CheckDoes ==
    ASSUME TypeOK, Check
    PROVE  /\ ~ Idle /\ Top.op = "check" /\ ListFrame("rehash", FlattenSeq(GivenUp)) \in Frame
           /\ \/ StartRehash /\ NeedRehash /\ Goto(ListFrame("rehash", FlattenSeq(GivenUp)))
              \/ Return /\ ~ NeedRehash /\ UNCHANGED <<heap, table, size, count, needed, newest, moved, answer>>
<1>1. ListFrame("rehash", FlattenSeq(GivenUp)) \in Frame
  BY BucketsType, FlattenSeqArranges, FramesOf DEF Lists, ListFrame
<1> QED BY <1>1 DEF Check, StartRehash, At, ListFrame

(* The list gives up its first entry, which is added above it.             *)
LEMMA AddNextDoes ==
    ASSUME TypeOK, AddNext
    PROVE  /\ ~ Idle /\ Top.op \in Lists /\ Top.list \in Seq(Entry) /\ Top.list # <<>>
           /\ Head(Top.list) \in Entry /\ Tail(Top.list) \in Seq(Entry)
           /\ AddFrame("add", Head(Top.list).key, Head(Top.list).val) \in Frame
           /\ ListFrame(Top.op, Tail(Top.list)) \in Frame
           /\ Call(AddFrame("add", Head(Top.list).key, Head(Top.list).val),
                   ListFrame(Top.op, Tail(Top.list)))
<1>1. /\ ~ Idle /\ Top.op \in Lists /\ Top.list # <<>>
      /\ Call(AddFrame("add", Head(Top.list).key, Head(Top.list).val),
              ListFrame(Top.op, Tail(Top.list)))
  BY DEF AddNext, At, AddFrame, ListFrame
<1>2. Top.list \in Seq(Entry) /\ Top.list # <<>>
  BY <1>1, TopHas, FrameHas
<1>3. Head(Top.list) \in Entry /\ Tail(Top.list) \in Seq(Entry)
  BY <1>2
<1> QED BY <1>1, <1>2, <1>3, FramesOf DEF Entry, AddFrame, ListFrame

(* An addition goes on to the bucket, or to a larger table first.          *)
LEMMA AddDoes ==
    ASSUME TypeOK, Add
    PROVE  /\ ~ Idle /\ Top.op = "add" /\ Top.key \in Keys /\ Top.val \in Values
           /\ \E op \in {"array", "index"} :
                 AddFrame(op, Top.key, Top.val) \in Frame /\ Goto(AddFrame(op, Top.key, Top.val))
<1>1. ~ Idle /\ Top.op = "add"
  BY DEF Add, At
<1>2. Top.key \in Keys /\ Top.val \in Values /\ Top = [op |-> "add", key |-> Top.key, val |-> Top.val]
  BY <1>1, TopHas, FrameHas DEF Adding
<1>3. PICK op \in {"array", "index"} : Goto([Top EXCEPT !.op = op])
  BY DEF Add
<1>4. [Top EXCEPT !.op = op] = AddFrame(op, Top.key, Top.val)
  BY <1>2 DEF AddFrame
<1>5. AddFrame(op, Top.key, Top.val) \in Frame
  BY <1>2, FramesOf DEF AddFrame
<1> QED BY <1>1, <1>2, <1>3, <1>4, <1>5

(* The old entries are added above the entry that made the table grow.     *)
LEMMA GrowDoes ==
    ASSUME TypeOK, Grow
    PROVE  /\ ~ Idle /\ Top.op = "array" /\ Top.key \in Keys /\ Top.val \in Values
           /\ AddFrame("index", Top.key, Top.val) \in Frame
           /\ ListFrame("growing", FlattenSeq(Buckets)) \in Frame
           /\ Call(ListFrame("growing", FlattenSeq(Buckets)), AddFrame("index", Top.key, Top.val))
<1>1. ~ Idle /\ Top.op = "array"
  BY DEF Grow, At
<1>2. Top.key \in Keys /\ Top.val \in Values /\ Top = [op |-> "array", key |-> Top.key, val |-> Top.val]
  BY <1>1, TopHas, FrameHas DEF Adding
<1>3. [Top EXCEPT !.op = "index"] = AddFrame("index", Top.key, Top.val)
  BY <1>2 DEF AddFrame
<1>4. AddFrame("index", Top.key, Top.val) \in Frame
  BY <1>2, FramesOf DEF AddFrame
<1>5. ListFrame("growing", FlattenSeq(Buckets)) \in Frame
  BY BucketsType, FlattenSeqArranges, FramesOf DEF Lists, ListFrame
<1> QED BY <1>1, <1>2, <1>3, <1>4, <1>5 DEF Grow, ListFrame

AddressFrame(k, v, i) == [op |-> "address", key |-> k, val |-> v, index |-> i]

(* A key that is found gets its value, one that is not goes on.            *)
LEMMA SearchDoes ==
    ASSUME TypeOK, Search
    PROVE  /\ ~ Idle /\ Top.op = "index" /\ Top.key \in Keys /\ Top.val \in Values
           /\ Index(Top.key) \in DOMAIN table
           /\ AddressFrame(Top.key, Top.val, Index(Top.key)) \in Frame
           /\ \/ /\ Return /\ count' = count
                 /\ \E j \in 1 .. Len(table[Index(Top.key)]) :
                       /\ table[Index(Top.key)][j].key = Top.key
                       /\ [table[Index(Top.key)][j] EXCEPT !.val = Top.val] \in Entry
                       /\ table' = [table EXCEPT ![Index(Top.key)] =
                             [table[Index(Top.key)] EXCEPT ![j] =
                                [table[Index(Top.key)][j] EXCEPT !.val = Top.val]]]
              \/ /\ Goto(AddressFrame(Top.key, Top.val, Index(Top.key)))
                 /\ \A j \in 1 .. Len(table[Index(Top.key)]) : table[Index(Top.key)][j].key # Top.key
                 /\ count' = count + 1 /\ table' = table
<1> DEFINE i == Index(Top.key)
           j == Find(Top.key, table[i])
<1>1. ~ Idle /\ Top.op = "index"
  BY DEF Search, At
<1>2. Top.key \in Keys /\ Top.val \in Values
  BY <1>1, TopHas, FrameHas DEF Adding
<1>3. i \in DOMAIN table /\ i \in 0 .. MaxSize - 1 /\ table[i] \in Seq(Entry)
  BY <1>2, IndexIn, TableHas
<1>4. AddressFrame(Top.key, Top.val, i) \in Frame
  BY <1>2, <1>3, FramesOf DEF AddressFrame
<1> HIDE DEF i
<1>5. CASE j # 0
  <2>1. j \in 1 .. Len(table[i]) /\ table[i][j].key = Top.key
    BY <1>3, <1>5, FindIs
  <2>2. Return /\ count' = count /\ table' = [table EXCEPT ![i][j].val = Top.val]
    BY <1>5 DEF Search, i
  <2>3. [table[i][j] EXCEPT !.val = Top.val] \in Entry
    <3>1. table[i][j] \in Entry
      BY <1>3, <2>1
    <3> QED BY <1>2, <3>1 DEF Entry
  <2>4. table' = [table EXCEPT ![i] = [table[i] EXCEPT ![j] = [table[i][j] EXCEPT !.val = Top.val]]]
    BY <2>2
  <2> QED BY <1>1, <1>2, <1>3, <1>4, <2>1, <2>2, <2>3, <2>4 DEF i
<1>6. CASE j = 0
  <2>1. \A n \in 1 .. Len(table[i]) : table[i][n].key # Top.key
    BY <1>3, <1>6, FindIs
  <2>2. Goto(AddressFrame(Top.key, Top.val, i)) /\ count' = count + 1 /\ table' = table
    BY <1>6 DEF Search, i, AddressFrame
  <2> QED BY <1>1, <1>2, <1>3, <1>4, <2>1, <2>2 DEF i
<1> QED BY <1>5, <1>6

PushFrame(k, v, i, a) == [op |-> "push", key |-> k, val |-> v, index |-> i, stored |-> a]

(* The address of the key goes with the entry that will be made.           *)
LEMMA ReadAddressDoes ==
    ASSUME TypeOK, ReadAddress
    PROVE  /\ ~ Idle /\ Top.op = "address" /\ Top.key \in Keys /\ Top.val \in Values
           /\ PushFrame(Top.key, Top.val, Top.index, addr[Top.key]) \in Frame
           /\ Goto(PushFrame(Top.key, Top.val, Top.index, addr[Top.key]))
<1>1. ~ Idle /\ Top.op = "address"
  BY DEF ReadAddress, At
<1>2. Top.key \in Keys /\ Top.val \in Values /\ Top.index \in 0 .. MaxSize - 1
  BY <1>1, TopHas, FrameHas DEF Adding
<1>3. addr[Top.key] \in Addresses
  BY <1>2 DEF TypeOK
<1> QED BY <1>1, <1>2, <1>3, FramesOf DEF ReadAddress, PushFrame

Made(f) == [key |-> f.key, stored |-> f.stored, val |-> f.val]

(* The entry is put in front of its bucket.                                *)
LEMMA PushDoes ==
    ASSUME TypeOK, Push
    PROVE  /\ ~ Idle /\ Top.op = "push" /\ Top.key \in Keys /\ Top.val \in Values
           /\ Made(Top) \in Entry /\ Return
           /\ table' = [table EXCEPT ![Top.index] = <<Made(Top)>> \o @]
<1>1. ~ Idle /\ Top.op = "push"
  BY DEF Push, At
<1>2. Top.key \in Keys /\ Top.val \in Values /\ Top.stored \in Addresses
  BY <1>1, TopHas, FrameHas DEF Adding
<1> QED BY <1>1, <1>2 DEF Push, Made, Entry

(* The key of a removal is found, its bucket is empty, or it loops.        *)
LEMMA RemHashDoes ==
    ASSUME TypeOK, RemHash
    PROVE  /\ ~ Idle /\ Top.op = "rem" /\ Top.key \in Keys
           /\ Index(Top.key) \in DOMAIN table
           /\ \/ /\ Return /\ count' = count - 1
                 /\ \E j \in 1 .. Len(table[Index(Top.key)]) :
                       /\ table[Index(Top.key)][j].key = Top.key
                       /\ RemoveAt(table[Index(Top.key)], j) \in Seq(Entry)
                       /\ table' = [table EXCEPT ![Index(Top.key)] = RemoveAt(table[Index(Top.key)], j)]
              \/ Return /\ table[Index(Top.key)] = <<>> /\ UNCHANGED <<table, count>>
              \/ /\ [op |-> "looping", key |-> Top.key] \in Frame
                 /\ Goto([op |-> "looping", key |-> Top.key]) /\ UNCHANGED <<table, count>>
<1> DEFINE i == Index(Top.key)
           j == Find(Top.key, table[i])
<1>1. ~ Idle /\ Top.op = "rem"
  BY DEF RemHash, At
<1>2. Top.key \in Keys /\ Top = [op |-> "rem", key |-> Top.key]
  BY <1>1, TopHas, FrameHas
<1>3. i \in DOMAIN table /\ table[i] \in Seq(Entry)
  BY <1>2, IndexIn, TableHas
<1>4. [Top EXCEPT !.op = "looping"] = [op |-> "looping", key |-> Top.key]
  BY <1>2
<1>5. [op |-> "looping", key |-> Top.key] \in Frame
  BY <1>2, FramesOf
<1>6. \/ j # 0 /\ table' = [table EXCEPT ![i] = RemoveAt(@, j)] /\ count' = count - 1 /\ Return
      \/ table[i] = <<>> /\ Return /\ UNCHANGED <<table, count>>
      \/ Goto([Top EXCEPT !.op = "looping"]) /\ UNCHANGED <<table, count>>
  BY DEF RemHash
<1> HIDE DEF i
<1>7. CASE j # 0 /\ table' = [table EXCEPT ![i] = RemoveAt(@, j)] /\ count' = count - 1 /\ Return
  <2>1. j \in 1 .. Len(table[i]) /\ table[i][j].key = Top.key
    BY <1>3, <1>7, FindIs
  <2>2. RemoveAt(table[i], j) \in Seq(Entry)
    BY <1>3, <2>1, RemoveAtIs
  <2> HIDE DEF j
  <2> QED BY <1>1, <1>2, <1>3, <1>7, <2>1, <2>2 DEF i
<1>8. CASE table[i] = <<>> /\ Return /\ UNCHANGED <<table, count>>
  BY <1>1, <1>2, <1>3, <1>8 DEF i
<1>9. CASE Goto([Top EXCEPT !.op = "looping"]) /\ UNCHANGED <<table, count>>
  BY <1>1, <1>2, <1>3, <1>4, <1>5, <1>9 DEF i
<1> QED BY <1>6, <1>7, <1>8, <1>9

(***************************************************************************)
(* Types.                                                                  *)
(***************************************************************************)
(* An entry is counted before it is made.                                  *)
CountInv ==
    /\ IsFiniteSet(InTable)
    /\ Cardinality(InTable) + (IF At("address") \/ At("push") THEN 1 ELSE 0) <= count

(* The places in the table are pairs of numbers.                           *)
LEMMA InTableIs ==
    ASSUME TypeOK
    PROVE  InTable = {p \in Nat \X Nat : p[1] \in DOMAIN table /\ p[2] \in 1 .. Len(table[p[1]])}
<1>1. \A p \in InTable : p \in Nat \X Nat /\ p[1] \in DOMAIN table /\ p[2] \in 1 .. Len(table[p[1]])
  BY TableHas DEF InTable
<1>2. ASSUME NEW p \in Nat \X Nat, p[1] \in DOMAIN table, p[2] \in 1 .. Len(table[p[1]])
      PROVE  p \in InTable
  <2>1. p = <<p[1], p[2]>> /\ p[2] \in DOMAIN table[p[1]]
    BY <1>2, TableHas
  <2> QED BY <1>2, <2>1 DEF InTable
<1> QED BY <1>1, <1>2

(* An entry that is removed was counted.                                   *)
LEMMA RemovedCounted ==
    ASSUME TypeOK, CountInv, NEW i \in DOMAIN table, NEW j \in 1 .. Len(table[i])
    PROVE  count - 1 \in Nat
<1>1. <<i, j>> \in InTable
  BY TableHas DEF InTable
<1>2. Cardinality(InTable) \in Nat \ {0}
  BY <1>1, FS_CardinalityType, FS_EmptySet DEF CountInv
<1> QED BY <1>2 DEF CountInv, TypeOK

(* The types hold at the start.                                            *)
LEMMA TypeInit == Init => TypeOK
<1> SUFFICES ASSUME Init PROVE TypeOK
  OBVIOUS
<1> QED BY TableAssumption DEF Init, TypeOK, Generations, Entry

(* The start of a rehash keeps them.                                       *)
LEMMA TypeRehash ==
    ASSUME TypeOK, Check, StartRehash
    PROVE  TypeOK'
<1>1. stack' \in Seq(Frame)
  BY CheckDoes, Gone, Returned DEF TypeOK
<1>2. UNION {Scanned(i) : i \in DOMAIN table} \in SUBSET Keys
  <2>1. ASSUME NEW i \in DOMAIN table
        PROVE  Scanned(i) \subseteq Keys
    <3>1. \A j \in 1 .. Len(table[i]) : table[i][j].key \in Keys
      BY TableHas DEF Entry
    <3>2. Scanned(i) \subseteq {table[i][j].key : j \in 1 .. Len(table[i])}
      BY SMTT(30), FirstStaleIs, TableHas DEF Scanned
    <3> QED BY <3>1, <3>2
  <2> QED BY <2>1
<1>3. newest' \in 0 .. 3
  BY <1>2, NewestIs DEF StartRehash
<1>4. table' \in [0 .. size - 1 -> Seq(Entry)]
  BY TableHas, EmptySeq DEF StartRehash
<1> QED BY <1>1, <1>3, <1>4 DEF StartRehash, TypeOK, heap

(* A step that changes the stack and nothing else.                         *)
LEMMA TypeStack ==
    ASSUME TypeOK, stack' \in Seq(Frame), answer' \in Values \cup {NoValue},
           UNCHANGED <<heap, table, size, count, needed, newest, moved>>
    PROVE  TypeOK'
BY DEF TypeOK, heap

(* Every step keeps them; a removal needs the count not to be zero.        *)
LEMMA TypeStep ==
    ASSUME TypeOK, CountInv, [Next]_vars
    PROVE  TypeOK'
<1> USE DEF At
<1>0. stack \in Seq(Frame) /\ answer \in Values \cup {NoValue}
  BY DEF TypeOK
<1>1. CASE Ask
  <2>1. PICK k \in Keys :
           \/ stack' = <<[op |-> "get", key |-> k], [op |-> "check"]>>
           \/ stack' = <<[op |-> "rem", key |-> k], [op |-> "check"]>>
           \/ \E v \in Values :
                 stack' = <<[op |-> "check"], [op |-> "add", key |-> k, val |-> v], [op |-> "check"]>>
           \/ stack' = <<[op |-> "clear"]>>
    BY <1>1 DEF Ask
  <2>2. /\ [op |-> "check"] \in Frame /\ [op |-> "clear"] \in Frame
        /\ [op |-> "get", key |-> k] \in Frame /\ [op |-> "rem", key |-> k] \in Frame
        /\ \A v \in Values : [op |-> "add", key |-> k, val |-> v] \in Frame
    BY FramesOf
  <2>3. stack' \in Seq(Frame)
    <3>1. \A f, g, h \in Frame : /\ <<f>> \in Seq(Frame) /\ <<f, g>> \in Seq(Frame)
                                 /\ <<f, g, h>> \in Seq(Frame)
      OBVIOUS
    <3> QED BY <2>1, <2>2, <3>1, Zenon
  <2> QED BY <1>1, <2>3, TypeStack DEF Ask
<1>2. CASE Check
  BY <1>0, <1>2, CheckDoes, TypeRehash, Returned, TypeStack
<1>3. CASE AddNext
  <2>1. stack' \in Seq(Frame)
    BY <1>0, <1>3, AddNextDoes, Called
  <2> QED BY <1>0, <1>3, <2>1, TypeStack DEF AddNext
<1>4. CASE EndRehash
  BY <1>0, <1>4, Returned DEF EndRehash, TypeOK, heap
<1>5. CASE Add
  <2>1. stack' \in Seq(Frame)
    BY <1>0, <1>5, AddDoes, Gone
  <2> QED BY <1>0, <1>5, <2>1, TypeStack DEF Add
<1>6. CASE Grow
  <2>1. stack' \in Seq(Frame)
    BY <1>0, <1>6, GrowDoes, Called
  <2>2. Larger \in FirstSize .. MaxSize
    BY TableAssumption DEF Larger, TypeOK
  <2>3. table' \in [0 .. size' - 1 -> Seq(Entry)]
    BY <1>6, EmptySeq DEF Grow
  <2> QED BY <1>6, <2>1, <2>2, <2>3 DEF Grow, TypeOK, heap
<1>7. CASE EndGrow
  BY <1>0, <1>7, Returned, TypeStack DEF EndGrow
<1>8. CASE Search
  <2>1. newest' \in 0 .. 3
    BY <1>8, SearchDoes DEF Search, TypeOK, Minimum, Generations
  <2>2. stack' \in Seq(Frame)
    BY <1>0, <1>8, SearchDoes, Returned, Gone
  <2>3. count' \in Nat
    BY <1>8, SearchDoes DEF TypeOK
  <2>4. table' \in [0 .. size - 1 -> Seq(Entry)]
    <3>1. CASE table' = table
      BY <3>1 DEF TypeOK
    <3>2. ASSUME NEW i \in DOMAIN table, NEW j \in 1 .. Len(table[i]), NEW e \in Entry,
                 table' = [table EXCEPT ![i] = [table[i] EXCEPT ![j] = e]]
          PROVE  table' \in [0 .. size - 1 -> Seq(Entry)]
      <4>1. [table[i] EXCEPT ![j] = e] \in Seq(Entry)
        BY TableHas, ExceptSeq
      <4> QED BY <3>2, <4>1 DEF TypeOK
    <3> QED BY ZenonT(40), <1>8, <3>1, <3>2, SearchDoes
  <2> QED BY <1>8, <2>1, <2>2, <2>3, <2>4 DEF Search, TypeOK, heap
<1>9. CASE ReadAddress
  <2>1. stack' \in Seq(Frame)
    BY <1>0, <1>9, ReadAddressDoes, Gone
  <2> QED BY <1>0, <1>9, <2>1, TypeStack DEF ReadAddress
<1>10. CASE Push
  <2>1. stack' \in Seq(Frame)
    BY <1>0, <1>10, PushDoes, Returned
  <2>2. table' \in [0 .. size - 1 -> Seq(Entry)]
    <3>1. CASE Top.index \in DOMAIN table
      <4>1. <<Made(Top)>> \o table[Top.index] \in Seq(Entry)
        BY <1>10, <3>1, PushDoes, PutInFront, TableHas
      <4> QED BY <1>10, <4>1, PushDoes DEF TypeOK
    <3>2. CASE Top.index \notin DOMAIN table
      BY <1>10, <3>2, PushDoes DEF TypeOK
    <3> QED BY <3>1, <3>2
  <2> QED BY <1>0, <1>10, <2>1, <2>2 DEF Push, TypeOK, heap
<1>11. CASE GetHash
  <2>1. Top.key \in Keys
    BY <1>11, TopHas, FrameHas DEF GetHash
  <2>2. Index(Top.key) \in DOMAIN table
    BY <2>1, IndexIn
  <2>3. answer' \in Values \cup {NoValue}
    <3> DEFINE b == table[Index(Top.key)]
    <3>1. b \in Seq(Entry) /\ \A j \in 1 .. Len(b) : b[j].val \in Values
      BY <2>2, TableHas DEF Entry
    <3>2. answer' = IF Find(Top.key, b) # 0 THEN b[Find(Top.key, b)].val ELSE NoValue
      BY <1>11 DEF GetHash
    <3> HIDE DEF b
    <3> QED BY <3>1, <3>2, FindIs
  <2> QED BY <1>0, <1>11, <2>3, Returned, TypeStack DEF GetHash
<1>12. CASE RemHash
  <2>1. UNCHANGED <<heap, size, needed, newest, moved, answer>>
    BY <1>12 DEF RemHash
  <2>2. stack' \in Seq(Frame)
    BY <1>0, <1>12, RemHashDoes, Returned, Gone
  <2>3. table' \in [0 .. size - 1 -> Seq(Entry)]
    <3>1. ASSUME NEW i \in DOMAIN table, NEW b \in Seq(Entry), table' = [table EXCEPT ![i] = b]
          PROVE  table' \in [0 .. size - 1 -> Seq(Entry)]
      BY <3>1 DEF TypeOK
    <3>2. CASE table' = table
      BY <3>2 DEF TypeOK
    <3> QED BY <1>12, <3>1, <3>2, RemHashDoes
  <2>4. count' \in Nat
    BY <1>12, RemHashDoes, RemovedCounted DEF TypeOK
  <2> QED BY <2>1, <2>2, <2>3, <2>4 DEF TypeOK, heap
<1>13. CASE Loop
  BY <1>13 DEF Loop, vars, TypeOK
<1>14. CASE ClrHash
  BY <1>0, <1>14, Returned, TableHas, EmptySeq DEF ClrHash, TypeOK, heap
<1>15. ASSUME NEW l \in Generations, Collect(l)
       PROVE  TypeOK'
  <2>0. gen' \in [Keys -> Generations]
    <3>1. \A k \in Keys : gen[k] \in 0 .. 2
      BY DEF TypeOK, Generations
    <3> QED BY <1>15, <3>1 DEF Collect, Generations
  <2>1. needed' \in BOOLEAN /\ moved' \subseteq Generations
    <3>1. l \in Nat /\ 0 .. l \subseteq Generations
      BY DEF Generations
    <3>2. needed' \in {needed, TRUE}
      BY <1>15 DEF Collect
    <3> QED BY <1>15, <3>1, <3>2 DEF Collect, TypeOK
  <2>2. addr' \in [Keys -> Addresses]
    BY <1>15 DEF Collect
  <2> QED BY <1>15, <2>0, <2>1, <2>2 DEF Collect, TypeOK
<1>16. CASE UNCHANGED vars
  BY <1>16 DEF vars, TypeOK
<1> QED BY <1>1, <1>2, <1>3, <1>4, <1>5, <1>6, <1>7, <1>8, <1>9, <1>10, <1>11, <1>12, <1>13,
           <1>14, <1>15, <1>16 DEF Next, Step
(***************************************************************************)
(* The shape of the stack.                                                 *)
(***************************************************************************)
(* What is under what: a list under an entry that is added from it; a call  *)
(* under the test for a rehash, which becomes the rehash.                   *)
Shape ==
    /\ Depth > 0 => stack[1].op \in {"get", "rem", "looping", "clear", "check", "rehash"}
    /\ \A i \in 2 .. Depth :
          \/ stack[i - 1].op \in Lists /\ stack[i].op \in Adding
          \/ stack[i - 1].op = "index" /\ stack[i].op = "growing"
          \/ stack[i - 1].op \in {"get", "rem"} /\ stack[i].op \in {"check", "rehash"}
          \/ stack[i - 1].op = "check" /\ i = 2 /\ stack[i].op \in Adding
          \/ /\ stack[i - 1].op = "add" /\ i = 3 /\ stack[1].op = "check"
             /\ stack[i].op \in {"check", "rehash"}

(* The three ways in which a frame turns into another keep the shape.      *)
LEMMA ShapeGoto ==
    ASSUME TypeOK, Shape, ~ Idle, NEW f \in Frame, Goto(f),
           \/ Top.op \in Adding /\ f.op \in Adding
           \/ Top.op = "check" /\ f.op = "rehash"
           \/ Top.op = "rem" /\ f.op = "looping"
    PROVE  Shape'
<1>1. stack \in Seq(Frame) /\ Top = stack[Depth]
  BY DEF TypeOK, Top
<1>2. /\ Depth' = Depth /\ Depth \in Nat \ {0} /\ stack'[Depth] = f
      /\ \A i \in 1 .. Depth - 1 : stack'[i] = stack[i]
  BY <1>1, Gone DEF Top
<1> QED BY <1>1, <1>2 DEF Shape, Adding, Lists

(* So does taking off a frame.                                             *)
LEMMA ShapeReturn ==
    ASSUME TypeOK, Shape, ~ Idle, Return
    PROVE  Shape'
<1>1. /\ Depth' = Depth - 1 /\ Depth \in Nat \ {0}
      /\ \A i \in 1 .. Depth - 1 : stack'[i] = stack[i]
  BY Returned DEF TypeOK
<1> QED BY <1>1 DEF Shape

(* So do the two ways to put one on.                                       *)
LEMMA ShapeCall ==
    ASSUME TypeOK, Shape, ~ Idle, NEW f \in Frame, NEW g \in Frame, Call(f, g),
           \/ Top.op \in Lists /\ g.op = Top.op /\ f.op = "add"
           \/ Top.op = "array" /\ g.op = "index" /\ f.op = "growing"
    PROVE  Shape'
<1>1. stack \in Seq(Frame) /\ Top = stack[Depth]
  BY DEF TypeOK, Top
<1>2. /\ Depth' = Depth + 1 /\ Depth \in Nat \ {0} /\ stack'[Depth + 1] = f /\ stack'[Depth] = g
      /\ \A i \in 1 .. Depth - 1 : stack'[i] = stack[i]
  BY <1>1, Called DEF Top
<1>3. \A i \in 1 .. Depth - 1 : stack'[i].op = stack[i].op
  BY <1>2
<1>4. CASE Top.op \in Lists /\ g.op = Top.op /\ f.op = "add"
  <2>1. \A i \in 1 .. Depth : stack'[i].op = stack[i].op
    BY <1>1, <1>2, <1>3, <1>4
  <2>2. stack'[Depth].op \in Lists /\ stack'[Depth + 1].op \in Adding
    BY <1>1, <1>2, <1>4 DEF Adding
  <2> QED BY <1>2, <2>1, <2>2 DEF Shape
<1>5. CASE Top.op = "array" /\ g.op = "index" /\ f.op = "growing"
  <2>1. stack[1].op # "array" /\ (Depth > 1 => Depth \in 2 .. Depth)
    BY <1>2 DEF Shape
  <2>2. Depth # 1 /\ stack'[1].op = stack[1].op
    BY <1>1, <1>2, <1>3, <1>5, <2>1
  <2>3. \/ stack[Depth - 1].op \in Lists
        \/ stack[Depth - 1].op = "check" /\ Depth = 2
    BY <1>1, <1>2, <1>5, <2>1, <2>2 DEF Shape, Adding
  <2>4. stack'[Depth - 1].op = stack[Depth - 1].op
    BY <1>2, <1>3, <2>2
  <2>5. \A i \in 2 .. Depth - 1 : stack'[i].op = stack[i].op /\ stack'[i - 1].op = stack[i - 1].op
    BY <1>2, <1>3
  <2>6. stack'[Depth].op = "index" /\ stack'[Depth + 1].op = "growing"
    BY <1>2, <1>5
  <2>7. \A i \in 2 .. Depth' : i \in 2 .. Depth - 1 \/ i = Depth \/ i = Depth + 1
    BY <1>2
  <2> QED BY <1>2, <2>2, <2>3, <2>4, <2>5, <2>6, <2>7 DEF Shape, Adding
<1> QED BY <1>4, <1>5

(* Every step keeps the shape.                                             *)
LEMMA ShapeStep ==
    ASSUME TypeOK, Shape, [Next]_vars
    PROVE  Shape'
<1>1. CASE Ask
  BY <1>1 DEF Ask, Shape, Depth, Adding
<1>2. CASE Check
  BY <1>2, CheckDoes, ShapeGoto, ShapeReturn DEF ListFrame
<1>3. CASE AddNext
  BY <1>3, AddNextDoes, ShapeCall DEF AddFrame, ListFrame
<1>4. CASE EndRehash \/ EndGrow \/ Push \/ GetHash \/ ClrHash
  BY <1>4, ShapeReturn DEF EndRehash, EndGrow, Push, GetHash, ClrHash, At
<1>5. CASE Add
  BY <1>5, AddDoes, ShapeGoto DEF AddFrame, Adding
<1>6. CASE Grow
  BY <1>6, GrowDoes, ShapeCall DEF AddFrame, ListFrame
<1>7. CASE Search
  BY <1>7, SearchDoes, ShapeReturn, ShapeGoto DEF AddressFrame, Adding
<1>8. CASE ReadAddress
  BY <1>8, ReadAddressDoes, ShapeGoto DEF PushFrame, Adding
<1>9. CASE RemHash
  BY <1>9, RemHashDoes, ShapeReturn, ShapeGoto
<1>10. CASE UNCHANGED stack
  BY <1>10 DEF Shape, Depth
<1> QED BY <1>1, <1>2, <1>3, <1>4, <1>5, <1>6, <1>7, <1>8, <1>9, <1>10
        DEF Next, Step, Loop, Collect, vars
(***************************************************************************)
(* Where entries and frames come from.                                     *)
(***************************************************************************)
(* A return never uncovers an entry that is half made.                     *)
LEMMA Uncovered ==
    ASSUME TypeOK, Shape, ~ Idle, Return
    PROVE  Idle' \/ Top'.op \in Lists \cup {"index", "get", "rem", "check", "add"}
<1>1. /\ Depth' = Depth - 1 /\ Depth \in Nat \ {0} /\ (Idle' <=> Depth = 1)
      /\ \A i \in 1 .. Depth - 1 : stack'[i] = stack[i]
  BY Returned DEF TypeOK
<1>2. CASE Depth = 1
  BY <1>1, <1>2
<1>3. CASE Depth # 1
  <2>1. Depth \in 2 .. Depth /\ Depth - 1 \in 1 .. Depth - 1
    BY <1>1, <1>3
  <2>2. stack[Depth - 1].op \in Lists \cup {"index", "get", "rem", "check", "add"}
    BY <2>1 DEF Shape
  <2> QED BY <1>1, <2>1, <2>2 DEF Top
<1> QED BY <1>2, <1>3

(* What can have been done when a frame is on top of the stack.            *)
LEMMA TopFrom ==
    ASSUME TypeOK, Shape, [Next]_vars, ~ Idle'
    PROVE  \/ stack' = stack
           \/ Return /\ ~ Idle /\ Top'.op \in Lists \cup {"index", "get", "rem", "check", "add"}
           \/ Ask /\ Top'.op \in {"check", "clear"}
           \/ Check /\ Top'.op = "rehash"
           \/ AddNext /\ Top'.op = "add"
           \/ Add /\ Top'.op \in {"array", "index"}
           \/ Grow /\ Top'.op = "growing"
           \/ /\ Search /\ Top' = AddressFrame(Top.key, Top.val, Index(Top.key))
              /\ \A j \in 1 .. Len(table[Index(Top.key)]) : table[Index(Top.key)][j].key # Top.key
           \/ ReadAddress /\ Top' = PushFrame(Top.key, Top.val, Top.index, addr[Top.key])
           \/ RemHash /\ Top'.op = "looping"
<1>0. stack \in Seq(Frame)
  BY DEF TypeOK
<1>1. CASE Ask
  <2>1. Top'.op \in {"check", "clear"}
    <3>1. PICK k \in Keys :
             \/ stack' = <<[op |-> "get", key |-> k], [op |-> "check"]>>
             \/ stack' = <<[op |-> "rem", key |-> k], [op |-> "check"]>>
             \/ \E v \in Values :
                   stack' = <<[op |-> "check"], [op |-> "add", key |-> k, val |-> v], [op |-> "check"]>>
             \/ stack' = <<[op |-> "clear"]>>
      BY <1>1 DEF Ask
    <3>2. CASE stack' = <<[op |-> "get", key |-> k], [op |-> "check"]>>
      BY <3>2 DEF Top, Depth
    <3>3. CASE stack' = <<[op |-> "rem", key |-> k], [op |-> "check"]>>
      BY <3>3 DEF Top, Depth
    <3>4. ASSUME NEW v \in Values,
                 stack' = <<[op |-> "check"], [op |-> "add", key |-> k, val |-> v], [op |-> "check"]>>
          PROVE  Top'.op = "check"
      BY <3>4 DEF Top, Depth
    <3>5. CASE stack' = <<[op |-> "clear"]>>
      BY <3>5 DEF Top, Depth
    <3> QED BY <3>1, <3>2, <3>3, <3>4, <3>5
  <2> QED BY <1>1, <2>1
<1>2. CASE Check
  BY <1>0, <1>2, CheckDoes, Gone, Uncovered DEF ListFrame
<1>3. CASE AddNext
  BY <1>0, <1>3, AddNextDoes, Called DEF AddFrame
<1>4. CASE EndRehash \/ EndGrow \/ Push \/ GetHash \/ ClrHash
  BY <1>4, Uncovered DEF EndRehash, EndGrow, Push, GetHash, ClrHash, At
<1>5. CASE Add
  BY <1>0, <1>5, AddDoes, Gone DEF AddFrame
<1>6. CASE Grow
  BY <1>0, <1>6, GrowDoes, Called DEF ListFrame
<1>7. CASE Search
  BY <1>0, <1>7, SearchDoes, Gone, Uncovered
<1>8. CASE ReadAddress
  BY <1>0, <1>8, ReadAddressDoes, Gone
<1>9. CASE RemHash
  BY <1>0, <1>9, RemHashDoes, Gone, Uncovered
<1>10. CASE UNCHANGED stack
  BY <1>10
<1> QED BY <1>1, <1>2, <1>3, <1>4, <1>5, <1>6, <1>7, <1>8, <1>9, <1>10
        DEF Next, Step, Loop, Collect, vars

(* An entry was there, with another value perhaps, or has just been made.  *)
LEMMA EntriesFrom ==
    ASSUME TypeOK, [Next]_vars, NEW i \in DOMAIN table', NEW j \in DOMAIN table'[i]
    PROVE  /\ size' = size /\ i \in DOMAIN table
           /\ \/ \E n \in DOMAIN table[i] : /\ table[i][n].key = table'[i][j].key
                                           /\ table[i][n].stored = table'[i][j].stored
              \/ Push /\ i = Top.index /\ table'[i][j] = Made(Top)
<1>1. CASE UNCHANGED <<table, size>>
  BY <1>1
<1>2. CASE Check
  <2>1. CASE StartRehash
    <3>1. i \in DOMAIN table /\ size' = size /\ table'[i] = IF i \in StaleBuckets THEN <<>> ELSE table[i]
      BY <2>1 DEF StartRehash
    <3>2. table'[i] # <<>>
      OBVIOUS
    <3> QED BY <3>1, <3>2
  <2> QED BY <1>1, <1>2, <2>1, CheckDoes
<1>3. CASE Grow
  <2>1. table'[i] = <<>>
    BY <1>3 DEF Grow
  <2> QED BY <2>1
<1>4. CASE ClrHash
  <2>1. table'[i] = <<>>
    BY <1>4 DEF ClrHash
  <2> QED BY <2>1
<1>5. CASE Search
  <2>1. CASE table' = table
    BY <1>5, <2>1 DEF Search
  <2>2. ASSUME NEW b \in DOMAIN table, NEW n \in 1 .. Len(table[b]),
               table' = [table EXCEPT ![b] = [table[b] EXCEPT ![n] = [table[b][n] EXCEPT !.val = Top.val]]]
        PROVE  i \in DOMAIN table /\ j \in DOMAIN table[i] /\ table[i][j].key = table'[i][j].key
               /\ table[i][j].stored = table'[i][j].stored
    <3>1. i \in DOMAIN table /\ table[b] \in Seq(Entry) /\ table[b][n] \in Entry
      BY <2>2, TableHas
    <3>2. CASE i = b
      <4>1. table'[i] = [table[b] EXCEPT ![n] = [table[b][n] EXCEPT !.val = Top.val]]
        BY <2>2, <3>1, <3>2
      <4>2. j \in DOMAIN table[i]
        BY <3>2, <4>1
      <4> QED BY <3>1, <3>2, <4>1, <4>2 DEF Entry
    <3>3. CASE i # b
      BY <2>2, <3>1, <3>3
    <3> QED BY <3>1, <3>2, <3>3
  <2> QED BY <1>5, <2>1, <2>2, SearchDoes DEF Search
<1>6. CASE Push
  <2>1. i \in DOMAIN table /\ table[i] \in Seq(Entry) /\ DOMAIN table[i] = 1 .. Len(table[i])
    BY <1>6, PushDoes, TableHas
  <2>2. CASE i = Top.index
    <3>1. table'[i] = <<Made(Top)>> \o table[i] /\ Made(Top) \in Entry
      BY <1>6, <2>1, <2>2, PushDoes
    <3>2. j \in 1 .. Len(table[i]) + 1
      BY <2>1, <3>1, PutInFront
    <3>3. CASE j = 1
      BY <1>6, <2>1, <2>2, <3>1, <3>3, PutInFront DEF Push
    <3>4. CASE j # 1
      <4>1. j - 1 \in 1 .. Len(table[i]) /\ j = (j - 1) + 1
        BY <3>2, <3>4, TableHas
      <4>2. table'[i][j] = table[i][j - 1]
        BY <2>1, <3>1, <4>1, PutInFront
      <4> QED BY <1>6, <2>1, <4>1, <4>2 DEF Push
    <3> QED BY <3>3, <3>4
  <2>3. CASE i # Top.index
    <3>1. table'[i] = table[i]
      BY <1>6, <2>1, <2>3, PushDoes
    <3> QED BY <1>6, <2>1, <3>1 DEF Push
  <2> QED BY <2>2, <2>3
<1>7. CASE RemHash
  <2>1. CASE table' = table
    BY <1>7, <2>1 DEF RemHash
  <2>2. ASSUME NEW b \in DOMAIN table, NEW n \in 1 .. Len(table[b]),
               table' = [table EXCEPT ![b] = RemoveAt(table[b], n)]
        PROVE  i \in DOMAIN table /\ \E m \in DOMAIN table[i] : table[i][m] = table'[i][j]
    <3>1. i \in DOMAIN table /\ table[b] \in Seq(Entry) /\ Len(table[b]) \in Nat
      BY <2>2, TableHas
    <3>2. CASE i = b
      <4>1. table'[i] = RemoveAt(table[b], n)
        BY <2>2, <3>1, <3>2
      <4>2. j \in 1 .. Len(table[b]) - 1
        BY <3>1, <4>1, RemoveAtIs
      <4>3. table'[i][j] = IF j < n THEN table[b][j] ELSE table[b][j + 1]
        BY <3>1, <4>1, <4>2, RemoveAtIs
      <4>4. j \in DOMAIN table[i] /\ j + 1 \in DOMAIN table[i]
        BY <3>1, <3>2, <4>2
      <4> QED BY <3>1, <3>2, <4>3, <4>4
    <3>3. CASE i # b
      BY <2>2, <3>1, <3>3
    <3> QED BY <3>1, <3>2, <3>3
  <2> QED BY <1>7, <2>1, <2>2, RemHashDoes DEF RemHash
<1> QED BY <1>1, <1>2, <1>3, <1>4, <1>5, <1>6, <1>7
        DEF Next, Step, Ask, AddNext, EndRehash, Add, EndGrow, ReadAddress, GetHash, Loop, Collect, vars, heap

(* While an entry is made, nothing happens but the next step of its making *)
(* and collections.                                                        *)
LEMMA WhileMade ==
    ASSUME [Next]_vars
    PROVE  /\ At("address") => ReadAddress \/ (\E l \in Generations : Collect(l)) \/ UNCHANGED vars
           /\ At("push") => Push \/ (\E l \in Generations : Collect(l)) \/ UNCHANGED vars
BY DEF At, Next, Step, Ask, Check, AddNext, EndRehash, Add, Grow, EndGrow, Search, ReadAddress,
       Push, GetHash, RemHash, Loop, ClrHash, Lists

(* The top of the stack is an entry that is being made only if it was one, *)
(* or has just become one.                                                 *)
LEMMA MadeFrom ==
    ASSUME TypeOK, Shape, [Next]_vars
    PROVE  /\ At("address")' =>
                 \/ At("address") /\ stack' = stack
                    /\ (UNCHANGED vars \/ \E l \in Generations : Collect(l))
                 \/ /\ Search /\ Top' = AddressFrame(Top.key, Top.val, Index(Top.key))
                    /\ \A j \in 1 .. Len(table[Index(Top.key)]) : table[Index(Top.key)][j].key # Top.key
           /\ At("push")' =>
                 \/ At("push") /\ stack' = stack
                    /\ (UNCHANGED vars \/ \E l \in Generations : Collect(l))
                 \/ ReadAddress /\ Top' = PushFrame(Top.key, Top.val, Top.index, addr[Top.key])
<1>1. ASSUME ReadAddress
      PROVE  Top'.op = "push" /\ Top.op = "address"
  BY <1>1, ReadAddressDoes, Gone DEF PushFrame, TypeOK
<1>2. ASSUME Push
      PROVE  stack' # stack
  BY <1>2, PushDoes, Returned DEF TypeOK, Depth
<1>3. ASSUME stack' = stack
      PROVE  At("address")' = At("address") /\ At("push")' = At("push") /\ (~ Idle => Top' = Top)
  BY <1>3 DEF At, Top, Depth, Idle
<1>4. ASSUME ~ Idle', stack' # stack
      PROVE  /\ Top'.op = "address" =>
                   /\ Search /\ Top' = AddressFrame(Top.key, Top.val, Index(Top.key))
                   /\ \A j \in 1 .. Len(table[Index(Top.key)]) : table[Index(Top.key)][j].key # Top.key
             /\ Top'.op = "push" =>
                   ReadAddress /\ Top' = PushFrame(Top.key, Top.val, Top.index, addr[Top.key])
  BY <1>4, TopFrom DEF Lists, AddressFrame, PushFrame
<1>5. CASE stack' = stack
  BY <1>1, <1>2, <1>3, <1>5, WhileMade DEF At
<1>6. CASE stack' # stack
  BY <1>4, <1>6 DEF At
<1> QED BY <1>5, <1>6
(***************************************************************************)
(* Entries are where the addresses they remember hash to.                  *)
(***************************************************************************)
(* An address is read after the bucket is chosen: a collection that moves  *)
(* the key between the two is at point "address", or of another thread.    *)
PlacedInv ==
    /\ \A i \in DOMAIN table : \A j \in DOMAIN table[i] : table[i][j].stored % size = i
    /\ At("address") => Top.index = Index(Top.key)
    /\ At("push") => Top.index = Top.stored % size

(* Every step keeps entries where they were put, unless the collector      *)
(* moves a key between its index and its address.                          *)
LEMMA PlacedStep ==
    ASSUME TypeOK, Shape, PlacedInv, [Next]_vars, {"other", "address"} \cap GCPoints = {}
    PROVE  PlacedInv'
<1>1. ASSUME NEW l \in Generations, Collect(l), At("address")
      PROVE  Top' = Top /\ Index(Top.key)' = Index(Top.key)
  <2>1. Top.key \notin Moves(l)
    BY <1>1 DEF Collect, GCPoint, At
  <2>2. Top.key \in Keys
    BY <1>1, TopHas, FrameHas DEF At, Adding
  <2>3. addr'[Top.key] = addr[Top.key]
    BY <1>1, <2>1, <2>2 DEF Collect
  <2>4. Top' = Top /\ size' = size
    BY <1>1 DEF Collect, Top, Depth
  <2> QED BY <2>3, <2>4 DEF Index
<1>2. ASSUME NEW i \in DOMAIN table', NEW j \in DOMAIN table'[i]
      PROVE  table'[i][j].stored % size' = i
  <2>1. CASE Push /\ i = Top.index /\ table'[i][j] = Made(Top)
    BY <2>1 DEF Push, PlacedInv, Made
  <2>2. ASSUME i \in DOMAIN table, NEW n \in DOMAIN table[i], table[i][n].stored = table'[i][j].stored,
               size' = size
        PROVE  table'[i][j].stored % size' = i
    BY <2>2 DEF PlacedInv
  <2> QED BY <2>1, <2>2, EntriesFrom
<1>3. At("address")' => (Top.index = Index(Top.key))'
  <2>1. CASE Search /\ Top' = AddressFrame(Top.key, Top.val, Index(Top.key))
    BY <2>1 DEF Search, AddressFrame, Index, heap
  <2>2. CASE At("address") /\ stack' = stack /\ UNCHANGED vars
    BY <2>2 DEF vars, PlacedInv, Index, Top, Depth
  <2>3. CASE At("address") /\ \E l \in Generations : Collect(l)
    BY <1>1, <2>3 DEF PlacedInv
  <2> QED BY <2>1, <2>2, <2>3, MadeFrom
<1>4. At("push")' => (Top.index = Top.stored % size)'
  <2>1. CASE ReadAddress /\ Top' = PushFrame(Top.key, Top.val, Top.index, addr[Top.key])
    BY <2>1 DEF ReadAddress, PlacedInv, PushFrame, Index
  <2>2. CASE At("push") /\ stack' = stack /\ size' = size
    BY <2>2 DEF PlacedInv, Top, Depth
  <2> QED BY <2>1, <2>2, MadeFrom DEF Collect, vars
<1> QED BY <1>2, <1>3, <1>4 DEF PlacedInv
(***************************************************************************)
(* The newest generation.                                                  *)
(***************************************************************************)
(* No key of the table is in a newer generation than the table says, and   *)
(* the generations that were collected are the lowest ones.                *)
NewestInv ==
    /\ \A g, h \in Generations : g \in moved /\ h <= g => h \in moved
    /\ \A i \in DOMAIN table : \A j \in DOMAIN table[i] : newest <= gen[table[i][j].key]
    /\ At("address") \/ At("push") => newest <= gen[Top.key]

(* A collection makes no key younger, and leaves the table as it is.       *)
LEMMA CollectAges ==
    ASSUME TypeOK, NEW l \in Generations, Collect(l)
    PROVE  /\ \A k \in Keys : gen[k] \in 0 .. 2 /\ gen'[k] \in 0 .. 2 /\ gen[k] <= gen'[k]
           /\ UNCHANGED <<table, size, count, newest, stack, answer>>
           /\ moved' = moved \cup 0 .. l
<1>1. gen \in [Keys -> 0 .. 2] /\ l \in 0 .. 2
  BY DEF TypeOK, Generations
<1>2. gen' = [k \in Keys |-> IF k \notin Moves(l) THEN gen[k] ELSE IF l = 0 THEN 1 ELSE 2]
  BY DEF Collect
<1>3. \A k \in Keys : k \in Moves(l) => gen[k] <= l
  BY DEF Moves
<1> QED BY <1>1, <1>2, <1>3 DEF Collect

(* Every step keeps the newest generation right, whenever keys move.       *)
LEMMA NewestStep ==
    ASSUME TypeOK, Shape, NewestInv, [Next]_vars
    PROVE  NewestInv'
<1>0. newest \in 0 .. 3 /\ gen \in [Keys -> 0 .. 2]
  BY DEF TypeOK, Generations
<1>1. CASE \E l \in Generations : Collect(l)
  <2>1. PICK l \in Generations : Collect(l)
    BY <1>1
  <2>2. \A i \in DOMAIN table : \A j \in DOMAIN table[i] : table[i][j].key \in Keys
    BY TableHas DEF Entry
  <2>3. \A k \in Keys : newest <= gen[k] => newest <= gen'[k]
    BY <1>0, <2>1, CollectAges
  <2>4. At("address") \/ At("push") => Top.key \in Keys
    BY TopHas, FrameHas DEF At, Adding
  <2>5. \A g, h \in Generations : g \in moved' /\ h <= g => h \in moved'
    BY <2>1, CollectAges DEF NewestInv, Generations
  <2>6. UNCHANGED <<table, newest, stack>>
    BY <2>1, CollectAges
  <2>7. \A i \in DOMAIN table' : \A j \in DOMAIN table'[i] : newest' <= gen'[table'[i][j].key]
    BY <2>2, <2>3, <2>6 DEF NewestInv
  <2>8. (At("address") \/ At("push"))' => newest' <= (gen[Top.key])'
    BY <2>3, <2>4, <2>6 DEF NewestInv, At, Top, Depth, Idle
  <2> QED BY <2>5, <2>7, <2>8 DEF NewestInv
<1>2. ASSUME ~ \E l \in Generations : Collect(l)
      PROVE  NewestInv'
  <2>1. gen' = gen /\ (moved' = moved \/ moved' = {})
    BY <1>2 DEF Next, Step, Ask, Check, StartRehash, AddNext, EndRehash, Add, Grow, EndGrow, Search,
                ReadAddress, Push, GetHash, RemHash, Loop, ClrHash, vars, heap
  <2>2. \A g, h \in Generations : g \in moved' /\ h <= g => h \in moved'
    BY <2>1 DEF NewestInv
  <2>3. CASE Check /\ StartRehash
    <3>1. ASSUME NEW i \in DOMAIN table', NEW j \in DOMAIN table'[i]
          PROVE  newest' <= gen'[table'[i][j].key]
      <4>1. i \in DOMAIN table /\ i \notin StaleBuckets /\ table'[i] = table[i]
        BY <2>3 DEF StartRehash
      <4>2. table[i][j].key \in Scanned(i)
        BY <4>1, TableHas DEF Scanned
      <4>3. \A n \in DOMAIN table : Scanned(n) \subseteq Keys
        <5> TAKE n \in DOMAIN table
        <5>1. \A m \in 1 .. Len(table[n]) : table[n][m].key \in Keys
          BY TableHas DEF Entry
        <5>2. Scanned(n) \subseteq {table[n][m].key : m \in 1 .. Len(table[n])}
          BY FirstStaleIs, TableHas DEF Scanned
        <5> QED BY <5>1, <5>2
      <4>4. UNION {Scanned(n) : n \in DOMAIN table} \in SUBSET Keys
        BY <4>3
      <4>5. newest' = Newest(UNION {Scanned(n) : n \in DOMAIN table})
        BY <2>3 DEF StartRehash
      <4> HIDE DEF Scanned
      <4> QED BY <2>1, <4>1, <4>2, <4>4, <4>5, NewestIs
    <3>2. ~ (At("address") \/ At("push"))'
      <4>1. Goto(ListFrame("rehash", FlattenSeq(GivenUp))) /\ ~ Idle
        BY <2>3 DEF StartRehash, ListFrame, Check, At
      <4>2. ListFrame("rehash", FlattenSeq(GivenUp)) \in Frame /\ stack \in Seq(Frame)
        BY <2>3, CheckDoes DEF TypeOK
      <4>3. Top'.op = "rehash"
        BY <4>1, <4>2, Gone DEF ListFrame
      <4> QED BY <4>3 DEF At
    <3> QED BY <2>2, <3>1, <3>2 DEF NewestInv
  <2>4. CASE Search
    <3>1. newest' = Minimum(newest, gen[Top.key]) /\ gen[Top.key] \in 0 .. 2 /\ newest' <= newest
          /\ newest' <= gen[Top.key] /\ newest' \in 0 .. 3
      BY <1>0, <2>4, SearchDoes DEF Search, Minimum
    <3>2. ASSUME NEW i \in DOMAIN table', NEW j \in DOMAIN table'[i]
          PROVE  newest' <= gen'[table'[i][j].key]
      <4>1. ~ Push
        BY <2>4 DEF Push, Search, At
      <4>2. PICK n \in DOMAIN table[i] : i \in DOMAIN table /\ table[i][n].key = table'[i][j].key
        BY <4>1, EntriesFrom
      <4>3. table[i][n].key \in Keys
        BY <4>2, TableHas DEF Entry
      <4>4. gen[table[i][n].key] \in 0 .. 2 /\ newest <= gen[table[i][n].key]
        BY <1>0, <4>2, <4>3 DEF NewestInv
      <4> QED BY <1>0, <2>1, <3>1, <4>2, <4>4
    <3>3. (At("address") \/ At("push"))' => newest' <= (gen[Top.key])'
      <4>1. ~ (UNCHANGED vars) \/ Top'.op # "address"
        BY <2>4, SearchDoes DEF vars, Top, Depth
      <4>2. Search /\ ~ At("address") /\ ~ At("push") /\ ~ ReadAddress
        BY <2>4 DEF Search, At, ReadAddress
      <4>3. (At("address") \/ At("push"))' => Top'.key = Top.key
        BY <4>2, MadeFrom DEF AddressFrame
      <4> QED BY <2>1, <3>1, <4>3
    <3> QED BY <2>2, <3>2, <3>3 DEF NewestInv
  <2>5. CASE UNCHANGED newest /\ ~ Search
    <3>1. ASSUME NEW i \in DOMAIN table', NEW j \in DOMAIN table'[i]
          PROVE  newest' <= gen'[table'[i][j].key]
      <4>1. CASE Push /\ i = Top.index /\ table'[i][j] = Made(Top)
        BY <2>1, <2>5, <4>1 DEF Push, NewestInv, Made
      <4>2. ASSUME i \in DOMAIN table, NEW n \in DOMAIN table[i], table[i][n].key = table'[i][j].key
            PROVE  newest' <= gen'[table'[i][j].key]
        BY <2>1, <2>5, <4>2 DEF NewestInv
      <4> QED BY <4>1, <4>2, EntriesFrom
    <3>2. (At("address") \/ At("push"))' => newest' <= (gen[Top.key])'
      <4>1. CASE ReadAddress /\ Top' = PushFrame(Top.key, Top.val, Top.index, addr[Top.key])
        BY <2>1, <2>5, <4>1 DEF ReadAddress, NewestInv, PushFrame
      <4>2. CASE (At("address") \/ At("push")) /\ stack' = stack
        BY <2>1, <2>5, <4>2 DEF NewestInv, Top, Depth
      <4> QED BY <2>5, <4>1, <4>2, MadeFrom
    <3> QED BY <2>2, <3>1, <3>2 DEF NewestInv
  <2> QED BY <1>2, <2>3, <2>4, <2>5 DEF Next, Step, Ask, Check, AddNext, EndRehash, Add, Grow, EndGrow,
             ReadAddress, Push, GetHash, RemHash, Loop, ClrHash, vars, heap, At
<1> QED BY <1>1, <1>2
(***************************************************************************)
(* No stale entry is forgotten.                                            *)
(***************************************************************************)
(* Every entry remembers the address that its key has, also one that is    *)
(* about to be put into the table.                                         *)
Fresh ==
    /\ \A i \in DOMAIN table : \A j \in DOMAIN table[i] : ~ Stale(table[i][j])
    /\ At("push") => Top.stored = addr[Top.key]

(* Either that is so, or the table knows that it has to be rehashed and no *)
(* rehash is under way that would clear the mark.                          *)
KnownInv == (NeedRehash /\ ~ Within("rehash")) \/ Fresh

(* A rehash is in progress only if it was, or starts.                      *)
LEMMA WithinFrom ==
    ASSUME TypeOK, [Next]_vars, Within("rehash")'
    PROVE  Within("rehash") \/ (Check /\ StartRehash)
<1>0. stack \in Seq(Frame)
  BY DEF TypeOK
<1>1. ASSUME NEW f, Goto(f), f.op # "rehash"
      PROVE  Within("rehash")
  BY <1>0, <1>1 DEF Goto, Within
<1>2. ASSUME ~ Idle, Return
      PROVE  Within("rehash")
  <2>1. PICK i \in DOMAIN stack' : stack'[i].op = "rehash"
    BY DEF Within
  <2>2. DOMAIN stack' = 1 .. Depth - 1 /\ DOMAIN stack = 1 .. Depth
    BY <1>0, <1>2, Returned DEF Depth
  <2>3. i \in DOMAIN stack /\ stack[i].op = "rehash"
    BY <1>0, <1>2, <2>1, <2>2, Returned
  <2> QED BY <2>3 DEF Within
<1>3. ASSUME ~ Idle, NEW f \in Frame, NEW g \in Frame, Call(f, g), f.op # "rehash",
             g.op = "rehash" => Top.op = "rehash"
      PROVE  Within("rehash")
  <2>1. PICK i \in DOMAIN stack' : stack'[i].op = "rehash"
    BY DEF Within
  <2>2. /\ stack' \in Seq(Frame) /\ Len(stack') = Depth + 1 /\ stack'[Depth + 1] = f /\ stack'[Depth] = g
        /\ \A n \in 1 .. Depth - 1 : stack'[n] = stack[n]
        /\ Depth \in Nat \ {0} /\ DOMAIN stack = 1 .. Depth
    BY <1>0, <1>3, Called DEF Depth, Top
  <2>3. i \in 1 .. Depth
    BY <1>3, <2>1, <2>2
  <2>4. stack[i].op = "rehash"
    BY <1>3, <2>1, <2>2, <2>3 DEF Top
  <2> QED BY <2>2, <2>3, <2>4 DEF Within
<1>4. CASE Ask
  BY <1>4 DEF Ask, Within
<1>5. CASE Check
  BY <1>2, <1>5, CheckDoes
<1>6. CASE AddNext
  BY <1>3, <1>6, AddNextDoes DEF AddFrame, ListFrame
<1>7. CASE EndRehash \/ EndGrow \/ Push \/ GetHash \/ ClrHash
  BY <1>2, <1>7 DEF EndRehash, EndGrow, Push, GetHash, ClrHash, At
<1>8. CASE Add
  BY <1>1, <1>8, AddDoes DEF AddFrame
<1>9. CASE Grow
  BY <1>3, <1>9, GrowDoes DEF AddFrame, ListFrame
<1>10. CASE Search
  BY <1>1, <1>2, <1>10, SearchDoes DEF AddressFrame
<1>11. CASE ReadAddress
  BY <1>1, <1>11, ReadAddressDoes DEF PushFrame
<1>12. CASE RemHash
  BY <1>1, <1>2, <1>12, RemHashDoes
<1>13. CASE UNCHANGED stack
  BY <1>13 DEF Within
<1> QED BY <1>4, <1>5, <1>6, <1>7, <1>8, <1>9, <1>10, <1>11, <1>12, <1>13
        DEF Next, Step, Loop, Collect, vars

(* As long as nothing is collected during a rehash, a table whose entries  *)
(* are not fresh knows it: a collection leaves its mark or its level.  An  *)
(* entry of a rehash may also be at point "address".                       *)
LEMMA KnownStep ==
    ASSUME TypeOK, Shape, NewestInv, KnownInv, [Next]_vars,
           {"other", "address", "rehash"} \cap GCPoints = {}
    PROVE  KnownInv'
<1>0. newest \in 0 .. 3 /\ moved \subseteq 0 .. 2 /\ gen \in [Keys -> 0 .. 2]
  BY DEF TypeOK, Generations
<1>1. CASE \E l \in Generations : Collect(l)
  <2>1. PICK l \in Generations : Collect(l)
    BY <1>1
  <2>2. ~ Within("rehash")
    <3>1. Within("rehash") => GCPoint(l) \subseteq {"other", "address", "rehash"}
      BY DEF GCPoint, Idle, Within
    <3> QED BY <2>1, <3>1 DEF Collect
  <2>3. UNCHANGED <<table, stack, newest>> /\ moved' = moved \cup 0 .. l
    BY <2>1, CollectAges
  <2>4. ~ Within("rehash")'
    BY <2>2, <2>3 DEF Within
  <2>5. CASE NeedRehash
    <3>1. NeedRehash'
      BY <2>1, <2>3, <2>5 DEF NeedRehash, Collect
    <3> QED BY <2>4, <3>1 DEF KnownInv
  <2>6. ASSUME NEW k \in Keys, k \in Moves(l), newest <= gen[k]
        PROVE  NeedRehash'
    <3>1. newest \in 0 .. l
      BY <1>0, <2>6 DEF Moves, Generations
    <3> QED BY <2>3, <3>1 DEF NeedRehash
  <2>7. CASE Fresh /\ ~ NeedRehash'
    <3>1. \A k \in Keys : newest <= gen[k] => addr'[k] = addr[k]
      BY <2>1, <2>6, <2>7 DEF Collect
    <3>2. ASSUME NEW i \in DOMAIN table', NEW j \in DOMAIN table'[i]
          PROVE  ~ Stale(table[i][j])'
      <4>1. table[i][j].key \in Keys /\ newest <= gen[table[i][j].key] /\ ~ Stale(table[i][j])
        BY <2>3, <2>7, TableHas DEF Entry, NewestInv, Fresh
      <4> QED BY <2>3, <3>1, <4>1 DEF Stale
    <3>3. At("push")' => (Top.stored = addr[Top.key])'
      <4>1. At("push")' = At("push") /\ (~ Idle => Top' = Top)
        BY <2>3 DEF At, Top, Depth, Idle
      <4>2. At("push") => Top.key \in Keys /\ newest <= gen[Top.key] /\ Top.stored = addr[Top.key]
        BY <2>7, TopHas, FrameHas DEF At, Adding, NewestInv, Fresh
      <4> QED BY <3>1, <4>1, <4>2 DEF At
    <3> QED BY <2>3, <3>2, <3>3 DEF Fresh, KnownInv
  <2> QED BY <2>2, <2>4, <2>5, <2>7 DEF KnownInv
<1>2. ASSUME ~ \E l \in Generations : Collect(l)
      PROVE  KnownInv'
  <2>1. addr' = addr /\ gen' = gen
    BY <1>2 DEF Next, Step, Ask, Check, StartRehash, AddNext, EndRehash, Add, Grow, EndGrow, Search,
                ReadAddress, Push, GetHash, RemHash, Loop, ClrHash, vars, heap
  <2>2. CASE Check /\ StartRehash
    <3>1. ASSUME NEW i \in DOMAIN table', NEW j \in DOMAIN table'[i]
          PROVE  ~ Stale(table[i][j])'
      <4>1. i \in DOMAIN table /\ i \notin StaleBuckets /\ table'[i] = table[i]
        BY <2>2 DEF StartRehash
      <4>2. j \in 1 .. Len(table[i]) /\ FirstStale(i) = 0
        BY <4>1, TableHas DEF StaleBuckets
      <4>3. ~ Stale(table[i][j])
        BY <4>1, <4>2, FirstStaleIs
      <4> QED BY <2>1, <4>1, <4>3 DEF Stale
    <3>2. ~ At("push")'
      <4>1. ~ ReadAddress /\ ~ At("push")
        BY <2>2 DEF Check, ReadAddress, At
      <4> QED BY <4>1, MadeFrom
    <3> QED BY <3>1, <3>2 DEF Fresh, KnownInv
  <2>3. CASE Fresh /\ ~ (Check /\ StartRehash)
    <3>1. ASSUME NEW i \in DOMAIN table', NEW j \in DOMAIN table'[i]
          PROVE  ~ Stale(table[i][j])'
      <4>1. CASE Push /\ table'[i][j] = Made(Top)
        BY <2>1, <2>3, <4>1 DEF Push, Fresh, Made, Stale
      <4>2. ASSUME i \in DOMAIN table, NEW n \in DOMAIN table[i], table[i][n].key = table'[i][j].key,
                   table[i][n].stored = table'[i][j].stored
            PROVE  ~ Stale(table[i][j])'
        BY <2>1, <2>3, <4>2 DEF Fresh, Stale
      <4> QED BY <4>1, <4>2, EntriesFrom
    <3>2. At("push")' => (Top.stored = addr[Top.key])'
      <4>1. CASE ReadAddress /\ Top' = PushFrame(Top.key, Top.val, Top.index, addr[Top.key])
        BY <2>1, <4>1 DEF PushFrame
      <4>2. CASE At("push") /\ stack' = stack
        BY <2>1, <2>3, <4>2 DEF Fresh, Top, Depth
      <4> QED BY <4>1, <4>2, MadeFrom
    <3> QED BY <3>1, <3>2 DEF Fresh, KnownInv
  <2>4. CASE NeedRehash /\ ~ Within("rehash") /\ ~ (Check /\ StartRehash)
    <3>1. ~ Within("rehash")'
      BY <2>4, WithinFrom
    <3>2. ~ EndRehash
      <4>1. EndRehash => Within("rehash")
        BY TopHas DEF EndRehash, At, Within, Top, Depth, TypeOK
      <4> QED BY <2>4, <4>1
    <3>3. needed' = needed /\ moved' = moved
      BY <1>2, <2>4, <3>2 DEF Next, Step, Ask, Check, AddNext, Add, Grow, EndGrow, Search,
                ReadAddress, Push, GetHash, RemHash, Loop, ClrHash, vars, heap
    <3>4. CASE newest' = newest
      BY <2>4, <3>1, <3>3, <3>4 DEF NeedRehash, KnownInv
    <3>5. CASE Search
      <4>1. newest' \in 0 .. 2 /\ newest' <= newest
        BY <1>0, <3>5, SearchDoes DEF Search, Minimum
      <4>2. newest \in moved => newest' \in moved
        BY <1>0, <4>1 DEF NewestInv, Generations
      <4>3. NeedRehash'
        BY <2>4, <3>3, <4>2 DEF NeedRehash
      <4> QED BY <3>1, <4>3 DEF KnownInv
    <3> QED BY <1>2, <2>4, <3>2, <3>4, <3>5 DEF Next, Step, Ask, Check, AddNext, Add, Grow, EndGrow,
               ReadAddress, Push, GetHash, RemHash, Loop, ClrHash, vars, heap
  <2> QED BY <2>2, <2>3, <2>4 DEF KnownInv
<1> QED BY <1>1, <1>2
(***************************************************************************)
(* The count.                                                              *)
(***************************************************************************)
(* Fewer entries, and none about to be made.                               *)
LEMMA CountShrinks ==
    ASSUME CountInv, count \in Nat, InTable' \subseteq InTable, count' = count,
           (At("address") \/ At("push"))' => At("address") \/ At("push")
    PROVE  CountInv'
<1>1. IsFiniteSet(InTable) /\ IsFiniteSet(InTable') /\ Cardinality(InTable') <= Cardinality(InTable)
  BY FS_Subset DEF CountInv
<1>2. Cardinality(InTable) \in Nat /\ Cardinality(InTable') \in Nat
  BY <1>1, FS_CardinalityType
<1>3. count' = count
  OBVIOUS
<1>4. CASE (At("address") \/ At("push"))'
  <2>1. Cardinality(InTable) + 1 <= count
    BY <1>4 DEF CountInv
  <2>2. Cardinality(InTable') + 1 <= count'
    BY <1>1, <1>2, <1>3, <2>1 DEF CountInv
  <2> QED BY <1>1, <1>4, <2>2 DEF CountInv
<1>5. CASE ~ (At("address") \/ At("push"))'
  <2>1. Cardinality(InTable) <= count
    BY <1>2 DEF CountInv
  <2>2. Cardinality(InTable') <= count'
    BY <1>1, <1>2, <1>3, <2>1 DEF CountInv
  <2> QED BY <1>1, <1>2, <1>5, <2>2 DEF CountInv
<1> QED BY <1>4, <1>5

(* The places after a step, when the types still hold.                     *)
LEMMA InTableNext ==
    ASSUME TypeOK', NEW p \in InTable'
    PROVE  p \in Nat \X Nat /\ p[1] \in DOMAIN table' /\ p[2] \in 1 .. Len(table'[p[1]])
<1>1. PICK i \in DOMAIN table' : \E j \in DOMAIN table'[i] : p = <<i, j>>
  BY DEF InTable
<1>2. table' \in [0 .. size' - 1 -> Seq(Entry)]
  BY DEF TypeOK
<1>3. i \in Nat /\ table'[i] \in Seq(Entry) /\ DOMAIN table'[i] = 1 .. Len(table'[i])
  BY <1>2
<1>4. PICK j \in 1 .. Len(table'[i]) : p = <<i, j>>
  BY <1>1, <1>3
<1> QED BY <1>3, <1>4

(* Every step counts an entry before it is made and after it is removed.   *)
LEMMA CountStep ==
    ASSUME TypeOK, TypeOK', Shape, CountInv, [Next]_vars
    PROVE  CountInv'
<1>0. Cardinality(InTable) \in Nat /\ IsFiniteSet(InTable) /\ count \in Nat /\ stack \in Seq(Frame)
  BY FS_CardinalityType DEF CountInv, TypeOK
<1>1. (At("address") \/ At("push"))' => At("address") \/ At("push") \/ Search
  BY MadeFrom DEF ReadAddress
<1>2. ~ Search /\ UNCHANGED <<table, count>> => CountInv'
  BY <1>0, <1>1, CountShrinks DEF InTable
<1>3. CASE Check /\ StartRehash
  <2>1. InTable' \subseteq InTable
    <3> SUFFICES ASSUME NEW i \in DOMAIN table', NEW j \in DOMAIN table'[i]
                 PROVE  i \in DOMAIN table /\ j \in DOMAIN table[i]
      BY DEF InTable
    <3> QED BY <1>3 DEF StartRehash
  <2>2. ~ Search
    BY <1>3 DEF Check, Search, At
  <2> QED BY <1>0, <1>1, <1>3, <2>1, <2>2, CountShrinks DEF StartRehash
<1>4. CASE Grow \/ ClrHash
  <2>1. InTable' = {}
    <3>1. \A i \in DOMAIN table' : table'[i] = <<>>
      BY <1>4 DEF Grow, ClrHash
    <3>2. DOMAIN <<>> = {}
      OBVIOUS
    <3> QED BY <3>1, <3>2 DEF InTable
  <2>2. ~ (At("address") \/ At("push"))'
    BY <1>1, <1>4 DEF Grow, ClrHash, Search, At
  <2> QED BY <1>4, <2>1, <2>2, FS_EmptySet DEF CountInv, Grow, ClrHash
<1>5. CASE Search
  <2>1. CASE table' = table /\ count' = count + 1
    <3>1. InTable' = InTable
      BY <2>1 DEF InTable
    <3>2. ~ At("address") /\ ~ At("push")
      BY <1>5 DEF Search, At
    <3>3. Cardinality(InTable) <= count
      BY <1>0, <3>2 DEF CountInv
    <3> QED BY <1>0, <2>1, <3>1, <3>3 DEF CountInv
  <2>2. ASSUME count' = count, Return, NEW b \in DOMAIN table, NEW n \in 1 .. Len(table[b]), NEW e,
               table' = [table EXCEPT ![b] = [table[b] EXCEPT ![n] = e]]
        PROVE  CountInv'
    <3>1. InTable' = InTable
      <4>1. DOMAIN table' = DOMAIN table /\ \A i \in DOMAIN table : DOMAIN table'[i] = DOMAIN table[i]
        BY <2>2
      <4> QED BY <4>1 DEF InTable
    <3>2. ~ (At("address") \/ At("push"))'
      BY <1>5, <2>2, SearchDoes, Uncovered DEF Lists, At
    <3> QED BY <1>0, <2>2, <3>1, <3>2, CountShrinks
  <2> QED BY ZenonT(40), <1>5, <2>1, <2>2, SearchDoes
<1>6. CASE Push
  <2>1. ~ (At("address") \/ At("push"))'
    BY <1>6, PushDoes, Uncovered DEF Lists, At
  <2>2. Cardinality(InTable) + 1 <= count /\ count' = count
    BY <1>6 DEF Push, CountInv
  <2>3. IsFiniteSet(InTable') /\ Cardinality(InTable') <= Cardinality(InTable) + 1
    <3>1. CASE Top.index \in DOMAIN table
      <4> DEFINE q == <<Top.index, Len(table[Top.index]) + 1>>
      <4>1. /\ DOMAIN table' = DOMAIN table
            /\ table'[Top.index] = <<Made(Top)>> \o table[Top.index]
            /\ \A i \in DOMAIN table : i # Top.index => table'[i] = table[i]
        BY <1>6, <3>1, PushDoes
      <4>2. table[Top.index] \in Seq(Entry) /\ Len(table[Top.index]) \in Nat
        BY <3>1, TableHas
      <4>3. Len(table'[Top.index]) = Len(table[Top.index]) + 1
        BY <1>6, <4>1, <4>2, PutInFront, PushDoes
      <4>4. \A p \in InTable' : p \in InTable \/ p = q
        <5> SUFFICES ASSUME NEW p \in InTable'
                     PROVE  p \in InTable \/ p = q
          OBVIOUS
        <5>1. p \in Nat \X Nat /\ p[1] \in DOMAIN table' /\ p[2] \in 1 .. Len(table'[p[1]])
          BY InTableNext
        <5>2. CASE p[1] = Top.index
          BY <4>2, <4>3, <5>1, <5>2, <3>1, InTableIs
        <5>3. CASE p[1] # Top.index
          BY <4>1, <5>1, <5>3, InTableIs
        <5> QED BY <5>2, <5>3
      <4>5. q \notin InTable
        BY <4>2, InTableIs
      <4>6. /\ IsFiniteSet(InTable \cup {q})
            /\ Cardinality(InTable \cup {q}) = Cardinality(InTable) + 1
        BY <1>0, <4>5, FS_AddElement
      <4>7. InTable' \subseteq InTable \cup {q}
        BY <4>4
      <4> HIDE DEF q
      <4> QED BY <4>6, <4>7, FS_Subset
    <3>2. CASE Top.index \notin DOMAIN table
      <4>1. table' = table
        <5>1. DOMAIN table' = DOMAIN table /\ \A i \in DOMAIN table : table'[i] = table[i]
          BY <1>6, <3>2, PushDoes
        <5>2. table \in [DOMAIN table -> Seq(Entry)] /\ table' \in [DOMAIN table' -> Seq(Entry)]
          BY DEF TypeOK
        <5> QED BY <5>1, <5>2
      <4>2. InTable' = InTable
        BY <4>1 DEF InTable
      <4> QED BY <1>0, <4>2
    <3> QED BY <3>1, <3>2
  <2> QED BY <1>0, <2>1, <2>2, <2>3, FS_CardinalityType DEF CountInv
<1>7. CASE RemHash
  <2>1. CASE UNCHANGED <<table, count>>
    BY <1>2, <1>7, <2>1 DEF RemHash, Search, At
  <2>2. ASSUME Return, count' = count - 1, NEW b \in DOMAIN table, NEW n \in 1 .. Len(table[b]),
               table' = [table EXCEPT ![b] = RemoveAt(table[b], n)]
        PROVE  CountInv'
    <3> DEFINE q == <<b, Len(table[b])>>
    <3>1. ~ (At("address") \/ At("push"))' /\ ~ At("address") /\ ~ At("push")
      BY <1>7, <2>2, RemHashDoes, Uncovered DEF Lists, At
    <3>2. table[b] \in Seq(Entry) /\ Len(table[b]) \in Nat
      BY <2>2, TableHas
    <3>3. Len(table'[b]) = Len(table[b]) - 1 /\ \A i \in DOMAIN table : i # b => table'[i] = table[i]
      BY <2>2, <3>2, RemoveAtIs
    <3>4. \A p \in InTable' : p \in InTable /\ p # q
      <4> SUFFICES ASSUME NEW p \in InTable'
                   PROVE  p \in InTable /\ p # q
        OBVIOUS
      <4>1. p \in Nat \X Nat /\ p[1] \in DOMAIN table' /\ p[2] \in 1 .. Len(table'[p[1]])
        BY InTableNext
      <4>2. p[1] \in DOMAIN table
        BY <2>2, <4>1
      <4>3. CASE p[1] = b
        BY <3>2, <3>3, <4>1, <4>2, <4>3, InTableIs
      <4>4. CASE p[1] # b
        BY <3>3, <4>1, <4>2, <4>4, InTableIs
      <4> QED BY <4>3, <4>4
    <3>5. q \in InTable
      BY <3>2, InTableIs, TableHas
    <3>6. /\ IsFiniteSet(InTable \ {q})
          /\ Cardinality(InTable \ {q}) = Cardinality(InTable) - 1
      BY <1>0, <3>5, FS_RemoveElement
    <3>7. InTable' \subseteq InTable \ {q}
      BY <3>4
    <3> HIDE DEF q
    <3>8. IsFiniteSet(InTable') /\ Cardinality(InTable') <= Cardinality(InTable) - 1
      BY <3>6, <3>7, FS_Subset
    <3>9. Cardinality(InTable) <= count
      BY <1>0, <3>1 DEF CountInv
    <3> QED BY <1>0, <2>2, <3>1, <3>8, <3>9, FS_CardinalityType DEF CountInv
  <2> QED BY <1>7, <2>1, <2>2, RemHashDoes
<1> QED BY <1>2, <1>3, <1>4, <1>5, <1>6, <1>7
        DEF Next, Step, Ask, Check, AddNext, EndRehash, Add, EndGrow, ReadAddress, GetHash, Loop,
            Collect, vars, heap, At, Search, Lists
(***************************************************************************)
(* The theorems about staleness and the count.                             *)
(***************************************************************************)
(* What every behaviour keeps, whenever the collector runs.                *)
TableInv == TypeOK /\ Shape /\ CountInv /\ NewestInv

(* The invariants at the start.                                            *)
LEMMA TableInit == Init => TableInv /\ PlacedInv /\ KnownInv
<1> SUFFICES ASSUME Init
             PROVE  TableInv /\ PlacedInv /\ KnownInv
  OBVIOUS
<1>1. TypeOK
  BY TypeInit
<1>2. stack = <<>> /\ Depth = 0 /\ Idle
  BY DEF Init, Depth, Idle
<1>3. \A i \in DOMAIN table : table[i] = <<>> /\ DOMAIN table[i] = {}
  BY DEF Init
<1>4. InTable = {} /\ count = 0
  BY <1>3 DEF InTable, Init
<1>5. CountInv
  BY <1>2, <1>4, FS_EmptySet DEF CountInv, At
<1>6. NewestInv /\ PlacedInv /\ Fresh
  BY <1>2, <1>3 DEF NewestInv, PlacedInv, Fresh, At, Init
<1> QED BY <1>1, <1>2, <1>5, <1>6 DEF TableInv, KnownInv, Shape

(* The invariant that needs nothing of the collector.                      *)
LEMMA TableStep == TableInv /\ [Next]_vars => TableInv'
BY TypeStep, ShapeStep, CountStep, NewestStep DEF TableInv

(* Every variable keeps its type.                                          *)
THEOREM TableTyped == Spec => []TypeOK
<1>1. TableInv => TypeOK
  BY DEF TableInv
<1> QED BY <1>1, TableInit, TableStep, PTL DEF Spec

(* However often the table is cleared, rehashed or made larger, and        *)
(* whatever is collected meanwhile, it never has more entries than it      *)
(* counts: it grows before it is overfull.                                 *)
THEOREM EntriesCounted == Spec => []CountCovers
<1>1. TableInv => CountCovers
  <2> SUFFICES ASSUME TableInv
               PROVE  CountCovers
    OBVIOUS
  <2>1. Cardinality(InTable) \in Nat /\ count \in Nat
    BY FS_CardinalityType DEF TableInv, CountInv, TypeOK
  <2> QED BY <2>1 DEF TableInv, CountInv, CountCovers
<1> QED BY <1>1, TableInit, TableStep, PTL DEF Spec

(* As long as no other thread collects in the middle of an operation, and  *)
(* no collection moves the key of an entry between the taking of its index *)
(* and the reading of its address, an entry that is out of place does not  *)
(* remember the address of its key.                                        *)
THEOREM MisplacedIsStale ==
    ASSUME {"other", "address"} \cap GCPoints = {}
    PROVE  Spec => []StaleRecognized
<1>1. TypeOK /\ PlacedInv => StaleRecognized
  <2> SUFFICES ASSUME TypeOK, PlacedInv, NEW p \in Misplaced
               PROVE  Stale(table[p[1]][p[2]])
    BY DEF StaleRecognized
  <2>1. p[1] \in DOMAIN table /\ p[2] \in DOMAIN table[p[1]]
    BY InTableIs, TableHas DEF Misplaced
  <2> QED BY <2>1 DEF Misplaced, PlacedInv, Stale, Index
<1>2. TableInv /\ PlacedInv /\ [Next]_vars => PlacedInv'
  BY PlacedStep DEF TableInv
<1>3. TableInv => TypeOK
  BY DEF TableInv
<1> QED BY <1>1, <1>2, <1>3, TableInit, TableStep, PTL DEF Spec

(* As long as nothing is collected during a rehash either, no operation    *)
(* finds the table with an entry out of place and unaware of it: of the    *)
(* marks that a collection leaves on the table and the generations that    *)
(* were collected, one tells.                                              *)
THEOREM StaleNeverForgotten ==
    ASSUME {"other", "address", "rehash"} \cap GCPoints = {}
    PROVE  Spec => []StaleKnown
<1>1. TypeOK /\ PlacedInv /\ KnownInv => StaleKnown
  <2> SUFFICES ASSUME TypeOK, PlacedInv, KnownInv, ~ NeedRehash, NEW p \in Misplaced
               PROVE  FALSE
    BY DEF StaleKnown
  <2>1. p[1] \in DOMAIN table /\ p[2] \in DOMAIN table[p[1]]
    BY InTableIs, TableHas DEF Misplaced
  <2>2. ~ Stale(table[p[1]][p[2]])
    BY <2>1 DEF KnownInv, Fresh
  <2> QED BY <2>1, <2>2 DEF Misplaced, PlacedInv, Stale, Index
<1>2. TableInv /\ PlacedInv /\ [Next]_vars => PlacedInv'
  BY PlacedStep DEF TableInv
<1>3. TableInv /\ KnownInv /\ [Next]_vars => KnownInv'
  BY KnownStep DEF TableInv
<1>4. TableInv => TypeOK
  BY DEF TableInv
<1> QED BY <1>1, <1>2, <1>3, <1>4, TableInit, TableStep, PTL DEF Spec
(***************************************************************************)
(* The request in progress.                                                *)
(***************************************************************************)
LEMMA OwnIs ==
    ASSUME TypeOK, Shape
    PROVE  Own = IF Idle THEN {}
                 ELSE IF stack[1].op \in {"get", "rem", "looping", "clear"} THEN {1}
                 ELSE IF stack[1].op = "check" /\ Depth >= 2 THEN {2}
                 ELSE {}
<1>1. DOMAIN stack = 1 .. Depth /\ Depth \in Nat /\ (Idle <=> Depth = 0)
  BY EmptySeq DEF TypeOK, Depth, Idle
<1>2. \A i \in Own : i \in {1, 2}
  BY <1>1 DEF Own, Borrowed, Shape, Lists, Adding
<1>3. 1 \in Own <=> ~ Idle /\ stack[1].op \in {"get", "rem", "looping", "clear"}
  BY <1>1 DEF Own, Borrowed, Shape, Lists, Adding
<1>4. 2 \in Own <=> ~ Idle /\ stack[1].op = "check" /\ Depth >= 2
  BY <1>1 DEF Own, Borrowed, Shape, Lists, Adding
<1> QED BY <1>2, <1>3, <1>4

(* What the request is, by the lowest frames of the stack.                 *)
RequestNow ==
    /\ Idle => Request = [op |-> "none"]
    /\ ~ Idle /\ (stack[1].op = "rehash" \/ (stack[1].op = "check" /\ Depth < 2)) =>
          Request = [op |-> "none"]
    /\ ~ Idle /\ stack[1].op \in {"get", "clear"} => Request = stack[1]
    /\ ~ Idle /\ stack[1].op \in {"rem", "looping"} => Request = [op |-> "rem", key |-> stack[1].key]
    /\ ~ Idle /\ stack[1].op = "check" /\ Depth >= 2 =>
          /\ stack[2].op \in Adding
          /\ Request = [op |-> "set", key |-> stack[2].key, val |-> stack[2].val]

(* The lowest frames tell the request.                                     *)
LEMMA RequestIs == TypeOK /\ Shape => RequestNow
<1> SUFFICES ASSUME TypeOK, Shape
             PROVE  RequestNow
  OBVIOUS
<1>1. Depth \in Nat
  BY DEF TypeOK, Depth
<1>2. Own = {1} => Request = RequestOf(stack[1])
  BY DEF Request
<1>3. Own = {2} => Request = RequestOf(stack[2])
  BY DEF Request
<1>4. Own = {} => Request = [op |-> "none"]
  BY DEF Request
<1>5. ~ Idle /\ stack[1].op = "check" /\ Depth >= 2 => stack[2].op \in Adding
  BY <1>1 DEF Shape, Lists
<1>6. ~ Idle /\ stack[1].op = "check" /\ Depth >= 2 => Own = {2}
  BY OwnIs
<1>7. \A f : f.op \in Adding => RequestOf(f) = [op |-> "set", key |-> f.key, val |-> f.val]
  BY DEF RequestOf, Adding
<1>8. ~ Idle /\ stack[1].op \in {"get", "rem", "looping", "clear"} => Request = RequestOf(stack[1])
  BY <1>2, OwnIs
<1>9. \A f : f.op \in {"get", "clear"} => RequestOf(f) = f
  BY DEF RequestOf
<1>10. \A f : f.op \in {"rem", "looping"} => RequestOf(f) = [op |-> "rem", key |-> f.key]
  BY DEF RequestOf
<1>11. Idle => Own = {}
  BY OwnIs
<1>12. ~ Idle /\ (stack[1].op = "rehash" \/ (stack[1].op = "check" /\ Depth < 2)) => Own = {}
  BY <1>1, OwnIs
<1> QED BY <1>3, <1>4, <1>5, <1>6, <1>7, <1>8, <1>9, <1>10, <1>11, <1>12 DEF RequestNow

(* A step that keeps the lowest frames, or their keys and values at least, *)
(* keeps the request.                                                      *)
LEMMA RequestKept ==
    ASSUME TypeOK, Shape, TypeOK', Shape', ~ Idle, ~ Idle', stack'[1].op = stack[1].op,
           stack[1].op \in {"get", "rem", "looping", "clear"} => stack'[1] = stack[1],
           stack[1].op = "check" => /\ Depth' >= 2 <=> Depth >= 2
                                    /\ Depth >= 2 => /\ stack'[2].key = stack[2].key
                                                     /\ stack'[2].val = stack[2].val
    PROVE  Request' = Request
<1>1. Depth \in Nat /\ Depth' \in Nat
  BY DEF TypeOK, Depth
<1>2. stack[1].op \in {"get", "rem", "looping", "clear", "check", "rehash"}
  BY <1>1 DEF Shape, Idle, Depth, TypeOK
<1>3. RequestNow /\ RequestNow'
  <2>1. (TypeOK /\ Shape => RequestNow)'
    BY RequestIs, PTL
  <2> QED BY <2>1, RequestIs
<1>4. CASE stack[1].op \in {"get", "clear"}
  BY <1>3, <1>4 DEF RequestNow
<1>5. CASE stack[1].op \in {"rem", "looping"}
  BY <1>3, <1>5 DEF RequestNow
<1>6. CASE stack[1].op = "rehash" \/ (stack[1].op = "check" /\ Depth < 2)
  BY <1>1, <1>3, <1>6 DEF RequestNow
<1>7. CASE stack[1].op = "check" /\ Depth >= 2
  BY <1>1, <1>3, <1>7 DEF RequestNow
<1> QED BY <1>1, <1>2, <1>4, <1>5, <1>6, <1>7
(***************************************************************************)
(* The places of the entries.                                              *)
(***************************************************************************)
PlacesNow ==
    \A p : p \in Places <=>
        \/ \E i \in DOMAIN table : \E j \in DOMAIN table[i] : p = <<"table", i, j>>
        \/ \E i \in DOMAIN stack : stack[i].op \in Lists /\ \E j \in DOMAIN stack[i].list : p = <<"list", i, j>>
        \/ \E i \in DOMAIN stack : /\ i > 1 /\ stack[i - 1].op \in Lists /\ stack[i].op \in Adding
                                   /\ p = <<"held", i, 0>>

(* The places of the map, spelled out.                                     *)
LEMMA PlacesAre == PlacesNow
<1> SUFFICES ASSUME NEW p
             PROVE  p \in Places <=>
        \/ \E i \in DOMAIN table : \E j \in DOMAIN table[i] : p = <<"table", i, j>>
        \/ \E i \in DOMAIN stack : stack[i].op \in Lists /\ \E j \in DOMAIN stack[i].list : p = <<"list", i, j>>
        \/ \E i \in DOMAIN stack : /\ i > 1 /\ stack[i - 1].op \in Lists /\ stack[i].op \in Adding
                                   /\ p = <<"held", i, 0>>
  BY DEF PlacesNow
<1> DEFINE T == {<<"table", q[1], q[2]>> : q \in InTable}
           L == UNION {{<<"list", i, j>> : j \in DOMAIN stack[i].list} : i \in Listing}
           H == {<<"held", i, 0>> : i \in {n \in DOMAIN stack : Borrowed(n) /\ stack[n].op \in Adding}}
<1>1. Places = T \cup L \cup H
  BY DEF Places
<1>2. p \in T <=> \E i \in DOMAIN table : \E j \in DOMAIN table[i] : p = <<"table", i, j>>
  <2>1. \A q : q \in InTable <=> \E i \in DOMAIN table : \E j \in DOMAIN table[i] : q = <<i, j>>
    BY DEF InTable
  <2>2. \A q : q \in InTable => q = <<q[1], q[2]>> /\ q[1] \in DOMAIN table /\ q[2] \in DOMAIN table[q[1]]
    BY <2>1
  <2>3. ASSUME NEW i \in DOMAIN table, NEW j \in DOMAIN table[i], p = <<"table", i, j>>
        PROVE  p \in T
    <3>1. <<i, j>> \in InTable /\ <<i, j>>[1] = i /\ <<i, j>>[2] = j
      BY <2>1
    <3> QED BY <2>3, <3>1
  <2> QED BY <2>2, <2>3
<1>3. p \in L <=> \E i \in DOMAIN stack : /\ stack[i].op \in Lists
                                           /\ \E j \in DOMAIN stack[i].list : p = <<"list", i, j>>
  BY DEF Listing
<1>4. p \in H <=> \E i \in DOMAIN stack : /\ i > 1 /\ stack[i - 1].op \in Lists /\ stack[i].op \in Adding
                                          /\ p = <<"held", i, 0>>
  BY DEF Borrowed
<1> QED BY <1>1, <1>2, <1>3, <1>4

(* No key has two places, so the contents are a function of the keys.      *)
Distinct == \A p, q \in Places : ItemAt(p).key = ItemAt(q).key => p = q

(* A step after which every item was at another place before, and all      *)
(* places are accounted for, keeps the contents and doubles no key.        *)
LEMMA Rearranged ==
    ASSUME Distinct, NEW m,
           \A p \in Places' : /\ m[p] \in Places
                              /\ ItemAt(m[p]).key = ItemAt(p)'.key /\ ItemAt(m[p]).val = ItemAt(p)'.val,
           \A p \in Places : \E q \in Places' : m[q] = p,
           \A p, q \in Places' : m[p] = m[q] => p = q
    PROVE  Contents' = Contents /\ Distinct'
<1>1. Contents' \subseteq Contents
  BY DEF Contents
<1>2. Contents \subseteq Contents'
  BY DEF Contents
<1>3. Distinct'
  BY DEF Distinct
<1> QED BY <1>1, <1>2, <1>3

(* The places stay, and what is there keeps its key and its value.         *)
LEMMA Untouched ==
    ASSUME Distinct, Places' = Places,
           \A p \in Places : ItemAt(p)'.key = ItemAt(p).key /\ ItemAt(p)'.val = ItemAt(p).val
    PROVE  Contents' = Contents /\ Distinct'
BY DEF Contents, Distinct

(* A step that changes neither table nor stack keeps the contents.         *)
LEMMA CollectKeeps ==
    ASSUME Distinct, UNCHANGED <<table, stack>>
    PROVE  Contents' = Contents /\ Distinct'
BY DEF Contents, Distinct, Places, InTable, Listing, Borrowed, ItemAt

(* So does a frame that turns into another with the same key and value.    *)
LEMMA GotoKeeps ==
    ASSUME TypeOK, Distinct, ~ Idle, NEW f \in Frame, Goto(f), UNCHANGED table,
           \/ Top.op \in Adding /\ f.op \in Adding /\ f.key = Top.key /\ f.val = Top.val
           \/ Top.op \notin Adding \cup Lists /\ f.op \notin Adding \cup Lists
    PROVE  Contents' = Contents /\ Distinct'
<1>1. /\ stack \in Seq(Frame) /\ stack' \in Seq(Frame) /\ Len(stack') = Len(stack)
      /\ Depth \in Nat \ {0} /\ Depth = Len(stack)
      /\ stack'[Depth] = f /\ stack[Depth] = Top /\ \A i \in 1 .. Depth - 1 : stack'[i] = stack[i]
  BY Gone DEF TypeOK, Depth, Top
<1>2. DOMAIN stack' = DOMAIN stack /\ DOMAIN stack = 1 .. Depth
  BY <1>1
<1>3. \A i \in DOMAIN stack : /\ stack'[i].op \in Lists <=> stack[i].op \in Lists
                              /\ stack[i].op \in Lists => stack'[i] = stack[i]
                              /\ stack'[i].op \in Adding <=> stack[i].op \in Adding
                              /\ stack[i].op \in Adding => /\ stack'[i].key = stack[i].key
                                                          /\ stack'[i].val = stack[i].val
  BY <1>1, <1>2 DEF Lists, Adding
<1>4. \A i \in DOMAIN stack : i > 1 => i - 1 \in DOMAIN stack
  BY <1>1, <1>2
<1> HIDE DEF Adding, Lists
<1>5. Places' = Places
  BY <1>2, <1>3, <1>4 DEF Places, InTable, Listing, Borrowed
<1>6. ASSUME NEW p \in Places
      PROVE  ItemAt(p)'.key = ItemAt(p).key /\ ItemAt(p)'.val = ItemAt(p).val
  BY <1>2, <1>3, PlacesAre DEF PlacesNow, ItemAt
<1> QED BY <1>5, <1>6, Untouched

(* So does the end of a frame that holds no entry and has no list left.    *)
LEMMA ReturnKeeps ==
    ASSUME TypeOK, Distinct, ~ Idle, Return, UNCHANGED table, Top.op \notin Adding,
           Top.op \in Lists => Top.list = <<>>
    PROVE  Contents' = Contents /\ Distinct'
<1>1. /\ stack \in Seq(Frame) /\ stack' \in Seq(Frame) /\ Len(stack') = Depth - 1
      /\ Depth \in Nat \ {0} /\ Depth = Len(stack)
      /\ stack[Depth] = Top /\ \A i \in 1 .. Depth - 1 : stack'[i] = stack[i]
  BY Returned DEF TypeOK, Depth, Top
<1>2. DOMAIN stack' = 1 .. Depth - 1 /\ DOMAIN stack = 1 .. Depth
  BY <1>1
<1>3. PlacesNow /\ PlacesNow'
  BY PlacesAre, PTL
<1>4. ASSUME NEW p \in Places'
      PROVE  p \in Places
  BY <1>1, <1>2, <1>3 DEF PlacesNow
<1>5. ASSUME NEW p \in Places
      PROVE  p \in Places'
  <2>1. DOMAIN <<>> = {}
    OBVIOUS
  <2>2. CASE \E i \in DOMAIN table : \E j \in DOMAIN table[i] : p = <<"table", i, j>>
    BY <1>3, <2>2 DEF PlacesNow
  <2>3. CASE \E i \in DOMAIN stack : stack[i].op \in Lists /\ \E j \in DOMAIN stack[i].list : p = <<"list", i, j>>
    <3>1. PICK i \in DOMAIN stack : stack[i].op \in Lists /\ \E j \in DOMAIN stack[i].list : p = <<"list", i, j>>
      BY <2>3
    <3>2. i \in 1 .. Depth - 1
      BY <1>1, <1>2, <2>1, <3>1
    <3> QED BY <1>1, <1>2, <1>3, <3>1, <3>2 DEF PlacesNow
  <2>4. CASE \E i \in DOMAIN stack : /\ i > 1 /\ stack[i - 1].op \in Lists /\ stack[i].op \in Adding
                                     /\ p = <<"held", i, 0>>
    <3>1. PICK i \in DOMAIN stack : /\ i > 1 /\ stack[i - 1].op \in Lists /\ stack[i].op \in Adding
                                    /\ p = <<"held", i, 0>>
      BY <2>4
    <3>2. i \in 1 .. Depth - 1 /\ i - 1 \in 1 .. Depth - 1
      BY <1>1, <1>2, <3>1
    <3> QED BY <1>1, <1>2, <1>3, <3>1, <3>2 DEF PlacesNow
  <2> QED BY <1>3, <2>2, <2>3, <2>4 DEF PlacesNow
<1>6. ASSUME NEW p \in Places'
      PROVE  ItemAt(p)' = ItemAt(p)
  BY SMTT(30), <1>1, <1>2, <1>3 DEF PlacesNow, ItemAt
<1> QED BY <1>4, <1>5, <1>6, Untouched

(* The frames below position d keep their lists, keys and values.          *)
SameBelow(d) ==
    \A i \in 1 .. d - 1 :
        /\ i \in DOMAIN stack
        /\ stack'[i].op \in Lists <=> stack[i].op \in Lists
        /\ stack[i].op \in Lists => stack'[i] = stack[i]
        /\ stack'[i].op \in Adding <=> stack[i].op \in Adding
        /\ stack[i].op \in Adding => stack'[i].key = stack[i].key /\ stack'[i].val = stack[i].val

(* The entries of the buckets B go to a list of n entries at position d: a *)
(* gives each of them the place it was taken from.                         *)
Listed(d, B, n, a) ==
    /\ B \subseteq DOMAIN table
    /\ DOMAIN stack' = 1 .. d /\ DOMAIN stack \subseteq 1 .. d /\ SameBelow(d)
    /\ stack'[d].op \in Lists /\ DOMAIN stack'[d].list = 1 .. n
    /\ d \in DOMAIN stack => stack[d].op \notin Adding \cup Lists
    /\ \A i \in DOMAIN table' : \/ table'[i] = <<>>
                                \/ i \in DOMAIN table \ B /\ table'[i] = table[i]
    /\ \A i \in DOMAIN table \ B : i \in DOMAIN table' /\ table'[i] = table[i]
    /\ \A k \in 1 .. n : /\ a[k][1] \in B /\ a[k][2] \in DOMAIN table[a[k][1]]
                         /\ stack'[d].list[k] = table[a[k][1]][a[k][2]]
    /\ \A i \in B : \A j \in DOMAIN table[i] : \E k \in 1 .. n : a[k][1] = i /\ a[k][2] = j
    /\ \A k, l \in 1 .. n : a[k][1] = a[l][1] /\ a[k][2] = a[l][2] => k = l

(* Entries that go from buckets to a list stay in the map.                 *)
LEMMA TableListed ==
    ASSUME Distinct, NEW d \in Nat \ {0}, NEW B, NEW n \in Nat, NEW a, Listed(d, B, n, a)
    PROVE  Contents' = Contents /\ Distinct'
<1> DEFINE m == [p \in Places' |-> IF p[1] = "list" /\ p[2] = d
                                   THEN <<"table", a[p[3]][1], a[p[3]][2]>> ELSE p]
<1> USE DEF Listed
<1>1. PlacesNow /\ PlacesNow'
  BY PlacesAre, PTL
<1>2. \A k : Lists \cap Adding = {} /\ DOMAIN <<>> = {}
  BY DEF Lists, Adding
<1> DEFINE Below(p) == \/ \E i \in 1 .. d - 1 : stack'[i].op \in Lists /\ \E j \in DOMAIN stack'[i].list : p = <<"list", i, j>>
                       \/ \E i \in 1 .. d - 1 : /\ i > 1 /\ stack'[i - 1].op \in Lists /\ stack'[i].op \in Adding
                                                /\ p = <<"held", i, 0>>
<1>3. ASSUME NEW p \in Places'
      PROVE  \/ \E i \in DOMAIN table \ B : /\ i \in DOMAIN table' /\ table'[i] = table[i]
                                            /\ \E j \in DOMAIN table[i] : p = <<"table", i, j>>
             \/ \E k \in 1 .. n : p = <<"list", d, k>>
             \/ Below(p)
  <2>1. CASE \E i \in DOMAIN table' : \E j \in DOMAIN table'[i] : p = <<"table", i, j>>
    BY <1>2, <2>1
  <2>2. CASE \E i \in DOMAIN stack' : stack'[i].op \in Lists /\ \E j \in DOMAIN stack'[i].list : p = <<"list", i, j>>
    BY <2>2
  <2>3. CASE \E i \in DOMAIN stack' : /\ i > 1 /\ stack'[i - 1].op \in Lists /\ stack'[i].op \in Adding
                                      /\ p = <<"held", i, 0>>
    BY <1>2, <2>3
  <2> QED BY <1>1, <2>1, <2>2, <2>3 DEF PlacesNow
<1>4. ASSUME NEW p, Below(p)
      PROVE  p \in Places /\ p \in Places' /\ p[1] # "table" /\ ~ (p[1] = "list" /\ p[2] = d)
             /\ ItemAt(p)'.key = ItemAt(p).key /\ ItemAt(p)'.val = ItemAt(p).val
  <2>1. CASE \E i \in 1 .. d - 1 : stack'[i].op \in Lists /\ \E j \in DOMAIN stack'[i].list : p = <<"list", i, j>>
    <3>1. PICK i \in 1 .. d - 1 : stack'[i].op \in Lists /\ \E j \in DOMAIN stack'[i].list : p = <<"list", i, j>>
      BY <2>1
    <3>2. i \in DOMAIN stack /\ i \in DOMAIN stack' /\ stack[i].op \in Lists /\ stack'[i] = stack[i] /\ i # d
      BY <3>1 DEF SameBelow
    <3> QED BY <1>1, <3>1, <3>2 DEF PlacesNow, ItemAt
  <2>2. CASE \E i \in 1 .. d - 1 : /\ i > 1 /\ stack'[i - 1].op \in Lists /\ stack'[i].op \in Adding
                                   /\ p = <<"held", i, 0>>
    <3>1. PICK i \in 1 .. d - 1 : /\ i > 1 /\ stack'[i - 1].op \in Lists /\ stack'[i].op \in Adding
                                  /\ p = <<"held", i, 0>>
      BY <2>2
    <3>2. /\ i \in DOMAIN stack /\ i \in DOMAIN stack' /\ stack[i].op \in Adding /\ stack[i - 1].op \in Lists
          /\ stack'[i].key = stack[i].key /\ stack'[i].val = stack[i].val
      BY <3>1 DEF SameBelow
    <3> QED BY <1>1, <3>1, <3>2 DEF PlacesNow, ItemAt
  <2> QED BY <1>4, <2>1, <2>2
<1>5. ASSUME NEW p \in Places'
      PROVE  /\ m[p] \in Places
             /\ ItemAt(m[p]).key = ItemAt(p)'.key /\ ItemAt(m[p]).val = ItemAt(p)'.val
  <2>1. CASE \E i \in DOMAIN table \ B : /\ i \in DOMAIN table' /\ table'[i] = table[i]
                                         /\ \E j \in DOMAIN table[i] : p = <<"table", i, j>>
    BY <1>1, <2>1 DEF PlacesNow, ItemAt
  <2>2. ASSUME NEW k \in 1 .. n, p = <<"list", d, k>>
        PROVE  /\ m[p] \in Places
               /\ ItemAt(m[p]).key = ItemAt(p)'.key /\ ItemAt(m[p]).val = ItemAt(p)'.val
    <3>1. m[p] = <<"table", a[k][1], a[k][2]>>
      BY <2>2
    <3>2. m[p] \in Places
      BY <1>1, <3>1 DEF PlacesNow
    <3>3. ItemAt(m[p]) = table[a[k][1]][a[k][2]] /\ ItemAt(p)' = stack'[d].list[k]
      BY <2>2, <3>1 DEF ItemAt
    <3> QED BY <3>2, <3>3
  <2>3. CASE Below(p)
    BY <1>4, <2>3
  <2> HIDE DEF m, Below
  <2> QED BY <1>3, <2>1, <2>2, <2>3
<1>6. ASSUME NEW p \in Places
      PROVE  \E q \in Places' : m[q] = p
  <2>1. ASSUME NEW i \in DOMAIN table, NEW j \in DOMAIN table[i], p = <<"table", i, j>>
        PROVE  \E q \in Places' : m[q] = p
    <3>1. CASE i \in B
      <4>1. PICK k \in 1 .. n : a[k][1] = i /\ a[k][2] = j
        BY <3>1
      <4>2. <<"list", d, k>> \in Places'
        BY <1>1 DEF PlacesNow
      <4>3. m[<<"list", d, k>>] = p
        BY <2>1, <4>1, <4>2
      <4> QED BY <4>2, <4>3
    <3>2. CASE i \notin B
      <4>1. p \in Places' /\ p[1] = "table"
        BY <1>1, <2>1, <3>2 DEF PlacesNow
      <4> QED BY <4>1
    <3> QED BY <3>1, <3>2
  <2>2. CASE \E i \in DOMAIN stack : stack[i].op \in Lists /\ \E j \in DOMAIN stack[i].list : p = <<"list", i, j>>
    <3>1. Below(p)
      BY <2>2 DEF SameBelow
    <3> QED BY <1>4, <3>1
  <2>3. CASE \E i \in DOMAIN stack : /\ i > 1 /\ stack[i - 1].op \in Lists /\ stack[i].op \in Adding
                                     /\ p = <<"held", i, 0>>
    <3>1. Below(p)
      BY <2>3 DEF SameBelow
    <3> QED BY <1>4, <3>1
  <2> HIDE DEF m, Below
  <2> QED BY <1>1, <2>1, <2>2, <2>3 DEF PlacesNow
<1>7. ASSUME NEW p \in Places', NEW q \in Places', m[p] = m[q]
      PROVE  p = q
  <2>1. \A r \in Places' : \/ /\ r[1] # "list" \/ r[2] # d
                              /\ m[r] = r
                              /\ r[1] = "table" => r[2] \notin B
                           \/ \E k \in 1 .. n : r = <<"list", d, k>> /\ m[r] = <<"table", a[k][1], a[k][2]>>
    <3> SUFFICES ASSUME NEW r \in Places'
                 PROVE  \/ /\ r[1] # "list" \/ r[2] # d
                           /\ m[r] = r
                           /\ r[1] = "table" => r[2] \notin B
                        \/ \E k \in 1 .. n : r = <<"list", d, k>> /\ m[r] = <<"table", a[k][1], a[k][2]>>
      OBVIOUS
    <3>1. CASE Below(r)
      BY <1>4, <3>1
    <3> HIDE DEF Below
    <3> QED BY <1>3, <3>1
  <2> HIDE DEF m
  <2> QED BY SMTT(30), <1>7, <2>1
<1> HIDE DEF m, Below, Listed
<1> QED BY <1>5, <1>6, <1>7, Rearranged

(* The buckets that a rehash gives up go to its list.                      *)
LEMMA RehashKeeps ==
    ASSUME TypeOK, Distinct, Check, StartRehash
    PROVE  Contents' = Contents /\ Distinct'
<1> DEFINE L == FlattenSeq(GivenUp)
           n == Len(L)
<1>1. /\ stack \in Seq(Frame) /\ ~ Idle /\ Top.op = "check" /\ ListFrame("rehash", L) \in Frame
      /\ Goto(ListFrame("rehash", L))
  BY CheckDoes DEF TypeOK, StartRehash, ListFrame
<1>2. /\ stack' \in Seq(Frame) /\ Len(stack') = Len(stack) /\ Depth = Len(stack) /\ Depth \in Nat \ {0}
      /\ stack'[Depth] = ListFrame("rehash", L) /\ stack[Depth] = Top
      /\ \A i \in 1 .. Depth - 1 : stack'[i] = stack[i]
  BY <1>1, Gone DEF Depth, Top
<1>3. PICK p : Arranges(p, L, GivenUp, size)
  BY BucketsType, FlattenSeqArranges
<1>4. L \in Seq(Entry) /\ n \in Nat /\ DOMAIN L = 1 .. n
  BY BucketsType, FlattenSeqArranges
<1> HIDE DEF L
<1> DEFINE a == [k \in 1 .. n |-> <<size - p[k][1], p[k][2]>>]
           B == StaleBuckets
<1>5. /\ DOMAIN table = 0 .. size - 1 /\ size \in Nat
      /\ \A i \in DOMAIN table : DOMAIN table[i] = 1 .. Len(table[i]) /\ Len(table[i]) \in Nat
  BY TableHas
<1>6. /\ B \in SUBSET DOMAIN table
      /\ \A i \in 1 .. size : GivenUp[i] = IF size - i \in B THEN table[size - i] ELSE <<>>
      /\ \A i \in DOMAIN table : FirstStale(i) # 0 <=> i \in B
  BY DEF GivenUp, StaleBuckets
<1> HIDE DEF B
<1>7. Len(<<>>) = 0
  OBVIOUS
<1>8. \A k \in 1 .. n : /\ p[k][1] \in 1 .. size /\ size - p[k][1] \in B
                        /\ p[k][2] \in DOMAIN table[size - p[k][1]]
                        /\ p[k] = <<p[k][1], p[k][2]>>
                        /\ L[k] = table[size - p[k][1]][p[k][2]]
  <2> TAKE k \in 1 .. n
  <2>1. p[k] \in PlacesIn(GivenUp, size) /\ L[k] = GivenUp[p[k][1]][p[k][2]]
    BY <1>3 DEF Arranges
  <2>2. p[k] \in Nat \X Nat /\ p[k][1] \in 1 .. size /\ p[k][2] \in 1 .. Len(GivenUp[p[k][1]])
    BY <2>1 DEF PlacesIn
  <2>3. size - p[k][1] \in B
    BY <1>6, <1>7, <2>2
  <2>4. GivenUp[p[k][1]] = table[size - p[k][1]]
    BY <1>6, <2>2, <2>3
  <2> QED BY <1>5, <1>6, <2>1, <2>2, <2>3, <2>4
<1>9. \A i \in B : \A j \in DOMAIN table[i] : \E k \in 1 .. n : a[k][1] = i /\ a[k][2] = j
  <2> TAKE i \in B
  <2> TAKE j \in DOMAIN table[i]
  <2>1. i \in 0 .. size - 1 /\ j \in Nat /\ j \in 1 .. Len(table[i])
    BY <1>5, <1>6
  <2>2. size - i \in 1 .. size /\ size - (size - i) = i /\ size - i \in Nat
    BY <1>5, <2>1
  <2>3. GivenUp[size - i] = table[i]
    BY <1>6, <2>2
  <2>4. <<size - i, j>> \in PlacesIn(GivenUp, size)
    BY <2>1, <2>2, <2>3 DEF PlacesIn
  <2>5. PICK k \in 1 .. n : p[k] = <<size - i, j>>
    BY <1>3, <2>4 DEF Arranges
  <2>6. a[k][1] = i /\ a[k][2] = j
    BY <2>2, <2>5
  <2> QED BY <2>6
<1>10. \A k, l \in 1 .. n : a[k][1] = a[l][1] /\ a[k][2] = a[l][2] => k = l
  <2> SUFFICES ASSUME NEW k \in 1 .. n, NEW l \in 1 .. n, a[k][1] = a[l][1], a[k][2] = a[l][2]
               PROVE  k = l
    OBVIOUS
  <2>1. p[k][1] = p[l][1] /\ p[k][2] = p[l][2]
    BY <1>5, <1>8
  <2>2. p[k] = p[l]
    BY <1>8, <2>1
  <2> QED BY <1>3, <2>2 DEF Arranges
<1>11. SameBelow(Depth)
  BY <1>2 DEF SameBelow
<1>12. /\ \A i \in DOMAIN table' : \/ table'[i] = <<>>
                                   \/ i \in DOMAIN table \ B /\ table'[i] = table[i]
       /\ \A i \in DOMAIN table \ B : i \in DOMAIN table' /\ table'[i] = table[i]
  BY DEF StartRehash, B
<1>13. \A k \in 1 .. n : /\ a[k][1] \in B /\ a[k][2] \in DOMAIN table[a[k][1]]
                         /\ stack'[Depth].list[k] = table[a[k][1]][a[k][2]]
  BY <1>2, <1>8 DEF ListFrame
<1>14. /\ DOMAIN stack' = 1 .. Depth /\ DOMAIN stack \subseteq 1 .. Depth
       /\ stack'[Depth].op \in Lists /\ DOMAIN stack'[Depth].list = 1 .. n
       /\ Depth \in DOMAIN stack => stack[Depth].op \notin Adding \cup Lists
  BY <1>1, <1>2, <1>4 DEF ListFrame, Lists, Adding
<1> HIDE DEF a, n
<1>15. Listed(Depth, B, n, a)
  BY <1>6, <1>9, <1>10, <1>11, <1>12, <1>13, <1>14 DEF Listed
<1> QED BY <1>2, <1>4, <1>15, TableListed

(* All the buckets of the old table go to the list of the larger one.      *)
LEMMA GrowKeeps ==
    ASSUME TypeOK, Distinct, Grow
    PROVE  Contents' = Contents /\ Distinct'
<1> DEFINE L == FlattenSeq(Buckets)
           n == Len(L)
           d == Depth + 1
           g == AddFrame("index", Top.key, Top.val)
<1>1. /\ stack \in Seq(Frame) /\ ~ Idle /\ Top.op = "array" /\ ListFrame("growing", L) \in Frame
      /\ g \in Frame /\ Call(ListFrame("growing", L), g)
  BY GrowDoes DEF TypeOK
<1>2. /\ stack' \in Seq(Frame) /\ Len(stack') = d /\ Depth = Len(stack) /\ Depth \in Nat \ {0}
      /\ stack'[d] = ListFrame("growing", L) /\ stack'[Depth] = g /\ stack[Depth] = Top
      /\ \A i \in 1 .. Depth - 1 : stack'[i] = stack[i]
  <2> HIDE DEF g, L
  <2> QED BY <1>1, Called DEF Depth, Top
<1>3. PICK p : Arranges(p, L, Buckets, size)
  BY BucketsType, FlattenSeqArranges
<1>4. L \in Seq(Entry) /\ n \in Nat /\ DOMAIN L = 1 .. n
  BY BucketsType, FlattenSeqArranges
<1> HIDE DEF L
<1> DEFINE a == [k \in 1 .. n |-> <<p[k][1] - 1, p[k][2]>>]
           B == DOMAIN table
<1>5. /\ DOMAIN table = 0 .. size - 1 /\ size \in Nat
      /\ \A i \in DOMAIN table : DOMAIN table[i] = 1 .. Len(table[i]) /\ Len(table[i]) \in Nat
  BY TableHas
<1>6. \A i \in 1 .. size : Buckets[i] = table[i - 1]
  BY DEF Buckets
<1>8. \A k \in 1 .. n : /\ p[k][1] \in 1 .. size /\ p[k][1] - 1 \in B
                        /\ p[k][2] \in DOMAIN table[p[k][1] - 1]
                        /\ p[k] = <<p[k][1], p[k][2]>>
                        /\ L[k] = table[p[k][1] - 1][p[k][2]]
  <2> TAKE k \in 1 .. n
  <2>1. p[k] \in PlacesIn(Buckets, size) /\ L[k] = Buckets[p[k][1]][p[k][2]]
    BY <1>3 DEF Arranges
  <2>2. p[k] \in Nat \X Nat /\ p[k][1] \in 1 .. size /\ p[k][2] \in 1 .. Len(Buckets[p[k][1]])
    BY <2>1 DEF PlacesIn
  <2>3. p[k][1] - 1 \in B
    BY <1>5, <2>2
  <2>4. Buckets[p[k][1]] = table[p[k][1] - 1]
    BY <1>6, <2>2
  <2> QED BY <1>5, <2>1, <2>2, <2>3, <2>4
<1>9. \A i \in B : \A j \in DOMAIN table[i] : \E k \in 1 .. n : a[k][1] = i /\ a[k][2] = j
  <2> TAKE i \in B
  <2> TAKE j \in DOMAIN table[i]
  <2>1. i \in 0 .. size - 1 /\ j \in Nat /\ j \in 1 .. Len(table[i])
    BY <1>5
  <2>2. i + 1 \in 1 .. size /\ (i + 1) - 1 = i /\ i + 1 \in Nat
    BY <1>5, <2>1
  <2>3. Buckets[i + 1] = table[i]
    BY <1>6, <2>2
  <2>4. <<i + 1, j>> \in PlacesIn(Buckets, size)
    BY <2>1, <2>2, <2>3 DEF PlacesIn
  <2>5. PICK k \in 1 .. n : p[k] = <<i + 1, j>>
    BY <1>3, <2>4 DEF Arranges
  <2>6. a[k][1] = i /\ a[k][2] = j
    BY <2>2, <2>5
  <2> QED BY <2>6
<1>10. \A k, l \in 1 .. n : a[k][1] = a[l][1] /\ a[k][2] = a[l][2] => k = l
  <2> SUFFICES ASSUME NEW k \in 1 .. n, NEW l \in 1 .. n, a[k][1] = a[l][1], a[k][2] = a[l][2]
               PROVE  k = l
    OBVIOUS
  <2>1. p[k][1] = p[l][1] /\ p[k][2] = p[l][2]
    BY SMTT(30), <1>5, <1>8
  <2>2. p[k] = p[l]
    BY <1>8, <2>1
  <2> QED BY <1>3, <2>2 DEF Arranges
<1>11. SameBelow(d)
  BY <1>1, <1>2 DEF SameBelow, AddFrame, Adding, Lists
<1>12. /\ \A i \in DOMAIN table' : table'[i] = <<>>
       /\ DOMAIN table \ B = {}
  BY DEF Grow
<1>13. \A k \in 1 .. n : /\ a[k][1] \in B /\ a[k][2] \in DOMAIN table[a[k][1]]
                         /\ stack'[d].list[k] = table[a[k][1]][a[k][2]]
  BY <1>2, <1>8 DEF ListFrame
<1>14. /\ DOMAIN stack' = 1 .. d /\ DOMAIN stack \subseteq 1 .. d
       /\ stack'[d].op \in Lists /\ DOMAIN stack'[d].list = 1 .. n
       /\ d \notin DOMAIN stack /\ d \in Nat \ {0}
  BY <1>1, <1>2, <1>4 DEF ListFrame, Lists, Adding
<1> HIDE DEF a, n, d, B
<1>15. B \in SUBSET DOMAIN table
  BY DEF B
<1>16. Listed(d, B, n, a)
  BY <1>9, <1>10, <1>11, <1>12, <1>13, <1>14, <1>15 DEF Listed
<1> QED BY <1>4, <1>14, <1>16, TableListed

(* The first entry of a list becomes the one that is added.                *)
LEMMA AddNextKeeps ==
    ASSUME TypeOK, Distinct, AddNext
    PROVE  Contents' = Contents /\ Distinct'
<1> DEFINE l == Top.list
           d == Depth
           n == Len(l)
<1>1. /\ stack \in Seq(Frame) /\ ~ Idle /\ Top.op \in Lists /\ l \in Seq(Entry) /\ l # <<>>
      /\ AddFrame("add", Head(l).key, Head(l).val) \in Frame
      /\ ListFrame(Top.op, Tail(l)) \in Frame
      /\ Call(AddFrame("add", Head(l).key, Head(l).val), ListFrame(Top.op, Tail(l)))
  BY AddNextDoes DEF TypeOK
<1>2. /\ n \in Nat \ {0} /\ DOMAIN l = 1 .. n /\ Head(l) = l[1]
      /\ DOMAIN Tail(l) = 1 .. n - 1 /\ \A j \in 1 .. n - 1 : Tail(l)[j] = l[j + 1]
  <2> HIDE DEF l
  <2> QED BY <1>1
<1>3. /\ stack' \in Seq(Frame) /\ Len(stack') = d + 1 /\ d = Len(stack) /\ d \in Nat \ {0}
      /\ stack'[d] = ListFrame(Top.op, Tail(l)) /\ stack[d] = Top
      /\ stack'[d + 1] = AddFrame("add", Head(l).key, Head(l).val)
      /\ \A i \in 1 .. d - 1 : stack'[i] = stack[i]
  <2> HIDE DEF l
  <2> QED BY <1>1, Called DEF Depth, Top
<1>4. stack[d].op = Top.op /\ stack[d].list = l
  BY <1>3
<1> HIDE DEF l, n, d
<1>5. /\ DOMAIN stack = 1 .. d /\ DOMAIN stack' = 1 .. d + 1 /\ stack[d].op \in Lists
      /\ stack'[d].op = Top.op /\ stack'[d].list = Tail(l)
      /\ stack'[d + 1].op = "add" /\ stack'[d + 1].key = l[1].key /\ stack'[d + 1].val = l[1].val
  BY <1>1, <1>2, <1>3, <1>4 DEF AddFrame, ListFrame
<1>6. Lists \cap Adding = {} /\ "add" \in Adding /\ "add" \notin Lists
  BY DEF Lists, Adding
<1>7. PlacesNow /\ PlacesNow' /\ table' = table
  <2>1. PlacesNow /\ PlacesNow'
    BY PlacesAre, PTL
  <2> QED BY <2>1 DEF AddNext
<1> DEFINE m == [p \in Places' |-> IF p[1] = "list" /\ p[2] = d THEN <<"list", d, p[3] + 1>>
                                   ELSE IF p[1] = "held" /\ p[2] = d + 1 THEN <<"list", d, 1>> ELSE p]
           Rest(p) == \/ \E i \in DOMAIN table : \E j \in DOMAIN table[i] : p = <<"table", i, j>>
                      \/ \E i \in 1 .. d - 1 : stack[i].op \in Lists /\ \E j \in DOMAIN stack[i].list : p = <<"list", i, j>>
                      \/ \E i \in 1 .. d - 1 : /\ i > 1 /\ stack[i - 1].op \in Lists /\ stack[i].op \in Adding
                                               /\ p = <<"held", i, 0>>
<1>8. \A p : p \in Places <=> Rest(p) \/ \E j \in 1 .. n : p = <<"list", d, j>>
  <2>1. \A p : p \in Places => Rest(p) \/ \E j \in 1 .. n : p = <<"list", d, j>>
    BY <1>2, <1>3, <1>4, <1>5, <1>6, <1>7 DEF PlacesNow
  <2>2. \A p : Rest(p) => p \in Places
    BY SMTT(30), <1>3, <1>5, <1>7 DEF PlacesNow
  <2>3. \A j \in 1 .. n : <<"list", d, j>> \in Places
    BY <1>2, <1>3, <1>4, <1>5, <1>7 DEF PlacesNow
  <2> HIDE DEF Rest
  <2> QED BY <2>1, <2>2, <2>3
<1>9. \A p : p \in Places' <=>
         Rest(p) \/ p = <<"held", d + 1, 0>> \/ \E j \in 1 .. n - 1 : p = <<"list", d, j>>
  <2>1. \A p : p \in Places' => Rest(p) \/ p = <<"held", d + 1, 0>> \/ \E j \in 1 .. n - 1 : p = <<"list", d, j>>
    <3> SUFFICES ASSUME NEW p \in Places'
                 PROVE  Rest(p) \/ p = <<"held", d + 1, 0>> \/ \E j \in 1 .. n - 1 : p = <<"list", d, j>>
      OBVIOUS
    <3>1. \A i \in 1 .. d - 1 : stack'[i] = stack[i]
      BY <1>3
    <3>2. CASE \E i \in DOMAIN table' : \E j \in DOMAIN table'[i] : p = <<"table", i, j>>
      BY <1>7, <3>2
    <3>3. CASE \E i \in DOMAIN stack' : stack'[i].op \in Lists /\ \E j \in DOMAIN stack'[i].list : p = <<"list", i, j>>
      <4>1. PICK i \in 1 .. d + 1 : stack'[i].op \in Lists /\ \E j \in DOMAIN stack'[i].list : p = <<"list", i, j>>
        BY <1>5, <3>3
      <4>2. i # d + 1
        BY <1>5, <1>6, <4>1
      <4>3. CASE i = d
        BY <1>2, <1>5, <4>1, <4>3
      <4>4. CASE i \in 1 .. d - 1
        BY <3>1, <4>1, <4>4
      <4> QED BY <1>3, <4>2, <4>3, <4>4
    <3>4. CASE \E i \in DOMAIN stack' : /\ i > 1 /\ stack'[i - 1].op \in Lists /\ stack'[i].op \in Adding
                                        /\ p = <<"held", i, 0>>
      <4>1. PICK i \in 1 .. d + 1 : /\ i > 1 /\ stack'[i - 1].op \in Lists /\ stack'[i].op \in Adding
                                    /\ p = <<"held", i, 0>>
        BY <1>5, <3>4
      <4>2. i # d
        BY <1>1, <1>5, <1>6, <4>1
      <4>3. CASE i \in 1 .. d - 1
        <5>1. i - 1 \in 1 .. d - 1
          BY <1>3, <4>1, <4>3
        <5> QED BY <3>1, <4>1, <4>3, <5>1
      <4> QED BY <1>3, <4>1, <4>2, <4>3
    <3> HIDE DEF Rest
    <3> QED BY <1>7, <3>2, <3>3, <3>4 DEF PlacesNow
  <2>2. \A p : Rest(p) => p \in Places'
    <3> SUFFICES ASSUME NEW p, Rest(p)
                 PROVE  p \in Places'
      OBVIOUS
    <3>1. \A i \in 1 .. d - 1 : i \in DOMAIN stack' /\ stack'[i] = stack[i]
      BY <1>3, <1>5
    <3>2. \A i \in 1 .. d - 1 : i > 1 => i - 1 \in 1 .. d - 1
      BY <1>3
    <3> QED BY <1>7, <3>1, <3>2 DEF PlacesNow
  <2>3. \A j \in 1 .. n - 1 : <<"list", d, j>> \in Places'
    BY <1>1, <1>2, <1>3, <1>5, <1>7 DEF PlacesNow
  <2>4. <<"held", d + 1, 0>> \in Places'
    BY <1>1, <1>3, <1>5, <1>6, <1>7 DEF PlacesNow
  <2> HIDE DEF Rest
  <2> QED BY <2>1, <2>2, <2>3, <2>4
<1>10. \A p : Rest(p) => /\ ItemAt(p)' = ItemAt(p)
                         /\ p[1] = "list" => p[2] # d
                         /\ p[1] = "held" => p[2] # d + 1
  BY <1>3, <1>7 DEF ItemAt
<1> HIDE DEF Rest
<1>13. \A p \in Places' : \/ Rest(p) /\ m[p] = p
                          \/ p = <<"held", d + 1, 0>> /\ m[p] = <<"list", d, 1>>
                          \/ \E j \in 1 .. n - 1 : p = <<"list", d, j>> /\ m[p] = <<"list", d, j + 1>>
  <2> TAKE p \in Places'
  <2>1. CASE Rest(p)
    BY <1>10, <2>1
  <2>2. CASE p = <<"held", d + 1, 0>>
    BY <2>2
  <2>3. ASSUME NEW j \in 1 .. n - 1, p = <<"list", d, j>>
        PROVE  m[p] = <<"list", d, j + 1>>
    BY <2>3
  <2> QED BY <1>9, <2>1, <2>2, <2>3
<1> HIDE DEF m
<1>14. ASSUME NEW p \in Places'
       PROVE  /\ m[p] \in Places
              /\ ItemAt(m[p]).key = ItemAt(p)'.key /\ ItemAt(m[p]).val = ItemAt(p)'.val
  <2>1. CASE Rest(p) /\ m[p] = p
    BY <1>8, <1>10, <2>1
  <2>2. CASE p = <<"held", d + 1, 0>> /\ m[p] = <<"list", d, 1>>
    <3>1. m[p] \in Places
      BY <1>2, <1>8, <2>2
    <3>2. ItemAt(m[p]) = l[1]
      BY <1>4, <2>2 DEF ItemAt
    <3>3. ItemAt(p)'.key = l[1].key /\ ItemAt(p)'.val = l[1].val
      BY <1>5, <2>2 DEF ItemAt
    <3> QED BY <3>1, <3>2, <3>3
  <2>3. ASSUME NEW j \in 1 .. n - 1, p = <<"list", d, j>>, m[p] = <<"list", d, j + 1>>
        PROVE  /\ m[p] \in Places
               /\ ItemAt(m[p]).key = ItemAt(p)'.key /\ ItemAt(m[p]).val = ItemAt(p)'.val
    <3>1. j + 1 \in 1 .. n
      BY <1>2
    <3>2. m[p] \in Places
      BY <1>8, <2>3, <3>1
    <3>3. ItemAt(m[p]) = l[j + 1]
      BY <1>4, <2>3 DEF ItemAt
    <3>4. ItemAt(p)' = l[j + 1]
      BY <1>2, <1>5, <2>3 DEF ItemAt
    <3> QED BY <3>2, <3>3, <3>4
  <2> QED BY <1>13, <2>1, <2>2, <2>3
<1>15. ASSUME NEW p \in Places
       PROVE  \E q \in Places' : m[q] = p
  <2>1. CASE Rest(p)
    <3>1. p \in Places' /\ p # <<"held", d + 1, 0>> /\ \A j \in 1 .. n - 1 : p # <<"list", d, j>>
      BY <1>9, <1>10, <2>1
    <3> QED BY <1>13, <3>1
  <2>2. CASE p = <<"list", d, 1>>
    <3>1. <<"held", d + 1, 0>> \in Places'
      BY <1>9
    <3>2. ~ Rest(<<"held", d + 1, 0>>)
      BY <1>10
    <3>3. m[<<"held", d + 1, 0>>] = <<"list", d, 1>>
      BY <1>13, <3>1, <3>2
    <3> QED BY <2>2, <3>1, <3>3
  <2>3. ASSUME NEW j \in 1 .. n, p = <<"list", d, j>>, j # 1
        PROVE  \E q \in Places' : m[q] = p
    <3>1. j - 1 \in 1 .. n - 1 /\ (j - 1) + 1 = j
      BY <1>2, <2>3
    <3>2. <<"list", d, j - 1>> \in Places'
      BY <1>9, <3>1
    <3>3. ~ Rest(<<"list", d, j - 1>>)
      BY <1>10
    <3>4. m[<<"list", d, j - 1>>] = p
      BY <1>13, <2>3, <3>1, <3>2, <3>3
    <3> QED BY <3>2, <3>4
  <2> QED BY <1>8, <2>1, <2>2, <2>3
<1>16. ASSUME NEW p \in Places', NEW q \in Places', m[p] = m[q]
       PROVE  p = q
  <2>1. \A r : Rest(r) => \A j : r # <<"list", d, j>>
    BY <1>10
  <2> QED BY <1>2, <1>13, <1>16, <2>1
<1> QED BY <1>14, <1>15, <1>16, Rearranged

(* An entry that was taken from a list is put into its bucket.             *)
LEMMA PushKeeps ==
    ASSUME TypeOK, Distinct, Push, Depth > 1, stack[Depth - 1].op \in Lists, Top.index \in DOMAIN table
    PROVE  Contents' = Contents /\ Distinct'
<1> DEFINE d == Depth
           b == Top.index
           n == Len(table[b])
<1>1. /\ stack \in Seq(Frame) /\ ~ Idle /\ Top.op = "push" /\ Made(Top) \in Entry /\ Return
      /\ table' = [table EXCEPT ![b] = <<Made(Top)>> \o table[b]]
  BY PushDoes DEF TypeOK
<1>2. /\ stack' \in Seq(Frame) /\ Len(stack') = d - 1 /\ d = Len(stack) /\ d \in Nat \ {0}
      /\ stack[d] = Top /\ \A i \in 1 .. d - 1 : stack'[i] = stack[i]
  BY <1>1, Returned DEF Depth, Top
<1>3. /\ table[b] \in Seq(Entry) /\ n \in Nat /\ DOMAIN table[b] = 1 .. n
      /\ DOMAIN table' = DOMAIN table /\ \A i \in DOMAIN table : i # b => table'[i] = table[i]
      /\ table'[b] = <<Made(Top)>> \o table[b]
  BY <1>1, TableHas
<1>4. /\ DOMAIN table'[b] = 1 .. n + 1 /\ table'[b][1] = Made(Top)
      /\ \A j \in 1 .. n : table'[b][j + 1] = table[b][j]
  <2>1. table'[b] \in Seq(Entry) /\ Len(table'[b]) = n + 1
    BY <1>1, <1>3, PutInFront
  <2> QED BY <1>1, <1>3, <2>1, PutInFront
<1>5. /\ DOMAIN stack = 1 .. d /\ DOMAIN stack' = 1 .. d - 1 /\ stack[d].op \in Adding
      /\ Made(Top).key = stack[d].key /\ Made(Top).val = stack[d].val
      /\ stack[d - 1].op \in Lists /\ d > 1 /\ b \in DOMAIN table /\ stack[d].op \notin Lists
  BY <1>1, <1>2 DEF Made, Adding, Lists
<1>6. PlacesNow /\ PlacesNow'
  BY PlacesAre, PTL
<1> HIDE DEF d, b, n
<1> DEFINE m == [p \in Places' |-> IF p[1] = "table" /\ p[2] = b
                                   THEN IF p[3] = 1 THEN <<"held", d, 0>> ELSE <<"table", b, p[3] - 1>>
                                   ELSE p]
           Rest(p) == \/ \E i \in DOMAIN table \ {b} : \E j \in DOMAIN table[i] : p = <<"table", i, j>>
                      \/ \E i \in 1 .. d - 1 : stack[i].op \in Lists /\ \E j \in DOMAIN stack[i].list : p = <<"list", i, j>>
                      \/ \E i \in 1 .. d - 1 : /\ i > 1 /\ stack[i - 1].op \in Lists /\ stack[i].op \in Adding
                                               /\ p = <<"held", i, 0>>
<1>8. \A p : p \in Places <=> Rest(p) \/ p = <<"held", d, 0>> \/ \E j \in 1 .. n : p = <<"table", b, j>>
  <2>1. ASSUME NEW p \in Places
        PROVE  Rest(p) \/ p = <<"held", d, 0>> \/ \E j \in 1 .. n : p = <<"table", b, j>>
    <3>2. CASE \E i \in DOMAIN table : \E j \in DOMAIN table[i] : p = <<"table", i, j>>
      BY <1>3, <3>2
    <3>3. CASE \E i \in DOMAIN stack : stack[i].op \in Lists /\ \E j \in DOMAIN stack[i].list : p = <<"list", i, j>>
      <4>1. PICK i \in 1 .. d : stack[i].op \in Lists /\ \E j \in DOMAIN stack[i].list : p = <<"list", i, j>>
        BY <1>5, <3>3
      <4>2. i \in 1 .. d - 1
        BY <1>2, <1>5, <4>1
      <4> QED BY <4>1, <4>2
    <3>4. CASE \E i \in DOMAIN stack : /\ i > 1 /\ stack[i - 1].op \in Lists /\ stack[i].op \in Adding
                                       /\ p = <<"held", i, 0>>
      <4>1. PICK i \in 1 .. d : /\ i > 1 /\ stack[i - 1].op \in Lists /\ stack[i].op \in Adding
                                /\ p = <<"held", i, 0>>
        BY <1>5, <3>4
      <4>2. CASE i = d
        BY <4>1, <4>2
      <4>3. CASE i \in 1 .. d - 1
        BY <4>1, <4>3
      <4> QED BY <1>2, <4>2, <4>3
    <3> HIDE DEF Rest
    <3> QED BY <1>6, <3>2, <3>3, <3>4 DEF PlacesNow
  <2>2. \A p : Rest(p) => p \in Places
    BY <1>2, <1>5, <1>6 DEF PlacesNow
  <2>3. \A j \in 1 .. n : <<"table", b, j>> \in Places
    BY <1>3, <1>5, <1>6 DEF PlacesNow
  <2>4. <<"held", d, 0>> \in Places
    BY <1>2, <1>5, <1>6 DEF PlacesNow
  <2> HIDE DEF Rest
  <2> QED BY <2>1, <2>2, <2>3, <2>4
<1>9. \A p : p \in Places' <=> Rest(p) \/ \E j \in 1 .. n + 1 : p = <<"table", b, j>>
  <2>1. ASSUME NEW p \in Places'
        PROVE  Rest(p) \/ \E j \in 1 .. n + 1 : p = <<"table", b, j>>
    <3>2. CASE \E i \in DOMAIN table' : \E j \in DOMAIN table'[i] : p = <<"table", i, j>>
      BY <1>3, <1>4, <3>2
    <3>3. CASE \E i \in DOMAIN stack' : stack'[i].op \in Lists /\ \E j \in DOMAIN stack'[i].list : p = <<"list", i, j>>
      BY <1>2, <1>5, <3>3
    <3>4. CASE \E i \in DOMAIN stack' : /\ i > 1 /\ stack'[i - 1].op \in Lists /\ stack'[i].op \in Adding
                                        /\ p = <<"held", i, 0>>
      BY <1>2, <1>5, <3>4
    <3> HIDE DEF Rest
    <3> QED BY <1>6, <3>2, <3>3, <3>4 DEF PlacesNow
  <2>2. ASSUME NEW p, Rest(p)
        PROVE  p \in Places'
    <3>1. \A i \in 1 .. d - 1 : i \in DOMAIN stack' /\ stack'[i] = stack[i]
      BY <1>2, <1>5
    <3>2. \A i \in 1 .. d - 1 : i > 1 => i - 1 \in 1 .. d - 1
      BY <1>2
    <3> QED BY <1>3, <1>6, <2>2, <3>1, <3>2 DEF PlacesNow
  <2>3. \A j \in 1 .. n + 1 : <<"table", b, j>> \in Places'
    BY <1>3, <1>4, <1>5, <1>6 DEF PlacesNow
  <2> HIDE DEF Rest
  <2> QED BY <2>1, <2>2, <2>3
<1>10. \A p : Rest(p) => /\ ItemAt(p)' = ItemAt(p)
                         /\ p[1] = "table" => p[2] # b
                         /\ p[1] = "held" => p[2] # d
  BY SMTT(30), <1>2, <1>3 DEF ItemAt
<1> HIDE DEF Rest
<1>13. \A p \in Places' : \/ Rest(p) /\ m[p] = p
                          \/ p = <<"table", b, 1>> /\ m[p] = <<"held", d, 0>>
                          \/ \E j \in 1 .. n : p = <<"table", b, j + 1>> /\ m[p] = <<"table", b, j>>
  <2> TAKE p \in Places'
  <2>1. CASE Rest(p)
    BY <1>10, <2>1
  <2>2. CASE p = <<"table", b, 1>>
    BY <2>2
  <2>3. ASSUME NEW j \in 1 .. n + 1, p = <<"table", b, j>>, j # 1
        PROVE  \E i \in 1 .. n : p = <<"table", b, i + 1>> /\ m[p] = <<"table", b, i>>
    <3>1. j - 1 \in 1 .. n /\ (j - 1) + 1 = j /\ m[p] = <<"table", b, j - 1>>
      BY <1>3, <2>3
    <3> HIDE DEF m
    <3> QED BY <2>3, <3>1
  <2> QED BY <1>9, <2>1, <2>2, <2>3
<1> HIDE DEF m
<1>14. ASSUME NEW p \in Places'
       PROVE  /\ m[p] \in Places
              /\ ItemAt(m[p]).key = ItemAt(p)'.key /\ ItemAt(m[p]).val = ItemAt(p)'.val
  <2>1. CASE Rest(p) /\ m[p] = p
    BY <1>8, <1>10, <2>1
  <2>2. CASE p = <<"table", b, 1>> /\ m[p] = <<"held", d, 0>>
    <3>1. m[p] \in Places
      BY <1>8, <2>2
    <3>2. ItemAt(m[p]) = stack[d]
      BY <2>2 DEF ItemAt
    <3>3. ItemAt(p)' = Made(Top)
      BY <1>4, <2>2 DEF ItemAt
    <3> QED BY <1>5, <3>1, <3>2, <3>3
  <2>3. ASSUME NEW j \in 1 .. n, p = <<"table", b, j + 1>>, m[p] = <<"table", b, j>>
        PROVE  /\ m[p] \in Places
               /\ ItemAt(m[p]).key = ItemAt(p)'.key /\ ItemAt(m[p]).val = ItemAt(p)'.val
    <3>2. m[p] \in Places
      BY <1>8, <2>3
    <3>3. ItemAt(m[p]) = table[b][j]
      BY <2>3 DEF ItemAt
    <3>4. ItemAt(p)' = table[b][j]
      BY <1>4, <2>3 DEF ItemAt
    <3> QED BY <3>2, <3>3, <3>4
  <2> QED BY <1>13, <2>1, <2>2, <2>3
<1>15. ASSUME NEW p \in Places
       PROVE  \E q \in Places' : m[q] = p
  <2>1. CASE Rest(p)
    <3>1. p \in Places' /\ \A j : p # <<"table", b, j>>
      BY <1>9, <1>10, <2>1
    <3> QED BY <1>13, <3>1
  <2>2. CASE p = <<"held", d, 0>>
    <3>1. 1 \in 1 .. n + 1
      BY <1>3
    <3>2. <<"table", b, 1>> \in Places'
      BY <1>9, <3>1
    <3>3. ~ Rest(<<"table", b, 1>>)
      BY <1>10
    <3>4. \A j \in 1 .. n : j + 1 # 1
      BY <1>3
    <3>5. m[<<"table", b, 1>>] = p
      BY <1>13, <2>2, <3>2, <3>3, <3>4
    <3> QED BY <3>2, <3>5
  <2>3. ASSUME NEW j \in 1 .. n, p = <<"table", b, j>>
        PROVE  \E q \in Places' : m[q] = p
    <3>1. j + 1 \in 1 .. n + 1 /\ j + 1 # 1 /\ \A i \in 1 .. n : i + 1 = j + 1 => i = j
      BY <1>3
    <3>2. <<"table", b, j + 1>> \in Places'
      BY <1>9, <3>1
    <3>3. ~ Rest(<<"table", b, j + 1>>)
      BY <1>10
    <3>4. m[<<"table", b, j + 1>>] = p
      BY <1>13, <2>3, <3>1, <3>2, <3>3
    <3> QED BY <3>2, <3>4
  <2> QED BY <1>8, <2>1, <2>2, <2>3
<1>16. ASSUME NEW p \in Places', NEW q \in Places', m[p] = m[q]
       PROVE  p = q
  <2>1. \A r : Rest(r) => r # <<"held", d, 0>> /\ \A j : r # <<"table", b, j>>
    BY <1>10
  <2>2. CASE Rest(p) /\ m[p] = p
    BY ZenonT(40), <1>13, <1>16, <2>1, <2>2
  <2>3. CASE p = <<"table", b, 1>> /\ m[p] = <<"held", d, 0>>
    <3>1. \A j : <<"table", b, j>> # <<"held", d, 0>>
      OBVIOUS
    <3> QED BY <1>13, <1>16, <2>1, <2>3, <3>1
  <2>4. ASSUME NEW j \in 1 .. n, p = <<"table", b, j + 1>>, m[p] = <<"table", b, j>>
        PROVE  p = q
    <3>1. <<"table", b, j>> # <<"held", d, 0>>
      OBVIOUS
    <3>2. \E i \in 1 .. n : q = <<"table", b, i + 1>> /\ m[q] = <<"table", b, i>>
      BY <1>13, <1>16, <2>1, <2>4, <3>1
    <3> QED BY <1>16, <2>4, <3>2
  <2> QED BY <1>13, <2>2, <2>3, <2>4
<1> QED BY <1>14, <1>15, <1>16, Rearranged
(***************************************************************************)
(* When the entries are fresh.                                             *)
(***************************************************************************)
(* A step that moves no key keeps entries fresh: a new one has the address *)
(* that was just read.                                                     *)
LEMMA FreshStep ==
    ASSUME TypeOK, Shape, Fresh, [Next]_vars, addr' = addr
    PROVE  Fresh'
<1>1. ASSUME NEW i \in DOMAIN table', NEW j \in DOMAIN table'[i]
      PROVE  ~ Stale(table[i][j])'
  <2>1. CASE Push /\ table'[i][j] = Made(Top)
    BY <2>1 DEF Push, Fresh, Made, Stale
  <2>2. ASSUME i \in DOMAIN table, NEW n \in DOMAIN table[i], table[i][n].key = table'[i][j].key,
               table[i][n].stored = table'[i][j].stored
        PROVE  ~ Stale(table[i][j])'
    BY <2>2 DEF Fresh, Stale
  <2> QED BY <2>1, <2>2, EntriesFrom
<1>2. At("push")' => (Top.stored = addr[Top.key])'
  <2>1. CASE ReadAddress /\ Top' = PushFrame(Top.key, Top.val, Top.index, addr[Top.key])
    BY <2>1 DEF PushFrame
  <2>2. CASE At("push") /\ stack' = stack
    BY <2>2 DEF Fresh, Top, Depth
  <2> QED BY <2>1, <2>2, MadeFrom
<1> QED BY <1>1, <1>2 DEF Fresh

(* The entry of the key that is to be added, if it has one.                *)
OwnFresh ==
    \A i \in DOMAIN table : \A j \in DOMAIN table[i] :
        table[i][j].key = Top.key => ~ Stale(table[i][j])

(* When nothing is collected while entries are moved, an entry is fresh    *)
(* whenever its key is looked for: the test for a rehash comes before.     *)
(* What the caller's own addition allocates then, before it looks, moves   *)
(* other keys (and all are fresh again after a growth, which empties the   *)
(* table); what it allocates after, no longer matters.                     *)
SettledInv ==
    \/ Idle
    \/ Top.op \in {"check", "clear", "looping"}
    \/ /\ Depth = 2 /\ stack[1].op = "check"
       /\ \/ Top.op \in {"array", "address", "push"}
          \/ Top.op \in {"add", "index"} /\ OwnFresh
    \/ Fresh

(* The step that serves each of these frames.                              *)
LEMMA Served ==
    ASSUME [Next]_vars, ~ \E l \in Generations : Collect(l)
    PROVE  /\ Idle => Ask \/ UNCHANGED vars
           /\ At("check") => Check \/ UNCHANGED vars
           /\ At("clear") => ClrHash \/ UNCHANGED vars
           /\ At("looping") => UNCHANGED vars
           /\ At("add") => Add \/ UNCHANGED vars
           /\ At("array") => Grow \/ UNCHANGED vars
           /\ At("index") => Search \/ UNCHANGED vars
           /\ At("address") => ReadAddress \/ UNCHANGED vars
           /\ At("push") => Push \/ UNCHANGED vars
BY DEF At, Next, Step, Ask, Check, AddNext, EndRehash, Add, Grow, EndGrow, Search, ReadAddress,
       Push, GetHash, RemHash, Loop, ClrHash, Lists

(* Collections come between operations, or while the caller's own addition *)
(* allocates; they spare its key until it has been looked for, or the      *)
(* table is emptied.                                                       *)
LEMMA CollectSettled ==
    ASSUME TypeOK, Shape, SettledInv, NEW l \in Generations, Collect(l),
           GCPoints \subseteq {"idle", "alloc"}
    PROVE  \/ Idle
           \/ /\ Depth = 2 /\ stack[1].op = "check"
              /\ \/ Top.op \in {"array", "address", "push"}
                 \/ Top.op \in {"add", "index"} /\ OwnFresh'
<1> SUFFICES ASSUME ~ Idle
             PROVE  /\ Depth = 2 /\ stack[1].op = "check"
                    /\ \/ Top.op \in {"array", "address", "push"}
                       \/ Top.op = "add" /\ OwnFresh'
  OBVIOUS
<1>1. GCPoint(l) \cap {"idle", "alloc"} # {}
  BY DEF Collect
<1>2. Allocating
  BY <1>1 DEF GCPoint
<1>3. ~ Within("rehash") /\ ~ Within("growing")
  BY <1>1, <1>2 DEF GCPoint
<1>4. Top.op \in {"add", "array", "address", "push"} /\ Depth \in Nat \ {0} /\ Top = stack[Depth]
      /\ DOMAIN stack = 1 .. Depth
  BY <1>2, TopHas DEF Allocating, At, Top, Depth, TypeOK
<1>5. Depth \in 2 .. Depth
  BY <1>4 DEF Shape
<1>6. Depth - 1 \in DOMAIN stack
  BY <1>4, <1>5
<1>7. stack[Depth - 1].op \notin Lists
  BY <1>3, <1>6 DEF Within, Lists
<1>8. Depth = 2 /\ stack[1].op = "check"
  BY <1>4, <1>5, <1>7 DEF Shape, Lists
<1>9. ASSUME Top.op = "add"
      PROVE  OwnFresh'
  <2>1. OwnFresh
    BY <1>8, <1>9 DEF SettledInv, Fresh, OwnFresh
  <2>2. Top.key \notin Moves(l)
    BY <1>1, <1>2, <1>3, <1>9 DEF GCPoint, At
  <2>3. Top.key \in Keys
    BY <1>9, TopHas, FrameHas DEF Adding
  <2>4. addr'[Top.key] = addr[Top.key] /\ table' = table /\ Top' = Top
    BY <2>2, <2>3 DEF Collect, Top, Depth
  <2> QED BY <2>1, <2>4 DEF OwnFresh, Stale
<1> QED BY <1>4, <1>8, <1>9

(* Every step keeps entries fresh when they have to be.                    *)
LEMMA SettledStep ==
    ASSUME TypeOK, Shape, SettledInv, KnownInv, KnownInv', [Next]_vars,
           GCPoints \subseteq {"idle", "alloc"}
    PROVE  SettledInv'
<1>1. CASE \E l \in Generations : Collect(l)
  <2>1. PICK l \in Generations : Collect(l)
    BY <1>1
  <2>2. stack' = stack
    BY <2>1 DEF Collect
  <2> QED BY <2>1, <2>2, CollectSettled DEF SettledInv, Idle, Top, Depth
<1>2. ASSUME ~ \E l \in Generations : Collect(l)
      PROVE  SettledInv'
  <2>1. addr' = addr
    BY <1>2 DEF Next, Step, Ask, Check, StartRehash, AddNext, EndRehash, Add, Grow, EndGrow, Search,
                ReadAddress, Push, GetHash, RemHash, Loop, ClrHash, vars, heap
  <2>2. CASE Fresh
    BY <2>1, <2>2, FreshStep DEF SettledInv
  <2>3. CASE UNCHANGED vars
    BY <2>3 DEF SettledInv, OwnFresh, Idle, Top, Depth, vars, Fresh, At, Stale
  <2>4. CASE ~ Fresh /\ Idle /\ Ask
    <3>1. Idle' \/ Top'.op \in {"check", "clear"}
      BY <2>4, TopFrom DEF Check, AddNext, Add, Grow, Search, ReadAddress, RemHash, At, Idle
    <3> QED BY <3>1 DEF SettledInv
  <2>5. CASE ~ Fresh /\ Check
    <3>1. CASE StartRehash
      <4>1. /\ stack \in Seq(Frame) /\ ~ Idle /\ ListFrame("rehash", FlattenSeq(GivenUp)) \in Frame
            /\ Goto(ListFrame("rehash", FlattenSeq(GivenUp)))
        BY <2>5, <3>1, CheckDoes DEF TypeOK, StartRehash, ListFrame
      <4>2. ~ Idle' /\ Top'.op = "rehash" /\ Depth' \in DOMAIN stack' /\ Top' = stack'[Depth']
        BY <4>1, Gone DEF ListFrame, Top, Depth
      <4>3. Within("rehash")'
        BY <4>2 DEF Within
      <4> QED BY <4>3 DEF KnownInv, SettledInv
    <3>2. CASE ~ NeedRehash
      BY <2>5, <3>2 DEF KnownInv
    <3> QED BY <2>5, <3>1, <3>2, CheckDoes
  <2>6. CASE ~ Fresh /\ (ClrHash \/ Grow)
    <3>1. \A i \in DOMAIN table' : DOMAIN table'[i] = {}
      <4>1. \A i \in DOMAIN table' : table'[i] = <<>>
        BY <2>6 DEF ClrHash, Grow
      <4> QED BY <4>1
    <3>2. ~ At("push")'
      BY <2>6, MadeFrom DEF ClrHash, Grow, At, ReadAddress
    <3> QED BY <3>1, <3>2 DEF SettledInv, Fresh
  <2>7. CASE Depth = 2 /\ stack[1].op = "check" /\ Push
    <3>1. Depth' = 1 /\ stack'[1] = stack[1]
      BY <2>7, PushDoes, Returned DEF TypeOK
    <3> QED BY <2>7, <3>1 DEF SettledInv, Top
  <2>8. CASE Depth = 2 /\ stack[1].op = "check" /\ OwnFresh /\ Add
    <3>1. PICK op \in {"array", "index"} :
             AddFrame(op, Top.key, Top.val) \in Frame /\ Goto(AddFrame(op, Top.key, Top.val))
      BY <2>8, AddDoes
    <3>2. ~ Idle /\ table' = table
      BY <2>8 DEF Add, At
    <3>3. Depth' = 2 /\ stack'[1] = stack[1] /\ Top' = AddFrame(op, Top.key, Top.val)
      BY <2>8, <3>1, <3>2, Gone DEF TypeOK
    <3>4. OwnFresh'
      BY <2>1, <2>8, <3>2, <3>3 DEF OwnFresh, Stale, AddFrame
    <3> QED BY <2>8, <3>3, <3>4 DEF SettledInv, AddFrame
  <2>9. CASE Depth = 2 /\ stack[1].op = "check" /\ Search
    <3>1. ~ Idle /\ stack \in Seq(Frame)
      BY <2>9 DEF Search, At, TypeOK
    <3>2. CASE Return
      <4>1. Depth' = 1 /\ stack'[1] = stack[1]
        BY <2>9, <3>1, <3>2, Returned
      <4> QED BY <2>9, <4>1 DEF SettledInv, Top
    <3>3. ASSUME NEW f \in Frame, f.op = "address", Goto(f)
          PROVE  SettledInv'
      <4>1. Depth' = 2 /\ stack'[1] = stack[1] /\ Top' = f
        BY <2>9, <3>1, <3>3, Gone
      <4> QED BY <2>9, <3>3, <4>1 DEF SettledInv
    <3> QED BY <2>9, <3>2, <3>3, SearchDoes DEF AddressFrame
  <2>10. CASE Depth = 2 /\ stack[1].op = "check" /\ ReadAddress
    <3> DEFINE f == PushFrame(Top.key, Top.val, Top.index, addr[Top.key])
    <3>1. ~ Idle /\ stack \in Seq(Frame) /\ f \in Frame /\ Goto(f) /\ f.op = "push"
      BY <2>10, ReadAddressDoes DEF TypeOK, PushFrame
    <3> HIDE DEF f
    <3>2. Depth' = 2 /\ stack'[1] = stack[1] /\ Top' = f
      BY <2>10, <3>1, Gone
    <3> QED BY <2>10, <3>1, <3>2 DEF SettledInv
  <2> QED BY <1>2, <2>2, <2>3, <2>4, <2>5, <2>6, <2>7, <2>8, <2>9, <2>10, Served DEF SettledInv, At
<1> QED BY <1>1, <1>2

(* A key that is counted and has no entry yet has none.                    *)
NewInv ==
    At("address") \/ At("push") =>
        \A i \in DOMAIN table : \A j \in DOMAIN table[i] : table[i][j].key # Top.key

(* Every step keeps a counted key out of the table until its entry is made.*)
LEMMA NewStep ==
    ASSUME TypeOK, Shape, PlacedInv, SettledInv, NewInv, [Next]_vars
    PROVE  NewInv'
<1>1. CASE Search /\ At("address")' /\ Top' = AddressFrame(Top.key, Top.val, Index(Top.key))
           /\ \A j \in 1 .. Len(table[Index(Top.key)]) : table[Index(Top.key)][j].key # Top.key
  <2>1. table' = table
    BY <1>1, SearchDoes, Uncovered DEF At, Lists
  <2>2. Top'.key = Top.key
    BY <1>1 DEF AddressFrame
  <2>3. OwnFresh
    BY <1>1, SearchDoes DEF SettledInv, Fresh, OwnFresh
  <2>4. ASSUME NEW i \in DOMAIN table, NEW j \in DOMAIN table[i], table[i][j].key = Top.key
        PROVE  FALSE
    <3>1. table[i][j].stored = addr[Top.key] /\ table[i][j].stored % size = i
      BY <2>3, <2>4 DEF OwnFresh, Stale, PlacedInv
    <3>2. i = Index(Top.key) /\ j \in 1 .. Len(table[i])
      BY <3>1, TableHas DEF Index
    <3> QED BY <1>1, <2>4, <3>2
  <2> QED BY <2>1, <2>2, <2>4 DEF NewInv
<1>2. CASE ReadAddress /\ Top' = PushFrame(Top.key, Top.val, Top.index, addr[Top.key])
  BY <1>2 DEF ReadAddress, NewInv, PushFrame
<1>3. CASE (At("address") \/ At("push")) /\ stack' = stack
           /\ (UNCHANGED vars \/ \E l \in Generations : Collect(l))
  <2>1. table' = table /\ Top' = Top
    BY <1>3 DEF vars, Collect, Top, Depth
  <2> QED BY <1>3, <2>1 DEF NewInv
<1> QED BY <1>1, <1>2, <1>3, MadeFrom DEF NewInv
(***************************************************************************)
(* The map.                                                                *)
(***************************************************************************)
(* Between rehashes and growths, the map is what is in the buckets.        *)
Listless == \A i \in DOMAIN stack : stack[i].op \notin Lists

MapNow ==
    TypeOK /\ Distinct /\ Listless =>
        /\ MapOf = [k \in DOMAIN MapOf |-> MapOf[k]]
        /\ \A k : k \in DOMAIN MapOf <=> \E i \in DOMAIN table : \E j \in DOMAIN table[i] : table[i][j].key = k
        /\ \A i \in DOMAIN table : \A j \in DOMAIN table[i] : MapOf[table[i][j].key] = table[i][j].val

(* What MapOf is, without places.                                          *)
LEMMA MapIs == MapNow
<1> SUFFICES ASSUME TypeOK, Distinct, Listless
             PROVE  /\ MapOf = [k \in DOMAIN MapOf |-> MapOf[k]]
                    /\ \A k : k \in DOMAIN MapOf <=>
                          \E i \in DOMAIN table : \E j \in DOMAIN table[i] : table[i][j].key = k
                    /\ \A i \in DOMAIN table : \A j \in DOMAIN table[i] :
                          MapOf[table[i][j].key] = table[i][j].val
  BY DEF MapNow
<1>1. \A p : p \in Places <=> \E i \in DOMAIN table : \E j \in DOMAIN table[i] : p = <<"table", i, j>>
  <2>1. PlacesNow
    BY PlacesAre
  <2>2. \A i \in DOMAIN stack : stack[i].op \notin Lists
    BY DEF Listless
  <2>3. \A i \in DOMAIN stack : i > 1 => i - 1 \in DOMAIN stack
    <3>1. stack \in Seq(Frame)
      BY DEF TypeOK
    <3> QED BY <3>1
  <2> QED BY <2>1, <2>2, <2>3 DEF PlacesNow
<1>2. \A i, j : ItemAt(<<"table", i, j>>) = table[i][j]
  BY DEF ItemAt
<1>3. \A c : c \in Contents <=>
         \E i \in DOMAIN table : \E j \in DOMAIN table[i] : c = <<table[i][j].key, table[i][j].val>>
  <2>1. ASSUME NEW c \in Contents
        PROVE  \E i \in DOMAIN table : \E j \in DOMAIN table[i] : c = <<table[i][j].key, table[i][j].val>>
    <3>1. PICK p \in Places : c = <<ItemAt(p).key, ItemAt(p).val>>
      BY DEF Contents
    <3>2. PICK i \in DOMAIN table : \E j \in DOMAIN table[i] : p = <<"table", i, j>>
      BY <1>1, <3>1
    <3>3. PICK j \in DOMAIN table[i] : p = <<"table", i, j>>
      BY <3>2
    <3> QED BY <1>2, <3>1, <3>3
  <2>2. ASSUME NEW i \in DOMAIN table, NEW j \in DOMAIN table[i]
        PROVE  <<table[i][j].key, table[i][j].val>> \in Contents
    <3>1. <<"table", i, j>> \in Places /\ ItemAt(<<"table", i, j>>) = table[i][j]
      BY <1>1, <1>2
    <3> QED BY <3>1 DEF Contents
  <2> QED BY <2>1, <2>2
<1>4. ASSUME NEW c \in Contents, NEW e \in Contents, c[1] = e[1]
      PROVE  c = e
  BY <1>1, <1>2, <1>4 DEF Contents, Distinct
<1>5. \A c \in Contents : (CHOOSE e \in Contents : e[1] = c[1]) = c
  BY <1>4
<1>6. DOMAIN MapOf = {c[1] : c \in Contents} /\ MapOf = [k \in DOMAIN MapOf |-> MapOf[k]]
  BY DEF MapOf
<1>7. \A k : k \in DOMAIN MapOf <=> \E i \in DOMAIN table : \E j \in DOMAIN table[i] : table[i][j].key = k
  <2>1. \A i \in DOMAIN table : \A j \in DOMAIN table[i] :
           <<table[i][j].key, table[i][j].val>> \in Contents
    BY <1>3
  <2>2. \A i \in DOMAIN table : \A j \in DOMAIN table[i] : table[i][j].key \in {c[1] : c \in Contents}
    <3>1. \A k, v : <<k, v>> \in Contents => k \in {c[1] : c \in Contents}
      <4> TAKE k, v
      <4>1. <<k, v>>[1] = k
        OBVIOUS
      <4> QED BY <4>1
    <3> QED BY <2>1, <3>1
  <2>3. \A c \in Contents : \E i \in DOMAIN table : \E j \in DOMAIN table[i] : table[i][j].key = c[1]
    BY <1>3
  <2> QED BY <1>6, <2>2, <2>3
<1>8. \A c \in Contents : MapOf[c[1]] = c[2]
  BY <1>5 DEF MapOf
<1>9. \A i \in DOMAIN table : \A j \in DOMAIN table[i] : MapOf[table[i][j].key] = table[i][j].val
  <2> TAKE i \in DOMAIN table
  <2> TAKE j \in DOMAIN table[i]
  <2>1. <<table[i][j].key, table[i][j].val>> \in Contents
    BY <1>3
  <2> QED BY <1>8, <2>1
<1> QED BY <1>6, <1>7, <1>9

(* No key is in the table twice.                                           *)
OneEach ==
    \A i \in DOMAIN table : \A j \in DOMAIN table[i] : \A g \in DOMAIN table : \A h \in DOMAIN table[g] :
        table[i][j].key = table[g][h].key => i = g /\ j = h

DistinctNow == TypeOK /\ Listless => (Distinct <=> OneEach)

(* No key in two places, without places.                                   *)
LEMMA DistinctIs == DistinctNow
<1> SUFFICES ASSUME TypeOK, Listless
             PROVE  Distinct <=> OneEach
  BY DEF DistinctNow
<1>1. \A p : p \in Places <=> \E i \in DOMAIN table : \E j \in DOMAIN table[i] : p = <<"table", i, j>>
  <2>1. PlacesNow
    BY PlacesAre
  <2>2. \A i \in DOMAIN stack : stack[i].op \notin Lists
    BY DEF Listless
  <2>3. \A i \in DOMAIN stack : i > 1 => i - 1 \in DOMAIN stack
    <3>1. stack \in Seq(Frame)
      BY DEF TypeOK
    <3> QED BY <3>1
  <2> QED BY <2>1, <2>2, <2>3 DEF PlacesNow
<1>2. \A i, j : ItemAt(<<"table", i, j>>) = table[i][j]
  BY DEF ItemAt
<1>3. ASSUME Distinct
      PROVE  OneEach
  <2> SUFFICES ASSUME NEW i \in DOMAIN table, NEW j \in DOMAIN table[i],
                      NEW g \in DOMAIN table, NEW h \in DOMAIN table[g],
                      table[i][j].key = table[g][h].key
               PROVE  i = g /\ j = h
    BY DEF OneEach
  <2>1. <<"table", i, j>> \in Places /\ <<"table", g, h>> \in Places
    BY <1>1
  <2>2. <<"table", i, j>> = <<"table", g, h>>
    BY <1>2, <1>3, <2>1 DEF Distinct
  <2> QED BY <2>2
<1>4. ASSUME OneEach
      PROVE  Distinct
  <2> SUFFICES ASSUME NEW p \in Places, NEW q \in Places, ItemAt(p).key = ItemAt(q).key
               PROVE  p = q
    BY DEF Distinct
  <2>1. PICK i \in DOMAIN table : \E j \in DOMAIN table[i] : p = <<"table", i, j>>
    BY <1>1
  <2>2. PICK j \in DOMAIN table[i] : p = <<"table", i, j>>
    BY <2>1
  <2>3. PICK g \in DOMAIN table : \E h \in DOMAIN table[g] : q = <<"table", g, h>>
    BY <1>1
  <2>4. PICK h \in DOMAIN table[g] : q = <<"table", g, h>>
    BY <2>3
  <2>5. table[i][j].key = table[g][h].key
    BY <1>2, <2>2, <2>4
  <2>6. i = g /\ j = h
    BY <1>4, <2>5 DEF OneEach
  <2> QED BY <2>2, <2>4, <2>6
<1> QED BY <1>3, <1>4

(* Two states between which only the table and the stack may differ.       *)
LEMMA MapBoth ==
    ASSUME TypeOK, TypeOK', Listless, Listless', Distinct, OneEach'
    PROVE  /\ OneEach /\ Distinct'
           /\ \A k : k \in DOMAIN MapOf <=> \E i \in DOMAIN table : \E j \in DOMAIN table[i] : table[i][j].key = k
           /\ \A i \in DOMAIN table : \A j \in DOMAIN table[i] : MapOf[table[i][j].key] = table[i][j].val
           /\ MapOf' = [k \in DOMAIN MapOf' |-> MapOf'[k]]
           /\ \A k : k \in DOMAIN MapOf' <=>
                 \E i \in DOMAIN table' : \E j \in DOMAIN table'[i] : table'[i][j].key = k
           /\ \A i \in DOMAIN table' : \A j \in DOMAIN table'[i] : MapOf'[table'[i][j].key] = table'[i][j].val
<1>1. DistinctNow /\ DistinctNow' /\ MapNow /\ MapNow'
  BY DistinctIs, MapIs, PTL
<1>2. OneEach /\ Distinct'
  BY <1>1 DEF DistinctNow
<1> QED BY <1>1, <1>2 DEF MapNow

(* The value of an entry is replaced.                                      *)
LEMMA MapReplaced ==
    ASSUME TypeOK, TypeOK', Listless, Listless', Distinct,
           NEW b \in DOMAIN table, NEW n \in 1 .. Len(table[b]), NEW v,
           table' = [table EXCEPT ![b] = [table[b] EXCEPT ![n] = [table[b][n] EXCEPT !.val = v]]]
    PROVE  /\ Distinct'
           /\ MapOf' = [k \in DOMAIN MapOf \cup {table[b][n].key} |->
                           IF k = table[b][n].key THEN v ELSE MapOf[k]]
<1> DEFINE key == table[b][n].key
<1>0. table[b] \in Seq(Entry) /\ n \in DOMAIN table[b] /\ table[b][n] \in Entry
  BY TableHas
<1>1. /\ DOMAIN table' = DOMAIN table /\ \A i \in DOMAIN table : DOMAIN table'[i] = DOMAIN table[i]
      /\ \A i \in DOMAIN table : \A j \in DOMAIN table[i] :
            /\ table'[i][j].key = table[i][j].key
            /\ i # b \/ j # n => table'[i][j] = table[i][j]
      /\ table'[b][n].key = key /\ table'[b][n].val = v
  <2>1. DOMAIN table' = DOMAIN table /\ \A i \in DOMAIN table : DOMAIN table'[i] = DOMAIN table[i]
    OBVIOUS
  <2>2. \A i \in DOMAIN table : \A j \in DOMAIN table[i] : i # b \/ j # n => table'[i][j] = table[i][j]
    OBVIOUS
  <2>3. table'[b][n] = [table[b][n] EXCEPT !.val = v]
    BY <1>0
  <2>4. table'[b][n].key = key /\ table'[b][n].val = v
    BY <1>0, <2>3 DEF Entry
  <2> QED BY <2>1, <2>2, <2>4
<1>2. OneEach
  BY DistinctIs DEF DistinctNow
<1>3. OneEach'
  BY <1>1, <1>2 DEF OneEach
<1> HIDE DEF key
<1>4. DOMAIN MapOf' = DOMAIN MapOf \cup {key}
  <2>1. \A k : k \in DOMAIN MapOf' <=> k \in DOMAIN MapOf
    BY <1>1, <1>3, MapBoth
  <2>2. key \in DOMAIN MapOf
    BY <1>0, <1>3, MapBoth DEF key
  <2> QED BY <2>1, <2>2
<1>5. ASSUME NEW k \in DOMAIN MapOf'
      PROVE  MapOf'[k] = IF k = key THEN v ELSE MapOf[k]
  <2>1. PICK i \in DOMAIN table' : \E j \in DOMAIN table'[i] : table'[i][j].key = k
    BY <1>3, MapBoth
  <2>2. PICK j \in DOMAIN table'[i] : table'[i][j].key = k
    BY <2>1
  <2>3. MapOf'[k] = table'[i][j].val
    BY <1>3, <2>2, MapBoth
  <2>4. CASE i = b /\ j = n
    BY <1>1, <2>2, <2>3, <2>4
  <2>5. CASE ~ (i = b /\ j = n)
    <3>1. i \in DOMAIN table /\ j \in DOMAIN table[i] /\ table'[i][j] = table[i][j]
      BY <1>1, <2>1, <2>2, <2>5
    <3>2. k # key
      BY <1>0, <1>2, <2>2, <2>5, <3>1 DEF OneEach, key
    <3>3. MapOf[k] = table[i][j].val
      BY <1>3, <2>2, <3>1, MapBoth
    <3> QED BY <2>3, <3>1, <3>2, <3>3
  <2> QED BY <2>4, <2>5
<1>6. MapOf' = [k \in DOMAIN MapOf' |-> MapOf'[k]] /\ Distinct'
  BY <1>3, MapBoth
<1> QED BY <1>4, <1>5, <1>6 DEF key

(* An entry is put into its bucket.                                        *)
LEMMA MapAdded ==
    ASSUME TypeOK, TypeOK', Listless, Listless', Distinct, NEW b \in DOMAIN table, NEW e \in Entry,
           table' = [table EXCEPT ![b] = <<e>> \o table[b]],
           \A i \in DOMAIN table : \A j \in DOMAIN table[i] : table[i][j].key # e.key
    PROVE  /\ Distinct'
           /\ MapOf' = [k \in DOMAIN MapOf \cup {e.key} |-> IF k = e.key THEN e.val ELSE MapOf[k]]
<1> DEFINE n == Len(table[b])
<1>0. table[b] \in Seq(Entry) /\ n \in Nat /\ DOMAIN table[b] = 1 .. n
  BY TableHas
<1>1. /\ DOMAIN table' = DOMAIN table /\ \A i \in DOMAIN table : i # b => table'[i] = table[i]
      /\ table'[b] = <<e>> \o table[b]
  OBVIOUS
<1>2. /\ DOMAIN table'[b] = 1 .. n + 1 /\ table'[b][1] = e
      /\ \A j \in 1 .. n : table'[b][j + 1] = table[b][j]
  <2>1. table'[b] \in Seq(Entry) /\ Len(table'[b]) = n + 1
    BY <1>0, <1>1, PutInFront
  <2> QED BY <1>0, <1>1, <2>1, PutInFront
<1> HIDE DEF n
<1>3. OneEach
  BY DistinctIs DEF DistinctNow
<1>4. ASSUME NEW i \in DOMAIN table', NEW j \in DOMAIN table'[i]
      PROVE  \/ i = b /\ j = 1 /\ table'[i][j] = e
             \/ i = b /\ j - 1 \in DOMAIN table[b] /\ j = (j - 1) + 1 /\ table'[i][j] = table[b][j - 1]
             \/ i # b /\ i \in DOMAIN table /\ j \in DOMAIN table[i] /\ table'[i][j] = table[i][j]
  <2>1. CASE i # b
    BY <1>1, <2>1
  <2>2. CASE i = b /\ j # 1
    <3>1. j - 1 \in 1 .. n /\ j = (j - 1) + 1
      BY <1>0, <1>2, <2>2
    <3> QED BY <1>0, <1>2, <2>2, <3>1
  <2>3. CASE i = b /\ j = 1
    BY <1>2, <2>3
  <2> QED BY <2>1, <2>2, <2>3
<1>5. OneEach'
  <2> SUFFICES ASSUME NEW i \in DOMAIN table', NEW j \in DOMAIN table'[i],
                      NEW g \in DOMAIN table', NEW h \in DOMAIN table'[g],
                      table'[i][j].key = table'[g][h].key
               PROVE  i = g /\ j = h
    BY DEF OneEach
  <2> QED BY <1>3, <1>4 DEF OneEach
<1>6. \A k : k \in DOMAIN MapOf' <=> k \in DOMAIN MapOf \/ k = e.key
  <2>1. ASSUME NEW k \in DOMAIN MapOf'
        PROVE  k \in DOMAIN MapOf \/ k = e.key
    <3>1. PICK i \in DOMAIN table' : \E j \in DOMAIN table'[i] : table'[i][j].key = k
      BY <1>5, MapBoth
    <3>2. PICK j \in DOMAIN table'[i] : table'[i][j].key = k
      BY <3>1
    <3>3. ASSUME NEW g \in DOMAIN table, NEW h \in DOMAIN table[g], table'[i][j] = table[g][h]
          PROVE  k \in DOMAIN MapOf
      BY <1>5, <3>2, <3>3, MapBoth
    <3>4. CASE table'[i][j] = e
      BY <3>2, <3>4
    <3> QED BY <1>4, <3>3, <3>4
  <2>2. ASSUME NEW k \in DOMAIN MapOf
        PROVE  k \in DOMAIN MapOf'
    <3>1. PICK i \in DOMAIN table : \E j \in DOMAIN table[i] : table[i][j].key = k
      BY <1>5, MapBoth
    <3>2. PICK j \in DOMAIN table[i] : table[i][j].key = k
      BY <3>1
    <3>3. CASE i = b
      <4>1. j + 1 \in DOMAIN table'[b] /\ table'[b][j + 1].key = k
        BY <1>0, <1>2, <3>2, <3>3
      <4> QED BY <1>1, <1>5, <4>1, MapBoth
    <3>4. CASE i # b
      BY <1>1, <1>5, <3>2, <3>4, MapBoth
    <3> QED BY <3>3, <3>4
  <2>3. e.key \in DOMAIN MapOf'
    <3>1. 1 \in DOMAIN table'[b]
      BY <1>0, <1>2
    <3> QED BY <1>1, <1>2, <1>5, <3>1, MapBoth
  <2> QED BY <2>1, <2>2, <2>3
<1>7. ASSUME NEW k \in DOMAIN MapOf'
      PROVE  MapOf'[k] = IF k = e.key THEN e.val ELSE MapOf[k]
  <2>1. PICK i \in DOMAIN table' : \E j \in DOMAIN table'[i] : table'[i][j].key = k
    BY <1>5, MapBoth
  <2>2. PICK j \in DOMAIN table'[i] : table'[i][j].key = k
    BY <2>1
  <2>3. MapOf'[k] = table'[i][j].val
    BY <1>5, <2>2, MapBoth
  <2>4. CASE table'[i][j] = e
    BY <2>2, <2>3, <2>4
  <2>5. ASSUME NEW g \in DOMAIN table, NEW h \in DOMAIN table[g], table'[i][j] = table[g][h]
        PROVE  MapOf'[k] = IF k = e.key THEN e.val ELSE MapOf[k]
    <3>1. k # e.key
      BY <2>2, <2>5
    <3>2. MapOf[k] = table[g][h].val
      BY <1>5, <2>2, <2>5, MapBoth
    <3> QED BY <2>3, <2>5, <3>1, <3>2
  <2> QED BY <1>4, <2>4, <2>5
<1>8. MapOf' = [k \in DOMAIN MapOf' |-> MapOf'[k]] /\ Distinct'
  BY <1>5, MapBoth
<1>9. DOMAIN MapOf' = DOMAIN MapOf \cup {e.key}
  BY <1>6
<1> QED BY <1>7, <1>8, <1>9

(* An entry is taken out of its bucket.                                    *)
LEMMA MapRemoved ==
    ASSUME TypeOK, TypeOK', Listless, Listless', Distinct,
           NEW b \in DOMAIN table, NEW n \in 1 .. Len(table[b]),
           table' = [table EXCEPT ![b] = RemoveAt(table[b], n)]
    PROVE  /\ Distinct'
           /\ MapOf' = [k \in DOMAIN MapOf \ {table[b][n].key} |-> MapOf[k]]
<1> DEFINE key == table[b][n].key
           m == Len(table[b])
<1>0. table[b] \in Seq(Entry) /\ m \in Nat /\ DOMAIN table[b] = 1 .. m /\ n \in 1 .. m
  BY TableHas
<1>1. /\ DOMAIN table' = DOMAIN table /\ \A i \in DOMAIN table : i # b => table'[i] = table[i]
      /\ table'[b] = RemoveAt(table[b], n)
  OBVIOUS
<1>2. /\ DOMAIN table'[b] = 1 .. m - 1
      /\ \A j \in 1 .. m - 1 : table'[b][j] = IF j < n THEN table[b][j] ELSE table[b][j + 1]
  <2>1. table'[b] \in Seq(Entry) /\ Len(table'[b]) = m - 1
    BY ZenonT(40), <1>0, <1>1, RemoveAtIs
  <2> QED BY SMTT(30), <1>0, <1>1, <2>1, RemoveAtIs
<1> HIDE DEF m, key
<1>3. OneEach
  BY DistinctIs DEF DistinctNow
<1>4. ASSUME NEW i \in DOMAIN table', NEW j \in DOMAIN table'[i]
      PROVE  \/ i = b /\ j < n /\ j \in DOMAIN table[b] /\ table'[i][j] = table[b][j]
             \/ i = b /\ j >= n /\ j + 1 \in DOMAIN table[b] /\ j + 1 > n /\ table'[i][j] = table[b][j + 1]
             \/ i # b /\ i \in DOMAIN table /\ j \in DOMAIN table[i] /\ table'[i][j] = table[i][j]
  BY <1>0, <1>1, <1>2
<1>5. OneEach'
  <2> SUFFICES ASSUME NEW i \in DOMAIN table', NEW j \in DOMAIN table'[i],
                      NEW g \in DOMAIN table', NEW h \in DOMAIN table'[g],
                      table'[i][j].key = table'[g][h].key
               PROVE  i = g /\ j = h
    BY DEF OneEach
  <2>1. i = g
    BY <1>3, <1>4 DEF OneEach
  <2>2. CASE i = b
    <3>1. j \in Nat /\ h \in Nat /\ n \in Nat
      BY <1>0, <1>2, <2>1, <2>2
    <3> QED BY <1>3, <1>4, <2>1, <2>2, <3>1 DEF OneEach
  <2>3. CASE i # b
    BY <1>3, <1>4, <2>1, <2>3 DEF OneEach
  <2> QED BY <2>1, <2>2, <2>3
<1>6. ASSUME NEW i \in DOMAIN table', NEW j \in DOMAIN table'[i]
      PROVE  /\ table'[i][j].key # key /\ table'[i][j].key \in DOMAIN MapOf
             /\ MapOf'[table'[i][j].key] = MapOf[table'[i][j].key]
  <2>1. \E g \in DOMAIN table : \E h \in DOMAIN table[g] :
           (g # b \/ h # n) /\ table'[i][j] = table[g][h]
    <3>1. CASE i = b /\ j < n /\ j \in DOMAIN table[b] /\ table'[i][j] = table[b][j]
      BY <1>0, <3>1
    <3>2. CASE i = b /\ j >= n /\ j + 1 \in DOMAIN table[b] /\ j + 1 > n /\ table'[i][j] = table[b][j + 1]
      BY <1>0, <3>2
    <3> QED BY <1>4, <3>1, <3>2
  <2>2. PICK g \in DOMAIN table : \E h \in DOMAIN table[g] :
           (g # b \/ h # n) /\ table'[i][j] = table[g][h]
    BY <2>1
  <2>3. PICK h \in DOMAIN table[g] : (g # b \/ h # n) /\ table'[i][j] = table[g][h]
    BY <2>2
  <2>4. table[g][h].key # key
    BY <1>0, <1>3, <2>3 DEF OneEach, key
  <2> QED BY <1>5, <2>3, <2>4, MapBoth
<1>7. ASSUME NEW k \in DOMAIN MapOf, k # key
      PROVE  k \in DOMAIN MapOf'
  <2>1. PICK i \in DOMAIN table : \E j \in DOMAIN table[i] : table[i][j].key = k
    BY <1>5, MapBoth
  <2>2. PICK j \in DOMAIN table[i] : table[i][j].key = k
    BY <2>1
  <2>3. CASE i # b
    BY <1>1, <1>5, <2>2, <2>3, MapBoth
  <2>4. CASE i = b /\ j < n
    <3>1. j \in 1 .. m - 1 /\ table'[b][j].key = k
      BY <1>0, <1>2, <2>2, <2>4
    <3> QED BY <1>1, <1>2, <1>5, <3>1, MapBoth
  <2>5. CASE i = b /\ j > n
    <3>1. j - 1 \in 1 .. m - 1 /\ ~ (j - 1 < n) /\ (j - 1) + 1 = j
      BY <1>0, <2>2, <2>5
    <3>2. table'[b][j - 1].key = k
      BY <1>2, <2>2, <2>5, <3>1
    <3> QED BY <1>1, <1>2, <1>5, <3>1, <3>2, MapBoth
  <2>6. ~ (i = b /\ j = n)
    BY <1>7, <2>2 DEF key
  <2> QED BY <1>0, <2>2, <2>3, <2>4, <2>5, <2>6
<1>8. MapOf' = [k \in DOMAIN MapOf' |-> MapOf'[k]] /\ Distinct'
  BY <1>5, MapBoth
<1>9. \A k : k \in DOMAIN MapOf' => k \in DOMAIN MapOf /\ k # key /\ MapOf'[k] = MapOf[k]
  BY <1>5, <1>6, MapBoth
<1>10. DOMAIN MapOf' = DOMAIN MapOf \ {key}
  BY <1>7, <1>9
<1> QED BY <1>8, <1>9, <1>10 DEF key
(***************************************************************************)
(* What the steps do to the map and to the request.                        *)
(***************************************************************************)
(* The end of a test, of a rehash, of a growth or of an addition below     *)
(* another frame leaves the request.                                       *)
LEMMA ReturnAsks ==
    ASSUME TypeOK, Shape, TypeOK', Shape', ~ Idle, Return,
           Depth = 1 => Top.op \in {"check", "rehash"},
           Depth = 2 => stack[1].op # "check"
    PROVE  Request' = Request
<1>1. /\ Depth' = Depth - 1 /\ Depth \in Nat \ {0} /\ (Idle' <=> Depth = 1) /\ Top = stack[Depth]
      /\ \A i \in 1 .. Depth - 1 : stack'[i] = stack[i]
  BY Returned DEF TypeOK, Top
<1>2. CASE Depth = 1
  <2>1. RequestNow /\ RequestNow'
    <3>1. (TypeOK /\ Shape => RequestNow)'
      BY RequestIs, PTL
    <3> QED BY <3>1, RequestIs
  <2> QED BY <1>1, <1>2, <2>1 DEF RequestNow
<1>3. CASE Depth = 2
  <2>1. stack'[1] = stack[1] /\ ~ Idle'
    BY <1>1, <1>3
  <2> QED BY <1>3, <2>1, RequestKept
<1>4. CASE Depth >= 3
  <2>1. stack'[1] = stack[1] /\ stack'[2] = stack[2] /\ ~ Idle' /\ Depth' >= 2 /\ Depth >= 2
    BY <1>1, <1>4
  <2> QED BY <2>1, RequestKept
<1> QED BY <1>1, <1>2, <1>3, <1>4

(* So does a step of a test, an addition or a removal that goes on.        *)
LEMMA GotoAsks ==
    ASSUME TypeOK, Shape, TypeOK', Shape', ~ Idle, NEW f \in Frame, Goto(f),
           \/ Top.op = "check" /\ f.op = "rehash"
           \/ Depth = 1 /\ Top.op = "rem" /\ f.op = "looping" /\ f.key = Top.key
           \/ Top.op \in Adding /\ f.op \in Adding /\ f.key = Top.key /\ f.val = Top.val
    PROVE  Request' = Request
<1>1. /\ Depth' = Depth /\ Depth \in Nat \ {0} /\ ~ Idle' /\ Top = stack[Depth] /\ stack'[Depth] = f
      /\ \A i \in 1 .. Depth - 1 : stack'[i] = stack[i]
  BY Gone DEF TypeOK, Top, Depth
<1>2. CASE Depth = 1
  <2>1. RequestNow /\ RequestNow'
    <3>1. (TypeOK /\ Shape => RequestNow)'
      BY RequestIs, PTL
    <3> QED BY <3>1, RequestIs
  <2>2. Top.op \notin Adding
    BY <1>1, <1>2 DEF Shape, Adding
  <2> QED BY <1>1, <1>2, <2>1, <2>2 DEF RequestNow
<1>3. CASE Depth = 2
  <2>1. stack'[1] = stack[1] /\ 2 \in 2 .. Depth
    BY <1>1, <1>3
  <2>2. stack[1].op = "check" => Top.op \in Adding
    BY <1>1, <1>3, <2>1 DEF Shape, Lists
  <2>3. stack[1].op = "check" => stack'[2].key = stack[2].key /\ stack'[2].val = stack[2].val
    BY <1>1, <1>3, <2>2 DEF Adding
  <2> QED BY <1>1, <1>3, <2>1, <2>3, RequestKept
<1>4. CASE Depth >= 3
  <2>1. stack'[1] = stack[1] /\ stack'[2] = stack[2] /\ ~ Idle' /\ Depth' >= 2 /\ Depth >= 2
    BY <1>1, <1>4
  <2> QED BY <2>1, RequestKept
<1> QED BY <1>1, <1>2, <1>3, <1>4

(* So does a list that hands out an entry, and an addition that waits for  *)
(* the growth.                                                             *)
LEMMA CallAsks ==
    ASSUME TypeOK, Shape, TypeOK', Shape', ~ Idle, NEW f \in Frame, NEW g \in Frame, Call(f, g),
           \/ Top.op \in Lists /\ g.op = Top.op
           \/ Top.op \in Adding /\ g.op \in Adding /\ g.key = Top.key /\ g.val = Top.val
    PROVE  Request' = Request
<1>1. /\ Depth' = Depth + 1 /\ Depth \in Nat \ {0} /\ ~ Idle' /\ Top = stack[Depth] /\ stack'[Depth] = g
      /\ \A i \in 1 .. Depth - 1 : stack'[i] = stack[i]
  BY Called DEF TypeOK, Top
<1>2. CASE Depth = 1
  <2>1. RequestNow /\ RequestNow'
    <3>1. (TypeOK /\ Shape => RequestNow)'
      BY RequestIs, PTL
    <3> QED BY <3>1, RequestIs
  <2>2. Top.op = "rehash" /\ stack'[1].op = "rehash"
    BY <1>1, <1>2 DEF Shape, Adding, Lists
  <2> QED BY <1>1, <1>2, <2>1, <2>2 DEF RequestNow
<1>3. CASE Depth = 2
  <2>1. stack'[1] = stack[1] /\ 2 \in 2 .. Depth
    BY <1>1, <1>3
  <2>2. stack[1].op = "check" => Top.op \in Adding
    BY <1>1, <1>3, <2>1 DEF Shape, Lists
  <2>3. stack[1].op = "check" => stack'[2].key = stack[2].key /\ stack'[2].val = stack[2].val
    BY <1>1, <1>3, <2>2 DEF Adding, Lists
  <2> QED BY <1>1, <1>3, <2>1, <2>3, RequestKept
<1>4. CASE Depth >= 3
  <2>1. stack'[1] = stack[1] /\ stack'[2] = stack[2] /\ ~ Idle' /\ Depth' >= 2 /\ Depth >= 2
    BY <1>1, <1>4
  <2> QED BY <2>1, RequestKept
<1> QED BY <1>1, <1>2, <1>3, <1>4

(* The step is one of the map.                                             *)
MapNext == [Map!Ask \/ Map!Perform]_Map!vars

(* A step that keeps contents, request and answer is none of the map's.    *)
LEMMA KeptIs ==
    ASSUME Contents' = Contents, Request' = Request, answer' = answer
    PROVE  MapNext
<1>1. MapOf' = MapOf
  BY DEF MapOf
<1> QED BY <1>1 DEF MapNext, Map!vars

(* The steps that only move entries.                                       *)
LEMMA MovesKeep ==
    ASSUME TypeOK, Shape, TypeOK', Shape', Distinct,
           Check \/ AddNext \/ EndRehash \/ Add \/ Grow \/ EndGrow \/ ReadAddress
    PROVE  Distinct' /\ MapNext
<1>0. answer' = answer
  BY DEF Check, StartRehash, AddNext, EndRehash, Add, Grow, EndGrow, ReadAddress
<1>1. CASE Check
  <2>1. CASE StartRehash /\ Goto(ListFrame("rehash", FlattenSeq(GivenUp)))
    <3>1. Contents' = Contents /\ Distinct'
      BY <1>1, <2>1, CheckDoes, RehashKeeps
    <3>2. Request' = Request
      BY <1>1, <2>1, CheckDoes, GotoAsks DEF ListFrame
    <3> QED BY <1>0, <3>1, <3>2, KeptIs
  <2>2. CASE Return /\ UNCHANGED <<heap, table, size, count, needed, newest, moved, answer>>
    <3>1. ~ Idle /\ Top.op = "check" /\ Top.op \notin Adding \cup Lists /\ Top = stack[Depth]
      BY <1>1, CheckDoes DEF Adding, Lists, Top
    <3>2. Contents' = Contents /\ Distinct'
      BY <2>2, <3>1, ReturnKeeps
    <3>3. Depth = 2 => stack[1].op # "check"
      BY <3>1 DEF Shape, Lists, Adding
    <3>4. Request' = Request
      BY <2>2, <3>1, <3>3, ReturnAsks
    <3> QED BY <1>0, <3>2, <3>4, KeptIs
  <2> QED BY <1>1, <2>1, <2>2, CheckDoes
<1>2. CASE AddNext
  <2>1. Contents' = Contents /\ Distinct'
    BY <1>2, AddNextKeeps
  <2>2. Request' = Request
    BY <1>2, AddNextDoes, CallAsks DEF ListFrame
  <2> QED BY <1>0, <2>1, <2>2, KeptIs
<1>3. CASE EndRehash \/ EndGrow
  <2>1. /\ ~ Idle /\ Top.op \in Lists /\ Top.op \notin Adding /\ Top.list = <<>> /\ Return
        /\ table' = table /\ Top = stack[Depth] /\ Depth \in Nat \ {0}
    BY <1>3, TopHas DEF EndRehash, EndGrow, At, Lists, Adding, Top
  <2>2. Contents' = Contents /\ Distinct'
    BY <2>1, ReturnKeeps
  <2>3. (Depth = 1 => Top.op = "rehash") /\ (Depth = 2 => stack[1].op # "check")
    BY <2>1 DEF Shape, Lists, Adding
  <2>4. Request' = Request
    BY <2>1, <2>3, ReturnAsks
  <2> QED BY <1>0, <2>2, <2>4, KeptIs
<1>4. CASE Add
  <2>1. PICK op \in {"array", "index"} :
           AddFrame(op, Top.key, Top.val) \in Frame /\ Goto(AddFrame(op, Top.key, Top.val))
    BY <1>4, AddDoes
  <2>2. /\ ~ Idle /\ table' = table /\ Top.op \in Adding /\ AddFrame(op, Top.key, Top.val).op \in Adding
        /\ AddFrame(op, Top.key, Top.val).key = Top.key /\ AddFrame(op, Top.key, Top.val).val = Top.val
    BY <1>4, AddDoes DEF Add, Adding, AddFrame
  <2>3. Contents' = Contents /\ Distinct'
    BY <2>1, <2>2, GotoKeeps
  <2>4. Request' = Request
    BY <2>1, <2>2, GotoAsks
  <2> QED BY <1>0, <2>3, <2>4, KeptIs
<1>5. CASE Grow
  <2>1. Contents' = Contents /\ Distinct'
    BY <1>5, GrowKeeps
  <2>2. Request' = Request
    BY <1>5, GrowDoes, CallAsks DEF AddFrame, Adding
  <2> QED BY <1>0, <2>1, <2>2, KeptIs
<1>6. CASE ReadAddress
  <2> DEFINE f == PushFrame(Top.key, Top.val, Top.index, addr[Top.key])
  <2>1. /\ ~ Idle /\ table' = table /\ Top.op \in Adding /\ f \in Frame /\ Goto(f) /\ f.op \in Adding
        /\ f.key = Top.key /\ f.val = Top.val
    BY <1>6, ReadAddressDoes DEF ReadAddress, Adding, PushFrame
  <2> HIDE DEF f
  <2>2. Contents' = Contents /\ Distinct'
    BY <2>1, GotoKeeps
  <2>3. Request' = Request
    BY <2>1, GotoAsks
  <2> QED BY <1>0, <2>2, <2>3, KeptIs
<1> QED BY <1>1, <1>2, <1>3, <1>4, <1>5, <1>6

(* The addition of a caller, above the test that follows it, is the only   *)
(* frame that may hold an entry: its end performs the call.                *)
LEMMA AdditionAsked ==
    ASSUME TypeOK, Shape, TypeOK', Shape', ~ Idle, Return, Top.op \in Adding,
           Depth > 1 => stack[Depth - 1].op \notin Lists
    PROVE  /\ Listless /\ Listless'
           /\ Request = [op |-> "set", key |-> Top.key, val |-> Top.val]
           /\ Request' = [op |-> "none"]
<1>1. /\ Depth' = Depth - 1 /\ Depth \in Nat \ {0} /\ (Idle' <=> Depth = 1) /\ Top = stack[Depth]
      /\ \A i \in 1 .. Depth - 1 : stack'[i] = stack[i]
      /\ DOMAIN stack = 1 .. Depth /\ DOMAIN stack' = 1 .. Depth'
  <2>1. /\ Depth' = Depth - 1 /\ Depth \in Nat \ {0} /\ (Idle' <=> Depth = 1)
        /\ \A i \in 1 .. Depth - 1 : stack'[i] = stack[i]
    BY Returned DEF TypeOK
  <2>2. DOMAIN stack = 1 .. Depth /\ DOMAIN stack' = 1 .. Depth'
    BY DEF TypeOK, Depth
  <2> QED BY <2>1, <2>2 DEF Top
<1>2. Depth = 2 /\ stack[1].op = "check"
  <2>1. Depth # 1
    BY <1>1 DEF Shape, Adding
  <2>2. Depth \in 2 .. Depth
    BY <1>1, <2>1
  <2> QED BY <1>1, <2>2 DEF Shape, Adding, Lists
<1>3. Top.op \notin Lists
  BY DEF Adding, Lists
<1>4. Listless /\ Listless'
  BY <1>1, <1>2, <1>3 DEF Listless, Lists
<1>5. RequestNow /\ RequestNow'
  <2>1. (TypeOK /\ Shape => RequestNow)'
    BY RequestIs, PTL
  <2> QED BY <2>1, RequestIs
<1> QED BY <1>1, <1>2, <1>4, <1>5 DEF RequestNow

(* What the map does for a call that is performed.                         *)
LEMMA PerformedSet ==
    ASSUME NEW k, NEW v, Request = [op |-> "set", key |-> k, val |-> v], Request' = [op |-> "none"],
           answer' = answer,
           MapOf' = [j \in DOMAIN MapOf \cup {k} |-> IF j = k THEN v ELSE MapOf[j]]
    PROVE  MapNext
<1>1. Map!Perform
  BY DEF Map!Perform, Map!With, Map!NoRequest
<1> QED BY <1>1 DEF MapNext

(* A removal.                                                              *)
LEMMA PerformedRem ==
    ASSUME NEW k, Request = [op |-> "rem", key |-> k], Request' = [op |-> "none"], answer' = answer,
           MapOf' = [j \in DOMAIN MapOf \ {k} |-> MapOf[j]]
    PROVE  MapNext
<1>1. Map!Perform
  BY DEF Map!Perform, Map!Without, Map!NoRequest
<1> QED BY <1>1 DEF MapNext

(* A look-up.                                                              *)
LEMMA PerformedGet ==
    ASSUME NEW k, Request = [op |-> "get", key |-> k], Request' = [op |-> "none"], MapOf' = MapOf,
           answer' = IF k \in DOMAIN MapOf THEN MapOf[k] ELSE NoValue
    PROVE  MapNext
<1>1. Map!Perform
  BY DEF Map!Perform, Map!NoRequest
<1> QED BY <1>1 DEF MapNext

(* The removal of everything.                                              *)
LEMMA PerformedClear ==
    ASSUME Request = [op |-> "clear"], Request' = [op |-> "none"], answer' = answer, MapOf' = <<>>
    PROVE  MapNext
<1>1. Map!Perform
  BY DEF Map!Perform, Map!NoRequest
<1> QED BY <1>1 DEF MapNext

(* A search for the key of an addition.                                    *)
LEMMA SearchNext ==
    ASSUME TypeOK, Shape, TypeOK', Shape', Distinct, Search
    PROVE  Distinct' /\ MapNext
<1> DEFINE b == Index(Top.key)
<1>0. /\ answer' = answer /\ ~ Idle /\ Top.op \in Adding /\ Top = stack[Depth] /\ Depth \in Nat \ {0}
      /\ b \in DOMAIN table /\ DOMAIN stack = 1 .. Depth
  <2>1. ~ Idle /\ Top.op \in Adding /\ b \in DOMAIN table
    BY SearchDoes DEF Adding
  <2>2. answer' = answer /\ DOMAIN stack = 1 .. Depth /\ Top = stack[Depth]
    BY DEF Search, TypeOK, Depth, Top
  <2> QED BY <2>1, <2>2, TopHas
<1>1. CASE Goto(AddressFrame(Top.key, Top.val, b)) /\ table' = table
  <2> DEFINE f == AddressFrame(Top.key, Top.val, b)
  <2>1. f \in Frame /\ Goto(f) /\ f.op \in Adding /\ f.key = Top.key /\ f.val = Top.val
    BY <1>1, SearchDoes DEF AddressFrame, Adding
  <2> HIDE DEF f, b
  <2>2. Contents' = Contents /\ Distinct'
    BY <1>0, <1>1, <2>1, GotoKeeps
  <2>3. Request' = Request
    BY <1>0, <2>1, GotoAsks
  <2> QED BY <1>0, <2>2, <2>3, KeptIs
<1>2. ASSUME Return, NEW n \in 1 .. Len(table[b]), table[b][n].key = Top.key,
             table' = [table EXCEPT ![b] = [table[b] EXCEPT ![n] = [table[b][n] EXCEPT !.val = Top.val]]]
      PROVE  Distinct' /\ MapNext
  <2> HIDE DEF b
  <2>1. Depth > 1 => stack[Depth - 1].op \notin Lists
    <3> SUFFICES ASSUME Depth > 1, stack[Depth - 1].op \in Lists
                 PROVE  FALSE
      OBVIOUS
    <3>1. <<"held", Depth, 0>> \in Places /\ <<"table", b, n>> \in Places
      <4>1. n \in DOMAIN table[b] /\ Depth \in DOMAIN stack
        BY <1>0, <1>2, TableHas
      <4> QED BY <1>0, <4>1, PlacesAre DEF PlacesNow
    <3>2. ItemAt(<<"held", Depth, 0>>) = Top /\ ItemAt(<<"table", b, n>>) = table[b][n]
      BY <1>0 DEF ItemAt
    <3>3. <<"held", Depth, 0>> = <<"table", b, n>>
      BY <1>2, <3>1, <3>2 DEF Distinct
    <3> QED BY <3>3
  <2>2. /\ Listless /\ Listless'
        /\ Request = [op |-> "set", key |-> Top.key, val |-> Top.val] /\ Request' = [op |-> "none"]
    BY <1>0, <1>2, <2>1, AdditionAsked
  <2>3. /\ Distinct'
        /\ MapOf' = [k \in DOMAIN MapOf \cup {Top.key} |-> IF k = Top.key THEN Top.val ELSE MapOf[k]]
    <3> DEFINE key == table[b][n].key
           v == Top.val
    <3>0. table' = [table EXCEPT ![b] = [table[b] EXCEPT ![n] = [table[b][n] EXCEPT !.val = v]]]
      BY <1>2
    <3> HIDE DEF v
    <3>1. Distinct' /\ MapOf' = [k \in DOMAIN MapOf \cup {key} |-> IF k = key THEN v ELSE MapOf[k]]
      BY <1>0, <2>2, <3>0, MapReplaced
    <3>2. key = Top.key
      BY <1>2
    <3> HIDE DEF key
    <3> QED BY <3>1, <3>2 DEF v
  <2> QED BY <1>0, <2>2, <2>3, PerformedSet
<1> QED BY <1>1, <1>2, SearchDoes

(* The end of an addition that made an entry.                              *)
LEMMA PushNext ==
    ASSUME TypeOK, Shape, TypeOK', Shape', Distinct, PlacedInv, NewInv, Push
    PROVE  Distinct' /\ MapNext
<1>0. /\ answer' = answer /\ ~ Idle /\ Top.op \in Adding /\ Top = stack[Depth] /\ Depth \in Nat \ {0}
      /\ At("push") /\ Return /\ Made(Top) \in Entry
      /\ table' = [table EXCEPT ![Top.index] = <<Made(Top)>> \o table[Top.index]]
  <2>1. answer' = answer /\ At("push") /\ Top = stack[Depth]
    BY DEF Push, Top
  <2> QED BY <2>1, PushDoes, TopHas DEF Adding
<1>1. Top.index \in DOMAIN table
  <2>1. Top.stored \in Nat
    BY <1>0, TableAssumption DEF Made, Entry
  <2> QED BY <1>0, <2>1, TableHas DEF PlacedInv
<1>2. CASE Depth > 1 /\ stack[Depth - 1].op \in Lists
  <2>1. Contents' = Contents /\ Distinct'
    BY <1>1, <1>2, PushKeeps
  <2>2. Depth = 2 => stack[1].op # "check"
    BY <1>2 DEF Lists
  <2>3. Request' = Request
    BY <1>0, <1>2, <2>2, ReturnAsks
  <2> QED BY <1>0, <2>1, <2>3, KeptIs
<1>3. CASE Depth > 1 => stack[Depth - 1].op \notin Lists
  <2>1. /\ Listless /\ Listless'
        /\ Request = [op |-> "set", key |-> Top.key, val |-> Top.val] /\ Request' = [op |-> "none"]
    BY <1>0, <1>3, AdditionAsked
  <2>2. Made(Top).key = Top.key /\ Made(Top).val = Top.val
    BY DEF Made
  <2>3. \A i \in DOMAIN table : \A j \in DOMAIN table[i] : table[i][j].key # Made(Top).key
    BY <1>0, <2>2 DEF NewInv
  <2>4. /\ Distinct'
        /\ MapOf' = [k \in DOMAIN MapOf \cup {Top.key} |-> IF k = Top.key THEN Top.val ELSE MapOf[k]]
    <3> DEFINE e == Made(Top)
    <3>1. Distinct' /\ MapOf' = [k \in DOMAIN MapOf \cup {e.key} |-> IF k = e.key THEN e.val ELSE MapOf[k]]
      BY <1>0, <1>1, <2>1, <2>3, MapAdded
    <3> HIDE DEF e
    <3>2. e.key = Top.key /\ e.val = Top.val
      BY <2>2 DEF e
    <3> QED BY <3>1, <3>2
  <2> QED BY <1>0, <2>1, <2>4, PerformedSet
<1> QED BY <1>2, <1>3

(* A key is looked for when nothing else is in progress, and every entry   *)
(* is where its key hashes to.                                             *)
LEMMA Looked ==
    ASSUME TypeOK, Shape, TypeOK', Shape', Distinct, PlacedInv, SettledInv,
           At("get") \/ At("rem"), Return
    PROVE  /\ Depth = 1 /\ Listless /\ Listless' /\ Request = Top /\ Request' = [op |-> "none"]
           /\ \A i \in DOMAIN table : \A j \in DOMAIN table[i] :
                 table[i][j].key = Top.key => i = Index(Top.key)
<1>1. /\ ~ Idle /\ Depth' = Depth - 1 /\ Depth \in Nat \ {0} /\ (Idle' <=> Depth = 1) /\ Top = stack[Depth]
      /\ DOMAIN stack = 1 .. Depth /\ DOMAIN stack' = 1 .. Depth' /\ Top.op \in {"get", "rem"}
  <2>1. ~ Idle /\ Top.op \in {"get", "rem"}
    BY DEF At
  <2>2. Depth' = Depth - 1 /\ Depth \in Nat \ {0} /\ (Idle' <=> Depth = 1)
    BY <2>1, Returned DEF TypeOK
  <2>3. DOMAIN stack = 1 .. Depth /\ DOMAIN stack' = 1 .. Depth'
    BY DEF TypeOK, Depth
  <2> QED BY <2>1, <2>2, <2>3 DEF Top
<1>2. Depth = 1
  <2>1. CASE Depth # 1
    <3>1. Depth \in 2 .. Depth
      BY <1>1, <2>1
    <3> QED BY <1>1, <3>1 DEF Shape, Lists, Adding
  <2> QED BY <2>1
<1>3. Listless /\ Listless'
  BY <1>1, <1>2 DEF Listless, Lists
<1>4. RequestNow /\ RequestNow'
  <2>1. (TypeOK /\ Shape => RequestNow)'
    BY RequestIs, PTL
  <2> QED BY <2>1, RequestIs
<1>5. Request = Top /\ Request' = [op |-> "none"]
  <2>1. Top.op = "rem" => Top = [op |-> "rem", key |-> Top.key]
    BY <1>1, TopHas, FrameHas
  <2> QED BY <1>1, <1>2, <1>4, <2>1 DEF RequestNow
<1>6. Fresh
  BY <1>1, <1>2 DEF SettledInv
<1>7. ASSUME NEW i \in DOMAIN table, NEW j \in DOMAIN table[i], table[i][j].key = Top.key
      PROVE  i = Index(Top.key)
  <2>1. table[i][j].stored = addr[Top.key] /\ table[i][j].stored % size = i
    BY <1>6, <1>7 DEF Fresh, Stale, PlacedInv
  <2> QED BY <2>1 DEF Index
<1> QED BY <1>2, <1>3, <1>5, <1>7

(* GETHASH answers what the map has.                                       *)
LEMMA GetHashNext ==
    ASSUME TypeOK, Shape, TypeOK', Shape', Distinct, PlacedInv, SettledInv, GetHash
    PROVE  Distinct' /\ MapNext
<1> DEFINE key == Top.key
           b == Index(key)
           j == Find(key, table[b])
<1>1. /\ At("get") /\ ~ Idle /\ Return /\ table' = table
      /\ answer' = IF j # 0 THEN table[b][j].val ELSE NoValue
  BY DEF GetHash, At
<1>2. Top.op = "get" /\ key \in Keys /\ Top = [op |-> "get", key |-> key]
  BY <1>1, TopHas, FrameHas DEF At
<1>3. /\ Listless /\ Listless' /\ Request = Top /\ Request' = [op |-> "none"]
      /\ \A i \in DOMAIN table : \A n \in DOMAIN table[i] : table[i][n].key = key => i = b
  BY <1>1, Looked
<1>4. Contents' = Contents /\ Distinct'
  BY <1>1, <1>2, ReturnKeeps DEF Adding, Lists
<1>5. MapOf' = MapOf
  BY <1>4 DEF MapOf
<1>6. /\ \A k : k \in DOMAIN MapOf <=> \E i \in DOMAIN table : \E n \in DOMAIN table[i] : table[i][n].key = k
      /\ \A i \in DOMAIN table : \A n \in DOMAIN table[i] : MapOf[table[i][n].key] = table[i][n].val
  BY <1>3, MapIs DEF MapNow
<1>7. b \in DOMAIN table /\ table[b] \in Seq(Entry) /\ DOMAIN table[b] = 1 .. Len(table[b])
  BY <1>2, IndexIn, TableHas
<1> HIDE DEF b, key
<1>8. answer' = IF key \in DOMAIN MapOf THEN MapOf[key] ELSE NoValue
  <2>1. CASE j # 0
    <3>1. j \in DOMAIN table[b] /\ table[b][j].key = key
      BY <1>7, <2>1, FindIs
    <3>2. key \in DOMAIN MapOf /\ MapOf[key] = table[b][j].val
      BY <1>6, <1>7, <3>1
    <3> QED BY <1>1, <2>1, <3>2
  <2>2. CASE j = 0
    <3>1. \A n \in DOMAIN table[b] : table[b][n].key # key
      BY <1>7, <2>2, FindIs
    <3>2. key \notin DOMAIN MapOf
      BY <1>3, <1>6, <3>1
    <3> QED BY <1>1, <2>2, <3>2
  <2> QED BY <2>1, <2>2
<1> QED BY <1>2, <1>3, <1>4, <1>5, <1>8, PerformedGet

(* REMHASH removes what the map has, or does not end.                      *)
LEMMA RemHashNext ==
    ASSUME TypeOK, Shape, TypeOK', Shape', Distinct, PlacedInv, SettledInv, RemHash
    PROVE  Distinct' /\ MapNext
<1> DEFINE key == Top.key
           b == Index(key)
<1>1. At("rem") /\ ~ Idle /\ answer' = answer
  BY DEF RemHash, At
<1>2. Top.op = "rem" /\ key \in Keys /\ Top = [op |-> "rem", key |-> key]
  BY <1>1, TopHas, FrameHas DEF At
<1>3. b \in DOMAIN table /\ table[b] \in Seq(Entry) /\ DOMAIN table[b] = 1 .. Len(table[b])
  BY <1>2, IndexIn, TableHas
<1>4. \/ /\ Return
         /\ \E j \in 1 .. Len(table[b]) : /\ table[b][j].key = key
                                          /\ table' = [table EXCEPT ![b] = RemoveAt(table[b], j)]
      \/ Return /\ table[b] = <<>> /\ table' = table
      \/ /\ [op |-> "looping", key |-> key] \in Frame
         /\ Goto([op |-> "looping", key |-> key]) /\ table' = table
  BY RemHashDoes
<1>5. ASSUME Return
      PROVE  /\ Listless /\ Listless' /\ Request = [op |-> "rem", key |-> key] /\ Request' = [op |-> "none"]
             /\ \A i \in DOMAIN table : \A n \in DOMAIN table[i] : table[i][n].key = key => i = b
  BY <1>1, <1>2, <1>5, Looked
<1> HIDE DEF b, key
<1>6. ASSUME Return, NEW j \in 1 .. Len(table[b]), table[b][j].key = key,
             table' = [table EXCEPT ![b] = RemoveAt(table[b], j)]
      PROVE  Distinct' /\ MapNext
  <2> DEFINE k == table[b][j].key
  <2>1. Distinct' /\ MapOf' = [n \in DOMAIN MapOf \ {k} |-> MapOf[n]]
    BY <1>3, <1>5, <1>6, MapRemoved
  <2>2. k = key
    BY <1>6
  <2> HIDE DEF k
  <2>3. MapOf' = [n \in DOMAIN MapOf \ {key} |-> MapOf[n]]
    BY <2>1, <2>2
  <2> QED BY <1>1, <1>5, <1>6, <2>1, <2>3, PerformedRem
<1>7. CASE Return /\ table[b] = <<>> /\ table' = table
  <2>1. Contents' = Contents /\ Distinct'
    BY <1>1, <1>2, <1>7, ReturnKeeps DEF Adding, Lists
  <2>2. MapOf' = MapOf
    BY <2>1 DEF MapOf
  <2>3. /\ MapOf = [k \in DOMAIN MapOf |-> MapOf[k]]
        /\ \A k : k \in DOMAIN MapOf <=> \E i \in DOMAIN table : \E n \in DOMAIN table[i] : table[i][n].key = k
    BY <1>5, <1>7, MapIs DEF MapNow
  <2>4. DOMAIN table[b] = {}
    BY <1>7
  <2>5. key \notin DOMAIN MapOf
    BY <1>5, <1>7, <2>3, <2>4
  <2>6. DOMAIN MapOf \ {key} = DOMAIN MapOf
    BY <2>5
  <2>7. MapOf' = [n \in DOMAIN MapOf \ {key} |-> MapOf[n]]
    BY <2>2, <2>3, <2>6
  <2> QED BY <1>1, <1>5, <1>7, <2>1, <2>7, PerformedRem
<1>8. CASE /\ [op |-> "looping", key |-> key] \in Frame
           /\ Goto([op |-> "looping", key |-> key]) /\ table' = table
  <2> DEFINE f == [op |-> "looping", key |-> key]
  <2>1. f \in Frame /\ Goto(f) /\ f.op = "looping" /\ f.key = Top.key
    BY <1>8 DEF key
  <2>2. Top.op \notin Adding \cup Lists /\ f.op \notin Adding \cup Lists
    BY <1>2, <2>1 DEF Adding, Lists
  <2>3. Depth = 1
    <3>1. Depth \in Nat \ {0} /\ Top = stack[Depth]
      BY <1>1, TopHas DEF Top
    <3>2. CASE Depth # 1
      <4>1. Depth \in 2 .. Depth
        BY <3>1, <3>2
      <4> QED BY <1>2, <3>1, <4>1 DEF Shape, Lists, Adding
    <3> QED BY <3>2
  <2> HIDE DEF f
  <2>4. Contents' = Contents /\ Distinct'
    BY <1>1, <1>8, <2>1, <2>2, GotoKeeps
  <2>5. Request' = Request
    BY <1>1, <1>2, <2>1, <2>3, GotoAsks
  <2> QED BY <1>1, <2>4, <2>5, KeptIs
<1> QED BY <1>4, <1>6, <1>7, <1>8

(* CLRHASH leaves no entry.                                                *)
LEMMA ClrHashNext ==
    ASSUME TypeOK, Shape, TypeOK', Shape', Distinct, ClrHash
    PROVE  Distinct' /\ MapNext
<1>1. /\ ~ Idle /\ Return /\ Top.op = "clear" /\ answer' = answer /\ Top = stack[Depth]
      /\ \A i \in DOMAIN table' : table'[i] = <<>>
  BY DEF ClrHash, At, Top
<1>2. Depth' = Depth - 1 /\ Depth \in Nat \ {0} /\ (Idle' <=> Depth = 1)
  BY <1>1, Returned DEF TypeOK
<1>3. Depth = 1
  <2>1. CASE Depth # 1
    <3>1. Depth \in 2 .. Depth
      BY <1>2, <2>1
    <3> QED BY <1>1, <3>1 DEF Shape, Lists, Adding
  <2> QED BY <2>1
<1>4. DOMAIN stack' = {}
  BY <1>2, <1>3 DEF TypeOK, Depth
<1>5. Listless'
  BY <1>4 DEF Listless
<1>6. \A i \in DOMAIN table' : DOMAIN table'[i] = {}
  BY <1>1
<1>7. OneEach'
  BY <1>6 DEF OneEach
<1>8. DistinctNow' /\ MapNow'
  BY DistinctIs, MapIs, PTL
<1>9. Distinct'
  BY <1>5, <1>7, <1>8 DEF DistinctNow
<1>10. /\ MapOf' = [k \in DOMAIN MapOf' |-> MapOf'[k]]
       /\ \A k : k \in DOMAIN MapOf' <=>
             \E i \in DOMAIN table' : \E n \in DOMAIN table'[i] : table'[i][n].key = k
  BY <1>5, <1>8, <1>9 DEF MapNow
<1>11. MapOf' = <<>>
  <2>1. DOMAIN MapOf' = {}
    BY <1>6, <1>10
  <2> QED BY <1>10, <2>1
<1>12. Request = [op |-> "clear"] /\ Request' = [op |-> "none"]
  <2>1. RequestNow /\ RequestNow'
    <3>1. (TypeOK /\ Shape => RequestNow)'
      BY RequestIs, PTL
    <3> QED BY <3>1, RequestIs
  <2>2. Top = [op |-> "clear"]
    BY <1>1, TopHas DEF Frame, Lists
  <2> QED BY <1>1, <1>2, <1>3, <2>1, <2>2 DEF RequestNow
<1> QED BY <1>1, <1>9, <1>11, <1>12, PerformedClear

(* A call is asked for.                                                    *)
LEMMA AskNext ==
    ASSUME TypeOK, Shape, TypeOK', Shape', Distinct, Ask
    PROVE  Distinct' /\ MapNext
<1>1. Idle /\ answer' = NoValue /\ table' = table
  BY DEF Ask
<1>2. PICK k \in Keys :
         \/ stack' = <<[op |-> "get", key |-> k], [op |-> "check"]>>
         \/ stack' = <<[op |-> "rem", key |-> k], [op |-> "check"]>>
         \/ \E v \in Values :
               stack' = <<[op |-> "check"], [op |-> "add", key |-> k, val |-> v], [op |-> "check"]>>
         \/ stack' = <<[op |-> "clear"]>>
  BY DEF Ask
<1>3. ~ Idle' /\ Depth' \in {1, 2, 3} /\ DOMAIN stack' = 1 .. Depth'
  BY SMTT(30), <1>2 DEF Idle, Depth
<1>4. \A i \in DOMAIN stack' : stack'[i].op \notin Lists
  BY <1>2 DEF Lists
<1>5. DOMAIN stack = {}
  BY <1>1 DEF Idle
<1>6. Places' = Places
  <2>1. PlacesNow /\ PlacesNow'
    BY PlacesAre, PTL
  <2>2. \A i \in DOMAIN stack' : i > 1 => i - 1 \in DOMAIN stack'
    BY <1>3
  <2>3. \A p : p \in Places' <=> \E i \in DOMAIN table : \E j \in DOMAIN table[i] : p = <<"table", i, j>>
    BY <1>1, <1>4, <2>1, <2>2 DEF PlacesNow
  <2>4. \A p : p \in Places <=> \E i \in DOMAIN table : \E j \in DOMAIN table[i] : p = <<"table", i, j>>
    BY <1>5, <2>1 DEF PlacesNow
  <2> QED BY <2>3, <2>4
<1>7. ASSUME NEW p \in Places
      PROVE  ItemAt(p)' = ItemAt(p)
  BY <1>1, <1>5, PlacesAre DEF PlacesNow, ItemAt
<1>8. Contents' = Contents /\ Distinct'
  BY <1>6, <1>7, Untouched
<1>9. MapOf' = MapOf
  BY <1>8 DEF MapOf
<1>10. RequestNow /\ RequestNow'
  <2>1. (TypeOK /\ Shape => RequestNow)'
    BY RequestIs, PTL
  <2> QED BY <2>1, RequestIs
<1>11. Request = [op |-> "none"]
  BY <1>1, <1>10 DEF RequestNow
<1>12. Request' \in Map!Requests
  <2>1. CASE stack' = <<[op |-> "get", key |-> k], [op |-> "check"]>>
    <3>1. Request' = [op |-> "get", key |-> k]
      BY <1>3, <1>10, <2>1 DEF RequestNow
    <3> QED BY <3>1 DEF Map!Requests
  <2>2. CASE stack' = <<[op |-> "rem", key |-> k], [op |-> "check"]>>
    <3>1. Request' = [op |-> "rem", key |-> k]
      BY <1>3, <1>10, <2>2 DEF RequestNow
    <3> QED BY <3>1 DEF Map!Requests
  <2>3. ASSUME NEW v \in Values,
               stack' = <<[op |-> "check"], [op |-> "add", key |-> k, val |-> v], [op |-> "check"]>>
        PROVE  Request' \in Map!Requests
    <3>1. /\ stack'[1].op = "check" /\ stack'[2].key = k /\ stack'[2].val = v /\ Depth' >= 2
      BY <2>3 DEF Depth
    <3>2. Request' = [op |-> "set", key |-> k, val |-> v]
      BY <1>3, <1>10, <3>1 DEF RequestNow
    <3> QED BY <3>2 DEF Map!Requests
  <2>4. CASE stack' = <<[op |-> "clear"]>>
    <3>1. Request' = [op |-> "clear"]
      BY <1>3, <1>10, <2>4 DEF RequestNow
    <3> QED BY <3>1 DEF Map!Requests
  <2> QED BY <1>2, <2>1, <2>2, <2>3, <2>4
<1>13. Map!Ask
  BY <1>1, <1>9, <1>11, <1>12 DEF Map!Ask, Map!NoRequest
<1> QED BY <1>8, <1>13 DEF MapNext

(* What the map rests on.                                                  *)
MapInv == TableInv /\ PlacedInv /\ KnownInv /\ SettledInv /\ NewInv /\ Distinct

(* Every step is one of the map, or none.                                  *)
LEMMA MapStep ==
    ASSUME MapInv, TableInv', [Next]_vars
    PROVE  Distinct' /\ MapNext
<1> USE DEF MapInv, TableInv
<1>1. CASE (\E l \in Generations : Collect(l)) \/ Loop \/ UNCHANGED vars
  <2>1. UNCHANGED <<table, stack, answer>>
    BY <1>1 DEF Collect, Loop, vars
  <2>2. Contents' = Contents /\ Distinct'
    BY <2>1, CollectKeeps
  <2>3. Request' = Request
    BY <2>1 DEF Request, Own, Borrowed
  <2> QED BY <2>1, <2>2, <2>3, KeptIs
<1> QED BY <1>1, AskNext, MovesKeep, SearchNext, PushNext, GetHashNext, RemHashNext, ClrHashNext DEF Next, Step

(* The map and the invariants at the start.                                *)
LEMMA MapInit == Init => MapInv /\ Map!Init
<1> SUFFICES ASSUME Init
             PROVE  MapInv /\ Map!Init
  OBVIOUS
<1>1. TableInv /\ PlacedInv /\ KnownInv /\ TypeOK /\ Shape
  BY TableInit DEF TableInv
<1>2. Idle /\ stack = <<>> /\ DOMAIN stack = {}
  BY DEF Init, Idle
<1>3. \A i \in DOMAIN table : table[i] = <<>>
  BY DEF Init
<1>4. \A i \in DOMAIN table : DOMAIN table[i] = {}
  BY <1>3
<1>5. \A p : p \notin Places
  BY <1>2, <1>4, PlacesAre DEF PlacesNow
<1>6. Distinct /\ Contents = {}
  BY <1>5 DEF Distinct, Contents
<1>7. MapOf = <<>>
  BY <1>6 DEF MapOf
<1>8. Request = [op |-> "none"]
  BY <1>1, <1>2, RequestIs DEF RequestNow
<1>9. SettledInv /\ NewInv
  BY <1>2 DEF SettledInv, NewInv, At
<1> QED BY <1>1, <1>6, <1>7, <1>8, <1>9 DEF MapInv, Map!Init, Map!NoRequest, Init

(* As long as collections happen between operations or where one allocates *)
(* outside of a rehash and of a growth, and none of them moves the key     *)
(* that is being added before it has been searched for ("test") or before  *)
(* its address is read ("address"), the table is a finite map: every       *)
(* operation takes effect once, and no move of an entry from a bucket to a *)
(* list and back, in the old table or the larger one, loses or doubles an  *)
(* entry.                                                                  *)
THEOREM TableIsMap ==
    ASSUME GCPoints \subseteq {"idle", "alloc"}
    PROVE  Spec => ImplementsMap
<1>1. {"other", "address", "rehash"} \cap GCPoints = {} /\ {"other", "address"} \cap GCPoints = {}
  OBVIOUS
<1>2. MapInv /\ [Next]_vars => MapInv' /\ [Map!Ask \/ Map!Perform]_Map!vars
  <2> SUFFICES ASSUME MapInv, [Next]_vars
               PROVE  MapInv' /\ MapNext
    BY DEF MapNext
  <2>1. TableInv'
    BY TableStep DEF MapInv
  <2>2. PlacedInv' /\ KnownInv'
    BY <1>1, PlacedStep, KnownStep DEF MapInv, TableInv
  <2>3. SettledInv' /\ NewInv'
    BY <2>2, SettledStep, NewStep DEF MapInv, TableInv
  <2>4. Distinct' /\ MapNext
    BY <2>1, MapStep
  <2> QED BY <2>1, <2>2, <2>3, <2>4 DEF MapInv
<1> QED BY <1>2, MapInit, PTL DEF Spec, ImplementsMap, Map!Spec
=============================================================================
