------------------------------ MODULE Folding ------------------------------
(***************************************************************************)
(* What folding a sequence from the left comes to, one element after the   *)
(* other.  Replaying a log and draining a buffer are such folds.  Op is    *)
(* what one element does; a module about a particular fold instantiates    *)
(* this one.  Induction is taken from the well-foundedness of < on the     *)
(* natural numbers.                                                        *)
(***************************************************************************)
EXTENDS SequencesExt, Integers, TLAPS, WellFoundedInduction, SequenceTheorems

CONSTANT Op(_, _)

Folded(d, s) == FoldLeft(Op, d, s)

-----------------------------------------------------------------------------
(* Every nonempty set of natural numbers has a least element. *)
LEMMA LeastNatural ==
  ASSUME NEW T \in SUBSET Nat, T # {}
  PROVE  \E n \in T : \A m \in T : n <= m
<1> DEFINE R == {p \in Nat \X Nat : p[1] < p[2]}
<1>1. IsWellFoundedOn(R, Nat)
  <2>1. R = OpToRel(<, Nat)
    BY DEF OpToRel
  <2> QED
    BY <2>1, NatLessThanWellFounded
<1>2. PICK x \in T : \A y \in T : ~(<<y, x>> \in R)
  BY <1>1, WFMin
<1>3. \A y \in T : ~(y < x)
  BY <1>2
<1> QED
  BY <1>3

(* Induction up to a bound, over the set of numbers for which something holds. *)
LEMMA Induction ==
  ASSUME NEW n \in Nat, NEW S, 0 \in S, \A k \in 0..(n - 1) : k \in S => k + 1 \in S
  PROVE  0..n \subseteq S
<1> DEFINE T == {k \in 0..n : k \notin S}
<1> SUFFICES ASSUME T # {} PROVE FALSE
  OBVIOUS
<1>1. PICK m \in T : \A k \in T : m <= k
  <2>1. T \in SUBSET Nat
    OBVIOUS
  <2> HIDE DEF T
  <2> QED
    BY <2>1, LeastNatural
<1>2. m # 0 /\ m - 1 \in 0..(n - 1) /\ m - 1 \notin T
  BY <1>1
<1>3. m - 1 \in S
  BY <1>2
<1>4. (m - 1) + 1 \in S
  BY <1>2, <1>3
<1> QED
  BY <1>4

-----------------------------------------------------------------------------
(* FoldLeft goes through the sets of positions, the greatest first. *)
IsFold(h, k, d, s) ==
  h = [t \in SUBSET (1..k) |->
        IF t = {} THEN d ELSE Op(h[t \ {Max(t)}], s[Max(t)])]

(* The greatest position, where it is known. *)
LEMMA MaxOf ==
  ASSUME NEW k \in Nat, NEW t \in SUBSET (1..(k + 1)), k + 1 \in t
  PROVE  Max(t) = k + 1
<1>1. \A y \in t : k + 1 >= y
  OBVIOUS
<1>2. \A x \in t : (\A y \in t : x >= y) => x = k + 1
  BY <1>1
<1> QED
  BY <1>1, <1>2 DEF Max

(* A set of positions has a greatest one. *)
LEMMA MaxIn ==
  ASSUME NEW k \in Nat, NEW t \in SUBSET (1..k), t # {}
  PROVE  Max(t) \in t
<1> DEFINE T == {k - x : x \in t}
<1>0. \A x \in t : x \in Nat /\ x <= k /\ k - x \in Nat
  <2>1. \A x \in t : x \in 1..k
    OBVIOUS
  <2> QED
    BY <2>1
<1>1. PICK m \in T : \A j \in T : m <= j
  <2>1. T \in SUBSET Nat /\ T # {}
    BY <1>0
  <2> HIDE DEF T
  <2> QED
    BY <2>1, LeastNatural
<1>2. PICK x \in t : m = k - x
  OBVIOUS
<1>3. \A y \in t : x >= y
  <2>1. ASSUME NEW y \in t PROVE x >= y
    <3>1. m <= k - y
      BY <1>1
    <3>2. y \in Int /\ x \in Int /\ k \in Int
      BY <1>0
    <3> QED
      BY <3>1, <3>2, <1>2
  <2> QED
    BY <2>1
<1> QED
  BY <1>3 DEF Max

(* The recursion has a solution. *)
LEMMA FoldExists ==
  ASSUME NEW n \in Nat, NEW d, NEW s
  PROVE  \E h : IsFold(h, n, d, s)
<1> DEFINE S == {k \in 0..n : \E h : IsFold(h, k, d, s)}
<1>1. 0 \in S
  <2> DEFINE h == [t \in SUBSET (1..0) |-> d]
  <2>1. \A t \in SUBSET (1..0) : t = {}
    OBVIOUS
  <2>2. IsFold(h, 0, d, s)
    BY <2>1 DEF IsFold
  <2> QED
    BY <2>2
<1>2. ASSUME NEW k \in 0..(n - 1), k \in S PROVE k + 1 \in S
  <2>1. PICK h : IsFold(h, k, d, s)
    BY <1>2
  <2> DEFINE g == [t \in SUBSET (1..(k + 1)) |->
                     IF k + 1 \in t THEN Op(h[t \ {k + 1}], s[k + 1]) ELSE h[t]]
  <2>2. ASSUME NEW t \in SUBSET (1..(k + 1)), k + 1 \in t
        PROVE  g[t] = Op(g[t \ {Max(t)}], s[Max(t)]) /\ t # {}
    <3>1. Max(t) = k + 1
      BY <2>2, MaxOf
    <3>2. g[t \ {k + 1}] = h[t \ {k + 1}]
      OBVIOUS
    <3> QED
      BY <2>2, <3>1, <3>2
  <2>3. ASSUME NEW t \in SUBSET (1..(k + 1)), k + 1 \notin t, t # {}
        PROVE  g[t] = Op(g[t \ {Max(t)}], s[Max(t)])
    <3>1. t \in SUBSET (1..k)
      BY <2>3
    <3>2. Max(t) \in t
      <4> HIDE DEF g
      <4> k \in Nat /\ t # {}
        BY <2>3
      <4> QED
        BY <3>1, MaxIn
    <3>3. h[t] = Op(h[t \ {Max(t)}], s[Max(t)])
      BY <2>1, <2>3, <3>1 DEF IsFold
    <3>4. g[t] = h[t] /\ g[t \ {Max(t)}] = h[t \ {Max(t)}]
      BY <2>3, <3>1
    <3> QED
      BY <3>3, <3>4
  <2>4. g[{}] = d
    BY <2>1 DEF IsFold
  <2>5. \A t \in SUBSET (1..(k + 1)) :
           g[t] = IF t = {} THEN d ELSE Op(g[t \ {Max(t)}], s[Max(t)])
    BY <2>2, <2>3, <2>4
  <2>6. IsFold(g, k + 1, d, s)
    <3> HIDE DEF g
    <3>1. DOMAIN g = SUBSET (1..(k + 1)) /\ g = [t \in DOMAIN g |-> g[t]]
      BY DEF g
    <3> QED
      BY <2>5, <3>1 DEF IsFold
  <2> QED
    BY <2>6
<1>3. 0..n \subseteq S
  <2> HIDE DEF S
  <2> QED BY <1>1, <1>2, Induction
<1> QED
  BY <1>3

-----------------------------------------------------------------------------
(* The values after one element, two elements and so on. *)
IsChain(c, n, d, s) ==
  /\ DOMAIN c = 0..n
  /\ c[0] = d
  /\ \A k \in 0..(n - 1) : c[k + 1] = Op(c[k], s[k + 1])

(* A fold is the end of such a chain. *)
LEMMA FoldChain ==
  ASSUME NEW n \in Nat, NEW d, NEW s, DOMAIN s = 1..n
  PROVE  \E c : IsChain(c, n, d, s) /\ Folded(d, s) = c[n]
<1> DEFINE h == CHOOSE g : IsFold(g, n, d, s)
           c == [k \in 0..n |-> h[1..k]]
<1>1. IsFold(h, n, d, s)
  BY FoldExists
<1>2. Folded(d, s) = h[1..n]
  BY DEF Folded, FoldLeft, MapThenFoldSet, IsFold
<1> HIDE DEF h
<1>3. h[{}] = d
  BY <1>1 DEF IsFold
<1>4. c[0] = d
  <2>1. 1..0 = {} /\ 0 \in 0..n
    OBVIOUS
  <2> QED
    BY <1>3, <2>1
<1>5. ASSUME NEW k \in 0..(n - 1) PROVE c[k + 1] = Op(c[k], s[k + 1])
  <2> DEFINE t == 1..(k + 1)
  <2>1. k \in Nat /\ t \in SUBSET (1..n) /\ t # {} /\ k + 1 \in t /\ t \ {k + 1} = 1..k
    OBVIOUS
  <2>2. Max(t) = k + 1
    BY <2>1, MaxOf
  <2>3. h[t] = Op(h[t \ {Max(t)}], s[Max(t)])
    <3> HIDE DEF t
    <3> QED
      BY <1>1, <2>1 DEF IsFold
  <2>4. c[k + 1] = h[t] /\ c[k] = h[1..k]
    OBVIOUS
  <2> QED
    <3> HIDE DEF c, t
    <3> QED
      BY <2>1, <2>2, <2>3, <2>4
<1>6. DOMAIN c = 0..n /\ c[n] = h[1..n]
  OBVIOUS
<1> HIDE DEF c
<1> QED
  BY <1>2, <1>4, <1>5, <1>6 DEF IsChain

(* There is only one such chain, as far as the sequences are the same. *)
LEMMA ChainsAgree ==
  ASSUME NEW n \in Nat, NEW m \in Nat, NEW d, NEW s, NEW r, NEW b, NEW c,
         n <= m, IsChain(b, n, d, r), IsChain(c, m, d, s), \A k \in 1..n : r[k] = s[k]
  PROVE  b[n] = c[n]
<1> DEFINE S == {k \in 0..n : b[k] = c[k]}
<1>1. 0 \in S
  BY DEF IsChain
<1>2. ASSUME NEW k \in 0..(n - 1), k \in S PROVE k + 1 \in S
  <2>1. b[k + 1] = Op(b[k], r[k + 1]) /\ c[k + 1] = Op(c[k], s[k + 1])
    <3>1. k \in 0..(m - 1)
      OBVIOUS
    <3> QED
      BY <3>1 DEF IsChain
  <2>2. r[k + 1] = s[k + 1] /\ k + 1 \in 0..n /\ b[k] = c[k]
    BY <1>2
  <2> QED
    BY <2>1, <2>2
<1>3. 0..n \subseteq S
  <2> HIDE DEF S
  <2> QED
    BY <1>1, <1>2, Induction
<1> QED
  BY <1>3

(* Nothing to fold. *)
LEMMA FoldEmpty ==
  ASSUME NEW d
  PROVE  Folded(d, <<>>) = d
<1>1. DOMAIN <<>> = 1..0
  OBVIOUS
<1>2. PICK c : IsChain(c, 0, d, <<>>) /\ Folded(d, <<>>) = c[0]
  BY <1>1, FoldChain
<1> QED
  BY <1>2 DEF IsChain

(* One element more. *)
LEMMA FoldAppend ==
  ASSUME NEW S, NEW s \in Seq(S), NEW x \in S, NEW d
  PROVE  Folded(d, Append(s, x)) = Op(Folded(d, s), x)
<1> DEFINE n == Len(s)
           r == Append(s, x)
<1>1. n \in Nat /\ DOMAIN s = 1..n /\ DOMAIN r = 1..(n + 1) /\ r[n + 1] = x
  OBVIOUS
<1>2. \A k \in 1..n : s[k] = r[k]
  OBVIOUS
<1> HIDE DEF n, r
<1>3. PICK b : IsChain(b, n, d, s) /\ Folded(d, s) = b[n]
  BY <1>1, FoldChain
<1>4. PICK c : IsChain(c, n + 1, d, r) /\ Folded(d, r) = c[n + 1]
  BY <1>1, FoldChain
<1>5. b[n] = c[n]
  BY <1>1, <1>2, <1>3, <1>4, ChainsAgree
<1>6. c[n + 1] = Op(c[n], r[n + 1])
  BY <1>1, <1>4 DEF IsChain
<1> QED
  BY <1>1, <1>3, <1>4, <1>5, <1>6 DEF r

-----------------------------------------------------------------------------
(* One sequence after another. *)
LEMMA FoldConcat ==
  ASSUME NEW S, NEW s \in Seq(S), NEW t \in Seq(S), NEW d
  PROVE  Folded(d, s \o t) = Folded(Folded(d, s), t)
<1> DEFINE n == Len(s)
           m == Len(t)
           r == s \o t
<1>1. /\ n \in Nat /\ m \in Nat /\ DOMAIN s = 1..n /\ DOMAIN t = 1..m
      /\ DOMAIN r = 1..(n + m)
  OBVIOUS
<1>2. \A k \in 1..n : s[k] = r[k]
  OBVIOUS
<1>3. \A k \in 1..m : r[n + k] = t[k]
  OBVIOUS
<1> HIDE DEF n, m, r
<1>4. PICK b : IsChain(b, n, d, s) /\ Folded(d, s) = b[n]
  BY <1>1, FoldChain
<1>5. PICK c : IsChain(c, n + m, d, r) /\ Folded(d, r) = c[n + m]
  <2>1. n + m \in Nat
    BY <1>1
  <2> QED
    BY <1>1, <2>1, FoldChain
<1>6. PICK e : IsChain(e, m, b[n], t) /\ Folded(b[n], t) = e[m]
  BY <1>1, FoldChain
<1>7. b[n] = c[n]
  <2>1. n + m \in Nat /\ n <= n + m
    BY <1>1
  <2> QED
    BY <1>1, <1>2, <1>4, <1>5, <2>1, ChainsAgree
<1> DEFINE T == {k \in 0..m : c[n + k] = e[k]}
<1>8. 0 \in T
  BY <1>1, <1>6, <1>7 DEF IsChain
<1>9. ASSUME NEW k \in 0..(m - 1), k \in T PROVE k + 1 \in T
  <2>1. n + k \in 0..((n + m) - 1) /\ (n + k) + 1 = n + (k + 1) /\ k + 1 \in 1..m
    BY <1>1
  <2>2. c[(n + k) + 1] = Op(c[n + k], r[(n + k) + 1])
    BY <1>5, <2>1 DEF IsChain
  <2>3. e[k + 1] = Op(e[k], t[k + 1])
    BY <1>6 DEF IsChain
  <2>4. r[n + (k + 1)] = t[k + 1]
    BY <1>3, <2>1
  <2>5. c[n + k] = e[k]
    BY <1>9
  <2> QED
    BY <2>1, <2>2, <2>3, <2>4, <2>5
<1>10. 0..m \subseteq T
  <2> HIDE DEF T
  <2> QED
    BY <1>1, <1>8, <1>9, Induction
<1>11. c[n + m] = e[m]
  BY <1>1, <1>10
<1> QED
  BY <1>4, <1>5, <1>6, <1>11 DEF r

(* The first element, and then the rest. *)
LEMMA FoldHead ==
  ASSUME NEW S, NEW s \in Seq(S), s # <<>>, NEW d
  PROVE  Folded(d, s) = Folded(Op(d, Head(s)), Tail(s))
<1>1. Head(s) \in S /\ Tail(s) \in Seq(S) /\ <<Head(s)>> \in Seq(S)
  OBVIOUS
<1>2. s = <<Head(s)>> \o Tail(s)
  OBVIOUS
<1>3. Folded(d, <<Head(s)>> \o Tail(s)) = Folded(Folded(d, <<Head(s)>>), Tail(s))
  BY <1>1, FoldConcat
<1>4. <<Head(s)>> = Append(<<>>, Head(s)) /\ <<>> \in Seq(S)
  OBVIOUS
<1>5. Folded(d, Append(<<>>, Head(s))) = Op(Folded(d, <<>>), Head(s))
  BY <1>1, <1>4, FoldAppend
<1> QED
  BY <1>2, <1>3, <1>4, <1>5, FoldEmpty

(* What the elements do is all that counts. *)
LEMMA FoldSame ==
  ASSUME NEW n \in Nat, NEW s, NEW r, NEW d,
         DOMAIN s = 1..n, DOMAIN r = 1..n,
         \A k \in 1..n : \A x : Op(x, s[k]) = Op(x, r[k])
  PROVE  Folded(d, s) = Folded(d, r)
<1>1. PICK b : IsChain(b, n, d, s) /\ Folded(d, s) = b[n]
  BY FoldChain
<1>2. PICK c : IsChain(c, n, d, r) /\ Folded(d, r) = c[n]
  BY FoldChain
<1> DEFINE T == {k \in 0..n : b[k] = c[k]}
<1>3. 0 \in T
  BY <1>1, <1>2 DEF IsChain
<1>4. ASSUME NEW k \in 0..(n - 1), k \in T PROVE k + 1 \in T
  <2>1. b[k + 1] = Op(b[k], s[k + 1]) /\ c[k + 1] = Op(c[k], r[k + 1])
    BY <1>1, <1>2 DEF IsChain
  <2>2. b[k] = c[k] /\ k + 1 \in 1..n
    BY <1>4
  <2> QED
    BY <2>1, <2>2
<1>5. 0..n \subseteq T
  <2> HIDE DEF T
  <2> QED
    BY <1>3, <1>4, Induction
<1> QED
  BY <1>1, <1>2, <1>5

(* Concatenation is associative. *)
LEMMA Associates ==
  ASSUME NEW T, NEW d \in Seq(T), NEW p \in Seq(T), NEW h \in Seq(T)
  PROVE  p \o h \in Seq(T) /\ (d \o p) \o h = d \o (p \o h)
OBVIOUS

(* Where every element adds to a sequence, what was there stays in front. *)
LEMMA FoldOnto ==
  ASSUME NEW S, NEW T, NEW s \in Seq(S), NEW d \in Seq(T),
         \A x \in S : Op(<<>>, x) \in Seq(T),
         \A x \in S : \A q \in Seq(T) : Op(q, x) = q \o Op(<<>>, x)
  PROVE  Folded(<<>>, s) \in Seq(T) /\ Folded(d, s) = d \o Folded(<<>>, s)
<1> DEFINE n == Len(s)
<1>1. n \in Nat /\ DOMAIN s = 1..n /\ \A k \in 1..n : s[k] \in S
  OBVIOUS
<1> HIDE DEF n
<1>2. PICK b : IsChain(b, n, <<>>, s) /\ Folded(<<>>, s) = b[n]
  BY <1>1, FoldChain
<1>3. PICK c : IsChain(c, n, d, s) /\ Folded(d, s) = c[n]
  BY <1>1, FoldChain
<1> DEFINE I == {k \in 0..n : b[k] \in Seq(T) /\ c[k] = d \o b[k]}
<1>0. \A k : k \in I <=> k \in 0..n /\ b[k] \in Seq(T) /\ c[k] = d \o b[k]
  OBVIOUS
<1> HIDE DEF I
<1>4. 0 \in I
  <2>1. b[0] = <<>> /\ c[0] = d
    BY <1>2, <1>3 DEF IsChain
  <2>2. d \o <<>> = d /\ <<>> \in Seq(T)
    BY ConcatEmptySeq
  <2>3. 0 \in 0..n
    BY <1>1
  <2>4. b[0] \in Seq(T) /\ c[0] = d \o b[0]
    BY <2>1, <2>2, Zenon
  <2> QED
    BY <1>0, <2>3, <2>4, Zenon
<1>5. ASSUME NEW k \in 0..(n - 1), k \in I PROVE k + 1 \in I
  <2> DEFINE x == s[k + 1]
             g == Op(<<>>, x)
  <2>1. b[k + 1] = Op(b[k], x) /\ c[k + 1] = Op(c[k], x)
    BY <1>2, <1>3 DEF IsChain
  <2>2. b[k] \in Seq(T) /\ c[k] = d \o b[k]
    BY <1>0, <1>5, Zenon
  <2>8. k + 1 \in 0..n /\ k + 1 \in 1..n
    BY <1>1
  <2>3. x \in S
    BY <1>1, <2>8
  <2>4. g \in Seq(T)
    BY <2>3
  <2>5. d \o b[k] \in Seq(T)
    BY <2>2
  <2>6. b[k + 1] = b[k] \o g /\ c[k + 1] = (d \o b[k]) \o g
    BY <2>1, <2>2, <2>3, <2>5
  <2> HIDE DEF g, x
  <2>7. \A p, h \in Seq(T) : p \o h \in Seq(T) /\ (d \o p) \o h = d \o (p \o h)
    BY Associates
  <2>9. b[k] \o g \in Seq(T) /\ (d \o b[k]) \o g = d \o (b[k] \o g)
    BY <2>2, <2>4, <2>7
  <2>10. b[k + 1] \in Seq(T) /\ c[k + 1] = d \o b[k + 1]
    BY <2>6, <2>9
  <2> QED
    BY <1>0, <2>8, <2>10, Zenon
<1>6. 0..n \subseteq I
  BY <1>1, <1>4, <1>5, Induction
<1>7. n \in I
  BY <1>1, <1>6
<1> QED
  BY <1>0, <1>2, <1>3, <1>7, Zenon

(* Where every element is added, the sequence is rebuilt. *)
LEMMA FoldAll ==
  ASSUME NEW S, NEW s \in Seq(S),
         \A k \in DOMAIN s : \A q \in Seq(S) : Op(q, s[k]) = Append(q, s[k])
  PROVE  Folded(<<>>, s) = s
<1> DEFINE n == Len(s)
<1>1. n \in Nat /\ DOMAIN s = 1..n /\ \A k \in 1..n : s[k] \in S
  OBVIOUS
<1>2. SubSeq(s, 1, 0) = <<>> /\ SubSeq(s, 1, n) = s
  OBVIOUS
<1>3. \A k \in 0..(n - 1) :
         /\ SubSeq(s, 1, k) \in Seq(S)
         /\ Append(SubSeq(s, 1, k), s[k + 1]) = SubSeq(s, 1, k + 1)
  OBVIOUS
<1> HIDE DEF n
<1>4. PICK b : IsChain(b, n, <<>>, s) /\ Folded(<<>>, s) = b[n]
  BY <1>1, FoldChain
<1> DEFINE I == {k \in 0..n : b[k] = SubSeq(s, 1, k)}
<1>5. 0 \in I
  <2>1. b[0] = <<>>
    BY <1>4 DEF IsChain
  <2>2. 0 \in 0..n
    BY <1>1
  <2> QED
    BY <1>2, <2>1, <2>2
<1>6. ASSUME NEW k \in 0..(n - 1), k \in I PROVE k + 1 \in I
  <2>1. b[k + 1] = Op(b[k], s[k + 1])
    BY <1>4 DEF IsChain
  <2>2. b[k] = SubSeq(s, 1, k) /\ k + 1 \in 0..n /\ k + 1 \in DOMAIN s
    BY <1>1, <1>6
  <2> QED
    BY <1>3, <2>1, <2>2
<1>7. 0..n \subseteq I
  <2> HIDE DEF I
  <2> QED
    BY <1>1, <1>5, <1>6, Induction
<1> QED
  BY <1>1, <1>2, <1>4, <1>7

=============================================================================
