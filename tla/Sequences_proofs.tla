-------------------------- MODULE Sequences_proofs --------------------------
(***************************************************************************)
(* Lemmas on sequences.  First, what a sequence made of parts is when a part *)
(* is empty, grows or goes.  Then what Total does at either end of a        *)
(* sequence: the induction over the indices is made from the least         *)
(* counterexample, which the well-foundedness of the natural numbers gives. *)
(***************************************************************************)
EXTENDS Sums, TLAPS, SequenceTheorems, WellFoundedInduction

LEMMA Empty ==
  ASSUME NEW S, NEW s \in Seq(S)
  PROVE  <<>> \o s = s /\ s \o <<>> = s /\ <<>> \in Seq(S)
BY ConcatEmptySeq

LEMMA AsFunction ==
  ASSUME NEW S, NEW s \in Seq(S)
  PROVE  s = [i \in 1 .. Len(s) |-> s[i]]
BY LenProperties

LEMMA HeadAndTail ==
  ASSUME NEW S, NEW s \in Seq(S), s # <<>>
  PROVE  s = <<Head(s)>> \o Tail(s) /\ Head(s) \in S /\ Tail(s) \in Seq(S)
<1>1. Head(s) \in S /\ Tail(s) \in Seq(S) /\ <<Head(s)>> \in Seq(S)
  BY HeadTailProperties
<1> QED BY <1>1

LEMMA AppendedLast ==
  ASSUME NEW S, NEW s \in Seq(S), NEW t \in Seq(S), NEW x \in S
  PROVE  s \o Append(t, x) = Append(s \o t, x)
<1>1. <<x>> \in Seq(S) /\ s \o t \in Seq(S) /\ Append(t, x) = t \o <<x>>
  BY ConcatProperties, AppendIsConcat
<1>2. Append(s \o t, x) = (s \o t) \o <<x>>
  BY <1>1, AppendIsConcat
<1>3. (s \o t) \o <<x>> = s \o (t \o <<x>>)
  BY <1>1, ConcatAssociative, SMTT(30)
<1> QED BY <1>1, <1>2, <1>3

(* k is l without those from a place to another.                           *)
Without(l, k) ==
  \E i \in 0 .. Len(l) : \E j \in i .. Len(l) :
    k = SubSeq(l, 1, i) \o SubSeq(l, j + 1, Len(l))

LEMMA Gap ==
  ASSUME NEW S, NEW p \in Seq(S), NEW m \in Seq(S), NEW s \in Seq(S)
  PROVE  Without(p \o m \o s, p \o s)
<1> DEFINE l == p \o m \o s
           pm == p \o m
           i == Len(p)
           j == Len(p) + Len(m)
<1>1. /\ Len(p) \in Nat /\ Len(m) \in Nat /\ Len(s) \in Nat
      /\ pm \in Seq(S) /\ Len(pm) = j
      /\ l \in Seq(S) /\ Len(l) = j + Len(s) /\ l = pm \o s
      /\ l = p \o (m \o s) /\ m \o s \in Seq(S)
  <2>1. Len(p) \in Nat /\ Len(m) \in Nat /\ Len(s) \in Nat
    OBVIOUS
  <2>2. pm \in Seq(S) /\ Len(pm) = j
    BY ConcatProperties
  <2>3. (p \o m) \o s = p \o (m \o s)
    BY ConcatAssociative, SMTT(30)
  <2>4. m \o s \in Seq(S)
    BY ConcatProperties
  <2>5. l = pm \o s
    OBVIOUS
  <2> HIDE DEF pm, j
  <2>6. pm \o s \in Seq(S) /\ Len(pm \o s) = Len(pm) + Len(s)
    BY <2>2, ConcatProperties, Zenon
  <2> QED BY <2>1, <2>2, <2>3, <2>4, <2>5, <2>6
<1> HIDE DEF pm, l
<1>2. SubSeq(l, 1, i) = p
  BY <1>1, SubSeqOfConcat1, SubSeqFull
<1>3. SubSeq(l, j + 1, Len(l)) = s
  BY <1>1, SubSeqOfConcat2, SubSeqFull
<1>4. i \in 0 .. Len(l) /\ j \in i .. Len(l)
  BY <1>1
<1> HIDE DEF i, j
<1>5. Without(l, p \o s)
  BY <1>2, <1>3, <1>4, Zenon DEF Without
<1> QED BY <1>5, Zenon DEF l
-----------------------------------------------------------------------------
(* A line of five parts, and what it is when something moves from a part to *)
(* the next, comes at the one end, leaves at the other, or when a part is   *)
(* given up.                                                               *)
Item == [id : Int, serial : Int]

LEMMA Regrouped ==
  ASSUME NEW s \in Seq(Item), NEW t \in Seq(Item), NEW u \in Seq(Item)
  PROVE  (s \o t) \o u = s \o (t \o u)
BY ConcatAssociative, SMTT(30)

(* All that the lemmas below need of sequences, with no more for the provers *)
(* to know of them.                                                        *)
Items == Seq(Item)
Then(s, t) == s \o t

LEMMA ThenType == \A s, t \in Items : Then(s, t) \in Items
BY ConcatProperties DEF Items, Then

LEMMA ThenThen == \A s, t, u \in Items : Then(Then(s, t), u) = Then(s, Then(t, u))
BY Regrouped DEF Items, Then

LEMMA ThenNone ==
  <<>> \in Items /\ \A s \in Items : Then(<<>>, s) = s /\ Then(s, <<>>) = s
BY Empty DEF Items, Then

LEMMA ThenOne ==
  /\ \A x \in Item : <<x>> \in Items
  /\ \A s \in Items, x \in Item : Append(s, x) \in Items /\ Append(s, x) = Then(s, <<x>>)
BY DEF Items, Then

LEMMA ThenFirst ==
  ASSUME NEW s \in Items, NEW x \in Item
  PROVE  LET l == Then(<<x>>, s) IN l # <<>> /\ Head(l) = x /\ Tail(l) = s
<1>1. s \in Seq(Item) /\ <<x>> \in Seq(Item)
  BY ThenOne DEF Items
<1> DEFINE l == <<x>> \o s
<1>2. /\ l \in Seq(Item) /\ Len(l) = Len(s) + 1 /\ l[1] = x
      /\ \A i \in 1 .. Len(s) : l[i + 1] = s[i]
  BY <1>1
<1> HIDE DEF l
<1>3. l # <<>> /\ Head(l) = x
  BY <1>1, <1>2
<1>4. Tail(l) = s
  <2>1. Tail(l) \in Seq(Item) /\ Len(Tail(l)) = Len(s)
    BY <1>1, <1>2
  <2>2. \A i \in 1 .. Len(Tail(l)) : Tail(l)[i] = s[i]
    BY <1>1, <1>2
  <2> QED BY <1>1, <2>1, <2>2, SeqEqual
<1> QED BY <1>3, <1>4, Zenon DEF Then, l

LEMMA ThenGap ==
  ASSUME NEW p \in Items, NEW m \in Items, NEW s \in Items, NEW l, NEW k,
         l = Then(Then(p, m), s), k = Then(p, s)
  PROVE  Without(l, k)
BY Gap DEF Items, Then

Row(a, b, c, d, e) == Then(a, Then(b, Then(c, Then(d, e))))

LEMMA RowType ==
  ASSUME NEW a \in Items, NEW b \in Items, NEW c \in Items, NEW d \in Items, NEW e \in Items
  PROVE  /\ Then(a, b) \in Items /\ Then(b, c) \in Items /\ Then(c, d) \in Items
         /\ Then(d, e) \in Items /\ Then(a, Then(b, c)) \in Items
         /\ Then(Then(a, b), c) \in Items /\ Then(c, Then(d, e)) \in Items
         /\ Then(Then(Then(a, b), c), d) \in Items
         /\ Then(b, Then(c, Then(d, e))) \in Items /\ Row(a, b, c, d, e) \in Items
BY ThenType DEF Row

(* the line, cut at every place                                            *)
LEMMA RowIs ==
  ASSUME NEW a \in Items, NEW b \in Items, NEW c \in Items, NEW d \in Items, NEW e \in Items
  PROVE  /\ Row(a, b, c, d, e) = Then(Then(a, b), Then(c, Then(d, e)))
         /\ Row(a, b, c, d, e) = Then(Then(Then(a, b), c), Then(d, e))
         /\ Row(a, b, c, d, e) = Then(Then(Then(Then(a, b), c), d), e)
<1>0. /\ Then(a, b) \in Items /\ Then(Then(a, b), c) \in Items
      /\ Then(d, e) \in Items /\ Then(c, Then(d, e)) \in Items
  BY RowType
<1>1. Row(a, b, c, d, e) = Then(Then(a, b), Then(c, Then(d, e)))
  BY <1>0, ThenThen DEF Row
<1>2. Then(Then(a, b), Then(c, Then(d, e))) = Then(Then(Then(a, b), c), Then(d, e))
  BY <1>0, ThenThen
<1>3. Then(Then(Then(a, b), c), Then(d, e)) = Then(Then(Then(Then(a, b), c), d), e)
  BY <1>0, ThenThen
<1> QED BY <1>1, <1>2, <1>3, Zenon

LEMMA RowMoves ==
  ASSUME NEW a \in Items, NEW b \in Items, NEW c \in Items, NEW d \in Items, NEW e \in Items,
         NEW x \in Item
  PROVE  /\ Row(Append(a, x), <<>>, c, d, e) = Row(a, <<x>>, c, d, e)
         /\ Row(a, <<>>, Then(<<x>>, c), d, e) = Row(a, <<x>>, c, d, e)
         /\ Row(a, b, Append(c, x), <<>>, e) = Row(a, b, c, <<x>>, e)
         /\ Row(a, b, c, <<>>, Then(<<x>>, e)) = Row(a, b, c, <<x>>, e)
<1> DEFINE y == <<x>>
           o == <<>>
<1>1. y \in Items /\ Append(a, x) = Then(a, y) /\ Append(c, x) = Then(c, y)
  BY ThenOne
<1>2. \A s \in Items : Then(o, s) = s
  BY ThenNone
<1>3. /\ Then(y, c) \in Items /\ Then(y, e) \in Items /\ Then(d, e) \in Items
      /\ Then(c, Then(d, e)) \in Items /\ Then(y, Then(c, Then(d, e))) \in Items
  BY <1>1, ThenType
<1> HIDE DEF y, o
<1>4. Row(Append(a, x), o, c, d, e) = Row(a, y, c, d, e)
  <2> DEFINE s == Then(c, Then(d, e))
  <2>1. s \in Items /\ Then(o, s) = s
    BY <1>2, <1>3
  <2> HIDE DEF s
  <2>2. Then(Then(a, y), s) = Then(a, Then(y, s))
    BY <1>1, <2>1, ThenThen
  <2> QED BY <1>1, <2>1, <2>2, Zenon DEF Row, s
<1>5. Row(a, o, Then(y, c), d, e) = Row(a, y, c, d, e)
  <2> DEFINE s == Then(d, e)
  <2>1. Then(Then(y, c), s) = Then(y, Then(c, s))
    BY <1>1, <1>3, ThenThen
  <2>2. Then(o, Then(y, Then(c, s))) = Then(y, Then(c, s))
    BY <1>2, <1>3
  <2> QED BY <2>1, <2>2, Zenon DEF Row
<1>6. Row(a, b, Append(c, x), o, e) = Row(a, b, c, y, e)
  <2>1. Then(o, e) = e
    BY <1>2
  <2>2. Then(Then(c, y), e) = Then(c, Then(y, e))
    BY <1>1, ThenThen
  <2> QED BY <1>1, <2>1, <2>2, Zenon DEF Row
<1>7. Row(a, b, c, o, Then(y, e)) = Row(a, b, c, y, e)
  <2>1. Then(o, Then(y, e)) = Then(y, e)
    BY <1>2, <1>3
  <2> QED BY <2>1, Zenon DEF Row
<1> QED BY <1>4, <1>5, <1>6, <1>7, Zenon DEF y, o

LEMMA RowGrows ==
  ASSUME NEW a \in Items, NEW b \in Items, NEW c \in Items, NEW d \in Items, NEW e \in Items,
         NEW y \in Items
  PROVE  Row(a, b, c, d, Then(e, y)) = Then(Row(a, b, c, d, e), y)
<1> DEFINE p == Then(Then(Then(a, b), c), d)
<1>1. p \in Items /\ Then(e, y) \in Items
  BY RowType, ThenType
<1>2. Row(a, b, c, d, e) = Then(p, e) /\ Row(a, b, c, d, Then(e, y)) = Then(p, Then(e, y))
  BY <1>1, RowIs
<1> HIDE DEF p
<1>3. Then(Then(p, e), y) = Then(p, Then(e, y))
  BY <1>1, ThenThen
<1> QED BY <1>2, <1>3, Zenon

LEMMA RowBegins ==
  ASSUME NEW a \in Items, NEW b \in Items, NEW c \in Items, NEW d \in Items, NEW e \in Items,
         NEW x \in Item
  PROVE  Row(Then(<<x>>, a), b, c, d, e) = Then(<<x>>, Row(a, b, c, d, e))
<1> DEFINE y == <<x>>
<1>1. y \in Items
  BY ThenOne
<1> HIDE DEF y
<1>2. Then(b, Then(c, Then(d, e))) \in Items
  BY RowType
<1>3. Row(Then(y, a), b, c, d, e) = Then(y, Row(a, b, c, d, e))
  BY <1>1, <1>2, ThenThen DEF Row
<1> QED BY <1>3, Zenon DEF y

LEMMA RowDrops ==
  ASSUME NEW a \in Items, NEW b \in Items, NEW c \in Items, NEW d \in Items, NEW e \in Items
  PROVE  LET l == Row(a, b, c, d, e) IN
         /\ Without(l, Row(<<>>, b, c, d, e)) /\ Without(l, Row(a, <<>>, c, d, e))
         /\ Without(l, Row(a, b, <<>>, d, e)) /\ Without(l, Row(a, b, c, <<>>, e))
         /\ Without(l, Row(a, b, c, d, <<>>))
<1> DEFINE l == Row(a, b, c, d, e)
           o == <<>>
           p2 == Then(a, b)
           p3 == Then(p2, c)
           p4 == Then(p3, d)
           s2 == Then(d, e)
           s3 == Then(c, s2)
           s4 == Then(b, s3)
<1>1. o \in Items /\ \A s \in Items : Then(o, s) = s /\ Then(s, o) = s
  BY ThenNone
<1>2. p2 \in Items /\ s2 \in Items
  BY ThenType
<1>3. p3 \in Items /\ s3 \in Items
  BY <1>2, ThenType
<1>4. p4 \in Items /\ s4 \in Items
  BY <1>3, ThenType
<1>5. l = Then(a, s4) /\ l = Then(p2, s3) /\ l = Then(p3, s2) /\ l = Then(p4, e)
  <2>1. l = Then(a, s4)
    BY Zenon DEF Row
  <2>2. l = Then(p2, s3) /\ l = Then(p3, s2) /\ l = Then(p4, e)
    BY RowIs
  <2> QED BY <2>1, <2>2
<1>6. /\ Row(o, b, c, d, e) = Then(o, s4) /\ Row(a, o, c, d, e) = Then(a, Then(o, s3))
      /\ Row(a, b, o, d, e) = Then(Then(p2, o), s2)
      /\ Row(a, b, c, o, e) = Then(Then(p3, o), e)
      /\ Row(a, b, c, d, o) = Then(p4, o)
  <2>0. o \in Items
    BY <1>1
  <2> HIDE DEF o
  <2>1. Row(a, b, o, d, e) = Then(Then(p2, o), s2)
    BY <2>0, RowIs
  <2>2. Row(a, b, c, o, e) = Then(Then(p3, o), e)
    BY <2>0, RowIs
  <2>3. Row(a, b, c, d, o) = Then(p4, o)
    BY <2>0, RowIs
  <2>4. Row(o, b, c, d, e) = Then(o, s4) /\ Row(a, o, c, d, e) = Then(a, Then(o, s3))
    BY Zenon DEF Row
  <2> QED BY <2>1, <2>2, <2>3, <2>4
<1> HIDE DEF l, o, p2, p3, p4, s2, s3, s4
<1>7. Without(l, Row(o, b, c, d, e))
  <2>1. l = Then(Then(o, a), s4)
    BY <1>1, <1>5, Zenon
  <2> QED BY <1>1, <1>4, <1>6, <2>1, ThenGap
<1>8. Without(l, Row(a, o, c, d, e))
  <2>1. l = Then(Then(a, b), s3) /\ Row(a, o, c, d, e) = Then(a, s3)
    BY <1>1, <1>3, <1>5, <1>6, Zenon DEF p2
  <2> QED BY <1>3, <2>1, ThenGap
<1>9. Without(l, Row(a, b, o, d, e))
  <2>1. l = Then(Then(p2, c), s2) /\ Row(a, b, o, d, e) = Then(p2, s2)
    BY <1>1, <1>2, <1>5, <1>6, Zenon DEF p3
  <2> QED BY <1>2, <2>1, ThenGap
<1>10. Without(l, Row(a, b, c, o, e))
  <2>1. l = Then(Then(p3, d), e) /\ Row(a, b, c, o, e) = Then(p3, e)
    BY <1>1, <1>3, <1>5, <1>6, Zenon DEF p4
  <2> QED BY <1>3, <2>1, ThenGap
<1>11. Without(l, Row(a, b, c, d, o))
  <2>1. l \in Items
    BY <1>4, <1>5, ThenType
  <2>2. l = Then(Then(p4, e), o)
    BY <1>1, <1>5, <2>1, Zenon
  <2> QED BY <1>1, <1>4, <1>6, <2>2, ThenGap
<1> QED BY <1>7, <1>8, <1>9, <1>10, <1>11, Zenon DEF l, o
-----------------------------------------------------------------------------
(* Sums.                                                                   *)

LEMMA LeastNumber ==
  ASSUME NEW T \in SUBSET Nat, T # {}
  PROVE  \E n \in T : \A m \in T : n <= m
<1> DEFINE R == {pair \in Nat \X Nat : pair[1] < pair[2]}
<1>1. IsWellFoundedOn(R, Nat)
  BY NatLessThanWellFounded DEF OpToRel
<1>2. \A x, y \in Nat : y < x => <<y, x>> \in R
  OBVIOUS
<1> HIDE DEF R
<1>3. PICK x \in T : \A y \in T : ~ (<<y, x>> \in R)
  BY <1>1, WFMin
<1>4. ASSUME NEW y \in T PROVE x <= y
  <2>1. x \in Nat /\ y \in Nat
    OBVIOUS
  <2>2. ~ (y < x)
    BY <1>2, <1>3, <2>1, Zenon
  <2> QED BY <2>1, <2>2, SMT
<1> QED BY <1>4

(* f[i] is the sum of the first i elements of s, for i up to n.            *)
PartialSums(f, s, n) ==
  /\ f[0] = 0
  /\ \A i \in 1 .. n : f[i] = f[i - 1] + s[i]

LEMMA PartialSumsExist ==
  ASSUME NEW s \in Seq(Nat)
  PROVE  \A n \in 0 .. Len(s) : \E f \in [0 .. n -> Nat] : PartialSums(f, s, n)
<1> DEFINE Bad == {n \in 0 .. Len(s) : ~ \E f \in [0 .. n -> Nat] : PartialSums(f, s, n)}
<1>1. SUFFICES ASSUME Bad # {} PROVE FALSE
  OBVIOUS
<1>2. Bad \in SUBSET Nat
  OBVIOUS
<1>3. PICK n \in Bad : \A m \in Bad : n <= m
  <2> HIDE DEF Bad
  <2> QED BY <1>1, <1>2, LeastNumber
<1>4. n \in 0 .. Len(s) /\ n \in Nat /\ Len(s) \in Nat
  OBVIOUS
<1>5. CASE n = 0
  <2> DEFINE f == [i \in 0 .. 0 |-> 0]
  <2>1. f \in [0 .. n -> Nat] /\ PartialSums(f, s, n)
    BY <1>5 DEF PartialSums
  <2> QED BY <2>1
<1>6. CASE n > 0
  <2>1. n - 1 \in 0 .. Len(s) /\ ~ (n <= n - 1)
    BY <1>4, <1>6
  <2>2. PICK f \in [0 .. n - 1 -> Nat] : PartialSums(f, s, n - 1)
    BY <1>3, <2>1
  <2> DEFINE g == [i \in 0 .. n |-> IF i = n THEN f[n - 1] + s[n] ELSE f[i]]
  <2>3. s[n] \in Nat /\ f[n - 1] \in Nat
    BY <1>4, <1>6
  <2>4. g \in [0 .. n -> Nat]
    BY <1>4, <2>3
  <2>5. PartialSums(g, s, n)
    BY <1>4, <1>6, <2>2 DEF PartialSums
  <2> QED BY <2>4, <2>5
<1> QED BY <1>4, <1>5, <1>6

LEMMA PartialSumsAgree ==
  ASSUME NEW n \in Nat, NEW s, NEW f, NEW g,
         PartialSums(f, s, n), PartialSums(g, s, n)
  PROVE  \A i \in 0 .. n : f[i] = g[i]
<1> DEFINE Bad == {i \in 0 .. n : f[i] # g[i]}
<1>1. SUFFICES ASSUME Bad # {} PROVE FALSE
  OBVIOUS
<1>2. Bad \in SUBSET Nat
  OBVIOUS
<1>3. PICK i \in Bad : \A m \in Bad : i <= m
  <2> HIDE DEF Bad
  <2> QED BY <1>1, <1>2, LeastNumber
<1>4. i \in 1 .. n /\ i - 1 \in 0 .. n /\ ~ (i <= i - 1)
  BY DEF PartialSums
<1>5. f[i - 1] = g[i - 1]
  BY <1>3, <1>4
<1> QED BY <1>4, <1>5 DEF PartialSums

(* The recursion is well founded: any partial sums give the total.         *)
LEMMA TotalIs ==
  ASSUME NEW s \in Seq(Nat), NEW f, PartialSums(f, s, Len(s))
  PROVE  Total(s) = f[Len(s)]
<1> DEFINE step(h) == [i \in 0 .. Len(s) |-> IF i = 0 THEN 0 ELSE h[i - 1] + s[i]]
           upTo == CHOOSE h : h = step(h)
<1>1. Len(s) \in Nat
  OBVIOUS
<1>2. PICK g \in [0 .. Len(s) -> Nat] : PartialSums(g, s, Len(s))
  BY <1>1, PartialSumsExist
<1>3. g = step(g)
  BY <1>1, <1>2 DEF PartialSums
<1>4. upTo = step(upTo)
  BY <1>3, Zenon
<1>5. Total(s) = upTo[Len(s)]
  BY DEF Total
<1> HIDE DEF upTo
<1>6. PartialSums(upTo, s, Len(s))
  BY <1>1, <1>4 DEF PartialSums
<1> QED BY <1>1, <1>5, <1>6, PartialSumsAgree

LEMMA TotalEmpty == Total(<<>>) = 0
<1>1. PartialSums([i \in 0 .. 0 |-> 0], <<>>, 0)
  BY DEF PartialSums
<1> QED BY <1>1, TotalIs

LEMMA TotalType ==
  ASSUME NEW s \in Seq(Nat)
  PROVE  Total(s) \in Nat
<1>1. PICK f \in [0 .. Len(s) -> Nat] : PartialSums(f, s, Len(s))
  BY PartialSumsExist
<1> QED BY <1>1, TotalIs

LEMMA TotalAppend ==
  ASSUME NEW s \in Seq(Nat), NEW x \in Nat
  PROVE  Total(Append(s, x)) = Total(s) + x
<1> DEFINE n == Len(s)
           t == Append(s, x)
<1>1. n \in Nat /\ t \in Seq(Nat) /\ Len(t) = n + 1 /\ t[n + 1] = x
      /\ \A i \in 1 .. n : t[i] = s[i]
  OBVIOUS
<1>2. PICK f \in [0 .. n -> Nat] : PartialSums(f, s, n)
  BY <1>1, PartialSumsExist
<1> DEFINE g == [i \in 0 .. n + 1 |-> IF i <= n THEN f[i] ELSE f[n] + x]
<1> HIDE DEF n, t
<1>3. PartialSums(g, t, n + 1)
  BY <1>1, <1>2 DEF PartialSums
<1>4. Total(s) = f[n] /\ Total(t) = g[n + 1]
  BY <1>1, <1>2, <1>3, TotalIs DEF n
<1> QED BY <1>1, <1>4 DEF t

LEMMA TotalTail ==
  ASSUME NEW s \in Seq(Nat), s # <<>>
  PROVE  Total(Tail(s)) = Total(s) - Head(s)
<1> DEFINE n == Len(s)
           t == Tail(s)
<1>1. n \in Nat \ {0} /\ t \in Seq(Nat) /\ Len(t) = n - 1 /\ s[1] = Head(s)
      /\ s \in [1 .. n -> Nat] /\ \A i \in 1 .. n - 1 : t[i] = s[i + 1]
  OBVIOUS
<1>2. PICK f \in [0 .. n -> Nat] : PartialSums(f, s, n)
  BY <1>1, PartialSumsExist
<1> DEFINE g == [i \in 0 .. n - 1 |-> f[i + 1] - s[1]]
<1> HIDE DEF n, t
<1>3. PartialSums(g, t, n - 1)
  <2>1. f[1] = s[1]
    BY <1>1, <1>2 DEF PartialSums
  <2>2. g[0] = 0
    BY <1>1, <2>1
  <2>3. ASSUME NEW i \in 1 .. n - 1 PROVE g[i] = g[i - 1] + t[i]
    <3>1. i \in 0 .. n - 1 /\ i - 1 \in 0 .. n - 1 /\ i + 1 \in 1 .. n /\ i \in 0 .. n
      BY <1>1
    <3>2. g[i] = f[i + 1] - s[1] /\ g[i - 1] = f[i] - s[1]
      BY <3>1
    <3>3. f[i + 1] = f[i] + s[i + 1]
      BY <1>2, <3>1 DEF PartialSums
    <3>4. f[i] \in Nat /\ s[i + 1] \in Nat /\ s[1] \in Nat /\ t[i] = s[i + 1]
      <4>1. f[i] \in Nat
        BY <3>1
      <4>2. s[i + 1] \in Nat /\ s[1] \in Nat
        <5>1. 1 \in 1 .. n
          BY <1>1
        <5> QED BY <1>1, <3>1, <5>1
      <4>3. t[i] = s[i + 1]
        BY <1>1
      <4> QED BY <4>1, <4>2, <4>3
    <3> HIDE DEF g
    <3>5. f[i + 1] \in Int /\ f[i + 1] - s[1] = (f[i] - s[1]) + s[i + 1]
      BY <3>3, <3>4
    <3> QED BY <3>2, <3>4, <3>5
  <2> QED BY <2>2, <2>3 DEF PartialSums
<1>4. Total(s) = f[n] /\ Total(t) = g[n - 1]
  BY <1>1, <1>2, <1>3, TotalIs DEF n
<1> QED BY <1>1, <1>4 DEF t
=============================================================================
