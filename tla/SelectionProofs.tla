---------------------------- MODULE SelectionProofs ----------------------------
(***************************************************************************)
(* Proofs about CategorySelection, for every set of categories, words and  *)
(* keywords: its types, that the longest phrase wins where keywords        *)
(* overlap, and that the selection is the one the reference names.         *)
(*                                                                         *)
(* The operators of the model are loops over lists, so that what they      *)
(* compute is shown by induction on the length of what has been read. The  *)
(* induction is on sets: a set that has 0 and, with a number, the next     *)
(* one, has all of them, because the least one it lacks has a predecessor. *)
(***************************************************************************)
EXTENDS CategorySelection, WellFoundedInduction, TLAPS

LEMMA Least ==
  ASSUME NEW T, T \subseteq Nat, T # {}
  PROVE  \E x \in T : \A y \in T : x <= y
<1> DEFINE R == OpToRel(<, Nat)
<1>1. IsWellFoundedOn(R, Nat)
  BY NatLessThanWellFounded
<1>3. \A x, y \in Nat : <<y, x>> \in R <=> y < x
  BY DEF OpToRel
<1> HIDE DEF R
<1>2. PICK x \in T : \A y \in T : ~ (<<y, x>> \in R)
  BY <1>1, WFMin
<1>4. \A y \in T : x <= y
  <2> TAKE y \in T
  <2>1. x \in Nat /\ y \in Nat
    OBVIOUS
  <2>2. ~(y < x)
    BY <1>2, <1>3, <2>1
  <2> QED BY <2>1, <2>2
<1> QED BY <1>4

LEMMA Climbs ==
  ASSUME NEW n \in Nat, NEW I, 0 \in I, \A k \in 0..(n - 1) : k \in I => k + 1 \in I
  PROVE  \A k \in 0..n : k \in I
<1> DEFINE T == (0..n) \ I
<1> SUFFICES ASSUME T # {} PROVE FALSE
  OBVIOUS
<1>0. T \subseteq Nat
  OBVIOUS
<1> HIDE DEF T
<1>1. PICK x \in T : \A y \in T : x <= y
  BY <1>0, Least
<1> USE DEF T
<1>2. x # 0 /\ x \in 0..n
  OBVIOUS
<1>3. x - 1 \in 0..(n-1) /\ x - 1 \in I
  BY <1>1, <1>2
<1> QED BY <1>1, <1>2, <1>3
\* A loop over N entries whose steps stay in the set A.
StepsIn(N, A, base, step) ==
  N \in Nat /\ base \in A /\ step \in [(1..N) \X A -> A]

\* Such a loop has a value in A after each number of entries.
LEMMA LoopExists ==
  ASSUME NEW N, NEW A, NEW base, NEW step, StepsIn(N, A, base, step)
  PROVE  \E f \in [0..N -> A] :
           f[0] = base /\ \A n \in 1..N : f[n] = step[<<n, f[n - 1]>>]
<1> USE DEF StepsIn
<1> DEFINE Upto(m, f) ==
             f[0] = base /\ \A n \in 1..m : f[n] = step[<<n, f[n - 1]>>]
           I == {m \in 0..N : \E f \in [0..m -> A] : Upto(m, f)}
<1>1. 0 \in I
  <2> DEFINE g == [n \in 0..0 |-> base]
  <2>1. g \in [0..0 -> A] /\ Upto(0, g)
    OBVIOUS
  <2> HIDE DEF g, Upto
  <2> QED BY <2>1
<1>2. ASSUME NEW k \in 0..(N - 1), k \in I PROVE k + 1 \in I
  <2>1. PICK f \in [0..k -> A] : Upto(k, f)
    BY <1>2
  <2> DEFINE g == [n \in 0..(k + 1) |-> IF n <= k THEN f[n] ELSE step[<<k + 1, f[k]>>]]
  <2>2. k + 1 \in 1..N /\ f[k] \in A
    OBVIOUS
  <2>3. step[<<k + 1, f[k]>>] \in A
    BY <2>2
  <2>4. g \in [0..(k + 1) -> A]
    BY <2>3
  <2>5. ASSUME NEW n \in 1..(k + 1)
        PROVE  g[n] = step[<<n, g[n - 1]>>]
    <3>1. CASE n \in 1..k
      <4>1. n \in 0..(k + 1) /\ n - 1 \in 0..(k + 1) /\ n - 1 <= k /\ n <= k
        BY <3>1
      <4>2. f[n] = step[<<n, f[n - 1]>>]
        BY <2>1, <3>1
      <4>3. g[n] = f[n] /\ g[n - 1] = f[n - 1]
        BY <4>1
      <4> QED BY <4>2, <4>3
    <3>2. CASE n = k + 1
      <4>1. n - 1 = k /\ ~(n <= k) /\ k \in 0..(k + 1) /\ k <= k
        BY <3>2
      <4>2. g[n] = step[<<k + 1, f[k]>>] /\ g[n - 1] = f[k]
        BY <3>2, <4>1
      <4> QED BY <3>2, <4>1, <4>2
    <3> QED BY <3>1, <3>2
  <2>7. g[0] = base
    BY <2>1
  <2> HIDE DEF g
  <2>6. Upto(k + 1, g)
    BY <2>5, <2>7
  <2> HIDE DEF Upto
  <2> QED BY <2>2, <2>4, <2>6
<1> HIDE DEF I
<1>3. \A k \in 0..N : k \in I
  BY <1>1, <1>2, Climbs
<1> QED BY <1>3 DEF I

\* And it never leaves it.
LEMMA LoopStays ==
  ASSUME NEW N, NEW A, NEW base, NEW step, StepsIn(N, A, base, step), NEW f, f[0] = base,
         \A n \in 1..N : f[n - 1] \in A => f[n] = step[<<n, f[n - 1]>>]
  PROVE  \A n \in 0..N : f[n] \in A
<1> USE DEF StepsIn
<1> DEFINE I == {k \in 0..N : f[k] \in A}
<1>1. 0 \in I
  OBVIOUS
<1>2. ASSUME NEW k \in 0..(N - 1), k \in I PROVE k + 1 \in I
  <2>1. k + 1 \in 1..N /\ k + 1 \in 0..N /\ (k + 1) - 1 = k /\ f[k] \in A
    BY <1>2
  <2>2. f[k + 1] = step[<<k + 1, f[k]>>]
    BY <2>1
  <2>3. step[<<k + 1, f[k]>>] \in A
    BY <2>1
  <2> QED BY <2>1, <2>2, <2>3
<1> HIDE DEF I
<1>3. \A k \in 0..N : k \in I
  BY <1>1, <1>2, Climbs
<1> QED BY <1>3 DEF I

\* The total weight of the hits is a number.
LEMMA WeightNat ==
  ASSUME NEW hits \in Seq(Items)
  PROVE  Weight(hits) \in Nat
<1> DEFINE N == Len(hits)
           step == [p \in (1..N) \X Nat |-> p[2] + hits[p[1]].weight]
           Eq(f) == f = [n \in 0..N |-> IF n = 0 THEN 0 ELSE f[n - 1] + hits[n].weight]
           sum == CHOOSE f : Eq(f)
<1>1. N \in Nat /\ \A n \in 1..N : hits[n].weight \in Nat
  <2>1. N \in Nat /\ \A n \in 1..N : hits[n] \in Items
    OBVIOUS
  <2> QED BY <2>1 DEF Items
<1>2. Weight(hits) = sum[N]
  BY DEF Weight, Pass, Passes
<1>3. step \in [(1..N) \X Nat -> Nat]
  BY <1>1
<1> HIDE DEF N
<1>9. StepsIn(N, Nat, 0, step)
  BY <1>1, <1>3 DEF StepsIn
<1>4. PICK f \in [0..N -> Nat] :
        f[0] = 0 /\ \A n \in 1..N : f[n] = step[<<n, f[n - 1]>>]
  <2> HIDE DEF step
  <2> QED BY <1>9, LoopExists
<1>5. Eq(f)
  <2>1. ASSUME NEW n \in 0..N
        PROVE  f[n] = IF n = 0 THEN 0 ELSE f[n - 1] + hits[n].weight
    <3>1. CASE n = 0
      BY <1>4, <3>1
    <3>2. CASE n # 0
      <4>1. n \in 1..N /\ n - 1 \in 0..N
        BY <1>1, <3>2
      <4>2. f[n] = step[<<n, f[n - 1]>>] /\ f[n - 1] \in Nat
        BY <1>4, <3>2, <4>1
      <4>3. step[<<n, f[n - 1]>>] = f[n - 1] + hits[n].weight
        BY <4>1, <4>2
      <4> QED BY <3>2, <4>2, <4>3
    <3> QED BY <3>1, <3>2
  <2> HIDE DEF step
  <2> QED BY <1>4, <2>1
<1>6. Eq(sum)
  BY <1>5
<1> HIDE DEF sum, step
<1>7. sum[0] = 0 /\ \A n \in 1..N : sum[n - 1] \in Nat => sum[n] = step[<<n, sum[n - 1]>>]
  <2>1. \A n \in 1..N : n \in 0..N /\ n # 0
    OBVIOUS
  <2>2. \A n \in 1..N : sum[n] = sum[n - 1] + hits[n].weight
    BY <1>6, <2>1
  <2>3. sum[0] = 0
    BY <1>1, <1>6
  <2> QED BY <2>2, <2>3 DEF step
<1>8. \A n \in 0..N : sum[n] \in Nat
  BY <1>7, <1>9, LoopStays
<1> QED BY <1>1, <1>2, <1>8

\* Every form of a keyword has the keyword's length.
LEMMA FormsOfKeyword ==
  ASSUME NEW keyword \in Seq(Words) \ {<< >>}
  PROVE  /\ Len(keyword) \in Nat \ {0}
         /\ \E n \in Nat : DOMAIN Forms(keyword) = 1..n
         /\ \A i \in DOMAIN Forms(keyword) :
              /\ Forms(keyword)[i] \in Seq(Words)
              /\ Len(Forms(keyword)[i]) = Len(keyword)
<1> DEFINE first == Clitics[Head(keyword)]
           prefixed == [i \in DOMAIN first |-> <<first[i]>> \o Tail(keyword)]
           Good(form) == form \in Seq(Words) /\ Len(form) = Len(keyword)
<1>1. /\ keyword \in Seq(Words) /\ Len(keyword) \in Nat \ {0} /\ Head(keyword) \in Words
      /\ Tail(keyword) \in Seq(Words) /\ Len(Tail(keyword)) = Len(keyword) - 1
  OBVIOUS
<1>2. first \in Seq(Words)
  BY <1>1, SelectionAssumption DEF SelectionAssumption
<1>3. Good(keyword)
  BY <1>1
<1> HIDE DEF first
<1>4. Len(first) \in Nat /\ DOMAIN first = 1..Len(first) /\ \A i \in 1..Len(first) : first[i] \in Words
  BY <1>2
<1>5. ASSUME NEW w \in Words PROVE Good(<<w>> \o Tail(keyword))
  <2>1. <<w>> \in Seq(Words) /\ Len(<<w>>) = 1
    OBVIOUS
  <2> QED BY <1>1, <2>1
<1>6. CASE Len(keyword) = 1
  <2>1. Forms(keyword) = <<keyword>>
    BY <1>6 DEF Forms
  <2>2. DOMAIN Forms(keyword) = 1..1 /\ Forms(keyword)[1] = keyword
    BY <2>1
  <2>3. \A i \in 1..1 : i = 1
    OBVIOUS
  <2> QED BY <1>1, <1>3, <2>2, <2>3
<1>7. CASE Len(keyword) # 1
  <2>1. Forms(keyword) = <<keyword>> \o prefixed
    BY <1>7 DEF Forms, first
  <2> DEFINE Long == {form \in Seq(Words) : Len(form) = Len(keyword)}
  <2>2. prefixed \in Seq(Long) /\ <<keyword>> \in Seq(Long)
    <3>1. \A i \in 1..Len(first) : <<first[i]>> \o Tail(keyword) \in Long
      BY <1>4, <1>5
    <3>2. prefixed = [i \in 1..Len(first) |-> <<first[i]>> \o Tail(keyword)]
      BY <1>4
    <3>3. keyword \in Long
      BY <1>3
    <3> HIDE DEF Long, prefixed
    <3>4. prefixed \in [1..Len(first) -> Long]
      BY <3>1, <3>2
    <3> QED BY <1>4, <3>3, <3>4
  <2> HIDE DEF Long, prefixed
  <2>3. Forms(keyword) \in Seq(Long)
    BY <2>1, <2>2
  <2>4. /\ Len(Forms(keyword)) \in Nat /\ DOMAIN Forms(keyword) = 1..Len(Forms(keyword))
        /\ \A i \in DOMAIN Forms(keyword) : Forms(keyword)[i] \in Long
    BY <2>3
  <2> QED BY <1>1, <2>4 DEF Long
<1> QED BY <1>6, <1>7

\* The smallest number of a set.
LEMMA SmallestIn ==
  ASSUME NEW T, T \subseteq Nat, T # {}
  PROVE  Min(T) \in T
<1>1. \E x \in T : \A y \in T : x <= y
  BY Least
<1> QED BY <1>1 DEF Min

\* A keyword that occurs has a form and a place where it does.
LEMMA PlaceOfMatch ==
  ASSUME NEW T, NEW words \in Seq(T), NEW keyword \in Seq(Words) \ {<< >>},
         Matches(words, keyword)
  PROVE  \E f \in DOMAIN Forms(keyword) :
           /\ Place(words, keyword) \in DOMAIN words
           /\ OccursAt(words, Forms(keyword)[f], Place(words, keyword))
<1> DEFINE F == Forms(keyword)
           I == {i \in 1..Len(F) : Occurs(words, F[i])}
           f == FirstForm(words, keyword)
           T2 == {i \in DOMAIN words : OccursAt(words, F[f], i)}
           p == Place(words, keyword)
<1>1. Len(F) \in Nat /\ DOMAIN F = 1..Len(F)
  <2> HIDE DEF F
  <2>1. \E n \in Nat : DOMAIN F = 1..n
    BY FormsOfKeyword DEF F
  <2> QED BY <2>1
<1>2. \E i \in DOMAIN F : Occurs(words, F[i])
  BY DEF Matches
<1>3. f = IF I # {} THEN Min(I) ELSE 0
  BY DEF FirstForm, SelectInSeq
<1>4. I # {} /\ I \subseteq Nat
  BY <1>1, <1>2
<1> HIDE DEF I, f
<1>5. f \in I
  BY <1>3, <1>4, SmallestIn
<1>6. f \in DOMAIN F /\ Occurs(words, F[f])
  BY <1>1, <1>5 DEF I
<1> HIDE DEF F
<1>7. T2 # {} /\ T2 \subseteq Nat
  <2>1. T2 # {}
    BY <1>6 DEF Occurs
  <2>2. DOMAIN words \subseteq Nat
    OBVIOUS
  <2> QED BY <2>1, <2>2
<1>8. PICK least \in T2 : \A y \in T2 : least <= y
  <2> HIDE DEF T2
  <2> QED BY <1>7, Least
<1>9. \A j \in 1..(least - 1) : ~OccursAt(words, F[f], j)
  <2> SUFFICES ASSUME NEW j \in 1..(least - 1), OccursAt(words, F[f], j) PROVE FALSE
    OBVIOUS
  <2>1. least \in 1..Len(words) /\ Len(words) \in Nat
    BY <1>8
  <2>2. j \in DOMAIN words /\ j < least
    BY <2>1
  <2>3. j \in T2
    BY <2>2
  <2> QED BY <1>8, <2>1, <2>2, <2>3
<1>10. p = CHOOSE i \in DOMAIN words :
             /\ OccursAt(words, F[f], i)
             /\ \A j \in 1..(i - 1) : ~OccursAt(words, F[f], j)
  BY DEF Place, f, F
<1>11. p \in DOMAIN words /\ OccursAt(words, F[f], p)
  <2> HIDE DEF p
  <2> QED BY <1>8, <1>9, <1>10
<1> QED BY <1>6, <1>11 DEF F

\* A form occurs where the words are those of the form, one by one.
LEMMA OccursWordByWord ==
  ASSUME NEW T, NEW words \in Seq(T), NEW i \in DOMAIN words, NEW form \in Seq(Words)
  PROVE  OccursAt(words, form, i) <=>
           /\ i + Len(form) <= Len(words) + 1
           /\ \A d \in 1..Len(form) : words[i + d - 1] = form[d]
<1> DEFINE n == Len(form)
           piece == SubSeq(words, i, i + n - 1)
<1>1. n \in Nat /\ Len(words) \in Nat /\ i \in 1..Len(words)
  OBVIOUS
<1> SUFFICES ASSUME i + n <= Len(words) + 1
             PROVE  piece = form <=> \A d \in 1..n : words[i + d - 1] = form[d]
  BY DEF OccursAt
<1>2. piece \in Seq(T) /\ Len(piece) = n
  BY <1>1
<1>3. \A d \in 1..n : piece[d] = words[i + d - 1]
  BY <1>1
<1> HIDE DEF piece
<1>4. (\A d \in 1..n : piece[d] = form[d]) => piece = form
  BY <1>1, <1>2
<1> QED BY <1>2, <1>3, <1>4

\* The words a hit stands at.
Span(hits, at, h) == at[h]..(at[h] + Len(hits[h].keyword) - 1)

\* The hits stand at words of the text that are blanked out, each at its own.
Standing(words, acc, at) ==
  /\ at \in [DOMAIN acc.hits -> DOMAIN words]
  /\ \A h \in DOMAIN acc.hits :
       /\ \E f \in DOMAIN Forms(acc.hits[h].keyword) :
            OccursAt(words, Forms(acc.hits[h].keyword)[f], at[h])
       /\ at[h] + Len(acc.hits[h].keyword) <= Len(words) + 1
       /\ \A j \in Span(acc.hits, at, h) : acc.left[j] = Blank
  /\ \A g, h \in DOMAIN acc.hits :
       g # h => \/ at[g] + Len(acc.hits[g].keyword) <= at[h]
                \/ at[h] + Len(acc.hits[h].keyword) <= at[g]

\* A form of the keyword occurs at i and shares a word with the hit h.
Covered(words, acc, at, keyword, h, i) ==
  /\ KeywordWidth(acc.hits[h].keyword) >= KeywordWidth(keyword)
  /\ i < at[h] + Len(acc.hits[h].keyword) /\ at[h] < i + Len(keyword)

\* After n keywords of the tier: the hits are among them, nothing is blank that
\* no hit stands at, and a keyword that is in the text and no hit is covered.
Claimed(words, tier, n, acc, at) ==
  /\ \A h \in DOMAIN acc.hits : \E m \in 1..n : acc.hits[h] = tier[m]
  /\ \A j \in DOMAIN words : acc.left[j] = Blank =>
       \E h \in DOMAIN acc.hits : j \in Span(acc.hits, at, h)
  /\ \A m \in 1..n :
       \/ \E h \in DOMAIN acc.hits : acc.hits[h] = tier[m]
       \/ \A f \in DOMAIN Forms(tier[m].keyword), i \in DOMAIN words :
            OccursAt(words, Forms(tier[m].keyword)[f], i) =>
              \E h \in DOMAIN acc.hits : Covered(words, acc, at, tier[m].keyword, h, i)

Accs == [left : Seq(Words \cup {Blank}), hits : Seq(Items)]

\* What the pass over a tier may have found after n keywords.
Found(words, tier, n) ==
  {acc \in Accs :
     /\ Len(acc.left) = Len(words)
     /\ \A j \in DOMAIN words : acc.left[j] \in {words[j], Blank}
     /\ \E at : Standing(words, acc, at) /\ Claimed(words, tier, n, acc, at)}

LEMMA FindCloses ==
  ASSUME NEW acc \in Accs, NEW item \in Items
  PROVE  Find(acc, item) \in Accs
<1> DEFINE left2 == Mask(acc.left, item.keyword)
           L == Len(acc.left)
<1>1. acc.left \in Seq(Words \cup {Blank}) /\ acc.hits \in Seq(Items)
  BY DEF Accs
<1>2. Append(acc.hits, item) \in Seq(Items)
  BY <1>1
<1>3. L \in Nat /\ DOMAIN acc.left = 1..L /\ \A j \in 1..L : acc.left[j] \in Words \cup {Blank}
  BY <1>1
<1>4. left2 \in [1..L -> Words \cup {Blank}]
  <2> HIDE DEF L
  <2> QED BY <1>3 DEF Mask
<1> HIDE DEF left2, L
<1>5. left2 \in Seq(Words \cup {Blank})
  BY <1>3, <1>4
<1>6. [left |-> left2, hits |-> Append(acc.hits, item)] \in Accs
  BY <1>2, <1>5 DEF Accs
<1> QED BY <1>6 DEF Find, left2

\* The next keyword matches words that no earlier hit has blanked out. If it
\* does not match though it is in the text, a word of it is blank, so that it
\* shares one with an earlier hit, and earlier keywords are not shorter.
LEMMA FindStep ==
  ASSUME NEW words \in Seq(Words), NEW tier \in Seq(Items), LongestFirst(tier),
         NEW q \in Nat, q + 1 <= Len(tier), NEW acc \in Found(words, tier, q)
  PROVE  Find(acc, tier[q + 1]) \in Found(words, tier, q + 1)
<1> DEFINE item == tier[q + 1]
           k == item.keyword
           left == acc.left
           hits == acc.hits
           n == Len(k)
           m == Len(hits)
           W == Len(words)
           p == Place(left, k)
<1>20. Len(tier) \in Nat /\ DOMAIN tier = 1..Len(tier) /\ q + 1 \in 1..Len(tier) /\ item \in Items
  OBVIOUS
<1> HIDE DEF item
<1>1. k \in Seq(Words) \ {<< >>} /\ n \in Nat \ {0}
  <2>1. k \in Seq(Words) \ {<< >>}
    BY <1>20 DEF Items
  <2> QED BY <2>1, FormsOfKeyword
<1>2. /\ left \in Seq(Words \cup {Blank}) /\ hits \in Seq(Items)
      /\ Len(left) = W /\ W \in Nat /\ DOMAIN words = 1..W /\ DOMAIN left = 1..W
      /\ \A j \in 1..W : left[j] \in {words[j], Blank}
      /\ acc = [left |-> left, hits |-> hits]
  BY DEF Found, Accs
<1>3. PICK at : Standing(words, acc, at) /\ Claimed(words, tier, q, acc, at)
  BY DEF Found
<1>21. /\ \A m2 \in 1..q : KeywordWidth(tier[m2].keyword) >= KeywordWidth(k)
       /\ \A m2 \in 1..(q + 1) : m2 \in 1..q \/ m2 = q + 1
       /\ \A m2 \in 1..q : m2 \in 1..(q + 1)
       /\ q + 1 \in 1..(q + 1)
  <2>1. \A m2 \in 1..q : m2 \in 1..Len(tier) /\ m2 < q + 1
    BY <1>20
  <2> QED BY <1>20, <2>1 DEF LongestFirst, item
<1> SUFFICES Find(acc, item) \in Found(words, tier, q + 1)
  BY DEF item
<1>22. CASE ~Matches(left, k)
  <2>1. Find(acc, item) = acc
    BY <1>22 DEF Find
  <2>2. ASSUME NEW f \in DOMAIN Forms(k), NEW i \in DOMAIN words, OccursAt(words, Forms(k)[f], i)
        PROVE  \E h \in DOMAIN acc.hits : Covered(words, acc, at, k, h, i)
    <3> DEFINE form == Forms(k)[f]
    <3>1. form \in Seq(Words) /\ Len(form) = n
      BY <1>1, FormsOfKeyword
    <3>2. ~OccursAt(left, form, i) /\ i \in DOMAIN left
      BY <1>2, <1>22 DEF Matches, Occurs
    <3>3. i + n <= W + 1 /\ \A d \in 1..n : words[i + d - 1] = form[d]
      <4> HIDE DEF form, n
      <4>1. OccursAt(words, form, i)
        BY <2>2 DEF form
      <4> QED BY <3>1, <4>1, OccursWordByWord
    <3>4. ~\A d \in 1..n : left[i + d - 1] = form[d]
      <4> HIDE DEF form, n, left, W
      <4>1. left \in Seq(Words \cup {Blank}) /\ i + Len(form) <= Len(left) + 1
        BY <1>2, <3>1, <3>3
      <4>2. OccursAt(left, form, i) <=>
              /\ i + Len(form) <= Len(left) + 1
              /\ \A d \in 1..Len(form) : left[i + d - 1] = form[d]
        BY <3>1, <3>2, <4>1, OccursWordByWord
      <4> QED BY <3>1, <3>2, <4>1, <4>2
    <3> HIDE DEF form, n, left, W
    <3>5. PICK d \in 1..n : left[i + d - 1] # form[d]
      BY <3>4
    <3> DEFINE j == i + d - 1
    <3>6. i \in 1..W /\ j \in 1..W /\ i <= j /\ j < i + n
      BY <1>1, <1>2, <3>3
    <3>7. left[j] = Blank
      BY <1>2, <3>3, <3>5, <3>6
    <3> HIDE DEF j
    <3>8. PICK h \in DOMAIN acc.hits : j \in Span(acc.hits, at, h)
      BY <1>2, <1>3, <3>6, <3>7 DEF Claimed, left
    <3>9. PICK m2 \in 1..q : acc.hits[h] = tier[m2]
      BY <1>3 DEF Claimed
    <3>10. KeywordWidth(acc.hits[h].keyword) >= KeywordWidth(k)
      BY <1>21, <3>9
    <3>11. i < at[h] + Len(acc.hits[h].keyword) /\ at[h] < i + n
      <4> DEFINE a == at[h]
                 l == Len(acc.hits[h].keyword)
      <4>1. a \in 1..W
        BY <1>2, <1>3 DEF Standing
      <4>2. l \in Nat
        <5>1. acc.hits[h] \in Items
          BY <1>2 DEF hits
        <5>2. acc.hits[h].keyword \in Seq(Words)
          BY <5>1 DEF Items
        <5> QED BY <5>2
      <4>3. j \in a..(a + l - 1)
        BY <3>8 DEF Span
      <4> HIDE DEF a, l
      <4>4. i < a + l /\ a < i + n
        BY <1>1, <1>2, <3>6, <4>1, <4>2, <4>3
      <4> QED BY <4>4 DEF a, l
    <3>12. Covered(words, acc, at, k, h, i)
      BY <3>10, <3>11 DEF Covered, n
    <3> QED BY <3>12
  <2>3. Claimed(words, tier, q + 1, acc, at)
    <3>1. k = tier[q + 1].keyword
      BY DEF item
    <3> HIDE DEF k
    <3> QED BY <1>3, <1>21, <2>2, <3>1 DEF Claimed
  <2>4. acc \in Accs /\ Len(acc.left) = Len(words) /\ \A j \in DOMAIN words : acc.left[j] \in {words[j], Blank}
    BY DEF Found
  <2> QED BY <1>3, <2>1, <2>3, <2>4 DEF Found
<1> SUFFICES ASSUME Matches(left, k)
             PROVE  [left |-> Mask(left, k), hits |-> Append(hits, item)] \in Found(words, tier, q + 1)
  BY <1>22 DEF Find
<1> HIDE DEF left, hits, k
<1>4. PICK f \in DOMAIN Forms(k) : p \in DOMAIN left /\ OccursAt(left, Forms(k)[f], p)
  BY <1>1, <1>2, PlaceOfMatch
<1> DEFINE form == Forms(k)[f]
<1>5. form \in Seq(Words) /\ Len(form) = n
  BY <1>1, <1>4, FormsOfKeyword
<1> HIDE DEF form, p
<1>6. /\ p \in 1..W /\ p + n <= W + 1
      /\ \A d \in 1..n : left[p + d - 1] = form[d]
  <2>1. OccursAt(left, form, p) /\ p \in DOMAIN left
    BY <1>4 DEF form, p
  <2> HIDE DEF n
  <2>2. /\ p + Len(form) <= Len(left) + 1
        /\ \A d \in 1..Len(form) : left[p + d - 1] = form[d]
    <3>1. left \in Seq(Words \cup {Blank}) /\ form \in Seq(Words)
      BY <1>2, <1>5
    <3>2. OccursAt(left, form, p) <=>
            /\ p + Len(form) <= Len(left) + 1
            /\ \A d \in 1..Len(form) : left[p + d - 1] = form[d]
      BY <2>1, <3>1, OccursWordByWord
    <3> QED BY <2>1, <3>2
  <2> QED BY <1>2, <1>5, <2>1, <2>2
<1> HIDE DEF n
<1>7. \A j \in p..(p + n - 1) : left[j] # Blank /\ left[j] = words[j]
  <2> SUFFICES ASSUME NEW j \in p..(p + n - 1) PROVE left[j] # Blank /\ left[j] = words[j]
    OBVIOUS
  <2>1. j - p + 1 \in 1..n /\ p + (j - p + 1) - 1 = j /\ j \in 1..W
    BY <1>1, <1>2, <1>6
  <2>2. left[j] = form[j - p + 1]
    BY <1>6, <2>1
  <2>3. form[j - p + 1] \in Words
    BY <1>5, <2>1
  <2>4. left[j] # Blank
    BY <2>2, <2>3, SelectionAssumption DEF SelectionAssumption
  <2> QED BY <1>2, <2>1, <2>4
<1>8. OccursAt(words, form, p)
  <2>1. \A d \in 1..n : p + d - 1 \in p..(p + n - 1)
    BY <1>1, <1>6
  <2>2. \A d \in 1..n : words[p + d - 1] = form[d]
    BY <1>6, <1>7, <2>1
  <2> QED BY <1>2, <1>5, <1>6, <2>2, OccursWordByWord
<1> DEFINE left2 == Mask(left, k)
           hits2 == Append(hits, item)
           acc2 == [left |-> left2, hits |-> hits2]
           at2 == [h \in 1..(m + 1) |-> IF h = m + 1 THEN p ELSE at[h]]
<1>9. left2 = [j \in 1..W |-> IF j \in p..(p + n - 1) THEN Blank ELSE left[j]]
  BY <1>2 DEF Mask, p, n
<1>10. /\ left2 \in Seq(Words \cup {Blank}) /\ Len(left2) = W
       /\ \A j \in DOMAIN words : left2[j] \in {words[j], Blank}
       /\ \A j \in 1..W : left[j] = Blank => left2[j] = Blank
       /\ \A j \in p..(p + n - 1) : left2[j] = Blank
  <2>1. \A j \in 1..W : left[j] \in Words \cup {Blank}
    BY <1>2
  <2>2. left2 \in [1..W -> Words \cup {Blank}]
    BY <1>9, <2>1
  <2>3. left2 \in Seq(Words \cup {Blank}) /\ Len(left2) = W
    <3>1. W \in Nat
      BY <1>2
    <3> HIDE DEF left2, W
    <3> QED BY <2>2, <3>1
  <2>4. \A j \in p..(p + n - 1) : j \in 1..W
    BY <1>1, <1>2, <1>6
  <2> HIDE DEF left2
  <2> QED BY <1>2, <1>9, <2>3, <2>4
<1>11. /\ hits2 \in Seq(Items) /\ m \in Nat /\ DOMAIN hits2 = 1..(m + 1)
       /\ DOMAIN hits = 1..m
       /\ hits2[m + 1] = item /\ \A h \in 1..m : hits2[h] = hits[h]
  <2>1. hits \in Seq(Items) /\ item \in Items
    BY <1>2, <1>20
  <2> QED BY <2>1
<1> HIDE DEF left2, hits2, m
<1>12. Standing(words, acc2, at2)
  <2>1. /\ at \in [1..m -> 1..W]
        /\ \A h \in 1..m : /\ \E i \in DOMAIN Forms(hits[h].keyword) :
                                OccursAt(words, Forms(hits[h].keyword)[i], at[h])
                           /\ at[h] + Len(hits[h].keyword) <= W + 1
                           /\ \A j \in at[h]..(at[h] + Len(hits[h].keyword) - 1) : left[j] = Blank
        /\ \A g, h \in 1..m :
             g # h => \/ at[g] + Len(hits[g].keyword) <= at[h]
                      \/ at[h] + Len(hits[h].keyword) <= at[g]
    BY <1>2, <1>3, <1>11 DEF Standing, Span, hits, left
  <2>2. \A h \in 1..m : at2[h] = at[h] /\ at2[h] \in 1..W /\ hits2[h] = hits[h]
    BY <1>11, <2>1
  <2>3. at2[m + 1] = p /\ hits2[m + 1].keyword = k
    BY <1>11 DEF k
  <2>4. \A h \in 1..(m + 1) : h \in 1..m \/ h = m + 1
    BY <1>11
  <2>5. at2 \in [1..(m + 1) -> 1..W]
    BY <1>6, <2>1, <2>4
  <2> HIDE DEF at2
  <2>6. ASSUME NEW h \in 1..(m + 1)
        PROVE  /\ \E i \in DOMAIN Forms(hits2[h].keyword) :
                    OccursAt(words, Forms(hits2[h].keyword)[i], at2[h])
               /\ at2[h] + Len(hits2[h].keyword) <= W + 1
               /\ \A j \in at2[h]..(at2[h] + Len(hits2[h].keyword) - 1) : left2[j] = Blank
    <3>1. CASE h = m + 1
      <4>1. \E i \in DOMAIN Forms(k) : OccursAt(words, Forms(k)[i], p)
        BY <1>4, <1>8 DEF form
      <4> QED BY <1>6, <1>10, <2>3, <3>1, <4>1 DEF n
    <3>2. CASE h \in 1..m
      <4>0. Len(hits[h].keyword) \in Nat
        <5>1. hits[h] \in Items
          BY <1>2, <1>11, <3>2
        <5>2. hits[h].keyword \in Seq(Words)
          BY <5>1 DEF Items
        <5> QED BY <5>2
      <4> DEFINE l == Len(hits[h].keyword)
                 a == at[h]
      <4>5. a \in 1..W /\ a + l <= W + 1 /\ \A j \in a..(a + l - 1) : left[j] = Blank
        BY <2>1, <3>2
      <4>1. \A j \in at[h]..(at[h] + Len(hits[h].keyword) - 1) : j \in 1..W /\ left[j] = Blank
        <5> HIDE DEF a, l
        <5>1. \A j \in a..(a + l - 1) : j \in 1..W
          BY <1>2, <4>5, <4>0 DEF l
        <5> QED BY <4>5, <5>1 DEF a, l
      <4>2. \A j \in at[h]..(at[h] + Len(hits[h].keyword) - 1) : left2[j] = Blank
        BY <1>10, <4>1
      <4>3. /\ \E i \in DOMAIN Forms(hits[h].keyword) :
                 OccursAt(words, Forms(hits[h].keyword)[i], at[h])
            /\ at[h] + Len(hits[h].keyword) <= W + 1
        BY <2>1, <3>2
      <4> QED BY <2>2, <3>2, <4>2, <4>3
    <3> QED BY <2>4, <3>1, <3>2
  <2>7. ASSUME NEW h \in 1..m
        PROVE  at[h] + Len(hits[h].keyword) <= p \/ p + n <= at[h]
    <3>1. Len(hits[h].keyword) \in Nat \ {0} /\ at[h] \in 1..W
      <4>1. hits[h] \in Items
        BY <1>2, <1>11
      <4>2. hits[h].keyword \in Seq(Words) \ {<< >>}
        BY <4>1 DEF Items
      <4> QED BY <2>1, <4>2, FormsOfKeyword
    <3> DEFINE l == Len(hits[h].keyword)
    <3> SUFFICES ASSUME ~(at[h] + l <= p), ~(p + n <= at[h]) PROVE FALSE
      OBVIOUS
    <3>2. \A j \in at[h]..(at[h] + l - 1) : left[j] = Blank
      BY <2>1
    <3> HIDE DEF l
    <3>3. \/ p \in at[h]..(at[h] + l - 1) /\ p \in p..(p + n - 1)
          \/ at[h] \in p..(p + n - 1) /\ at[h] \in at[h]..(at[h] + l - 1)
      <4> DEFINE a == at[h]
      <4>1. a \in Int /\ p \in Int /\ l \in Nat \ {0} /\ n \in Nat \ {0}
        BY <1>1, <1>2, <1>6, <3>1 DEF l
      <4>2. a + l > p /\ p + n > a
        BY <4>1
      <4> HIDE DEF a
      <4>3. CASE a <= p
        <5>1. p \in a..(a + l - 1) /\ p \in p..(p + n - 1)
          BY <4>1, <4>2, <4>3
        <5> QED BY <5>1 DEF a
      <4>4. CASE p <= a
        <5>1. a \in p..(p + n - 1) /\ a \in a..(a + l - 1)
          BY <4>1, <4>2, <4>4
        <5> QED BY <5>1 DEF a
      <4> QED BY <4>1, <4>3, <4>4
    <3> QED BY <1>7, <3>2, <3>3
  <2>8. ASSUME NEW g \in 1..(m + 1), NEW h \in 1..(m + 1), g # h
        PROVE  \/ at2[g] + Len(hits2[g].keyword) <= at2[h]
               \/ at2[h] + Len(hits2[h].keyword) <= at2[g]
    <3>1. CASE g \in 1..m /\ h \in 1..m
      BY <2>1, <2>2, <2>8, <3>1
    <3>2. CASE g \in 1..m /\ h = m + 1
      BY <2>2, <2>3, <2>7, <3>2 DEF n
    <3>3. CASE g = m + 1 /\ h \in 1..m
      BY <2>2, <2>3, <2>7, <3>3 DEF n
    <3> QED BY <2>4, <2>8, <3>1, <3>2, <3>3
  <2>9. acc2.left = left2 /\ acc2.hits = hits2
    OBVIOUS
  <2> HIDE DEF acc2
  <2> QED BY <1>2, <1>11, <2>5, <2>6, <2>8, <2>9 DEF Standing, Span
<1>24. Claimed(words, tier, q + 1, acc2, at2)
  <2>1. /\ \A h \in 1..m : \E x \in 1..q : hits[h] = tier[x]
        /\ \A j \in 1..W : left[j] = Blank =>
             \E h \in 1..m : j \in at[h]..(at[h] + Len(hits[h].keyword) - 1)
        /\ \A x \in 1..q :
             \/ \E h \in 1..m : hits[h] = tier[x]
             \/ \A f2 \in DOMAIN Forms(tier[x].keyword), i \in 1..W :
                  OccursAt(words, Forms(tier[x].keyword)[f2], i) =>
                    \E h \in 1..m : Covered(words, acc, at, tier[x].keyword, h, i)
    BY <1>2, <1>3, <1>11 DEF Claimed, Span, hits, left
  <2>2. \A h \in 1..m : at2[h] = at[h] /\ hits2[h] = hits[h] /\ h \in 1..(m + 1)
    BY <1>11
  <2>3. at2[m + 1] = p /\ hits2[m + 1] = item /\ m + 1 \in 1..(m + 1) /\ item = tier[q + 1]
    BY <1>11 DEF item
  <2>4. \A h \in 1..(m + 1) : h \in 1..m \/ h = m + 1
    BY <1>11
  <2>5. acc2.left = left2 /\ acc2.hits = hits2
    OBVIOUS
  <2> HIDE DEF at2, acc2
  <2>6. \A h \in 1..(m + 1) : \E x \in 1..(q + 1) : hits2[h] = tier[x]
    BY <1>21, <2>1, <2>2, <2>3, <2>4
  <2>7. ASSUME NEW j \in 1..W, left2[j] = Blank
        PROVE  \E h \in 1..(m + 1) : j \in at2[h]..(at2[h] + Len(hits2[h].keyword) - 1)
    <3>1. CASE j \in p..(p + n - 1)
      <4>1. j \in at2[m + 1]..(at2[m + 1] + Len(hits2[m + 1].keyword) - 1)
        BY <2>3, <3>1 DEF n, k
      <4> QED BY <2>3, <4>1
    <3>2. CASE j \notin p..(p + n - 1)
      <4>1. left[j] = Blank
        BY <1>9, <2>7, <3>2 DEF left2
      <4>2. PICK h \in 1..m : j \in at[h]..(at[h] + Len(hits[h].keyword) - 1)
        BY <2>1, <4>1
      <4> QED BY <2>2, <4>2
    <3> QED BY <3>1, <3>2
  <2>8. ASSUME NEW x \in 1..(q + 1)
        PROVE  \/ \E h \in 1..(m + 1) : hits2[h] = tier[x]
               \/ \A f2 \in DOMAIN Forms(tier[x].keyword), i \in 1..W :
                    OccursAt(words, Forms(tier[x].keyword)[f2], i) =>
                      \E h \in 1..(m + 1) : Covered(words, acc2, at2, tier[x].keyword, h, i)
    <3>1. CASE x = q + 1
      BY <2>3, <3>1
    <3>2. CASE x \in 1..q
      <4>1. CASE \E h \in 1..m : hits[h] = tier[x]
        BY <2>2, <4>1
      <4>2. CASE ~\E h \in 1..m : hits[h] = tier[x]
        <5>1. ASSUME NEW h \in 1..m, NEW i \in 1..W, Covered(words, acc, at, tier[x].keyword, h, i)
              PROVE  Covered(words, acc2, at2, tier[x].keyword, h, i)
          BY <2>2, <2>5, <5>1 DEF Covered, hits
        <5>2. ASSUME NEW f2 \in DOMAIN Forms(tier[x].keyword), NEW i \in 1..W,
                     OccursAt(words, Forms(tier[x].keyword)[f2], i)
              PROVE  \E h \in 1..(m + 1) : Covered(words, acc2, at2, tier[x].keyword, h, i)
          <6>1. PICK h \in 1..m : Covered(words, acc, at, tier[x].keyword, h, i)
            BY <2>1, <3>2, <4>2, <5>2
          <6> QED BY <2>2, <5>1, <6>1
        <5> QED BY <5>2
      <4> QED BY <4>1, <4>2
    <3> QED BY <1>21, <3>1, <3>2
  <2> QED BY <1>2, <1>11, <2>5, <2>6, <2>7, <2>8 DEF Claimed, Span
<1> HIDE DEF at2
<1>13. acc2 \in Accs
  BY <1>10, <1>11 DEF Accs
<1>14. acc2.left = left2 /\ acc2.hits = hits2
  OBVIOUS
<1> HIDE DEF acc2
<1>15. acc2 \in Found(words, tier, q + 1)
  BY <1>10, <1>12, <1>13, <1>14, <1>24 DEF Found
<1> QED BY <1>15 DEF acc2, left2, hits2

\* What a pass over a tier finds.
LEMMA MatchTierFound ==
  ASSUME NEW words \in Seq(Words), NEW tier \in Seq(Items), LongestFirst(tier)
  PROVE  \E acc \in Found(words, tier, Len(tier)) : MatchTier(words, tier) = acc.hits
<1> DEFINE N == Len(tier)
           base == [left |-> words, hits |-> << >>]
           step == [p \in (1..N) \X Accs |-> Find(p[2], tier[p[1]])]
           Eq(f) == f = [n \in 0..N |-> IF n = 0 THEN base ELSE Find(f[n - 1], tier[n])]
           acc == CHOOSE f : Eq(f)
<1>1. N \in Nat /\ \A n \in 1..N : tier[n] \in Items
  OBVIOUS
<1>2. MatchTier(words, tier) = acc[N].hits
  BY DEF MatchTier, Pass, Passes
<1>3. base \in Accs /\ base \in Found(words, tier, 0)
  <2>1. base \in Accs
    BY DEF Accs
  <2>2. DOMAIN base.hits = {} /\ base.left = words /\ \A n : n \notin 1..0
    OBVIOUS
  <2>3. \A j \in DOMAIN words : words[j] # Blank
    BY SelectionAssumption DEF SelectionAssumption
  <2>4. << >> \in [{} -> DOMAIN words]
    OBVIOUS
  <2> HIDE DEF base
  <2>5. Standing(words, base, << >>) /\ Claimed(words, tier, 0, base, << >>)
    BY <2>2, <2>3, <2>4 DEF Standing, Claimed
  <2> QED BY <2>1, <2>2, <2>5 DEF Found
<1> HIDE DEF base
<1>4. step \in [(1..N) \X Accs -> Accs]
  BY <1>1, FindCloses
<1>5. StepsIn(N, Accs, base, step)
  BY <1>1, <1>3, <1>4 DEF StepsIn
<1> HIDE DEF N
<1>6. PICK f \in [0..N -> Accs] :
        f[0] = base /\ \A n \in 1..N : f[n] = step[<<n, f[n - 1]>>]
  <2> HIDE DEF step
  <2> QED BY <1>5, LoopExists
<1>7. Eq(f)
  <2>1. \A n \in 1..N : n - 1 \in 0..N
    BY <1>1
  <2>2. \A n \in 1..N : f[n] = Find(f[n - 1], tier[n])
    BY <1>6, <2>1
  <2>3. \A n \in 0..N : n = 0 \/ n \in 1..N
    BY <1>1
  <2> HIDE DEF step
  <2> QED BY <1>6, <2>2, <2>3
<1>8. Eq(acc)
  BY <1>7
<1> HIDE DEF acc, step
<1>9. acc[0] = base /\ \A n \in 1..N : acc[n] = Find(acc[n - 1], tier[n])
  <2>1. \A n \in 1..N : n \in 0..N /\ n # 0
    OBVIOUS
  <2>2. \A n \in 1..N : acc[n] = Find(acc[n - 1], tier[n])
    BY <1>8, <2>1
  <2> QED BY <1>1, <1>8, <2>2
<1> DEFINE I == {k \in 0..N : acc[k] \in Found(words, tier, k)}
<1>10. 0 \in I
  BY <1>1, <1>3, <1>9
<1>11. ASSUME NEW k \in 0..(N - 1), k \in I PROVE k + 1 \in I
  <2>1. /\ k + 1 \in 1..N /\ k + 1 \in 0..N /\ (k + 1) - 1 = k /\ k \in Nat
        /\ k + 1 <= Len(tier)
    BY <1>1 DEF N
  <2>2. acc[k + 1] = Find(acc[k], tier[k + 1])
    BY <1>9, <2>1
  <2>3. acc[k] \in Found(words, tier, k)
    BY <1>11
  <2>4. acc[k + 1] \in Found(words, tier, k + 1)
    BY <2>1, <2>2, <2>3, FindStep
  <2> QED BY <2>1, <2>4
<1> HIDE DEF I
<1>12. \A k \in 0..N : k \in I
  BY <1>1, <1>10, <1>11, Climbs
<1>13. N \in I
  BY <1>1, <1>12
<1> QED BY <1>2, <1>13 DEF I, N

\* The hits stand apart in the text.
Apart(words, hits, at) ==
  /\ at \in [DOMAIN hits -> DOMAIN words]
  /\ \A h \in DOMAIN hits : \E i \in DOMAIN Forms(hits[h].keyword) :
       OccursAt(words, Forms(hits[h].keyword)[i], at[h])
  /\ \A g, h \in DOMAIN hits :
       g # h => \/ at[g] + Len(hits[g].keyword) <= at[h]
                \/ at[h] + Len(hits[h].keyword) <= at[g]

\* A keyword of the tier that is in the text is a hit, or shares a word with one
\* that is as long.
Counted(words, tier, hits, at) ==
  \A item \in ToSet(tier) \ ToSet(hits) :
    \A f \in DOMAIN Forms(item.keyword), i \in DOMAIN words :
      OccursAt(words, Forms(item.keyword)[f], i) =>
        \E h \in DOMAIN hits :
          /\ KeywordWidth(hits[h].keyword) >= KeywordWidth(item.keyword)
          /\ i < at[h] + Len(hits[h].keyword)
          /\ at[h] < i + Len(item.keyword)

Placed(words, tier, hits) ==
  \E at : Apart(words, hits, at) /\ Counted(words, tier, hits, at)

LEMMA MatchTierPlaced ==
  ASSUME NEW words \in Seq(Words), NEW tier \in Seq(Items), LongestFirst(tier)
  PROVE  /\ MatchTier(words, tier) \in Seq(Items)
         /\ Placed(words, tier, MatchTier(words, tier))
<1>1. PICK acc \in Found(words, tier, Len(tier)) : MatchTier(words, tier) = acc.hits
  BY MatchTierFound
<1>2. acc.hits \in Seq(Items)
  BY DEF Found, Accs
<1>3. PICK at : Standing(words, acc, at) /\ Claimed(words, tier, Len(tier), acc, at)
  BY DEF Found
<1>4. Apart(words, acc.hits, at)
  BY <1>3 DEF Apart, Standing
<1> DEFINE hits == acc.hits
<1>5. ASSUME NEW item \in ToSet(tier) \ ToSet(hits),
             NEW f \in DOMAIN Forms(item.keyword), NEW i \in DOMAIN words,
             OccursAt(words, Forms(item.keyword)[f], i)
      PROVE  \E h \in DOMAIN hits :
               /\ KeywordWidth(hits[h].keyword) >= KeywordWidth(item.keyword)
               /\ i < at[h] + Len(hits[h].keyword)
               /\ at[h] < i + Len(item.keyword)
  <2>1. PICK m \in 1..Len(tier) : tier[m] = item
    BY DEF ToSet
  <2>2. ~\E h \in DOMAIN hits : hits[h] = tier[m]
    BY <1>5, <2>1 DEF ToSet
  <2>3. PICK h \in DOMAIN hits : Covered(words, acc, at, item.keyword, h, i)
    BY <1>3, <1>5, <2>1, <2>2 DEF Claimed
  <2> QED BY <2>3 DEF Covered
<1>6. Counted(words, tier, hits, at)
  <2> HIDE DEF hits
  <2> QED BY <1>5 DEF Counted
<1> QED BY <1>1, <1>2, <1>4, <1>6 DEF Placed

\* A list with one entry more.
LEMMA AppendedList ==
  ASSUME NEW T, NEW s \in Seq(T), NEW e \in T
  PROVE  /\ Append(s, e) \in Seq(T)
         /\ Range(Append(s, e)) = Range(s) \cup {e}
         /\ IsInjective(s) /\ e \notin Range(s) => IsInjective(Append(s, e))
<1> DEFINE n == Len(s)
           t == Append(s, e)
<1>1. /\ n \in Nat /\ DOMAIN s = 1..n /\ t \in Seq(T) /\ DOMAIN t = 1..(n + 1)
      /\ t[n + 1] = e /\ \A i \in 1..n : t[i] = s[i]
      /\ \A i \in 1..(n + 1) : i \in 1..n \/ i = n + 1
      /\ \A i \in 1..n : i \in 1..(n + 1)
      /\ n + 1 \in 1..(n + 1)
  OBVIOUS
<1> HIDE DEF n, t
<1>2. Range(t) = Range(s) \cup {e}
  <2>1. Range(t) \subseteq Range(s) \cup {e}
    BY <1>1 DEF Range
  <2>2. Range(s) \subseteq Range(t)
    BY <1>1 DEF Range
  <2>3. e \in Range(t)
    BY <1>1 DEF Range
  <2> QED BY <2>1, <2>2, <2>3
<1>3. ASSUME IsInjective(s), e \notin Range(s) PROVE IsInjective(t)
  <2>1. \A i \in 1..n : s[i] # e
    BY <1>1, <1>3 DEF Range
  <2>2. \A i, j \in 1..n : s[i] = s[j] => i = j
    BY <1>1, <1>3 DEF IsInjective
  <2> SUFFICES ASSUME NEW i \in 1..(n + 1), NEW j \in 1..(n + 1), t[i] = t[j] PROVE i = j
    BY <1>1 DEF IsInjective
  <2> QED BY <1>1, <2>1, <2>2
<1> QED BY <1>1, <1>2, <1>3 DEF t

\* The categories as a list.
LEMMA OrderFacts ==
  /\ Len(Order) \in Nat /\ DOMAIN Order = 1..Len(Order)
  /\ \A i \in 1..Len(Order) : Order[i] \in Categories
  /\ \A i, j \in 1..Len(Order) : Order[i] = Order[j] => i = j
  /\ \A c \in Categories : \E i \in 1..Len(Order) : Order[i] = c
<1>1. Order \in Seq(Categories) /\ IsInjective(Order)
  BY SelectionAssumption DEF SelectionAssumption
<1>2. /\ Len(Order) \in Nat /\ DOMAIN Order = 1..Len(Order)
      /\ \A i \in 1..Len(Order) : Order[i] \in Categories
  BY <1>1
<1>3. \A i, j \in 1..Len(Order) : Order[i] = Order[j] => i = j
  BY <1>1, <1>2 DEF IsInjective
<1>4. \A c \in Categories : \E i \in 1..Len(Order) : Order[i] = c
  BY <1>2 DEF Categories, ToSet
<1> QED BY <1>2, <1>3, <1>4

\* The pass over the categories keeps those that decide so, each once.
LEMMA DecidingList ==
  ASSUME NEW d
  PROVE  /\ Deciding(d) \in Seq(Categories) /\ IsInjective(Deciding(d))
         /\ Range(Deciding(d)) = {c \in Categories : results[c].decision = d}
<1> DEFINE N == Len(Order)
           A == Seq(Categories)
           Next1(chosen, c) == IF results[c].decision = d THEN Append(chosen, c) ELSE chosen
           step == [p \in (1..N) \X A |-> Next1(p[2], Order[p[1]])]
           Eq(f) == f = [n \in 0..N |-> IF n = 0 THEN << >> ELSE Next1(f[n - 1], Order[n])]
           kept == CHOOSE f : Eq(f)
<1>1. N \in Nat /\ \A n \in 1..N : Order[n] \in Categories
  BY OrderFacts
<1>2. Deciding(d) = kept[N]
  BY DEF Deciding, Pass, Passes
<1>3. step \in [(1..N) \X A -> A]
  <2>1. \A s \in A, n \in 1..N : Next1(s, Order[n]) \in A
    BY <1>1
  <2> HIDE DEF Next1, A
  <2> QED BY <2>1
<1> HIDE DEF N
<1>4. StepsIn(N, A, << >>, step)
  <2>1. << >> \in A
    OBVIOUS
  <2> QED BY <1>1, <1>3, <2>1 DEF StepsIn
<1> HIDE DEF Next1, A
<1>5. PICK f \in [0..N -> A] :
        f[0] = << >> /\ \A n \in 1..N : f[n] = step[<<n, f[n - 1]>>]
  <2> HIDE DEF step
  <2> QED BY <1>4, LoopExists
<1>6. Eq(f)
  <2>1. \A n \in 1..N : n - 1 \in 0..N
    BY <1>1
  <2>2. \A n \in 1..N : f[n] = Next1(f[n - 1], Order[n])
    BY <1>5, <2>1
  <2>3. \A n \in 0..N : n = 0 \/ n \in 1..N
    BY <1>1
  <2> HIDE DEF step
  <2> QED BY <1>5, <2>2, <2>3
<1>7. Eq(kept)
  BY <1>6
<1> HIDE DEF kept, step
<1>8. kept[0] = << >> /\ \A n \in 1..N : kept[n] = Next1(kept[n - 1], Order[n])
  <2>1. \A n \in 1..N : n \in 0..N /\ n # 0
    OBVIOUS
  <2>2. \A n \in 1..N : kept[n] = Next1(kept[n - 1], Order[n])
    BY <1>7, <2>1
  <2> QED BY <1>1, <1>7, <2>2
<1> DEFINE Upto(k) == {c \in Categories : /\ \E i \in 1..k : Order[i] = c
                                         /\ results[c].decision = d}
           I == {k \in 0..N : /\ kept[k] \in Seq(Categories) /\ IsInjective(kept[k])
                              /\ Range(kept[k]) = Upto(k)}
<1>9. 0 \in I
  <2>1. << >> \in Seq(Categories) /\ IsInjective(<< >>) /\ Range(<< >>) = {}
    BY DEF IsInjective, Range
  <2>2. Upto(0) = {}
    OBVIOUS
  <2>3. 0 \in 0..N
    BY <1>1
  <2> HIDE DEF Upto
  <2> QED BY <1>8, <2>1, <2>2, <2>3
<1>10. ASSUME NEW k \in 0..(N - 1), k \in I PROVE k + 1 \in I
  <2> DEFINE c == Order[k + 1]
  <2>1. /\ k + 1 \in 1..N /\ k + 1 \in 0..N /\ (k + 1) - 1 = k
        /\ \A i \in 1..(k + 1) : (i \in 1..k \/ i = k + 1) /\ i \in 1..N
        /\ \A i \in 1..k : i \in 1..(k + 1) /\ i # k + 1
        /\ k + 1 \in 1..(k + 1)
    BY <1>1
  <2>2. kept[k + 1] = Next1(kept[k], c)
    BY <1>8, <2>1
  <2>3. /\ kept[k] \in Seq(Categories) /\ IsInjective(kept[k])
        /\ Range(kept[k]) = Upto(k)
    BY <1>10
  <2>4. c \in Categories /\ \A i \in 1..k : Order[i] # c
    BY <1>1, <2>1, OrderFacts DEF N
  <2>5. Upto(k + 1) = IF results[c].decision = d THEN Upto(k) \cup {c} ELSE Upto(k)
    BY <2>1, <2>4
  <2>6. c \notin Upto(k)
    BY <2>4
  <2> HIDE DEF c, Upto
  <2>7. /\ kept[k + 1] \in Seq(Categories) /\ IsInjective(kept[k + 1])
        /\ Range(kept[k + 1]) = Upto(k + 1)
    <3>1. CASE results[c].decision = d
      <4>1. kept[k + 1] = Append(kept[k], c)
        BY <2>2, <3>1 DEF Next1
      <4>2. /\ Append(kept[k], c) \in Seq(Categories)
            /\ Range(Append(kept[k], c)) = Range(kept[k]) \cup {c}
            /\ IsInjective(kept[k]) /\ c \notin Range(kept[k]) =>
                 IsInjective(Append(kept[k], c))
        BY <2>3, <2>4, AppendedList
      <4> QED BY <2>3, <2>5, <2>6, <3>1, <4>1, <4>2
    <3>2. CASE results[c].decision # d
      BY <2>2, <2>3, <2>5, <3>2 DEF Next1
    <3> QED BY <3>1, <3>2
  <2> QED BY <2>1, <2>7
<1> HIDE DEF I
<1>11. \A k \in 0..N : k \in I
  BY <1>1, <1>9, <1>10, Climbs
<1>12. N \in I
  BY <1>1, <1>11
<1>13. Upto(N) = {c \in Categories : results[c].decision = d}
  BY OrderFacts DEF N
<1> QED BY <1>2, <1>12, <1>13 DEF I

\* What the deterministic tier has made of the categories: decisions, and
\* scores that are numbers.
Decided ==
  \A c \in Categories : results[c].decision \in Decisions /\ Value(c) \in Int

Ranked == Direct \o Ambiguous

\* The candidates as a list, the direct ones first, each once.
LEMMA RankedList ==
  ASSUME Decided
  PROVE  /\ Ranked \in Seq(Categories) /\ Len(Ranked) = Len(Direct) + Len(Ambiguous)
         /\ Len(Direct) \in Nat /\ Len(Ambiguous) \in Nat
         /\ \A i \in 1..Len(Ranked) : Ranked[i] \in Candidates
         /\ \A i, j \in 1..Len(Ranked) : Ranked[i] = Ranked[j] => i = j
         /\ \A c \in Candidates : \E i \in 1..Len(Ranked) : Ranked[i] = c
         /\ Len(Direct) >= 1 => Ranked[1] = Direct[1]
<1> DEFINE s == Direct
           t == Ambiguous
           m == Len(s)
           n == Len(t)
<1>1. /\ s \in Seq(Categories) /\ IsInjective(s)
      /\ Range(s) = {c \in Categories : results[c].decision = "notify_directly"}
  BY DecidingList DEF Direct
<1>2. /\ t \in Seq(Categories) /\ IsInjective(t)
      /\ Range(t) = {c \in Categories : results[c].decision = "needs_gemini"}
  BY DecidingList DEF Ambiguous
<1>3. Candidates = Range(s) \cup Range(t) /\ Range(s) \cap Range(t) = {}
  <2>1. \A c \in Categories : results[c].decision \in {"notify_directly", "needs_gemini", "reject"}
    BY DEF Decided, Decisions
  <2> HIDE DEF s, t
  <2> QED BY <1>1, <1>2, <2>1 DEF Candidates
<1> HIDE DEF s, t
<1>4. /\ m \in Nat /\ n \in Nat /\ DOMAIN s = 1..m /\ DOMAIN t = 1..n
      /\ s \o t \in Seq(Categories) /\ Len(s \o t) = m + n
      /\ \A i \in 1..m : (s \o t)[i] = s[i]
      /\ \A i \in 1..n : (s \o t)[m + i] = t[i]
      /\ \A i \in 1..(m + n) : i \in 1..m \/ (i - m \in 1..n /\ m + (i - m) = i)
      /\ \A i \in 1..m : i \in 1..(m + n)
      /\ \A i \in 1..n : m + i \in 1..(m + n)
  BY <1>1, <1>2
<1> HIDE DEF m, n
<1>5. \A i \in 1..m : s[i] \in Range(s)
  BY <1>4 DEF Range
<1>6. \A i \in 1..n : t[i] \in Range(t)
  BY <1>4 DEF Range
<1>7. \A i \in 1..(m + n) :
        \/ i \in 1..m /\ (s \o t)[i] = s[i]
        \/ i - m \in 1..n /\ (s \o t)[i] = t[i - m]
  BY <1>4
<1>8. \A i \in 1..(m + n) : (s \o t)[i] \in Candidates
  BY <1>3, <1>5, <1>6, <1>7
<1>9. ASSUME NEW i \in 1..(m + n), NEW j \in 1..(m + n), (s \o t)[i] = (s \o t)[j]
      PROVE  i = j
  <2>1. \A x, y \in 1..m : s[x] = s[y] => x = y
    BY <1>1, <1>4 DEF IsInjective
  <2>2. \A x, y \in 1..n : t[x] = t[y] => x = y
    BY <1>2, <1>4 DEF IsInjective
  <2>3. \A x \in 1..m, y \in 1..n : s[x] # t[y]
    BY <1>3, <1>5, <1>6
  <2>4. i - m = j - m => i = j
    BY <1>4
  <2> QED BY <1>7, <1>9, <2>1, <2>2, <2>3, <2>4
<1>10. ASSUME NEW c \in Candidates PROVE \E i \in 1..(m + n) : (s \o t)[i] = c
  <2>1. CASE c \in Range(s)
    <3>1. PICK i \in 1..m : s[i] = c
      BY <1>4, <2>1 DEF Range
    <3> QED BY <1>4, <3>1
  <2>2. CASE c \in Range(t)
    <3>1. PICK i \in 1..n : t[i] = c
      BY <1>4, <2>2 DEF Range
    <3> QED BY <1>4, <3>1
  <2> QED BY <1>3, <2>1, <2>2
<1>11. Ranked = s \o t
  BY DEF Ranked, s, t
<1>12. m = Len(Direct) /\ n = Len(Ambiguous) /\ s = Direct
  BY DEF m, n, s, t
<1>13. m >= 1 => (s \o t)[1] = s[1]
  BY <1>4
<1> QED BY <1>4, <1>8, <1>9, <1>10, <1>11, <1>12, <1>13

Pairs == [top : Categories \cup {None}, second : Categories \cup {None}]

\* Of the first k candidates, the best, and the best of the others.
BestTwo(k, best) ==
  /\ k = 0 => best.top = None /\ best.second = None
  /\ k >= 1 => \E i \in 1..k :
       /\ best.top = Ranked[i]
       /\ \A j \in 1..k : Value(Ranked[j]) <= Value(Ranked[i])
       /\ \/ k = 1 /\ best.second = None
          \/ \E m \in 1..k : /\ m # i /\ best.second = Ranked[m]
                             /\ \A j \in 1..k : j # i => Value(Ranked[j]) <= Value(Ranked[m])

LEMMA ChallengeStep ==
  ASSUME Decided, NEW k \in Nat, k + 1 <= Len(Ranked), NEW best \in Pairs, BestTwo(k, best)
  PROVE  /\ Challenge(best, Ranked[k + 1]) \in Pairs
         /\ BestTwo(k + 1, Challenge(best, Ranked[k + 1]))
<1> DEFINE c == Ranked[k + 1]
           V(j) == Value(Ranked[j])
           new == Challenge(best, c)
<1>1. /\ Len(Ranked) \in Nat /\ \A j \in 1..(k + 1) : Ranked[j] \in Categories
      /\ \A j \in 1..(k + 1) : j \in 1..k \/ j = k + 1
      /\ \A j \in 1..k : j \in 1..(k + 1) /\ j # k + 1
      /\ k + 1 \in 1..(k + 1) /\ k + 1 >= 1 /\ k + 1 # 0
  <2>1. Ranked \in Seq(Categories)
    BY RankedList
  <2> QED BY <2>1
<1>2. None \notin Categories
  BY SelectionAssumption DEF SelectionAssumption
<1>3. c \in Categories /\ \A j \in 1..(k + 1) : V(j) \in Int
  BY <1>1 DEF Decided
<1>4. new \in Pairs
  BY <1>3 DEF Challenge, Pairs
<1>5. best.top = None <=> k = 0
  BY <1>1, <1>2 DEF BestTwo
<1>6. CASE k = 0
  <2>1. new = [top |-> c, second |-> None]
    BY <1>5, <1>6 DEF Challenge
  <2>2. k + 1 = 1 /\ 1 \in 1..(k + 1) /\ \A j \in 1..(k + 1) : j = 1
    BY <1>6
  <2>3. \A j \in 1..(k + 1) : V(j) <= V(1)
    BY <1>3, <2>2
  <2>4. new.top = Ranked[1] /\ new.second = None
    BY <2>1, <2>2
  <2> HIDE DEF new
  <2>5. BestTwo(k + 1, new)
    BY <1>1, <2>2, <2>3, <2>4 DEF BestTwo
  <2> QED BY <1>4, <2>5 DEF new
<1>7. CASE k # 0
  <2>1. k >= 1
    BY <1>7
  <2>2. PICK i \in 1..k :
          /\ best.top = Ranked[i]
          /\ \A j \in 1..k : V(j) <= V(i)
          /\ \/ k = 1 /\ best.second = None
             \/ \E m \in 1..k : /\ m # i /\ best.second = Ranked[m]
                                /\ \A j \in 1..k : j # i => V(j) <= V(m)
    BY <2>1 DEF BestTwo
  <2>3. best.top # None /\ V(i) \in Int /\ V(k + 1) \in Int /\ Value(best.top) = V(i) /\ Value(c) = V(k + 1)
    BY <1>1, <1>3, <1>5, <1>7, <2>2
  <2> SUFFICES \E i2 \in 1..(k + 1) :
                 /\ new.top = Ranked[i2]
                 /\ \A j \in 1..(k + 1) : V(j) <= V(i2)
                 /\ \E m \in 1..(k + 1) : /\ m # i2 /\ new.second = Ranked[m]
                                          /\ \A j \in 1..(k + 1) : j # i2 => V(j) <= V(m)
    BY <1>1, <1>4 DEF BestTwo
  <2>4. CASE V(k + 1) > V(i)
    <3>1. new.top = Ranked[k + 1] /\ new.second = Ranked[i]
      BY <2>2, <2>3, <2>4 DEF Challenge
    <3>2. \A j \in 1..(k + 1) : V(j) <= V(k + 1)
      BY <1>1, <1>3, <2>2, <2>4
    <3>3. \A j \in 1..(k + 1) : j # k + 1 => V(j) <= V(i)
      BY <1>1, <2>2
    <3>4. i \in 1..(k + 1) /\ i # k + 1
      BY <1>1
    <3> HIDE DEF new, V
    <3> QED BY <1>1, <3>1, <3>2, <3>3, <3>4
  <2>5. CASE ~(V(k + 1) > V(i))
    <3>1. \A j \in 1..(k + 1) : V(j) <= V(i)
      BY <1>1, <2>2, <2>3, <2>5
    <3>2. i \in 1..(k + 1) /\ i # k + 1
      BY <1>1
    <3>3. CASE best.second = None
      <4>1. new.top = Ranked[i] /\ new.second = Ranked[k + 1]
        BY <2>2, <2>3, <2>5, <3>3 DEF Challenge, Pairs
      <4>2. k = 1
        BY <1>1, <1>2, <2>2, <3>3
      <4>3. \A j \in 1..(k + 1) : j # i => j = k + 1
        BY <4>2
      <4>4. \A j \in 1..(k + 1) : j # i => V(j) <= V(k + 1)
        <5> SUFFICES ASSUME NEW j \in 1..(k + 1), j # i PROVE V(j) <= V(k + 1)
          OBVIOUS
        <5>1. V(j) = V(k + 1)
          BY <4>3
        <5> QED BY <2>3, <5>1
      <4> HIDE DEF new, V
      <4> QED BY <1>1, <3>1, <3>2, <4>1, <4>4
    <3>4. CASE best.second # None
      <4>1. PICK m \in 1..k : /\ m # i /\ best.second = Ranked[m]
                              /\ \A j \in 1..k : j # i => V(j) <= V(m)
        BY <2>2, <3>4
      <4>2. V(m) \in Int /\ Value(best.second) = V(m) /\ m \in 1..(k + 1) /\ m # k + 1
        BY <1>1, <1>3, <4>1
      <4>3. CASE V(k + 1) > V(m)
        <5>1. new.top = Ranked[i] /\ new.second = Ranked[k + 1]
          BY <2>2, <2>3, <2>5, <3>4, <4>2, <4>3 DEF Challenge, Pairs
        <5>2. \A j \in 1..(k + 1) : j # i => V(j) <= V(k + 1)
          BY <1>1, <1>3, <2>3, <4>1, <4>2, <4>3
        <5> HIDE DEF new, V
        <5> QED BY <1>1, <3>1, <3>2, <5>1, <5>2
      <4>4. CASE ~(V(k + 1) > V(m))
        <5>1. new.top = Ranked[i] /\ new.second = Ranked[m]
          BY <2>2, <2>3, <2>5, <3>4, <4>1, <4>2, <4>4 DEF Challenge, Pairs
        <5>2. \A j \in 1..(k + 1) : j # i => V(j) <= V(m)
          BY <1>1, <2>3, <4>1, <4>2, <4>4
        <5> HIDE DEF new, V
        <5> QED BY <1>1, <3>1, <3>2, <4>1, <4>2, <5>1, <5>2
      <4> QED BY <4>3, <4>4
    <3> QED BY <3>3, <3>4
  <2> QED BY <2>4, <2>5
<1> QED BY <1>6, <1>7

\* The pass keeps the best candidate and the best of the others.
LEMMA BestPair ==
  ASSUME Decided
  PROVE  Best \in Pairs /\ BestTwo(Len(Ranked), Best)
<1> DEFINE N == Len(Ranked)
           base == [top |-> None, second |-> None]
           step == [p \in (1..N) \X Pairs |-> Challenge(p[2], Ranked[p[1]])]
           Eq(f) == f = [n \in 0..N |-> IF n = 0 THEN base ELSE Challenge(f[n - 1], Ranked[n])]
           best == CHOOSE f : Eq(f)
<1>1. N \in Nat /\ \A n \in 1..N : Ranked[n] \in Categories
  <2>1. Ranked \in Seq(Categories)
    BY RankedList
  <2> QED BY <2>1
<1>2. Best = best[N]
  BY DEF Best, Pass, Passes, Ranked
<1>3. base \in Pairs
  BY DEF Pairs
<1> HIDE DEF N, base
<1>4. step \in [(1..N) \X Pairs -> Pairs]
  <2>1. ASSUME NEW q \in Pairs, NEW n \in 1..N PROVE Challenge(q, Ranked[n]) \in Pairs
    BY <1>1 DEF Challenge, Pairs
  <2> QED BY <2>1
<1>5. StepsIn(N, Pairs, base, step)
  BY <1>1, <1>3, <1>4 DEF StepsIn
<1>6. PICK f \in [0..N -> Pairs] :
        f[0] = base /\ \A n \in 1..N : f[n] = step[<<n, f[n - 1]>>]
  <2> HIDE DEF step
  <2> QED BY <1>5, LoopExists
<1>7. Eq(f)
  <2>1. \A n \in 1..N : n - 1 \in 0..N
    BY <1>1
  <2>2. \A n \in 1..N : f[n] = Challenge(f[n - 1], Ranked[n])
    BY <1>6, <2>1
  <2>3. \A n \in 0..N : n = 0 \/ n \in 1..N
    BY <1>1
  <2> HIDE DEF step
  <2> QED BY <1>6, <2>2, <2>3
<1>8. Eq(best)
  BY <1>7
<1> HIDE DEF best, step
<1>9. best[0] = base /\ \A n \in 1..N : best[n] = Challenge(best[n - 1], Ranked[n])
  <2>1. \A n \in 1..N : n \in 0..N /\ n # 0
    OBVIOUS
  <2>2. \A n \in 1..N : best[n] = Challenge(best[n - 1], Ranked[n])
    BY <1>8, <2>1
  <2> QED BY <1>1, <1>8, <2>2
<1> DEFINE I == {k \in 0..N : best[k] \in Pairs /\ BestTwo(k, best[k])}
<1>10. 0 \in I
  <2>1. BestTwo(0, base)
    BY DEF BestTwo, base
  <2> QED BY <1>1, <1>3, <1>9, <2>1
<1>11. ASSUME NEW k \in 0..(N - 1), k \in I PROVE k + 1 \in I
  <2>1. /\ k + 1 \in 1..N /\ k + 1 \in 0..N /\ (k + 1) - 1 = k /\ k \in Nat
        /\ k + 1 <= Len(Ranked)
    BY <1>1 DEF N
  <2>2. best[k + 1] = Challenge(best[k], Ranked[k + 1])
    BY <1>9, <2>1
  <2>3. best[k] \in Pairs /\ BestTwo(k, best[k])
    BY <1>11
  <2>4. best[k + 1] \in Pairs /\ BestTwo(k + 1, best[k + 1])
    BY <2>1, <2>2, <2>3, ChallengeStep
  <2> QED BY <2>1, <2>4
<1> HIDE DEF I
<1>12. \A k \in 0..N : k \in I
  BY <1>1, <1>10, <1>11, Climbs
<1>13. N \in I
  BY <1>1, <1>12
<1> QED BY <1>2, <1>13 DEF I, N

\* The selection is the category the reference names, and none if it names none.
LEMMA SelectionIsPrevailing ==
  ASSUME Decided
  PROVE  /\ SelectCategory \in Categories \cup {None}
         /\ SelectCategory # None => Prevails(SelectCategory)
         /\ SelectCategory = None => \A c \in Categories : ~Prevails(c)
         /\ Len(Direct) + Len(Ambiguous) = 1 => SelectCategory # None
<1> DEFINE N == Len(Ranked)
           V(j) == Value(Ranked[j])
<1>1. /\ Ranked \in Seq(Categories) /\ N = Len(Direct) + Len(Ambiguous) /\ N \in Nat
      /\ \A i \in 1..N : Ranked[i] \in Candidates
      /\ \A i, j \in 1..N : Ranked[i] = Ranked[j] => i = j
      /\ \A c \in Candidates : \E i \in 1..N : Ranked[i] = c
  BY RankedList
<1>2. /\ Ranked # << >> <=> N # 0
      /\ N # 0 => Head(Ranked) = Ranked[1]
  BY <1>1
<1>3. None \notin Categories /\ Candidates \subseteq Categories
  BY SelectionAssumption DEF SelectionAssumption, Candidates
<1>4. SelectCategory =
        IF N = 1 THEN Head(Ranked)
        ELSE IF Ranked # << >> /\ Clears(Best) THEN Best.top
        ELSE None
  BY <1>1 DEF SelectCategory, Ranked
<1> HIDE DEF N
<1>5. CASE N = 0
  <2>1. SelectCategory = None
    BY <1>2, <1>4, <1>5
  <2>2. Candidates = {}
    BY <1>1, <1>5
  <2>3. \A c \in Categories : ~Prevails(c)
    BY <2>2 DEF Prevails
  <2> QED BY <1>1, <1>5, <2>1, <2>3
<1>6. CASE N = 1
  <2>1. SelectCategory = Ranked[1]
    BY <1>2, <1>4, <1>6
  <2>2. Candidates = {Ranked[1]}
    BY <1>1, <1>6
  <2>3. Prevails(Ranked[1])
    BY <2>2 DEF Prevails
  <2> QED BY <1>3, <2>1, <2>2, <2>3
<1>7. CASE N >= 2
  <2>1. /\ N # 0 /\ N # 1 /\ N >= 1
        /\ \A i \in 1..N : Ranked[i] \in Categories /\ Ranked[i] # None /\ V(i) \in Int
    BY <1>1, <1>3, <1>7 DEF Decided
  <2>2. PICK i \in 1..N, m \in 1..N :
          /\ Best.top = Ranked[i] /\ Best.second = Ranked[m] /\ m # i
          /\ \A j \in 1..N : V(j) <= V(i)
          /\ \A j \in 1..N : j # i => V(j) <= V(m)
    BY <2>1, BestPair DEF BestTwo, N
  <2>3. Clears(Best) <=> /\ V(i) >= Threshold(results[Ranked[i]].decision)
                         /\ V(i) - V(m) >= Margin
    BY <2>1, <2>2 DEF Clears
  <2>4. SelectCategory = IF Clears(Best) THEN Ranked[i] ELSE None
    BY <1>2, <1>4, <2>1, <2>2
  <2>5. Ranked[i] \in Candidates /\ Ranked[m] \in Candidates /\ Ranked[m] # Ranked[i]
    BY <1>1, <2>2
  <2>6. \A d \in Candidates \ {Ranked[i]} :
          \E j \in 1..N : j # i /\ Ranked[j] = d
    BY <1>1
  <2>7. CASE Clears(Best)
    <3>1. ASSUME NEW d \in Candidates \ {Ranked[i]}
          PROVE  V(i) - Value(d) >= Margin
      <4>1. PICK j \in 1..N : j # i /\ Ranked[j] = d
        BY <2>6
      <4>2. V(j) <= V(m) /\ V(j) \in Int /\ V(m) \in Int /\ V(i) \in Int /\ V(i) - V(m) >= Margin
        BY <2>1, <2>2, <2>3, <2>7, <4>1
      <4>3. Value(d) = V(j)
        BY <4>1
      <4> HIDE DEF V
      <4> QED BY <4>2, <4>3 DEF Margin
    <3>2. Prevails(Ranked[i])
      BY <2>3, <2>5, <2>7, <3>1 DEF Prevails
    <3>3. SelectCategory = Ranked[i] /\ SelectCategory # None
      BY <2>1, <2>4, <2>7
    <3> QED BY <2>1, <3>2, <3>3
  <2>8. CASE ~Clears(Best)
    <3>1. ASSUME NEW c \in Categories, Prevails(c) PROVE FALSE
      <4>1. /\ c \in Candidates /\ Value(c) >= Threshold(results[c].decision)
            /\ \A d \in Candidates \ {c} : Value(c) - Value(d) >= Margin
        BY <2>5, <3>1 DEF Prevails
      <4>2. CASE c = Ranked[i]
        <5>1. V(i) >= Threshold(results[Ranked[i]].decision)
          BY <4>1, <4>2
        <5>2. V(i) - V(m) >= Margin
          BY <2>5, <4>1, <4>2
        <5> QED BY <2>3, <2>8, <5>1, <5>2
      <4>3. CASE c # Ranked[i]
        <5>1. PICK q \in 1..N : Ranked[q] = c
          BY <1>1, <4>1
        <5>2. V(q) - V(i) >= Margin
          BY <2>5, <4>1, <4>3, <5>1
        <5>3. V(q) <= V(i) /\ V(q) \in Int /\ V(i) \in Int
          BY <2>1, <2>2
        <5> HIDE DEF V
        <5> QED BY <5>2, <5>3 DEF Margin
      <4> QED BY <4>2, <4>3
    <3>2. SelectCategory = None
      BY <2>4, <2>8
    <3> QED BY <1>1, <1>7, <3>1, <3>2
  <2> QED BY <2>7, <2>8
<1> QED BY <1>1, <1>5, <1>6, <1>7

\* What the keywords say of a category: one of the decisions, a score, and hits
\* that stand apart.
LEMMA DecisionInTable ==
  ASSUME NEW p, NEW e PROVE Decision(p, e) \in Decisions
<1> DEFINE hard == e.hard
           win  == ~e.hard /\ e.titleCore /\ ~e.titleNegative
           lose == ~e.hard /\ ~e.titleCore /\ e.titleNegative /\ e.hits = << >>
           core == ~e.hard /\ ~(e.titleCore /\ ~e.titleNegative) /\ e.hits # << >>
<1>1. CASE e.hard
  BY <1>1 DEF Decision, Decisions
<1>2. CASE win
  BY <1>2 DEF Decision, Decisions
<1>3. CASE lose
  BY <1>3 DEF Decision, Decisions
<1>4. CASE core
  BY <1>4 DEF Decision, Decisions
<1>5. CASE ~(e.hard \/ win \/ lose \/ core)
  BY <1>5 DEF Decision, Decisions
<1> QED BY <1>1, <1>2, <1>3, <1>4, <1>5

LEMMA FilterResult ==
  ASSUME TypeOK, NEW c \in Categories
  PROVE  /\ KeywordFilter(Profile[c]).decision \in Decisions
         /\ Score(KeywordFilter(Profile[c]).evidence) \in Int
         /\ Placed(text, Profile[c].core, KeywordFilter(Profile[c]).evidence.hits)
<1> DEFINE p == Profile[c]
           e == Evidence(p)
<1>1. text \in Seq(Words)
  BY DEF TypeOK
<1>2. /\ p.core \in Seq(Items) /\ p.supporting \in Seq(Items) /\ p.against \in Seq(Items)
      /\ LongestFirst(p.core) /\ LongestFirst(p.supporting) /\ LongestFirst(p.against)
  BY SelectionAssumption DEF SelectionAssumption, Tiers
<1>3. /\ MatchTier(text, p.core) \in Seq(Items)
      /\ Placed(text, p.core, MatchTier(text, p.core))
  BY <1>1, <1>2, MatchTierPlaced
<1>4. Weight(MatchTier(text, p.supporting)) \in Nat
  BY <1>1, <1>2, MatchTierPlaced, WeightNat
<1>5. Weight(MatchTier(text, p.against)) \in Nat
  BY <1>1, <1>2, MatchTierPlaced, WeightNat
<1>6. /\ e.hits = MatchTier(text, p.core)
      /\ e.support = Weight(MatchTier(text, p.supporting))
      /\ e.against = Weight(MatchTier(text, p.against))
  BY DEF Evidence
<1>7. KeywordFilter(p).evidence = e /\ KeywordFilter(p).decision = Decision(p, e)
  BY DEF KeywordFilter
<1> HIDE DEF e, p
<1>8. Len(e.hits) \in Nat
  BY <1>3, <1>6
<1>9. Score(e) \in Int
  BY <1>4, <1>5, <1>6, <1>8 DEF Score
<1> QED BY <1>3, <1>6, <1>7, <1>9, DecisionInTable DEF p

-----------------------------------------------------------------------------
(* The job *)

\* The types, what the selection compares, and the properties.
SelectionInv ==
  TypeOK /\ Decided /\ HitsClaimTheirWords /\ SelectsWhatPrevails /\ NoCandidateDropped

LEMMA BoundedWords ==
  ASSUME NEW words \in Seq(Words), NEW bound \in Nat
  PROVE  BoundedInput(words, bound) \in Seq(Words) /\ Len(BoundedInput(words, bound)) <= bound
<1> DEFINE m == IF Len(words) < bound THEN Len(words) ELSE bound
<1>1. Len(words) \in Nat /\ m \in Nat /\ m <= Len(words) /\ m <= bound
  OBVIOUS
<1>2. BoundedInput(words, bound) = SubSeq(words, 1, m)
  BY DEF BoundedInput
<1> HIDE DEF m
<1>3. SubSeq(words, 1, m) \in Seq(Words) /\ Len(SubSeq(words, 1, m)) = m
  BY <1>1
<1> QED BY <1>1, <1>2, <1>3

\* Initially no category has anything.
LEMMA SelectionInit == Init => SelectionInv
<1> SUFFICES ASSUME Init PROVE SelectionInv
  OBVIOUS
<1>1. PICK t \in Titles, d \in Descriptions :
        title = BoundedInput(t, MaxTitle) /\ text = BoundedInput(t \o d, MaxText)
  BY DEF Init
<1>2. t \in Seq(Words) /\ t \o d \in Seq(Words) /\ MaxTitle \in Nat /\ MaxText \in Nat
  <2>1. t \in Seq(Words) /\ d \in Seq(Words) /\ MaxTitle \in Nat /\ MaxText \in Nat
    BY SelectionAssumption DEF SelectionAssumption
  <2> QED BY <2>1
<1>3. /\ title \in Seq(Words) /\ Len(title) <= MaxTitle
      /\ text \in Seq(Words) /\ Len(text) <= MaxText
  BY <1>1, <1>2, BoundedWords
<1>4. /\ DOMAIN results = Categories /\ stage = "new" /\ pick = None /\ recheck \in BOOLEAN
      /\ \A c \in Categories : results[c].evidence = NoEvidence /\ results[c].decision = "reject"
  BY DEF Init
<1>5. TypeOK
  BY <1>3, <1>4 DEF TypeOK, Decisions, Stages
<1>6. Decided
  <2>1. NoEvidence.hits = << >> /\ NoEvidence.support = 0 /\ NoEvidence.against = 0 /\ Len(<< >>) = 0
    BY DEF NoEvidence
  <2>2. Score(NoEvidence) \in Int
    BY <2>1 DEF Score
  <2> QED BY <1>4, <2>2 DEF Decided, Decisions, Value
<1>7. HitsClaimTheirWords
  <2>1. \A c \in Categories : results[c].evidence.hits = << >>
    BY <1>4 DEF NoEvidence
  <2>2. stage = "new"
    BY <1>4
  <2>3. DOMAIN << >> = {} /\ << >> \in [{} -> DOMAIN text]
    OBVIOUS
  <2> QED BY <2>1, <2>2, <2>3 DEF HitsClaimTheirWords
<1> QED BY <1>4, <1>5, <1>6, <1>7 
  DEF SelectionInv, SelectsWhatPrevails, NoCandidateDropped

\* Of a job that is rejected no category was a candidate.
LEMMA RejectedHasNoCandidate ==
  ASSUME SelectionInv, Reject PROVE Candidates = {}
<1>1. /\ Decided /\ stage = "selected" /\ ~Arbitrable /\ ~Acceptable
      /\ (pick = None => \A c \in Categories : ~Prevails(c))
  BY DEF SelectionInv, Reject, SelectsWhatPrevails
<1>2. /\ Ranked \in Seq(Categories) /\ Len(Ranked) = Len(Direct) + Len(Ambiguous)
      /\ Len(Direct) \in Nat /\ Len(Ambiguous) \in Nat
      /\ \A i \in 1..Len(Ranked) : Ranked[i] \in Candidates
      /\ \A c \in Candidates : \E i \in 1..Len(Ranked) : Ranked[i] = c
  BY <1>1, RankedList
<1>3. CASE Ranked = << >>
  <2>1. Len(Ranked) = 0
    BY <1>3
  <2> QED BY <1>2, <2>1
<1>4. CASE Ranked # << >>
  <2>1. pick = None /\ ~NeedsArbitration
    BY <1>1, <1>4 DEF Arbitrable, Acceptable, Ranked
  <2>2. Ambiguous = << >> /\ ~(Len(Direct) > 1)
    BY <2>1 DEF NeedsArbitration
  <2>3. Len(Ranked) # 0
    BY <1>2, <1>4
  <2>4. Len(Ambiguous) = 0
    BY <2>2
  <2>5. Len(Ranked) = 1
    <3> DEFINE m == Len(Direct)
               n == Len(Ambiguous)
               k == Len(Ranked)
    <3>1. m \in Nat /\ n = 0 /\ k = m + n /\ k # 0 /\ ~(m > 1)
      BY <1>2, <2>2, <2>3, <2>4
    <3> HIDE DEF m, n, k
    <3>2. k = 1
      BY <3>1
    <3> QED BY <3>2 DEF k
  <2>6. Candidates = {Ranked[1]}
    <3> DEFINE k == Len(Ranked)
    <3>1. /\ k = 1 /\ \A i \in 1..k : Ranked[i] \in Candidates
          /\ \A c \in Candidates : \E i \in 1..k : Ranked[i] = c
      BY <1>2, <2>5
    <3> HIDE DEF k
    <3>2. 1 \in 1..k /\ \A i \in 1..k : i = 1
      BY <3>1
    <3> QED BY <3>1, <3>2
  <2>7. Prevails(Ranked[1]) /\ Ranked[1] \in Categories
    BY <2>6 DEF Prevails, Candidates
  <2> QED BY <1>1, <2>1, <2>7
<1> QED BY <1>3, <1>4

\* Every step keeps the invariant.
LEMMA SelectionStep == SelectionInv /\ [Next]_vars => SelectionInv'
<1> SUFFICES ASSUME SelectionInv, [Next]_vars PROVE SelectionInv'
  OBVIOUS
<1>1. TypeOK /\ Decided /\ HitsClaimTheirWords /\ SelectsWhatPrevails /\ NoCandidateDropped
  BY DEF SelectionInv
\* While the results stay as they are, so does what is said of them alone.
<1>2. ASSUME UNCHANGED <<title, text, results>>
      PROVE  /\ Decided' /\ Candidates' = Candidates
             /\ stage # "new" \/ stage' = "new" => HitsClaimTheirWords'
             /\ \A c \in Categories : Prevails(c)' <=> Prevails(c)
  <2>1. Candidates' = Candidates /\ \A c : Value(c)' = Value(c)
    BY <1>2 DEF Candidates, Value, Score
  <2>2. Decided'
    BY <1>1, <1>2, <2>1 DEF Decided
  <2>4. \A c \in Categories : Prevails(c)' <=> Prevails(c)
    BY <1>2, <2>1 DEF Prevails, Threshold
  <2>3. ASSUME stage # "new" PROVE HitsClaimTheirWords'
    <3>1. \A c \in Categories : Placed(text, Profile[c].core, results[c].evidence.hits)
      BY <1>1, <2>3 DEF HitsClaimTheirWords, Placed, Apart, Counted
    <3>2. \A c \in Categories : Placed(text', Profile[c].core, results'[c].evidence.hits)
      BY <1>2, <3>1
    <3> QED BY <3>2 DEF HitsClaimTheirWords, Placed, Apart, Counted
  <2>5. ASSUME stage' = "new" PROVE HitsClaimTheirWords'
    <3>1. \A c \in Categories :
            \E at : Apart(text, results[c].evidence.hits, at)
      BY <1>1 DEF HitsClaimTheirWords, Apart
    <3>2. \A c \in Categories :
            \E at : Apart(text', results'[c].evidence.hits, at)
      BY <1>2, <3>1
    <3> QED BY <2>5, <3>2 DEF HitsClaimTheirWords, Apart
  <2> QED BY <2>1, <2>2, <2>3, <2>4, <2>5
<1>3. CASE ClassifyCategories
  <2>1. /\ stage' = "classified"
        /\ results' = [c \in Categories |-> KeywordFilter(Profile[c])]
        /\ UNCHANGED <<title, text, recheck, pick>>
    BY <1>3 DEF ClassifyCategories
  <2>2. \A c \in Categories :
          /\ results'[c].decision \in Decisions
          /\ Score(results'[c].evidence) \in Int
          /\ Placed(text, Profile[c].core, results'[c].evidence.hits)
    BY <1>1, <2>1, FilterResult
  <2>3. TypeOK'
    BY <1>1, <2>1, <2>2 DEF TypeOK, Stages
  <2>4. Decided'
    BY <2>2 DEF Decided, Value
  <2>5. HitsClaimTheirWords'
    <3>1. \A c \in Categories : Placed(text', Profile[c].core, results'[c].evidence.hits)
      BY <2>1, <2>2
    <3> QED BY <3>1 DEF HitsClaimTheirWords, Placed, Apart, Counted
  <2> QED BY <2>1, <2>3, <2>4, <2>5 DEF SelectionInv, SelectsWhatPrevails, NoCandidateDropped
<1>4. CASE Select
  <2>1. /\ stage # "new" /\ stage' = "selected" /\ pick' = SelectCategory
        /\ UNCHANGED <<title, text, recheck, results>>
    BY <1>4 DEF Select
  <2>2. /\ SelectCategory \in Categories \cup {None}
        /\ SelectCategory # None => Prevails(SelectCategory)
        /\ SelectCategory = None => \A c \in Categories : ~Prevails(c)
    BY <1>1, SelectionIsPrevailing
  <2>3. TypeOK'
    BY <1>1, <2>1, <2>2 DEF TypeOK, Stages
  <2>4. ASSUME pick' # None PROVE Prevails(pick)'
    <3>1. pick' \in Categories /\ Prevails(pick')
      BY <2>1, <2>2, <2>4
    <3>2. Candidates' = Candidates /\ \A c : Value(c)' = Value(c)
      BY <2>1 DEF Candidates, Value, Score
    <3> QED BY <2>1, <3>1, <3>2 DEF Prevails, Threshold
  <2>5. pick' = None => \A c \in Categories : ~Prevails(c)'
    BY <1>2, <2>1, <2>2
  <2>6. SelectsWhatPrevails'
    BY <2>4, <2>5 DEF SelectsWhatPrevails
  <2>7. NoCandidateDropped'
    BY <2>1 DEF NoCandidateDropped
  <2> QED BY <1>2, <2>1, <2>3, <2>6, <2>7 DEF SelectionInv
<1>5. CASE Arbitrate
  <2>1. /\ stage # "new" /\ stage' = "arbitration" /\ pick' = None
        /\ UNCHANGED <<title, text, recheck, results>>
    BY <1>5 DEF Arbitrate
  <2>2. TypeOK'
    BY <1>1, <2>1 DEF TypeOK, Stages
  <2> QED BY <1>2, <2>1, <2>2 DEF SelectionInv, SelectsWhatPrevails, NoCandidateDropped
<1>6. CASE AcceptPick
  <2>1. /\ stage # "new" /\ stage' \in {"keyword_direct", "keyword_direct_tiebreak"}
        /\ UNCHANGED <<title, text, recheck, results, pick>>
    BY <1>6 DEF AcceptPick
  <2>2. TypeOK'
    BY <1>1, <2>1 DEF TypeOK, Stages
  <2> QED BY <1>2, <2>1, <2>2 DEF SelectionInv, SelectsWhatPrevails, NoCandidateDropped
<1>7. CASE Reject
  <2>1. stage # "new" /\ stage' = "rejected" /\ UNCHANGED <<title, text, recheck, results, pick>>
    BY <1>7 DEF Reject
  <2>2. TypeOK'
    BY <1>1, <2>1 DEF TypeOK, Stages
  <2>3. Candidates = {}
    BY <1>7, RejectedHasNoCandidate
  <2>4. NoCandidateDropped'
    BY <1>2, <2>1, <2>3 DEF NoCandidateDropped
  <2> QED BY <1>2, <2>1, <2>2, <2>4 DEF SelectionInv, SelectsWhatPrevails
<1>8. CASE UNCHANGED vars
  <2>1. UNCHANGED <<title, text, recheck, results, pick, stage>>
    BY <1>8 DEF vars
  <2>2. TypeOK'
    BY <1>1, <2>1 DEF TypeOK
  <2>3. NoCandidateDropped'
    BY <1>1, <1>2, <2>1 DEF NoCandidateDropped
  <2>4. SelectsWhatPrevails'
    <3>1. Candidates' = Candidates /\ \A c : Value(c)' = Value(c)
      BY <2>1 DEF Candidates, Value, Score
    <3>2. Prevails(pick)' <=> Prevails(pick)
      BY <2>1, <3>1 DEF Prevails, Threshold
    <3>3. \A c \in Categories : Prevails(c)' <=> Prevails(c)
      BY <1>2, <2>1
    <3> QED BY <1>1, <2>1, <3>2, <3>3 DEF SelectsWhatPrevails
  <2>5. HitsClaimTheirWords'
    BY <1>2, <2>1
  <2> QED BY <1>2, <2>1, <2>2, <2>3, <2>4, <2>5 DEF SelectionInv
<1> QED BY <1>3, <1>4, <1>5, <1>6, <1>7, <1>8 DEF Next

LEMMA SelectionInvariant == Spec => []SelectionInv
BY SelectionInit, SelectionStep, PTL DEF Spec

\* What is classified is bounded, and the pick is a category (classification.py).
THEOREM SelectionTyped == Spec => []TypeOK
<1>1. SelectionInv => TypeOK
  BY DEF SelectionInv
<1> QED BY SelectionInvariant, <1>1, PTL

\* The longest phrase wins, whatever keywords a category has: those counted stand
\* at different words of the text, and what is in the text and not counted gave
\* way to a longer one, wherever it stands (_flatten, _match_tier).
THEOREM LongestPhraseWins == Spec => []HitsClaimTheirWords
<1>1. SelectionInv => HitsClaimTheirWords
  BY DEF SelectionInv
<1> QED BY SelectionInvariant, <1>1, PTL

\* One pass over the candidates that remembers two of them finds the category
\* that beats all the others by the margin, if there is one
\* (_select_category_internal).
THEOREM SelectionIsTheReference == Spec => []SelectsWhatPrevails
<1>1. SelectionInv => SelectsWhatPrevails
  BY DEF SelectionInv
<1> QED BY SelectionInvariant, <1>1, PTL

\* No job with a candidate is rejected without the LLM (process_job).
THEOREM CandidatesReachTheLLM == Spec => []NoCandidateDropped
<1>1. SelectionInv => NoCandidateDropped
  BY DEF SelectionInv
<1> QED BY SelectionInvariant, <1>1, PTL

================================================================================
