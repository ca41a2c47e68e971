----------------------------- MODULE ScraperProofs -----------------------------
(***************************************************************************)
(* Theorems about ScraperChain, for any jobs, any pages that shift while   *)
(* they are read, and any number of faults.                                *)
(***************************************************************************)
EXTENDS ScraperChain, FiniteSetTheorems, TLAPS

-----------------------------------------------------------------------------
(* What filtering, cutting, joining and extending a list leaves in it.      *)

LEMMA AscendingList ==
  ASSUME NEW S \in SUBSET Int, IsFiniteSet(S)
  PROVE  /\ Cardinality(S) \in Nat
         /\ Ascending(S) \in [1..Cardinality(S) -> S]
         /\ \A x \in S : \E i \in 1..Cardinality(S) : Ascending(S)[i] = x
         /\ \A i, j \in 1..Cardinality(S) : i < j => Ascending(S)[i] < Ascending(S)[j]
<1> DEFINE n == Cardinality(S)
           Below(x) == {y \in S : y < x}
           Rank(x) == Cardinality(Below(x))
           r == [x \in S |-> Rank(x) + 1]
<1>1. n \in Nat
  BY FS_CardinalityType
<1>2. ASSUME NEW x \in S PROVE /\ Rank(x) \in Nat /\ Rank(x) < n
                               /\ IsFiniteSet(Below(x))
  <2>1. IsFiniteSet(Below(x)) /\ Rank(x) <= n /\ (n = Rank(x) => S = Below(x))
    <3>1. Below(x) \in SUBSET S
      OBVIOUS
    <3> QED BY <3>1, FS_Subset
  <2>2. x \notin Below(x)
    OBVIOUS
  <2>3. Rank(x) \in Nat
    BY <2>1, FS_CardinalityType
  <2> QED BY <1>1, <2>1, <2>2, <2>3
<1>3. ASSUME NEW x \in S, NEW y \in S, x < y PROVE Rank(x) < Rank(y)
  <2>0. \A z \in S : z < x => z < y
    BY <1>3
  <2>a. Below(x) \in SUBSET Below(y)
    BY <2>0
  <2>b. x \in Below(y) /\ x \notin Below(x)
    BY <1>3
  <2>1. Below(x) \in SUBSET Below(y) /\ x \in Below(y) /\ x \notin Below(x)
    BY <2>a, <2>b
  <2>2. Rank(x) <= Rank(y) /\ (Rank(y) = Rank(x) => Below(y) = Below(x))
    BY <1>2, <2>1, FS_Subset
  <2> QED BY <1>2, <2>1, <2>2
<1>3a. \A x, y \in S : x < y => Rank(x) < Rank(y)
  BY <1>3
<1>4. \A x, y \in S : Rank(x) = Rank(y) => x = y
  <2> SUFFICES ASSUME NEW x \in S, NEW y \in S, x # y PROVE Rank(x) # Rank(y)
    OBVIOUS
  <2>1. x < y \/ y < x
    OBVIOUS
  <2> QED BY <1>2, <1>3, <2>1
<1>4a. \A x \in S : Rank(x) \in Nat /\ Rank(x) < n
  BY <1>2
<1> HIDE DEF Rank, n, Below
<1>5. r \in Injection(S, 1..n)
  <2>1. r \in [S -> 1..n]
    BY <1>1, <1>4a
  <2>2. \A x, y \in S : r[x] = r[y] => x = y
    BY <1>4, <1>4a
  <2> QED BY <2>1, <2>2 DEF Injection, IsInjective
<1>6. IsFiniteSet(1..n) /\ Cardinality(1..n) = n
  BY <1>1, FS_Interval
<1>7. r \in Surjection(S, 1..n)
  BY <1>5, <1>6, FS_Injection DEF n
<1>8. \A i \in 1..n : \E x \in S : Rank(x) = i - 1
  <2> SUFFICES ASSUME NEW i \in 1..n PROVE \E x \in S : Rank(x) = i - 1
    OBVIOUS
  <2>1. PICK x \in S : r[x] = i
    BY <1>7 DEF Surjection
  <2> QED BY <1>1, <1>4a, <2>1
<1>9. \A i \in 1..n : /\ (CHOOSE x \in S : Rank(x) = i - 1) \in S
                      /\ Rank(CHOOSE x \in S : Rank(x) = i - 1) = i - 1
  BY <1>8
<1>10. Ascending(S) = [i \in 1..n |-> CHOOSE x \in S : Rank(x) = i - 1]
  BY DEF Ascending, n, Rank, Below
<1>11. \A x \in S : \E i \in 1..n : Ascending(S)[i] = x
  <2> SUFFICES ASSUME NEW x \in S PROVE \E i \in 1..n : Ascending(S)[i] = x
    OBVIOUS
  <2>1. Rank(x) + 1 \in 1..n /\ (Rank(x) + 1) - 1 = Rank(x)
    BY <1>1, <1>4a
  <2>2. Ascending(S)[Rank(x) + 1] = x
    BY <1>4, <1>9, <1>10, <2>1
  <2> QED BY <2>1, <2>2
<1>12. \A i, j \in 1..n : i < j => Ascending(S)[i] < Ascending(S)[j]
  <2> SUFFICES ASSUME NEW i \in 1..n, NEW j \in 1..n, i < j
               PROVE  Ascending(S)[i] < Ascending(S)[j]
    OBVIOUS
  <2> DEFINE x == Ascending(S)[i]
             y == Ascending(S)[j]
  <2>1. x \in S /\ y \in S /\ Rank(x) = i - 1 /\ Rank(y) = j - 1
    BY <1>9, <1>10
  <2>2. Rank(x) < Rank(y)
    BY <1>1, <2>1
  <2>3. Rank(x) # Rank(y) /\ ~(Rank(y) < Rank(x))
    BY <1>4a, <2>1, <2>2
  <2> HIDE DEF x, y
  <2>4. x \in Int /\ y \in Int /\ x # y /\ ~(y < x)
    BY <1>3a, <2>1, <2>3
  <2>5. x < y
    BY <2>4
  <2> QED BY <2>5 DEF x, y
<1> QED BY <1>1, <1>9, <1>10, <1>11, <1>12 DEF n

\* A filtered list holds the entries at the chosen positions, and no entry
\* twice when the list it comes from holds none twice.
LEMMA PickedList ==
  ASSUME NEW T, NEW s \in Seq(T), NEW K \in SUBSET (DOMAIN s)
  PROVE  /\ Picked(s, K) \in Seq(T)
         /\ Range(Picked(s, K)) = {s[i] : i \in K}
         /\ IsInjective(s) => IsInjective(Picked(s, K))
<1> DEFINE n == Cardinality(K)
           kept == Ascending(K)
<1>1. DOMAIN s = 1..Len(s) /\ Len(s) \in Nat /\ \A i \in 1..Len(s) : s[i] \in T
  OBVIOUS
<1>2. K \in SUBSET Int /\ IsFiniteSet(K)
  <2>1. IsFiniteSet(1..Len(s)) /\ K \in SUBSET (1..Len(s))
    BY <1>1, FS_Interval
  <2> QED BY <2>1, FS_Subset
<1>3. /\ n \in Nat /\ kept \in [1..n -> K]
      /\ \A x \in K : \E i \in 1..n : kept[i] = x
      /\ \A i, j \in 1..n : i < j => kept[i] < kept[j]
  BY <1>2, AscendingList
<1>4. Picked(s, K) = [k \in DOMAIN kept |-> s[kept[k]]]
  BY DEF Picked
<1> HIDE DEF n, kept
<1>5. Picked(s, K) = [k \in 1..n |-> s[kept[k]]]
  BY <1>3, <1>4
<1>6. \A k \in 1..n : s[kept[k]] \in T /\ kept[k] \in K /\ kept[k] \in DOMAIN s
  BY <1>1, <1>3
<1>7. Picked(s, K) \in Seq(T)
  BY <1>3, <1>5, <1>6
<1>8. ASSUME NEW i \in K PROVE s[i] \in Range(Picked(s, K))
  <2>1. PICK k \in 1..n : kept[k] = i
    BY <1>3
  <2> QED BY <1>5, <2>1 DEF Range
<1>9. Range(Picked(s, K)) \subseteq {s[i] : i \in K}
  BY <1>5, <1>6 DEF Range
<1>10. \A i, j \in 1..n : i # j => kept[i] # kept[j]
  <2> SUFFICES ASSUME NEW i \in 1..n, NEW j \in 1..n, i # j
               PROVE  kept[i] # kept[j]
    OBVIOUS
  <2>1. i < j \/ j < i
    BY <1>3
  <2>2. kept[i] \in Int /\ kept[j] \in Int
    BY <1>2, <1>3
  <2> QED BY <1>3, <2>1, <2>2
<1>11. IsInjective(s) => IsInjective(Picked(s, K))
  BY <1>5, <1>6, <1>10 DEF IsInjective
<1> QED BY <1>7, <1>8, <1>9, <1>11

LEMMA NotInList ==
  ASSUME NEW T, NEW s \in Seq(T), NEW S
  PROVE  /\ NotIn(s, S) \in Seq(T)
         /\ Range(NotIn(s, S)) = Range(s) \ S
         /\ IsInjective(s) => IsInjective(NotIn(s, S))
<1> DEFINE K == {i \in DOMAIN s : s[i] \notin S}
<1>1. {s[i] : i \in K} = Range(s) \ S
  BY DEF Range
<1>2. K \in SUBSET (DOMAIN s) /\ NotIn(s, S) = Picked(s, K)
  BY DEF NotIn
<1> HIDE DEF K
<1> QED BY <1>1, <1>2, PickedList

LEMMA RangeOfConcat ==
  ASSUME NEW T, NEW s \in Seq(T), NEW t \in Seq(T)
  PROVE  Range(s \o t) = Range(s) \cup Range(t)
<1>1. /\ Len(s) \in Nat /\ Len(t) \in Nat /\ DOMAIN s = 1..Len(s)
      /\ DOMAIN t = 1..Len(t) /\ DOMAIN (s \o t) = 1..(Len(s) + Len(t))
  OBVIOUS
<1>2. /\ \A i \in 1..Len(s) : (s \o t)[i] = s[i] /\ i \in DOMAIN (s \o t)
      /\ \A i \in 1..Len(t) : /\ (s \o t)[Len(s) + i] = t[i]
                              /\ Len(s) + i \in DOMAIN (s \o t)
  BY <1>1
<1>3. \A i \in DOMAIN (s \o t) :
        \/ i \in DOMAIN s /\ (s \o t)[i] = s[i]
        \/ i - Len(s) \in DOMAIN t /\ (s \o t)[i] = t[i - Len(s)]
  BY <1>1
<1>4. Range(s \o t) \subseteq Range(s) \cup Range(t)
  BY <1>3 DEF Range
<1>5. Range(s) \subseteq Range(s \o t)
  BY <1>1, <1>2 DEF Range
<1>6. Range(t) \subseteq Range(s \o t)
  BY <1>1, <1>2 DEF Range
<1> QED BY <1>4, <1>5, <1>6

LEMMA SetOfList ==
  ASSUME NEW T, NEW s \in Seq(T)
  PROVE  /\ ToSet(s) = Range(s) /\ Range(s) \subseteq T
         /\ IsFiniteSet(Range(s))
<1>1. Len(s) \in Nat /\ DOMAIN s = 1..Len(s) /\ \A i \in 1..Len(s) : s[i] \in T
  OBVIOUS
<1>2. ToSet(s) = Range(s) /\ Range(s) \subseteq T
  BY <1>1 DEF ToSet, Range
<1>3. s \in Surjection(1..Len(s), Range(s))
  BY <1>1 DEF Surjection, Range
<1>4. IsFiniteSet(1..Len(s))
  BY <1>1, FS_Interval
<1> QED BY <1>2, <1>3, <1>4, FS_Surjection

\* A piece of a list, and a list with one entry more.
LEMMA PieceOfList ==
  ASSUME NEW T, NEW s \in Seq(T), NEW m \in Nat \ {0}, NEW n \in Nat, n <= Len(s)
  PROVE  /\ SubSeq(s, m, n) \in Seq(T)
         /\ Len(SubSeq(s, m, n)) = IF m <= n THEN n - m + 1 ELSE 0
         /\ Range(SubSeq(s, m, n)) = {s[i] : i \in m..n}
         /\ IsInjective(s) => IsInjective(SubSeq(s, m, n))
<1> DEFINE t == SubSeq(s, m, n)
           l == IF m <= n THEN n - m + 1 ELSE 0
<1>1. /\ Len(s) \in Nat /\ DOMAIN s = 1..Len(s) /\ l \in Nat
      /\ \A i \in 1..l : i + m - 1 \in 1..Len(s) /\ i + m - 1 \in m..n
      /\ \A i \in m..n : i - m + 1 \in 1..l /\ (i - m + 1) + m - 1 = i
      /\ \A i \in 1..Len(s) : s[i] \in T
  OBVIOUS
<1>2. t \in Seq(T) /\ Len(t) = l /\ \A i \in 1..l : t[i] = s[i + m - 1]
  OBVIOUS
<1>3. DOMAIN t = 1..l
  BY <1>2
<1> HIDE DEF t, l
<1>4. Range(t) \subseteq {s[i] : i \in m..n}
  BY <1>1, <1>2, <1>3 DEF Range
<1>5. {s[i] : i \in m..n} \subseteq Range(t)
  <2> SUFFICES ASSUME NEW i \in m..n PROVE s[i] \in Range(t)
    OBVIOUS
  <2>1. i - m + 1 \in 1..l /\ t[i - m + 1] = s[i]
    BY <1>1, <1>2
  <2> QED BY <1>3, <2>1 DEF Range
<1>6. ASSUME IsInjective(s), NEW i \in 1..l, NEW j \in 1..l, t[i] = t[j] PROVE i = j
  <2>1. s[i + m - 1] = s[j + m - 1] /\ i + m - 1 \in DOMAIN s /\ j + m - 1 \in DOMAIN s
    BY <1>1, <1>2, <1>6
  <2>2. i + m - 1 = j + m - 1
    BY <1>6, <2>1 DEF IsInjective
  <2> QED BY <1>1, <2>2
<1>7. IsInjective(s) => IsInjective(t)
  BY <1>3, <1>6 DEF IsInjective
<1> QED BY <1>2, <1>4, <1>5, <1>7 DEF t, l

LEMMA InsertedList ==
  ASSUME NEW T, NEW s \in Seq(T), NEW k \in 1..(Len(s) + 1), NEW e \in T
  PROVE  /\ InsertAt(s, k, e) \in Seq(T)
         /\ Len(InsertAt(s, k, e)) = Len(s) + 1
         /\ \A i \in 1..(Len(s) + 1) :
              InsertAt(s, k, e)[i] = IF i < k THEN s[i] ELSE IF i = k THEN e ELSE s[i - 1]
         /\ Range(InsertAt(s, k, e)) = Range(s) \cup {e}
         /\ IsInjective(s) /\ e \notin Range(s) => IsInjective(InsertAt(s, k, e))
<1> DEFINE a == SubSeq(s, 1, k - 1)
           b == SubSeq(s, k, Len(s))
           t == InsertAt(s, k, e)
           n == Len(s)
<1>1. n \in Nat /\ DOMAIN s = 1..n /\ k \in 1..(n + 1) /\ \A i \in 1..n : s[i] \in T
  OBVIOUS
<1>2. /\ a \in Seq(T) /\ Len(a) = k - 1 /\ \A i \in 1..(k - 1) : a[i] = s[i]
  BY <1>1
<1>3. /\ b \in Seq(T) /\ Len(b) = n + 1 - k
      /\ \A i \in 1..(n + 1 - k) : b[i] = s[i + k - 1]
  BY <1>1
<1>4. t = (a \o <<e>>) \o b
  BY DEF InsertAt
<1> HIDE DEF a, b, t, n
<1>5. /\ a \o <<e>> \in Seq(T) /\ Len(a \o <<e>>) = k /\ (a \o <<e>>)[k] = e
      /\ \A i \in 1..(k - 1) : (a \o <<e>>)[i] = s[i]
  BY <1>1, <1>2
<1>6. t \in Seq(T) /\ Len(t) = n + 1
  BY <1>1, <1>3, <1>4, <1>5
<1>7. ASSUME NEW i \in 1..(n + 1)
      PROVE  t[i] = IF i < k THEN s[i] ELSE IF i = k THEN e ELSE s[i - 1]
  <2>1. CASE i <= k
    <3>1. t[i] = (a \o <<e>>)[i]
      BY <1>1, <1>3, <1>4, <1>5, <2>1
    <3> QED BY <1>1, <1>5, <2>1, <3>1
  <2>2. CASE k < i
    <3>1. i - k \in 1..(n + 1 - k) /\ (i - k) + k - 1 = i - 1
      BY <1>1, <2>2
    <3>2. t[i] = b[i - k]
      BY <1>1, <1>3, <1>4, <1>5, <2>2, <3>1
    <3> QED BY <1>1, <1>3, <2>2, <3>1, <3>2
  <2> QED BY <1>1, <2>1, <2>2
<1>8. DOMAIN t = 1..(n + 1)
  BY <1>6
<1>9. Range(t) = Range(s) \cup {e}
  <2>1. Range(t) \subseteq Range(s) \cup {e}
    <3> SUFFICES ASSUME NEW i \in 1..(n + 1) PROVE t[i] \in Range(s) \cup {e}
      BY <1>8 DEF Range
    <3>1. (i < k => i \in 1..n) /\ (i > k => i - 1 \in 1..n)
      BY <1>1
    <3>2. \A x \in 1..n : s[x] \in Range(s)
      BY <1>1 DEF Range
    <3>3. i < k \/ i = k \/ i > k
      BY <1>1
    <3> QED BY <1>1, <1>7, <3>1, <3>2, <3>3
  <2>2. e \in Range(t)
    BY <1>1, <1>7, <1>8 DEF Range
  <2>3. ASSUME NEW i \in 1..n PROVE s[i] \in Range(t)
    <3>1. CASE i < k
      <4>1. i \in 1..(n + 1) /\ t[i] = s[i]
        BY <1>1, <1>7, <3>1
      <4> QED BY <1>8, <4>1 DEF Range
    <3>2. CASE ~(i < k)
      <4>1. i + 1 \in 1..(n + 1) /\ t[i + 1] = s[i]
        BY <1>1, <1>7, <3>2
      <4> QED BY <1>8, <4>1 DEF Range
    <3> QED BY <3>1, <3>2
  <2> QED BY <1>1, <2>1, <2>2, <2>3 DEF Range
<1>10. ASSUME IsInjective(s), e \notin Range(s) PROVE IsInjective(t)
  <2>1. \A i \in 1..n : s[i] # e
    BY <1>1, <1>10 DEF Range
  <2>2. \A i, j \in 1..n : s[i] = s[j] => i = j
    BY <1>1, <1>10 DEF IsInjective
  <2> SUFFICES ASSUME NEW i \in 1..(n + 1), NEW j \in 1..(n + 1), t[i] = t[j]
               PROVE  i = j
    BY <1>8 DEF IsInjective
  <2>3. /\ i < k => i \in 1..n
        /\ i > k => i - 1 \in 1..n
        /\ j < k => j \in 1..n
        /\ j > k => j - 1 \in 1..n
    BY <1>1
  <2> QED BY <1>1, <1>7, <2>1, <2>2, <2>3
<1> QED BY <1>6, <1>7, <1>9, <1>10 DEF t, n

LEMMA JoinedList ==
  ASSUME NEW T, NEW s \in Seq(T), NEW t \in Seq(T), IsInjective(s), IsInjective(t),
         Range(s) \cap Range(t) = {}
  PROVE  IsInjective(s \o t)
<1>1. /\ Len(s) \in Nat /\ Len(t) \in Nat /\ DOMAIN s = 1..Len(s)
      /\ DOMAIN t = 1..Len(t) /\ DOMAIN (s \o t) = 1..(Len(s) + Len(t))
  OBVIOUS
<1>2. \A i \in DOMAIN (s \o t) :
        \/ i \in DOMAIN s /\ (s \o t)[i] = s[i]
        \/ /\ i > Len(s) /\ i - Len(s) \in DOMAIN t
           /\ (s \o t)[i] = t[i - Len(s)]
  BY <1>1
<1>3. \A i \in DOMAIN s, j \in DOMAIN t : s[i] # t[j]
  BY DEF Range
<1>4. /\ \A i, j \in DOMAIN s : s[i] = s[j] => i = j
      /\ \A i, j \in DOMAIN t : t[i] = t[j] => i = j
  BY DEF IsInjective
<1> SUFFICES ASSUME NEW i \in DOMAIN (s \o t), NEW j \in DOMAIN (s \o t),
                    (s \o t)[i] = (s \o t)[j]
             PROVE  i = j
  BY DEF IsInjective
<1> QED BY <1>1, <1>2, <1>3, <1>4

LEMMA ConcatFacts ==
  ASSUME NEW T, NEW s \in Seq(T), NEW t \in Seq(T)
  PROVE  /\ s \o t \in Seq(T) /\ Len(s \o t) = Len(s) + Len(t)
         /\ Len(s) \in Nat /\ Len(t) \in Nat
         /\ DOMAIN s = 1..Len(s) /\ DOMAIN t = 1..Len(t)
         /\ DOMAIN (s \o t) = 1..(Len(s) + Len(t))
         /\ \A i \in 1..Len(s) : (s \o t)[i] = s[i]
         /\ \A i \in 1..Len(t) : (s \o t)[Len(s) + i] = t[i] /\ t[i] \in T
OBVIOUS

-----------------------------------------------------------------------------
(* The inductive invariant *)

Everything(p) == Initial[p] \o ToPost[p]

\* A site lists the first of its postings, each of them once.
SitesInv ==
  /\ site \in [Platforms -> Seq(Jobs)]
  /\ \A p \in Platforms :
       /\ Len(Initial[p]) <= Len(site[p]) /\ Len(site[p]) <= Len(Everything(p))
       /\ IsInjective(site[p])
       /\ Range(site[p]) = {Everything(p)[i] : i \in 1..Len(site[p])}

\* What the LinkedIn search has covered of the listing: the pages before the
\* next one, and all of them once it is over.  Postings only push a job down.
Covered == IF linkedin.open THEN linkedin.page - 1 ELSE MaxPages["LinkedIn"]

SearchInv ==
  /\ linkedin \in [page : 1..(MaxPages["LinkedIn"] + 1), found : Seq(Jobs),
                   signatures : SUBSET SUBSET Jobs, open : BOOLEAN]
  /\ IsInjective(linkedin.found)
  /\ linkedin.open => linkedin.page <= MaxPages["LinkedIn"]
  /\ wuzzuf \in [todo : SUBSET (1..MaxPages["Wuzzuf"]), found : SUBSET Jobs,
                 started : BOOLEAN]
  /\ IsFiniteSet(wuzzuf.found)
  /\ gap \in BOOLEAN
  /\ listed \subseteq Range(site["LinkedIn"])
  /\ ~gap => \A i \in DOMAIN site["LinkedIn"] :
       /\ site["LinkedIn"][i] \in listed
       /\ i <= Covered * PerPage["LinkedIn"]
       => site["LinkedIn"][i] \in Range(linkedin.found)

\* A record without text is of a posting that has none.
Sound(records) == /\ records \subseteq Records
                  /\ \A r \in records : r.about = "bare" => r.job \in NoText

RecordsInv ==
  /\ run \in {"idle", "search", "details", "saving", "saved"}
  /\ Sound(output) /\ Sound(file)
  /\ batch \in [Platforms -> SUBSET Records]
  /\ \A p \in Platforms : Sound(batch[p])
  /\ seen \in [Platforms -> SUBSET Jobs]
  /\ decided \in [Jobs -> {"no", "text", "bare"}]
  /\ DecidedOnPosting
  /\ faults \in 0..MaxFaults

ScrapeInv == SitesInv /\ SearchInv /\ RecordsInv

-----------------------------------------------------------------------------
(* The sites *)

LEMMA Limits ==
  /\ Initial \in [Platforms -> Seq(Jobs)] /\ ToPost \in [Platforms -> Seq(Jobs)]
  /\ \A p \in Platforms : /\ PerPage[p] \in Nat /\ PerPage[p] >= 1
                          /\ MaxPages[p] \in Nat /\ MaxPages[p] >= 1
                          /\ Everything(p) \in Seq(Jobs) /\ IsInjective(Everything(p))
  /\ NoText \subseteq Jobs /\ DetailCap \in Nat /\ DetailCap >= 1 /\ MaxFaults \in Nat
  /\ "LinkedIn" \in Platforms /\ "Wuzzuf" \in Platforms
BY ScraperAssumption DEF Everything, Platforms

LEMMA AllPostings ==
  ASSUME NEW p \in Platforms
  PROVE  /\ Len(Initial[p]) \in Nat /\ Len(ToPost[p]) \in Nat
         /\ DOMAIN Initial[p] = 1..Len(Initial[p])
         /\ Len(Everything(p)) = Len(Initial[p]) + Len(ToPost[p])
         /\ DOMAIN Everything(p) = 1..(Len(Initial[p]) + Len(ToPost[p]))
         /\ \A i \in 1..Len(Initial[p]) : Everything(p)[i] = Initial[p][i]
         /\ \A i \in 1..Len(ToPost[p]) :
              /\ Everything(p)[Len(Initial[p]) + i] = ToPost[p][i]
              /\ ToPost[p][i] \in Jobs
<1> DEFINE a == Initial[p]
           b == ToPost[p]
           all == Everything(p)
<1>1. a \in Seq(Jobs) /\ b \in Seq(Jobs) /\ all = a \o b
  BY Limits DEF Everything
<1> HIDE DEF a, b, all
<1>2. /\ Len(a) \in Nat /\ Len(b) \in Nat /\ DOMAIN a = 1..Len(a)
      /\ Len(all) = Len(a) + Len(b) /\ DOMAIN all = 1..(Len(a) + Len(b))
      /\ \A i \in 1..Len(a) : all[i] = a[i]
      /\ \A i \in 1..Len(b) : all[Len(a) + i] = b[i] /\ b[i] \in Jobs
  BY <1>1, ConcatFacts
<1> QED BY <1>2 DEF a, b, all

\* A new posting is none of those listed, and it moves no other one up.
LEMMA Posting ==
  ASSUME SitesInv, NEW p \in Platforms, Post(p)
  PROVE  /\ SitesInv' /\ UNCHANGED <<run, search, output, file, sources, faults>>
         /\ \A q \in Platforms : q # p => site'[q] = site[q]
         /\ Range(site[p]) \subseteq Range(site'[p])
         /\ p = "LinkedIn" =>
              \A i \in DOMAIN site'[p] :
                \/ site'[p][i] \notin Range(site[p])
                \/ i - 1 \in DOMAIN site[p] /\ site'[p][i] = site[p][i - 1]
<1> DEFINE s == site[p]
           all == Everything(p)
           n == Len(s)
           a == Len(Initial[p])
           b == Len(ToPost[p])
           x == ToPost[p][n - a + 1]
<1>1. /\ s \in Seq(Jobs) /\ n \in Nat /\ DOMAIN s = 1..n /\ IsInjective(s)
      /\ a <= n /\ Range(s) = {all[i] : i \in 1..n}
  BY DEF SitesInv
<1>2. all \in Seq(Jobs) /\ IsInjective(all)
  BY Limits
<1>3. n < Len(all)
  BY DEF Post, Everything
<1>3a. /\ a \in Nat /\ b \in Nat /\ DOMAIN all = 1..(a + b) /\ Len(all) = a + b
       /\ \A i \in 1..b : all[a + i] = ToPost[p][i] /\ ToPost[p][i] \in Jobs
  BY AllPostings
<1> HIDE DEF all, n, a, b
<1>4. x = all[n + 1] /\ x \in Jobs /\ n + 1 \in DOMAIN all /\ n + 1 <= Len(all)
  <2>1. /\ n - a + 1 \in 1..b /\ a + (n - a + 1) = n + 1
        /\ n + 1 \in 1..(a + b) /\ n + 1 <= a + b
    BY <1>1, <1>3, <1>3a
  <2> QED BY <1>3a, <2>1
<1>5. x \notin Range(s)
  <2>1. \A i \in 1..n : i \in DOMAIN all /\ i # n + 1
    BY <1>1, <1>3, <1>3a
  <2> QED BY <1>1, <1>2, <1>4, <2>1 DEF IsInjective
<1>6. PICK k \in Places(p) : site' = [site EXCEPT ![p] = InsertAt(s, k, x)]
  BY DEF Post, n, a
<1>7. k \in 1..(n + 1) /\ (p = "LinkedIn" => k = 1)
  BY <1>1, <1>6 DEF Places, n
<1>8. site'[p] = InsertAt(s, k, x) /\ \A q \in Platforms : q # p => site'[q] = site[q]
  BY <1>6 DEF SitesInv
<1> HIDE DEF s, x
<1>9. /\ site'[p] \in Seq(Jobs) /\ Len(site'[p]) = n + 1
      /\ \A i \in 1..(n + 1) :
           site'[p][i] = IF i < k THEN s[i] ELSE IF i = k THEN x ELSE s[i - 1]
      /\ Range(site'[p]) = Range(s) \cup {x}
      /\ IsInjective(site'[p])
  <2>1. k \in 1..(Len(s) + 1) /\ n = Len(s)
    BY <1>7 DEF n
  <2> DEFINE t == InsertAt(s, k, x)
  <2>0. s \in Seq(Jobs) /\ x \in Jobs
    BY <1>1, <1>4
  <2>2. /\ t \in Seq(Jobs) /\ Len(t) = Len(s) + 1 /\ Range(t) = Range(s) \cup {x}
    BY <2>0, <2>1, InsertedList
  <2>2a. \A i \in 1..(Len(s) + 1) :
           t[i] = IF i < k THEN s[i] ELSE IF i = k THEN x ELSE s[i - 1]
    BY <2>0, <2>1, InsertedList, SMTT(30)
  <2>3. IsInjective(t)
    BY <1>1, <1>4, <1>5, <2>1, InsertedList
  <2> HIDE DEF t
  <2>4. site'[p] = t
    BY <1>8 DEF t
  <2> QED BY <2>1, <2>2, <2>2a, <2>3, <2>4
<1>10. Range(site'[p]) = {all[i] : i \in 1..(n + 1)}
  <2>1. 1..(n + 1) = (1..n) \cup {n + 1}
    BY <1>1
  <2> QED BY <1>1, <1>4, <1>9, <2>1
<1>11. SitesInv'
  <2>1. site' \in [Platforms -> Seq(Jobs)]
    BY <1>6, <1>8, <1>9 DEF SitesInv
  <2>2. ASSUME NEW q \in Platforms
        PROVE  /\ Len(Initial[q]) <= Len(site'[q]) /\ Len(site'[q]) <= Len(Everything(q))
               /\ IsInjective(site'[q])
               /\ Range(site'[q]) = {Everything(q)[i] : i \in 1..Len(site'[q])}
    <3>1. CASE q = p
      <4>1. a <= n + 1 /\ n + 1 <= Len(all)
        BY <1>1, <1>3a, <1>4
      <4> QED BY <1>9, <1>10, <3>1, <4>1 DEF all, a
    <3>2. CASE q # p
      BY <1>8, <3>2 DEF SitesInv
    <3> QED BY <3>1, <3>2
  <2> QED BY <2>1, <2>2 DEF SitesInv
<1>12. ASSUME p = "LinkedIn", NEW i \in DOMAIN site'[p]
       PROVE  \/ site'[p][i] \notin Range(s)
              \/ i - 1 \in DOMAIN s /\ site'[p][i] = s[i - 1]
  <2>1. i \in 1..(n + 1) /\ k = 1
    BY <1>7, <1>9, <1>12
  <2>2. CASE i = 1
    BY <1>5, <1>9, <2>1, <2>2
  <2>3. CASE i # 1
    BY <1>1, <1>9, <2>1, <2>3
  <2> QED BY <2>2, <2>3
<1> QED BY <1>8, <1>9, <1>11, <1>12 DEF Post, child, s

LEMMA SitesInit == Init => SitesInv
<1> SUFFICES ASSUME Init PROVE SitesInv
  OBVIOUS
<1>1. site = Initial
  BY DEF Init
<1>2. ASSUME NEW p \in Platforms
      PROVE  /\ Len(Initial[p]) <= Len(Everything(p)) /\ IsInjective(Initial[p])
             /\ Range(Initial[p]) = {Everything(p)[i] : i \in 1..Len(Initial[p])}
  <2>1. Initial[p] \in Seq(Jobs) /\ ToPost[p] \in Seq(Jobs) /\ IsInjective(Everything(p))
    BY Limits
  <2>2. /\ Len(Initial[p]) \in Nat /\ Len(ToPost[p]) \in Nat
        /\ DOMAIN Initial[p] = 1..Len(Initial[p])
        /\ Len(Everything(p)) = Len(Initial[p]) + Len(ToPost[p])
        /\ DOMAIN Everything(p) = 1..(Len(Initial[p]) + Len(ToPost[p]))
        /\ \A i \in 1..Len(Initial[p]) : Everything(p)[i] = Initial[p][i]
    BY AllPostings
  <2> DEFINE a == Len(Initial[p])
             b == Len(ToPost[p])
  <2>3. a <= Len(Everything(p)) /\ \A i \in 1..a : i \in 1..(a + b)
    <3> HIDE DEF a, b
    <3>1. a \in Nat /\ b \in Nat /\ Len(Everything(p)) = a + b
      BY <2>2 DEF a, b
    <3> QED BY <3>1
  <2>5. \A i \in 1..Len(Initial[p]) : i \in DOMAIN Everything(p)
    BY <2>2, <2>3
  <2>6. IsInjective(Initial[p])
    BY <2>1, <2>2, <2>5 DEF IsInjective
  <2>7. Range(Initial[p]) = {Everything(p)[i] : i \in 1..Len(Initial[p])}
    BY <2>2 DEF Range
  <2> QED BY <2>3, <2>6, <2>7
<1>3. \A p \in Platforms : Len(Initial[p]) <= Len(Initial[p])
  <2>1. \A p \in Platforms : Len(Initial[p]) \in Nat
    BY Limits
  <2> QED BY <2>1
<1> QED BY <1>1, <1>2, <1>3, Limits DEF SitesInv

-----------------------------------------------------------------------------
(* The search *)

\* What a page holds: the postings at its positions, and fewer than it has room
\* for only at the end of the list.
LEMMA PageIs ==
  ASSUME SitesInv, NEW p \in Platforms, NEW n \in Nat \ {0}
  PROVE  LET low == (n - 1) * PerPage[p]
             size == PerPage[p]
         IN  /\ low \in Nat /\ n * size = low + size
             /\ Page(p, n) \in Seq(Jobs) /\ IsInjective(Page(p, n))
             /\ Range(Page(p, n)) \subseteq Range(site[p])
             /\ \A i \in DOMAIN site[p] :
                  low < i /\ i <= low + size => site[p][i] \in Range(Page(p, n))
             /\ Page(p, n) = << >> => Len(site[p]) <= low
             /\ ShortPage(Page(p, n)) /\ p = "LinkedIn" => Len(site[p]) < low + size
<1> DEFINE size == PerPage[p]
           low == (n - 1) * size
           len == Len(site[p])
           high == IF len < low + size THEN len ELSE low + size
<1>1. /\ size \in Nat /\ size >= 1 /\ n \in Nat /\ n >= 1
      /\ site[p] \in Seq(Jobs) /\ len \in Nat /\ DOMAIN site[p] = 1..len
      /\ IsInjective(site[p])
  BY Limits DEF SitesInv
<1>2. low \in Nat /\ n * size = low + size
  BY <1>1
<1> HIDE DEF size, low, len
<1>3. (low + size) - size + 1 = low + 1 /\ low + 1 \in Nat \ {0}
  BY <1>1, <1>2
<1>4. Page(p, n) = SubSeq(site[p], low + 1, high)
  BY <1>2, <1>3 DEF Page, size, len
<1>5. high \in Nat /\ high <= len
  BY <1>1, <1>2
<1>5a. high = len \/ high = low + size
  OBVIOUS
<1>5b. len < low + size => high = len
  OBVIOUS
<1> HIDE DEF high
<1>6. /\ Page(p, n) \in Seq(Jobs) /\ IsInjective(Page(p, n))
      /\ Len(Page(p, n)) = IF low + 1 <= high THEN high - (low + 1) + 1 ELSE 0
      /\ Range(Page(p, n)) = {site[p][i] : i \in (low + 1)..high}
  <2>1. high <= Len(site[p]) /\ low + 1 \in Nat \ {0} /\ high \in Nat
    BY <1>3, <1>5 DEF len
  <2> DEFINE t == SubSeq(site[p], low + 1, high)
  <2>2. /\ t \in Seq(Jobs) /\ IsInjective(t)
        /\ Len(t) = IF low + 1 <= high THEN high - (low + 1) + 1 ELSE 0
        /\ Range(t) = {site[p][i] : i \in (low + 1)..high}
    BY <1>1, <2>1, PieceOfList
  <2> HIDE DEF t
  <2>3. Page(p, n) = t
    BY <1>4 DEF t
  <2> QED BY <2>2, <2>3
<1>7. \A i \in (low + 1)..high : i \in 1..len
  BY <1>1, <1>2, <1>5, <1>5a
<1>8. Range(Page(p, n)) \subseteq Range(site[p])
  BY <1>1, <1>6, <1>7 DEF Range
<1>9. \A i \in 1..len : low < i /\ i <= low + size => i \in (low + 1)..high
  BY <1>1, <1>2, <1>5, <1>5a
<1>10. Page(p, n) = << >> => len <= low
  <2>1. Page(p, n) = << >> => Len(Page(p, n)) = 0
    OBVIOUS
  <2> QED BY <1>1, <1>2, <1>5, <1>5a, <1>5b, <1>6, <2>1
<1>11. Len(Page(p, n)) < size => len < low + size
  BY <1>1, <1>2, <1>5, <1>5a, <1>5b, <1>6
<1> QED BY <1>1, <1>2, <1>6, <1>8, <1>9, <1>10, <1>11 DEF low, size, len, ShortPage

\* New postings of a page are added behind those found before.
LEMMA Added ==
  ASSUME NEW found \in Seq(Jobs), NEW jobs \in Seq(Jobs),
         IsInjective(found), IsInjective(jobs)
  PROVE  /\ AppendNew(found, jobs) \in Seq(Jobs) /\ IsInjective(AppendNew(found, jobs))
         /\ Range(AppendNew(found, jobs)) = Range(found) \cup Range(jobs)
<1> DEFINE more == NotIn(jobs, ToSet(found))
<1>1. ToSet(found) = Range(found)
  BY SetOfList
<1>2. /\ more \in Seq(Jobs) /\ IsInjective(more)
      /\ Range(more) = Range(jobs) \ Range(found)
  BY <1>1, NotInList
<1> HIDE DEF more
<1>3. Range(found \o more) = Range(found) \cup Range(more)
  BY <1>2, RangeOfConcat
<1>4. IsInjective(found \o more)
  BY <1>2, JoinedList
<1>5. AppendNew(found, jobs) = found \o more
  BY DEF AppendNew, more
<1> QED BY <1>2, <1>3, <1>4, <1>5

LEMMA NoSearch ==
  ASSUME ForgetSearch PROVE SearchInv'
<1>1. << >> \in Seq(Jobs) /\ IsInjective(<< >>)
  BY DEF IsInjective
<1>2. /\ linkedin' = [page |-> 1, found |-> << >>, signatures |-> {}, open |-> FALSE]
      /\ wuzzuf' = [todo |-> {}, found |-> {}, started |-> FALSE]
      /\ listed' = {} /\ gap' = FALSE
  BY DEF ForgetSearch, NoLinkedIn, NoWuzzuf
<1>3. 1 \in 1..(MaxPages["LinkedIn"] + 1)
  BY Limits
<1>4. linkedin' \in [page : 1..(MaxPages["LinkedIn"] + 1), found : Seq(Jobs),
                     signatures : SUBSET SUBSET Jobs, open : BOOLEAN]
  BY <1>1, <1>2, <1>3
<1>5. /\ linkedin'.open = FALSE /\ linkedin'.found = << >>
      /\ wuzzuf'.found = {} /\ wuzzuf'.todo = {} /\ wuzzuf'.started = FALSE
  BY <1>2
<1>6. IsFiniteSet({})
  BY FS_EmptySet
<1> QED BY <1>1, <1>2, <1>4, <1>5, <1>6 DEF SearchInv

LEMMA SearchSame ==
  ASSUME SearchInv, UNCHANGED <<search, site>> PROVE SearchInv'
BY DEF SearchInv, search, Covered

LEMMA SearchStep ==
  ASSUME SitesInv, SearchInv, [Next]_vars PROVE SearchInv'
<1> DEFINE L == "LinkedIn"
           size == PerPage[L]
           max == MaxPages[L]
           s == site[L]
<1>0. /\ size \in Nat /\ size >= 1 /\ max \in Nat /\ max >= 1
      /\ s \in Seq(Jobs) /\ DOMAIN s = 1..Len(s) /\ Len(s) \in Nat
      /\ L \in Platforms
  BY Limits DEF SitesInv
<1>1. /\ linkedin \in [page : 1..(max + 1), found : Seq(Jobs),
                       signatures : SUBSET SUBSET Jobs, open : BOOLEAN]
      /\ IsInjective(linkedin.found)
      /\ linkedin.open => linkedin.page <= max
      /\ listed \subseteq Range(s)
  BY DEF SearchInv
<1>2. /\ linkedin.page \in Nat \ {0} /\ linkedin.page <= max + 1
      /\ linkedin.found \in Seq(Jobs) /\ linkedin.open \in BOOLEAN
  BY <1>0, <1>1
<1>3. Covered \in Nat
  BY <1>0, <1>2 DEF Covered
<1>4. CASE StartRun
  <2>1. /\ linkedin' = [page |-> 1, found |-> << >>, signatures |-> {}, open |-> TRUE]
        /\ wuzzuf' = [todo |-> {1}, found |-> {}, started |-> FALSE]
        /\ listed' = Range(s) /\ gap' = FALSE /\ site' = site
    <3>1. ToSet(s) = Range(s)
      BY <1>0, SetOfList
    <3> QED BY <1>4, <3>1 DEF StartRun, NoLinkedIn, NoWuzzuf
  <2>2. << >> \in Seq(Jobs) /\ IsInjective(<< >>) /\ IsFiniteSet({})
    BY FS_EmptySet DEF IsInjective
  <2>3. linkedin' \in [page : 1..(max + 1), found : Seq(Jobs),
                       signatures : SUBSET SUBSET Jobs, open : BOOLEAN]
    BY <1>0, <2>1, <2>2
  <2>4. 1 \in 1..MaxPages["Wuzzuf"]
    BY Limits
  <2>5. Covered' * size = 0
    BY <1>0, <2>1 DEF Covered
  <2>6. /\ linkedin'.page = 1 /\ linkedin'.found = << >> /\ linkedin'.open
        /\ wuzzuf'.found = {} /\ wuzzuf'.todo = {1} /\ wuzzuf'.started = FALSE
    BY <2>1
  <2>7. \A i \in DOMAIN s : ~(i <= 0)
    BY <1>0
  <2>8. wuzzuf' \in [todo : SUBSET (1..MaxPages["Wuzzuf"]), found : SUBSET Jobs,
                     started : BOOLEAN]
    BY <2>1, <2>4
  <2> QED BY <1>0, <2>1, <2>2, <2>3, <2>5, <2>6, <2>7, <2>8 DEF SearchInv
<1>5. CASE LinkedInPage
  <2> DEFINE n == linkedin.page
             low == (n - 1) * size
             page == Page(L, n)
  <2>1. linkedin.open /\ n <= max /\ UNCHANGED <<site, wuzzuf, listed>>
    BY <1>1, <1>5 DEF LinkedInPage
  <2>2. PICK jobs \in {<< >>, page} :
          LET stop == jobs = << >> \/ ToSet(jobs) \in linkedin.signatures
          IN  /\ Fetched(L, n, jobs)
              /\ linkedin' =
                   IF stop THEN [linkedin EXCEPT !.open = FALSE]
                   ELSE [page  |-> n + 1,
                         found |-> AppendNew(linkedin.found, jobs),
                         signatures |-> linkedin.signatures \cup {ToSet(jobs)},
                         open  |-> ~ShortPage(jobs) /\ n < max]
              /\ gap' = (gap \/ faults' # faults \/ (stop /\ jobs # << >>))
    BY <1>5 DEF LinkedInPage
  <2>3. /\ low \in Nat /\ n * size = low + size
        /\ page \in Seq(Jobs) /\ IsInjective(page) /\ Range(page) \subseteq Range(s)
        /\ \A i \in DOMAIN s : low < i /\ i <= low + size => s[i] \in Range(page)
        /\ page = << >> => Len(s) <= low
        /\ ShortPage(page) => Len(s) < low + size
    BY <1>0, <1>2, PageIs
  <2>4. jobs \in Seq(Jobs) /\ IsInjective(jobs) /\ ToSet(jobs) = Range(jobs)
        /\ Range(jobs) \subseteq Jobs
    <3>1. << >> \in Seq(Jobs) /\ IsInjective(<< >>)
      BY DEF IsInjective
    <3>2. jobs \in Seq(Jobs) /\ IsInjective(jobs)
      BY <2>2, <2>3, <3>1
    <3> QED BY <3>2, SetOfList
  <2> DEFINE stop == jobs = << >> \/ ToSet(jobs) \in linkedin.signatures
             C == IF linkedin'.open THEN linkedin'.page - 1 ELSE max
  <2>5. gap' \in BOOLEAN /\ (~gap' => ~gap /\ jobs = page /\ (stop => page = << >>))
    <3>1. jobs = page \/ faults' # faults
      <4>1. faults \in Int => faults + 1 # faults
        OBVIOUS
      <4>2. jobs = page \/ (jobs = << >> /\ Fault(1))
        BY <2>2 DEF Fetched
      <4>3. Fault(1) => faults' # faults
        BY <1>5 DEF Fault
      <4> QED BY <4>2, <4>3
    <3> QED BY <2>2, <3>1 DEF SearchInv
  <2> HIDE DEF page, stop
  <2>6. ~gap => \A i \in DOMAIN s :
          s[i] \in listed /\ i <= low => s[i] \in Range(linkedin.found)
    BY <2>1 DEF SearchInv, Covered
  <2>7. CASE stop
    <3>1. linkedin' = [linkedin EXCEPT !.open = FALSE]
      BY <2>2, <2>7 DEF stop
    <3>2. /\ linkedin' \in [page : 1..(max + 1), found : Seq(Jobs),
                            signatures : SUBSET SUBSET Jobs, open : BOOLEAN]
          /\ linkedin'.found = linkedin.found /\ ~linkedin'.open
      BY <1>1, <3>1
    <3>3. ASSUME ~gap', NEW i \in DOMAIN s, s[i] \in listed
          PROVE  s[i] \in Range(linkedin'.found)
      <4>1. Len(s) <= low
        BY <2>3, <2>5, <2>7, <3>3
      <4>2. i <= low
        BY <1>0, <2>3, <4>1
      <4> QED BY <2>5, <2>6, <3>2, <3>3, <4>2
    <3> QED BY <1>1, <2>1, <2>5, <3>2, <3>3 DEF SearchInv
  <2>8. CASE ~stop
    <3>1. linkedin' = [page  |-> n + 1,
                       found |-> AppendNew(linkedin.found, jobs),
                       signatures |-> linkedin.signatures \cup {ToSet(jobs)},
                       open  |-> ~ShortPage(jobs) /\ n < max]
      BY <2>2, <2>8 DEF stop
    <3>2. /\ AppendNew(linkedin.found, jobs) \in Seq(Jobs)
          /\ IsInjective(AppendNew(linkedin.found, jobs))
          /\ Range(AppendNew(linkedin.found, jobs))
               = Range(linkedin.found) \cup Range(jobs)
      BY <1>1, <1>2, <2>4, Added
    <3>3. /\ linkedin'.page = n + 1 /\ linkedin'.open = (~ShortPage(jobs) /\ n < max)
          /\ linkedin'.found = AppendNew(linkedin.found, jobs)
      BY <3>1
    <3>3a. /\ linkedin'.open => n < max
           /\ ~linkedin'.open => ShortPage(jobs) \/ ~(n < max)
      <4> DEFINE more == ~ShortPage(jobs) /\ n < max
      <4>1. linkedin'.open = more
        BY <3>3
      <4>2. (linkedin'.open => more) /\ (~linkedin'.open => ~more)
        BY <4>1
      <4> QED BY <4>2
    <3>4. linkedin' \in [page : 1..(max + 1), found : Seq(Jobs),
                         signatures : SUBSET SUBSET Jobs, open : BOOLEAN]
      <4>1. n + 1 \in 1..(max + 1)
        BY <1>0, <1>2, <2>1
      <4>2. linkedin.signatures \cup {ToSet(jobs)} \in SUBSET SUBSET Jobs
        BY <1>1, <2>4
      <4> QED BY <3>1, <3>2, <4>1, <4>2
    <3>5. linkedin'.open => linkedin'.page <= max
      BY <1>0, <1>2, <3>3, <3>3a
    <3>6. ASSUME ~gap', NEW i \in DOMAIN s, s[i] \in listed, i <= Covered' * size
          PROVE  s[i] \in Range(linkedin'.found)
      <4>1. i <= low + size
        <5>1. CASE linkedin'.open
          BY <1>2, <2>3, <3>3, <3>6, <5>1 DEF Covered
        <5>2. CASE ~linkedin'.open /\ ~ShortPage(jobs)
          <6>1. n = max /\ Covered' = max
            BY <1>0, <1>2, <2>1, <3>3a, <5>2 DEF Covered
          <6> QED BY <2>3, <3>6, <6>1
        <5>3. CASE ShortPage(jobs)
          <6>1. Len(s) < low + size
            BY <2>3, <2>5, <3>6, <5>3
          <6> QED BY <1>0, <2>3, <6>1
        <5> QED BY <5>1, <5>2, <5>3
      <4>2. CASE i <= low
        BY <2>5, <2>6, <3>2, <3>3, <3>6, <4>2
      <4>3. CASE low < i
        BY <2>3, <2>5, <3>2, <3>3, <3>6, <4>1, <4>3
      <4> QED BY <1>0, <2>3, <4>2, <4>3
    <3> QED BY <1>1, <2>1, <2>5, <3>2, <3>3, <3>4, <3>5, <3>6 DEF SearchInv
  <2> QED BY <2>7, <2>8
<1>6. CASE WuzzufPage
  <2> DEFINE After(n, jobs, total) ==
               [found |-> wuzzuf.found \cup ToSet(jobs), started |-> TRUE,
                todo  |-> IF wuzzuf.started THEN wuzzuf.todo \ {n}
                          ELSE 2..PlannedPages(total)]
  <2>0. PICK n \in wuzzuf.todo :
          \E jobs \in {<< >>, Page("Wuzzuf", n)} :
            \E total \in ReportedTotals(jobs) : wuzzuf' = After(n, jobs, total)
    BY <1>6 DEF WuzzufPage
  <2>0a. PICK jobs \in {<< >>, Page("Wuzzuf", n)} :
           \E total \in ReportedTotals(jobs) : wuzzuf' = After(n, jobs, total)
    BY <2>0
  <2>1. PICK total \in ReportedTotals(jobs) : wuzzuf' = After(n, jobs, total)
    BY <2>0a
  <2>2. /\ wuzzuf \in [todo : SUBSET (1..MaxPages["Wuzzuf"]), found : SUBSET Jobs,
                       started : BOOLEAN]
        /\ IsFiniteSet(wuzzuf.found)
    BY DEF SearchInv
  <2>3. n \in Nat \ {0}
    BY <2>2
  <2>4. jobs \in Seq(Jobs)
    <3>1. Page("Wuzzuf", n) \in Seq(Jobs)
      BY <2>3, Limits, PageIs
    <3>2. << >> \in Seq(Jobs)
      OBVIOUS
    <3> QED BY <2>1, <3>1, <3>2
  <2>5. ToSet(jobs) \subseteq Jobs /\ IsFiniteSet(ToSet(jobs))
    BY <2>4, SetOfList
  <2>6. IsFiniteSet(wuzzuf.found \cup ToSet(jobs))
    BY <2>2, <2>5, FS_Union
  <2>7. 2..PlannedPages(total) \subseteq 1..MaxPages["Wuzzuf"]
    <3>1. MaxPages["Wuzzuf"] \in Nat /\ PerPage["Wuzzuf"] \in Nat /\ PerPage["Wuzzuf"] >= 1
      BY Limits
    <3>2. total \in Nat
      <4>1. site["Wuzzuf"] \in Seq(Jobs)
        BY Limits DEF SitesInv
      <4>2. Len(site["Wuzzuf"]) \in Nat
        BY <4>1
      <4> QED BY <2>1, <4>2 DEF ReportedTotals
    <3>3. PlannedPages(total) \in Int /\ PlannedPages(total) <= MaxPages["Wuzzuf"]
      <4> DEFINE pages == (total + PerPage["Wuzzuf"] - 1) \div PerPage["Wuzzuf"]
      <4>1. pages \in Int
        BY <3>1, <3>2
      <4> HIDE DEF pages
      <4>2. PlannedPages(total) = IF total = 0 \/ pages > MaxPages["Wuzzuf"]
                                  THEN MaxPages["Wuzzuf"] ELSE pages
        BY DEF PlannedPages, pages
      <4> QED BY <3>1, <4>1, <4>2
    <3> QED BY <3>1, <3>3
  <2>8. wuzzuf' \in [todo : SUBSET (1..MaxPages["Wuzzuf"]), found : SUBSET Jobs,
                     started : BOOLEAN]
    BY <2>1, <2>2, <2>5, <2>7
  <2>9. wuzzuf'.found = wuzzuf.found \cup ToSet(jobs)
    BY <2>1
  <2>10. UNCHANGED <<site, linkedin, listed, gap>>
    BY <1>6 DEF WuzzufPage
  <2> QED BY <2>6, <2>8, <2>9, <2>10 DEF SearchInv, Covered
<1>7. CASE CrawlDetails \/ Kill \/ Crash
  BY <1>7, NoSearch DEF CrawlDetails, Kill, Crash
<1>8. ASSUME NEW p \in Platforms, Post(p) PROVE SearchInv'
  <2>1. /\ UNCHANGED search
        /\ \A q \in Platforms : q # p => site'[q] = site[q]
        /\ Range(site[p]) \subseteq Range(site'[p])
        /\ p = L => \A i \in DOMAIN site'[p] :
             \/ site'[p][i] \notin Range(site[p])
             \/ i - 1 \in DOMAIN site[p] /\ site'[p][i] = site[p][i - 1]
    BY <1>8, Posting
  <2>2. /\ UNCHANGED <<linkedin, wuzzuf, listed, gap>> /\ Covered' = Covered
    BY <2>1 DEF search, Covered
  <2>3. CASE p # L
    <3>1. site'[L] = site[L]
      BY <1>0, <2>1, <2>3
    <3> QED BY <2>2, <3>1 DEF SearchInv
  <2>4. CASE p = L
    <3>1. ASSUME ~gap, NEW i \in DOMAIN site'[L], site'[L][i] \in listed,
                 i <= Covered * size
          PROVE  site'[L][i] \in Range(linkedin.found)
      <4>1. i - 1 \in DOMAIN s /\ site'[L][i] = s[i - 1]
        BY <1>1, <2>1, <2>4, <3>1
      <4>2. i - 1 \in Int /\ Covered * size \in Int
        BY <1>0, <1>3, <4>1
      <4>3. i - 1 <= Covered * size
        <5>1. i \in Int
          <6>1. SitesInv'
            BY <1>8, Posting
          <6>2. site'[L] \in Seq(Jobs)
            BY <1>0, <6>1 DEF SitesInv
          <6> QED BY <6>2
        <5> QED BY <3>1, <4>2, <5>1
      <4> QED BY <3>1, <4>1, <4>3 DEF SearchInv
    <3>2. listed \subseteq Range(site'[L])
      BY <1>1, <2>1, <2>4
    <3> QED BY <2>2, <3>1, <3>2 DEF SearchInv
  <2> QED BY <2>3, <2>4
<1>9. CASE OpenFile \/ WriteFile \/ EndRun
  BY <1>9, SearchSame DEF OpenFile, WriteFile, EndRun
<1>10. ASSUME NEW p \in Platforms, Poll(p) \/ Consume(p) \/ \E r \in batch[p] : ProcessRaises(p, r)
       PROVE  SearchInv'
  <2>1. UNCHANGED <<search, site>>
    BY <1>10 DEF Poll, Consume, ProcessJob, ProcessRaises, child
  <2> QED BY <2>1, SearchSame
<1>11. CASE UNCHANGED vars
  <2>1. UNCHANGED <<search, site>>
    BY <1>11 DEF vars, child
  <2> QED BY <2>1, SearchSame
<1> QED BY <1>4, <1>5, <1>6, <1>7, <1>8, <1>9, <1>10, <1>11 DEF Next, Scrape

LEMMA SearchInit == Init => SearchInv
<1> SUFFICES ASSUME Init PROVE SearchInv
  OBVIOUS
<1>1. << >> \in Seq(Jobs) /\ IsInjective(<< >>) /\ IsFiniteSet({})
  BY FS_EmptySet DEF IsInjective
<1>2. /\ linkedin = [page |-> 1, found |-> << >>, signatures |-> {}, open |-> FALSE]
      /\ wuzzuf = [todo |-> {}, found |-> {}, started |-> FALSE]
      /\ listed = {} /\ gap = FALSE
  BY DEF Init, NoLinkedIn, NoWuzzuf
<1>3. 1 \in 1..(MaxPages["LinkedIn"] + 1)
  BY Limits
<1>4. linkedin \in [page : 1..(MaxPages["LinkedIn"] + 1), found : Seq(Jobs),
                    signatures : SUBSET SUBSET Jobs, open : BOOLEAN]
  BY <1>1, <1>2, <1>3
<1>5. /\ linkedin.open = FALSE /\ linkedin.found = << >>
      /\ wuzzuf.found = {} /\ wuzzuf.todo = {} /\ wuzzuf.started = FALSE
  BY <1>2
<1> QED BY <1>1, <1>2, <1>4, <1>5 DEF SearchInv

-----------------------------------------------------------------------------
(* The records *)

LEMMA SoundDetails ==
  ASSUME NEW wanted \in SUBSET Jobs, NEW responses \in [wanted -> Responses]
  PROVE  Sound(ToOutputSchema([j \in wanted |-> Detail(j, responses[j])]))
<1> DEFINE details == [j \in wanted |-> Detail(j, responses[j])]
<1>1. ASSUME NEW j \in wanted, details[j] \notin {"blocked", "error"}
      PROVE  details[j] = "text" \/ j \in NoText
  <2>1. responses[j] \in {"page", "wall", "none"} /\ details[j] = Detail(j, responses[j])
    BY DEF Responses
  <2> HIDE DEF details
  <2> QED BY <1>1, <2>1 DEF Detail, WuzzufDetail, LinkedInDetail, HasDescription
<1>2. DOMAIN details = wanted
  OBVIOUS
<1> HIDE DEF details
<1>3. ASSUME NEW r \in ToOutputSchema(details)
      PROVE  r \in Records /\ (r.about = "bare" => r.job \in NoText)
  <2>1. PICK j \in wanted : /\ details[j] \notin {"blocked", "error"}
                            /\ r = OutputRecord(j, details[j])
    BY <1>2 DEF ToOutputSchema
  <2>2. /\ r.job = j /\ r.about = IF details[j] = "text" THEN "text" ELSE "bare"
        /\ r = [job |-> r.job, about |-> r.about]
    BY <2>1 DEF OutputRecord
  <2> QED BY <1>1, <2>1, <2>2 DEF Records
<1> QED BY <1>3 DEF Sound, details

LEMMA RecordsSame ==
  ASSUME RecordsInv, UNCHANGED <<run, output, file, sources, faults>>
  PROVE  RecordsInv'
BY DEF RecordsInv, sources, Sound, DecidedOnPosting

LEMMA RecordsStep ==
  ASSUME SitesInv, SearchInv, RecordsInv, [Next]_vars PROVE RecordsInv'
<1>0. /\ run \in {"idle", "search", "details", "saving", "saved"}
      /\ Sound(output) /\ Sound(file) /\ batch \in [Platforms -> SUBSET Records]
      /\ \A p \in Platforms : Sound(batch[p])
      /\ seen \in [Platforms -> SUBSET Jobs]
      /\ decided \in [Jobs -> {"no", "text", "bare"}]
      /\ \A j \in Jobs : decided[j] = "bare" => j \in NoText
      /\ faults \in 0..MaxFaults /\ faults \in Nat /\ MaxFaults \in Nat
  BY Limits DEF RecordsInv, DecidedOnPosting
<1>1. Sound({})
  BY DEF Sound
<1>f. ASSUME NEW n \in Nat, Fault(n) PROVE faults' \in 0..MaxFaults
  BY <1>0, <1>f DEF Fault
<1>g. Fault(1) => faults' \in 0..MaxFaults
  BY <1>f
\* A record taken from a batch: the first decision stands.
<1>r. ASSUME NEW p \in Platforms, NEW r \in batch[p]
      PROVE  /\ r \in Records /\ (r.about = "bare" => r.job \in NoText)
             /\ Row(r) \in [Jobs -> {"no", "text", "bare"}]
             /\ \A j \in Jobs : Row(r)[j] = "bare" => j \in NoText
             /\ [batch EXCEPT ![p] = @ \ {r}] \in [Platforms -> SUBSET Records]
             /\ \A q \in Platforms : Sound([batch EXCEPT ![p] = @ \ {r}][q])
  <2>1. r \in Records /\ (r.about = "bare" => r.job \in NoText)
    BY <1>0, <1>r DEF Sound
  <2>2. r.job \in Jobs /\ r.about \in {"text", "bare"}
    BY <2>1 DEF Records
  <2>3. Row(r) \in [Jobs -> {"no", "text", "bare"}]
    BY <1>0, <2>2 DEF Row
  <2>4. \A j \in Jobs : Row(r)[j] = decided[j] \/ (j = r.job /\ Row(r)[j] = r.about)
    BY <1>0, <2>2 DEF Row
  <2>5. \A q \in Platforms : Sound([batch EXCEPT ![p] = @ \ {r}][q])
    BY <1>0 DEF Sound
  <2> QED BY <1>0, <2>1, <2>3, <2>4, <2>5
<1>2. CASE UNCHANGED vars
  <2>1. UNCHANGED <<run, output, file, sources, faults>>
    BY <1>2 DEF vars, child
  <2> QED BY <2>1, RecordsSame
<1>3. CASE StartRun
  BY <1>0, <1>1, <1>3 DEF StartRun, sources, RecordsInv, DecidedOnPosting
<1>4. CASE LinkedInPage \/ WuzzufPage
  <2>1. faults' \in 0..MaxFaults
    <3>1. UNCHANGED faults \/ Fault(1)
      BY <1>4 DEF LinkedInPage, WuzzufPage, Fetched
    <3> QED BY <1>0, <1>g, <3>1
  <2>2. UNCHANGED <<run, output, file, sources>>
    BY <1>4 DEF LinkedInPage, WuzzufPage
  <2> QED BY <1>0, <2>1, <2>2 DEF sources, RecordsInv, DecidedOnPosting
<1>5. CASE CrawlDetails
  <2>1. PICK responses \in [Wanted -> Responses] :
          /\ Fault(Cardinality({j \in Wanted : responses[j] # "page"}))
          /\ output' = ToOutputSchema([j \in Wanted |-> Detail(j, responses[j])])
    BY <1>5 DEF CrawlDetails
  <2>2. Wanted \in SUBSET Jobs /\ IsFiniteSet(Wanted)
    <3>1. /\ linkedin.found \in Seq(Jobs) /\ wuzzuf.found \in SUBSET Jobs
          /\ IsFiniteSet(wuzzuf.found)
      BY DEF SearchInv
    <3> DEFINE last == IF Len(linkedin.found) < DetailCap THEN Len(linkedin.found)
                       ELSE DetailCap
    <3>2. last \in Nat /\ last <= Len(linkedin.found)
      BY <3>1, Limits
    <3> HIDE DEF last
    <3>3. SubSeq(linkedin.found, 1, last) \in Seq(Jobs)
      BY <3>1, <3>2
    <3>4. Capped(linkedin.found) \in Seq(Jobs)
      BY <3>3 DEF Capped, last
    <3>5. /\ ToSet(Capped(linkedin.found)) \in SUBSET Jobs
          /\ IsFiniteSet(ToSet(Capped(linkedin.found)))
      BY <3>4, SetOfList
    <3> QED BY <3>1, <3>5, FS_Union DEF Wanted
  <2>3. Cardinality({j \in Wanted : responses[j] # "page"}) \in Nat
    <3>1. IsFiniteSet({j \in Wanted : responses[j] # "page"})
      BY <2>2, FS_Subset
    <3> QED BY <3>1, FS_CardinalityType
  <2>4. faults' \in 0..MaxFaults
    BY <1>f, <2>1, <2>3
  <2>5. Sound(output')
    BY <2>1, <2>2, SoundDetails
  <2>6. run' = "details" /\ UNCHANGED <<file, sources>>
    BY <1>5 DEF CrawlDetails
  <2> QED BY <1>0, <2>4, <2>5, <2>6 DEF sources, RecordsInv, DecidedOnPosting
<1>6. CASE OpenFile \/ WriteFile \/ EndRun
  <2>1. /\ UNCHANGED <<sources, faults>>
        /\ run' \in {"idle", "search", "details", "saving", "saved"}
        /\ Sound(file') /\ Sound(output')
    BY <1>0, <1>1, <1>6 DEF OpenFile, WriteFile, EndRun
  <2> QED BY <1>0, <2>1 DEF sources, RecordsInv, DecidedOnPosting
<1>7. CASE Kill
  BY <1>0, <1>1, <1>7, <1>g DEF Kill, sources, RecordsInv, DecidedOnPosting
<1>8. CASE Crash
  <2>1. /\ batch' \in [Platforms -> SUBSET Records]
        /\ \A p \in Platforms : Sound(batch'[p])
        /\ seen' \in [Platforms -> SUBSET Jobs]
    BY <1>1, <1>8 DEF Crash
  <2> QED BY <1>0, <1>1, <1>8, <1>g, <2>1 DEF Crash, RecordsInv, DecidedOnPosting
<1>9. ASSUME NEW p \in Platforms, Post(p) PROVE RecordsInv'
  BY <1>9, Posting, RecordsSame
<1>10. ASSUME NEW p \in Platforms, Poll(p) PROVE RecordsInv'
  <2>1. Sound(Fresh(p))
    BY <1>0 DEF Sound, Fresh, Read
  <2>2. batch' = [batch EXCEPT ![p] = Fresh(p)]
        /\ UNCHANGED <<run, output, file, seen, decided, faults>>
    BY <1>10 DEF Poll, child
  <2>3. /\ batch' \in [Platforms -> SUBSET Records]
        /\ \A q \in Platforms : Sound(batch'[q])
    BY <1>0, <2>1, <2>2 DEF Sound
  <2> QED BY <1>0, <2>2, <2>3 DEF RecordsInv, DecidedOnPosting
<1>11. ASSUME NEW p \in Platforms, Consume(p) PROVE RecordsInv'
  <2>1. PICK r \in batch[p] : ProcessJob(p, r)
    BY <1>11 DEF Consume
  <2>2. r.job \in Jobs
    BY <1>r DEF Records
  <2>3. seen' \in [Platforms -> SUBSET Jobs]
    BY <1>0, <2>1, <2>2 DEF ProcessJob
  <2>4. /\ batch' = [batch EXCEPT ![p] = @ \ {r}] /\ decided' = Row(r)
        /\ UNCHANGED <<run, output, file, faults>>
    BY <2>1 DEF ProcessJob, child
  <2> QED BY <1>0, <1>r, <2>3, <2>4 DEF RecordsInv, DecidedOnPosting
<1>12. ASSUME NEW p \in Platforms, NEW r \in batch[p], ProcessRaises(p, r)
       PROVE  RecordsInv'
  <2>1. /\ batch' = [batch EXCEPT ![p] = @ \ {r}] /\ decided' \in {decided, Row(r)}
        /\ UNCHANGED <<run, output, file, seen>> /\ faults' \in 0..MaxFaults
    BY <1>12, <1>g DEF ProcessRaises, child
  <2>2. /\ decided' \in [Jobs -> {"no", "text", "bare"}]
        /\ \A j \in Jobs : decided'[j] = "bare" => j \in NoText
    <3>1. CASE decided' = decided
      BY <1>0, <3>1 DEF DecidedOnPosting
    <3>2. CASE decided' = Row(r)
      BY <1>r, <3>2
    <3> QED BY <2>1, <3>1, <3>2
  <2>3. /\ batch' \in [Platforms -> SUBSET Records]
        /\ \A q \in Platforms : Sound(batch'[q])
    BY <1>r, <2>1
  <2> QED BY <1>0, <2>1, <2>2, <2>3 DEF RecordsInv, DecidedOnPosting
<1> QED BY <1>2, <1>3, <1>4, <1>5, <1>6, <1>7, <1>8, <1>9, <1>10, <1>11, <1>12
        DEF Next, Scrape

LEMMA RecordsInit == Init => RecordsInv
<1> SUFFICES ASSUME Init PROVE RecordsInv
  OBVIOUS
<1>1. 0 \in 0..MaxFaults
  BY Limits
<1> QED BY <1>1 DEF Init, RecordsInv, Sound, DecidedOnPosting

-----------------------------------------------------------------------------

LEMMA SitesStep ==
  ASSUME SitesInv, [Next]_vars PROVE SitesInv'
<1>1. ASSUME NEW p \in Platforms, Post(p) PROVE SitesInv'
  BY <1>1, Posting
<1>2. CASE ~(\E p \in Platforms : Post(p))
  <2>1. UNCHANGED site
    BY <1>2 DEF Next, vars, Scrape, StartRun, LinkedInPage, WuzzufPage, CrawlDetails,
         OpenFile, WriteFile, EndRun, Kill, Crash, Poll, Consume, ProcessJob,
         ProcessRaises
  <2> QED BY <2>1 DEF SitesInv
<1> QED BY <1>1, <1>2

THEOREM ScrapeHolds == Spec => []ScrapeInv
<1>1. Init => ScrapeInv
  BY SitesInit, SearchInit, RecordsInit DEF ScrapeInv
<1>2. ScrapeInv /\ [Next]_vars => ScrapeInv'
  BY SitesStep, SearchStep, RecordsStep DEF ScrapeInv
<1> QED BY <1>1, <1>2, PTL DEF Spec

\* Every variable keeps its type: the LinkedIn search never runs past its last
\* page and never lists a job twice, the planned Wuzzuf pages are within the
\* limit, and faults stay within theirs.
THEOREM ScraperTyped == Spec => []TypeOK
<1>1. ScrapeInv => TypeOK
  <2> SUFFICES ASSUME ScrapeInv PROVE TypeOK
    OBVIOUS
  <2>1. ASSUME NEW p \in Platforms
        PROVE  site[p] \in Seq(Jobs) /\ ToSet(site[p]) \subseteq ToSet(Initial[p] \o ToPost[p])
    <3>1. /\ site[p] \in Seq(Jobs) /\ Everything(p) \in Seq(Jobs)
          /\ Len(site[p]) <= Len(Everything(p))
          /\ Range(site[p]) = {Everything(p)[i] : i \in 1..Len(site[p])}
      BY Limits DEF ScrapeInv, SitesInv
    <3> DEFINE all == Everything(p)
               n == Len(site[p])
    <3>2. n \in Nat /\ n <= Len(all) /\ DOMAIN all = 1..Len(all) /\ Len(all) \in Nat
      BY <3>1
    <3> HIDE DEF all, n
    <3>3. \A i \in 1..n : i \in DOMAIN all
      BY <3>2
    <3>4. Range(site[p]) \subseteq Range(all)
      BY <3>1, <3>3 DEF Range, all, n
    <3>5. ToSet(site[p]) = Range(site[p]) /\ ToSet(all) = Range(all)
      BY <3>1, SetOfList DEF all
    <3> QED BY <3>1, <3>4, <3>5 DEF all, Everything
  <2>2. \A p \in Platforms : batch[p] \subseteq Records /\ seen[p] \subseteq Jobs
    BY DEF ScrapeInv, RecordsInv, Sound
  <2>3. /\ linkedin.page \in 1..(MaxPages["LinkedIn"] + 1)
        /\ IsInjective(linkedin.found) /\ linkedin.open \in BOOLEAN
        /\ wuzzuf.todo \subseteq 1..MaxPages["Wuzzuf"] /\ wuzzuf.found \subseteq Jobs
    BY DEF ScrapeInv, SearchInv
  <2>4. /\ run \in {"idle", "search", "details", "saving", "saved"}
        /\ output \subseteq Records /\ file \subseteq Records
        /\ decided \in [Jobs -> {"no", "text", "bare"}] /\ faults \in 0..MaxFaults
    BY DEF ScrapeInv, RecordsInv, Sound
  <2> QED BY <2>1, <2>2, <2>3, <2>4 DEF TypeOK
<1> QED BY <1>1, ScrapeHolds, PTL

\* A page that could not be fetched, or was a login wall, never becomes a
\* decision: what is decided without a description had none, whatever is killed,
\* torn or raised between the page and the row.
THEOREM OnlyPostingsAreDecided == Spec => []DecidedOnPosting
<1>1. ScrapeInv => DecidedOnPosting
  BY DEF ScrapeInv, RecordsInv
<1> QED BY <1>1, ScrapeHolds, PTL

\* No job is missed between two pages: unless a page failed or was taken for a
\* repeat, the search has found all that was listed when it began and is still
\* within its pages when it ends, however many postings shift the pages.
THEOREM NoJobFallsBetweenPages == Spec => []NothingSkipped
<1>1. ScrapeInv => NothingSkipped
  <2> DEFINE s == site["LinkedIn"]
  <2> SUFFICES ASSUME ScrapeInv, SearchOver, ~gap, NEW j \in listed,
                      Position("LinkedIn", j) <= MaxPages["LinkedIn"] * PerPage["LinkedIn"]
               PROVE  j \in ToSet(linkedin.found)
    BY DEF NothingSkipped
  <2>1. \E i \in DOMAIN s : s[i] = j
    BY DEF ScrapeInv, SearchInv, Range
  <2>2. Position("LinkedIn", j) \in DOMAIN s /\ s[Position("LinkedIn", j)] = j
    BY <2>1 DEF Position
  <2>3. Covered = MaxPages["LinkedIn"]
    BY DEF SearchOver, Covered
  <2>4. j \in Range(linkedin.found)
    BY <2>2, <2>3 DEF ScrapeInv, SearchInv
  <2>5. linkedin.found \in Seq(Jobs)
    BY DEF ScrapeInv, SearchInv
  <2> QED BY <2>4, <2>5, SetOfList
<1> QED BY <1>1, ScrapeHolds, PTL

=============================================================================
