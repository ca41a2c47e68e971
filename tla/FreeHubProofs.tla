---------------------------- MODULE FreeHubProofs -----------------------------
(***************************************************************************)
(* Theorems about FreeHubSource, for any number of projects, any page size *)
(* and cap of a walk, and any number of failures and crashes.              *)
(***************************************************************************)
EXTENDS FreeHubSource, FiniteSetTheorems, TLAPS

-----------------------------------------------------------------------------
(* What sorting, filtering, reversing and joining a list leaves in it.      *)

LEMMA AscendingList ==
  ASSUME NEW S \in SUBSET Int, IsFiniteSet(S)
  PROVE  /\ Cardinality(S) \in Nat
         /\ Ascending(S) \in [1..Cardinality(S) -> S]
         /\ \A x \in S : \E i \in 1..Cardinality(S) : Ascending(S)[i] = x
         /\ \A i, j \in 1..Cardinality(S) : i < j => Ascending(S)[i] < Ascending(S)[j]
<1> DEFINE n == Cardinality(S)
           Below(x) == {y \in S : y < x}
           Rank(x) == Cardinality(Below(x))
           r == [x \in S |-> Rank(x) + 1]
<1>1. n \in Nat
  BY FS_CardinalityType
<1>2. ASSUME NEW x \in S PROVE /\ Rank(x) \in Nat /\ Rank(x) < n
                               /\ IsFiniteSet(Below(x))
  <2>1. IsFiniteSet(Below(x)) /\ Rank(x) <= n /\ (n = Rank(x) => S = Below(x))
    <3>1. Below(x) \in SUBSET S
      OBVIOUS
    <3> QED BY <3>1, FS_Subset
  <2>2. x \notin Below(x)
    OBVIOUS
  <2>3. Rank(x) \in Nat
    BY <2>1, FS_CardinalityType
  <2> QED BY <1>1, <2>1, <2>2, <2>3
<1>3. ASSUME NEW x \in S, NEW y \in S, x < y PROVE Rank(x) < Rank(y)
  <2>0. \A z \in S : z < x => z < y
    BY <1>3
  <2>a. Below(x) \in SUBSET Below(y)
    BY <2>0
  <2>b. x \in Below(y) /\ x \notin Below(x)
    BY <1>3
  <2>1. Below(x) \in SUBSET Below(y) /\ x \in Below(y) /\ x \notin Below(x)
    BY <2>a, <2>b
  <2>2. Rank(x) <= Rank(y) /\ (Rank(y) = Rank(x) => Below(y) = Below(x))
    BY <1>2, <2>1, FS_Subset
  <2> QED BY <1>2, <2>1, <2>2
<1>3a. \A x, y \in S : x < y => Rank(x) < Rank(y)
  BY <1>3
<1>4. \A x, y \in S : Rank(x) = Rank(y) => x = y
  <2> SUFFICES ASSUME NEW x \in S, NEW y \in S, x # y PROVE Rank(x) # Rank(y)
    OBVIOUS
  <2>1. x < y \/ y < x
    OBVIOUS
  <2> QED BY <1>2, <1>3, <2>1
<1>4a. \A x \in S : Rank(x) \in Nat /\ Rank(x) < n
  BY <1>2
<1> HIDE DEF Rank, n, Below
<1>5. r \in Injection(S, 1..n)
  <2>1. r \in [S -> 1..n]
    BY <1>1, <1>4a
  <2>2. \A x, y \in S : r[x] = r[y] => x = y
    BY <1>4, <1>4a
  <2> QED BY <2>1, <2>2 DEF Injection, IsInjective
<1>6. IsFiniteSet(1..n) /\ Cardinality(1..n) = n
  BY <1>1, FS_Interval
<1>7. r \in Surjection(S, 1..n)
  BY <1>5, <1>6, FS_Injection DEF n
<1>8. \A i \in 1..n : \E x \in S : Rank(x) = i - 1
  <2> SUFFICES ASSUME NEW i \in 1..n PROVE \E x \in S : Rank(x) = i - 1
    OBVIOUS
  <2>1. PICK x \in S : r[x] = i
    BY <1>7 DEF Surjection
  <2> QED BY <1>1, <1>4a, <2>1
<1>9. \A i \in 1..n : /\ (CHOOSE x \in S : Rank(x) = i - 1) \in S
                      /\ Rank(CHOOSE x \in S : Rank(x) = i - 1) = i - 1
  BY <1>8
<1>10. Ascending(S) = [i \in 1..n |-> CHOOSE x \in S : Rank(x) = i - 1]
  BY DEF Ascending, n, Rank, Below
<1>11. \A x \in S : \E i \in 1..n : Ascending(S)[i] = x
  <2> SUFFICES ASSUME NEW x \in S PROVE \E i \in 1..n : Ascending(S)[i] = x
    OBVIOUS
  <2>1. Rank(x) + 1 \in 1..n /\ (Rank(x) + 1) - 1 = Rank(x)
    BY <1>1, <1>4a
  <2>2. Ascending(S)[Rank(x) + 1] = x
    BY <1>4, <1>9, <1>10, <2>1
  <2> QED BY <2>1, <2>2
<1>12. \A i, j \in 1..n : i < j => Ascending(S)[i] < Ascending(S)[j]
  <2> SUFFICES ASSUME NEW i \in 1..n, NEW j \in 1..n, i < j
               PROVE  Ascending(S)[i] < Ascending(S)[j]
    OBVIOUS
  <2> DEFINE x == Ascending(S)[i]
             y == Ascending(S)[j]
  <2>1. x \in S /\ y \in S /\ Rank(x) = i - 1 /\ Rank(y) = j - 1
    BY <1>9, <1>10
  <2>2. Rank(x) < Rank(y)
    BY <1>1, <2>1
  <2>3. Rank(x) # Rank(y) /\ ~(Rank(y) < Rank(x))
    BY <1>4a, <2>1, <2>2
  <2> HIDE DEF x, y
  <2>4. x \in Int /\ y \in Int /\ x # y /\ ~(y < x)
    BY <1>3a, <2>1, <2>3
  <2>5. x < y
    BY <2>4
  <2> QED BY <2>5 DEF x, y
<1> QED BY <1>1, <1>9, <1>10, <1>11, <1>12 DEF n

LEMMA AscendingRange ==
  ASSUME NEW S \in SUBSET Int, IsFiniteSet(S)
  PROVE  Ascending(S) \in Seq(S) /\ Range(Ascending(S)) = S
<1> DEFINE n == Cardinality(S)
           a == Ascending(S)
<1>1. n \in Nat /\ a \in [1..n -> S] /\ \A x \in S : \E i \in 1..n : a[i] = x
  BY AscendingList
<1> HIDE DEF n, a
<1>2. a \in Seq(S) /\ DOMAIN a = 1..n
  BY <1>1
<1>3. Range(a) = S
  BY <1>1, <1>2 DEF Range
<1> QED BY <1>2, <1>3 DEF a

\* A filtered list holds the entries at the chosen positions, and no entry
\* twice when the list it comes from holds none twice.
LEMMA PickedList ==
  ASSUME NEW T, NEW s \in Seq(T), NEW K \in SUBSET (DOMAIN s)
  PROVE  /\ Picked(s, K) \in Seq(T)
         /\ Range(Picked(s, K)) = {s[i] : i \in K}
         /\ IsInjective(s) => IsInjective(Picked(s, K))
<1> DEFINE n == Cardinality(K)
           kept == Ascending(K)
<1>1. DOMAIN s = 1..Len(s) /\ Len(s) \in Nat /\ \A i \in 1..Len(s) : s[i] \in T
  OBVIOUS
<1>2. K \in SUBSET Int /\ IsFiniteSet(K)
  <2>1. IsFiniteSet(1..Len(s)) /\ K \in SUBSET (1..Len(s))
    BY <1>1, FS_Interval
  <2> QED BY <2>1, FS_Subset
<1>3. /\ n \in Nat /\ kept \in [1..n -> K]
      /\ \A x \in K : \E i \in 1..n : kept[i] = x
      /\ \A i, j \in 1..n : i < j => kept[i] < kept[j]
  BY <1>2, AscendingList
<1>4. Picked(s, K) = [k \in DOMAIN kept |-> s[kept[k]]]
  BY DEF Picked
<1> HIDE DEF n, kept
<1>5. Picked(s, K) = [k \in 1..n |-> s[kept[k]]]
  BY <1>3, <1>4
<1>6. \A k \in 1..n : s[kept[k]] \in T /\ kept[k] \in K /\ kept[k] \in DOMAIN s
  BY <1>1, <1>3
<1>7. Picked(s, K) \in Seq(T)
  BY <1>3, <1>5, <1>6
<1>8. ASSUME NEW i \in K PROVE s[i] \in Range(Picked(s, K))
  <2>1. PICK k \in 1..n : kept[k] = i
    BY <1>3
  <2> QED BY <1>5, <2>1 DEF Range
<1>9. Range(Picked(s, K)) \subseteq {s[i] : i \in K}
  BY <1>5, <1>6 DEF Range
<1>10. \A i, j \in 1..n : i # j => kept[i] # kept[j]
  <2> SUFFICES ASSUME NEW i \in 1..n, NEW j \in 1..n, i # j
               PROVE  kept[i] # kept[j]
    OBVIOUS
  <2>1. i < j \/ j < i
    BY <1>3
  <2>2. kept[i] \in Int /\ kept[j] \in Int
    BY <1>2, <1>3
  <2> QED BY <1>3, <2>1, <2>2
<1>11. IsInjective(s) => IsInjective(Picked(s, K))
  BY <1>5, <1>6, <1>10 DEF IsInjective
<1> QED BY <1>7, <1>8, <1>9, <1>11

LEMMA WithoutList ==
  ASSUME NEW T, NEW s \in Seq(T), NEW p
  PROVE  /\ Without(s, p) \in Seq(T)
         /\ Range(Without(s, p)) = Range(s) \ {p}
<1> DEFINE K == {i \in DOMAIN s : s[i] # p}
<1>1. {s[i] : i \in K} = Range(s) \ {p}
  BY DEF Range
<1>2. K \in SUBSET (DOMAIN s) /\ Without(s, p) = Picked(s, K)
  BY DEF Without
<1> HIDE DEF K
<1> QED BY <1>1, <1>2, PickedList

LEMMA ReversedList ==
  ASSUME NEW T, NEW s \in Seq(T)
  PROVE  /\ Reverse(s) \in Seq(T) /\ Len(Reverse(s)) = Len(s)
         /\ Range(Reverse(s)) = Range(s)
<1>1. /\ Len(s) \in Nat /\ DOMAIN s = 1..Len(s)
      /\ \A i \in 1..Len(s) : s[i] \in T /\ (Len(s) - i) + 1 \in 1..Len(s)
                              /\ (Len(s) - ((Len(s) - i) + 1)) + 1 = i
  OBVIOUS
<1>2. Reverse(s) = [i \in 1..Len(s) |-> s[(Len(s) - i) + 1]]
  BY DEF Reverse
<1>3. Reverse(s) \in [1..Len(s) -> T]
  BY <1>1, <1>2
<1>4. Reverse(s) \in Seq(T) /\ Len(Reverse(s)) = Len(s)
  BY <1>1, <1>3
<1>5. \A i \in 1..Len(s) : Reverse(s)[(Len(s) - i) + 1] = s[i]
  BY <1>1, <1>2
<1>6. Range(Reverse(s)) = Range(s)
  <2>1. Range(Reverse(s)) \subseteq Range(s)
    BY <1>1, <1>2, <1>3 DEF Range
  <2>2. Range(s) \subseteq Range(Reverse(s))
    BY <1>1, <1>3, <1>5 DEF Range
  <2> QED BY <2>1, <2>2
<1> QED BY <1>4, <1>6

LEMMA ListOfMore ==
  ASSUME NEW S, NEW T, S \subseteq T, NEW s \in Seq(S) PROVE s \in Seq(T)
OBVIOUS

LEMMA RangeOfConcat ==
  ASSUME NEW T, NEW s \in Seq(T), NEW t \in Seq(T)
  PROVE  Range(s \o t) = Range(s) \cup Range(t)
<1>1. /\ Len(s) \in Nat /\ Len(t) \in Nat /\ DOMAIN s = 1..Len(s)
      /\ DOMAIN t = 1..Len(t) /\ DOMAIN (s \o t) = 1..(Len(s) + Len(t))
  OBVIOUS
<1>2. /\ \A i \in 1..Len(s) : (s \o t)[i] = s[i] /\ i \in DOMAIN (s \o t)
      /\ \A i \in 1..Len(t) : /\ (s \o t)[Len(s) + i] = t[i]
                              /\ Len(s) + i \in DOMAIN (s \o t)
  BY <1>1
<1>3. \A i \in DOMAIN (s \o t) :
        \/ i \in DOMAIN s /\ (s \o t)[i] = s[i]
        \/ i - Len(s) \in DOMAIN t /\ (s \o t)[i] = t[i - Len(s)]
  BY <1>1
<1>4. Range(s \o t) \subseteq Range(s) \cup Range(t)
  BY <1>3 DEF Range
<1>5. Range(s) \subseteq Range(s \o t)
  BY <1>1, <1>2 DEF Range
<1>6. Range(t) \subseteq Range(s \o t)
  BY <1>1, <1>2 DEF Range
<1> QED BY <1>4, <1>5, <1>6

-----------------------------------------------------------------------------
(* The lists: sorting a page, pushing to the deque.                         *)

LEMMA SortedPage ==
  ASSUME NEW S \in SUBSET Int, IsFiniteSet(S)
  PROVE  /\ Ascending(S) \in Seq(S) /\ Range(Ascending(S)) = S
         /\ NewestFirst(S) \in Seq(S) /\ Range(NewestFirst(S)) \subseteq S
         /\ Len(NewestFirst(S)) = Cardinality(S)
<1>1. /\ Cardinality(S) \in Nat /\ Ascending(S) \in [1..Cardinality(S) -> S]
  BY AscendingList
<1>2. Ascending(S) \in Seq(S) /\ Range(Ascending(S)) = S
  BY AscendingRange
<1>3. Len(Ascending(S)) = Cardinality(S)
  BY <1>1
<1> QED BY <1>2, <1>3, ReversedList DEF NewestFirst

LEMMA PushList ==
  ASSUME NEW T, NEW s \in Seq(T), NEW p \in T, Len(s) <= MaxSeen, MaxSeen \in Nat,
         MaxSeen >= 1
  PROVE  /\ Push(s, p) \in Seq(T) /\ Len(Push(s, p)) <= MaxSeen
         /\ Range(Push(s, p)) \subseteq Range(s) \cup {p}
<1>1. CASE Len(s) < MaxSeen
  <2>1. Push(s, p) = Append(s, p)
    BY <1>1 DEF Push
  <2>2. /\ Append(s, p) \in Seq(T) /\ Len(Append(s, p)) = Len(s) + 1
        /\ \A i \in 1..(Len(s) + 1) : Append(s, p)[i] = p \/
             (i \in 1..Len(s) /\ Append(s, p)[i] = s[i])
    OBVIOUS
  <2>3. DOMAIN Append(s, p) = 1..(Len(s) + 1) /\ DOMAIN s = 1..Len(s)
    OBVIOUS
  <2>4. Range(Append(s, p)) \subseteq Range(s) \cup {p}
    BY <2>2, <2>3 DEF Range
  <2> QED BY <1>1, <2>1, <2>2, <2>4
<1>2. CASE ~(Len(s) < MaxSeen)
  <2> DEFINE t == Tail(s)
  <2>1. /\ Push(s, p) = Append(t, p) /\ Len(s) = MaxSeen /\ s # <<>>
    BY <1>2 DEF Push
  <2>2. /\ t \in Seq(T) /\ Len(t) = Len(s) - 1
        /\ \A i \in 1..(Len(s) - 1) : t[i] = s[i + 1] /\ i + 1 \in 1..Len(s)
    BY <2>1
  <2> HIDE DEF t
  <2>3. /\ Append(t, p) \in Seq(T) /\ Len(Append(t, p)) = Len(s)
        /\ \A i \in 1..Len(s) : Append(t, p)[i] = p \/
             (i \in 1..(Len(s) - 1) /\ Append(t, p)[i] = t[i])
    BY <2>2
  <2>4. DOMAIN Append(t, p) = 1..Len(s) /\ DOMAIN s = 1..Len(s)
    BY <2>2
  <2>5. Range(Append(t, p)) \subseteq Range(s) \cup {p}
    BY <2>2, <2>3, <2>4 DEF Range
  <2> QED BY <2>1, <2>3, <2>5
<1> QED BY <1>1, <1>2

-----------------------------------------------------------------------------
(* Types, and where the source is.                                          *)

Polling == {"page1", "seed", "walk", "caught_up", "record"}

\* The deques fit, a job is at hand while one is worked on, and the page that
\* seeds an empty deque is one page, with its newest project at the top.
ListInv ==
  /\ TypeOK
  /\ Len(data.seen) <= MaxSeen /\ Len(disk.seen) <= MaxSeen
  /\ base <= posted
  /\ pc \in {"seen", "unpend"} => queue # <<>>
  /\ pc = "seed" => \E top \in walk.items :
       /\ base <= top /\ top <= posted
       /\ \A p \in walk.items : top - PageSize < p /\ p <= top

LEMMA Bounds == /\ MaxPosted \in Nat /\ PageSize \in Nat /\ PageSize >= 1
                /\ MaxPages \in Nat /\ MaxPages >= 1
                /\ MaxSeen \in Nat /\ MaxSeen >= PageSize /\ MaxSeen >= 1
<1>1. /\ MaxPosted \in Nat /\ PageSize \in Nat /\ PageSize >= 1
      /\ MaxPages \in Nat /\ MaxPages >= 1
      /\ MaxSeen \in Nat /\ MaxSeen >= PageSize * MaxPages
  BY FreeHubAssumption
<1>2. PageSize * MaxPages >= PageSize
  BY <1>1
<1> QED BY <1>1, <1>2

LEMMA SavedFields ==
  ASSUME data \in Saved
  PROVE  /\ data.seen \in Seq(Projects) /\ data.pending \in Seq(Projects)
         /\ data.page \in Nat \ {0, 1}
         /\ \A x \in Seq(Projects) :
              LET d == [data EXCEPT !.seen = x]
              IN  /\ d \in Saved /\ d.seen = x /\ d.pending = data.pending
                  /\ d.page = data.page
         /\ \A x \in Seq(Projects) :
              LET d == [data EXCEPT !.pending = x]
              IN  /\ d \in Saved /\ d.seen = data.seen /\ d.pending = x
                  /\ d.page = data.page
         /\ \A n \in Nat \ {0, 1} :
              LET d == [data EXCEPT !.page = n]
              IN  /\ d \in Saved /\ d.seen = data.seen
                  /\ d.pending = data.pending /\ d.page = n
BY DEF Saved

\* What a save leaves, stored or not.
LEMMA SaveOutcome ==
  ASSUME failures \in Nat, quarantined \in BOOLEAN, NEW d,
         (Stored(d) /\ UNCHANGED failures) \/ Raised(d)
  PROVE  /\ \/ data' = d /\ disk' \in {disk, d}
            \/ UNCHANGED <<data, disk>>
         /\ quarantined' \in BOOLEAN /\ failures' \in Nat
BY DEF Stored, Raised, Refused, Unstored, Fail, stateFile

LEMMA NoWalkTyped == /\ NoWalk \in Walk /\ NoWalk.items = {} /\ NoWalk.page = 2
                     /\ NoWalk.known = <<>> /\ NoWalk.fetched = 0
<1>1. <<>> \in Seq(Projects) /\ 0 \in 0..MaxPages
  BY Bounds
<1> QED BY <1>1 DEF NoWalk, Walk

LEMMA FirstPage ==
  ASSUME posted \in 0..MaxPosted
  PROVE  /\ PageAt(1) \subseteq Projects
         /\ \A p \in PageAt(1) : posted - PageSize < p /\ p <= posted
         /\ PageAt(1) # {} => posted \in PageAt(1)
         /\ \A p \in Projects :
              posted - PageSize < p /\ p <= posted => p \in PageAt(1)
<1>1. /\ posted \in Int /\ posted <= MaxPosted /\ 1 * PageSize = PageSize
      /\ (1 - 1) * PageSize = 0
  BY Bounds
<1>2. PageAt(1) = {p \in 1..posted : p > posted - PageSize /\ p <= posted}
  BY <1>1 DEF PageAt
<1> QED BY <1>1, <1>2, Bounds DEF Projects

LEMMA ListStep ==
  ASSUME ListInv, [Next]_vars PROVE ListInv'
<1> USE DEF Labels
<1>0. /\ TypeOK /\ data \in Saved /\ disk \in Saved /\ walk \in Walk
      /\ failures \in Nat /\ quarantined \in BOOLEAN
      /\ cache \in Seq(Projects) /\ queue \in Seq(Projects)
      /\ Len(cache) <= MaxSeen
      /\ posted \in 0..MaxPosted /\ base \in 0..MaxPosted /\ base <= posted
      /\ Len(data.seen) <= MaxSeen /\ Len(disk.seen) <= MaxSeen
  BY DEF ListInv, TypeOK
<1>01. /\ walk.known \in Seq(Projects) /\ walk.items \subseteq Projects
       /\ walk.page \in Nat \ {0, 1} /\ walk.fetched \in 0..MaxPages
       /\ disk.seen \in Seq(Projects)
  BY <1>0 DEF Walk, Saved
<1>02. /\ Projects \subseteq Int /\ IsFiniteSet(Projects)
  BY Bounds, FS_Interval DEF Projects
\* A save: its data is typed, whatever becomes of it.
<1>a. ASSUME NEW d \in Saved, Len(d.seen) <= MaxSeen,
             (Stored(d) /\ UNCHANGED failures) \/ Raised(d)
      PROVE  /\ data' \in Saved /\ disk' \in Saved /\ quarantined' \in BOOLEAN
             /\ Len(data'.seen) <= MaxSeen /\ Len(disk'.seen) <= MaxSeen
             /\ failures' \in Nat
  BY <1>0, <1>a, SaveOutcome
<1>b. ASSUME Abandon
      PROVE  /\ walk' \in Walk /\ queue' \in Seq(Projects) /\ pc' = "idle"
  BY <1>0, <1>b, NoWalkTyped DEF Abandon, Goto
<1>c. ASSUME NEW s \in Seq(Projects), Emit(s)
      PROVE  /\ walk' \in Walk /\ queue' \in Seq(Projects) /\ pc' = "process"
  BY <1>0, <1>c, NoWalkTyped DEF Emit, Goto
<1>d. ASSUME Discover
      PROVE  /\ walk' \in Walk /\ queue' \in Seq(Projects)
             /\ pc' \in {"process", "record"}
  BY <1>0, <1>01, <1>c, <1>d DEF Discover, Goto
<1>e. ASSUME queue # <<>>, NextJob
      PROVE  queue' \in Seq(Projects) /\ pc' = "process"
  BY <1>0, <1>e DEF NextJob, Goto
<1>1. CASE UNCHANGED vars
  BY <1>1, <1>0 DEF vars, poll, hist, stateFile, ListInv, TypeOK
<1>2. CASE Poll
  <2>1. walk' \in Walk /\ pc' = "page1"
    BY <1>0, <1>2, NoWalkTyped, SavedFields DEF Poll, Goto, Walk
  <2> QED BY <1>0, <1>2, <2>1 DEF Poll, hist, stateFile, ListInv, TypeOK
<1>3. CASE FetchFails
  BY <1>0, <1>3, <1>b DEF FetchFails, Fail, hist, stateFile, ListInv, TypeOK
<1>4. CASE FetchFirst
  <2>1. PageAt(1) \subseteq Projects
    BY <1>0, FirstPage
  <2>2. /\ walk' \in Walk /\ queue' \in Seq(Projects)
        /\ pc' \in {"process", "seed", "caught_up", "walk"}
    <3>1. [walk EXCEPT !.items = PageAt(1)] \in Walk
      BY <1>0, <2>1 DEF Walk
    <3>2. [walk EXCEPT !.items = PageAt(1), !.page = data.page, !.fetched = 1]
            \in Walk
      <4>1. data.page \in Nat \ {0, 1} /\ 1 \in 0..MaxPages
        BY <1>0, SavedFields, Bounds
      <4> QED BY <1>0, <2>1, <4>1 DEF Walk
    <3> QED BY <1>0, <1>01, <1>4, <1>c, <3>1, <3>2 DEF FetchFirst, Goto
  <2>3. pc' = "seed" => PageAt(1) # {} /\ walk'.items = PageAt(1)
    BY <1>0, <1>4 DEF FetchFirst, Goto, Emit, Walk
  <2>4. pc' = "seed" => \E top \in walk'.items :
          /\ base <= top /\ top <= posted
          /\ \A p \in walk'.items : top - PageSize < p /\ p <= top
    BY <1>0, <2>3, FirstPage
  <2> QED BY <1>0, <1>4, <2>2, <2>4
          DEF FetchFirst, hist, stateFile, ListInv, TypeOK
<1>5. CASE Seed
  <2>0. PICK top \in walk.items :
          /\ base <= top /\ top <= posted
          /\ \A p \in walk.items : top - PageSize < p /\ p <= top
    BY <1>5 DEF Seed, ListInv
  <2>1. /\ walk.items \in SUBSET Int /\ IsFiniteSet(walk.items)
    BY <1>01, <1>02, FS_Subset
  <2>2. Cardinality(walk.items) <= PageSize
    <3>1. top \in Int /\ walk.items \in SUBSET ((top - PageSize + 1)..top)
      BY <2>0, <2>1, Bounds
    <3>2. /\ IsFiniteSet((top - PageSize + 1)..top)
          /\ Cardinality((top - PageSize + 1)..top) = PageSize
      <4>1. top - PageSize + 1 \in Int /\ ~(top - PageSize + 1 > top)
        BY <3>1, Bounds
      <4> QED BY <3>1, <4>1, FS_Interval, Bounds
    <3> QED BY <3>1, <3>2, FS_Subset
  <2>3. /\ NewestFirst(walk.items) \in Seq(Projects)
        /\ Len(NewestFirst(walk.items)) <= MaxSeen
    <3>1. /\ NewestFirst(walk.items) \in Seq(walk.items)
          /\ Len(NewestFirst(walk.items)) = Cardinality(walk.items)
      BY <2>1, SortedPage
    <3>2. NewestFirst(walk.items) \in Seq(Projects)
      BY <1>01, <3>1
    <3>3. Cardinality(walk.items) \in Nat
      BY <2>1, FS_CardinalityType
    <3> QED BY <2>2, <3>1, <3>2, <3>3, Bounds
  <2>4. Max(walk.items) = top
    <3>1. \A x \in walk.items : (\A y \in walk.items : x >= y) => x = top
      BY <2>0, <2>1
    <3>2. \A y \in walk.items : top >= y
      BY <2>0, <2>1
    <3> QED BY <3>1, <3>2 DEF Max
  <2>5. base' \in 0..MaxPosted /\ base' <= posted
    BY <1>0, <1>01, <1>02, <1>5, <2>0, <2>4 DEF Seed, Projects
  <2> DEFINE d == [data EXCEPT !.seen = NewestFirst(walk.items)]
  <2>6. d \in Saved /\ Len(d.seen) <= MaxSeen
    BY <1>0, <2>3, SavedFields
  <2> HIDE DEF d
  <2>7. (Stored(d) /\ UNCHANGED failures) \/ Raised(d)
    BY <1>5 DEF Seed, d
  <2>8. /\ walk' \in Walk /\ queue' \in Seq(Projects)
        /\ pc' \in {"process", "idle"}
    BY <1>01, <1>5, <1>b, <1>c DEF Seed
  <2> QED BY <1>0, <1>5, <1>a, <2>3, <2>5, <2>6, <2>7, <2>8
          DEF Seed, ListInv, TypeOK
<1>6. CASE FetchNext
  <2>1. walk' \in Walk /\ pc' \in {"caught_up", "walk"}
    <3>1. PageAt(walk.page) \subseteq Projects
      BY <1>0, Bounds DEF PageAt, Projects
    <3>2. walk.page + 1 \in Nat \ {0, 1}
      BY <1>01
    <3>3. walk.fetched < MaxPages => walk.fetched + 1 \in 0..MaxPages
      BY <1>01, Bounds
    <3>4. walk.fetched < MaxPages =>
            [walk EXCEPT !.items = @ \cup PageAt(walk.page), !.page = @ + 1,
                         !.fetched = @ + 1] \in Walk
      BY <1>0, <1>01, <3>1, <3>2, <3>3 DEF Walk
    <3> QED BY <1>0, <1>6, <3>4 DEF FetchNext, Goto
  <2> QED BY <1>0, <1>6, <2>1 DEF FetchNext, hist, stateFile, ListInv, TypeOK
<1>7. ASSUME NEW n \in Nat \ {0, 1}, SavePage(n)
      PROVE  /\ walk' \in Walk /\ queue' \in Seq(Projects)
             /\ pc' \in {"process", "record", "idle"}
             /\ data' \in Saved /\ disk' \in Saved /\ quarantined' \in BOOLEAN
             /\ Len(data'.seen) <= MaxSeen /\ Len(disk'.seen) <= MaxSeen
             /\ failures' \in Nat
  <2> DEFINE d == [data EXCEPT !.page = n]
  <2>1. d \in Saved /\ Len(d.seen) <= MaxSeen
    BY <1>0, SavedFields
  <2> HIDE DEF d
  <2>2. \/ Stored(d) /\ Discover /\ UNCHANGED failures
        \/ Raised(d) /\ Abandon
    BY <1>7 DEF SavePage, d
  <2> QED BY <1>a, <1>b, <1>d, <2>1, <2>2
<1>8. CASE CaughtUp
  BY <1>0, <1>8, <1>7 DEF CaughtUp, hist, ListInv, TypeOK
<1>9. CASE HitCap
  BY <1>0, <1>01, <1>9, <1>7 DEF HitCap, ListInv, TypeOK
<1>10. CASE Record
  <2>1. New \in SUBSET Int /\ IsFiniteSet(New) /\ New \subseteq Projects
    BY <1>01, <1>02, FS_Subset DEF New
  <2>2. walk.known \o Ascending(New) \in Seq(Projects)
    <3>1. Ascending(New) \in Seq(New)
      BY <2>1, SortedPage
    <3>2. Ascending(New) \in Seq(Projects)
      BY <2>1, <3>1, ListOfMore
    <3> QED BY <1>01, <3>2
  <2> DEFINE d == [data EXCEPT !.pending = walk.known \o Ascending(New)]
  <2>3. d \in Saved /\ Len(d.seen) <= MaxSeen
    BY <1>0, <2>2, SavedFields
  <2> HIDE DEF d
  <2>4. \/ Stored(d) /\ Emit(walk.known \o Ascending(New)) /\ UNCHANGED failures
        \/ Raised(d) /\ Abandon
    BY <1>10 DEF Record, d
  <2>5. /\ data' \in Saved /\ disk' \in Saved /\ quarantined' \in BOOLEAN
        /\ Len(data'.seen) <= MaxSeen /\ Len(disk'.seen) <= MaxSeen
        /\ failures' \in Nat
    BY <1>a, <2>3, <2>4
  <2>6. /\ walk' \in Walk /\ queue' \in Seq(Projects)
        /\ pc' \in {"process", "idle"}
    BY <1>b, <1>c, <2>2, <2>4
  <2> QED BY <1>0, <1>10, <2>5, <2>6 DEF Record, hist, ListInv, TypeOK
<1>11. CASE Process
  <2>1. Head(queue) \in Projects /\ queue # <<>>
    BY <1>0, <1>11 DEF Process
  <2>2. /\ processed' \subseteq Projects /\ failures' \in Nat
        /\ queue' \in Seq(Projects) /\ pc' \in {"seen", "process"}
        /\ pc' = "seen" => queue' # <<>>
    BY <1>0, <1>11, <1>e, <2>1 DEF Process, Fail, Goto, TypeOK, NextJob
  <2> QED BY <1>0, <1>11, <2>2 DEF Process, stateFile, ListInv, TypeOK
<1>12. CASE EndBatch
  BY <1>0, <1>12 DEF EndBatch, Goto, poll, hist, stateFile, ListInv, TypeOK
<1>13. CASE MarkSeen
  <2>0. queue # <<>> /\ Head(queue) \in Projects
    BY <1>0, <1>13 DEF MarkSeen, ListInv
  <2>1. /\ Push(cache, Head(queue)) \in Seq(Projects)
        /\ Len(Push(cache, Head(queue))) <= MaxSeen
    BY <1>0, <2>0, PushList, Bounds
  <2> DEFINE d == [data EXCEPT !.seen = Push(cache, Head(queue))]
  <2>2. d \in Saved /\ Len(d.seen) <= MaxSeen
    BY <1>0, <2>1, SavedFields
  <2> HIDE DEF d
  <2>3. \/ /\ pc' = "unpend"
           /\ UNCHANGED <<stateFile, cache, queue, failures>>
        \/ /\ cache' = Push(cache, Head(queue))
           /\ Stored(d) /\ pc' = "unpend" /\ UNCHANGED <<queue, failures>>
        \/ /\ cache' = Push(cache, Head(queue))
           /\ Raised(d) /\ NextJob
    BY <1>13 DEF MarkSeen, Goto, d
  <2>4. /\ data' \in Saved /\ disk' \in Saved /\ quarantined' \in BOOLEAN
        /\ Len(data'.seen) <= MaxSeen /\ Len(disk'.seen) <= MaxSeen
        /\ failures' \in Nat
    BY <1>0, <1>a, <2>2, <2>3 DEF stateFile
  <2>5. /\ queue' \in Seq(Projects) /\ pc' \in {"unpend", "process"}
        /\ pc' = "unpend" => queue' # <<>>
        /\ cache' \in Seq(Projects) /\ Len(cache') <= MaxSeen
    BY <1>0, <1>e, <2>0, <2>1, <2>3
  <2> QED BY <1>0, <1>13, <2>4, <2>5 DEF MarkSeen, hist, ListInv, TypeOK
<1>14. CASE RemovePending
  <2>0. queue # <<>>
    BY <1>14 DEF RemovePending, ListInv
  <2>1. Without(data.pending, Head(queue)) \in Seq(Projects)
    BY <1>0, SavedFields, WithoutList
  <2> DEFINE d == [data EXCEPT !.pending = Without(data.pending, Head(queue))]
  <2>2. d \in Saved /\ Len(d.seen) <= MaxSeen
    BY <1>0, <2>1, SavedFields
  <2> HIDE DEF d
  <2>3. \/ UNCHANGED <<stateFile, failures>>
        \/ Stored(d) /\ UNCHANGED failures
        \/ Raised(d)
    BY <1>14 DEF RemovePending, d
  <2>4. /\ data' \in Saved /\ disk' \in Saved /\ quarantined' \in BOOLEAN
        /\ Len(data'.seen) <= MaxSeen /\ Len(disk'.seen) <= MaxSeen
        /\ failures' \in Nat
    BY <1>0, <1>a, <2>2, <2>3 DEF stateFile
  <2>5. queue' \in Seq(Projects) /\ pc' = "process"
    BY <1>14, <1>e, <2>0 DEF RemovePending
  <2> QED BY <1>0, <1>14, <2>4, <2>5 DEF RemovePending, hist, ListInv, TypeOK
<1>15. CASE Post
  <2>1. posted' \in 0..MaxPosted /\ posted < posted' /\ base <= posted'
    BY <1>0, <1>15, Bounds DEF Post
  <2>2. pc' = "seed" => \E top \in walk'.items :
          /\ base <= top /\ top <= posted'
          /\ \A p \in walk'.items : top - PageSize < p /\ p <= top
    <3> SUFFICES ASSUME pc = "seed", pc' = pc, walk' = walk
                 PROVE  \E top \in walk.items :
                          /\ base <= top /\ top <= posted'
                          /\ \A p \in walk.items : top - PageSize < p /\ p <= top
      BY <1>15 DEF Post, poll
    <3>1. PICK top \in walk.items :
            /\ base <= top /\ top <= posted
            /\ \A p \in walk.items : top - PageSize < p /\ p <= top
      BY DEF ListInv
    <3>a. top \in Int
      BY <1>01, <1>02
    <3>b. posted \in Int /\ posted' \in Int
      BY <1>0, <2>1, Bounds
    <3>2. top \in Int /\ top <= posted'
      BY <2>1, <3>1, <3>a, <3>b
    <3> QED BY <3>1, <3>2
  <2> QED BY <1>0, <1>15, <2>1, <2>2 DEF Post, poll, hist, stateFile, ListInv,
                                         TypeOK
<1>16. CASE Crash \/ Restart
  <2>1. Reboot /\ crashes' \in Nat
    BY <1>16 DEF Crash, Restart, ListInv, TypeOK
  <2>2. <<>> \in Seq(Projects)
    OBVIOUS
  <2> QED BY <1>0, <1>01, <2>1, <2>2, NoWalkTyped
          DEF Reboot, Load, Goto, hist, ListInv, TypeOK
<1>17. CASE Others
  BY <1>0, <1>17 DEF Others, OtherSave, poll, hist, ListInv, TypeOK
<1> QED BY <1>1, <1>2, <1>3, <1>4, <1>5, <1>6, <1>8, <1>9, <1>10, <1>11, <1>12,
           <1>13, <1>14, <1>15, <1>16, <1>17 DEF Next, Progress

LEMMA ListInit == Init => ListInv
<1> SUFFICES ASSUME Init PROVE ListInv
  OBVIOUS
<1>1. <<>> \in Seq(Projects) /\ Len(<<>>) = 0
  OBVIOUS
<1>2. /\ data \in Saved /\ disk \in Saved
      /\ data.seen = <<>> /\ disk.seen = <<>>
  BY <1>1 DEF Init, Saved
<1>3. /\ posted \in 0..MaxPosted /\ base \in 0..MaxPosted /\ base <= posted
      /\ failures \in Nat /\ crashes \in Nat
  BY Bounds, FreeHubAssumption DEF Init
<1>4. /\ cache \in Seq(Projects) /\ Len(cache) <= MaxSeen
      /\ queue \in Seq(Projects)
      /\ Len(data.seen) <= MaxSeen /\ Len(disk.seen) <= MaxSeen
  BY <1>1, <1>2, Bounds DEF Init
<1>5. /\ walk \in Walk /\ pc = "idle" /\ processed \subseteq Projects
      /\ capped \in BOOLEAN /\ quarantined \in BOOLEAN
  BY NoWalkTyped DEF Init
<1> QED BY <1>2, <1>3, <1>4, <1>5 DEF ListInv, TypeOK, Labels

THEOREM ListsHold == Spec => []ListInv
BY ListInit, ListStep, PTL DEF Spec

\* Every variable keeps its type, the continuation page is 2 or later, and
\* the deque never outgrows its bound, in memory or on disk.
THEOREM SourceTyped == Spec => []TypeOK
<1>1. ListInv => TypeOK
  BY DEF ListInv
<1> QED BY <1>1, ListsHold, PTL

-----------------------------------------------------------------------------
(* Nothing is seen before it was processed.                                 *)

\* A project is marked after process_job has returned for it; what is on the
\* page that seeds the deque is known from then on.
SeenInv ==
  /\ ListInv
  /\ SeenWasProcessed
  /\ pc \in {"seen", "unpend"} => Head(queue) \in processed

LEMMA SeenStep ==
  ASSUME SeenInv, [Next]_vars PROVE SeenInv'
<1> DEFINE Known == processed \cup 1..base
           AllKnown == /\ Range(cache) \subseteq Known
                       /\ Range(data.seen) \subseteq Known
                       /\ Range(disk.seen) \subseteq Known
<1>0. /\ ListInv /\ ListInv' /\ TypeOK /\ TypeOK' /\ AllKnown /\ data \in Saved
      /\ failures \in Nat /\ quarantined \in BOOLEAN
  BY ListStep DEF SeenInv, ListInv, TypeOK, SeenWasProcessed
<1>w. AllKnown' <=> SeenWasProcessed'
  BY DEF SeenWasProcessed
\* Steps that keep the deques.
<1>a. ASSUME UNCHANGED cache, data'.seen \in {data.seen, disk.seen},
             disk'.seen \in {data.seen, disk.seen},
             processed \subseteq processed', UNCHANGED base
      PROVE  SeenWasProcessed'
  BY <1>0, <1>a, <1>w
<1>b. ASSUME NEW d, d.seen = data.seen,
             (Stored(d) /\ UNCHANGED failures) \/ Raised(d),
             UNCHANGED <<cache, processed, base>>
      PROVE  SeenWasProcessed'
  <2>1. data'.seen = data.seen /\ disk'.seen \in {data.seen, disk.seen}
    BY <1>0, <1>b, SaveOutcome
  <2> QED BY <1>a, <1>b, <2>1
<1>1. CASE UNCHANGED vars
  BY <1>0, <1>1, <1>a DEF vars, poll, hist, stateFile, SeenInv
<1>2. CASE Poll \/ FetchFails \/ FetchFirst \/ FetchNext \/ EndBatch \/ Post
  <2>1. /\ UNCHANGED <<cache, data, disk, processed, base>>
        /\ \/ pc' \notin {"seen", "unpend"}
           \/ UNCHANGED <<pc, queue>>
    BY <1>2 DEF Poll, FetchFails, FetchFirst, FetchNext, EndBatch, Post, Abandon,
         Emit, Goto, poll, hist, stateFile
  <2>2. SeenWasProcessed'
    BY <1>a, <2>1
  <2> QED BY <1>0, <2>1, <2>2 DEF SeenInv
<1>3. CASE Seed
  <2>0. PICK top \in walk.items :
          /\ base <= top /\ top <= posted
          /\ \A p \in walk.items : top - PageSize < p /\ p <= top
    BY <1>3 DEF Seed, SeenInv, ListInv
  <2>1. /\ walk.items \in SUBSET Int /\ IsFiniteSet(walk.items)
        /\ \A p \in walk.items : 1 <= p
    <3>1. walk.items \subseteq Projects
      BY <1>0 DEF TypeOK, Walk
    <3>2. Projects \subseteq Int /\ IsFiniteSet(Projects)
      BY FS_Interval, Bounds DEF Projects
    <3>3. \A p \in Projects : 1 <= p
      BY DEF Projects
    <3> QED BY <3>1, <3>2, <3>3, FS_Subset
  <2>2. Range(NewestFirst(walk.items)) \subseteq 1..top
    <3>1. Range(NewestFirst(walk.items)) \subseteq walk.items
      BY <2>1, SortedPage
    <3>2. walk.items \subseteq 1..top
      BY <2>0, <2>1
    <3> QED BY <3>1, <3>2
  <2>3. Max(walk.items) = top
    <3>1. \A x \in walk.items : (\A y \in walk.items : x >= y) => x = top
      BY <2>0, <2>1
    <3>2. \A y \in walk.items : top >= y
      BY <2>0, <2>1
    <3> QED BY <3>1, <3>2 DEF Max
  <2>4. base' = top /\ 1..base \subseteq 1..top
    BY <1>0, <1>3, <2>0, <2>1, <2>3, Bounds DEF Seed, TypeOK
  <2> DEFINE s == NewestFirst(walk.items)
             d == [data EXCEPT !.seen = s]
  <2>5. d.seen = s
    BY <1>0 DEF Saved
  <2> HIDE DEF d, s
  <2>6. /\ cache' = s /\ UNCHANGED processed
        /\ (Stored(d) /\ UNCHANGED failures) \/ Raised(d)
        /\ pc' \in {"process", "idle"}
    BY <1>3 DEF Seed, d, s, Emit, Abandon, Goto
  <2>7. /\ data'.seen \in {s, data.seen}
        /\ disk'.seen \in {s, disk.seen}
    BY <1>0, <2>5, <2>6, SaveOutcome
  <2>8. Range(s) \subseteq 1..base'
    BY <2>2, <2>4 DEF s
  <2>9. AllKnown'
    BY <1>0, <2>4, <2>6, <2>7, <2>8
  <2> QED BY <1>0, <1>w, <2>6, <2>9 DEF SeenInv
<1>4. CASE CaughtUp \/ HitCap
  <2>a. walk.page \in Nat \ {0, 1} /\ 2 \in Nat \ {0, 1}
    BY <1>0 DEF TypeOK, Walk
  <2>1. PICK n \in Nat \ {0, 1} : SavePage(n)
    BY <1>4, <2>a DEF CaughtUp, HitCap
  <2> DEFINE d == [data EXCEPT !.page = n]
  <2>2. d.seen = data.seen
    BY <1>0 DEF Saved
  <2> HIDE DEF d
  <2>3. /\ (Stored(d) /\ UNCHANGED failures) \/ Raised(d)
        /\ pc' \notin {"seen", "unpend"}
    BY <2>1 DEF SavePage, d, Discover, Abandon, Emit, Goto
  <2>4. UNCHANGED <<cache, processed, base>>
    BY <1>4 DEF CaughtUp, HitCap, hist
  <2> QED BY <1>0, <1>b, <2>2, <2>3, <2>4 DEF SeenInv
<1>5. CASE Record
  <2> DEFINE d == [data EXCEPT !.pending = walk.known \o Ascending(New)]
  <2>2. d.seen = data.seen
    BY <1>0 DEF Saved
  <2> HIDE DEF d
  <2>3. /\ (Stored(d) /\ UNCHANGED failures) \/ Raised(d)
        /\ pc' \notin {"seen", "unpend"}
        /\ UNCHANGED <<cache, processed, base>>
    BY <1>5 DEF Record, d, Abandon, Emit, Goto, hist
  <2> QED BY <1>0, <1>b, <2>2, <2>3 DEF SeenInv
<1>6. CASE Process
  <2>1. /\ UNCHANGED <<cache, data, disk, base>> /\ processed \subseteq processed'
        /\ pc' \in {"seen", "unpend"} =>
             queue' = queue /\ Head(queue) \in processed'
    BY <1>6 DEF Process, Goto, NextJob, stateFile
  <2>2. SeenWasProcessed'
    BY <1>a, <2>1
  <2> QED BY <1>0, <2>1, <2>2 DEF SeenInv
<1>7. CASE MarkSeen
  <2>0. /\ Head(queue) \in processed /\ queue # <<>> /\ Head(queue) \in Projects
        /\ cache \in Seq(Projects) /\ Len(cache) <= MaxSeen
    BY <1>0, <1>7 DEF MarkSeen, SeenInv, ListInv, TypeOK
  <2>1. Range(Push(cache, Head(queue))) \subseteq Known
    BY <1>0, <2>0, PushList, Bounds
  <2> DEFINE s == Push(cache, Head(queue))
             d == [data EXCEPT !.seen = s]
  <2>2. d.seen = s
    BY <1>0 DEF Saved
  <2> HIDE DEF d, s
  <2>3. \/ /\ pc' = "unpend"
           /\ UNCHANGED <<stateFile, cache, queue, failures>>
        \/ /\ cache' = s
           /\ Stored(d) /\ pc' = "unpend" /\ UNCHANGED <<queue, failures>>
        \/ /\ cache' = s
           /\ Raised(d) /\ pc' = "process"
    BY <1>7 DEF MarkSeen, Goto, NextJob, d, s
  <2>4. UNCHANGED <<processed, base>>
    BY <1>7 DEF MarkSeen, hist
  <2>5. /\ cache' \in {cache, s} /\ data'.seen \in {s, data.seen}
        /\ disk'.seen \in {s, disk.seen}
    BY <1>0, <2>2, <2>3, SaveOutcome DEF stateFile
  <2>6. AllKnown'
    BY <1>0, <2>1, <2>4, <2>5 DEF s
  <2> QED BY <1>0, <1>w, <2>0, <2>3, <2>4, <2>6 DEF SeenInv
<1>8. CASE RemovePending
  <2> DEFINE d == [data EXCEPT !.pending = Without(data.pending, Head(queue))]
  <2>2. d.seen = data.seen
    BY <1>0 DEF Saved
  <2> HIDE DEF d
  <2>3. /\ UNCHANGED <<cache, processed, base>> /\ pc' = "process"
        /\ \/ UNCHANGED stateFile
           \/ (Stored(d) /\ UNCHANGED failures) \/ Raised(d)
    BY <1>8 DEF RemovePending, d, NextJob, Goto, hist
  <2>4. SeenWasProcessed'
    BY <1>a, <1>b, <2>2, <2>3 DEF stateFile
  <2> QED BY <1>0, <2>3, <2>4 DEF SeenInv
<1>9. CASE Crash \/ Restart
  <2>1. /\ cache' = disk.seen /\ data' = disk /\ disk' = disk
        /\ UNCHANGED <<processed, base>> /\ pc' = "idle"
    BY <1>9 DEF Crash, Restart, Reboot, Load, Goto, hist
  <2>2. AllKnown'
    BY <1>0, <2>1
  <2> QED BY <1>0, <1>w, <2>1, <2>2 DEF SeenInv
<1>10. CASE Others
  <2>1. /\ disk' = data /\ UNCHANGED <<data, cache, processed, base, pc, queue>>
    BY <1>10 DEF Others, OtherSave, poll, hist
  <2>2. SeenWasProcessed'
    BY <1>a, <2>1
  <2> QED BY <1>0, <2>1, <2>2 DEF SeenInv
<1> QED BY <1>1, <1>2, <1>3, <1>4, <1>5, <1>6, <1>7, <1>8, <1>9, <1>10
        DEF Next, Progress

LEMMA SeenInit == Init => SeenInv
<1> SUFFICES ASSUME Init PROVE SeenInv
  OBVIOUS
<1>1. \A s \in {cache, data.seen, disk.seen} : s = <<>>
  BY DEF Init
<1>2. Range(<<>>) = {}
  BY DEF Range
<1> QED BY <1>1, <1>2, ListInit DEF SeenInv, SeenWasProcessed, Init

THEOREM SeenHolds == Spec => []SeenInv
BY SeenInit, SeenStep, PTL DEF Spec

\* Nothing is known as seen, in this process or in the state file that the
\* next one loads, that process_job did not return for or the very first page
\* did not hold: over failed saves, quarantines and crashes.
THEOREM OnlyProcessedIsSeen == Spec => []SeenWasProcessed
<1>1. SeenInv => SeenWasProcessed
  BY DEF SeenInv
<1> QED BY <1>1, SeenHolds, PTL

-----------------------------------------------------------------------------
(* What is pending stays pending until it was processed.                    *)

\* A walk goes on from the list that is in memory, and memory never lacks an
\* unprocessed project that the state file still holds, so that whichever of
\* the two a save leaves behind, the project is in it.
PendInv ==
  /\ SeenInv
  /\ pc \in Polling => walk.known = data.pending
  /\ Range(disk.pending) \ processed \subseteq Range(data.pending)

\* The list that Record saves: what was known and what is new.
LEMMA RecordedList ==
  ASSUME TypeOK
  PROVE  /\ walk.known \o Ascending(New) \in Seq(Projects)
         /\ Range(walk.known \o Ascending(New)) = Range(walk.known) \cup New
<1>0. walk.known \in Seq(Projects) /\ walk.items \subseteq Projects
  BY DEF TypeOK, Walk
<1>1. New \in SUBSET Int /\ IsFiniteSet(New) /\ New \subseteq Projects
  <2>1. Projects \subseteq Int /\ IsFiniteSet(Projects)
    BY Bounds, FS_Interval DEF Projects
  <2>2. New \subseteq Projects
    BY <1>0 DEF New
  <2> QED BY <2>1, <2>2, FS_Subset
<1>2. Ascending(New) \in Seq(New) /\ Range(Ascending(New)) = New
  BY <1>1, SortedPage
<1>3. Ascending(New) \in Seq(Projects)
  BY <1>1, <1>2, ListOfMore
<1>4. /\ walk.known \o Ascending(New) \in Seq(Projects)
      /\ Range(walk.known \o Ascending(New))
           = Range(walk.known) \cup Range(Ascending(New))
  BY <1>0, <1>3, RangeOfConcat
<1> QED BY <1>2, <1>4

StaysPending == \A p \in Range(disk.pending) \ processed' : p \in Range(disk'.pending)

LEMMA PendStep ==
  ASSUME PendInv, [Next]_vars PROVE PendInv' /\ StaysPending
<1> DEFINE Covers == Range(disk.pending) \ processed \subseteq Range(data.pending)
<1>0. /\ SeenInv /\ SeenInv' /\ TypeOK /\ TypeOK' /\ Covers /\ data \in Saved
      /\ failures \in Nat /\ quarantined \in BOOLEAN
  BY SeenStep DEF PendInv, SeenInv, ListInv, TypeOK
\* Steps that save nothing of the pending list.
<1>a. ASSUME data' = data, disk' \in {disk, data}, processed \subseteq processed'
      PROVE  Covers' /\ StaysPending
  BY <1>0, <1>a DEF StaysPending
\* Steps that save a list without dropping what is unprocessed.
<1>b. ASSUME NEW d, Range(data.pending) \ processed \subseteq Range(d.pending),
             (Stored(d) /\ UNCHANGED failures) \/ Raised(d), UNCHANGED processed
      PROVE  Covers' /\ StaysPending
  <2>1. \/ data' = d /\ disk' \in {disk, d}
        \/ UNCHANGED <<data, disk>>
    BY <1>0, <1>b, SaveOutcome
  <2> QED BY <1>0, <1>b, <2>1 DEF StaysPending
<1>1. CASE UNCHANGED vars
  <2>1. Covers' /\ StaysPending
    BY <1>1, <1>a DEF vars, hist, stateFile
  <2> QED BY <1>0, <1>1, <2>1 DEF vars, poll, stateFile, PendInv
<1>2. CASE Poll \/ FetchFails \/ FetchFirst \/ FetchNext \/ EndBatch \/ Post
           \/ Process \/ Others
  <2>1. /\ UNCHANGED data /\ disk' \in {disk, data} /\ processed \subseteq processed'
    BY <1>2 DEF Poll, FetchFails, FetchFirst, FetchNext, EndBatch, Post, Process,
         Others, OtherSave, hist, stateFile
  <2>2. Covers' /\ StaysPending
    BY <1>a, <2>1
  <2>3. pc' \in Polling => walk'.known = data.pending
    <3>1. CASE Poll
      BY <3>1 DEF Poll, NoWalk
    <3>2. CASE FetchFails \/ EndBatch \/ Process
      BY <3>2 DEF FetchFails, EndBatch, Process, Abandon, Goto, NextJob, Polling
    <3>3. CASE FetchFirst \/ FetchNext
      <4>1. pc \in Polling /\ walk \in Walk
        BY <1>0, <3>3 DEF FetchFirst, FetchNext, Polling, TypeOK
      <4>2. pc' = "process" \/ walk'.known = walk.known
        BY <3>3, <4>1 DEF FetchFirst, FetchNext, Emit, Goto, Walk
      <4> QED BY <4>1, <4>2 DEF PendInv, Polling
    <3>4. CASE Post \/ Others
      BY <3>4 DEF Post, Others, poll, PendInv
    <3> QED BY <1>2, <3>1, <3>2, <3>3, <3>4
  <2> QED BY <1>0, <2>1, <2>2, <2>3 DEF PendInv
<1>3. CASE Seed
  <2> DEFINE d == [data EXCEPT !.seen = NewestFirst(walk.items)]
  <2>1. d.pending = data.pending
    BY <1>0 DEF Saved
  <2> HIDE DEF d
  <2>2. /\ (Stored(d) /\ UNCHANGED failures) \/ Raised(d)
        /\ UNCHANGED processed /\ pc' \notin Polling
    BY <1>3 DEF Seed, d, Emit, Abandon, Goto, Polling
  <2> QED BY <1>0, <1>b, <2>1, <2>2 DEF PendInv
<1>4. CASE CaughtUp \/ HitCap
  <2>a. walk.page \in Nat \ {0, 1} /\ 2 \in Nat \ {0, 1}
    BY <1>0 DEF TypeOK, Walk
  <2>1. PICK n \in Nat \ {0, 1} : SavePage(n)
    BY <1>4, <2>a DEF CaughtUp, HitCap
  <2> DEFINE d == [data EXCEPT !.page = n]
  <2>2. d.pending = data.pending
    BY <1>0 DEF Saved
  <2> HIDE DEF d
  <2>3. /\ (Stored(d) /\ UNCHANGED failures) \/ Raised(d)
        /\ \/ pc' \notin Polling
           \/ Stored(d) /\ UNCHANGED walk
    BY <2>1 DEF SavePage, d, Discover, Abandon, Emit, Goto, Polling
  <2>4. UNCHANGED processed /\ walk.known = data.pending
    BY <1>4 DEF CaughtUp, HitCap, hist, PendInv, Polling
  <2>5. pc' \in Polling => walk'.known = data'.pending
    BY <2>2, <2>3, <2>4 DEF Stored
  <2> QED BY <1>0, <1>b, <2>2, <2>3, <2>4, <2>5 DEF PendInv
<1>5. CASE Record
  <2> DEFINE all == walk.known \o Ascending(New)
             d == [data EXCEPT !.pending = all]
  <2>1. Range(walk.known) \subseteq Range(all)
    BY <1>0, RecordedList
  <2>2. d.pending = all
    BY <1>0 DEF Saved
  <2>3. walk.known = data.pending
    BY <1>5 DEF Record, PendInv, Polling
  <2> HIDE DEF d, all
  <2>4. /\ (Stored(d) /\ UNCHANGED failures) \/ Raised(d)
        /\ UNCHANGED processed /\ pc' \notin Polling
    BY <1>5 DEF Record, d, all, Abandon, Emit, Goto, hist, Polling
  <2> QED BY <1>0, <1>b, <2>1, <2>2, <2>3, <2>4 DEF PendInv
<1>6. CASE MarkSeen
  <2> DEFINE d == [data EXCEPT !.seen = Push(cache, Head(queue))]
  <2>1. d.pending = data.pending
    BY <1>0 DEF Saved
  <2> HIDE DEF d
  <2>2. /\ \/ UNCHANGED stateFile
           \/ (Stored(d) /\ UNCHANGED failures) \/ Raised(d)
        /\ UNCHANGED processed /\ pc' \notin Polling
    BY <1>6 DEF MarkSeen, d, NextJob, Goto, hist, Polling
  <2>3. Covers' /\ StaysPending
    BY <1>a, <1>b, <2>1, <2>2 DEF stateFile
  <2> QED BY <1>0, <2>2, <2>3 DEF PendInv
<1>7. CASE RemovePending
  <2> DEFINE rest == Without(data.pending, Head(queue))
             d == [data EXCEPT !.pending = rest]
  <2>1. d.pending = rest
    BY <1>0 DEF Saved
  <2>2. Range(rest) = Range(data.pending) \ {Head(queue)}
    BY <1>0, SavedFields, WithoutList
  <2>3. Head(queue) \in processed
    BY <1>7 DEF RemovePending, PendInv, SeenInv
  <2> HIDE DEF d, rest
  <2>4. /\ \/ UNCHANGED stateFile
           \/ (Stored(d) /\ UNCHANGED failures) \/ Raised(d)
        /\ UNCHANGED processed /\ pc' \notin Polling
    BY <1>7 DEF RemovePending, d, rest, NextJob, Goto, hist, Polling
  <2>5. Covers' /\ StaysPending
    BY <1>a, <1>b, <2>1, <2>2, <2>3, <2>4 DEF stateFile
  <2> QED BY <1>0, <2>4, <2>5 DEF PendInv
<1>8. CASE Crash \/ Restart
  <2>1. /\ data' = disk /\ disk' = disk /\ UNCHANGED processed /\ pc' = "idle"
    BY <1>8 DEF Crash, Restart, Reboot, Load, Goto, hist
  <2> QED BY <1>0, <2>1 DEF PendInv, StaysPending, Polling
<1> QED BY <1>1, <1>2, <1>3, <1>4, <1>5, <1>6, <1>7, <1>8 DEF Next, Progress

LEMMA PendInit == Init => PendInv
<1> SUFFICES ASSUME Init PROVE PendInv
  OBVIOUS
<1>1. SeenInv /\ disk = data /\ pc = "idle"
  BY SeenInit DEF Init
<1> QED BY <1>1 DEF PendInv, Polling

THEOREM PendHolds == Spec => []PendInv
BY PendInit, PendStep, PTL DEF Spec

\* A discovered project stays in the durable pending list until process_job
\* has returned for it, over failed saves, a quarantined executor, saves of
\* other components, failed jobs and crashes.
THEOREM DiscoveredIsKept == Spec => PendingIsKept
<1> DEFINE A == \A p \in Range(disk.pending) \ processed' : p \in Range(disk'.pending)
<1>1. PendInv /\ [Next]_vars => [A]_vars
  BY PendStep DEF StaysPending
<1>2. Spec => []PendInv
  BY PendHolds
<1>3. Spec => [][A]_vars
  BY <1>1, <1>2, PTL DEF Spec
<1> QED BY <1>3 DEF PendingIsKept

-----------------------------------------------------------------------------
(* A walk that was not cut short leaves no gap behind.                      *)

\* Every project older than one of s, back to the newest one of the first
\* page, was processed or is pending.
NoGap(s, pend, done, old) ==
  \A p \in Range(s) : \A q \in Projects :
    old < q /\ q < p => q \in done \cup Range(pend)
SavedNoGap(d, done, old) ==
  /\ NoGap(d.seen, d.pending, done, old)
  /\ NoGap(d.pending, d.pending, done, old)
  /\ d.page = 2

GapInv == ~capped =>
  /\ SavedNoGap(data, processed, base) /\ SavedNoGap(disk, processed, base)
  /\ NoGap(cache, data.pending, processed, base)
  /\ NoGap(queue, data.pending, processed, base)

\* A walk holds everything between its newest project and the page it fetches
\* next, and once it has caught up, everything older is accounted for.
WalkInv == ~capped =>
  /\ pc = "page1" => walk.items = {}
  /\ pc = "walk" => \E hi \in walk.items :
       /\ \A p \in walk.items : p <= hi
       /\ \A q \in Projects :
            posted - (walk.page - 1) * PageSize < q /\ q <= hi
              => q \in walk.items
  /\ pc \in {"caught_up", "record"} =>
       \A p \in walk.items : \A q \in Projects :
         base < q /\ q <= p
           => q \in walk.items \cup processed \cup Range(data.pending)

OrderInv == PendInv /\ GapInv /\ WalkInv

LEMMA NoGapMore ==
  ASSUME NEW s, NEW s2, NEW pend, NEW pend2, NEW done, NEW done2,
         NEW old \in Int, NEW old2 \in Int, old <= old2, done \subseteq done2,
         Range(pend) \ done2 \subseteq Range(pend2), Range(s2) \subseteq Range(s),
         NoGap(s, pend, done, old)
  PROVE  NoGap(s2, pend2, done2, old2)
<1>1. \A q \in Projects : old2 < q => old < q
  BY Bounds DEF Projects
<1> QED BY <1>1 DEF NoGap

LEMMA GapStep ==
  ASSUME OrderInv, [Next]_vars PROVE GapInv'
<1> DEFINE G(d) == SavedNoGap(d, processed, base)
           N(s) == NoGap(s, data.pending, processed, base)
           Result == /\ SavedNoGap(data', processed', base')
                     /\ SavedNoGap(disk', processed', base')
                     /\ NoGap(cache', data'.pending, processed', base')
                     /\ NoGap(queue', data'.pending, processed', base')
<1>0. /\ TypeOK /\ TypeOK' /\ PendInv /\ PendInv' /\ data \in Saved
      /\ SeenWasProcessed /\ failures \in Nat /\ quarantined \in BOOLEAN
      /\ base \in Int
  <2>1. /\ TypeOK /\ TypeOK' /\ PendInv /\ PendInv' /\ SeenWasProcessed
    BY PendStep DEF OrderInv, PendInv, SeenInv, ListInv
  <2> QED BY <2>1, Bounds DEF TypeOK
<1>01. Result <=> (/\ SavedNoGap(data, processed, base)
                   /\ SavedNoGap(disk, processed, base)
                   /\ NoGap(cache, data.pending, processed, base)
                   /\ NoGap(queue, data.pending, processed, base))'
  OBVIOUS
<1>02. GapInv' <=> (~capped' => Result)
  BY <1>01 DEF GapInv
<1> SUFFICES ASSUME ~capped' PROVE Result
  BY <1>02
<1>03. ~capped
  BY DEF Next, Progress, Poll, FetchFirst, Seed, FetchNext, CaughtUp, HitCap,
         Record, Process, EndBatch, MarkSeen, RemovePending, FetchFails, Post,
         Others, Crash, Restart, Reboot, vars, hist
<1>04. G(data) /\ G(disk) /\ N(cache) /\ N(queue)
  BY <1>03 DEF OrderInv, GapInv
\* Steps that leave the state file alone, and make queue from what is known.
<1>a. ASSUME UNCHANGED <<data, cache, base>>, disk' \in {disk, data},
             processed \subseteq processed', Range(queue') \subseteq Range(queue)
      PROVE  Result
  <2>1. \A s, pend : NoGap(s, pend, processed, base) =>
                       NoGap(s, pend, processed', base')
    BY <1>0, <1>a, NoGapMore
  <2>2. SavedNoGap(data', processed', base') /\ SavedNoGap(disk', processed', base')
    BY <1>04, <1>a, <2>1 DEF SavedNoGap
  <2>3. NoGap(queue', data'.pending, processed', base')
    BY <1>0, <1>04, <1>a, NoGapMore
  <2> QED BY <1>04, <1>a, <2>1, <2>2, <2>3
<1>b. ASSUME NEW d, G(d), Range(data.pending) \ processed \subseteq Range(d.pending),
             (Stored(d) /\ UNCHANGED failures) \/ Raised(d),
             UNCHANGED <<processed, base>>
      PROVE  /\ SavedNoGap(data', processed', base')
             /\ SavedNoGap(disk', processed', base')
             /\ \A s : N(s) => NoGap(s, data'.pending, processed', base')
  <2>1. \/ data' = d /\ disk' \in {disk, d}
        \/ UNCHANGED <<data, disk>>
    BY <1>0, <1>b, SaveOutcome
  <2>2. SavedNoGap(data', processed', base') /\ SavedNoGap(disk', processed', base')
    BY <1>04, <1>b, <2>1
  <2>3. Range(data.pending) \ processed' \subseteq Range(data'.pending)
    BY <1>b, <2>1
  <2>4. \A s : N(s) => NoGap(s, data'.pending, processed', base')
    BY <1>0, <1>b, <2>3, NoGapMore
  <2> QED BY <2>2, <2>4
<1>1. CASE UNCHANGED vars
  BY <1>1, <1>a DEF vars, poll, hist, stateFile
<1>2. CASE Poll \/ FetchFails \/ FetchNext \/ EndBatch \/ Post \/ Others
  BY <1>2, <1>a DEF Poll, FetchFails, FetchNext, EndBatch, Post, Others, OtherSave,
     Abandon, poll, hist, stateFile
<1>3. CASE FetchFirst
  <2>1. UNCHANGED <<data, disk, cache, base, processed>>
    BY <1>3 DEF FetchFirst, hist, stateFile
  <2>2. queue' = queue \/ queue' = walk.known
    BY <1>3 DEF FetchFirst, Emit
  <2>3. walk.known = data.pending
    BY <1>3 DEF FetchFirst, OrderInv, PendInv, Polling
  <2>4. N(queue')
    BY <1>04, <2>2, <2>3 DEF SavedNoGap
  <2> QED BY <1>04, <2>1, <2>4
<1>4. CASE Process
  <2>1. queue' = queue \/ queue' = Tail(queue)
    BY <1>4 DEF Process, NextJob
  <2>2. queue # <<>> /\ queue \in Seq(Projects)
    BY <1>0, <1>4 DEF Process, TypeOK
  <2>3. Range(queue') \subseteq Range(queue)
    BY <2>1, <2>2 DEF Range
  <2> QED BY <1>4, <1>a, <2>3 DEF Process, stateFile
<1>5. CASE Seed
  <2>0. PICK top \in walk.items :
          /\ base <= top /\ top <= posted
          /\ \A p \in walk.items : top - PageSize < p /\ p <= top
    BY <1>5 DEF Seed, OrderInv, PendInv, SeenInv, ListInv
  <2>1. walk.items \in SUBSET Int /\ IsFiniteSet(walk.items)
    <3>1. walk.items \subseteq Projects
      BY <1>0 DEF TypeOK, Walk
    <3>2. Projects \subseteq Int /\ IsFiniteSet(Projects)
      BY FS_Interval, Bounds DEF Projects
    <3> QED BY <3>1, <3>2, FS_Subset
  <2>2. \A p \in Range(NewestFirst(walk.items)) : p \in Int /\ p <= top
    BY <2>0, <2>1, SortedPage
  <2>3. Max(walk.items) = top
    <3>1. \A x \in walk.items : (\A y \in walk.items : x >= y) => x = top
      BY <2>0, <2>1
    <3>2. \A y \in walk.items : top >= y
      BY <2>0, <2>1
    <3> QED BY <3>1, <3>2 DEF Max
  <2>4. base' = top /\ base <= base' /\ base' \in Int
    BY <1>5, <2>0, <2>1, <2>3 DEF Seed
  <2> DEFINE s == NewestFirst(walk.items)
             d == [data EXCEPT !.seen = s]
  <2>5. d.seen = s /\ d.pending = data.pending /\ d.page = data.page
    BY <1>0 DEF Saved
  <2>6. \A pend : NoGap(s, pend, processed, base')
    <3> SUFFICES ASSUME NEW p \in Range(s), NEW q \in Projects, base' < q, q < p
                 PROVE  FALSE
      BY DEF NoGap
    <3>1. q \in Int
      BY Bounds DEF Projects
    <3>2. p \in Int /\ p <= top
      BY <2>2
    <3>3. top \in Int
      BY <2>0, <2>1
    <3> QED BY <2>4, <3>1, <3>2, <3>3
  <2> HIDE DEF d, s
  <2>7. /\ cache' = s /\ UNCHANGED processed
        /\ (Stored(d) /\ UNCHANGED failures) \/ Raised(d)
        /\ queue' = queue \/ queue' = walk.known
    BY <1>5 DEF Seed, d, s, Emit, Abandon
  <2>8. walk.known = data.pending
    BY <1>5 DEF Seed, OrderInv, PendInv, Polling
  <2>9. \/ data' = d /\ disk' \in {disk, d}
        \/ UNCHANGED <<data, disk>>
    BY <1>0, <2>7, SaveOutcome
  <2>10. \A t, pend : NoGap(t, pend, processed, base) =>
                        NoGap(t, pend, processed', base')
    BY <1>0, <2>4, <2>7, NoGapMore
  <2>11. /\ SavedNoGap(data, processed', base') /\ SavedNoGap(disk, processed', base')
         /\ SavedNoGap(d, processed', base')
    BY <1>04, <2>5, <2>6, <2>7, <2>10 DEF SavedNoGap
  <2>12. NoGap(queue, data.pending, processed', base')
         /\ NoGap(data.pending, data.pending, processed', base')
    BY <1>04, <2>10 DEF SavedNoGap
  <2>13. data'.pending = data.pending
    BY <2>5, <2>9
  <2> QED BY <2>6, <2>7, <2>8, <2>9, <2>11, <2>12, <2>13
<1>6. CASE CaughtUp
  <2> DEFINE d == [data EXCEPT !.page = 2]
  <2>1. G(d) /\ d.pending = data.pending
    BY <1>0, <1>04 DEF Saved, SavedNoGap
  <2>2. walk.known = data.pending
    BY <1>6 DEF CaughtUp, OrderInv, PendInv, Polling
  <2>3. N(walk.known)
    BY <1>04, <2>2 DEF SavedNoGap
  <2>3a. (Stored(d) /\ UNCHANGED failures) \/ Raised(d)
    BY <1>6 DEF CaughtUp, SavePage
  <2>3b. queue' = queue \/ queue' = walk.known
    BY <1>6 DEF CaughtUp, SavePage, Discover, Abandon, Emit
  <2>4. UNCHANGED <<cache, processed, base>>
    BY <1>6 DEF CaughtUp, hist
  <2> HIDE DEF d, G
  <2> QED BY <1>04, <1>b, <2>1, <2>3, <2>3a, <2>3b, <2>4
<1>7. CASE HitCap
  BY <1>7 DEF HitCap
<1>8. CASE Record
  <2> DEFINE all == walk.known \o Ascending(New)
             d == [data EXCEPT !.pending = all]
  <2>1. Range(all) = Range(walk.known) \cup New
    BY <1>0, RecordedList
  <2>2. d.pending = all /\ d.seen = data.seen /\ d.page = data.page
    BY <1>0 DEF Saved
  <2>3. walk.known = data.pending
    BY <1>8 DEF Record, OrderInv, PendInv, Polling
  <2>4. ASSUME NEW p \in New, NEW q \in Projects, base < q, q < p
        PROVE  q \in processed \cup Range(all)
    <3>1. p \in walk.items
      BY DEF New
    <3>2. p \in Int /\ q \in Int
      BY <1>0, <3>1, Bounds DEF Projects, TypeOK, Walk
    <3>3. q \in walk.items \cup processed \cup Range(data.pending)
      BY <1>03, <1>8, <2>4, <3>1, <3>2 DEF Record, OrderInv, WalkInv
    <3>4. q \in Range(cache) => q \in processed
      BY <1>0, <2>4, <3>2 DEF SeenWasProcessed
    <3> QED BY <2>1, <2>3, <3>3, <3>4 DEF New
  <2> HIDE DEF all
  <2>5. NoGap(all, all, processed, base)
    <3>1. NoGap(walk.known, all, processed, base)
      BY <1>0, <1>04, <2>1, <2>3, NoGapMore DEF SavedNoGap
    <3> QED BY <2>1, <2>4, <3>1 DEF NoGap
  <2>6. \A s : N(s) => NoGap(s, all, processed, base)
    BY <1>0, <2>1, <2>3, NoGapMore
  <2>7. G(d)
    BY <1>04, <2>2, <2>5, <2>6 DEF SavedNoGap
  <2>8. \/ Stored(d) /\ UNCHANGED failures /\ queue' = all
        \/ Raised(d) /\ queue' = queue
    BY <1>8 DEF Record, d, all, Abandon, Emit
  <2>9. UNCHANGED <<cache, processed, base>>
    BY <1>8 DEF Record, hist
  <2> HIDE DEF d, G
  <2>10. /\ SavedNoGap(data', processed', base')
         /\ SavedNoGap(disk', processed', base')
         /\ \A s : N(s) => NoGap(s, data'.pending, processed', base')
    BY <1>b, <2>1, <2>2, <2>3, <2>7, <2>8, <2>9
  <2>11. NoGap(queue', data'.pending, processed', base')
    <3>1. CASE Stored(d) /\ queue' = all
      BY <2>2, <2>5, <2>9, <3>1 DEF Stored
    <3>2. CASE queue' = queue
      BY <1>04, <2>10, <3>2
    <3> QED BY <2>8, <3>1, <3>2
  <2> QED BY <1>04, <2>9, <2>10, <2>11
<1>9. CASE MarkSeen
  <2>0. /\ queue # <<>> /\ Head(queue) \in Projects /\ Head(queue) \in Range(queue)
        /\ cache \in Seq(Projects) /\ Len(cache) <= MaxSeen /\ queue \in Seq(Projects)
    <3>1. queue # <<>> /\ queue \in Seq(Projects)
      BY <1>0, <1>9 DEF MarkSeen, PendInv, SeenInv, ListInv, TypeOK
    <3> QED BY <1>0, <3>1 DEF TypeOK, Range
  <2> DEFINE s == Push(cache, Head(queue))
             d == [data EXCEPT !.seen = s]
  <2>1. Range(s) \subseteq Range(cache) \cup {Head(queue)}
    BY <2>0, PushList, Bounds
  <2>2. N(s)
    BY <1>04, <2>0, <2>1 DEF NoGap
  <2>3. d.seen = s /\ d.pending = data.pending /\ d.page = data.page
    BY <1>0 DEF Saved
  <2>4. G(d)
    BY <1>04, <2>2, <2>3 DEF SavedNoGap
  <2> HIDE DEF d, s
  <2>5. \/ UNCHANGED <<stateFile, cache>>
        \/ /\ cache' = s
           /\ (Stored(d) /\ UNCHANGED failures) \/ Raised(d)
    BY <1>9 DEF MarkSeen, d, s
  <2>6. UNCHANGED <<processed, base>> /\ (queue' = queue \/ queue' = Tail(queue))
    BY <1>9 DEF MarkSeen, NextJob, hist
  <2>7. Range(queue') \subseteq Range(queue)
    BY <2>0, <2>6 DEF Range
  <2>8. N(queue')
    BY <1>0, <1>04, <2>7, NoGapMore
  <2> HIDE DEF G, N
  <2>9. CASE UNCHANGED <<stateFile, cache>>
    BY <1>a, <2>6, <2>7, <2>9 DEF stateFile
  <2>10. CASE cache' = s /\ ((Stored(d) /\ UNCHANGED failures) \/ Raised(d))
    BY <1>b, <2>2, <2>3, <2>4, <2>6, <2>8, <2>10
  <2> QED BY <2>5, <2>9, <2>10
<1>10. CASE RemovePending
  <2>0. queue # <<>> /\ queue \in Seq(Projects) /\ Head(queue) \in processed
    BY <1>0, <1>10 DEF RemovePending, PendInv, SeenInv, ListInv, TypeOK
  <2> DEFINE rest == Without(data.pending, Head(queue))
             d == [data EXCEPT !.pending = rest]
  <2>1. Range(rest) = Range(data.pending) \ {Head(queue)}
    BY <1>0, SavedFields, WithoutList
  <2>2. d.seen = data.seen /\ d.pending = rest /\ d.page = data.page
    BY <1>0 DEF Saved
  <2> HIDE DEF rest
  <2>3. Range(data.pending) \ processed \subseteq Range(rest)
    BY <2>0, <2>1
  <2>4. \A s : N(s) => NoGap(s, rest, processed, base)
    BY <1>0, <2>3, NoGapMore
  <2>5. NoGap(rest, rest, processed, base)
    BY <1>0, <1>04, <2>1, <2>3, NoGapMore DEF SavedNoGap
  <2>6. G(d)
    BY <1>04, <2>2, <2>4, <2>5 DEF SavedNoGap
  <2> HIDE DEF d
  <2>7. \/ UNCHANGED stateFile
        \/ (Stored(d) /\ UNCHANGED failures) \/ Raised(d)
    BY <1>10 DEF RemovePending, d, rest
  <2>8. UNCHANGED <<cache, processed, base>> /\ queue' = Tail(queue)
    BY <1>10 DEF RemovePending, NextJob, hist
  <2>9. Range(queue') \subseteq Range(queue)
    BY <2>0, <2>8 DEF Range
  <2>10. N(queue')
    BY <1>0, <1>04, <2>9, NoGapMore
  <2> HIDE DEF G, N
  <2>11. CASE UNCHANGED stateFile
    BY <1>a, <2>8, <2>9, <2>11 DEF stateFile
  <2>12. CASE (Stored(d) /\ UNCHANGED failures) \/ Raised(d)
    BY <1>04, <1>b, <2>2, <2>3, <2>6, <2>8, <2>10, <2>12
  <2> QED BY <2>7, <2>11, <2>12
<1>11. CASE Crash \/ Restart
  <2>1. /\ data' = disk /\ disk' = disk /\ cache' = disk.seen /\ queue' = <<>>
        /\ UNCHANGED <<processed, base>>
    BY <1>11 DEF Crash, Restart, Reboot, Load, hist
  <2>2. Range(<<>>) = {}
    BY DEF Range
  <2>3. NoGap(<<>>, disk.pending, processed, base)
    BY <2>2 DEF NoGap
  <2> QED BY <1>04, <2>1, <2>3 DEF SavedNoGap
<1> QED BY <1>1, <1>2, <1>3, <1>4, <1>5, <1>6, <1>7, <1>8, <1>9, <1>10, <1>11
        DEF Next, Progress

\* The page a walk fetches: between two bounds, and without a hole.
LEMMA OlderPage ==
  ASSUME posted \in 0..MaxPosted, NEW n \in Nat \ {0}
  PROVE  LET low  == posted - n * PageSize
             high == posted - (n - 1) * PageSize
         IN  /\ low \in Int /\ high \in Int /\ low < high /\ high <= posted
             /\ PageAt(n) \subseteq Projects
             /\ \A p \in PageAt(n) : low < p /\ p <= high
             /\ \A q \in Projects : low < q /\ q <= high => q \in PageAt(n)
<1>1. /\ posted \in Int /\ posted <= MaxPosted
      /\ PageSize \in Nat /\ PageSize >= 1 /\ n \in Nat /\ n >= 1
  BY Bounds
<1>2. /\ n * PageSize \in Int /\ (n - 1) * PageSize \in Int
      /\ (n - 1) * PageSize >= 0
      /\ n * PageSize = (n - 1) * PageSize + PageSize
  BY <1>1
<1> DEFINE low  == posted - n * PageSize
           high == posted - (n - 1) * PageSize
<1>3. low \in Int /\ high \in Int /\ low < high /\ high <= posted
  BY <1>1, <1>2
<1>4. PageAt(n) = {p \in 1..posted : p > low /\ p <= high}
  BY DEF PageAt
<1> HIDE DEF low, high
<1>5. /\ PageAt(n) \subseteq Projects
      /\ \A p \in PageAt(n) : low < p /\ p <= high
      /\ \A q \in Projects : low < q /\ q <= high => q \in PageAt(n)
  BY <1>1, <1>3, <1>4, Bounds DEF Projects
<1> QED BY <1>3, <1>5 DEF low, high

LEMMA WalkStep ==
  ASSUME OrderInv, [Next]_vars PROVE WalkInv'
<1> DEFINE Top(w, newest) ==
             \E hi \in w.items :
               /\ \A p \in w.items : p <= hi
               /\ \A q \in Projects :
                    newest - (w.page - 1) * PageSize < q /\ q <= hi
                      => q \in w.items
           Behind(w, done, old, pend) ==
             \A p \in w.items : \A q \in Projects :
               old < q /\ q <= p => q \in w.items \cup done \cup Range(pend)
           Result == /\ pc' = "page1" => walk'.items = {}
                     /\ pc' = "walk" => Top(walk', posted')
                     /\ pc' \in {"caught_up", "record"} =>
                          Behind(walk', processed', base', data'.pending)
<1>0. /\ TypeOK /\ data \in Saved /\ walk \in Walk /\ SeenWasProcessed
      /\ posted \in 0..MaxPosted
  BY DEF OrderInv, PendInv, SeenInv, ListInv, TypeOK
<1>01. walk.items \subseteq Projects /\ walk.page \in Nat \ {0, 1}
  BY <1>0 DEF Walk
<1>02. Projects \subseteq Int /\ base \in Int /\ posted \in Int
  <2>1. base \in 0..MaxPosted /\ posted \in 0..MaxPosted
    BY <1>0 DEF TypeOK
  <2> QED BY <2>1, Bounds DEF Projects
<1> SUFFICES ASSUME ~capped' PROVE Result
  BY DEF WalkInv
<1>03. ~capped
  BY DEF Next, Progress, Poll, FetchFirst, Seed, FetchNext, CaughtUp, HitCap,
         Record, Process, EndBatch, MarkSeen, RemovePending, FetchFails, Post,
         Others, Crash, Restart, Reboot, vars, hist
<1>04. /\ pc = "page1" => walk.items = {}
       /\ pc = "walk" => Top(walk, posted)
       /\ pc \in {"caught_up", "record"} =>
            Behind(walk, processed, base, data.pending)
  BY <1>03 DEF OrderInv, WalkInv
<1>05. /\ SavedNoGap(data, processed, base) /\ data.page = 2
       /\ NoGap(cache, data.pending, processed, base)
  BY <1>03 DEF OrderInv, GapInv, SavedNoGap
\* Of a page whose projects are all known, nothing older is missing.
<1>k. ASSUME NEW x \in Range(cache), NEW q \in Projects, base < q, q <= x
      PROVE  q \in processed \cup Range(data.pending)
  <2>1. x \in Projects
    BY <1>0 DEF TypeOK, Range
  <2>2. CASE q = x
    BY <1>0, <1>02, <1>k, <2>2 DEF SeenWasProcessed
  <2>3. CASE q < x
    BY <1>05, <1>k, <2>3 DEF NoGap
  <2> QED BY <1>02, <1>k, <2>1, <2>2, <2>3
<1>1. CASE UNCHANGED vars
  BY <1>1, <1>04 DEF vars, poll, hist, stateFile
<1>2. CASE Poll
  <2>1. walk'.items = {} /\ pc' = "page1"
    BY <1>2 DEF Poll, NoWalk, Goto
  <2> QED BY <2>1
<1>3. CASE FetchFails \/ Seed \/ Record \/ Process \/ EndBatch \/ MarkSeen
           \/ RemovePending \/ Crash \/ Restart
  BY <1>3 DEF FetchFails, Seed, Record, Process, EndBatch, MarkSeen,
     RemovePending, Crash, Restart, Reboot, Abandon, Emit, NextJob, Goto
<1>4. CASE FetchFirst
  <2>0. walk.items = {} /\ UNCHANGED <<posted, processed, base, data>>
    BY <1>04, <1>4 DEF FetchFirst, hist, stateFile
  <2>1. CASE pc' = "caught_up"
    <3>1. walk' = walk
      BY <1>4, <2>1 DEF FetchFirst, Emit, Goto
    <3> QED BY <2>0, <2>1, <3>1
  <2>2. CASE pc' = "walk"
    <3>1. /\ walk'.items = PageAt(1) /\ walk'.page = 2 /\ PageAt(1) # {}
      BY <1>0, <1>05, <1>4, <2>2 DEF FetchFirst, Emit, Goto, Walk
    <3>2. (2 - 1) * PageSize = PageSize
      BY Bounds
    <3>3. Top(walk', posted)
      <4>1. /\ posted \in PageAt(1)
            /\ \A p \in PageAt(1) : posted - PageSize < p /\ p <= posted
            /\ \A q \in Projects :
                 posted - PageSize < q /\ q <= posted => q \in PageAt(1)
        BY <1>0, <3>1, FirstPage
      <4> QED BY <3>1, <3>2, <4>1
    <3> QED BY <2>0, <2>2, <3>3
  <2>3. pc' \in {"process", "seed", "caught_up", "walk"}
    BY <1>4 DEF FetchFirst, Emit, Goto
  <2> QED BY <2>1, <2>2, <2>3
<1>5. CASE FetchNext
  <2> DEFINE n == walk.page
             low == posted - n * PageSize
             high == posted - (n - 1) * PageSize
             page == PageAt(n)
  <2>0. /\ UNCHANGED <<posted, processed, base, data>>
        /\ \/ (page = {} \/ PageFullySeen(page)) /\ pc' = "caught_up" /\ walk' = walk
           \/ /\ page # {} /\ ~PageFullySeen(page) /\ pc' = "walk"
              /\ walk' = [walk EXCEPT !.items = @ \cup page, !.page = @ + 1,
                                      !.fetched = @ + 1]
    BY <1>5 DEF FetchNext, Goto, hist, stateFile
  <2>1. /\ low \in Int /\ high \in Int /\ low < high /\ high <= posted
        /\ page \subseteq Projects
        /\ \A p \in page : low < p /\ p <= high
        /\ \A q \in Projects : low < q /\ q <= high => q \in page
    <3>1. n \in Nat \ {0}
      BY <1>01
    <3> QED BY <1>0, <3>1, OlderPage
  <2>2. PICK hi \in walk.items :
          /\ \A p \in walk.items : p <= hi
          /\ \A q \in Projects : high < q /\ q <= hi => q \in walk.items
    BY <1>04, <1>5 DEF FetchNext
  <2>3. hi \in Projects /\ hi \in Int
    BY <1>01, <1>02, <2>2
  <2>3a. high >= 1 => high \in Projects
    BY <1>0, <2>1, Bounds DEF Projects
  <2> HIDE DEF low, high, page
  <2>4. CASE pc' = "caught_up"
    <3>1. walk' = walk /\ (page = {} \/ PageFullySeen(page))
      BY <2>0, <2>4
    <3>2. ASSUME NEW p \in walk.items, NEW q \in Projects, base < q, q <= p
          PROVE  q \in walk.items \cup processed \cup Range(data.pending)
      <4>1. p <= hi /\ p \in Int /\ q \in Int /\ q <= hi
        <5>1. p \in Int /\ q \in Int /\ p <= hi
          BY <1>01, <1>02, <2>2
        <5> QED BY <2>3, <3>2, <5>1
      <4>2. CASE high < q
        BY <2>2, <4>1, <4>2
      <4>3. CASE q <= high
        <5>1. high \in Projects /\ high \in page
          <6>1. q >= 1
            BY DEF Projects
          <6>2. high >= 1
            BY <2>1, <4>1, <4>3, <6>1
          <6> QED BY <2>1, <2>3a, <6>2
        <5>2. high \in Range(cache)
          BY <3>1, <5>1 DEF PageFullySeen
        <5> QED BY <1>k, <3>2, <4>3, <5>2
      <4> QED BY <2>1, <4>1, <4>2, <4>3
    <3> QED BY <2>0, <2>4, <3>1, <3>2
  <2>5. CASE pc' = "walk"
    <3>1. /\ walk'.items = walk.items \cup page /\ walk'.page = n + 1
      BY <1>0, <2>0, <2>5 DEF Walk
    <3>2. posted - ((n + 1) - 1) * PageSize = low
      BY <1>01 DEF low
    <3>3. CASE high <= hi
      <4>1. \A p \in walk'.items : p <= hi
        <5> SUFFICES ASSUME NEW p \in page PROVE p <= hi
          BY <2>2, <3>1
        <5>1. p \in Int /\ p <= high
          BY <1>02, <2>1
        <5> QED BY <2>1, <2>3, <3>3, <5>1
      <4>2. \A q \in Projects : low < q /\ q <= hi => q \in walk'.items
        <5> SUFFICES ASSUME NEW q \in Projects, low < q, q <= hi
                     PROVE  q \in walk.items \cup page
          BY <3>1
        <5>1. q \in Int
          BY <1>02
        <5>2. high < q \/ q <= high
          BY <2>1, <5>1
        <5> QED BY <2>1, <2>2, <5>2
      <4> QED BY <2>0, <2>2, <2>5, <3>1, <3>2, <4>1, <4>2
    <3>4. CASE hi < high
      <4>1. high \in Projects /\ high \in page
        <5>1. high >= 1
          BY <2>1, <2>3, <3>4 DEF Projects
        <5> QED BY <2>1, <2>3a, <5>1
      <4>2. \A p \in walk'.items : p <= high
        <5> SUFFICES ASSUME NEW p \in walk.items \cup page PROVE p <= high
          BY <3>1
        <5>1. p \in Int /\ (p <= hi \/ p <= high)
          BY <1>01, <1>02, <2>1, <2>2
        <5> QED BY <2>1, <2>3, <3>4, <5>1
      <4>3. \A q \in Projects : low < q /\ q <= high => q \in walk'.items
        BY <2>1, <3>1
      <4> QED BY <2>0, <2>5, <3>1, <3>2, <4>1, <4>2, <4>3
    <3>5. high <= hi \/ hi < high
      BY <2>1, <2>3
    <3> QED BY <3>3, <3>4, <3>5
  <2> QED BY <2>0, <2>4, <2>5
<1>6. CASE CaughtUp
  <2> DEFINE d == [data EXCEPT !.page = 2]
  <2>1. d.pending = data.pending
    BY <1>0 DEF Saved
  <2> HIDE DEF d
  <2>2. \/ pc' \in {"process", "idle"}
        \/ pc' = "record" /\ Stored(d) /\ UNCHANGED walk
    BY <1>6 DEF CaughtUp, SavePage, Discover, Abandon, Emit, Goto, d
  <2>3. UNCHANGED <<processed, base>> /\ pc = "caught_up"
    BY <1>6 DEF CaughtUp, hist
  <2>4. CASE pc' = "record" /\ Stored(d) /\ UNCHANGED walk
    <3>1. data'.pending = data.pending
      BY <2>1, <2>4 DEF Stored
    <3> QED BY <1>04, <2>3, <2>4, <3>1
  <2> QED BY <2>2, <2>4
<1>7. CASE HitCap
  BY <1>7 DEF HitCap
<1>8. CASE Others
  BY <1>8, <1>04 DEF Others, OtherSave, poll, hist
<1>9. CASE Post
  <2>1. /\ posted' = posted + 1
        /\ UNCHANGED <<pc, walk, processed, base, data>>
    BY <1>9 DEF Post, poll, hist, stateFile
  <2>2. Top(walk, posted) => Top(walk, posted')
    <3>1. (walk.page - 1) * PageSize \in Int
      BY <1>01, Bounds
    <3>2. \A q \in Projects : posted' - (walk.page - 1) * PageSize < q =>
            posted - (walk.page - 1) * PageSize < q
      BY <1>02, <2>1, <3>1
    <3> QED BY <3>2
  <2> QED BY <1>04, <2>1, <2>2
<1> QED BY <1>1, <1>2, <1>3, <1>4, <1>5, <1>6, <1>7, <1>8, <1>9 DEF Next, Progress

LEMMA OrderInit == Init => OrderInv
<1> SUFFICES ASSUME Init PROVE OrderInv
  OBVIOUS
<1>1. /\ data.seen = <<>> /\ data.pending = <<>> /\ data.page = 2 /\ disk = data
      /\ cache = <<>> /\ queue = <<>> /\ pc = "idle"
  BY DEF Init
<1>2. \A pend, done, old : NoGap(<<>>, pend, done, old)
  BY DEF NoGap, Range
<1> QED BY <1>1, <1>2, PendInit DEF OrderInv, GapInv, WalkInv, SavedNoGap

THEOREM OrderHolds == Spec => []OrderInv
<1>1. OrderInv /\ [Next]_vars => OrderInv'
  BY PendStep, GapStep, WalkStep DEF OrderInv
<1> QED BY <1>1, OrderInit, PTL DEF Spec

\* When the first page of a poll is fully seen, every project posted after the
\* very first page was processed or is pending, so that poll_once may stop
\* there: however many projects were posted between two polls or during one,
\* and whatever failed, as long as no walk was cut short by the page cap.
THEOREM StoppingIsRight == Spec => StopsOnlyWhenCaughtUp
<1> DEFINE A == FoundNothingNew /\ ~capped =>
                  \A p \in (base + 1)..posted : Found(p)
<1>1. OrderInv /\ [Next]_vars => [A]_vars
  <2> SUFFICES ASSUME OrderInv, FoundNothingNew, ~capped,
                      NEW p \in (base + 1)..posted
               PROVE  Found(p)
    OBVIOUS
  <2>1. /\ TypeOK /\ SeenWasProcessed /\ walk.known = data.pending
        /\ NoGap(cache, data.pending, processed, base)
    BY DEF OrderInv, PendInv, SeenInv, ListInv, GapInv, FoundNothingNew,
           FetchFirst, Polling
  <2>2. /\ posted \in 0..MaxPosted /\ base \in 0..MaxPosted
        /\ posted \in Int /\ base \in Int
    BY <2>1, Bounds DEF TypeOK
  <2>3. PageAt(1) # {} /\ PageAt(1) \subseteq Range(cache)
    BY DEF FoundNothingNew, FetchFirst, PageFullySeen, Emit, Goto
  <2>4. posted \in Range(cache)
    BY <2>2, <2>3, FirstPage
  <2>5. p \in Projects /\ base < p /\ p <= posted /\ p \in Int
    BY <2>2, Bounds DEF Projects
  <2>6. CASE p = posted
    BY <2>1, <2>2, <2>4, <2>5, <2>6 DEF SeenWasProcessed, Found
  <2>7. CASE p < posted
    BY <2>1, <2>4, <2>5, <2>7 DEF NoGap, Found
  <2> QED BY <2>2, <2>5, <2>6, <2>7
<1>2. Spec => []OrderInv
  BY OrderHolds
<1>3. Spec => [][A]_vars
  BY <1>1, <1>2, PTL DEF Spec
<1> QED BY <1>3 DEF StopsOnlyWhenCaughtUp

=============================================================================
