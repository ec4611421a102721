-------------------------- MODULE VideoArchiveProofs --------------------------
(***************************************************************************)
(* For every number of pieces, every gap and every bound on the failures   *)
(* and the requests: no recorded piece is lost, except one that reached a  *)
(* video between a repair's reading it and removing it, and one of a video *)
(* that the merger overwrote with what it could not remove from the disk.  *)
(***************************************************************************)
EXTENDS VideoArchive, FiniteSetTheorems, SequenceTheorems, WellFoundedInduction, TLAPS

-----------------------------------------------------------------------------
(* Lemmas about numbers.                                                   *)

\* The natural numbers are well founded.
LEMMA LeastOfNaturals ==
    ASSUME NEW T \in SUBSET Nat, T # {}
    PROVE  \E x \in T : \A y \in T : x <= y
<1> DEFINE R == OpToRel(<, Nat)
<1>1. IsWellFoundedOn(R, Nat)
  BY NatLessThanWellFounded
<1>2. \A x, y \in Nat : y < x => <<y, x>> \in R
  BY DEF OpToRel
<1> HIDE DEF R
<1>3. PICK x \in T : \A y \in T : ~(<<y, x>> \in R)
  BY <1>1, WFMin
<1>4. \A y \in T : ~(y < x)
  BY <1>2, <1>3
<1> QED
  BY <1>4

\* What holds of 0, and of i when it holds of i - 1, holds up to n.
LEMMA UpTo ==
    ASSUME NEW n \in Nat, NEW Good, 0 \in Good, \A i \in 1..n : i - 1 \in Good => i \in Good
    PROVE  0..n \subseteq Good
<1> DEFINE Bad == (0..n) \ Good
<1> SUFFICES ASSUME Bad # {} PROVE FALSE
  OBVIOUS
<1>1. PICK x \in Bad : \A y \in Bad : x <= y
  <2>1. Bad \in SUBSET Nat
    OBVIOUS
  <2> HIDE DEF Bad
  <2> QED
    BY <2>1, LeastOfNaturals
<1>2. x \in 1..n /\ x - 1 \in 0..n
  BY <1>1
<1>3. x - 1 \in Good
  BY <1>1, <1>2
<1> QED
  BY <1>1, <1>2, <1>3

\* A non-empty bounded set of naturals has a maximum, and Max is it.
LEMMA MaxBounded ==
    ASSUME NEW n \in Nat, NEW T \in SUBSET (0..n), T # {}
    PROVE  Max(T) \in T /\ \A x \in T : x <= Max(T)
<1> DEFINE U == {n - x : x \in T}
<1>0. U \in SUBSET Nat /\ U # {}
  <2>1. \A x \in T : x \in 0..n /\ n - x \in Nat
    OBVIOUS
  <2> QED
    BY <2>1
<1>1. PICK u \in U : \A y \in U : u <= y
  <2> HIDE DEF U
  <2> QED
    BY <1>0, LeastOfNaturals
<1>2. PICK m \in T : u = n - m
  BY <1>1
<1>3. \A x \in T : m >= x
  BY <1>1, <1>2
<1>4. Max(T) \in T /\ \A y \in T : Max(T) >= y
  BY <1>3 DEF Max
<1> QED
  BY <1>4

-----------------------------------------------------------------------------
(* Lemmas about ascending sequences.                                       *)

\* A set of naturals below a bound has a sequence of its members in order.
LEMMA OrderedExists ==
    ASSUME NEW n \in Nat, NEW S \in SUBSET (1..n)
    PROVE  \E s \in [1..Cardinality(S) -> S] : Ascending(s)
<1> DEFINE Below(m) == S \cap (1..m)
           Good == {m \in Nat : \E s \in Seq(Below(m)) : Len(s) = Cardinality(Below(m)) /\ Ascending(s)}
<1>1. 0 \in Good
  <2>1. Below(0) = {}
    OBVIOUS
  <2>2. Cardinality(Below(0)) = 0 /\ <<>> \in Seq(Below(0)) /\ Len(<<>>) = 0
    BY <2>1, FS_EmptySet
  <2>3. Ascending(<<>>)
    BY DEF Ascending
  <2> QED
    BY <2>2, <2>3
<1>2. ASSUME NEW m \in 1..n, m - 1 \in Good PROVE m \in Good
  <2>1. PICK s \in Seq(Below(m - 1)) : Len(s) = Cardinality(Below(m - 1)) /\ Ascending(s)
    BY <1>2
  <2>2. CASE m \notin S
    <3>1. Below(m) = Below(m - 1)
      BY <2>2
    <3> HIDE DEF Below
    <3> QED
      BY <2>1, <3>1
  <2>3. CASE m \in S
    <3>1. Below(m) = Below(m - 1) \cup {m} /\ m \notin Below(m - 1)
      BY <2>3
    <3>2. IsFiniteSet(Below(m - 1))
      <4>1. IsFiniteSet(1..n)
        BY FS_Interval
      <4>2. Below(m - 1) \in SUBSET (1..n)
        OBVIOUS
      <4> HIDE DEF Below
      <4> QED
        BY <4>1, <4>2, FS_Subset
    <3>3. \A x \in Below(m - 1) : x < m
      OBVIOUS
    <3> HIDE DEF Below
    <3>4. Cardinality(Below(m)) = Cardinality(Below(m - 1)) + 1
      BY <3>1, <3>2, FS_AddElement
    <3> DEFINE t == Append(s, m)
    <3>5. s \in Seq(Below(m)) /\ m \in Below(m)
      BY <2>1, <3>1, SeqMonotonic
    <3>6. t \in Seq(Below(m)) /\ Len(t) = Len(s) + 1
      BY <3>5
    <3>7. Ascending(t)
      <4>1. \A i \in 1..Len(s) : t[i] = s[i] /\ s[i] < m
        BY <2>1, <3>3, ElementOfSeq
      <4>2. t[Len(s) + 1] = m /\ DOMAIN t = 1..(Len(s) + 1) /\ Len(s) \in Nat /\ DOMAIN s = 1..Len(s)
        BY <2>1, <3>6
      <4>3. SUFFICES ASSUME NEW i \in DOMAIN t, NEW j \in DOMAIN t, i < j PROVE t[i] < t[j]
        BY DEF Ascending
      <4> HIDE DEF t
      <4>4. CASE j = Len(s) + 1
        <5>1. i \in 1..Len(s)
          BY <4>2, <4>3, <4>4
        <5> QED
          BY <4>1, <4>2, <4>4, <5>1
      <4>5. CASE j # Len(s) + 1
        <5>1. i \in DOMAIN s /\ j \in DOMAIN s /\ i \in 1..Len(s) /\ j \in 1..Len(s)
          BY <4>2, <4>3, <4>5
        <5>2. s[i] < s[j]
          BY <2>1, <4>3, <5>1 DEF Ascending
        <5> QED
          BY <4>1, <5>1, <5>2
      <4> QED
        BY <4>4, <4>5
    <3>8. Len(t) = Cardinality(Below(m))
      BY <2>1, <3>4, <3>6
    <3> HIDE DEF t
    <3>9. \E u \in Seq(Below(m)) : Len(u) = Cardinality(Below(m)) /\ Ascending(u)
      BY <3>6, <3>7, <3>8
    <3> QED
      BY <3>9
  <2> QED
    BY <2>2, <2>3
<1>3. n \in Good
  <2> HIDE DEF Good
  <2>1. 0..n \subseteq Good
    BY <1>1, <1>2, UpTo
  <2> QED
    BY <2>1
<1>4. Below(n) = S
  OBVIOUS
<1>5. PICK s \in Seq(S) : Len(s) = Cardinality(S) /\ Ascending(s)
  <2> HIDE DEF Below
  <2> QED
    BY <1>3, <1>4
<1>6. s \in [1..Cardinality(S) -> S]
  BY <1>5
<1> QED
  BY <1>5, <1>6

\* Ordered lists every member of its set, and the lower first.
LEMMA OrderedSound ==
    ASSUME NEW n \in Nat, NEW S \in SUBSET (1..n)
    PROVE  /\ Ordered(S) \in Seq(S) /\ Len(Ordered(S)) = Cardinality(S) /\ Cardinality(S) \in Nat
           /\ ToSet(Ordered(S)) = S
           /\ Ascending(Ordered(S))
<1>1. IsFiniteSet(S) /\ Cardinality(S) \in Nat
  <2>1. IsFiniteSet(1..n)
    BY FS_Interval
  <2>2. IsFiniteSet(S)
    BY <2>1, FS_Subset
  <2> QED
    BY <2>2, FS_CardinalityType
<1> DEFINE s == Ordered(S)
<1>2. s \in [1..Cardinality(S) -> S] /\ Ascending(s)
  BY OrderedExists DEF Ordered
<1> HIDE DEF s
<1>3. s \in Seq(S) /\ Len(s) = Cardinality(S)
  BY <1>1, <1>2
<1>4. s \in Injection(1..Cardinality(S), S)
  <2>1. ASSUME NEW a \in 1..Cardinality(S), NEW b \in 1..Cardinality(S), s[a] = s[b] PROVE a = b
    <3>1. PICK c \in Nat : c = Cardinality(S)
      BY <1>1
    <3>2. s \in [1..c -> S] /\ a \in 1..c /\ b \in 1..c
      BY <1>2, <3>1
    <3>3. s[a] \in Nat /\ DOMAIN s = 1..c /\ a \in Int /\ b \in Int
      <4>1. s[a] \in S /\ DOMAIN s = 1..c
        BY <3>2
      <4>2. a \in Int /\ b \in Int
        BY <3>1, <3>2
      <4>3. S \subseteq Nat
        OBVIOUS
      <4> QED
        BY <4>1, <4>2, <4>3, Zenon
    <3>4. ~ (a < b) /\ ~ (b < a)
      BY <1>2, <2>1, <3>2, <3>3 DEF Ascending
    <3> QED
      BY <3>3, <3>4
  <2>2. DOMAIN s = 1..Cardinality(S)
    BY <1>2
  <2>3. IsInjective(s)
    BY <2>1, <2>2 DEF IsInjective
  <2> QED
    BY <1>2, <2>3 DEF Injection
<1>5. Cardinality(1..Cardinality(S)) = Cardinality(S)
  <2> DEFINE c == Cardinality(S)
  <2>1. c \in Nat
    BY <1>1
  <2> HIDE DEF c
  <2>2. Cardinality(1..c) = IF 1 > c THEN 0 ELSE c - 1 + 1
    BY <2>1, FS_Interval
  <2>3. Cardinality(1..c) = c
    BY <2>1, <2>2
  <2> QED
    BY <2>3 DEF c
<1>6. s \in Surjection(1..Cardinality(S), S)
  BY <1>1, <1>4, <1>5, FS_Injection
<1>7. ToSet(s) = S
  BY <1>2, <1>6 DEF Surjection, ToSet
<1> QED
  BY <1>1, <1>2, <1>3, <1>7 DEF s

\* The first of an ascending sequence is less than the others.
LEMMA AscendingHead ==
    ASSUME NEW n \in Nat, NEW s \in Seq(1..n), s # <<>>, Ascending(s)
    PROVE  /\ s[1] \in ToSet(s) /\ Head(s) = s[1] /\ 1 \in DOMAIN s
           /\ \A x \in ToSet(s) : s[1] <= x
           /\ \A j \in 2..Len(s) : s[1] < s[j]
<1>1. DOMAIN s = 1..Len(s) /\ Len(s) \in Nat /\ Len(s) # 0 /\ Head(s) = s[1]
  BY EmptySeq
<1>2. 1 \in DOMAIN s
  BY <1>1
<1>3. \A j \in 2..Len(s) : s[1] < s[j]
  <2> TAKE j \in 2..Len(s)
  <2>1. j \in DOMAIN s /\ 1 < j
    BY <1>1
  <2> QED
    BY <1>2, <2>1 DEF Ascending
<1>4. \A x \in ToSet(s) : s[1] <= x
  <2>1. SUFFICES ASSUME NEW j \in DOMAIN s PROVE s[1] <= s[j]
    BY DEF ToSet
  <2>2. s[1] \in Nat /\ s[j] \in Nat
    BY <1>1, <1>2, ElementOfSeq
  <2>3. CASE j = 1
    BY <2>2, <2>3
  <2>4. CASE j # 1
    <3>1. j \in 2..Len(s)
      BY <1>1, <2>4
    <3> QED
      BY <1>3, <2>2, <3>1
  <2> QED
    BY <2>3, <2>4
<1> QED
  BY <1>1, <1>2, <1>3, <1>4 DEF ToSet

-----------------------------------------------------------------------------
(* Lemmas about the grouping of numbers that the merger and the repair do.  *)

\* gs are the members of S in ascending groups, and a group with the first
\* of the next one is in Far.
Grouped(gs, S, Far) ==
    /\ \A a \in DOMAIN gs : gs[a] # <<>> /\ Ascending(gs[a]) /\ ToSet(gs[a]) \subseteq S
    /\ \A x \in S : \E a \in DOMAIN gs : x \in ToSet(gs[a])
    /\ \A a, b \in DOMAIN gs : a < b => \A x \in ToSet(gs[a]), y \in ToSet(gs[b]) : x < y
    /\ \A a, b \in DOMAIN gs : b = a + 1 => <<gs[a], gs[b][1]>> \in Far

\* A number more at the end of a sequence.
LEMMA Appended ==
    ASSUME NEW T, NEW s \in Seq(T), NEW x \in T
    PROVE  /\ Append(s, x) \in Seq(T) /\ Append(s, x) # <<>> /\ Len(Append(s, x)) = Len(s) + 1
           /\ DOMAIN Append(s, x) = 1..(Len(s) + 1) /\ DOMAIN s = 1..Len(s) /\ Len(s) \in Nat
           /\ \A i \in DOMAIN s : Append(s, x)[i] = s[i]
           /\ Append(s, x)[Len(s) + 1] = x
           /\ ToSet(Append(s, x)) = ToSet(s) \cup {x}
<1> DEFINE t == Append(s, x)
<1>1. /\ t \in Seq(T) /\ Len(t) = Len(s) + 1 /\ Len(s) \in Nat
      /\ DOMAIN t = 1..(Len(s) + 1) /\ DOMAIN s = 1..Len(s)
      /\ \A i \in DOMAIN s : t[i] = s[i]
      /\ t[Len(s) + 1] = x
  OBVIOUS
<1> HIDE DEF t
<1>2. t # <<>>
  BY <1>1, EmptySeq
<1>3. ToSet(t) = ToSet(s) \cup {x}
  <2>1. \A i \in DOMAIN t : i \in DOMAIN s \/ i = Len(s) + 1
    BY <1>1
  <2>2. Len(s) + 1 \in DOMAIN t /\ DOMAIN s \subseteq DOMAIN t
    BY <1>1
  <2> QED
    BY <1>1, <2>1, <2>2, Zenon DEF ToSet
<1> QED
  BY <1>1, <1>2, <1>3 DEF t

\* ... which is more than the others leaves it ascending.
LEMMA AppendAscending ==
    ASSUME NEW n \in Nat, NEW s \in Seq(1..n), NEW x \in 1..n, Ascending(s), \A y \in ToSet(s) : y < x
    PROVE  Ascending(Append(s, x))
<1> DEFINE t == Append(s, x)
<1>1. /\ DOMAIN t = 1..(Len(s) + 1) /\ DOMAIN s = 1..Len(s) /\ Len(s) \in Nat
      /\ \A i \in DOMAIN s : t[i] = s[i]
      /\ t[Len(s) + 1] = x
  BY Appended
<1> HIDE DEF t
<1>2. SUFFICES ASSUME NEW i \in DOMAIN t, NEW j \in DOMAIN t, i < j PROVE t[i] < t[j]
  BY DEF Ascending, t
<1>3. i \in DOMAIN s /\ t[i] = s[i] /\ s[i] \in ToSet(s)
  BY <1>1, <1>2 DEF ToSet
<1>4. CASE j = Len(s) + 1
  BY <1>1, <1>3, <1>4
<1>5. CASE j # Len(s) + 1
  <2>1. j \in DOMAIN s /\ t[j] = s[j]
    BY <1>1, <1>2, <1>5
  <2> QED
    BY <1>2, <1>3, <2>1 DEF Ascending
<1> QED
  BY <1>4, <1>5

\* A number above the others in a group of its own.
LEMMA ApartGrouped ==
    ASSUME NEW n \in Nat, NEW S \in SUBSET (1..n), NEW x \in 1..n, \A y \in S : y < x,
           NEW gs \in Seq(Seq(1..n)), NEW Far, Grouped(gs, S, Far),
           gs # <<>> => <<gs[Len(gs)], x>> \in Far
    PROVE  Apart(gs, x) \in Seq(Seq(1..n)) /\ Grouped(Apart(gs, x), S \cup {x}, Far)
<1> DEFINE hs == Append(gs, <<x>>)
           L == Len(gs)
           g == <<x>>
<1>0. g \in Seq(1..n) /\ g # <<>> /\ Ascending(g) /\ ToSet(g) = {x} /\ g[1] = x
  BY DEF Ascending, ToSet
<1>1. /\ hs \in Seq(Seq(1..n)) /\ hs # <<>>
      /\ DOMAIN hs = 1..(L + 1) /\ DOMAIN gs = 1..L /\ L \in Nat
      /\ \A i \in DOMAIN gs : hs[i] = gs[i]
      /\ hs[L + 1] = g
  <2> DEFINE T == Seq(1..n)
  <2>1. gs \in Seq(T) /\ g \in T
    BY <1>0
  <2> HIDE DEF T, g
  <2>2. hs = Append(gs, g)
    BY DEF g
  <2> HIDE DEF hs, L
  <2>3. hs \in Seq(T) /\ hs # <<>>
    BY <2>1, <2>2, Appended
  <2>4. /\ DOMAIN hs = 1..(Len(gs) + 1) /\ DOMAIN gs = 1..Len(gs) /\ Len(gs) \in Nat
        /\ \A i \in DOMAIN gs : hs[i] = gs[i]
        /\ hs[Len(gs) + 1] = g
    BY <2>1, <2>2, Appended
  <2> QED
    BY <2>3, <2>4 DEF T, L
<1>2. \A i \in DOMAIN hs : i \in DOMAIN gs \/ i = L + 1
  BY <1>1
<1> HIDE DEF g, hs
<1>3. \A a \in DOMAIN hs : hs[a] # <<>> /\ Ascending(hs[a]) /\ ToSet(hs[a]) \subseteq S \cup {x}
  BY <1>0, <1>1, <1>2 DEF Grouped
<1>4. \A y \in S \cup {x} : \E a \in DOMAIN hs : y \in ToSet(hs[a])
  <2>1. L + 1 \in DOMAIN hs /\ x \in ToSet(hs[L + 1])
    BY <1>0, <1>1
  <2>2. ASSUME NEW y \in S PROVE \E a \in DOMAIN hs : y \in ToSet(hs[a])
    <3>1. PICK a \in DOMAIN gs : y \in ToSet(gs[a])
      BY DEF Grouped
    <3>2. a \in DOMAIN hs /\ hs[a] = gs[a]
      BY <1>1
    <3> QED
      BY <3>1, <3>2
  <2> QED
    BY <2>1, <2>2
<1>5. ASSUME NEW a \in DOMAIN hs, NEW b \in DOMAIN hs, a < b, NEW y \in ToSet(hs[a]), NEW z \in ToSet(hs[b]) PROVE y < z
  <2>1. a \in DOMAIN gs /\ hs[a] = gs[a] /\ y \in S
    BY <1>1, <1>5 DEF Grouped
  <2>2. CASE b = L + 1
    BY <1>0, <1>1, <1>5, <2>1, <2>2
  <2>3. CASE b # L + 1
    <3>1. b \in DOMAIN gs /\ hs[b] = gs[b]
      BY <1>1, <1>2, <2>3
    <3> QED
      BY <1>5, <2>1, <3>1 DEF Grouped
  <2> QED
    BY <2>2, <2>3
<1>6. ASSUME NEW a \in DOMAIN hs, NEW b \in DOMAIN hs, b = a + 1 PROVE <<hs[a], hs[b][1]>> \in Far
  <2>1. a \in DOMAIN gs /\ hs[a] = gs[a]
    BY <1>1, <1>6
  <2>2. CASE b = L + 1
    <3>1. a = L /\ gs # <<>> /\ hs[b][1] = x
      BY <1>0, <1>1, <1>6, <2>1, <2>2
    <3> QED
      BY <2>1, <3>1
  <2>3. CASE b # L + 1
    <3>1. b \in DOMAIN gs /\ hs[b] = gs[b]
      BY <1>1, <1>2, <2>3
    <3> QED
      BY <1>6, <2>1, <3>1 DEF Grouped
  <2> QED
    BY <2>2, <2>3
<1>7. Grouped(hs, S \cup {x}, Far)
  BY <1>3, <1>4, <1>5, <1>6 DEF Grouped
<1> QED
  BY <1>1, <1>7 DEF Apart, hs, g

\* A number above the others at the end of the last group.
LEMMA JoinedGrouped ==
    ASSUME NEW n \in Nat, NEW S \in SUBSET (1..n), NEW x \in 1..n, \A y \in S : y < x,
           NEW gs \in Seq(Seq(1..n)), NEW Far, Grouped(gs, S, Far), gs # <<>>
    PROVE  Joined(gs, x) \in Seq(Seq(1..n)) /\ Grouped(Joined(gs, x), S \cup {x}, Far)
<1> DEFINE L == Len(gs)
           g == gs[L]
           h == Append(g, x)
           hs == [gs EXCEPT ![L] = h]
<1>0. /\ L \in Nat /\ L # 0 /\ L \in 1..L /\ DOMAIN gs = 1..L
      /\ g \in Seq(1..n) /\ g # <<>> /\ Ascending(g) /\ ToSet(g) \subseteq S
  <2>1. L \in Nat /\ L # 0 /\ L \in 1..L /\ DOMAIN gs = 1..L
    BY EmptySeq
  <2>2. g \in Seq(1..n)
    BY <2>1, ElementOfSeq
  <2> QED
    BY <2>1, <2>2 DEF Grouped
<1>1. /\ h \in Seq(1..n) /\ h # <<>> /\ ToSet(h) = ToSet(g) \cup {x}
  <2> HIDE DEF g
  <2>1. g \in Seq(1..n) /\ h = Append(g, x)
    BY <1>0
  <2> DEFINE T == 1..n
  <2>x. x \in T /\ g \in Seq(T)
    BY <2>1
  <2> HIDE DEF h, hs, L, T
  <2>2. h \in Seq(T)
    BY <2>1, <2>x, Appended
  <2>y. h # <<>>
    BY <2>1, <2>x, Appended
  <2>3. ToSet(h) = ToSet(g) \cup {x}
    BY <2>1, <2>x, Appended
  <2> QED
    BY <2>2, <2>3, <2>y DEF T
<1>2. Ascending(h)
  BY <1>0, AppendAscending
<1>3. h[1] = g[1]
  <2>1. 1 \in DOMAIN g
    BY <1>0, EmptySeq
  <2> QED
    BY <1>0, <2>1, Appended
<1>4. hs \in Seq(Seq(1..n)) /\ DOMAIN hs = DOMAIN gs /\ hs[L] = h /\ \A i \in DOMAIN gs : i # L => hs[i] = gs[i]
  BY <1>0, <1>1, ExceptSeq
<1> HIDE DEF g, h, hs
<1>5. \A a \in DOMAIN hs : hs[a] # <<>> /\ Ascending(hs[a]) /\ ToSet(hs[a]) \subseteq S \cup {x}
  BY <1>0, <1>1, <1>2, <1>4 DEF Grouped
<1>6. \A y \in S \cup {x} : \E a \in DOMAIN hs : y \in ToSet(hs[a])
  <2>1. L \in DOMAIN hs /\ x \in ToSet(hs[L]) /\ ToSet(g) \subseteq ToSet(hs[L])
    BY <1>0, <1>1, <1>4
  <2>2. ASSUME NEW y \in S PROVE \E a \in DOMAIN hs : y \in ToSet(hs[a])
    <3>1. PICK a \in DOMAIN gs : y \in ToSet(gs[a])
      BY DEF Grouped
    <3>2. CASE a = L
      BY <2>1, <3>1, <3>2 DEF g
    <3>3. CASE a # L
      BY <1>4, <3>1, <3>3
    <3> QED
      BY <3>2, <3>3
  <2> QED
    BY <2>1, <2>2
<1>7. ASSUME NEW a \in DOMAIN hs, NEW b \in DOMAIN hs, a < b, NEW y \in ToSet(hs[a]), NEW z \in ToSet(hs[b]) PROVE y < z
  <2>1. a # L /\ hs[a] = gs[a] /\ y \in ToSet(gs[a]) /\ y \in S
    BY <1>0, <1>4, <1>7 DEF Grouped
  <2>2. CASE b = L /\ z = x
    BY <2>1, <2>2
  <2>3. CASE b = L /\ z # x
    <3>1. z \in ToSet(gs[L])
      BY <1>1, <1>4, <1>7, <2>3 DEF g
    <3> QED
      BY <1>0, <1>4, <1>7, <2>1, <2>3, <3>1 DEF Grouped
  <2>4. CASE b # L
    BY <1>4, <1>7, <2>1, <2>4 DEF Grouped
  <2> QED
    BY <2>2, <2>3, <2>4
<1>8. ASSUME NEW a \in DOMAIN hs, NEW b \in DOMAIN hs, b = a + 1 PROVE <<hs[a], hs[b][1]>> \in Far
  <2>1. a # L /\ hs[a] = gs[a]
    BY <1>0, <1>4, <1>8
  <2>2. hs[b][1] = gs[b][1]
    BY <1>3, <1>4 DEF g
  <2> QED
    BY <1>4, <1>8, <2>1, <2>2 DEF Grouped
<1>9. Grouped(hs, S \cup {x}, Far)
  BY <1>5, <1>6, <1>7, <1>8 DEF Grouped
<1> QED
  BY <1>4, <1>9 DEF Joined, hs, h, g

-----------------------------------------------------------------------------
(* Lemmas about the loops.                                                 *)

\* A is a run of n turns of a loop over the values in V.
IsRun(A, n, V, e, F) == A \in [0..n -> V] /\ A[0] = e /\ \A i \in 1..n : A[i] = F[<<i, A[i - 1]>>]

\* A loop has a run.
LEMMA RunExists ==
    ASSUME NEW n \in Nat, NEW V, NEW e \in V, NEW F \in [(1..n) \X V -> V]
    PROVE  \E A : IsRun(A, n, V, e, F)
<1> DEFINE Run(g, m) == IsRun(g, m, V, e, F)
           Good == {m \in 0..n : \E g : Run(g, m)}
<1>1. 0 \in Good
  <2>1. Run([i \in 0..0 |-> e], 0) /\ 0 \in 0..n
    BY DEF IsRun
  <2> HIDE DEF Run
  <2> QED
    BY <2>1
<1>2. ASSUME NEW m \in 1..n, m - 1 \in Good PROVE m \in Good
  <2>1. PICK g : Run(g, m - 1)
    BY <1>2
  <2>2. g \in [0..(m - 1) -> V] /\ g[0] = e /\ (\A i \in 1..(m - 1) : g[i] = F[<<i, g[i - 1]>>]) /\ m - 1 \in 0..(m - 1) /\ m \in 0..n /\ m \in Nat
    BY <2>1 DEF IsRun
  <2> DEFINE last == F[<<m, g[m - 1]>>]
             h == [i \in 0..m |-> IF i < m THEN g[i] ELSE last]
  <2>3. last \in V
    BY <2>2
  <2> HIDE DEF last
  <2>4. h \in [0..m -> V]
    <3> SUFFICES ASSUME NEW i \in 0..m PROVE (IF i < m THEN g[i] ELSE last) \in V
      OBVIOUS
    <3>1. CASE i < m
      <4>1. i \in 0..(m - 1)
        BY <2>2, <3>1
      <4> QED
        BY <2>2, <3>1, <4>1
    <3> QED
      BY <2>3, <3>1
  <2>5. h[0] = e
    BY <2>2
  <2>6. ASSUME NEW i \in 1..m PROVE h[i] = F[<<i, h[i - 1]>>]
    <3>1. h[i - 1] = g[i - 1] /\ i \in 0..m
      BY <2>2
    <3>2. CASE i = m
      <4>1. h[i] = last
        BY <3>1, <3>2
      <4> QED
        BY <3>1, <3>2, <4>1 DEF last
    <3>3. CASE i # m
      <4>1. i \in 1..(m - 1) /\ i < m
        BY <2>2, <3>3
      <4>2. h[i] = g[i]
        BY <3>1, <4>1
      <4>3. g[i] = F[<<i, g[i - 1]>>]
        BY <2>2, <4>1
      <4> QED
        BY <3>1, <4>2, <4>3
    <3> QED
      BY <3>2, <3>3
  <2>7. Run(h, m)
    BY <2>4, <2>5, <2>6 DEF IsRun
  <2> HIDE DEF h, Run
  <2> QED
    BY <2>2, <2>7
<1>3. n \in Good
  <2> HIDE DEF Good
  <2>1. 0..n \subseteq Good
    BY <1>1, <1>2, UpTo
  <2> QED
    BY <2>1
<1> QED
  BY <1>3

\* What the loop over an ascending sequence of numbers makes of them.
LEMMA GroupsOf ==
    ASSUME NEW n \in Nat, NEW xs \in Seq(1..n), Ascending(xs), NEW Far,
           NEW A \in [0..Len(xs) -> Seq(Seq(1..n))], A[0] = <<>>,
           \A i \in 1..Len(xs) :
             \/ A[i - 1] # <<>> /\ A[i] = Joined(A[i - 1], xs[i])
             \/ (A[i - 1] # <<>> => <<A[i - 1][Len(A[i - 1])], xs[i]>> \in Far) /\ A[i] = Apart(A[i - 1], xs[i])
    PROVE  Grouped(A[Len(xs)], ToSet(xs), Far)
<1> DEFINE First(i) == {xs[j] : j \in 1..i}
           Good == {i \in 0..Len(xs) : Grouped(A[i], First(i), Far)}
<1>0. Len(xs) \in Nat /\ DOMAIN xs = 1..Len(xs)
  OBVIOUS
<1>1. 0 \in Good
  <2>1. First(0) = {}
    OBVIOUS
  <2>2. Grouped(<<>>, {}, Far)
    BY DEF Grouped
  <2> HIDE DEF First
  <2>3. Grouped(A[0], First(0), Far)
    BY <2>1, <2>2
  <2>4. 0 \in 0..Len(xs)
    BY <1>0
  <2> QED
    BY <2>3, <2>4
<1>2. ASSUME NEW i \in 1..Len(xs), i - 1 \in Good PROVE i \in Good
  <2>1. Grouped(A[i - 1], First(i - 1), Far) /\ i - 1 \in 0..Len(xs) /\ i \in 0..Len(xs)
    BY <1>2
  <2>2. PICK gs \in Seq(Seq(1..n)) : gs = A[i - 1]
    BY <2>1
  <2>3. PICK x \in 1..n : x = xs[i]
    BY <1>0, ElementOfSeq
  <2>4. First(i) = First(i - 1) \cup {x}
    <3>1. 1..i = (1..(i - 1)) \cup {i}
      BY <1>0
    <3> QED
      BY <2>3, <3>1
  <2>5. First(i - 1) \in SUBSET (1..n)
    <3>1. 1..(i - 1) \subseteq 1..Len(xs)
      BY <1>0
    <3> QED
      BY <3>1, ElementOfSeq
  <2>6. \A y \in First(i - 1) : y < x
    <3> SUFFICES ASSUME NEW j \in 1..(i - 1) PROVE xs[j] < x
      OBVIOUS
    <3>1. j \in DOMAIN xs /\ i \in DOMAIN xs /\ j < i
      BY <1>0
    <3> QED
      BY <2>3, <3>1 DEF Ascending
  <2>7. \/ gs # <<>> /\ A[i] = Joined(gs, x)
        \/ (gs # <<>> => <<gs[Len(gs)], x>> \in Far) /\ A[i] = Apart(gs, x)
    BY <2>2, <2>3
  <2> HIDE DEF First
  <2>8. Grouped(gs, First(i - 1), Far)
    BY <2>1, <2>2
  <2>9. Grouped(A[i], First(i - 1) \cup {x}, Far)
    <3>1. CASE gs # <<>> /\ A[i] = Joined(gs, x)
      BY <2>5, <2>6, <2>8, <3>1, JoinedGrouped
    <3>2. CASE (gs # <<>> => <<gs[Len(gs)], x>> \in Far) /\ A[i] = Apart(gs, x)
      BY <2>5, <2>6, <2>8, <3>2, ApartGrouped
    <3> QED
      BY <2>7, <3>1, <3>2
  <2> QED
    BY <2>1, <2>4, <2>9
<1>3. Len(xs) \in Good
  <2> HIDE DEF Good
  <2>1. 0..Len(xs) \subseteq Good
    BY <1>0, <1>1, <1>2, UpTo
  <2> QED
    BY <1>0, <2>1
<1>4. First(Len(xs)) = ToSet(xs)
  BY <1>0 DEF ToSet
<1> HIDE DEF First
<1> QED
  BY <1>3, <1>4

-----------------------------------------------------------------------------
(* The invariant.                                                          *)

Kinds    == {"repair", "gaps"}
Recorded == DOMAIN pieces
Removable == disk \ stuck
OnDisk(k) == k \in Removable /\ pieces[k].real

Times    == [start : Nat, end : Nat, real : BOOLEAN]
Videos   == [pieces : Seq(Piece), holed : BOOLEAN]
Sessions == [pieces : Seq(Piece), end : Int, busy : BOOLEAN]

MergerPcs == {"sleep", "next", "upload", "index", "enqueue", "cleanup"}
WorkerPcs == {"idle", "encode", "upload", "record", "remove"}
ToolPcs   == {"idle", "group", "stage", "journal", "publish", "drop", "hls", "row", "enqueue", "unjournal", "unstage"}

Scans == [pc : MergerPcs, groups : Seq(Sessions), kept : SUBSET Piece]
Jobs  == [pc : WorkerPcs, key : 0..NPieces, got : Seq(Piece)]
Tools == [pc : ToolPcs, kind : Kinds \cup {"-"}, groups : Seq(Seq(Piece)), dropped : Nat, failed : BOOLEAN]
Rows  == {"absent", "plain", "hls"}

\* Every variable that a guard or a property reads has its fields.
Typed ==
    /\ now \in 0..MaxTime
    /\ pieces \in Seq(Times) /\ Recorded \subseteq Piece /\ disk \subseteq Recorded
    /\ queue \subseteq Piece /\ deleted \subseteq Piece
    /\ video \in [Piece -> Videos] /\ items \in [Piece -> Rows]
    /\ merger \in Scans
    /\ worker \in Jobs
    /\ worker.pc # "idle" => worker.key \in Piece
    /\ worker.pc \in {"upload", "record"} => worker.got # <<>>
    /\ indexer \in [pc : {"idle", "listed"}, seen : SUBSET Piece]
    /\ tool \in Tools
    /\ tool.pc # "idle" => tool.kind \in Kinds
    /\ journal \in [Kinds -> [Piece -> Seq(Piece)]] /\ staged \in [Kinds -> [Piece -> Videos]]
    /\ read \in [Kinds -> [Piece -> SUBSET Piece]]

\* A piece on the disk began and ended in the past; only the last is written still.
Clocked ==
    /\ \A p \in disk : /\ pieces[p].start <= now /\ pieces[p].end <= now
                       /\ pieces[p].end = None => p = Len(pieces)
    /\ \A p \in Recorded : pieces[p].end # None => pieces[p].start < pieces[p].end

\* A video has pieces, none before the one that names it.
Shaped(v, k) == v # NoVideo => k \in Recorded /\ v.pieces # <<>> /\ \A p \in ToSet(v.pieces) : k <= p
Shapes == \A k \in Piece : Shaped(video[k], k) /\ \A kind \in Kinds : Shaped(staged[kind][k], k)

\* A piece that is on the disk still is not before any video, its own video has
\* only pieces that are on the disk too, and no repair has taken that video up;
\* unless it is one that could not be removed when its video was published.
DiskRules ==
    \A k \in Removable : pieces[k].real =>
        /\ \A x \in Piece : video[x] # NoVideo => x <= k
        /\ \A x \in Piece, kind \in Kinds : staged[kind][x] # NoVideo => x <= k
        /\ ToSet(video[k].pieces) \subseteq disk
        /\ ~ video[k].holed
        /\ \A kind \in Kinds : staged[kind][k] = NoVideo

\* The groups of a scan are those of the disk, in order: all but the last are cold.
\* What a cleanup leaves behind could not be removed.
Of(i) == ToSet(merger.groups[i].pieces)
MergerPlan ==
    /\ merger.pc \notin {"sleep", "next"} => merger.groups # <<>>
    /\ \A i \in DOMAIN merger.groups :
         /\ merger.groups[i].pieces # <<>> /\ Of(i) \subseteq Recorded
         /\ Of(i) \subseteq disk \/ (i = 1 /\ merger.pc = "cleanup")
         /\ i < Len(merger.groups) => Ready(merger.groups[i])
    /\ \A i, j \in DOMAIN merger.groups : i < j => \A p \in Of(i), q \in Of(j) : p < q
    /\ merger.kept \subseteq stuck
    /\ \A q \in Removable : (\A i \in DOMAIN merger.groups : q \notin Of(i)) =>
                          \A i \in DOMAIN merger.groups : \A p \in Of(i) : p < q
    /\ merger.pc \in {"upload", "index", "enqueue"} => \E p \in Of(1) : pieces[p].real

\* The groups of a repair tool, and what its step says of the target's journal.
Planned(g) ==
    /\ g # <<>> /\ ToSet(g) \subseteq Recorded /\ \A j \in 2..Len(g) : g[1] < g[j]
    /\ tool.kind = "gaps" => Len(g) = 1 /\ ~ OnDisk(g[1])
Published == {"drop", "hls", "row", "enqueue", "unjournal"}
ToolPlan ==
    /\ \A i \in DOMAIN tool.groups : Planned(tool.groups[i])
    /\ tool.pc \notin {"idle", "group"} => tool.groups # <<>>
    /\ tool.pc \in {"stage", "journal", "unstage"} => journal[tool.kind][Target] = NoJournal
    /\ tool.pc \in Published \cup {"publish"} => journal[tool.kind][Target] # NoJournal
    /\ tool.pc = "stage" /\ tool.kind = "repair" => Len(Plan) >= 2
    /\ tool.pc = "journal" => staged[tool.kind][Target] # NoVideo

\* A journal has its staged video, and its target is none of its sources.
Journals ==
    \A kind \in Kinds, k \in Piece : journal[kind][k] # NoJournal =>
        staged[kind][k] # NoVideo /\ k \notin ToSet(Tail(journal[kind][k]))

\* A staged video has what was read for it, and the published one what was staged.
Copies ==
    /\ \A kind \in Kinds, k \in Piece : read[kind][k] \subseteq ToSet(staged[kind][k].pieces)
    /\ tool.pc \in Published =>
         ToSet(staged[tool.kind][Target].pieces) \subseteq ToSet(video[Target].pieces) \cup deleted \cup overwritten

\* A piece that does not need the disk.
Safe(p) ==
    \/ p \in deleted \/ p \in overtaken \/ p \in overwritten
    \/ \E k \in Piece : Holds(video[k], p)
    \/ \E kind \in Kinds, k \in Piece : journal[kind][k] # NoJournal /\ Holds(staged[kind][k], p)

\* The pieces that the merger is about to delete.
Uploaded ==
    merger.pc \in {"index", "enqueue", "cleanup"} => \A p \in Of(1) : pieces[p].real => Safe(p)

Lossless == \A p \in Recorded : pieces[p].real => p \in disk \/ Safe(p)

IInv == /\ Typed /\ Clocked /\ Shapes /\ DiskRules /\ MergerPlan /\ ToolPlan
        /\ Journals /\ Copies /\ Uploaded /\ Lossless

-----------------------------------------------------------------------------
(* The groups of the merger and of the repair.                             *)

\* Joining and setting apart are of a type.
LEMMA GroupTypes ==
    ASSUME NEW n \in Nat, NEW gs \in Seq(Seq(1..n)), NEW x \in 1..n
    PROVE  /\ Apart(gs, x) \in Seq(Seq(1..n))
           /\ gs # <<>> => Joined(gs, x) \in Seq(Seq(1..n))
<1>1. Apart(gs, x) \in Seq(Seq(1..n))
  <2>1. <<x>> \in Seq(1..n)
    OBVIOUS
  <2> QED
    BY <2>1 DEF Apart
<1>2. ASSUME gs # <<>> PROVE Joined(gs, x) \in Seq(Seq(1..n))
  <2>1. Len(gs) \in 1..Len(gs)
    BY <1>2, EmptySeq
  <2>2. gs[Len(gs)] \in Seq(1..n)
    BY <2>1, ElementOfSeq
  <2>3. Append(gs[Len(gs)], x) \in Seq(1..n)
    BY <2>2
  <2> QED
    BY <2>1, <2>3, ExceptSeq DEF Joined
<1> QED
  BY <1>1, <1>2

\* A group and a piece that is too late for it.
MergeFar == {gp \in Seq(Piece) \X Piece : ~ (pieces[gp[2]].start - LastEnd(gp[1]) <= MergeGap)}

\* The sessions of the merger are the pieces in order, and a gap is between two.
LEMMA GroupSessionsSound ==
    ASSUME NEW ps \in Seq(Piece), Ascending(ps)
    PROVE  GroupSessions(ps) \in Seq(Seq(Piece)) /\ Grouped(GroupSessions(ps), ToSet(ps), MergeFar)
<1> DEFINE m == Len(ps)
           V == Seq(Seq(Piece))
           near(gs, p) == gs # <<>> /\ pieces[p].start - LastEnd(Last(gs)) <= MergeGap
           next(gs, p) == IF near(gs, p) THEN Joined(gs, p) ELSE Apart(gs, p)
           F == [iv \in (1..m) \X V |-> next(iv[2], ps[iv[1]])]
<1>1. NPieces \in Nat /\ Piece = 1..NPieces /\ m \in Nat
  BY VideoArchiveAssumption DEF Piece
<1>2. \A i \in 1..m : ps[i] \in Piece
  BY ElementOfSeq
<1>3. \A gs \in V, p \in Piece : next(gs, p) \in V
  BY <1>1, GroupTypes
<1>4. F \in [(1..m) \X V -> V] /\ <<>> \in V /\ \A i \in 1..m, v \in V : F[<<i, v>>] = next(v, ps[i])
  <2> HIDE DEF next, V
  <2>1. <<>> \in V
    BY DEF V
  <2> QED
    BY <1>2, <1>3, <2>1
<1>5. PICK A : A \in [0..m -> V] /\ A[0] = <<>> /\ \A i \in 1..m : A[i] = F[<<i, A[i - 1]>>]
  <2> HIDE DEF F, V, m
  <2>1. PICK A : IsRun(A, m, V, <<>>, F)
    BY <1>1, <1>4, RunExists
  <2> QED
    BY <2>1 DEF IsRun
<1> DEFINE Turn(i) == i \in 0..m /\ i - 1 \in 0..m
<1>t. \A i \in 1..m : Turn(i)
  BY <1>1
<1>6. \A i \in 1..m : A[i] = next(A[i - 1], ps[i])
  <2> HIDE DEF F, next, V, m
  <2> QED
    BY <1>1, <1>4, <1>5, <1>t
<1> DEFINE Run(a) == a = [i \in 0..m |-> IF i = 0 THEN <<>>
                                      ELSE IF near(a[i - 1], ps[i]) THEN Joined(a[i - 1], ps[i]) ELSE Apart(a[i - 1], ps[i])]
           B == CHOOSE a : Run(a)
<1>7. Run(A)
  <2> HIDE DEF near, V, F
  <2>1. \A i \in 0..m : A[i] = IF i = 0 THEN <<>> ELSE IF near(A[i - 1], ps[i]) THEN Joined(A[i - 1], ps[i]) ELSE Apart(A[i - 1], ps[i])
    <3> SUFFICES ASSUME NEW i \in 0..m
                 PROVE  A[i] = IF i = 0 THEN <<>> ELSE IF near(A[i - 1], ps[i]) THEN Joined(A[i - 1], ps[i]) ELSE Apart(A[i - 1], ps[i])
      OBVIOUS
    <3>1. CASE i = 0
      BY <1>5, <3>1
    <3>2. CASE i # 0
      <4>1. i \in 1..m
        BY <1>1, <3>2
      <4> HIDE DEF m
      <4>2. A[i] = next(A[i - 1], ps[i])
        BY <1>6, <4>1
      <4> QED
        BY <3>2, <4>2
    <3> QED
      BY <3>1, <3>2
  <2> QED
    BY <1>5, <2>1
<1>8. Run(B)
  <2> HIDE DEF Run
  <2> QED
    BY <1>7
<1>9. B[0] = <<>> /\ (\A i \in 1..m : B[i] = next(B[i - 1], ps[i])) /\ DOMAIN B = 0..m /\ B = [i \in 0..m |-> B[i]]
  <2> HIDE DEF near, B, V, F
  <2>1. DOMAIN B = 0..m /\ B = [i \in 0..m |-> B[i]]
    BY <1>8, Zenon
  <2>2. B[0] = <<>>
    BY <1>1, <1>8
  <2>3. ASSUME NEW i \in 1..m PROVE B[i] = next(B[i - 1], ps[i])
    <3>1. i \in 0..m /\ i # 0
      BY <1>1
    <3> HIDE DEF m
    <3> QED
      BY <1>8, <3>1
  <2> QED
    BY <2>1, <2>2, <2>3
<1>10. B \in [0..m -> V]
  <2> DEFINE Good == {i \in 0..m : B[i] \in V}
  <2> HIDE DEF B, near, next, V, F, m
  <2>1. 0 \in Good
    BY <1>1, <1>4, <1>9
  <2>2. ASSUME NEW i \in 1..m, i - 1 \in Good PROVE i \in Good
    BY <1>1, <1>2, <1>3, <1>9, <1>t, <2>2
  <2> HIDE DEF Good
  <2>3. 0..m \subseteq Good
    BY <1>1, <2>1, <2>2, UpTo
  <2> QED
    BY <1>9, <2>3 DEF Good
<1>11. \A i \in 1..m : \/ B[i - 1] # <<>> /\ B[i] = Joined(B[i - 1], ps[i])
                       \/ /\ B[i - 1] # <<>> => <<B[i - 1][Len(B[i - 1])], ps[i]>> \in MergeFar
                          /\ B[i] = Apart(B[i - 1], ps[i])
  <2> TAKE i \in 1..m
  <2> HIDE DEF B, F
  <2>1. PICK gs \in V : gs = B[i - 1]
    <3> HIDE DEF V, m
    <3> QED
      BY <1>10, <1>t
  <2>2. PICK p \in Piece : p = ps[i]
    BY <1>2
  <2>3. B[i] = next(gs, p)
    <3> HIDE DEF next
    <3> QED
      BY <1>9, <2>1, <2>2
  <2>4. CASE near(gs, p)
    BY <2>1, <2>2, <2>3, <2>4
  <2>5. CASE ~ near(gs, p)
    <3>1. ASSUME gs # <<>> PROVE <<gs[Len(gs)], p>> \in MergeFar
      <4>1. Len(gs) \in 1..Len(gs)
        BY <3>1, EmptySeq
      <4>2. gs[Len(gs)] \in Seq(Piece) /\ Last(gs) = gs[Len(gs)]
        BY <4>1, ElementOfSeq DEF Last
      <4>3. ~ (pieces[p].start - LastEnd(gs[Len(gs)]) <= MergeGap)
        BY <2>5, <3>1, <4>2
      <4> QED
        BY <4>2, <4>3 DEF MergeFar
    <3>2. B[i] = Apart(gs, p)
      BY <2>3, <2>5
    <3> QED
      BY <2>1, <2>2, <3>1, <3>2
  <2> QED
    BY <2>4, <2>5
<1>12. GroupSessions(ps) = B[Len(ps)]
  BY DEF GroupSessions
<1> HIDE DEF B
<1>13. Grouped(B[Len(ps)], ToSet(ps), MergeFar)
  BY <1>1, <1>9, <1>10, <1>11, GroupsOf
<1> QED
  BY <1>1, <1>10, <1>12, <1>13

\* The groups of a repair are the videos in order.
AnyGap == Seq(Piece) \X Piece

LEMMA GroupByGapSound ==
    ASSUME NEW ks \in Seq(Piece), Ascending(ks)
    PROVE  GroupByGap(ks) \in Seq(Seq(Piece)) /\ Grouped(GroupByGap(ks), ToSet(ks), AnyGap)
<1> DEFINE m == Len(ks)
           V == Seq(Seq(Piece))
           near(gs, p) == gs # <<>> /\ pieces[p].start - Max({VideoEnd(j) : j \in ToSet(Last(gs))}) <= RepairGap
           next(gs, p) == IF near(gs, p) THEN Joined(gs, p) ELSE Apart(gs, p)
           F == [iv \in (1..m) \X V |-> next(iv[2], ks[iv[1]])]
<1>1. NPieces \in Nat /\ Piece = 1..NPieces /\ m \in Nat
  BY VideoArchiveAssumption DEF Piece
<1>2. \A i \in 1..m : ks[i] \in Piece
  BY ElementOfSeq
<1>3. \A gs \in V, p \in Piece : next(gs, p) \in V
  BY <1>1, GroupTypes
<1>4. F \in [(1..m) \X V -> V] /\ <<>> \in V /\ \A i \in 1..m, v \in V : F[<<i, v>>] = next(v, ks[i])
  <2> HIDE DEF next, V
  <2>1. <<>> \in V
    BY DEF V
  <2> QED
    BY <1>2, <1>3, <2>1
<1>5. PICK A : A \in [0..m -> V] /\ A[0] = <<>> /\ \A i \in 1..m : A[i] = F[<<i, A[i - 1]>>]
  <2> HIDE DEF F, V, m
  <2>1. PICK A : IsRun(A, m, V, <<>>, F)
    BY <1>1, <1>4, RunExists
  <2> QED
    BY <2>1 DEF IsRun
<1> DEFINE Turn(i) == i \in 0..m /\ i - 1 \in 0..m
<1>t. \A i \in 1..m : Turn(i)
  BY <1>1
<1>6. \A i \in 1..m : A[i] = next(A[i - 1], ks[i])
  <2> HIDE DEF F, next, V, m
  <2> QED
    BY <1>1, <1>4, <1>5, <1>t
<1> DEFINE Run(a) == a = [i \in 0..m |-> IF i = 0 THEN <<>>
                                      ELSE IF near(a[i - 1], ks[i]) THEN Joined(a[i - 1], ks[i]) ELSE Apart(a[i - 1], ks[i])]
           B == CHOOSE a : Run(a)
<1>7. Run(A)
  <2> HIDE DEF near, V, F
  <2>1. \A i \in 0..m : A[i] = IF i = 0 THEN <<>> ELSE IF near(A[i - 1], ks[i]) THEN Joined(A[i - 1], ks[i]) ELSE Apart(A[i - 1], ks[i])
    <3> SUFFICES ASSUME NEW i \in 0..m
                 PROVE  A[i] = IF i = 0 THEN <<>> ELSE IF near(A[i - 1], ks[i]) THEN Joined(A[i - 1], ks[i]) ELSE Apart(A[i - 1], ks[i])
      OBVIOUS
    <3>1. CASE i = 0
      BY <1>5, <3>1
    <3>2. CASE i # 0
      <4>1. i \in 1..m
        BY <1>1, <3>2
      <4> HIDE DEF m
      <4>2. A[i] = next(A[i - 1], ks[i])
        BY <1>6, <4>1
      <4> QED
        BY <3>2, <4>2
    <3> QED
      BY <3>1, <3>2
  <2> QED
    BY <1>5, <2>1
<1>8. Run(B)
  <2> HIDE DEF Run
  <2> QED
    BY <1>7
<1>9. B[0] = <<>> /\ (\A i \in 1..m : B[i] = next(B[i - 1], ks[i])) /\ DOMAIN B = 0..m /\ B = [i \in 0..m |-> B[i]]
  <2> HIDE DEF near, B, V, F
  <2>1. DOMAIN B = 0..m /\ B = [i \in 0..m |-> B[i]]
    BY <1>8, Zenon
  <2>2. B[0] = <<>>
    BY <1>1, <1>8
  <2>3. ASSUME NEW i \in 1..m PROVE B[i] = next(B[i - 1], ks[i])
    <3>1. i \in 0..m /\ i # 0
      BY <1>1
    <3> HIDE DEF m
    <3> QED
      BY <1>8, <3>1
  <2> QED
    BY <2>1, <2>2, <2>3
<1>10. B \in [0..m -> V]
  <2> DEFINE Good == {i \in 0..m : B[i] \in V}
  <2> HIDE DEF B, near, next, V, F, m
  <2>1. 0 \in Good
    BY <1>1, <1>4, <1>9
  <2>2. ASSUME NEW i \in 1..m, i - 1 \in Good PROVE i \in Good
    BY <1>1, <1>2, <1>3, <1>9, <1>t, <2>2
  <2> HIDE DEF Good
  <2>3. 0..m \subseteq Good
    BY <1>1, <2>1, <2>2, UpTo
  <2> QED
    BY <1>9, <2>3 DEF Good
<1>11. \A i \in 1..m : \/ B[i - 1] # <<>> /\ B[i] = Joined(B[i - 1], ks[i])
                       \/ /\ B[i - 1] # <<>> => <<B[i - 1][Len(B[i - 1])], ks[i]>> \in AnyGap
                          /\ B[i] = Apart(B[i - 1], ks[i])
  <2> TAKE i \in 1..m
  <2> HIDE DEF B, F
  <2>1. PICK gs \in V : gs = B[i - 1]
    <3> HIDE DEF V, m
    <3> QED
      BY <1>10, <1>t
  <2>2. PICK p \in Piece : p = ks[i]
    BY <1>2
  <2>3. B[i] = next(gs, p)
    <3> HIDE DEF next
    <3> QED
      BY <1>9, <2>1, <2>2
  <2>4. CASE near(gs, p)
    BY <2>1, <2>2, <2>3, <2>4
  <2>5. CASE ~ near(gs, p)
    <3>1. ASSUME gs # <<>> PROVE <<gs[Len(gs)], p>> \in AnyGap
      <4>1. Len(gs) \in 1..Len(gs)
        BY <3>1, EmptySeq
      <4>2. gs[Len(gs)] \in Seq(Piece)
        BY <4>1, ElementOfSeq
      <4> QED
        BY <4>2 DEF AnyGap
    <3>2. B[i] = Apart(gs, p)
      BY <2>3, <2>5
    <3> QED
      BY <2>1, <2>2, <3>1, <3>2
  <2> QED
    BY <2>4, <2>5
<1>12. GroupByGap(ks) = B[Len(ks)]
  BY DEF GroupByGap
<1> HIDE DEF B
<1>13. Grouped(B[Len(ks)], ToSet(ks), AnyGap)
  BY <1>1, <1>9, <1>10, <1>11, GroupsOf
<1> QED
  BY <1>1, <1>10, <1>12, <1>13

\* The glued pieces are those of the videos.
LEMMA GluedSound ==
    ASSUME Typed, NEW ks \in Seq(Piece)
    PROVE  /\ Glued(ks) \in Seq(Piece)
           /\ \A p : p \in ToSet(Glued(ks)) <=> \E k \in ToSet(ks) : Holds(video[k], p)
<1> DEFINE m == Len(ks)
           V == Seq(Piece)
           next(v, k) == v \o video[k].pieces
           F == [iv \in (1..m) \X V |-> next(iv[2], ks[iv[1]])]
           Turn(i) == i \in 0..m /\ i - 1 \in 0..m
<1>1. m \in Nat /\ (\A i \in 1..m : Turn(i)) /\ DOMAIN ks = 1..m
  OBVIOUS
<1>2. \A i \in 1..m : ks[i] \in Piece
  BY ElementOfSeq
<1>3. \A v \in V, k \in Piece : next(v, k) \in V /\ ToSet(next(v, k)) = ToSet(v) \cup ToSet(video[k].pieces)
  <2> TAKE v \in V, k \in Piece
  <2>1. PICK w \in V : w = video[k].pieces
    BY DEF Typed, Videos
  <2>2. v \o w \in V /\ Len(v \o w) = Len(v) + Len(w) /\ Len(v) \in Nat /\ Len(w) \in Nat
    OBVIOUS
  <2>3. /\ DOMAIN (v \o w) = 1..(Len(v) + Len(w)) /\ DOMAIN v = 1..Len(v) /\ DOMAIN w = 1..Len(w)
        /\ \A i \in 1..Len(v) : (v \o w)[i] = v[i]
        /\ \A i \in 1..Len(w) : (v \o w)[Len(v) + i] = w[i]
    BY <2>2
  <2> DEFINE u == v \o w
             a == Len(v)
             b == Len(w)
  <2>4. ToSet(u) = ToSet(v) \cup ToSet(w)
    <3>1. /\ DOMAIN u = 1..(a + b) /\ DOMAIN v = 1..a /\ DOMAIN w = 1..b /\ a \in Nat /\ b \in Nat
          /\ \A i \in 1..a : u[i] = v[i]
          /\ \A i \in 1..b : u[a + i] = w[i]
      BY <2>2, <2>3
    <3> HIDE DEF u, a, b
    <3>2. \A i \in 1..a : i \in 1..(a + b)
      BY <3>1
    <3>3. \A i \in 1..b : a + i \in 1..(a + b)
      BY <3>1
    <3>4. \A i \in 1..(a + b) : i \in 1..a \/ \E j \in 1..b : i = a + j
      <4> TAKE i \in 1..(a + b)
      <4>1. CASE i <= a
        BY <3>1, <4>1
      <4>2. CASE i > a
        <5>1. i - a \in 1..b /\ i = a + (i - a)
          BY <3>1, <4>2
        <5> QED
          BY <5>1
      <4> QED
        BY <3>1, <4>1, <4>2
    <3>5. ASSUME NEW i \in 1..(a + b) PROVE u[i] \in ToSet(v) \cup ToSet(w)
      BY <3>1, <3>4 DEF ToSet
    <3>6. ASSUME NEW i \in 1..a PROVE v[i] \in ToSet(u)
      BY <3>1, <3>2 DEF ToSet
    <3>7. ASSUME NEW i \in 1..b PROVE w[i] \in ToSet(u)
      BY <3>1, <3>3 DEF ToSet
    <3> QED
      BY <3>1, <3>5, <3>6, <3>7 DEF ToSet
  <2> QED
    BY <2>1, <2>2, <2>4
<1>4. F \in [(1..m) \X V -> V] /\ <<>> \in V /\ \A i \in 1..m, v \in V : F[<<i, v>>] = next(v, ks[i])
  <2> HIDE DEF next, V
  <2>1. <<>> \in V
    BY DEF V
  <2> QED
    BY <1>2, <1>3, <2>1
<1>5. PICK A : A \in [0..m -> V] /\ A[0] = <<>> /\ \A i \in 1..m : A[i] = F[<<i, A[i - 1]>>]
  <2> HIDE DEF F, V, m
  <2>1. PICK A : IsRun(A, m, V, <<>>, F)
    BY <1>1, <1>4, RunExists
  <2> QED
    BY <2>1 DEF IsRun
<1>6. \A i \in 1..m : A[i] = next(A[i - 1], ks[i])
  <2> HIDE DEF F, next, V, m
  <2> QED
    BY <1>1, <1>4, <1>5
<1> DEFINE Run(a) == a = [i \in 0..m |-> IF i = 0 THEN <<>> ELSE a[i - 1] \o video[ks[i]].pieces]
           B == CHOOSE a : Run(a)
<1>7. Run(A)
  <2> HIDE DEF V, F
  <2>1. \A i \in 0..m : A[i] = IF i = 0 THEN <<>> ELSE A[i - 1] \o video[ks[i]].pieces
    <3> HIDE DEF m
    <3> QED
      BY <1>1, <1>5, <1>6
  <2> QED
    BY <1>5, <2>1
<1>8. Run(B)
  <2> HIDE DEF Run
  <2> QED
    BY <1>7
<1>9. B[0] = <<>> /\ (\A i \in 1..m : B[i] = next(B[i - 1], ks[i])) /\ DOMAIN B = 0..m /\ B = [i \in 0..m |-> B[i]]
  <2> HIDE DEF B, V, F
  <2>1. DOMAIN B = 0..m /\ B = [i \in 0..m |-> B[i]]
    BY <1>8, Zenon
  <2>2. B[0] = <<>>
    BY <1>1, <1>8
  <2>3. ASSUME NEW i \in 1..m PROVE B[i] = next(B[i - 1], ks[i])
    <3>1. i \in 0..m /\ i # 0
      BY <1>1
    <3> HIDE DEF m
    <3> QED
      BY <1>8, <3>1
  <2> QED
    BY <2>1, <2>2, <2>3
<1> DEFINE Sum(i, s) == \A p : p \in ToSet(s) <=> \E j \in 1..i : Holds(video[ks[j]], p)
           Good == {i \in 0..m : B[i] \in V /\ Sum(i, B[i])}
<1>10. m \in Good
  <2> HIDE DEF B, next, V, F, m
  <2>1. 0 \in Good
    <3>1. ToSet(<<>>) = {}
      BY DEF ToSet
    <3> QED
      BY <1>1, <1>4, <1>9, <3>1
  <2>2. ASSUME NEW i \in 1..m, i - 1 \in Good PROVE i \in Good
    <3>1. B[i - 1] \in V /\ Sum(i - 1, B[i - 1]) /\ i \in 0..m
      BY <1>1, <2>2
    <3>2. B[i] \in V /\ ToSet(B[i]) = ToSet(B[i - 1]) \cup ToSet(video[ks[i]].pieces)
      BY <1>2, <1>3, <1>9, <3>1
    <3>3. 1..i = (1..(i - 1)) \cup {i}
      BY <1>1
    <3>4. Sum(i, B[i])
      BY <3>1, <3>2, <3>3, Zenon DEF Holds
    <3> HIDE DEF Sum
    <3> QED
      BY <3>1, <3>2, <3>4
  <2> HIDE DEF Good
  <2>3. 0..m \subseteq Good
    BY <1>1, <2>1, <2>2, UpTo
  <2> QED
    BY <1>1, <2>3
<1>11. Glued(ks) = B[m]
  BY DEF Glued
<1>12. \A p : (\E j \in 1..m : Holds(video[ks[j]], p)) <=> \E k \in ToSet(ks) : Holds(video[k], p)
  BY <1>1 DEF ToSet
<1> HIDE DEF B
<1> QED
  BY <1>10, <1>11, <1>12

-----------------------------------------------------------------------------
(* What a step leaves alone.                                               *)

LEMMA SameClock == ASSUME Clocked, UNCHANGED <<now, pieces, disk>> PROVE Clocked'
<1>1. now' = now /\ pieces' = pieces /\ disk' = disk
  OBVIOUS
<1> QED
  BY <1>1 DEF Clocked, Recorded

LEMMA SameShapes == ASSUME Shapes, UNCHANGED <<pieces, video, staged>> PROVE Shapes'
<1>1. pieces' = pieces /\ video' = video /\ staged' = staged
  OBVIOUS
<1> QED
  BY <1>1 DEF Shapes, Shaped, Recorded

LEMMA SameDisk == ASSUME DiskRules, UNCHANGED <<pieces, disk, stuck, video, staged>> PROVE DiskRules'
<1>1. pieces' = pieces /\ disk' = disk /\ stuck' = stuck /\ video' = video /\ staged' = staged
  OBVIOUS
<1> QED
  BY <1>1 DEF DiskRules, Removable

LEMMA SameMerger == ASSUME MergerPlan, UNCHANGED <<now, pieces, disk, stuck, merger>> PROVE MergerPlan'
<1>1. now' = now /\ pieces' = pieces /\ disk' = disk /\ stuck' = stuck /\ merger' = merger
  OBVIOUS
<1> QED
  BY <1>1 DEF MergerPlan, Of, Ready, Recorded, Removable

LEMMA SameTool == ASSUME ToolPlan, UNCHANGED <<pieces, disk, stuck, tool, journal, staged>> PROVE ToolPlan'
<1>1. pieces' = pieces /\ disk' = disk /\ stuck' = stuck /\ tool' = tool /\ journal' = journal /\ staged' = staged
  OBVIOUS
<1> QED
  BY <1>1 DEF ToolPlan, Planned, Recorded, OnDisk, Removable, Plan, Target

LEMMA SameJournals == ASSUME Journals, UNCHANGED <<journal, staged>> PROVE Journals'
<1>1. journal' = journal /\ staged' = staged
  OBVIOUS
<1> QED
  BY <1>1 DEF Journals

LEMMA SameCopies == ASSUME Copies, UNCHANGED <<tool, staged, read, video, deleted, overwritten>> PROVE Copies'
<1>1. tool' = tool /\ staged' = staged /\ read' = read /\ video' = video /\ deleted' = deleted /\ overwritten' = overwritten
  OBVIOUS
<1> QED
  BY <1>1 DEF Copies, Target, Plan

LEMMA SameSafe ==
    ASSUME UNCHANGED <<video, journal, staged, overtaken, deleted, overwritten>>
    PROVE  \A p : Safe(p) => Safe(p)'
<1>1. /\ video' = video /\ journal' = journal /\ staged' = staged
      /\ overtaken' = overtaken /\ deleted' = deleted /\ overwritten' = overwritten
  OBVIOUS
<1> QED
  BY <1>1 DEF Safe, Holds

\* A step that keeps the safe pieces safe and leaves the disk alone loses nothing.
LEMMA SafeStaysSafe ==
    ASSUME Uploaded, Lossless, UNCHANGED <<pieces, disk, merger>>, \A p : Safe(p) => Safe(p)'
    PROVE  Uploaded' /\ Lossless'
<1>1. pieces' = pieces /\ disk' = disk /\ merger' = merger
  OBVIOUS
<1>2. Uploaded'
  BY <1>1 DEF Uploaded, Of
<1>3. Lossless'
  BY <1>1 DEF Lossless, Recorded
<1> QED
  BY <1>2, <1>3

\* A step of a worker, a cron run or the administrator that moves no video.
LEMMA Elsewhere ==
    ASSUME IInv, Typed', UNCHANGED <<world, disk, video, merger, tool, journal, copies, overtaken, deleted>>
    PROVE  IInv'
<1>1. /\ now' = now /\ pieces' = pieces /\ disk' = disk /\ video' = video /\ merger' = merger /\ tool' = tool
      /\ journal' = journal /\ staged' = staged /\ read' = read /\ overtaken' = overtaken /\ deleted' = deleted
      /\ stuck' = stuck /\ overwritten' = overwritten
  BY DEF world, history, copies
<1>2. Clocked' /\ Shapes' /\ DiskRules' /\ MergerPlan' /\ ToolPlan' /\ Journals' /\ Copies'
  BY <1>1, SameClock, SameShapes, SameDisk, SameMerger, SameTool, SameJournals, SameCopies DEF IInv
<1>3. Uploaded' /\ Lossless'
  BY <1>1, SameSafe, SafeStaysSafe DEF IInv
<1> QED
  BY <1>2, <1>3 DEF IInv

-----------------------------------------------------------------------------
(* The records of the programs.                                            *)

LEMMA JobPc ==
    ASSUME NEW w \in Jobs, NEW pc \in WorkerPcs
    PROVE  /\ [w EXCEPT !.pc = pc] \in Jobs /\ [w EXCEPT !.pc = pc].pc = pc
           /\ [w EXCEPT !.pc = pc].key = w.key /\ [w EXCEPT !.pc = pc].got = w.got
BY DEF Jobs

LEMMA ScanPc ==
    ASSUME NEW m \in Scans, NEW pc \in MergerPcs
    PROVE  /\ [m EXCEPT !.pc = pc] \in Scans /\ [m EXCEPT !.pc = pc].pc = pc
           /\ [m EXCEPT !.pc = pc].groups = m.groups /\ [m EXCEPT !.pc = pc].kept = m.kept
BY DEF Scans

LEMMA ToolPc ==
    ASSUME NEW t \in Tools, NEW pc \in ToolPcs
    PROVE  LET u == [t EXCEPT !.pc = pc, !.dropped = 0]
           IN u \in Tools /\ u.pc = pc /\ u.kind = t.kind /\ u.groups = t.groups
<1> DEFINE u == [t EXCEPT !.pc = pc, !.dropped = 0]
<1>1. u \in Tools
  BY DEF Tools
<1>2. u.pc = pc /\ u.kind = t.kind /\ u.groups = t.groups
  BY DEF Tools
<1> QED
  BY <1>1, <1>2

-----------------------------------------------------------------------------
(* The worker, the indexer and the requests.                               *)

LEMMA WorkerStep == ASSUME IInv, Worker \/ WorkerFails PROVE IInv'
<1> USE DEF world, history, store, services, repair, copies
<1>0. Typed
  BY DEF IInv
<1>1. UNCHANGED <<world, disk, video, merger, tool, journal, copies, overtaken, deleted, indexer>>
  <2>1. ASSUME Worker PROVE UNCHANGED <<world, disk, video, merger, tool, journal, copies, overtaken, deleted, indexer>>
    BY <2>1 DEF Worker, WorkerTake, WorkerEncode, WorkerGivesUp, WorkerUpload, WorkerRecord, WorkerRemove
  <2>2. ASSUME WorkerFails PROVE UNCHANGED <<world, disk, video, merger, tool, journal, copies, overtaken, deleted, indexer>>
    BY <2>2 DEF WorkerFails
  <2> QED
    BY <2>1, <2>2
<1> DEFINE Works(w) == /\ w \in Jobs
                       /\ w.pc # "idle" => w.key \in Piece
                       /\ w.pc \in {"upload", "record"} => w.got # <<>>
<1>w. Works(worker)
  BY <1>0 DEF Typed
<1>k. worker.pc # "idle" => worker.key \in Piece
  BY <1>0 DEF Typed
<1>g. worker.pc \in {"upload", "record"} => worker.got # <<>>
  BY <1>0 DEF Typed
<1>2. Works(worker) /\ queue \subseteq Piece /\ items \in [Piece -> Rows] /\ <<>> \in Seq(Piece) /\ NPieces \in Nat /\ Piece = 1..NPieces
  BY <1>0, VideoArchiveAssumption DEF Typed, Piece
<1>3. Works(NoWork)
  BY <1>2 DEF NoWork, WorkerPcs, None, Jobs
<1>4. Works(worker') /\ queue' \subseteq Piece /\ items' \in [Piece -> Rows]
  <2>1. ASSUME WorkerTake PROVE Works(worker') /\ queue' = queue /\ items' = items
    <3>1. Min(queue) \in Piece
      <4>1. queue \in SUBSET Nat /\ queue # {}
        BY <1>2, <2>1 DEF WorkerTake
      <4>2. PICK k \in queue : \A y \in queue : k <= y
        BY <4>1, LeastOfNaturals
      <4>3. Min(queue) \in queue
        BY <4>2 DEF Min
      <4> QED
        BY <1>2, <4>3
    <3>2. PICK k \in Piece : k = Min(queue)
      BY <3>1
    <3>3. worker' = [pc |-> "remove", key |-> k, got |-> <<>>] \/ worker' = [pc |-> "encode", key |-> k, got |-> <<>>]
      BY <2>1, <3>2, Zenon DEF WorkerTake
    <3>4. k \in 0..NPieces
      BY <1>2
    <3> QED
      BY <1>2, <2>1, <3>3, <3>4 DEF WorkerTake, WorkerPcs, Jobs
  <2>2. ASSUME WorkerEncode PROVE Works(worker') /\ queue' = queue /\ items' = items
    <3>1. worker.key \in Piece
      <4>1. worker.pc = "encode"
        BY <2>2 DEF WorkerEncode
      <4> QED
        BY <1>k, <4>1
    <3>2. PICK g \in Seq(Piece) : g = video[worker.key].pieces
      BY <1>0, <3>1 DEF Typed, Videos
    <3>3. g # <<>>
      BY <2>2, <3>1, <3>2 DEF IInv, Shapes, Shaped, WorkerEncode
    <3>4. worker' = [pc |-> "upload", key |-> worker.key, got |-> g] /\ queue' = queue /\ items' = items
      BY <2>2, <3>2 DEF WorkerEncode
    <3>5. worker.key \in 0..NPieces
      BY <1>2, <3>1
    <3> QED
      BY <3>1, <3>2, <3>3, <3>4, <3>5 DEF WorkerPcs, Jobs
  <2>3. ASSUME WorkerGivesUp \/ WorkerFails PROVE Works(worker') /\ queue' = queue /\ items' = items
    <3>1. worker' = NoWork /\ queue' = queue /\ items' = items
      BY <2>3 DEF WorkerGivesUp, WorkerFails
    <3> HIDE DEF Works
    <3> QED
      BY <1>3, <3>1
  <2>4. ASSUME WorkerUpload PROVE Works(worker') /\ queue' = queue /\ items' = items
    <3>1. /\ worker.pc = "upload" /\ worker' = [worker EXCEPT !.pc = "record"]
          /\ queue' = queue /\ items' = items
      BY <2>4 DEF WorkerUpload
    <3>2. worker' \in Jobs /\ worker'.pc = "record" /\ worker'.key = worker.key /\ worker'.got = worker.got
      <4>1. "record" \in WorkerPcs /\ worker \in Jobs
        BY <1>w DEF WorkerPcs
      <4> QED
        BY <3>1, <4>1, JobPc, Zenon
    <3>3. worker.key \in Piece /\ worker.got # <<>>
      BY <1>k, <1>g, <3>1
    <3> QED
      BY <3>1, <3>2, <3>3
  <2>5. ASSUME WorkerRecord PROVE Works(worker') /\ queue' = queue /\ items' \in [Piece -> Rows]
    <3>1. /\ worker.pc = "record" /\ worker' = [worker EXCEPT !.pc = "remove"] /\ queue' = queue
          /\ items' = [items EXCEPT ![worker.key] = IF @ = "absent" THEN @ ELSE "hls"]
      BY <2>5 DEF WorkerRecord
    <3>2. worker' \in Jobs /\ worker'.pc = "remove" /\ worker'.key = worker.key
      <4>1. "remove" \in WorkerPcs /\ worker \in Jobs
        BY <1>w DEF WorkerPcs
      <4> QED
        BY <3>1, <4>1, JobPc, Zenon
    <3>3. worker.key \in Piece
      BY <1>k, <3>1
    <3>4. items' \in [Piece -> Rows]
      BY <1>2, <3>1, <3>3 DEF Rows
    <3> QED
      BY <3>1, <3>2, <3>3, <3>4
  <2>6. ASSUME WorkerRemove PROVE Works(worker') /\ queue' \subseteq Piece /\ items' = items
    <3>1. worker' = NoWork /\ queue' \subseteq queue /\ items' = items
      BY <2>6 DEF WorkerRemove
    <3> HIDE DEF Works
    <3> QED
      BY <1>2, <1>3, <3>1
  <2> HIDE DEF Works
  <2> QED
    BY <1>2, <2>1, <2>2, <2>3, <2>4, <2>5, <2>6 DEF Worker
<1>5. Typed'
  <2>0. Works(worker)' /\ queue' \subseteq Piece /\ items' \in [Piece -> Rows]
    BY <1>4
  <2>1. now' = now /\ pieces' = pieces /\ disk' = disk /\ video' = video /\ merger' = merger /\ tool' = tool
    BY <1>1
  <2>2. journal' = journal /\ staged' = staged /\ read' = read /\ deleted' = deleted /\ indexer' = indexer
    BY <1>1
  <2> QED
    BY <1>0, <2>0, <2>1, <2>2, Zenon DEF Typed, Recorded
<1> QED
  BY <1>1, <1>5, Elsewhere

\* indexer.main keeps every row it finds and adds those of the listing.
LEMMA IndexedType ==
    ASSUME NEW rows \in [Piece -> Rows], NEW keys
    PROVE  Indexed(rows, keys) \in [Piece -> Rows]
BY DEF Indexed, Rows

LEMMA IndexerStep ==
    ASSUME IInv, IndexerLists \/ IndexerWrites \/ \E k \in Piece : EnqueueHls(k)
    PROVE  IInv'
<1> USE DEF world, history, store, services, repair, copies
<1>0. Typed
  BY DEF IInv
<1>1. UNCHANGED <<world, disk, video, merger, tool, journal, copies, overtaken, deleted, worker>>
  BY DEF IndexerLists, IndexerWrites, EnqueueHls
<1>2. /\ indexer' \in [pc : {"idle", "listed"}, seen : SUBSET Piece]
      /\ queue' \subseteq Piece /\ items' \in [Piece -> Rows]
  <2>1. ASSUME IndexerLists PROVE <1>2
    BY <1>0, <2>1 DEF IndexerLists, Listed, Typed
  <2>2. ASSUME IndexerWrites PROVE <1>2
    BY <1>0, <2>2, IndexedType DEF IndexerWrites, Typed
  <2>3. ASSUME NEW k \in Piece, EnqueueHls(k) PROVE <1>2
    BY <1>0, <2>3 DEF EnqueueHls, Typed
  <2> QED
    BY <2>1, <2>2, <2>3
<1>3. Typed'
  BY <1>0, <1>1, <1>2 DEF Typed, Recorded
<1> QED
  BY <1>1, <1>3, Elsewhere

-----------------------------------------------------------------------------
(* The recorder.                                                           *)

LEMMA PieceNumbers ==
    ASSUME Typed
    PROVE  /\ Recorded = 1..Len(pieces) /\ Len(pieces) \in Nat /\ NPieces \in Nat /\ Piece = 1..NPieces
           /\ \A p \in Recorded : pieces[p] \in Times
<1>1. pieces \in Seq(Times)
  BY DEF Typed
<1>2. NPieces \in Nat
  BY VideoArchiveAssumption
<1> QED
  BY <1>1, <1>2, ElementOfSeq DEF Recorded, Piece

LEMMA ScanGroups ==
    ASSUME Typed
    PROVE  /\ merger.groups \in Seq(Sessions) /\ DOMAIN merger.groups = 1..Len(merger.groups) /\ Len(merger.groups) \in Nat
           /\ \A i \in DOMAIN merger.groups : merger.groups[i] \in Sessions
<1>1. merger.groups \in Seq(Sessions)
  BY DEF Typed, Scans
<1> QED
  BY <1>1, ElementOfSeq

LEMMA ToolGroups ==
    ASSUME Typed
    PROVE  /\ tool.groups \in Seq(Seq(Piece)) /\ DOMAIN tool.groups = 1..Len(tool.groups) /\ Len(tool.groups) \in Nat
           /\ \A i \in DOMAIN tool.groups : tool.groups[i] \in Seq(Piece)
<1>1. tool.groups \in Seq(Seq(Piece))
  BY DEF Typed, Tools
<1> QED
  BY <1>1, ElementOfSeq

\* Of the pieces only the end of one changes, or the time.
LEMMA TimePasses ==
    ASSUME IInv, Typed', Clocked', now' >= now, Recorded' = Recorded, \A p \in Recorded : pieces'[p].real = pieces[p].real,
           UNCHANGED <<disk, stuck, overwritten, video, merger, tool, journal, copies, overtaken, deleted>>
    PROVE  IInv'
<1>1. /\ disk' = disk /\ video' = video /\ merger' = merger /\ tool' = tool /\ journal' = journal
      /\ staged' = staged /\ read' = read /\ overtaken' = overtaken /\ deleted' = deleted
      /\ stuck' = stuck /\ overwritten' = overwritten /\ Removable' = Removable
  BY DEF copies, Removable
<1>2. disk \subseteq Recorded /\ Removable \subseteq Recorded /\ now \in Int /\ now' \in Int
  <2>1. MaxTime \in Nat
    BY VideoArchiveAssumption
  <2> QED
    BY <2>1 DEF IInv, Typed, Removable
<1>3. Shapes'
  BY <1>1 DEF IInv, Shapes, Shaped
<1>4. DiskRules'
  BY <1>1, <1>2 DEF IInv, DiskRules
<1>5. MergerPlan'
  <2>1. \A i \in DOMAIN merger.groups : Of(i) \subseteq Recorded
    BY DEF IInv, MergerPlan
  <2>2. \A i \in DOMAIN merger.groups : merger.groups[i].end \in Int
    BY ScanGroups DEF IInv, Sessions
  <2>3. \A i \in DOMAIN merger.groups : Ready(merger.groups[i]) => Ready(merger.groups[i])'
    <3> TAKE i \in DOMAIN merger.groups
    <3>1. MergeGap \in Nat
      BY VideoArchiveAssumption
    <3>2. now - merger.groups[i].end > MergeGap => now' - merger.groups[i].end > MergeGap
      BY <1>2, <2>2, <3>1
    <3> QED
      BY <1>1, <3>2 DEF Ready
  <2>4. MergerPlan
    BY DEF IInv
  <2>5. merger.pc \in {"upload", "index", "enqueue"} => \E p \in Of(1) : pieces'[p].real
    <3> SUFFICES ASSUME merger.pc \in {"upload", "index", "enqueue"} PROVE \E p \in Of(1) : pieces'[p].real
      OBVIOUS
    <3>1. PICK p \in Of(1) : pieces[p].real
      BY <2>4 DEF MergerPlan
    <3>2. merger.groups # <<>> /\ merger.groups \in Seq(Sessions)
      BY <2>4 DEF MergerPlan, IInv, Typed, Scans
    <3>3. 1 \in DOMAIN merger.groups
      BY <3>2, EmptySeq
    <3> QED
      BY <2>1, <3>1, <3>3
  <2> QED
    BY <1>1, <2>3, <2>4, <2>5 DEF MergerPlan, Of
<1>6. ToolPlan'
  BY <1>1, <1>2 DEF IInv, ToolPlan, Planned, OnDisk, Plan, Target
<1>7. Journals' /\ Copies'
  BY <1>1, SameJournals, SameCopies DEF IInv
<1>8. \A p : Safe(p) => Safe(p)'
  BY <1>1, SameSafe
<1>9. Uploaded'
  <2> SUFFICES ASSUME merger.pc \in {"index", "enqueue", "cleanup"}, NEW p \in Of(1), pieces'[p].real PROVE Safe(p)'
    BY <1>1 DEF Uploaded, Of
  <2>1. merger.groups # <<>> /\ merger.groups \in Seq(Sessions) /\ MergerPlan
    BY DEF MergerPlan, IInv, Typed, Scans
  <2>2. 1 \in DOMAIN merger.groups
    BY <2>1, EmptySeq
  <2>3. p \in Recorded
    BY <2>1, <2>2 DEF MergerPlan
  <2> QED
    BY <1>8, <2>3 DEF IInv, Uploaded
<1>10. Lossless'
  BY <1>1, <1>8 DEF IInv, Lossless
<1> QED
  BY <1>3, <1>4, <1>5, <1>6, <1>7, <1>9, <1>10 DEF IInv

LEMMA TickStep == ASSUME IInv, Tick PROVE IInv'
<1> USE DEF world, history, store, services, repair, copies
<1>0. Typed /\ Clocked /\ MaxTime \in Nat
  BY VideoArchiveAssumption DEF IInv
<1>1. /\ now' = now + 1 /\ now < MaxTime /\ now \in 0..MaxTime
      /\ UNCHANGED <<pieces, disk, video, items, queue, merger, worker, indexer, tool, journal, staged, read, overtaken, deleted>>
      /\ UNCHANGED <<stuck, overwritten>>
  BY <1>0 DEF Tick, Typed
<1>2. now' \in 0..MaxTime /\ now' >= now
  BY <1>0, <1>1
<1>3. Typed'
  BY <1>0, <1>1, <1>2 DEF Typed, Recorded
<1>4. Clocked'
  <2>1. ASSUME NEW p \in disk PROVE pieces[p].start <= now' /\ pieces[p].end <= now'
    <3>1. pieces[p] \in Times /\ pieces[p].start <= now /\ pieces[p].end <= now
      BY <1>0, PieceNumbers DEF Typed, Clocked
    <3> QED
      BY <1>0, <1>1, <3>1 DEF Times
  <2> QED
    BY <1>0, <1>1, <2>1 DEF Clocked, Recorded
<1> QED
  BY <1>1, <1>2, <1>3, <1>4, TimePasses DEF Recorded

LEMMA EndPieceStep == ASSUME IInv, EndPiece PROVE IInv'
<1> USE DEF world, history, store, services, repair, copies
<1>0. Typed /\ Clocked /\ MaxTime \in Nat /\ now \in 0..MaxTime
  BY VideoArchiveAssumption DEF IInv, Typed
<1> DEFINE n == Len(pieces)
<1>1. /\ pieces' = [pieces EXCEPT ![n].end = now] /\ Last(pieces).start < now /\ Recording
      /\ UNCHANGED <<now, disk, video, items, queue, merger, worker, indexer, tool, journal, staged, read, overtaken, deleted>>
      /\ UNCHANGED <<stuck, overwritten>>
  BY DEF EndPiece
<1>2. n \in Recorded /\ Recorded = 1..n /\ n \in Nat /\ Last(pieces) = pieces[n] /\ \A p \in Recorded : pieces[p] \in Times
  <2>1. Recorded # {}
    BY <1>1 DEF Recording, Recorded
  <2> QED
    BY <1>0, <2>1, PieceNumbers DEF Last
<1>3. \A p \in Recorded : /\ pieces'[p] \in Times /\ pieces'[p].start = pieces[p].start /\ pieces'[p].real = pieces[p].real
                          /\ pieces'[p].end = IF p = n THEN now ELSE pieces[p].end
  BY <1>0, <1>1, <1>2 DEF Times, Recorded
<1>4. Recorded' = Recorded /\ Len(pieces') = n /\ pieces' \in Seq(Times)
  <2> DEFINE t == [pieces[n] EXCEPT !.end = now]
  <2>1. pieces \in Seq(Times) /\ pieces[n] \in Times /\ now \in Nat
    BY <1>0, <1>2 DEF Typed
  <2>2. t \in Times
    BY <2>1 DEF Times
  <2>3. pieces' = [pieces EXCEPT ![n] = t]
    BY <1>1
  <2> HIDE DEF t
  <2> QED
    BY <1>2, <2>1, <2>2, <2>3, ExceptSeq DEF Recorded
<1>5. Typed'
  BY <1>0, <1>1, <1>4 DEF Typed
<1>6. Clocked'
  <2>1. ASSUME NEW p \in disk PROVE pieces'[p].start <= now /\ pieces'[p].end <= now /\ (pieces'[p].end = None => p = n)
    <3>1. p \in Recorded
      BY <1>0 DEF Typed
    <3> QED
      BY <1>0, <1>2, <1>3, <3>1 DEF Clocked
  <2>2. ASSUME NEW p \in Recorded, pieces'[p].end # None PROVE pieces'[p].start < pieces'[p].end
    <3>1. CASE p = n
      BY <1>1, <1>2, <1>3, <3>1
    <3>2. CASE p # n
      BY <1>0, <1>3, <2>2, <3>2 DEF Clocked
    <3> QED
      BY <3>1, <3>2
  <2> QED
    BY <1>1, <1>4, <2>1, <2>2 DEF Clocked
<1>7. now' >= now
  BY <1>0, <1>1
<1> QED
  BY <1>1, <1>3, <1>4, <1>5, <1>6, <1>7, TimePasses

LEMMA StartPieceStep == ASSUME IInv, NEW real \in BOOLEAN, StartPiece(real) PROVE IInv'
<1> USE DEF world, history, store, services, repair, copies
<1>0. Typed /\ Clocked /\ MaxTime \in Nat /\ now \in 0..MaxTime
  BY VideoArchiveAssumption DEF IInv, Typed
<1> DEFINE n == Len(pieces) + 1
           piece == [start |-> now, end |-> None, real |-> real]
<1>1. /\ pieces' = Append(pieces, piece) /\ Len(pieces) < NPieces /\ ~ Recording /\ disk' = disk \cup {n}
      /\ now' = now /\ video' = video /\ items' = items /\ queue' = queue /\ merger' = merger /\ worker' = worker
      /\ indexer' = indexer /\ tool' = tool /\ journal' = journal /\ staged' = staged /\ read' = read
      /\ overtaken' = overtaken /\ deleted' = deleted /\ stuck' = stuck /\ overwritten' = overwritten
  BY DEF StartPiece, MayStart
<1>2. piece \in Times /\ piece.start = now /\ piece.end = None /\ piece.real = real
  BY <1>0 DEF Times, None
<1>3. /\ pieces' \in Seq(Times) /\ Len(pieces') = n /\ Recorded' = 1..n /\ Recorded = 1..Len(pieces) /\ Len(pieces) \in Nat
      /\ \A p \in Recorded : pieces'[p] = pieces[p]
      /\ pieces'[n] = piece
  <2>1. pieces \in Seq(Times)
    BY <1>0 DEF Typed
  <2> HIDE DEF piece
  <2> QED
    BY <1>1, <1>2, <2>1, Appended DEF Recorded
<1> HIDE DEF piece
<1>4. /\ Recorded' = Recorded \cup {n} /\ n \notin Recorded /\ n \in Piece /\ disk \subseteq Recorded /\ disk' \subseteq Recorded'
      /\ \A p \in Recorded : p < n /\ p \in Int
      /\ NPieces \in Nat /\ Piece = 1..NPieces /\ \A p \in Recorded : pieces[p] \in Times
  <2>1. Recorded' = Recorded \cup {n} /\ n \notin Recorded /\ \A p \in Recorded : p < n /\ p \in Int
    BY <1>3
  <2>2. NPieces \in Nat /\ Piece = 1..NPieces /\ disk \subseteq Recorded /\ \A p \in Recorded : pieces[p] \in Times
    BY <1>0, PieceNumbers DEF Typed
  <2>3. n \in Piece
    BY <1>1, <1>3, <2>2
  <2> HIDE DEF n
  <2> QED
    BY <1>1, <2>1, <2>2, <2>3
<1>5. Typed'
  <2>1. Recorded' \subseteq Piece
    BY <1>0, <1>4 DEF Typed
  <2> QED
    BY <1>0, <1>1, <1>3, <1>4, <2>1 DEF Typed
<1>6. Clocked'
  <2>1. \A p \in Recorded : pieces[p].end # None
    BY <1>1 DEF Recording, Recorded
  <2>2. ASSUME NEW p \in disk' PROVE pieces'[p].start <= now /\ pieces'[p].end <= now /\ (pieces'[p].end = None => p = n)
    <3>1. CASE p = n
      BY <1>0, <1>2, <1>3, <3>1 DEF None
    <3>2. CASE p # n
      <4>1. p \in disk /\ p \in Recorded
        BY <1>1, <1>4, <3>2
      <4> QED
        BY <1>0, <1>3, <2>1, <4>1 DEF Clocked
    <3> QED
      BY <3>1, <3>2
  <2>3. ASSUME NEW p \in Recorded', pieces'[p].end # None PROVE pieces'[p].start < pieces'[p].end
    <3>1. p # n
      BY <1>2, <1>3, <2>3
    <3>2. p \in Recorded
      BY <1>4, <3>1
    <3> QED
      BY <1>0, <1>3, <2>3, <3>2 DEF Clocked
  <2> HIDE DEF n
  <2> QED
    BY <1>1, <1>3, <2>2, <2>3 DEF Clocked
<1> HIDE DEF n
<1>r. Removable' \subseteq disk' /\ \A q \in Removable' : q \in disk => q \in Removable
  BY <1>1 DEF Removable
<1>7. Shapes'
  BY <1>1, <1>4 DEF IInv, Shapes, Shaped
<1>8. DiskRules'
  <2> SUFFICES ASSUME NEW k \in Removable', pieces'[k].real
               PROVE  /\ \A x \in Piece : video[x] # NoVideo => x <= k
                      /\ \A x \in Piece, kind \in Kinds : staged[kind][x] # NoVideo => x <= k
                      /\ ToSet(video[k].pieces) \subseteq disk'
                      /\ ~ video[k].holed
                      /\ \A kind \in Kinds : staged[kind][k] = NoVideo
    BY <1>1 DEF DiskRules
  <2>1. CASE k \in disk
    <3>1. pieces[k].real
      BY <1>3, <1>4, <2>1
    <3>2. k \in Removable
      BY <1>r, <2>1
    <3> QED
      BY <1>1, <3>1, <3>2 DEF IInv, DiskRules
  <2>2. CASE k \notin disk
    <3>1. k = n
      BY <1>1, <1>r, <2>2
    <3>2. \A x \in Piece : video[x] # NoVideo => x <= k
      BY <1>4, <3>1 DEF IInv, Shapes, Shaped
    <3>3. \A x \in Piece, kind \in Kinds : staged[kind][x] # NoVideo => x <= k
      BY <1>4, <3>1 DEF IInv, Shapes, Shaped
    <3>4. video[k] = NoVideo /\ \A kind \in Kinds : staged[kind][k] = NoVideo
      BY <1>4, <3>1 DEF IInv, Shapes, Shaped
    <3>5. ToSet(NoVideo.pieces) = {} /\ ~ NoVideo.holed
      BY DEF NoVideo, ToSet
    <3> QED
      BY <3>2, <3>3, <3>4, <3>5
  <2> QED
    BY <2>1, <2>2
<1>9. MergerPlan'
  <2>0. MergerPlan
    BY DEF IInv
  <2>1. \A i \in DOMAIN merger.groups : Of(i) \subseteq Recorded
    BY <2>0 DEF MergerPlan
  <2>2. \A q \in Removable' : (\A i \in DOMAIN merger.groups : q \notin Of(i)) =>
                          \A i \in DOMAIN merger.groups : \A p \in Of(i) : p < q
    <3> TAKE q \in Removable'
    <3>1. CASE q \in disk
      BY <1>r, <2>0, <3>1 DEF MergerPlan
    <3>2. CASE q \notin disk
      BY <1>1, <1>r, <1>4, <2>1, <3>2
    <3> QED
      BY <3>1, <3>2
  <2>3. merger.pc \in {"upload", "index", "enqueue"} => \E p \in Of(1) : pieces'[p].real
    <3> SUFFICES ASSUME merger.pc \in {"upload", "index", "enqueue"} PROVE \E p \in Of(1) : pieces'[p].real
      OBVIOUS
    <3>1. PICK p \in Of(1) : pieces[p].real
      BY <2>0 DEF MergerPlan
    <3>2. merger.groups # <<>> /\ merger.groups \in Seq(Sessions)
      BY <2>0 DEF MergerPlan, IInv, Typed, Scans
    <3>3. 1 \in DOMAIN merger.groups
      BY <3>2, EmptySeq
    <3> QED
      BY <1>3, <2>1, <3>1, <3>3
  <2>4. disk \subseteq disk' /\ Recorded \subseteq Recorded'
    BY <1>1, <1>4
  <2>5. (\A i : Of(i)' = Of(i)) /\ \A i \in DOMAIN merger.groups : Ready(merger.groups[i])' <=> Ready(merger.groups[i])
    BY <1>1 DEF Of, Ready
  <2> QED
    BY <1>1, <2>0, <2>2, <2>3, <2>4, <2>5 DEF MergerPlan
<1>10. ToolPlan'
  <2>0. ToolPlan
    BY DEF IInv
  <2>1. ASSUME NEW i \in DOMAIN tool.groups PROVE Planned(tool.groups[i])'
    <3>1. PICK g \in Seq(Piece) : g = tool.groups[i]
      <4>1. tool.groups \in Seq(Seq(Piece))
        BY <1>0 DEF Typed, Tools
      <4> QED
        BY <4>1, ElementOfSeq
    <3>2. Planned(g)
      BY <2>0, <2>1, <3>1 DEF ToolPlan
    <3>3. g[1] \in ToSet(g)
      <4>1. 1 \in DOMAIN g
        BY <3>2, EmptySeq DEF Planned
      <4> QED
        BY <4>1 DEF ToSet
    <3>4. g[1] \in Recorded
      BY <3>2, <3>3 DEF Planned
    <3>5. OnDisk(g[1])' => OnDisk(g[1])
      BY <1>1, <1>3, <1>4, <3>4 DEF OnDisk, Removable
    <3> QED
      BY <1>1, <1>4, <3>1, <3>2, <3>5 DEF Planned
  <2> QED
    BY <1>1, <2>0, <2>1 DEF ToolPlan, Plan, Target
<1>11. Journals' /\ Copies'
  BY <1>1, SameJournals, SameCopies DEF IInv
<1>12. \A p : Safe(p) => Safe(p)'
  BY <1>1, SameSafe
<1>13. Uploaded'
  <2> SUFFICES ASSUME merger.pc \in {"index", "enqueue", "cleanup"}, NEW p \in Of(1), pieces'[p].real PROVE Safe(p)'
    BY <1>1 DEF Uploaded, Of
  <2>1. merger.groups # <<>> /\ merger.groups \in Seq(Sessions) /\ MergerPlan
    BY DEF MergerPlan, IInv, Typed, Scans
  <2>2. 1 \in DOMAIN merger.groups
    BY <2>1, EmptySeq
  <2>3. p \in Recorded
    BY <2>1, <2>2 DEF MergerPlan
  <2>4. pieces[p].real
    BY <1>3, <2>3
  <2> QED
    BY <1>12, <2>4 DEF IInv, Uploaded
<1>14. Lossless'
  <2> SUFFICES ASSUME NEW p \in Recorded', pieces'[p].real PROVE p \in disk' \/ Safe(p)'
    BY DEF Lossless
  <2>1. CASE p \in Recorded
    <3>1. pieces[p].real
      BY <1>3, <2>1
    <3> QED
      BY <1>1, <1>12, <2>1, <3>1 DEF IInv, Lossless
  <2>2. CASE p \notin Recorded
    BY <1>1, <1>4, <2>2
  <2> QED
    BY <2>1, <2>2
<1> QED
  BY <1>5, <1>6, <1>7, <1>8, <1>9, <1>10, <1>11, <1>13, <1>14 DEF IInv

-----------------------------------------------------------------------------
(* The merger.                                                             *)

\* A step that changes what the merger has before it and nothing of the archive.
LEMMA MergerMoves ==
    ASSUME IInv, Typed', MergerPlan', Uploaded',
           UNCHANGED <<now, pieces, disk, stuck, overwritten, video, tool, journal, copies, overtaken, deleted>>
    PROVE  IInv'
<1>1. /\ now' = now /\ pieces' = pieces /\ disk' = disk /\ video' = video /\ tool' = tool
      /\ journal' = journal /\ staged' = staged /\ read' = read /\ overtaken' = overtaken /\ deleted' = deleted
      /\ stuck' = stuck /\ overwritten' = overwritten
  BY DEF copies
<1>2. Clocked' /\ Shapes' /\ DiskRules' /\ ToolPlan' /\ Journals' /\ Copies'
  BY <1>1, SameClock, SameShapes, SameDisk, SameTool, SameJournals, SameCopies DEF IInv
<1>3. Lossless'
  BY <1>1, SameSafe DEF IInv, Lossless, Recorded
<1> QED
  BY <1>2, <1>3 DEF IInv

\* The real pieces of a group in order.
LEMMA RealSound ==
    ASSUME Typed, NEW g \in Sessions
    PROVE  /\ Real(g) \in Seq(Piece) /\ Ascending(Real(g))
           /\ ToSet(Real(g)) = {p \in ToSet(g.pieces) : pieces[p].real}
           /\ Real(g) # <<>> <=> \E p \in ToSet(g.pieces) : pieces[p].real
           /\ Real(g) # <<>> => Real(g)[1] \in ToSet(Real(g)) /\ \A p \in ToSet(Real(g)) : Real(g)[1] <= p
<1> DEFINE S == {p \in ToSet(g.pieces) : pieces[p].real}
<1>1. NPieces \in Nat /\ Piece = 1..NPieces
  BY PieceNumbers
<1>2. S \in SUBSET Piece
  <2>1. g.pieces \in Seq(Piece)
    BY DEF Sessions
  <2>2. ToSet(g.pieces) \subseteq Piece
    BY <2>1, ElementOfSeq DEF ToSet
  <2> QED
    BY <2>2
<1>3. Real(g) = Ordered(S)
  BY DEF Real
<1> HIDE DEF S
<1>4. Ordered(S) \in Seq(S) /\ ToSet(Ordered(S)) = S /\ Ascending(Ordered(S))
  BY <1>1, <1>2, OrderedSound
<1>5. Ordered(S) \in Seq(Piece)
  BY <1>2, <1>4, SeqMonotonic
<1>6. Ordered(S) # <<>> <=> S # {}
  <2>1. ASSUME Ordered(S) # <<>> PROVE S # {}
    <3>1. 1 \in DOMAIN Ordered(S)
      BY <1>4, <2>1, EmptySeq
    <3> QED
      BY <1>4, <3>1 DEF ToSet
  <2>2. ASSUME Ordered(S) = <<>> PROVE S = {}
    BY <1>4, <2>2 DEF ToSet
  <2> QED
    BY <2>1, <2>2
<1>7. ASSUME Ordered(S) # <<>> PROVE Ordered(S)[1] \in S /\ \A p \in S : Ordered(S)[1] <= p
  BY <1>1, <1>4, <1>5, <1>7, AscendingHead
<1>8. S # {} <=> \E p \in ToSet(g.pieces) : pieces[p].real
  BY DEF S
<1> QED
  BY <1>3, <1>4, <1>5, <1>6, <1>7, <1>8 DEF S

\* The last end of a group that is on the disk is a time of the past.
LEMMA LastEndType ==
    ASSUME Typed, Clocked, NEW g \in Seq(Piece), g # <<>>, ToSet(g) \subseteq disk
    PROVE  LastEnd(g) \in Nat
<1> DEFINE T == {EndOf(p) : p \in ToSet(g)}
<1>1. now \in Nat
  <2>1. MaxTime \in Nat
    BY VideoArchiveAssumption
  <2> QED
    BY <2>1 DEF Typed
<1>2. ASSUME NEW p \in ToSet(g) PROVE EndOf(p) \in 0..now
  <2>1. p \in disk /\ p \in Recorded
    BY DEF Typed
  <2>2. pieces[p] \in Times /\ pieces[p].end <= now
    BY <2>1, PieceNumbers DEF Clocked
  <2> QED
    BY <1>1, <2>2 DEF EndOf, Times
<1>3. T # {}
  <2>1. 1 \in DOMAIN g
    BY EmptySeq
  <2> QED
    BY <2>1 DEF ToSet
<1>4. T \in SUBSET (0..now)
  BY <1>2
<1>5. LastEnd(g) = Max(T)
  BY DEF LastEnd
<1> HIDE DEF T
<1>6. Max(T) \in T
  BY <1>1, <1>3, <1>4, MaxBounded
<1>7. T \subseteq Nat
  BY <1>1, <1>4
<1> QED
  BY <1>5, <1>6, <1>7, Zenon

LEMMA MergerScanStep == ASSUME IInv, MergerScan PROVE IInv'
<1> USE DEF world, history, store, services, repair, copies
<1>0. Typed /\ Clocked /\ MaxTime \in Nat /\ now \in 0..MaxTime /\ MergeGap \in Nat
  BY VideoArchiveAssumption DEF IInv, Typed
<1>1. /\ NPieces \in Nat /\ Piece = 1..NPieces /\ Recorded = 1..Len(pieces) /\ Len(pieces) \in Nat
      /\ disk \subseteq Recorded /\ Recorded \subseteq Piece /\ \A p \in Recorded : pieces[p] \in Times
  BY <1>0, PieceNumbers DEF Typed
<1> DEFINE ps == Ordered(disk)
           gs == GroupSessions(ps)
           seen(g) == [pieces |-> g, end |-> LastEnd(g), busy |-> \E p \in ToSet(g) : pieces[p].end = None]
           hs == [i \in DOMAIN gs |-> seen(gs[i])]
<1>2. /\ merger' = [pc |-> "next", groups |-> hs, kept |-> {}]
      /\ UNCHANGED <<now, pieces, disk, video, items, queue, worker, indexer, tool, journal, staged, read, overtaken, deleted>>
      /\ UNCHANGED <<stuck, overwritten>>
  BY DEF MergerScan
<1>3. ps \in Seq(Piece) /\ Ascending(ps) /\ ToSet(ps) = disk
  <2>1. disk \in SUBSET (1..NPieces)
    BY <1>1
  <2>2. ps \in Seq(disk) /\ Ascending(ps) /\ ToSet(ps) = disk
    BY <1>1, <2>1, OrderedSound
  <2> HIDE DEF ps
  <2>3. disk \subseteq Piece
    BY <1>1
  <2> QED
    BY <2>2, <2>3, SeqMonotonic
<1>4. gs \in Seq(Seq(Piece)) /\ Grouped(gs, disk, MergeFar)
  <2> HIDE DEF ps
  <2> QED
    BY <1>3, GroupSessionsSound
<1> HIDE DEF gs, ps
<1>5. DOMAIN gs = 1..Len(gs) /\ Len(gs) \in Nat /\ \A i \in DOMAIN gs : gs[i] \in Seq(Piece)
  BY <1>4, ElementOfSeq
<1>6. \A i \in DOMAIN gs : gs[i] # <<>> /\ ToSet(gs[i]) \subseteq disk /\ LastEnd(gs[i]) \in Int
  <2> TAKE i \in DOMAIN gs
  <2>1. gs[i] # <<>> /\ ToSet(gs[i]) \subseteq disk /\ gs[i] \in Seq(Piece)
    BY <1>4, <1>5 DEF Grouped
  <2>2. PICK g \in Seq(Piece) : g = gs[i]
    BY <2>1
  <2>3. LastEnd(g) \in Nat
    BY <1>0, <2>1, <2>2, LastEndType
  <2> QED
    BY <2>1, <2>2, <2>3
<1>7. \A i \in DOMAIN gs : seen(gs[i]) \in Sessions
  BY <1>5, <1>6 DEF Sessions
<1>8. hs \in Seq(Sessions) /\ DOMAIN hs = DOMAIN gs /\ Len(hs) = Len(gs) /\ \A i \in DOMAIN gs : hs[i] = seen(gs[i])
  <2> HIDE DEF seen
  <2> QED
    BY <1>5, <1>7
<1>9. \A i \in DOMAIN gs : hs[i].pieces = gs[i] /\ hs[i].end = LastEnd(gs[i]) /\ (hs[i].busy <=> \E p \in ToSet(gs[i]) : pieces[p].end = None)
  BY <1>8
<1> HIDE DEF hs
<1>10. merger' \in Scans /\ merger'.pc = "next" /\ merger'.groups = hs /\ merger'.kept = {}
  BY <1>2, <1>8 DEF Scans, MergerPcs
<1>11. Typed'
  BY <1>0, <1>2, <1>10 DEF Typed, Recorded
<1>12. ASSUME NEW i \in DOMAIN gs, i < Len(gs) PROVE ~ hs[i].busy /\ now - hs[i].end > MergeGap
  <2>1. i + 1 \in DOMAIN gs
    BY <1>5, <1>12
  <2>2. PICK g \in Seq(Piece) : g = gs[i] /\ g # <<>> /\ ToSet(g) \subseteq disk /\ LastEnd(g) \in Int
    BY <1>5, <1>6
  <2>3. PICK h \in Seq(Piece) : h = gs[i + 1] /\ h # <<>> /\ ToSet(h) \subseteq disk
    BY <1>5, <1>6, <2>1
  <2>4. PICK q : q = h[1] /\ q \in ToSet(h)
    <3>1. 1 \in DOMAIN h
      BY <2>3, EmptySeq
    <3> QED
      BY <3>1 DEF ToSet
  <2>5. <<g, q>> \in MergeFar
    BY <1>4, <2>1, <2>2, <2>3, <2>4 DEF Grouped
  <2>6. ~ (pieces[q].start - LastEnd(g) <= MergeGap)
    BY <2>5 DEF MergeFar
  <2>7. q \in disk /\ q \in Recorded /\ pieces[q] \in Times /\ pieces[q].start <= now
    BY <1>0, <1>1, <2>3, <2>4 DEF Clocked
  <2>8. now - LastEnd(g) > MergeGap
    BY <1>0, <2>2, <2>6, <2>7 DEF Times
  <2>9. ASSUME NEW p \in ToSet(g) PROVE pieces[p].end # None
    <3>1. p < q
      <4>1. i < i + 1
        BY <1>5
      <4> QED
        BY <1>4, <2>1, <2>2, <2>3, <2>4, <4>1 DEF Grouped
    <3>2. p \in disk /\ p \in Recorded
      BY <1>1, <2>2
    <3>3. p # Len(pieces)
      BY <1>1, <2>7, <3>1, <3>2
    <3> QED
      BY <1>0, <3>2, <3>3 DEF Clocked
  <2> QED
    BY <1>9, <2>2, <2>8, <2>9
<1>13. MergerPlan'
  <2>1. \A i \in DOMAIN gs : Of(i)' = ToSet(gs[i])
    BY <1>9, <1>10, <1>8 DEF Of
  <2>2. merger'.pc = "next" /\ DOMAIN merger'.groups = DOMAIN gs /\ Len(merger'.groups) = Len(gs) /\ disk' = disk /\ Recorded' = Recorded
    BY <1>2, <1>8, <1>10 DEF Recorded
  <2>3. ASSUME NEW i \in DOMAIN gs, i < Len(gs) PROVE Ready(merger.groups[i])'
    BY <1>2, <1>10, <1>12, <2>3 DEF Ready
  <2>4. ASSUME NEW i \in DOMAIN gs
        PROVE  merger'.groups[i].pieces # <<>> /\ Of(i)' \subseteq Recorded' /\ Of(i)' \subseteq disk'
    <3>1. merger'.groups[i].pieces # <<>>
      BY <1>6, <1>9, <1>10
    <3>2. ToSet(gs[i]) \subseteq disk /\ disk \subseteq Recorded
      BY <1>1, <1>6
    <3> QED
      BY <2>1, <2>2, <3>1, <3>2
  <2>5. ASSUME NEW i \in DOMAIN gs, NEW j \in DOMAIN gs, i < j PROVE \A p \in Of(i)', q \in Of(j)' : p < q
    BY <1>4, <2>1, <2>5 DEF Grouped
  <2>6. ASSUME NEW q \in Removable' PROVE \E i \in DOMAIN gs : q \in Of(i)'
    <3>1. PICK i \in DOMAIN gs : q \in ToSet(gs[i])
      BY <1>4, <2>2 DEF Grouped, Removable
    <3> QED
      BY <2>1, <3>1
  <2> QED
    BY <1>10, <2>2, <2>3, <2>4, <2>5, <2>6 DEF MergerPlan
<1>14. Uploaded'
  BY <1>10 DEF Uploaded
<1> QED
  BY <1>2, <1>11, <1>13, <1>14, MergerMoves

\* What the plan says of the group at hand.
LEMMA HeadGroup ==
    ASSUME Typed, MergerPlan, merger.groups # <<>>
    PROVE  /\ 1 \in DOMAIN merger.groups /\ Group = merger.groups[1] /\ Group \in Sessions
           /\ Of(1) = ToSet(Group.pieces) /\ Of(1) \subseteq Recorded /\ Group.pieces # <<>>
<1>1. 1 \in DOMAIN merger.groups /\ Group = merger.groups[1]
  BY ScanGroups, EmptySeq DEF Group
<1> QED
  BY <1>1, ScanGroups DEF MergerPlan, Of

\* The rest of the scan, when what the disk still has of the group at hand could not
\* be removed.
LEMMA TailPlan ==
    ASSUME Typed, MergerPlan, merger.groups # <<>>, Of(1) \cap disk \subseteq stuck,
           merger' = [pc |-> "next", groups |-> Tail(merger.groups), kept |-> {}], UNCHANGED <<now, pieces, disk, stuck>>
    PROVE  MergerPlan' /\ merger' \in Scans
<1> DEFINE gs == merger.groups
           hs == Tail(gs)
<1>1. gs \in Seq(Sessions) /\ DOMAIN gs = 1..Len(gs) /\ Len(gs) \in Nat /\ gs # <<>>
  BY ScanGroups
<1>2. /\ hs \in Seq(Sessions) /\ DOMAIN hs = 1..Len(hs) /\ Len(hs) \in Nat /\ Len(hs) = Len(gs) - 1
      /\ \A i \in 1..Len(hs) : hs[i] = gs[i + 1]
  <2> HIDE DEF gs
  <2> QED
    BY <1>1, HeadTailProperties
<1>3. merger' \in Scans /\ merger'.pc = "next" /\ merger'.groups = hs /\ merger'.kept = {}
  BY <1>2 DEF Scans, MergerPcs
<1> HIDE DEF hs
<1>4. \A i \in DOMAIN hs : i + 1 \in DOMAIN gs /\ Of(i)' = Of(i + 1) /\ merger'.groups[i] = gs[i + 1]
  BY <1>1, <1>2, <1>3 DEF Of
<1>5. ASSUME NEW i \in DOMAIN hs
      PROVE  /\ merger'.groups[i].pieces # <<>> /\ Of(i)' \subseteq Recorded /\ Of(i)' \subseteq disk
             /\ i < Len(hs) => Ready(merger.groups[i])'
  <2>1. i + 1 \in DOMAIN gs /\ i + 1 # 1 /\ (i < Len(hs) => i + 1 < Len(gs))
    BY <1>1, <1>2, <1>4
  <2>2. /\ gs[i + 1].pieces # <<>> /\ Of(i + 1) \subseteq Recorded /\ Of(i + 1) \subseteq disk
        /\ i + 1 < Len(gs) => Ready(gs[i + 1])
    BY <2>1 DEF MergerPlan
  <2>3. now' = now
    OBVIOUS
  <2>4. Ready(gs[i + 1]) => Ready(merger.groups[i])'
    <3>1. PICK g : g = gs[i + 1]
      OBVIOUS
    <3>2. Ready(g) => ~ g.busy /\ now' - g.end > MergeGap
      BY <2>3 DEF Ready
    <3>3. merger'.groups[i] = g
      BY <1>4, <3>1
    <3> HIDE DEF gs
    <3> QED
      BY <3>1, <3>2, <3>3 DEF Ready
  <2> QED
    BY <1>4, <2>1, <2>2, <2>4
<1>6. ASSUME NEW i \in DOMAIN hs, NEW j \in DOMAIN hs, i < j PROVE \A p \in Of(i)', q \in Of(j)' : p < q
  <2>1. i + 1 \in DOMAIN gs /\ j + 1 \in DOMAIN gs /\ i + 1 < j + 1
    BY <1>2, <1>4, <1>6
  <2>2. \A p \in Of(i + 1), q \in Of(j + 1) : p < q
    BY <2>1 DEF MergerPlan
  <2> QED
    BY <1>4, <2>2
<1>7. ASSUME NEW q \in Removable, \A i \in DOMAIN hs : q \notin Of(i)', NEW i \in DOMAIN hs, NEW p \in Of(i)' PROVE p < q
  <2>1. ASSUME NEW j \in DOMAIN gs PROVE q \notin Of(j)
    <3>1. CASE j = 1
      BY <3>1 DEF Removable
    <3>2. CASE j # 1
      <4>1. j - 1 \in DOMAIN hs /\ j = (j - 1) + 1
        BY <1>1, <1>2, <3>2
      <4> QED
        BY <1>4, <1>7, <4>1
    <3> QED
      BY <3>1, <3>2
  <2>2. i + 1 \in DOMAIN gs /\ p \in Of(i + 1)
    BY <1>4
  <2> QED
    BY <2>1, <2>2 DEF MergerPlan
<1>8. /\ disk' = disk /\ Removable' = Removable /\ Recorded' = Recorded
      /\ merger'.groups = hs /\ merger'.pc = "next" /\ merger'.kept = {}
  BY <1>3 DEF Recorded, Removable
<1>9. MergerPlan'
  BY <1>5, <1>6, <1>7, <1>8 DEF MergerPlan
<1> QED
  BY <1>3, <1>9

\* When no group is left of a scan there is nothing to say.
LEMMA NoPlan ==
    ASSUME merger'.pc \in {"sleep", "next"}, merger'.groups = <<>>, merger'.kept \subseteq stuck'
    PROVE  MergerPlan' /\ Uploaded'
<1>1. DOMAIN merger'.groups = {}
  OBVIOUS
<1>2. MergerPlan'
  BY <1>1 DEF MergerPlan
<1>3. Uploaded'
  BY DEF Uploaded
<1> QED
  BY <1>2, <1>3

\* Nor between two scans.
LEMMA NoMergePlan ==
    ASSUME merger' = NoMerge
    PROVE  MergerPlan' /\ Uploaded' /\ merger' \in Scans
<1>1. merger'.pc = "sleep" /\ merger'.groups = <<>> /\ merger'.kept = {}
  BY DEF NoMerge
<1>2. MergerPlan' /\ Uploaded'
  BY <1>1, NoPlan
<1>3. <<>> \in Seq(Sessions)
  OBVIOUS
<1>4. NoMerge \in Scans
  BY <1>3 DEF NoMerge, Scans, MergerPcs
<1> QED
  BY <1>2, <1>4

\* The next step on the group at hand.
LEMMA PcPlan ==
    ASSUME Typed, MergerPlan, merger.groups # <<>>, merger.pc # "cleanup", NEW pc \in MergerPcs, merger' = [merger EXCEPT !.pc = pc],
           pc \in {"upload", "index", "enqueue"} => \E p \in Of(1) : pieces[p].real, UNCHANGED <<now, pieces, disk, stuck>>
    PROVE  MergerPlan' /\ merger' \in Scans /\ merger'.pc = pc /\ \A i : Of(i)' = Of(i)
<1>0. merger \in Scans
  BY DEF Typed
<1>1. merger' \in Scans /\ merger'.pc = pc /\ merger'.groups = merger.groups /\ merger'.kept = merger.kept
  BY <1>0, ScanPc, Zenon
<1>2. now' = now /\ disk' = disk /\ pieces' = pieces /\ stuck' = stuck /\ Removable' = Removable
  BY DEF Removable
<1>3. \A i : Of(i)' = Of(i)
  BY <1>1 DEF Of
<1>4. \A i \in DOMAIN merger.groups : Ready(merger.groups[i]) => Ready(merger.groups[i])'
  BY <1>1, <1>2 DEF Ready
<1>5. MergerPlan'
  BY <1>1, <1>2, <1>3, <1>4 DEF MergerPlan, Recorded
<1> QED
  BY <1>1, <1>3, <1>5

LEMMA MergerNextStep == ASSUME IInv, MergerNext PROVE IInv'
<1> USE DEF world, history, store, services, repair, copies
<1>0. Typed /\ MergerPlan /\ merger.pc = "next"
  BY DEF IInv, MergerNext
<1>1. /\ UNCHANGED <<now, pieces, disk, video, items, queue, worker, indexer, tool, journal, staged, read, overtaken, deleted>>
      /\ UNCHANGED <<stuck, overwritten>>
  BY DEF MergerNext
<1>2. MergerPlan' /\ Uploaded' /\ merger' \in Scans
  <2>1. CASE merger.groups = <<>>
    <3>1. merger' = NoMerge
      BY <2>1 DEF MergerNext
    <3> QED
      BY <3>1, NoMergePlan
  <2>2. CASE merger.groups # <<>> /\ ~ Ready(Group)
    <3>1. 1 \in DOMAIN merger.groups /\ ~ Ready(merger.groups[1])
      BY <1>0, <2>2, HeadGroup
    <3>2. Len(merger.groups) = 1
      <4>1. Len(merger.groups) \in Nat /\ DOMAIN merger.groups = 1..Len(merger.groups)
        BY <1>0, ScanGroups
      <4>2. 1 < Len(merger.groups) => Ready(merger.groups[1])
        BY <1>0, <3>1 DEF MergerPlan
      <4>3. ~ (1 < Len(merger.groups))
        BY <3>1, <4>2, Zenon
      <4>4. 1 \in 1..Len(merger.groups)
        BY <3>1, <4>1, Zenon
      <4>5. PICK n \in Nat : n = Len(merger.groups)
        BY <4>1
      <4>6. ~ (1 < n) /\ 1 <= n
        BY <4>3, <4>4, <4>5
      <4>7. n = 1
        BY <4>6
      <4> QED
        BY <4>5, <4>7
    <3>3. Tail(merger.groups) = <<>>
      <4>1. Tail(merger.groups) \in Seq(Sessions) /\ Len(Tail(merger.groups)) = 0
        BY <1>0, <2>2, <3>2, ScanGroups, HeadTailProperties
      <4> QED
        BY <4>1, EmptySeq
    <3>4. merger' = [merger EXCEPT !.groups = <<>>]
      BY <2>2, <3>3 DEF MergerNext
    <3>5. merger' \in Scans /\ merger'.pc = "next" /\ merger'.groups = <<>> /\ merger'.kept = merger.kept
      <4>1. merger \in Scans /\ <<>> \in Seq(Sessions)
        BY <1>0 DEF Typed
      <4> QED
        BY <1>0, <3>4, <4>1 DEF Scans
    <3>6. merger'.kept \subseteq stuck'
      BY <1>0, <1>1, <3>5 DEF MergerPlan
    <3> QED
      BY <3>5, <3>6, NoPlan
  <2>3. CASE merger.groups # <<>> /\ Ready(Group)
    <3>0. merger' = [merger EXCEPT !.pc = IF Real(Group) = <<>> THEN "cleanup" ELSE "upload"]
      BY <2>3, Zenon DEF MergerNext
    <3>1. CASE Real(Group) = <<>>
      <4>1. merger' = [merger EXCEPT !.pc = "cleanup"]
        BY <3>0, <3>1
      <4>2. MergerPlan' /\ merger' \in Scans /\ merger'.pc = "cleanup" /\ \A i : Of(i)' = Of(i)
        <5>1. "cleanup" \in MergerPcs /\ "cleanup" \notin {"upload", "index", "enqueue"}
          BY DEF MergerPcs
        <5> QED
          BY <1>0, <1>1, <2>3, <4>1, <5>1, PcPlan
      <4>3. \A p \in Of(1) : ~ pieces[p].real
        BY <1>0, <2>3, <3>1, HeadGroup, RealSound
      <4>4. Uploaded'
        BY <1>1, <4>2, <4>3 DEF Uploaded
      <4> QED
        BY <4>2, <4>4
    <3>2. CASE Real(Group) # <<>>
      <4>1. merger' = [merger EXCEPT !.pc = "upload"]
        BY <3>0, <3>2
      <4>2. MergerPlan' /\ merger' \in Scans /\ merger'.pc = "upload"
        <5>1. "upload" \in MergerPcs /\ \E p \in Of(1) : pieces[p].real
          BY <1>0, <2>3, <3>2, HeadGroup, RealSound DEF MergerPcs
        <5> QED
          BY <1>0, <1>1, <2>3, <4>1, <5>1, PcPlan
      <4>3. Uploaded'
        BY <4>2 DEF Uploaded
      <4> QED
        BY <4>2, <4>3
    <3> QED
      BY <3>1, <3>2
  <2> QED
    BY <2>1, <2>2, <2>3
<1>3. Typed'
  BY <1>0, <1>1, <1>2 DEF Typed, Recorded
<1> QED
  BY <1>1, <1>2, <1>3, MergerMoves

LEMMA MergerFailsStep == ASSUME IInv, MergerFails PROVE IInv'
<1> USE DEF world, history, store, services, repair, copies
<1>0. Typed
  BY DEF IInv
<1>1. /\ UNCHANGED <<now, pieces, disk, video, items, queue, worker, indexer, tool, journal, staged, read, overtaken, deleted>>
      /\ UNCHANGED <<stuck, overwritten>>
  BY DEF MergerFails
<1>2. MergerPlan' /\ Uploaded' /\ merger' \in Scans
  BY NoMergePlan DEF MergerFails
<1>3. Typed'
  BY <1>0, <1>1, <1>2 DEF Typed, Recorded
<1> QED
  BY <1>1, <1>2, <1>3, MergerMoves

\* The key of the group at hand: no real piece comes before it, but one that could
\* not be removed.
LEMMA MergeKeySound ==
    ASSUME Typed, MergerPlan, merger.pc \in {"upload", "index", "enqueue"}
    PROVE  /\ merger.groups # <<>> /\ Of(1) \subseteq Recorded
           /\ Real(Group) \in Seq(Piece) /\ Real(Group) # <<>> /\ MergeKey = Real(Group)[1]
           /\ ToSet(Real(Group)) = {p \in Of(1) : pieces[p].real}
           /\ MergeKey \in ToSet(Real(Group)) /\ \A p \in ToSet(Real(Group)) : MergeKey <= p
           /\ Of(1) \subseteq disk
           /\ \A q \in Removable : pieces[q].real => MergeKey <= q
           /\ MergeKey \in Recorded /\ MergeKey \in Piece
<1>1. merger.groups # <<>> /\ \E p \in Of(1) : pieces[p].real
  BY DEF MergerPlan
<1>2. 1 \in DOMAIN merger.groups /\ Group \in Sessions /\ Of(1) = ToSet(Group.pieces) /\ Of(1) \subseteq Recorded
  BY <1>1, HeadGroup
<1>3. /\ Real(Group) \in Seq(Piece) /\ Real(Group) # <<>> /\ MergeKey = Real(Group)[1]
      /\ ToSet(Real(Group)) = {p \in Of(1) : pieces[p].real}
      /\ MergeKey \in ToSet(Real(Group)) /\ \A p \in ToSet(Real(Group)) : MergeKey <= p
  BY <1>1, <1>2, RealSound DEF MergeKey
<1>4. Of(1) \subseteq disk
  BY <1>2 DEF MergerPlan
<1>5. disk \subseteq Recorded /\ Recorded \subseteq Piece /\ \A p \in Recorded : p \in Int
  BY PieceNumbers DEF Typed
<1>6. PICK k \in Recorded : k = MergeKey /\ k \in Of(1)
  BY <1>2, <1>3
<1>s. Removable \subseteq disk
  BY DEF Removable
<1>7. ASSUME NEW q \in Removable, pieces[q].real PROVE k <= q
  <2>1. CASE q \in Of(1)
    BY <1>3, <1>6, <1>7, <2>1
  <2>2. CASE \E i \in DOMAIN merger.groups : q \in Of(i) /\ i # 1
    <3>1. PICK i \in DOMAIN merger.groups : q \in Of(i) /\ i # 1
      BY <2>2
    <3>2. 1 < i
      BY <3>1, ScanGroups
    <3>3. k < q
      BY <1>2, <1>6, <3>1, <3>2 DEF MergerPlan
    <3> QED
      BY <1>5, <1>s, <3>3
  <2>3. CASE \A i \in DOMAIN merger.groups : q \notin Of(i)
    <3>1. k < q
      BY <1>2, <1>6, <2>3 DEF MergerPlan
    <3> QED
      BY <1>5, <1>s, <3>1
  <2> QED
    BY <2>1, <2>2, <2>3
<1> QED
  BY <1>1, <1>2, <1>3, <1>4, <1>5, <1>6, <1>7

\* The group and the target of a repair.
LEMMA TargetSound ==
    ASSUME Typed, ToolPlan, tool.pc # "idle", tool.groups # <<>>
    PROVE  /\ 1 \in DOMAIN tool.groups /\ Plan = tool.groups[1] /\ Plan \in Seq(Piece) /\ Plan # <<>> /\ Planned(Plan)
           /\ Target = Plan[1] /\ Target \in ToSet(Plan) /\ Target \in Recorded /\ Target \in Piece /\ tool.kind \in Kinds
<1>1. 1 \in DOMAIN tool.groups /\ Plan = tool.groups[1] /\ Plan \in Seq(Piece)
  BY ToolGroups, EmptySeq DEF Plan
<1>2. Planned(Plan) /\ Plan # <<>> /\ ToSet(Plan) \subseteq Recorded
  BY <1>1 DEF ToolPlan, Planned
<1>3. 1 \in DOMAIN Plan /\ Target = Plan[1]
  BY <1>1, <1>2, EmptySeq DEF Target
<1>4. Target \in ToSet(Plan)
  BY <1>3 DEF ToSet
<1>5. Target \in Recorded /\ Target \in Piece
  BY <1>2, <1>4 DEF Typed
<1>6. tool.kind \in Kinds
  BY DEF Typed
<1> QED
  BY <1>1, <1>2, <1>3, <1>4, <1>5, <1>6

LEMMA MergerUploadStep == ASSUME IInv, MergerUpload PROVE IInv'
<1> USE DEF world, history, store, services, repair, copies
<1>0. Typed /\ MergerPlan /\ merger.pc = "upload" /\ Lossless /\ DiskRules /\ Shapes /\ ToolPlan /\ Journals /\ Copies
  BY DEF IInv, MergerUpload
<1>k. PICK k : k = MergeKey
  OBVIOUS
<1>r. PICK r : r = Real(Group)
  OBVIOUS
<1>1. /\ merger' = [merger EXCEPT !.pc = "index"] /\ video' = [video EXCEPT ![k] = [pieces |-> r, holed |-> FALSE]]
      /\ now' = now /\ pieces' = pieces /\ disk' = disk /\ items' = items /\ queue' = queue /\ worker' = worker
      /\ indexer' = indexer /\ tool' = tool /\ journal' = journal /\ staged' = staged /\ read' = read
      /\ overtaken' = overtaken /\ deleted' = deleted /\ stuck' = stuck
      /\ overwritten' = IF k \in stuck THEN overwritten \cup (ToSet(video[k].pieces) \ ToSet(r)) ELSE overwritten
  BY <1>k, <1>r DEF MergerUpload
<1>2. /\ merger.groups # <<>> /\ Of(1) \subseteq Recorded /\ r \in Seq(Piece) /\ r # <<>> /\ k = r[1]
      /\ ToSet(r) = {p \in Of(1) : pieces[p].real}
      /\ k \in ToSet(r) /\ (\A p \in ToSet(r) : k <= p) /\ Of(1) \subseteq disk
      /\ (\A q \in Removable : pieces[q].real => k <= q) /\ k \in Recorded /\ k \in Piece
  BY <1>0, <1>k, <1>r, MergeKeySound
<1>3. k \in disk /\ pieces[k].real /\ ToSet(r) \subseteq disk /\ (k \in stuck \/ k \in Removable)
  BY <1>2 DEF Removable
<1>o. overwritten \subseteq overwritten' /\ (k \in stuck => ToSet(video[k].pieces) \subseteq ToSet(r) \cup overwritten')
  BY <1>1
<1>4. video \in [Piece -> Videos]
  BY <1>0 DEF Typed
<1> DEFINE v == [pieces |-> r, holed |-> FALSE]
<1>5. v \in Videos /\ v.pieces = r /\ ~ v.holed
  BY <1>2 DEF Videos
<1>6. video'[k] = v /\ (\A x \in Piece : x # k => video'[x] = video[x]) /\ video' \in [Piece -> Videos]
  BY <1>1, <1>2, <1>4, <1>5
<1> HIDE DEF v
<1>7. MergerPlan' /\ merger' \in Scans /\ merger'.pc = "index" /\ \A i : Of(i)' = Of(i)
  <2>1. "index" \in MergerPcs /\ merger.pc # "cleanup" /\ \E p \in Of(1) : pieces[p].real
    BY <1>0, <1>2 DEF MergerPcs
  <2> QED
    BY <1>0, <1>1, <1>2, <2>1, PcPlan
<1>8. Typed'
  BY <1>0, <1>1, <1>6, <1>7 DEF Typed, Recorded
<1>9. Clocked' /\ ToolPlan' /\ Journals'
  BY <1>1, SameClock, SameTool, SameJournals DEF IInv
<1>10. Shapes'
  <2>1. ASSUME NEW x \in Piece PROVE Shaped(video'[x], x)
    <3>1. CASE x = k
      BY <1>2, <1>5, <1>6, <3>1 DEF Shaped
    <3>2. CASE x # k
      <4>1. Shaped(video[x], x)
        BY <1>0 DEF Shapes
      <4> QED
        BY <1>6, <3>2, <4>1
    <3> QED
      BY <3>1, <3>2
  <2> QED
    BY <1>0, <1>1, <2>1 DEF Shapes, Shaped, Recorded
<1>11. DiskRules'
  <2>1. ASSUME NEW q \in Removable, pieces[q].real
        PROVE  (\A x \in Piece : video'[x] # NoVideo => x <= q) /\ ToSet(video'[q].pieces) \subseteq disk /\ ~ video'[q].holed
    <3>1. q \in Piece
      BY <1>0 DEF Typed, Removable
    <3>2. \A x \in Piece : video[x] # NoVideo => x <= q
      BY <1>0, <2>1 DEF DiskRules
    <3>3. ToSet(video[q].pieces) \subseteq disk /\ ~ video[q].holed
      BY <1>0, <2>1 DEF DiskRules
    <3>4. CASE q = k
      BY <1>2, <1>3, <1>5, <1>6, <3>2, <3>4
    <3>5. CASE q # k
      BY <1>2, <1>6, <2>1, <3>1, <3>2, <3>3, <3>5
    <3> QED
      BY <3>4, <3>5
  <2> QED
    BY <1>0, <1>1, <2>1 DEF DiskRules, Removable
<1>12. Copies'
  <2>1. ASSUME tool.pc \in Published
        PROVE  ToSet(staged[tool.kind][Target].pieces) \subseteq ToSet(video'[Target].pieces) \cup deleted \cup overwritten'
    <3>1. tool.pc # "idle" /\ tool.groups # <<>> /\ journal[tool.kind][Target] # NoJournal
      BY <1>0, <2>1 DEF ToolPlan, Published
    <3>2. Target \in Piece /\ tool.kind \in Kinds
      BY <1>0, <3>1, TargetSound
    <3>3. staged[tool.kind][Target] # NoVideo
      BY <1>0, <3>1, <3>2 DEF Journals
    <3>4. ToSet(staged[tool.kind][Target].pieces) \subseteq ToSet(video[Target].pieces) \cup deleted \cup overwritten
      BY <1>0, <2>1 DEF Copies
    <3>5. CASE Target = k
      <4>1. k \in stuck
        BY <1>0, <1>3, <3>2, <3>3, <3>5 DEF DiskRules
      <4>2. ToSet(video[k].pieces) \subseteq ToSet(video'[k].pieces) \cup overwritten'
        BY <1>o, <1>5, <1>6, <4>1
      <4> QED
        BY <1>o, <3>4, <3>5, <4>2
    <3>6. CASE Target # k
      <4>1. video'[Target] = video[Target]
        BY <1>6, <3>2, <3>6
      <4> QED
        BY <1>o, <3>4, <4>1
    <3> QED
      BY <3>5, <3>6
  <2>2. Target' = Target
    BY <1>1 DEF Target, Plan
  <2> QED
    BY <1>0, <1>1, <2>1, <2>2 DEF Copies
<1>13. Lossless'
  <2> SUFFICES ASSUME NEW p \in Recorded, pieces[p].real, p \notin disk PROVE Safe(p)'
    BY <1>1 DEF Lossless, Recorded
  <2>1. Safe(p)
    BY <1>0 DEF Lossless
  <2>2. CASE \E x \in Piece : Holds(video[x], p)
    <3>1. PICK x \in Piece : Holds(video[x], p)
      BY <2>2
    <3>2. CASE x = k
      <4>1. ~ ToSet(video[k].pieces) \subseteq disk
        BY <3>1, <3>2 DEF Holds
      <4>2. k \in stuck
        BY <1>0, <1>3, <4>1 DEF DiskRules
      <4>3. p \in ToSet(video[k].pieces) /\ p \notin ToSet(r)
        BY <1>3, <3>1, <3>2 DEF Holds
      <4>4. p \in overwritten'
        BY <1>o, <4>2, <4>3
      <4> QED
        BY <4>4 DEF Safe
    <3>3. CASE x # k
      <4>1. Holds(video'[x], p)
        BY <1>6, <3>1, <3>3
      <4> QED
        BY <4>1 DEF Safe, Holds
    <3> QED
      BY <3>2, <3>3
  <2>3. CASE ~ \E x \in Piece : Holds(video[x], p)
    BY <1>1, <1>o, <2>1, <2>3 DEF Safe, Holds
  <2> QED
    BY <2>2, <2>3
<1>14. Uploaded'
  <2> SUFFICES ASSUME NEW p \in Of(1), pieces[p].real PROVE Safe(p)'
    BY <1>1, <1>7 DEF Uploaded
  <2>1. p \in ToSet(r)
    BY <1>2
  <2>2. Holds(video'[k], p)
    BY <1>5, <1>6, <2>1 DEF Holds
  <2> QED
    BY <1>2, <2>2 DEF Safe, Holds
<1> QED
  BY <1>7, <1>8, <1>9, <1>10, <1>11, <1>12, <1>13, <1>14 DEF IInv

LEMMA MergerIndexStep == ASSUME IInv, NEW ok \in BOOLEAN, MergerIndex(ok) PROVE IInv'
<1> USE DEF world, history, store, services, repair, copies
<1>0. Typed /\ MergerPlan /\ Uploaded /\ merger.pc = "index"
  BY DEF IInv, MergerIndex
<1>1. /\ UNCHANGED <<now, pieces, disk, video, queue, worker, indexer, tool, journal, staged, read, overtaken, deleted>>
      /\ UNCHANGED <<stuck, overwritten>>
      /\ merger' = [merger EXCEPT !.pc = "enqueue"] /\ items' = IF ok THEN Indexed(items, Listed) ELSE items
  BY DEF MergerIndex
<1>2. MergerPlan' /\ merger' \in Scans /\ merger'.pc = "enqueue" /\ \A i : Of(i)' = Of(i)
  <2>1. "enqueue" \in MergerPcs /\ merger.pc # "cleanup" /\ merger.groups # <<>> /\ \E p \in Of(1) : pieces[p].real
    BY <1>0 DEF MergerPcs, MergerPlan
  <2> QED
    BY <1>0, <1>1, <2>1, PcPlan
<1>3. items' \in [Piece -> Rows]
  <2>1. items \in [Piece -> Rows]
    BY <1>0 DEF Typed
  <2> QED
    BY <1>1, <2>1, IndexedType
<1>4. Typed'
  BY <1>0, <1>1, <1>2, <1>3 DEF Typed, Recorded
<1>5. Uploaded'
  BY <1>0, <1>1, <1>2, SameSafe DEF Uploaded
<1> QED
  BY <1>1, <1>2, <1>4, <1>5, MergerMoves

LEMMA MergerEnqueueStep == ASSUME IInv, NEW ok \in BOOLEAN, MergerEnqueue(ok) PROVE IInv'
<1> USE DEF world, history, store, services, repair, copies
<1>0. Typed /\ MergerPlan /\ Uploaded /\ merger.pc = "enqueue"
  BY DEF IInv, MergerEnqueue
<1>1. /\ UNCHANGED <<now, pieces, disk, video, items, worker, indexer, tool, journal, staged, read, overtaken, deleted>>
      /\ UNCHANGED <<stuck, overwritten>>
      /\ merger' = [merger EXCEPT !.pc = "cleanup"] /\ queue' = IF ok THEN queue \cup {MergeKey} ELSE queue
  BY DEF MergerEnqueue
<1>2. MergerPlan' /\ merger' \in Scans /\ merger'.pc = "cleanup" /\ \A i : Of(i)' = Of(i)
  <2>1. "cleanup" \in MergerPcs /\ merger.pc # "cleanup" /\ merger.groups # <<>> /\ "cleanup" \notin {"upload", "index", "enqueue"}
    BY <1>0 DEF MergerPcs, MergerPlan
  <2> QED
    BY <1>0, <1>1, <2>1, PcPlan
<1>3. queue' \subseteq Piece
  <2>1. queue \subseteq Piece /\ MergeKey \in Piece
    BY <1>0, MergeKeySound DEF Typed
  <2> QED
    BY <1>1, <2>1
<1>4. Typed'
  BY <1>0, <1>1, <1>2, <1>3 DEF Typed, Recorded
<1>5. Uploaded'
  BY <1>0, <1>1, <1>2, SameSafe DEF Uploaded
<1> QED
  BY <1>1, <1>2, <1>4, <1>5, MergerMoves

LEMMA MergerCleanupStep == ASSUME IInv, NEW ok \in BOOLEAN, MergerCleanup(ok) PROVE IInv'
<1> USE DEF world, history, store, services, repair, copies
<1>0. Typed /\ MergerPlan /\ Uploaded /\ Lossless /\ Clocked /\ DiskRules /\ Shapes /\ ToolPlan /\ merger.pc = "cleanup"
  BY DEF IInv, MergerCleanup
<1>1. UNCHANGED <<now, pieces, video, items, queue, worker, indexer, tool, journal, staged, read, overtaken, deleted, overwritten>>
  BY DEF MergerCleanup
<1>2. /\ merger.groups # <<>> /\ 1 \in DOMAIN merger.groups /\ Of(1) = ToSet(Group.pieces) /\ Of(1) \subseteq Recorded
      /\ disk \subseteq Recorded /\ Recorded \subseteq Piece /\ Removable \subseteq disk /\ \A p \in Recorded : p \in Nat
  <2>1. merger.groups # <<>>
    BY <1>0 DEF MergerPlan
  <2> QED
    BY <1>0, <2>1, HeadGroup, PieceNumbers DEF Typed, Removable
<1>k. merger.kept \subseteq stuck /\ merger \in Scans
  BY <1>0 DEF MergerPlan, Typed
<1>r. PICK rest : rest = (Of(1) \cap disk) \ merger.kept
  OBVIOUS
<1>3. CASE rest = {}
  <2>1. /\ disk' = disk /\ stuck' = stuck
        /\ merger' = [pc |-> "next", groups |-> Tail(merger.groups), kept |-> {}]
    BY <1>2, <1>r, <1>3 DEF MergerCleanup
  <2>2. MergerPlan' /\ merger' \in Scans
    BY <1>0, <1>1, <1>2, <1>k, <1>r, <1>3, <2>1, TailPlan
  <2>3. Uploaded'
    BY <2>1 DEF Uploaded
  <2>4. Typed'
    BY <1>0, <1>1, <2>1, <2>2 DEF Typed, Recorded
  <2> QED
    BY <1>1, <2>1, <2>2, <2>3, <2>4, MergerMoves
<1>4. CASE rest # {} /\ ok
  <2>1. PICK m : m = Min(rest)
    OBVIOUS
  <2>2. disk' = disk \ {m} /\ merger' = merger /\ stuck' = stuck /\ Removable' = Removable \ {m}
    BY <1>2, <1>r, <1>4, <2>1 DEF MergerCleanup, Removable
  <2>3. m \in Of(1) /\ m \in disk /\ \A q \in rest : m <= q
    <3>1. rest \in SUBSET Nat
      BY <1>2, <1>r
    <3>2. PICK x \in rest : \A y \in rest : x <= y
      BY <1>4, <3>1, LeastOfNaturals
    <3> QED
      BY <1>r, <2>1, <3>2 DEF Min
  <2>4. \A q \in Removable : q # m => m < q
    <3> SUFFICES ASSUME NEW q \in Removable, q # m PROVE m < q
      OBVIOUS
    <3>1. CASE q \in Of(1)
      <4>1. q \in rest
        BY <1>2, <1>k, <1>r, <3>1 DEF Removable
      <4> QED
        BY <1>2, <2>3, <4>1
    <3>2. CASE \E i \in DOMAIN merger.groups : q \in Of(i) /\ i # 1
      <4>1. PICK i \in DOMAIN merger.groups : q \in Of(i) /\ i # 1
        BY <3>2
      <4>2. 1 < i
        BY <1>0, <4>1, ScanGroups
      <4> QED
        BY <1>0, <1>2, <2>3, <4>1, <4>2 DEF MergerPlan
    <3>3. CASE \A i \in DOMAIN merger.groups : q \notin Of(i)
      BY <1>0, <1>2, <2>3, <3>3 DEF MergerPlan
    <3> QED
      BY <3>1, <3>2, <3>3
  <2>5. Typed'
    <3>1. disk' \subseteq Recorded
      BY <1>2, <2>2
    <3> QED
      BY <1>0, <1>1, <2>2, <3>1 DEF Typed, Recorded
  <2>6. Clocked'
    BY <1>0, <1>1, <2>2 DEF Clocked, Recorded
  <2>7. Shapes' /\ Journals' /\ Copies'
    BY <1>1, SameShapes, SameJournals, SameCopies DEF IInv
  <2>8. DiskRules'
    <3>1. ASSUME NEW q \in Removable', pieces[q].real PROVE ToSet(video[q].pieces) \subseteq disk'
      <4>1. q \in Removable /\ q # m /\ m < q /\ q \in Piece /\ q \in Nat /\ m \in Nat
        BY <1>2, <2>2, <2>3, <2>4
      <4>2. ToSet(video[q].pieces) \subseteq disk
        BY <1>0, <3>1, <4>1 DEF DiskRules
      <4>3. m \notin ToSet(video[q].pieces)
        <5> SUFFICES ASSUME m \in ToSet(video[q].pieces) PROVE FALSE
          OBVIOUS
        <5>1. video[q] # NoVideo
          BY DEF NoVideo, ToSet
        <5>2. q <= m
          BY <1>0, <4>1, <5>1 DEF Shapes, Shaped
        <5> QED
          BY <4>1, <5>2
      <4> QED
        BY <2>2, <4>2, <4>3
    <3>2. Removable' \subseteq Removable
      BY <2>2
    <3> QED
      BY <1>0, <1>1, <3>1, <3>2 DEF DiskRules
  <2>9. MergerPlan'
    <3>1. \A i : Of(i)' = Of(i)
      BY <2>2 DEF Of
    <3>2. ASSUME NEW i \in DOMAIN merger.groups PROVE Of(i) \subseteq disk' \/ (i = 1 /\ merger.pc = "cleanup")
      <4>1. CASE i = 1
        BY <1>0, <4>1
      <4>2. CASE i # 1
        <5>1. 1 < i
          BY <1>0, <4>2, ScanGroups
        <5>2. Of(i) \subseteq disk
          BY <1>0, <4>2 DEF MergerPlan
        <5>3. \A q \in Of(i) : m < q
          BY <1>0, <1>2, <2>3, <5>1 DEF MergerPlan
        <5>4. m \notin Of(i)
          BY <1>2, <2>3, <5>3
        <5> QED
          BY <2>2, <5>2, <5>4
      <4> QED
        BY <4>1, <4>2
    <3>3. Removable' \subseteq Removable /\ Recorded' = Recorded /\ now' = now /\ pieces' = pieces
      BY <1>1, <2>2 DEF Recorded
    <3>4. \A i \in DOMAIN merger.groups : Ready(merger.groups[i]) => Ready(merger.groups[i])'
      BY <2>2, <3>3 DEF Ready
    <3> QED
      BY <1>0, <2>2, <3>1, <3>2, <3>3, <3>4 DEF MergerPlan
  <2>10. ToolPlan'
    <3>1. \A g : Planned(g) => Planned(g)'
      BY <1>1, <2>2 DEF Planned, OnDisk, Recorded
    <3> QED
      BY <1>0, <1>1, <3>1 DEF ToolPlan, Target, Plan
  <2>11. \A p : Safe(p) => Safe(p)'
    BY <1>1, SameSafe
  <2>12. Uploaded'
    BY <1>0, <1>1, <2>2, <2>11 DEF Uploaded, Of
  <2>13. Lossless'
    <3> SUFFICES ASSUME NEW p \in Recorded, pieces[p].real, p \notin disk' PROVE Safe(p)
      BY <1>1, <2>11 DEF Lossless, Recorded
    <3>1. CASE p = m
      BY <1>0, <2>3, <3>1 DEF Uploaded
    <3>2. CASE p # m
      BY <1>0, <2>2, <3>2 DEF Lossless
    <3> QED
      BY <3>1, <3>2
  <2> QED
    BY <2>5, <2>6, <2>7, <2>8, <2>9, <2>10, <2>12, <2>13 DEF IInv
<1>5. CASE rest # {} /\ ~ ok
  <2>1. PICK m : m = Min(rest)
    OBVIOUS
  <2>2. /\ disk' = disk /\ merger' = [merger EXCEPT !.kept = @ \cup {m}] /\ stuck' = stuck \cup {m}
        /\ Removable' \subseteq Removable
    BY <1>2, <1>r, <1>5, <2>1 DEF MergerCleanup, Removable
  <2>3. m \in Piece
    <3>1. rest \in SUBSET Nat
      BY <1>2, <1>r
    <3>2. PICK x \in rest : \A y \in rest : x <= y
      BY <1>5, <3>1, LeastOfNaturals
    <3> QED
      BY <1>2, <1>r, <2>1, <3>2 DEF Min
  <2>4. merger' \in Scans /\ merger'.pc = "cleanup" /\ merger'.groups = merger.groups /\ merger'.kept = merger.kept \cup {m}
    BY <1>0, <1>k, <2>2, <2>3 DEF Scans
  <2>5. Typed' /\ Clocked'
    BY <1>0, <1>1, <2>2, <2>4, SameClock DEF Typed, Recorded
  <2>6. Shapes' /\ Journals' /\ Copies'
    BY <1>1, SameShapes, SameJournals, SameCopies DEF IInv
  <2>7. DiskRules'
    BY <1>0, <1>1, <2>2 DEF DiskRules
  <2>8. MergerPlan'
    <3>1. \A i : Of(i)' = Of(i)
      BY <2>4 DEF Of
    <3>2. Recorded' = Recorded /\ now' = now /\ pieces' = pieces
      BY <1>1 DEF Recorded
    <3>3. \A i \in DOMAIN merger.groups : Ready(merger.groups[i]) => Ready(merger.groups[i])'
      BY <2>4, <3>2 DEF Ready
    <3>4. merger'.kept \subseteq stuck'
      BY <1>k, <2>2, <2>4
    <3> QED
      BY <1>0, <2>2, <2>4, <3>1, <3>2, <3>3, <3>4 DEF MergerPlan
  <2>9. ToolPlan'
    <3>1. \A g : Planned(g) => Planned(g)'
      BY <1>1, <2>2 DEF Planned, OnDisk, Recorded
    <3> QED
      BY <1>0, <1>1, <3>1 DEF ToolPlan, Target, Plan
  <2>10. \A p : Safe(p) => Safe(p)'
    BY <1>1, SameSafe
  <2>11. Uploaded'
    BY <1>0, <1>1, <2>4, <2>10 DEF Uploaded, Of
  <2>12. Lossless'
    BY <1>0, <1>1, <2>2, <2>10 DEF Lossless, Recorded
  <2> QED
    BY <2>5, <2>6, <2>7, <2>8, <2>9, <2>11, <2>12 DEF IInv
<1> QED
  BY <1>3, <1>4, <1>5

-----------------------------------------------------------------------------
(* The administrator.                                                      *)

LEMMA DeleteItemStep == ASSUME IInv, NEW k \in Piece, DeleteItem(k) PROVE IInv'
<1> USE DEF world, history, store, services, repair, copies
<1>0. Typed /\ MergerPlan /\ Uploaded /\ Lossless /\ DiskRules /\ Shapes /\ Copies
  BY DEF IInv
<1>1. /\ video' = [video EXCEPT ![k] = NoVideo] /\ items' = [items EXCEPT ![k] = "absent"]
      /\ deleted' = deleted \cup ToSet(video[k].pieces)
      /\ now' = now /\ pieces' = pieces /\ disk' = disk /\ queue' = queue /\ merger' = merger /\ worker' = worker
      /\ indexer' = indexer /\ tool' = tool /\ journal' = journal /\ staged' = staged /\ read' = read /\ overtaken' = overtaken
      /\ stuck' = stuck /\ overwritten' = overwritten
  BY DEF DeleteItem
<1>2. NoVideo \in Videos /\ ToSet(NoVideo.pieces) = {} /\ ~ NoVideo.holed
  <2>1. <<>> \in Seq(Piece)
    OBVIOUS
  <2> QED
    BY <2>1 DEF NoVideo, Videos, ToSet
<1>3. video'[k] = NoVideo /\ (\A x \in Piece : x # k => video'[x] = video[x]) /\ video' \in [Piece -> Videos]
  <2>1. video \in [Piece -> Videos]
    BY <1>0 DEF Typed
  <2> QED
    BY <1>1, <1>2, <2>1
<1>4. Typed'
  <2>1. ToSet(video[k].pieces) \subseteq Piece
    <3>1. video[k].pieces \in Seq(Piece)
      BY <1>0 DEF Typed, Videos
    <3> QED
      BY <3>1, ElementOfSeq DEF ToSet
  <2>2. items' \in [Piece -> Rows]
    BY <1>0, <1>1 DEF Typed, Rows
  <2> QED
    BY <1>0, <1>1, <1>3, <2>1, <2>2 DEF Typed, Recorded
<1>5. Clocked' /\ MergerPlan' /\ ToolPlan' /\ Journals'
  BY <1>1, SameClock, SameMerger, SameTool, SameJournals DEF IInv
<1>6. Shapes'
  <2>1. \A x \in Piece : Shaped(video'[x], x)
    BY <1>0, <1>3 DEF Shapes, Shaped
  <2> QED
    BY <1>0, <1>1, <2>1 DEF Shapes, Shaped, Recorded
<1>7. DiskRules'
  <2>1. ASSUME NEW q \in Removable, pieces[q].real
        PROVE  (\A x \in Piece : video'[x] # NoVideo => x <= q) /\ ToSet(video'[q].pieces) \subseteq disk /\ ~ video'[q].holed
    <3>1. q \in Piece
      BY <1>0 DEF Typed, Removable
    <3>2. (\A x \in Piece : video[x] # NoVideo => x <= q) /\ ToSet(video[q].pieces) \subseteq disk /\ ~ video[q].holed
      BY <1>0, <2>1 DEF DiskRules
    <3>3. \A x \in Piece : video'[x] = NoVideo \/ video'[x] = video[x]
      BY <1>3
    <3> QED
      BY <1>2, <3>1, <3>2, <3>3
  <2> QED
    BY <1>0, <1>1, <2>1 DEF DiskRules, Removable
<1>8. \A x \in Piece : ToSet(video[x].pieces) \subseteq ToSet(video'[x].pieces) \cup deleted'
  BY <1>1, <1>3
<1>9. Copies'
  <2>1. Target' = Target
    BY <1>1 DEF Target, Plan
  <2>2. ASSUME tool.pc \in Published
        PROVE  ToSet(staged[tool.kind][Target].pieces) \subseteq ToSet(video'[Target].pieces) \cup deleted' \cup overwritten
    <3>1. Target \in Piece
      <4>1. tool.pc # "idle" /\ tool.groups # <<>> /\ ToolPlan
        BY <2>2 DEF IInv, ToolPlan, Published
      <4> QED
        BY <1>0, <4>1, TargetSound
    <3>2. ToSet(staged[tool.kind][Target].pieces) \subseteq ToSet(video[Target].pieces) \cup deleted \cup overwritten
      BY <1>0, <2>2 DEF Copies
    <3> QED
      BY <1>1, <1>8, <3>1, <3>2
  <2> QED
    BY <1>0, <1>1, <2>1, <2>2 DEF Copies
<1>10. \A p : Safe(p) => Safe(p)'
  BY <1>1, <1>8 DEF Safe, Holds
<1>11. Uploaded' /\ Lossless'
  BY <1>0, <1>1, <1>10, SafeStaysSafe
<1> QED
  BY <1>4, <1>5, <1>6, <1>7, <1>9, <1>11 DEF IInv

-----------------------------------------------------------------------------
(* The repair tools.                                                       *)

\* A step that moves the tool and nothing of the archive.
LEMMA ToolMoves ==
    ASSUME IInv, Typed', ToolPlan',
           \/ tool'.pc \notin Published
           \/ tool.pc \in Published /\ tool'.kind = tool.kind /\ tool'.groups = tool.groups,
           UNCHANGED <<now, pieces, disk, video, merger, journal, staged, read, overtaken, deleted, stuck, overwritten>>
    PROVE  IInv'
<1>1. /\ now' = now /\ pieces' = pieces /\ disk' = disk /\ video' = video /\ merger' = merger
      /\ journal' = journal /\ staged' = staged /\ read' = read /\ overtaken' = overtaken /\ deleted' = deleted
      /\ stuck' = stuck /\ overwritten' = overwritten
  OBVIOUS
<1>2. Clocked' /\ Shapes' /\ DiskRules' /\ MergerPlan' /\ Journals'
  BY <1>1, SameClock, SameShapes, SameDisk, SameMerger, SameJournals DEF IInv
<1>3. Uploaded' /\ Lossless'
  BY <1>1, SameSafe, SafeStaysSafe DEF IInv
<1>4. Copies'
  <2>1. CASE tool'.pc \notin Published
    BY <1>1, <2>1 DEF IInv, Copies
  <2>2. CASE tool.pc \in Published /\ tool'.kind = tool.kind /\ tool'.groups = tool.groups
    <3>1. Target' = Target
      BY <2>2 DEF Target, Plan
    <3> QED
      BY <1>1, <2>2, <3>1 DEF IInv, Copies
  <2> QED
    BY <2>1, <2>2
<1> QED
  BY <1>2, <1>3, <1>4 DEF IInv

\* The tool goes to another step on its group.
LEMMA PcTool ==
    ASSUME Typed, tool.pc # "idle", NEW pc \in ToolPcs \ {"idle"}, Step(pc)
    PROVE  /\ tool' \in Tools /\ tool'.pc = pc /\ tool'.kind = tool.kind /\ tool'.groups = tool.groups
           /\ Plan' = Plan /\ Target' = Target /\ tool.kind \in Kinds
<1>1. tool \in Tools /\ pc \in ToolPcs /\ tool' = [tool EXCEPT !.pc = pc, !.dropped = 0]
  BY DEF Typed, Step
<1>2. tool' \in Tools /\ tool'.pc = pc /\ tool'.kind = tool.kind /\ tool'.groups = tool.groups
  BY <1>1, ToolPc, Zenon
<1>3. tool.kind \in Kinds
  BY DEF Typed
<1> QED
  BY <1>2, <1>3 DEF Target, Plan

\* Groups that stay planned.
LEMMA StillPlanned ==
    ASSUME ToolPlan, tool'.kind = tool.kind, tool'.groups = tool.groups, UNCHANGED <<pieces, disk, stuck>>
    PROVE  \A i \in DOMAIN tool'.groups : Planned(tool.groups[i])'
<1>1. pieces' = pieces /\ disk' = disk /\ stuck' = stuck
  OBVIOUS
<1> QED
  BY <1>1 DEF ToolPlan, Planned, Recorded, OnDisk, Removable

\* The tool u is the tool t gone on to the groups gs, after a failure or not.
GoneOn(t, gs, u) ==
    \/ u = [t EXCEPT !.pc = "group", !.groups = gs]
    \/ u = [t EXCEPT !.pc = "group", !.groups = gs, !.failed = TRUE]
    \/ u = [t EXCEPT !.pc = "group", !.groups = gs, !.dropped = 0, !.failed = TRUE]

\* A tool that goes on is at a group, with the kind it had.
LEMMA ToolRest ==
    ASSUME NEW t \in Tools, NEW gs \in Seq(Seq(Piece)), NEW u, GoneOn(t, gs, u)
    PROVE  u \in Tools /\ u.pc = "group" /\ u.kind = t.kind /\ u.groups = gs
<1>1. "group" \in ToolPcs
  BY DEF ToolPcs
<1>2. CASE u = [t EXCEPT !.pc = "group", !.groups = gs]
  BY <1>1, <1>2 DEF Tools
<1>3. CASE u = [t EXCEPT !.pc = "group", !.groups = gs, !.failed = TRUE]
  BY <1>1, <1>3 DEF Tools
<1>4. CASE u = [t EXCEPT !.pc = "group", !.groups = gs, !.dropped = 0, !.failed = TRUE]
  BY <1>1, <1>4 DEF Tools
<1> QED
  BY <1>2, <1>3, <1>4 DEF GoneOn

LEMMA RestPlanned ==
    ASSUME Typed, ToolPlan, tool.pc # "idle", tool.groups # <<>>, UNCHANGED <<pieces, disk, stuck>>,
           \/ NextGroup
           \/ tool' = [tool EXCEPT !.pc = "group", !.groups = Tail(@), !.failed = TRUE]
           \/ tool' = [tool EXCEPT !.pc = "group", !.groups = Tail(@), !.dropped = 0, !.failed = TRUE]
    PROVE  tool' \in Tools /\ tool'.pc = "group" /\ tool'.kind \in Kinds /\ ToolPlan'
<1> DEFINE gs == tool.groups
           hs == Tail(gs)
<1>1. gs \in Seq(Seq(Piece)) /\ gs # <<>> /\ DOMAIN gs = 1..Len(gs) /\ Len(gs) \in Nat /\ tool \in Tools /\ tool.kind \in Kinds
  BY ToolGroups DEF Typed
<1>2. /\ hs \in Seq(Seq(Piece)) /\ DOMAIN hs = 1..Len(hs) /\ Len(hs) \in Nat /\ Len(hs) = Len(gs) - 1
      /\ \A i \in 1..Len(hs) : hs[i] = gs[i + 1]
  <2> DEFINE T == Seq(Piece)
  <2>1. gs \in Seq(T)
    BY <1>1
  <2> HIDE DEF gs, T
  <2>2. hs \in Seq(T) /\ DOMAIN hs = 1..Len(hs) /\ Len(hs) \in Nat /\ Len(hs) = Len(gs) - 1 /\ \A i \in 1..Len(hs) : hs[i] = gs[i + 1]
    BY <1>1, <2>1, HeadTailProperties
  <2> QED
    BY <2>2 DEF T
<1>3. tool' \in Tools /\ tool'.pc = "group" /\ tool'.kind = tool.kind /\ tool'.groups = hs
  <2> HIDE DEF hs
  <2>1. GoneOn(tool, hs, tool')
    BY DEF NextGroup, GoneOn, hs
  <2>2. hs \in Seq(Seq(Piece)) /\ tool \in Tools
    BY <1>1, <1>2
  <2> QED
    BY <2>1, <2>2, ToolRest
<1>4. ASSUME NEW i \in DOMAIN hs PROVE Planned(tool.groups[i])'
  <2>1. i + 1 \in DOMAIN gs /\ hs[i] = gs[i + 1]
    BY <1>1, <1>2
  <2>2. PICK g : g = gs[i + 1]
    OBVIOUS
  <2>3. Planned(g)
    BY <2>1, <2>2 DEF ToolPlan
  <2>4. tool'.groups[i] = g
    BY <1>3, <2>1, <2>2
  <2> HIDE DEF gs, hs
  <2> QED
    BY <1>3, <2>3, <2>4 DEF Planned, Recorded, OnDisk, Removable
<1>5. ToolPlan'
  BY <1>3, <1>4 DEF ToolPlan, Published
<1> QED
  BY <1>1, <1>3, <1>5

LEMMA ToolStartsStep == ASSUME IInv, NEW kind \in Kinds, ToolStarts(kind) PROVE IInv'
<1> USE DEF world, history, store, services, repair, copies
<1>0. Typed /\ DiskRules /\ Shapes /\ Journals
  BY DEF IInv
<1> DEFINE gs == ToolPlans(kind)
<1>1. /\ UNCHANGED <<now, pieces, disk, video, items, queue, merger, worker, indexer, journal, staged, read, overtaken, deleted, stuck, overwritten>>
      /\ tool' = [pc |-> "group", kind |-> kind, dropped |-> 0, failed |-> FALSE, groups |-> gs]
  BY DEF ToolStarts
<1>2. NPieces \in Nat /\ Piece = 1..NPieces /\ Recorded \subseteq Piece
  BY <1>0, PieceNumbers DEF Typed
<1>3. Listed \subseteq Recorded /\ Listed \in SUBSET (1..NPieces)
  BY <1>0, <1>2 DEF Listed, Shapes, Shaped
<1> DEFINE Fits(g) == /\ g # <<>> /\ ToSet(g) \subseteq Recorded /\ \A j \in 2..Len(g) : g[1] < g[j]
                      /\ kind = "gaps" => Len(g) = 1 /\ ~ OnDisk(g[1])
<1>4. gs \in Seq(Seq(Piece)) /\ \A i \in DOMAIN gs : Fits(gs[i])
  <2>1. CASE kind = "repair"
    <3> DEFINE ks == Ordered(Listed)
               hs == GroupByGap(ks)
    <3>1. ks \in Seq(Listed) /\ Ascending(ks) /\ ToSet(ks) = Listed
      BY <1>2, <1>3, OrderedSound
    <3>2. ks \in Seq(Piece)
      <4>1. Listed \subseteq Piece
        BY <1>2, <1>3
      <4> HIDE DEF ks
      <4> QED
        BY <3>1, <4>1, SeqMonotonic
    <3> HIDE DEF ks
    <3>3. hs \in Seq(Seq(Piece)) /\ Grouped(hs, Listed, AnyGap)
      BY <3>1, <3>2, GroupByGapSound
    <3> HIDE DEF hs
    <3>4. ASSUME NEW i \in DOMAIN hs PROVE Fits(hs[i])
      <4>1. hs[i] \in Seq(Piece)
        <5>1. DOMAIN hs = 1..Len(hs)
          BY <3>3
        <5> QED
          BY <3>3, <5>1, ElementOfSeq
      <4>2. PICK g \in Seq(Piece) : g = hs[i]
        BY <4>1
      <4>3. g # <<>> /\ Ascending(g) /\ ToSet(g) \subseteq Listed
        BY <3>3, <4>2 DEF Grouped
      <4>4. g \in Seq(1..NPieces)
        BY <1>2
      <4>5. \A j \in 2..Len(g) : g[1] < g[j]
        BY <1>2, <4>3, <4>4, AscendingHead
      <4> QED
        BY <1>3, <2>1, <4>2, <4>3, <4>5
    <3> HIDE DEF Fits
    <3>5. gs = hs
      BY <2>1 DEF ToolPlans, hs, ks
    <3> QED
      BY <3>3, <3>4, <3>5
  <2>2. CASE kind = "gaps"
    <3> DEFINE pending == {k \in Listed : Pending(k)}
               broken == {k \in Listed \ pending : Broken(k)}
               ks == Ordered(pending) \o Ordered(broken)
               hs == [i \in DOMAIN ks |-> <<ks[i]>>]
    <3>1. gs = hs
      BY <2>2 DEF ToolPlans, GapsPlan
    <3>2. pending \in SUBSET (1..NPieces) /\ broken \in SUBSET (1..NPieces) /\ pending \subseteq Recorded /\ broken \subseteq Recorded
      BY <1>3
    <3>3. \A k \in pending \cup broken : ~ OnDisk(k)
      <4> TAKE k \in pending \cup broken
      <4>1. k \in Piece /\ (journal["gaps"][k] # NoJournal \/ video[k].holed)
        BY <1>2, <1>3 DEF Pending, Broken
      <4>2. "gaps" \in Kinds
        BY DEF Kinds
      <4>3. journal["gaps"][k] # NoJournal => staged["gaps"][k] # NoVideo
        BY <1>0, <4>1, <4>2 DEF Journals
      <4> QED
        BY <1>0, <4>1, <4>2, <4>3 DEF DiskRules, OnDisk, Removable
    <3> HIDE DEF pending, broken
    <3>4. PICK a : a = Ordered(pending)
      OBVIOUS
    <3>5. PICK b : b = Ordered(broken)
      OBVIOUS
    <3>6. a \in Seq(pending) /\ b \in Seq(broken)
      BY <1>2, <3>2, <3>4, <3>5, OrderedSound
    <3> DEFINE S == pending \cup broken
    <3>7. a \in Seq(S) /\ b \in Seq(S)
      <4>1. pending \subseteq S /\ broken \subseteq S
        OBVIOUS
      <4> HIDE DEF S
      <4> QED
        BY <3>6, <4>1, SeqMonotonic
    <3>8. ks = a \o b
      BY <3>4, <3>5
    <3> HIDE DEF S, ks
    <3>9. ks \in Seq(S)
      BY <3>7, <3>8
    <3>10. DOMAIN ks = 1..Len(ks) /\ Len(ks) \in Nat /\ \A i \in DOMAIN ks : ks[i] \in S
      BY <3>9, ElementOfSeq
    <3>11. S \subseteq Piece /\ S \subseteq Recorded /\ \A k \in S : ~ OnDisk(k)
      BY <1>2, <3>2, <3>3 DEF S
    <3>12. \A i \in DOMAIN ks : <<ks[i]>> \in Seq(Piece)
      BY <3>10, <3>11
    <3>13. hs \in Seq(Seq(Piece)) /\ DOMAIN hs = DOMAIN ks /\ \A i \in DOMAIN ks : hs[i] = <<ks[i]>>
      <4> DEFINE f(i) == <<ks[i]>>
      <4>1. \A i \in 1..Len(ks) : f(i) \in Seq(Piece)
        BY <3>10, <3>12
      <4>2. hs = [i \in 1..Len(ks) |-> f(i)]
        BY <3>10
      <4> HIDE DEF f
      <4>3. [i \in 1..Len(ks) |-> f(i)] \in Seq(Seq(Piece))
        BY <3>10, <4>1
      <4> QED
        BY <4>2, <4>3
    <3>14. ASSUME NEW x \in S PROVE Fits(<<x>>)
      <4>1. <<x>> # <<>> /\ ToSet(<<x>>) = {x} /\ Len(<<x>>) = 1 /\ <<x>>[1] = x /\ 2..Len(<<x>>) = {}
        BY DEF ToSet
      <4> QED
        BY <3>11, <4>1
    <3> HIDE DEF Fits, hs
    <3> QED
      BY <3>1, <3>10, <3>13, <3>14
  <2> QED
    BY <2>1, <2>2 DEF Kinds
<1> HIDE DEF gs
<1>5. tool' \in Tools /\ tool'.pc = "group" /\ tool'.kind = kind /\ tool'.groups = gs
  BY <1>1, <1>4 DEF Tools, ToolPcs
<1>6. Typed'
  BY <1>0, <1>1, <1>5 DEF Typed, Recorded
<1>7. ToolPlan'
  <2>1. ASSUME NEW i \in DOMAIN gs PROVE Planned(tool.groups[i])'
    <3>1. PICK g : g = gs[i]
      OBVIOUS
    <3>2. Fits(g)
      BY <1>4, <3>1
    <3> QED
      BY <1>1, <1>5, <3>1, <3>2 DEF Planned, OnDisk, Removable, Recorded
  <2> QED
    BY <1>5, <2>1 DEF ToolPlan, Published
<1> QED
  BY <1>1, <1>5, <1>6, <1>7, ToolMoves DEF Published

LEMMA ToolGroupStep == ASSUME IInv, ToolGroup PROVE IInv'
<1> USE DEF world, history, store, services, repair, copies
<1>0. Typed /\ ToolPlan /\ tool.pc = "group" /\ tool.groups # <<>>
  BY DEF IInv, ToolGroup
<1>1. UNCHANGED <<now, pieces, disk, video, items, queue, merger, worker, indexer, journal, staged, read, overtaken, deleted, stuck, overwritten>>
  BY DEF ToolGroup
<1>2. Plan \in Seq(Piece) /\ Plan # <<>> /\ Target \in Piece /\ tool.kind \in Kinds
  BY <1>0, TargetSound
<1>3. ASSUME NEW pc \in {"publish", "stage"}, Step(pc), pc = "publish" => journal[tool.kind][Target] # NoJournal,
             pc = "stage" => journal[tool.kind][Target] = NoJournal /\ (tool.kind = "repair" => Len(Plan) # 1)
      PROVE  IInv'
  <2>1. pc \in ToolPcs \ {"idle"}
    BY DEF ToolPcs
  <2>2. /\ tool' \in Tools /\ tool'.pc = pc /\ tool'.kind = tool.kind /\ tool'.groups = tool.groups
        /\ Plan' = Plan /\ Target' = Target
    BY <1>0, <1>3, <2>1, PcTool
  <2>3. \A i \in DOMAIN tool'.groups : Planned(tool.groups[i])'
    BY <1>0, <1>1, <2>2, StillPlanned
  <2>4. tool.kind = "repair" /\ pc = "stage" => Len(Plan) >= 2
    <3>1. PICK n \in Nat : n = Len(Plan) /\ n # 0
      BY <1>2, EmptySeq
    <3>2. n # 1 => n >= 2
      BY <3>1
    <3> QED
      BY <1>3, <3>1, <3>2, Zenon
  <2>5. ToolPlan'
    BY <1>0, <1>1, <1>3, <2>2, <2>3, <2>4 DEF ToolPlan, Published
  <2>6. Typed'
    BY <1>0, <1>1, <1>2, <2>2 DEF Typed, Recorded
  <2> QED
    BY <1>1, <2>2, <2>5, <2>6, ToolMoves DEF Published
<1>4. ASSUME NextGroup PROVE IInv'
  <2>1. tool' \in Tools /\ tool'.pc = "group" /\ tool'.kind \in Kinds /\ ToolPlan'
    BY <1>0, <1>1, <1>4, RestPlanned
  <2>2. Typed'
    BY <1>0, <1>1, <2>1 DEF Typed, Recorded
  <2> QED
    BY <1>1, <2>1, <2>2, ToolMoves DEF Published
<1>5. \/ journal[tool.kind][Target] # NoJournal /\ Step("publish")
      \/ NextGroup
      \/ journal[tool.kind][Target] = NoJournal /\ ~ (tool.kind = "repair" /\ Len(Plan) = 1) /\ Step("stage")
  BY DEF ToolGroup
<1> QED
  BY <1>3, <1>4, <1>5

\* The tool ends or is killed.
LEMMA NoToolPlanned == ASSUME tool' = NoTool PROVE tool' \in Tools /\ tool'.pc = "idle" /\ ToolPlan'
<1>1. tool'.pc = "idle" /\ tool'.groups = <<>> /\ DOMAIN tool'.groups = {}
  BY DEF NoTool
<1>2. tool' \in Tools
  BY DEF NoTool, Tools, ToolPcs
<1>3. ToolPlan'
  BY <1>1 DEF ToolPlan, Published
<1> QED
  BY <1>1, <1>2, <1>3

LEMMA ToolEndsStep == ASSUME IInv, ToolEnds PROVE IInv'
<1> USE DEF world, history, store, services, repair, copies
<1>0. Typed
  BY DEF IInv
<1>1. /\ UNCHANGED <<now, pieces, disk, video, queue, merger, worker, indexer, journal, staged, read, overtaken, deleted, stuck, overwritten>>
      /\ tool' = NoTool /\ items' \in {items, Indexed(items, Listed)}
  BY DEF ToolEnds
<1>2. tool' \in Tools /\ tool'.pc = "idle" /\ ToolPlan'
  BY <1>1, NoToolPlanned
<1>3. items' \in [Piece -> Rows]
  <2>1. items \in [Piece -> Rows]
    BY <1>0 DEF Typed
  <2>2. Indexed(items, Listed) \in [Piece -> Rows]
    BY <2>1, IndexedType
  <2> QED
    BY <1>1, <2>1, <2>2
<1>4. Typed'
  BY <1>0, <1>1, <1>2, <1>3 DEF Typed, Recorded
<1> QED
  BY <1>1, <1>2, <1>4, ToolMoves DEF Published

LEMMA ToolGivesUpStep == ASSUME IInv, ToolMisses \/ \E dies \in BOOLEAN : ToolFails(dies) PROVE IInv'
<1> USE DEF world, history, store, services, repair, copies
<1>0. Typed /\ ToolPlan
  BY DEF IInv
<1>1. /\ tool.pc \notin {"idle", "group"}
      /\ UNCHANGED <<now, pieces, disk, video, items, queue, merger, worker, indexer, journal, staged, read, overtaken, deleted, stuck, overwritten>>
      /\ \/ tool' = NoTool
         \/ tool' = [tool EXCEPT !.pc = "group", !.groups = Tail(@), !.failed = TRUE]
         \/ tool' = [tool EXCEPT !.pc = "group", !.groups = Tail(@), !.dropped = 0, !.failed = TRUE]
  BY DEF ToolMisses, ToolFails
<1>2. tool.pc # "idle" /\ tool.groups # <<>>
  BY <1>0, <1>1 DEF ToolPlan
<1>3. tool' \in Tools /\ tool'.pc \in {"idle", "group"} /\ (tool'.pc # "idle" => tool'.kind \in Kinds) /\ ToolPlan'
  <2>1. CASE tool' = NoTool
    BY <2>1, NoToolPlanned
  <2>2. CASE tool' # NoTool
    BY <1>0, <1>1, <1>2, <2>2, RestPlanned
  <2> QED
    BY <2>1, <2>2
<1>4. Typed'
  BY <1>0, <1>1, <1>3 DEF Typed, Recorded
<1> QED
  BY <1>1, <1>3, <1>4, ToolMoves DEF Published

\* A copy of the kind and target at hand, in a table of copies.
LEMMA TableAt ==
    ASSUME NEW T, NEW table \in [Kinds -> [Piece -> T]], NEW kind \in Kinds, NEW k \in Piece, NEW v \in T
    PROVE  LET u == [table EXCEPT ![kind][k] = v]
           IN /\ u \in [Kinds -> [Piece -> T]] /\ u[kind][k] = v
              /\ \A j \in Kinds, x \in Piece : j # kind \/ x # k => u[j][x] = table[j][x]
OBVIOUS

LEMMA ToolStagesStep == ASSUME IInv, ToolStages PROVE IInv'
<1> USE DEF world, history, store, services, repair, copies
<1>0. /\ Typed /\ ToolPlan /\ Shapes /\ DiskRules /\ Journals /\ Copies /\ tool.pc = "stage" /\ tool.pc # "idle"
      /\ ToSet(Plan) \subseteq Listed /\ Step("journal")
  BY DEF IInv, ToolStages
<1>1. tool.groups # <<>> /\ journal[tool.kind][Target] = NoJournal /\ (tool.kind = "repair" => Len(Plan) >= 2)
  BY <1>0 DEF ToolPlan
<1>2. PICK kind \in Kinds, k \in Piece, g \in Seq(Piece) :
         kind = tool.kind /\ k = Target /\ g = Plan /\ g # <<>> /\ Planned(g) /\ k = g[1] /\ k \in ToSet(g) /\ k \in Recorded
  BY <1>0, <1>1, TargetSound
<1> DEFINE v == IF kind = "repair" THEN Merged(g) ELSE Rebuilt(k)
           d == UNION {ToSet(video[x].pieces) : x \in ToSet(g)}
<1>3. /\ staged' = [staged EXCEPT ![kind][k] = v] /\ read' = [read EXCEPT ![kind][k] = d]
      /\ now' = now /\ pieces' = pieces /\ disk' = disk /\ video' = video /\ items' = items /\ queue' = queue /\ merger' = merger
      /\ worker' = worker /\ indexer' = indexer /\ journal' = journal /\ overtaken' = overtaken /\ deleted' = deleted
      /\ stuck' = stuck /\ overwritten' = overwritten
  BY <1>2 DEF ToolStages
<1>4. ToSet(g) \subseteq Listed /\ ToSet(g) \subseteq Piece /\ ToSet(g) \subseteq Recorded /\ Recorded \subseteq Piece /\ \A p \in Piece : p \in Nat
  <2>1. NPieces \in Nat /\ Piece = 1..NPieces
    BY <1>0, PieceNumbers
  <2> QED
    BY <1>0, <1>2, <2>1 DEF Planned, Listed, Typed
<1>5. \A x \in ToSet(g) : k <= x
  <2>1. DOMAIN g = 1..Len(g) /\ Len(g) \in Nat /\ \A j \in 2..Len(g) : k < g[j]
    BY <1>2 DEF Planned
  <2>2. \A j \in 1..Len(g) : j = 1 \/ j \in 2..Len(g)
    BY <2>1
  <2>3. \A x \in ToSet(g) : x = k \/ k < x
    BY <1>2, <2>1, <2>2 DEF ToSet
  <2> QED
    BY <1>4, <2>3
<1>6. \A x \in ToSet(g) : video[x] # NoVideo /\ video[x].pieces # <<>> /\ video[x] \in Videos /\ \A p \in ToSet(video[x].pieces) : x <= p /\ p \in Piece
  <2> TAKE x \in ToSet(g)
  <2>1. x \in Piece /\ video[x] # NoVideo
    BY <1>4 DEF Listed
  <2>2. video[x].pieces # <<>> /\ \A p \in ToSet(video[x].pieces) : x <= p
    BY <1>0, <2>1 DEF Shapes, Shaped
  <2>3. video[x] \in Videos /\ video[x].pieces \in Seq(Piece)
    BY <1>0, <2>1 DEF Typed, Videos
  <2>4. ToSet(video[x].pieces) \subseteq Piece
    BY <2>3, ElementOfSeq DEF ToSet
  <2> QED
    BY <2>1, <2>2, <2>3, <2>4
<1>7. v \in Videos /\ ToSet(v.pieces) = d /\ v.pieces # <<>>
  <2>0. d # {}
    <3>1. 1 \in DOMAIN video[k].pieces
      <4>1. video[k].pieces \in Seq(Piece) /\ video[k].pieces # <<>>
        BY <1>2, <1>6 DEF Videos
      <4> QED
        BY <4>1, EmptySeq
    <3>2. video[k].pieces[1] \in ToSet(video[k].pieces)
      BY <3>1 DEF ToSet
    <3> QED
      BY <1>2, <3>2
  <2>1. CASE kind = "repair"
    <3>1. Glued(g) \in Seq(Piece) /\ \A p : p \in ToSet(Glued(g)) <=> \E x \in ToSet(g) : Holds(video[x], p)
      BY <1>0, GluedSound
    <3>2. ToSet(Glued(g)) = d
      BY <3>1 DEF Holds
    <3>3. Glued(g) # <<>>
      <4>1. ToSet(<<>>) = {}
        BY DEF ToSet
      <4> HIDE DEF d
      <4> QED
        BY <2>0, <3>2, <4>1
    <3>4. v = [pieces |-> Glued(g), holed |-> \E x \in ToSet(g) : video[x].holed]
      BY <2>1 DEF Merged
    <3>5. v \in Videos /\ v.pieces = Glued(g)
      <4> DEFINE b == \E x \in ToSet(g) : video[x].holed
      <4>1. b \in BOOLEAN /\ v = [pieces |-> Glued(g), holed |-> b]
        BY <3>4
      <4> HIDE DEF b, v
      <4> QED
        BY <3>1, <4>1 DEF Videos
    <3> HIDE DEF v, d
    <3> QED
      BY <3>2, <3>3, <3>5
  <2>2. CASE kind # "repair"
    <3>1. kind = "gaps"
      BY <2>2 DEF Kinds
    <3>2. Len(g) = 1
      BY <1>2, <3>1 DEF Planned
    <3>3. ToSet(g) = {k}
      BY <1>2, <3>2 DEF ToSet
    <3>4. d = ToSet(video[k].pieces)
      BY <3>3
    <3>5. v = [video[k] EXCEPT !.holed = FALSE] /\ video[k] \in Videos /\ video[k].pieces # <<>>
      BY <1>2, <1>6, <2>2 DEF Rebuilt
    <3>6. v \in Videos /\ v.pieces = video[k].pieces
      <4> HIDE DEF v
      <4> QED
        BY <3>5 DEF Videos
    <3> HIDE DEF v, d
    <3> QED
      BY <3>4, <3>5, <3>6
  <2> QED
    BY <2>1, <2>2
<1>8. d \subseteq Piece /\ \A p \in d : k <= p
  <2>1. ASSUME NEW p \in d PROVE p \in Piece /\ k <= p
    <3>1. PICK x \in ToSet(g) : p \in ToSet(video[x].pieces)
      OBVIOUS
    <3>2. x \in Nat /\ k \in Nat /\ k <= x
      BY <1>2, <1>4, <1>5
    <3>3. p \in Piece /\ p \in Nat /\ x <= p
      BY <1>4, <1>6, <3>1
    <3> QED
      BY <3>2, <3>3
  <2> QED
    BY <2>1
<1> HIDE DEF v, d
<1>9. v # NoVideo
  BY <1>7 DEF NoVideo
<1>10. /\ staged' \in [Kinds -> [Piece -> Videos]] /\ staged'[kind][k] = v
       /\ \A j \in Kinds, x \in Piece : j # kind \/ x # k => staged'[j][x] = staged[j][x]
  <2>1. staged \in [Kinds -> [Piece -> Videos]]
    BY <1>0 DEF Typed
  <2> QED
    BY <1>3, <1>7, <2>1, TableAt
<1>11. /\ read' \in [Kinds -> [Piece -> SUBSET Piece]] /\ read'[kind][k] = d
       /\ \A j \in Kinds, x \in Piece : j # kind \/ x # k => read'[j][x] = read[j][x]
  <2>1. read \in [Kinds -> [Piece -> SUBSET Piece]] /\ d \in SUBSET Piece
    BY <1>0, <1>8 DEF Typed
  <2> DEFINE T == SUBSET Piece
  <2>2. read \in [Kinds -> [Piece -> T]] /\ d \in T
    BY <2>1
  <2> HIDE DEF T
  <2>3. /\ read' \in [Kinds -> [Piece -> T]] /\ read'[kind][k] = d
        /\ \A j \in Kinds, x \in Piece : j # kind \/ x # k => read'[j][x] = read[j][x]
    BY <1>3, <2>2, TableAt
  <2> QED
    BY <2>3 DEF T
<1>12. tool' \in Tools /\ tool'.pc = "journal" /\ tool'.kind = kind /\ tool'.groups = tool.groups /\ Plan' = Plan /\ Target' = k
  <2>1. "journal" \in ToolPcs \ {"idle"}
    BY DEF ToolPcs
  <2> QED
    BY <1>0, <1>2, <2>1, PcTool
<1>13. Typed'
  BY <1>0, <1>3, <1>10, <1>11, <1>12 DEF Typed, Recorded
<1>14. Clocked' /\ MergerPlan'
  BY <1>3, SameClock, SameMerger DEF IInv
<1>15. Shapes'
  <2>1. \A j \in Kinds, x \in Piece : Shaped(staged'[j][x], x)
    <3> TAKE j \in Kinds, x \in Piece
    <3>1. CASE j = kind /\ x = k
      BY <1>2, <1>7, <1>8, <1>10, <3>1 DEF Shaped
    <3>2. CASE ~ (j = kind /\ x = k)
      BY <1>0, <1>10, <3>2 DEF Shapes
    <3> QED
      BY <3>1, <3>2
  <2> QED
    BY <1>0, <1>3, <2>1 DEF Shapes, Shaped, Recorded
<1>16. DiskRules'
  <2> SUFFICES ASSUME NEW q \in Removable, pieces[q].real
               PROVE  /\ \A x \in Piece, j \in Kinds : staged'[j][x] # NoVideo => x <= q
                      /\ \A j \in Kinds : staged'[j][q] = NoVideo
    BY <1>0, <1>3 DEF DiskRules, Removable
  <2>1. /\ \A x \in Piece : video[x] # NoVideo => x <= q
        /\ \A x \in Piece, j \in Kinds : staged[j][x] # NoVideo => x <= q
        /\ \A j \in Kinds : staged[j][q] = NoVideo
    BY <1>0 DEF DiskRules
  <2>2. k <= q
    BY <1>2, <1>6, <2>1
  <2>3. q \in Piece /\ q \in Nat
    BY <1>0, <1>4 DEF Typed, Removable
  <2>4. k # q
    <3>1. CASE kind = "repair"
      <4>1. 2 \in DOMAIN g /\ 2 \in 2..Len(g)
        <5>1. PICK n \in Nat : n = Len(g) /\ n >= 2 /\ DOMAIN g = 1..n
          BY <1>1, <1>2, <3>1
        <5> QED
          BY <5>1
      <4>2. g[2] \in ToSet(g) /\ k < g[2]
        BY <1>2, <4>1 DEF ToSet, Planned
      <4>3. g[2] <= q /\ g[2] \in Nat
        BY <1>4, <1>6, <2>1, <4>2
      <4> QED
        BY <1>4, <4>2, <4>3
    <3>2. CASE kind = "gaps"
      BY <1>2, <3>2 DEF Planned, OnDisk, Removable
    <3> QED
      BY <3>1, <3>2 DEF Kinds
  <2>5. \A x \in Piece, j \in Kinds : staged'[j][x] # NoVideo => x <= q
    BY <1>10, <2>1, <2>2
  <2> QED
    BY <1>10, <2>1, <2>3, <2>4, <2>5
<1>17. ToolPlan'
  <2>1. \A i \in DOMAIN tool'.groups : Planned(tool.groups[i])'
    BY <1>0, <1>2, <1>3, <1>12, StillPlanned
  <2> QED
    BY <1>1, <1>2, <1>3, <1>9, <1>10, <1>12, <2>1 DEF ToolPlan, Published
<1>18. Journals'
  <2>1. \A j \in Kinds, x \in Piece : journal[j][x] # NoJournal => j # kind \/ x # k
    BY <1>1, <1>2
  <2> QED
    BY <1>0, <1>3, <1>10, <2>1 DEF Journals
<1>19. Copies'
  <2>1. \A j \in Kinds, x \in Piece : read'[j][x] \subseteq ToSet(staged'[j][x].pieces)
    <3> TAKE j \in Kinds, x \in Piece
    <3>1. CASE j = kind /\ x = k
      BY <1>7, <1>10, <1>11, <3>1
    <3>2. CASE ~ (j = kind /\ x = k)
      BY <1>0, <1>10, <1>11, <3>2 DEF Copies
    <3> QED
      BY <3>1, <3>2
  <2> QED
    BY <1>12, <2>1 DEF Copies, Published
<1>20. \A p : Safe(p) => Safe(p)'
  <2> TAKE p
  <2>1. \A j \in Kinds, x \in Piece : journal[j][x] # NoJournal => staged'[j][x] = staged[j][x]
    BY <1>1, <1>2, <1>10
  <2> QED
    BY <1>3, <2>1 DEF Safe, Holds
<1>21. Uploaded' /\ Lossless'
  BY <1>3, <1>20, SafeStaysSafe DEF IInv
<1> QED
  BY <1>13, <1>14, <1>15, <1>16, <1>17, <1>18, <1>19, <1>21 DEF IInv

LEMMA ToolJournalsStep == ASSUME IInv, ToolJournals PROVE IInv'
<1> USE DEF world, history, store, services, repair, copies
<1>0. /\ Typed /\ ToolPlan /\ Journals /\ Copies /\ tool.pc = "journal" /\ tool.pc # "idle" /\ Step("publish")
  BY DEF IInv, ToolJournals
<1>1. tool.groups # <<>> /\ journal[tool.kind][Target] = NoJournal /\ staged[tool.kind][Target] # NoVideo
  BY <1>0 DEF ToolPlan
<1>2. PICK kind \in Kinds, k \in Piece, g \in Seq(Piece) :
         kind = tool.kind /\ k = Target /\ g = Plan /\ g # <<>> /\ Planned(g) /\ k = g[1]
  BY <1>0, <1>1, TargetSound
<1>3. /\ journal' = [journal EXCEPT ![kind][k] = g]
      /\ now' = now /\ pieces' = pieces /\ disk' = disk /\ video' = video /\ items' = items /\ queue' = queue /\ merger' = merger
      /\ worker' = worker /\ indexer' = indexer /\ staged' = staged /\ read' = read /\ overtaken' = overtaken /\ deleted' = deleted
      /\ stuck' = stuck /\ overwritten' = overwritten
  BY <1>2 DEF ToolJournals
<1>4. /\ journal' \in [Kinds -> [Piece -> Seq(Piece)]] /\ journal'[kind][k] = g
      /\ \A j \in Kinds, x \in Piece : j # kind \/ x # k => journal'[j][x] = journal[j][x]
  <2> DEFINE T == Seq(Piece)
  <2>1. journal \in [Kinds -> [Piece -> T]] /\ g \in T
    BY <1>0, <1>2 DEF Typed
  <2> HIDE DEF T
  <2>2. /\ journal' \in [Kinds -> [Piece -> T]] /\ journal'[kind][k] = g
        /\ \A j \in Kinds, x \in Piece : j # kind \/ x # k => journal'[j][x] = journal[j][x]
    BY <1>3, <2>1, TableAt
  <2> QED
    BY <2>2 DEF T
<1>5. tool' \in Tools /\ tool'.pc = "publish" /\ tool'.kind = kind /\ tool'.groups = tool.groups /\ Plan' = Plan /\ Target' = k
  <2>1. "publish" \in ToolPcs \ {"idle"}
    BY DEF ToolPcs
  <2> QED
    BY <1>0, <1>2, <2>1, PcTool
<1>6. Typed'
  BY <1>0, <1>3, <1>4, <1>5 DEF Typed, Recorded
<1>7. Clocked' /\ Shapes' /\ DiskRules' /\ MergerPlan'
  BY <1>3, SameClock, SameShapes, SameDisk, SameMerger DEF IInv
<1>8. g # NoJournal
  BY <1>2 DEF NoJournal
<1>9. ToolPlan'
  <2>1. \A i \in DOMAIN tool'.groups : Planned(tool.groups[i])'
    BY <1>0, <1>2, <1>3, <1>5, StillPlanned
  <2> QED
    BY <1>1, <1>4, <1>5, <1>8, <2>1 DEF ToolPlan, Published
<1>10. Journals'
  <2>1. k \notin ToSet(Tail(g))
    <3>1. /\ Tail(g) \in Seq(Piece) /\ DOMAIN Tail(g) = 1..Len(Tail(g)) /\ Len(Tail(g)) = Len(g) - 1 /\ Len(g) \in Nat
          /\ \A i \in 1..Len(Tail(g)) : Tail(g)[i] = g[i + 1]
      BY <1>2, HeadTailProperties
    <3>2. \A i \in DOMAIN Tail(g) : i + 1 \in 2..Len(g) /\ Tail(g)[i] = g[i + 1]
      BY <3>1
    <3>3. \A i \in 2..Len(g) : k < g[i]
      BY <1>2 DEF Planned
    <3>4. ~ (k < k)
      <4>1. NPieces \in Nat /\ Piece = 1..NPieces
        BY <1>0, PieceNumbers
      <4> QED
        BY <1>2, <4>1
    <3> QED
      BY <3>2, <3>3, <3>4 DEF ToSet
  <2> QED
    BY <1>0, <1>1, <1>2, <1>3, <1>4, <2>1 DEF Journals
<1>11. Copies'
  BY <1>0, <1>3, <1>5 DEF Copies, Published
<1>12. \A p : Safe(p) => Safe(p)'
  <2> TAKE p
  <2>1. \A j \in Kinds, x \in Piece : journal[j][x] # NoJournal => journal'[j][x] # NoJournal
    BY <1>1, <1>2, <1>4
  <2> QED
    BY <1>3, <2>1 DEF Safe, Holds
<1>13. Uploaded' /\ Lossless'
  BY <1>3, <1>12, SafeStaysSafe DEF IInv
<1> QED
  BY <1>6, <1>7, <1>9, <1>10, <1>11, <1>13 DEF IInv

LEMMA ToolPublishesStep == ASSUME IInv, ToolPublishes PROVE IInv'
<1> USE DEF world, history, store, services, repair, copies
<1>0. /\ Typed /\ ToolPlan /\ Shapes /\ DiskRules /\ Copies /\ tool.pc = "publish" /\ tool.pc # "idle"
      /\ staged[tool.kind][Target] # NoVideo
  BY DEF IInv, ToolPublishes
<1>1. tool.groups # <<>> /\ journal[tool.kind][Target] # NoJournal
  BY <1>0 DEF ToolPlan
<1>2. PICK kind \in Kinds, k \in Piece : kind = tool.kind /\ k = Target
  BY <1>0, <1>1, TargetSound
<1>3. /\ video' = [video EXCEPT ![k] = staged[kind][k]] /\ overtaken' = overtaken \cup (ToSet(video[k].pieces) \ read[kind][k])
      /\ now' = now /\ pieces' = pieces /\ disk' = disk /\ items' = items /\ queue' = queue /\ merger' = merger /\ worker' = worker
      /\ indexer' = indexer /\ journal' = journal /\ staged' = staged /\ read' = read /\ deleted' = deleted
      /\ stuck' = stuck /\ overwritten' = overwritten
  BY <1>2 DEF ToolPublishes, Removes
<1>4. video'[k] = staged[kind][k] /\ (\A x \in Piece : x # k => video'[x] = video[x]) /\ video' \in [Piece -> Videos]
  <2>1. video \in [Piece -> Videos] /\ staged[kind][k] \in Videos
    BY <1>0 DEF Typed
  <2> QED
    BY <1>3, <2>1
<1>5. /\ tool' \in Tools /\ tool'.pc \in {"drop", "row"} /\ tool'.kind = kind /\ tool'.groups = tool.groups
      /\ Plan' = Plan /\ Target' = k
  <2>1. PICK pc \in {"drop", "row"} : Step(pc)
    BY DEF ToolPublishes
  <2>2. pc \in ToolPcs \ {"idle"}
    BY <2>1 DEF ToolPcs
  <2> QED
    BY <1>0, <1>2, <2>1, <2>2, PcTool
<1>6. Typed'
  BY <1>0, <1>3, <1>4, <1>5 DEF Typed, Recorded
<1>7. Clocked' /\ MergerPlan' /\ Journals'
  BY <1>3, SameClock, SameMerger, SameJournals DEF IInv
<1>8. Shapes'
  <2>1. \A x \in Piece : Shaped(video'[x], x)
    BY <1>0, <1>4 DEF Shapes
  <2> QED
    BY <1>0, <1>3, <2>1 DEF Shapes, Shaped, Recorded
<1>9. DiskRules'
  <2> SUFFICES ASSUME NEW q \in Removable, pieces[q].real
               PROVE  (\A x \in Piece : video'[x] # NoVideo => x <= q) /\ video'[q] = video[q]
    BY <1>0, <1>3 DEF DiskRules, Removable
  <2>1. /\ \A x \in Piece : video[x] # NoVideo => x <= q
        /\ \A x \in Piece, j \in Kinds : staged[j][x] # NoVideo => x <= q
        /\ \A j \in Kinds : staged[j][q] = NoVideo
    BY <1>0 DEF DiskRules
  <2>2. q \in Piece /\ q # k
    BY <1>0, <1>2, <2>1 DEF Typed, Removable
  <2> QED
    BY <1>4, <2>1, <2>2
<1>10. ToolPlan'
  <2>1. \A i \in DOMAIN tool'.groups : Planned(tool.groups[i])'
    BY <1>0, <1>2, <1>3, <1>5, StillPlanned
  <2> QED
    BY <1>0, <1>1, <1>2, <1>3, <1>5, <2>1 DEF ToolPlan, Published
<1>11. Copies'
  BY <1>0, <1>2, <1>3, <1>4, <1>5 DEF Copies
<1>12. \A p : Safe(p) => Safe(p)'
  <2> SUFFICES ASSUME NEW p, Safe(p) PROVE Safe(p)'
    OBVIOUS
  <2>1. CASE \E x \in Piece : Holds(video[x], p)
    <3>1. PICK x \in Piece : Holds(video[x], p)
      BY <2>1
    <3>2. CASE x # k
      BY <1>4, <3>1, <3>2 DEF Safe, Holds
    <3>3. CASE x = k /\ p \in read[kind][k]
      <4>1. Holds(video'[k], p)
        BY <1>0, <1>4, <3>3 DEF Copies, Holds
      <4> QED
        BY <4>1 DEF Safe, Holds
    <3>4. CASE x = k /\ p \notin read[kind][k]
      BY <1>3, <3>1, <3>4 DEF Safe, Holds
    <3> QED
      BY <3>2, <3>3, <3>4
  <2>2. CASE ~ \E x \in Piece : Holds(video[x], p)
    BY <1>3, <2>2 DEF Safe, Holds
  <2> QED
    BY <2>1, <2>2
<1>13. Uploaded' /\ Lossless'
  BY <1>3, <1>12, SafeStaysSafe DEF IInv
<1> QED
  BY <1>6, <1>7, <1>8, <1>9, <1>10, <1>11, <1>13 DEF IInv

\* One source more is dropped.
LEMMA ToolDropped ==
    ASSUME NEW t \in Tools
    PROVE  LET u == [t EXCEPT !.dropped = @ + 1]
           IN u \in Tools /\ u.pc = t.pc /\ u.kind = t.kind /\ u.groups = t.groups
<1> DEFINE u == [t EXCEPT !.dropped = @ + 1]
<1>1. t.dropped + 1 \in Nat
  BY DEF Tools
<1>2. u \in Tools /\ u.pc = t.pc /\ u.kind = t.kind /\ u.groups = t.groups
  BY <1>1 DEF Tools
<1> QED
  BY <1>2

LEMMA ToolDropsStep == ASSUME IInv, ToolDrops PROVE IInv'
<1> USE DEF world, history, store, services, repair, copies
<1>0. Typed /\ ToolPlan /\ Journals /\ Shapes /\ DiskRules /\ Copies /\ tool.pc = "drop" /\ tool.pc # "idle" /\ tool.pc \in Published
  BY DEF IInv, ToolDrops, Published
<1>1. tool.groups # <<>> /\ journal[tool.kind][Target] # NoJournal
  BY <1>0 DEF ToolPlan
<1>2. PICK kind \in Kinds, t \in Piece : kind = tool.kind /\ t = Target
  BY <1>0, <1>1, TargetSound
<1>3. UNCHANGED <<now, pieces, disk, queue, merger, worker, indexer, journal, staged, read, deleted, stuck, overwritten>>
  BY DEF ToolDrops
<1>4. CASE tool.dropped < Len(Sources)
  <2>1. PICK k : k = Sources[tool.dropped + 1]
    OBVIOUS
  <2>2. /\ video' = [video EXCEPT ![k] = NoVideo] /\ overtaken' = overtaken \cup (ToSet(video[k].pieces) \ read[kind][t])
        /\ items' = items /\ tool' = [tool EXCEPT !.dropped = @ + 1]
    BY <1>2, <1>4, <2>1 DEF ToolDrops, Removes
  <2>3. k \in ToSet(Sources) /\ k \in Piece /\ k # t
    <3>1. PICK s \in Seq(Piece) : s = journal[kind][t] /\ s # <<>> /\ Sources = Tail(s)
      BY <1>0, <1>1, <1>2 DEF Typed, NoJournal, Sources
    <3>2. PICK r \in Seq(Piece) : r = Sources
      <4>1. Tail(s) \in Seq(Piece)
        BY <3>1, HeadTailProperties
      <4> QED
        BY <3>1, <4>1
    <3>3. PICK n \in Nat : n = tool.dropped + 1 /\ n \in 1..Len(r)
      <4>1. tool.dropped \in Nat /\ tool.dropped < Len(r) /\ Len(r) \in Nat
        BY <1>0, <1>4, <3>2 DEF Typed, Tools
      <4> QED
        BY <4>1
    <3>4. k = r[n] /\ r[n] \in Piece /\ DOMAIN r = 1..Len(r)
      BY <2>1, <3>2, <3>3, ElementOfSeq
    <3>5. k \in ToSet(Sources)
      BY <3>2, <3>3, <3>4 DEF ToSet
    <3>6. t \notin ToSet(Sources)
      BY <1>0, <1>1, <1>2 DEF Journals, Sources
    <3> QED
      BY <3>4, <3>5, <3>6
  <2>4. tool' \in Tools /\ tool'.pc = "drop" /\ tool'.kind = kind /\ tool'.groups = tool.groups /\ Plan' = Plan /\ Target' = t
    <3>1. tool \in Tools
      BY <1>0 DEF Typed
    <3>2. tool' \in Tools /\ tool'.pc = tool.pc /\ tool'.kind = tool.kind /\ tool'.groups = tool.groups
      BY <2>2, <3>1, ToolDropped
    <3> QED
      BY <1>0, <1>2, <3>2 DEF Target, Plan
  <2>5. NoVideo \in Videos /\ ToSet(NoVideo.pieces) = {} /\ ~ NoVideo.holed
    <3>1. <<>> \in Seq(Piece)
      OBVIOUS
    <3> QED
      BY <3>1 DEF NoVideo, Videos, ToSet
  <2>6. video'[k] = NoVideo /\ (\A x \in Piece : x # k => video'[x] = video[x]) /\ video' \in [Piece -> Videos]
    <3>1. video \in [Piece -> Videos]
      BY <1>0 DEF Typed
    <3> QED
      BY <2>2, <2>3, <2>5, <3>1
  <2>7. Typed'
    BY <1>0, <1>2, <1>3, <2>2, <2>4, <2>6 DEF Typed, Recorded
  <2>8. Clocked' /\ MergerPlan' /\ Journals'
    BY <1>3, SameClock, SameMerger, SameJournals DEF IInv
  <2>9. Shapes'
    <3>1. \A x \in Piece : Shaped(video'[x], x)
      BY <1>0, <2>6 DEF Shapes, Shaped
    <3>2. pieces' = pieces /\ staged' = staged
      BY <1>3
    <3> QED
      BY <1>0, <3>1, <3>2 DEF Shapes, Shaped, Recorded
  <2>10. DiskRules'
    <3>1. ASSUME NEW q \in Removable, pieces[q].real
          PROVE  (\A x \in Piece : video'[x] # NoVideo => x <= q) /\ ToSet(video'[q].pieces) \subseteq disk /\ ~ video'[q].holed
      <4>1. q \in Piece
        BY <1>0 DEF Typed, Removable
      <4>2. (\A x \in Piece : video[x] # NoVideo => x <= q) /\ ToSet(video[q].pieces) \subseteq disk /\ ~ video[q].holed
        BY <1>0, <3>1 DEF DiskRules
      <4>3. \A x \in Piece : video'[x] = NoVideo \/ video'[x] = video[x]
        BY <2>6
      <4> QED
        BY <2>5, <4>1, <4>2, <4>3
    <3>2. pieces' = pieces /\ staged' = staged /\ disk' = disk /\ stuck' = stuck
      BY <1>3
    <3> QED
      BY <1>0, <3>1, <3>2 DEF DiskRules, Removable
  <2>11. ToolPlan'
    <3>1. \A i \in DOMAIN tool'.groups : Planned(tool.groups[i])'
      BY <1>0, <1>2, <1>3, <2>4, StillPlanned
    <3>2. journal' = journal
      BY <1>3
    <3> QED
      BY <1>0, <1>1, <1>2, <2>4, <3>1, <3>2 DEF ToolPlan, Published
  <2>12. Copies'
    <3>1. staged' = staged /\ read' = read /\ deleted' = deleted /\ overwritten' = overwritten /\ video'[t] = video[t]
      BY <1>2, <1>3, <2>3, <2>6
    <3> QED
      BY <1>0, <1>2, <2>4, <3>1 DEF Copies
  <2>13. \A p : Safe(p) => Safe(p)'
    <3>0. journal' = journal /\ staged' = staged /\ deleted' = deleted /\ overwritten' = overwritten
      BY <1>3
    <3> SUFFICES ASSUME NEW p, Safe(p) PROVE Safe(p)'
      OBVIOUS
    <3>1. CASE \E x \in Piece : Holds(video[x], p)
      <4>1. PICK x \in Piece : Holds(video[x], p)
        BY <3>1
      <4>2. CASE x # k
        BY <2>6, <4>1, <4>2 DEF Safe, Holds
      <4>3. CASE x = k /\ p \in read[kind][t]
        <5>1. Holds(staged[kind][t], p) /\ journal[kind][t] # NoJournal
          BY <1>0, <1>1, <1>2, <4>3 DEF Copies, Holds
        <5> QED
          BY <3>0, <5>1 DEF Safe, Holds
      <4>4. CASE x = k /\ p \notin read[kind][t]
        BY <2>2, <4>1, <4>4 DEF Safe, Holds
      <4> QED
        BY <4>2, <4>3, <4>4
    <3>2. CASE ~ \E x \in Piece : Holds(video[x], p)
      BY <2>2, <3>0, <3>2 DEF Safe, Holds
    <3> QED
      BY <3>1, <3>2
  <2>14. Uploaded' /\ Lossless'
    BY <1>3, <2>13, SafeStaysSafe DEF IInv
  <2> QED
    BY <2>7, <2>8, <2>9, <2>10, <2>11, <2>12, <2>14 DEF IInv
<1>5. CASE ~ tool.dropped < Len(Sources)
  <2>1. /\ items' = [k \in Piece |-> IF k \in ToSet(Sources) THEN "absent" ELSE items[k]]
        /\ Step("hls") /\ UNCHANGED <<video, overtaken>>
    BY <1>5 DEF ToolDrops
  <2>2. "hls" \in ToolPcs \ {"idle"}
    BY DEF ToolPcs
  <2>3. tool' \in Tools /\ tool'.pc = "hls" /\ tool'.kind = tool.kind /\ tool'.groups = tool.groups /\ Plan' = Plan /\ Target' = Target
    BY <1>0, <2>1, <2>2, PcTool
  <2>4. items' \in [Piece -> Rows]
    BY <1>0, <2>1 DEF Typed, Rows
  <2>5. Typed'
    BY <1>0, <1>3, <2>1, <2>3, <2>4 DEF Typed, Recorded
  <2>6. \A i \in DOMAIN tool'.groups : Planned(tool.groups[i])'
    BY <1>0, <1>3, <2>3, StillPlanned
  <2>7. ToolPlan'
    BY <1>0, <1>1, <1>3, <2>3, <2>6 DEF ToolPlan, Published
  <2> QED
    BY <1>0, <1>3, <2>1, <2>3, <2>5, <2>7, ToolMoves
<1> QED
  BY <1>4, <1>5

\* The copies of the target, its row and its job.
LEMMA ToolRefreshesStep == ASSUME IInv, ToolClearsHls \/ ToolClearsRow \/ ToolEnqueues PROVE IInv'
<1> USE DEF world, history, store, services, repair, copies
<1>0. Typed /\ ToolPlan
  BY DEF IInv
<1>1. /\ UNCHANGED <<now, pieces, disk, video, merger, worker, indexer, journal, staged, read, overtaken, deleted, stuck, overwritten>>
      /\ tool.pc \in Published /\ tool.pc # "idle"
  <2>1. ASSUME ToolClearsHls PROVE <1>1
    BY <2>1 DEF ToolClearsHls, Published
  <2>2. ASSUME ToolClearsRow PROVE <1>1
    BY <2>2 DEF ToolClearsRow, Published
  <2>3. ASSUME ToolEnqueues PROVE <1>1
    BY <2>3 DEF ToolEnqueues, Published
  <2> QED
    BY <2>1, <2>2, <2>3
<1>2. tool.groups # <<>> /\ journal[tool.kind][Target] # NoJournal
  BY <1>0, <1>1 DEF ToolPlan, Published
<1>3. Target \in Piece
  BY <1>0, <1>1, <1>2, TargetSound
<1>4. PICK pc \in {"row", "hls", "enqueue", "unjournal"} : Step(pc)
  <2>1. ASSUME ToolClearsHls PROVE \E pc \in {"row", "hls", "enqueue", "unjournal"} : Step(pc)
    BY <2>1 DEF ToolClearsHls
  <2>2. ASSUME ToolClearsRow PROVE \E pc \in {"row", "hls", "enqueue", "unjournal"} : Step(pc)
    BY <2>2 DEF ToolClearsRow
  <2>3. ASSUME ToolEnqueues PROVE \E pc \in {"row", "hls", "enqueue", "unjournal"} : Step(pc)
    BY <2>3 DEF ToolEnqueues
  <2> QED
    BY <2>1, <2>2, <2>3
<1>5. queue' \subseteq Piece /\ items' \in [Piece -> Rows]
  <2>0. queue \subseteq Piece /\ items \in [Piece -> Rows]
    BY <1>0 DEF Typed
  <2>1. ASSUME ToolClearsHls PROVE queue' = queue /\ items' = items
    BY <2>1 DEF ToolClearsHls
  <2>2. ASSUME ToolClearsRow PROVE queue' = queue /\ items' \in [Piece -> Rows]
    BY <1>3, <2>0, <2>2 DEF ToolClearsRow, Rows
  <2>3. ASSUME ToolEnqueues PROVE queue' = queue \cup {Target} /\ items' = items
    BY <2>3 DEF ToolEnqueues
  <2> QED
    BY <1>3, <2>0, <2>1, <2>2, <2>3
<1>6. pc \in ToolPcs \ {"idle"} /\ pc \in Published
  BY <1>4 DEF ToolPcs, Published
<1>7. tool' \in Tools /\ tool'.pc = pc /\ tool'.kind = tool.kind /\ tool'.groups = tool.groups /\ Plan' = Plan /\ Target' = Target
  BY <1>0, <1>1, <1>4, <1>6, PcTool
<1>8. Typed'
  BY <1>0, <1>1, <1>5, <1>7 DEF Typed, Recorded
<1>9. \A i \in DOMAIN tool'.groups : Planned(tool.groups[i])'
  BY <1>0, <1>1, <1>7, StillPlanned
<1>10. ToolPlan'
  BY <1>0, <1>1, <1>2, <1>4, <1>6, <1>7, <1>9 DEF ToolPlan, Published
<1> QED
  BY <1>1, <1>7, <1>8, <1>10, ToolMoves

LEMMA ToolUnjournalsStep == ASSUME IInv, ToolUnjournals PROVE IInv'
<1> USE DEF world, history, store, services, repair, copies
<1>0. Typed /\ ToolPlan /\ Journals /\ Copies /\ tool.pc = "unjournal" /\ tool.pc # "idle" /\ tool.pc \in Published /\ Step("unstage")
  BY DEF IInv, ToolUnjournals, Published
<1>1. tool.groups # <<>> /\ journal[tool.kind][Target] # NoJournal
  BY <1>0 DEF ToolPlan
<1>2. PICK kind \in Kinds, k \in Piece : kind = tool.kind /\ k = Target
  BY <1>0, <1>1, TargetSound
<1>3. /\ journal' = [journal EXCEPT ![kind][k] = NoJournal]
      /\ now' = now /\ pieces' = pieces /\ disk' = disk /\ video' = video /\ items' = items /\ queue' = queue /\ merger' = merger
      /\ worker' = worker /\ indexer' = indexer /\ staged' = staged /\ read' = read /\ overtaken' = overtaken /\ deleted' = deleted
      /\ stuck' = stuck /\ overwritten' = overwritten
  BY <1>2 DEF ToolUnjournals
<1>4. /\ journal' \in [Kinds -> [Piece -> Seq(Piece)]] /\ journal'[kind][k] = NoJournal
      /\ \A j \in Kinds, x \in Piece : j # kind \/ x # k => journal'[j][x] = journal[j][x]
  <2> DEFINE T == Seq(Piece)
  <2>1. journal \in [Kinds -> [Piece -> T]] /\ NoJournal \in T
    BY <1>0 DEF Typed, NoJournal
  <2> HIDE DEF T
  <2>2. /\ journal' \in [Kinds -> [Piece -> T]] /\ journal'[kind][k] = NoJournal
        /\ \A j \in Kinds, x \in Piece : j # kind \/ x # k => journal'[j][x] = journal[j][x]
    BY <1>3, <2>1, TableAt
  <2> QED
    BY <2>2 DEF T
<1>5. tool' \in Tools /\ tool'.pc = "unstage" /\ tool'.kind = kind /\ tool'.groups = tool.groups /\ Plan' = Plan /\ Target' = k
  <2>1. "unstage" \in ToolPcs \ {"idle"}
    BY DEF ToolPcs
  <2> QED
    BY <1>0, <1>2, <2>1, PcTool
<1>6. Typed'
  BY <1>0, <1>3, <1>4, <1>5 DEF Typed, Recorded
<1>7. Clocked' /\ Shapes' /\ DiskRules' /\ MergerPlan'
  BY <1>3, SameClock, SameShapes, SameDisk, SameMerger DEF IInv
<1>8. ToolPlan'
  <2>1. \A i \in DOMAIN tool'.groups : Planned(tool.groups[i])'
    BY <1>0, <1>2, <1>3, <1>5, StillPlanned
  <2> QED
    BY <1>1, <1>4, <1>5, <2>1 DEF ToolPlan, Published
<1>9. Journals'
  BY <1>0, <1>3, <1>4 DEF Journals
<1>10. Copies'
  BY <1>0, <1>3, <1>5 DEF Copies, Published
<1>11. \A p : Safe(p) => Safe(p)'
  <2> SUFFICES ASSUME NEW p, Safe(p) PROVE Safe(p)'
    OBVIOUS
  <2>1. CASE \E j \in Kinds, x \in Piece : journal[j][x] # NoJournal /\ Holds(staged[j][x], p)
    <3>1. PICK j \in Kinds, x \in Piece : journal[j][x] # NoJournal /\ Holds(staged[j][x], p)
      BY <2>1
    <3>2. CASE j = kind /\ x = k
      <4>1. p \in ToSet(video[k].pieces) \cup deleted \cup overwritten
        BY <1>0, <1>2, <3>1, <3>2 DEF Copies, Holds
      <4> QED
        BY <1>3, <4>1 DEF Safe, Holds
    <3>3. CASE ~ (j = kind /\ x = k)
      BY <1>3, <1>4, <3>1, <3>3 DEF Safe, Holds
    <3> QED
      BY <3>2, <3>3
  <2>2. CASE ~ \E j \in Kinds, x \in Piece : journal[j][x] # NoJournal /\ Holds(staged[j][x], p)
    BY <1>3, <2>2 DEF Safe, Holds
  <2> QED
    BY <2>1, <2>2
<1>12. Uploaded' /\ Lossless'
  BY <1>3, <1>11, SafeStaysSafe DEF IInv
<1> QED
  BY <1>6, <1>7, <1>8, <1>9, <1>10, <1>12 DEF IInv

LEMMA ToolUnstagesStep == ASSUME IInv, ToolUnstages PROVE IInv'
<1> USE DEF world, history, store, services, repair, copies
<1>0. Typed /\ ToolPlan /\ Journals /\ Copies /\ Shapes /\ DiskRules /\ tool.pc = "unstage" /\ tool.pc # "idle" /\ NextGroup
  BY DEF IInv, ToolUnstages
<1>1. tool.groups # <<>> /\ journal[tool.kind][Target] = NoJournal
  BY <1>0 DEF ToolPlan
<1>2. PICK kind \in Kinds, k \in Piece : kind = tool.kind /\ k = Target
  BY <1>0, <1>1, TargetSound
<1>3. /\ staged' = [staged EXCEPT ![kind][k] = NoVideo] /\ read' = [read EXCEPT ![kind][k] = {}]
      /\ now' = now /\ pieces' = pieces /\ disk' = disk /\ video' = video /\ items' = items /\ queue' = queue /\ merger' = merger
      /\ worker' = worker /\ indexer' = indexer /\ journal' = journal /\ overtaken' = overtaken /\ deleted' = deleted
      /\ stuck' = stuck /\ overwritten' = overwritten
  BY <1>2 DEF ToolUnstages
<1>4. /\ staged' \in [Kinds -> [Piece -> Videos]] /\ staged'[kind][k] = NoVideo
      /\ \A j \in Kinds, x \in Piece : j # kind \/ x # k => staged'[j][x] = staged[j][x]
  <2>1. <<>> \in Seq(Piece)
    OBVIOUS
  <2>2. staged \in [Kinds -> [Piece -> Videos]] /\ NoVideo \in Videos
    BY <1>0, <2>1 DEF Typed, NoVideo, Videos
  <2> QED
    BY <1>3, <2>2, TableAt
<1>5. /\ read' \in [Kinds -> [Piece -> SUBSET Piece]] /\ read'[kind][k] = {}
      /\ \A j \in Kinds, x \in Piece : j # kind \/ x # k => read'[j][x] = read[j][x]
  <2> DEFINE T == SUBSET Piece
  <2>1. read \in [Kinds -> [Piece -> T]] /\ {} \in T
    BY <1>0 DEF Typed
  <2> HIDE DEF T
  <2>2. /\ read' \in [Kinds -> [Piece -> T]] /\ read'[kind][k] = {}
        /\ \A j \in Kinds, x \in Piece : j # kind \/ x # k => read'[j][x] = read[j][x]
    BY <1>3, <2>1, TableAt
  <2> QED
    BY <2>2 DEF T
<1>6. tool' \in Tools /\ tool'.pc = "group" /\ tool'.kind \in Kinds /\ ToolPlan'
  BY <1>0, <1>1, <1>3, RestPlanned
<1>7. Typed'
  BY <1>0, <1>3, <1>4, <1>5, <1>6 DEF Typed, Recorded
<1>8. Clocked' /\ MergerPlan'
  BY <1>3, SameClock, SameMerger DEF IInv
<1>9. Shapes'
  <2>1. \A j \in Kinds, x \in Piece : Shaped(staged'[j][x], x)
    BY <1>0, <1>4 DEF Shapes, Shaped
  <2> QED
    BY <1>0, <1>3, <2>1 DEF Shapes, Shaped, Recorded
<1>10. DiskRules'
  <2>1. \A j \in Kinds, x \in Piece : staged'[j][x] = NoVideo \/ staged'[j][x] = staged[j][x]
    BY <1>4
  <2>2. disk \subseteq Piece
    BY <1>0 DEF Typed
  <2> QED
    BY <1>0, <1>3, <2>1, <2>2 DEF DiskRules, Removable
<1>11. Journals'
  BY <1>0, <1>1, <1>2, <1>3, <1>4 DEF Journals
<1>12. Copies'
  <2>1. \A j \in Kinds, x \in Piece : read'[j][x] \subseteq ToSet(staged'[j][x].pieces)
    <3> TAKE j \in Kinds, x \in Piece
    <3>1. CASE j = kind /\ x = k
      BY <1>5, <3>1
    <3>2. CASE ~ (j = kind /\ x = k)
      BY <1>0, <1>4, <1>5, <3>2 DEF Copies
    <3> QED
      BY <3>1, <3>2
  <2> QED
    BY <1>6, <2>1 DEF Copies, Published
<1>13. \A p : Safe(p) => Safe(p)'
  <2> TAKE p
  <2>1. \A j \in Kinds, x \in Piece : journal[j][x] # NoJournal => staged'[j][x] = staged[j][x]
    BY <1>1, <1>2, <1>4
  <2> QED
    BY <1>3, <2>1 DEF Safe, Holds
<1>14. Uploaded' /\ Lossless'
  BY <1>3, <1>13, SafeStaysSafe DEF IInv
<1> QED
  BY <1>6, <1>7, <1>8, <1>9, <1>10, <1>11, <1>12, <1>14 DEF IInv

-----------------------------------------------------------------------------
(* The invariant holds at the start and is kept by every step.             *)

LEMMA InitInvariant == Init => IInv
<1> SUFFICES ASSUME Init PROVE IInv
  OBVIOUS
<1>1. NPieces \in Nat /\ Piece = 1..NPieces /\ MaxTime \in Nat /\ RepairGap \in Nat
  BY VideoArchiveAssumption DEF Piece
<1>2. /\ disk = {} /\ merger = NoMerge /\ worker = NoWork
      /\ indexer = [pc |-> "idle", seen |-> {}] /\ tool = NoTool /\ deleted = {}
      /\ staged = [kind \in Kinds |-> [k \in Piece |-> NoVideo]]
      /\ read = [kind \in Kinds |-> [k \in Piece |-> {}]]
      /\ journal = [kind \in Kinds |-> [k \in Piece |-> NoJournal]]
  BY DEF Init, Empty, Kinds
<1>3. <<>> \in Seq(Piece) /\ NoVideo \in Videos /\ NoVideo.pieces = <<>> /\ ToSet(<<>>) = {}
  <2>1. <<>> \in Seq(Piece)
    OBVIOUS
  <2> QED
    BY <2>1 DEF NoVideo, Videos, ToSet
<1> DEFINE Archive == /\ now \in 0..MaxTime /\ pieces \in Seq(Times) /\ Recorded \subseteq Piece
                      /\ \A p \in Recorded : pieces[p].end # None => pieces[p].start < pieces[p].end
                      /\ video \in [Piece -> Videos] /\ items \in [Piece -> Rows] /\ queue \subseteq Piece
                      /\ \A k \in Piece : Shaped(video[k], k)
                      /\ \A p \in Recorded : \E k \in Piece : Holds(video[k], p)
<1>4. Archive
  <2>1. ASSUME /\ now = 0 /\ pieces = <<>>
               /\ video = [k \in Piece |-> NoVideo]
               /\ items = [k \in Piece |-> "absent"] /\ queue = {}
        PROVE  Archive
    <3>1. pieces \in Seq(Times) /\ Recorded = {}
      BY <2>1 DEF Recorded
    <3>2. video \in [Piece -> Videos] /\ items \in [Piece -> Rows]
      BY <1>3, <2>1 DEF Rows
    <3> QED
      BY <1>1, <2>1, <3>1, <3>2 DEF Shaped
  <2>2. ASSUME NEW n \in Piece, NEW far \in [Piece -> BOOLEAN], NEW holed \in [Piece -> BOOLEAN], NEW done \in BOOLEAN,
               LET start(k) == (k - 1) * (1 + RepairGap) + Cardinality({j \in 2..k : far[j]})
               IN /\ now = MaxTime
                  /\ pieces = [k \in 1..n |-> [start |-> start(k), end |-> start(k) + 1, real |-> TRUE]]
                  /\ video = [k \in Piece |-> IF k <= n THEN [pieces |-> <<k>>, holed |-> holed[k]] ELSE NoVideo]
                  /\ items = [k \in Piece |-> IF k > n THEN "absent" ELSE IF done THEN "hls" ELSE "plain"]
                  /\ queue = IF done THEN {} ELSE 1..n
        PROVE  Archive
    <3> DEFINE start(k) == (k - 1) * (1 + RepairGap) + Cardinality({j \in 2..k : far[j]})
    <3>0. n \in Nat /\ 1..n \subseteq Piece
      BY <1>1
    <3>1. \A k \in 1..n : start(k) \in Nat
      <4> TAKE k \in 1..n
      <4>1. (k - 1) \in Nat /\ (1 + RepairGap) \in Nat
        BY <1>1
      <4>2. \A a, b \in Nat : a * b \in Nat
        OBVIOUS
      <4>3. (k - 1) * (1 + RepairGap) \in Nat
        BY <4>1, <4>2
      <4>4. Cardinality({j \in 2..k : far[j]}) \in Nat
        <5>1. IsFiniteSet(2..k)
          BY <3>0, FS_Interval
        <5>2. {j \in 2..k : far[j]} \subseteq 2..k
          OBVIOUS
        <5> QED
          BY <5>1, <5>2, FS_Subset, FS_CardinalityType
      <4>5. \A a, b \in Nat : a + b \in Nat
        OBVIOUS
      <4> QED
        BY <4>3, <4>4, <4>5
    <3>2. /\ now = MaxTime
          /\ pieces = [k \in 1..n |-> [start |-> start(k), end |-> start(k) + 1, real |-> TRUE]]
          /\ video = [k \in Piece |-> IF k <= n THEN [pieces |-> <<k>>, holed |-> holed[k]] ELSE NoVideo]
          /\ items = [k \in Piece |-> IF k > n THEN "absent" ELSE IF done THEN "hls" ELSE "plain"]
          /\ queue = IF done THEN {} ELSE 1..n
      BY <2>2
    <3> HIDE DEF start
    <3>3. \A k \in 1..n : [start |-> start(k), end |-> start(k) + 1, real |-> TRUE] \in Times
      BY <3>1 DEF Times
    <3>4. pieces \in Seq(Times) /\ Recorded = 1..n /\ \A p \in 1..n : pieces[p].start = start(p) /\ pieces[p].end = start(p) + 1
      BY <3>0, <3>2, <3>3 DEF Recorded
    <3>5. \A p \in Recorded : pieces[p].end # None => pieces[p].start < pieces[p].end
      BY <3>1, <3>4
    <3>6. \A k \in 1..n : /\ video[k] = [pieces |-> <<k>>, holed |-> holed[k]] /\ video[k].pieces = <<k>>
                          /\ <<k>> \in Seq(Piece) /\ <<k>> # <<>> /\ ToSet(<<k>>) = {k} /\ k <= k
      BY <3>0, <3>2 DEF ToSet
    <3>7. \A k \in Piece : k \notin 1..n => video[k] = NoVideo
      BY <1>1, <3>0, <3>2
    <3>8. video \in [Piece -> Videos]
      <4>1. \A k \in Piece : (IF k <= n THEN [pieces |-> <<k>>, holed |-> holed[k]] ELSE NoVideo) \in Videos
        <5> TAKE k \in Piece
        <5>1. <<k>> \in Seq(Piece) /\ holed[k] \in BOOLEAN
          OBVIOUS
        <5>2. [pieces |-> <<k>>, holed |-> holed[k]] \in Videos
          BY <5>1 DEF Videos
        <5> QED
          BY <1>3, <5>2
      <4> QED
        BY <3>2, <4>1
    <3>9. items \in [Piece -> Rows] /\ queue \subseteq Piece
      BY <3>0, <3>2 DEF Rows
    <3>10. \A k \in 1..n : Shaped(video[k], k) /\ Holds(video[k], k)
      BY <3>4, <3>6 DEF Shaped, Holds
    <3>11. \A k \in Piece : Shaped(video[k], k)
      BY <3>7, <3>10 DEF Shaped
    <3>12. \A p \in Recorded : \E k \in Piece : Holds(video[k], p)
      BY <3>0, <3>4, <3>10
    <3>13. now \in 0..MaxTime
      BY <1>1, <3>2
    <3> QED
      BY <3>0, <3>4, <3>5, <3>8, <3>9, <3>11, <3>12, <3>13
  <2> DEFINE Fresh == /\ now = 0 /\ pieces = <<>>
                      /\ video = [k \in Piece |-> NoVideo] /\ hls = [k \in Piece |-> <<>>]
                      /\ items = [k \in Piece |-> "absent"] /\ queue = {}
             Old(n, far, holed, done) ==
               LET start(k) == (k - 1) * (1 + RepairGap) + Cardinality({j \in 2..k : far[j]})
               IN /\ n <= MaxInputs /\ now = MaxTime
                  /\ pieces = [k \in 1..n |-> [start |-> start(k), end |-> start(k) + 1, real |-> TRUE]]
                  /\ video = [k \in Piece |-> IF k <= n THEN [pieces |-> <<k>>, holed |-> holed[k]] ELSE NoVideo]
                  /\ hls = [k \in Piece |-> IF done /\ k <= n THEN <<k>> ELSE <<>>]
                  /\ items = [k \in Piece |-> IF k > n THEN "absent" ELSE IF done THEN "hls" ELSE "plain"]
                  /\ queue = IF done THEN {} ELSE 1..n
  <2>3. \/ Fresh
        \/ \E n \in Piece, far \in [Piece -> BOOLEAN], holed \in [Piece -> BOOLEAN], done \in BOOLEAN : Old(n, far, holed, done)
    BY Zenon DEF Init
  <2>4. ASSUME Fresh PROVE Archive
    BY <2>1, <2>4
  <2>5. ASSUME NEW n \in Piece, NEW far \in [Piece -> BOOLEAN], NEW holed \in [Piece -> BOOLEAN], NEW done \in BOOLEAN,
               Old(n, far, holed, done)
        PROVE  Archive
    <3> HIDE DEF Archive
    <3> QED
      BY <2>2, <2>5, Zenon
  <2> HIDE DEF Fresh, Old
  <2> QED
    BY <2>3, <2>4, <2>5
<1> HIDE DEF Archive
<1>5. Typed
  <2>1. merger \in Scans
    <3>1. <<>> \in Seq(Sessions)
      OBVIOUS
    <3> QED
      BY <1>2, <3>1 DEF NoMerge, Scans, MergerPcs
  <2>2. worker \in Jobs /\ worker.pc = "idle"
    BY <1>1, <1>2, <1>3 DEF NoWork, Jobs, WorkerPcs, None
  <2>3. tool \in Tools /\ tool.pc = "idle"
    BY <1>2 DEF NoTool, Tools, ToolPcs
  <2>4. indexer \in [pc : {"idle", "listed"}, seen : SUBSET Piece]
    BY <1>2
  <2>5. journal \in [Kinds -> [Piece -> Seq(Piece)]] /\ staged \in [Kinds -> [Piece -> Videos]]
    BY <1>2, <1>3 DEF NoJournal
  <2>6. read \in [Kinds -> [Piece -> SUBSET Piece]] /\ disk \subseteq Recorded /\ deleted \subseteq Piece
    BY <1>2
  <2> QED
    BY <1>4, <2>1, <2>2, <2>3, <2>4, <2>5, <2>6 DEF Typed, Archive
<1>6. Clocked /\ DiskRules
  BY <1>2, <1>4 DEF Clocked, DiskRules, Removable, Archive
<1>7. \A kind \in Kinds, k \in Piece : staged[kind][k] = NoVideo /\ journal[kind][k] = NoJournal /\ read[kind][k] = {}
  BY <1>2
<1>8. Shapes
  BY <1>4, <1>7 DEF Shapes, Shaped, Archive
<1>9. MergerPlan /\ Uploaded
  <2>1. merger.pc = "sleep" /\ merger.groups = <<>> /\ DOMAIN merger.groups = {} /\ merger.kept = {}
    BY <1>2 DEF NoMerge
  <2> QED
    BY <1>2, <2>1 DEF MergerPlan, Uploaded
<1>10. ToolPlan /\ tool.pc = "idle"
  <2>1. tool.pc = "idle" /\ tool.groups = <<>> /\ DOMAIN tool.groups = {}
    BY <1>2 DEF NoTool
  <2> QED
    BY <2>1 DEF ToolPlan, Published
<1>11. Journals /\ Copies
  BY <1>7, <1>10 DEF Journals, Copies, Published
<1>12. Lossless
  BY <1>4 DEF Lossless, Safe, Archive
<1> QED
  BY <1>5, <1>6, <1>8, <1>9, <1>10, <1>11, <1>12 DEF IInv

LEMMA StepInvariant == IInv /\ [Next]_vars => IInv'
<1> SUFFICES ASSUME IInv, [Next]_vars PROVE IInv'
  OBVIOUS
<1>1. CASE UNCHANGED vars
  <2>1. /\ now' = now /\ pieces' = pieces /\ disk' = disk /\ video' = video /\ items' = items /\ queue' = queue
        /\ merger' = merger /\ worker' = worker /\ indexer' = indexer /\ tool' = tool /\ journal' = journal
        /\ staged' = staged /\ read' = read /\ overtaken' = overtaken /\ deleted' = deleted
        /\ left' = left /\ stuck' = stuck /\ overwritten' = overwritten
    BY <1>1 DEF vars
  <2>2. Typed'
    BY <2>1 DEF IInv, Typed, Recorded
  <2> QED
    BY <2>1, <2>2, Elsewhere DEF world, history, copies
<1>2. CASE Tick \/ EndPiece \/ \E real \in BOOLEAN : StartPiece(real)
  BY <1>2, TickStep, EndPieceStep, StartPieceStep
<1>3. CASE Merger \/ MergerIndex(FALSE) \/ MergerEnqueue(FALSE) \/ MergerCleanup(FALSE) \/ MergerFails
  BY <1>3, MergerScanStep, MergerNextStep, MergerUploadStep, MergerIndexStep, MergerEnqueueStep, MergerCleanupStep,
     MergerFailsStep DEF Merger
<1>4. CASE Worker \/ WorkerFails
  BY <1>4, WorkerStep
<1>5. CASE IndexerLists \/ IndexerWrites \/ \E k \in Piece : DeleteItem(k) \/ EnqueueHls(k)
  BY <1>5, IndexerStep, DeleteItemStep
<1>6. CASE Tool
  BY <1>6, ToolGroupStep, ToolEndsStep, ToolStagesStep, ToolJournalsStep, ToolPublishesStep, ToolDropsStep,
     ToolRefreshesStep, ToolUnjournalsStep, ToolUnstagesStep, ToolGivesUpStep DEF Tool
<1>7. CASE (\E kind \in {"repair", "gaps"} : ToolStarts(kind)) \/ \E dies \in BOOLEAN : ToolFails(dies)
  BY <1>7, ToolStartsStep, ToolGivesUpStep DEF Kinds
<1> QED
  BY <1>1, <1>2, <1>3, <1>4, <1>5, <1>6, <1>7 DEF Next

\* The inductive invariant of the archive.
THEOREM Invariant == Spec => []IInv
<1>1. Init => IInv
  BY InitInvariant
<1>2. IInv /\ [Next]_vars => IInv'
  BY StepInvariant
<1> QED
  BY <1>1, <1>2, PTL DEF Spec

\* No recorded piece is lost, whatever stops where: it is on the disk, in a video,
\* in the staged copy of a journal, or was deleted on request; what a repair removes
\* is what its copy holds, except the pieces that reached its videos after it had
\* read them, and what the merger replaces is what it replaces it with, except under
\* a piece that it could not remove (session_merger publishes before it removes,
\* repair_archive publishes before it drops).
THEOREM NothingLostAlways == Spec => []NothingLost
<1>1. IInv => NothingLost
  <2> SUFFICES ASSUME IInv, NEW p \in DOMAIN pieces, pieces[p].real PROVE Kept(p) \/ p \in overtaken \/ p \in overwritten
    BY DEF NothingLost
  <2>1. p \in disk \/ Safe(p)
    BY DEF IInv, Lossless, Recorded
  <2> QED
    BY <2>1 DEF Safe, Kept, Kinds
<1> QED
  BY <1>1, Invariant, PTL

\* An interrupted repair can be resumed: a journal is never without the staged
\* video that it names (stage, journal, publish and their reverse in repair_archive).
THEOREM JournalBackedAlways == Spec => []JournalBacked
<1>1. IInv => JournalBacked
  BY DEF IInv, Journals, JournalBacked, Kinds
<1> QED
  BY <1>1, Invariant, PTL

\* Every record the programs share has its fields, and a video has pieces in it.
THEOREM TypeCorrect == Spec => []TypeOK
<1>1. IInv => TypeOK
  BY DEF IInv, Typed, Clocked, Shapes, Shaped, TypeOK, Recorded, Rows
<1> QED
  BY <1>1, Invariant, PTL
=============================================================================
