--------------------------- MODULE OperatorProofs ---------------------------
(* Proofs about what the operator works with.  Whatever number of processes  *)
(* work on pool.json, and however their verbs interleave, die or find it     *)
(* damaged, it is a table keyed by id and by path that one verb changes at a *)
(* time (SessionPool); and a dialog of the terminal interface that is        *)
(* answered acts on what it asked about (Tui).                               *)
EXTENDS SessionPool, Tui, FiniteSetTheorems, WellFoundedInduction, TLAPS

Entries == [id : Nat \ {0}, path : Paths, status : Statuses]

\* No two entries share an id or a path.
Unique(s) == \A i, j \in DOMAIN s : s[i].id = s[j].id \/ s[i].path = s[j].path => i = j

\* There is a greatest id, were the pool ever so long.
Bounded(s) == \E n \in Nat : \A i \in DOMAIN s : s[i].id <= n

IsPool(s) == s \in Seq(Entries) /\ Unique(s) /\ Bounded(s)

\* What a pool was is still there, place by place; only its end and the
\* statuses are new.
Continues(s, t) ==
    \A i \in DOMAIN s : i \in DOMAIN t /\ t[i].id = s[i].id /\ t[i].path = s[i].path

-----------------------------------------------------------------------------
(* The pool as a value.                                                      *)

\* A set of naturals that has a member has a least one.
LEMMA LeastNatural ==
    ASSUME NEW T, T \subseteq Nat, T # {}
    PROVE  \E x \in T : \A y \in T : x <= y
<1>1. \E x \in T : \A y \in T : ~(<<y, x>> \in OpToRel(<, Nat))
  BY NatLessThanWellFounded, WFMin
<1>2. ASSUME NEW x \in Nat, NEW y \in Nat, ~(<<y, x>> \in OpToRel(<, Nat))
      PROVE  x <= y
  <2>1. ~(y < x)
    BY <1>2 DEF OpToRel
  <2> QED
    BY <2>1
<1> QED
  BY <1>1, <1>2

\* A bounded set of naturals has a greatest one, zero at the least.
LEMMA GreatestNatural ==
    ASSUME NEW T, T \subseteq Nat, NEW n \in Nat, \A t \in T : t <= n
    PROVE  /\ Max({0} \cup T) \in Nat
           /\ \A t \in T : t <= Max({0} \cup T)
<1> DEFINE S == {0} \cup T
           Above == {m \in Nat : \A t \in S : t <= m}
<1>1. n \in Above
  OBVIOUS
<1>2. PICK m \in Above : \A y \in Above : m <= y
  <2>1. Above \subseteq Nat /\ Above # {}
    BY <1>1
  <2> HIDE DEF Above
  <2> QED
    BY <2>1, LeastNatural
<1>3. m \in S
  <2> SUFFICES ASSUME m \notin S PROVE FALSE
    OBVIOUS
  <2>1. m \in Nat /\ m # 0 /\ \A t \in S : t < m
    OBVIOUS
  <2>2. m - 1 \in Above
    BY <2>1
  <2> QED
    BY <1>2, <2>1, <2>2
<1>4. S \subseteq Nat /\ T \subseteq S
  OBVIOUS
<1> HIDE DEF S
<1>5. \E x \in S : \A y \in S : x >= y
  BY <1>2, <1>3, <1>4
<1>6. /\ Max(S) \in S
      /\ \A y \in S : Max(S) >= y
  BY <1>5 DEF Max
<1>7. /\ Max(S) \in Nat
      /\ \A t \in T : t <= Max(S)
  BY <1>4, <1>6
<1> QED
  BY <1>7 DEF S

\* The next id is a number above every id of the pool.
LEMMA NextIdIsFresh ==
    ASSUME NEW s, IsPool(s)
    PROVE  /\ NextId(s) \in Nat \ {0}
           /\ \A i \in DOMAIN s : s[i].id < NextId(s)
<1> DEFINE T == {e.id : e \in ToSet(s)}
<1>1. PICK n \in Nat : \A i \in DOMAIN s : s[i].id <= n
  BY DEF IsPool, Bounded
<1>2. T \subseteq Nat /\ \A t \in T : t <= n
  <2>1. \A i \in DOMAIN s : s[i] \in Entries
    <3>1. s \in Seq(Entries)
      BY DEF IsPool
    <3> QED
      BY <3>1
  <2>2. \A i \in DOMAIN s : s[i].id \in Nat
    BY <2>1 DEF Entries
  <2> QED
    BY <1>1, <2>2 DEF ToSet
<1>3. \A i \in DOMAIN s : s[i].id \in T
  BY DEF ToSet
<1>4. NextId(s) = 1 + Max({0} \cup T)
  BY DEF NextId
<1> HIDE DEF T
<1>5. /\ Max({0} \cup T) \in Nat
      /\ \A t \in T : t <= Max({0} \cup T)
  BY <1>2, GreatestNatural
<1>6. \A t \in T : t < 1 + Max({0} \cup T)
  BY <1>2, <1>5
<1>7. 1 + Max({0} \cup T) \in Nat \ {0}
  BY <1>5
<1> QED
  BY <1>3, <1>4, <1>6, <1>7

\* The enumeration of a finite set is a sequence of its members, each once.
LEMMA Enumeration ==
    ASSUME NEW S, IsFiniteSet(S)
    PROVE  /\ SetToSeq(S) \in Seq(S)
           /\ \A i, j \in DOMAIN SetToSeq(S) : SetToSeq(S)[i] = SetToSeq(S)[j] => i = j
           /\ S = {} => SetToSeq(S) = <<>>
<1>1. Cardinality(S) \in Nat /\ ExistsBijection(1 .. Cardinality(S), S)
  BY FS_CardinalityType
<1>2. \E f \in [1 .. Cardinality(S) -> S] : IsInjective(f)
  BY <1>1 DEF ExistsBijection, Bijection, Injection, IsInjective
<1>3. SetToSeq(S) \in [1 .. Cardinality(S) -> S] /\ IsInjective(SetToSeq(S))
  BY <1>2 DEF SetToSeq
<1>4. S = {} => Cardinality(S) = 0
  BY FS_EmptySet
<1>5. SetToSeq(S) \in Seq(S) /\ Len(SetToSeq(S)) = Cardinality(S)
  BY <1>1, <1>3
<1> QED
  BY <1>1, <1>3, <1>4, <1>5 DEF IsInjective

\* A concatenation holds the entries of both parts, in order.
LEMMA Concatenation ==
    ASSUME NEW s \in Seq(Entries), NEW u \in Seq(Entries)
    PROVE  /\ s \o u \in Seq(Entries) /\ Len(s \o u) = Len(s) + Len(u)
           /\ \A i \in 1 .. Len(s) : (s \o u)[i] = s[i]
           /\ \A i \in Len(s) + 1 .. Len(s) + Len(u) :
                  (s \o u)[i] = u[i - Len(s)] /\ i - Len(s) \in 1 .. Len(u)
           /\ Len(u) \in Nat /\ Len(s) \in Nat
  OBVIOUS

\* The entries of newly found profiles: consecutive ids, a status of their own.
Numbered(n, first, paths) ==
    [i \in 1 .. n |-> [id |-> first + (i - 1), path |-> paths[i], status |-> AuthRequired]]

\* They are entries, numbered on from the first id.
LEMMA NumberedEntries ==
    ASSUME NEW n \in Nat, NEW first \in Nat \ {0}, NEW paths,
           \A i \in 1 .. n : paths[i] \in Paths
    PROVE  LET u == Numbered(n, first, paths)
           IN  /\ u \in Seq(Entries) /\ Len(u) = n
               /\ \A i \in 1 .. n : u[i].id = first + (i - 1) /\ u[i].path = paths[i]
<1> DEFINE entry(i) == [id |-> first + (i - 1), path |-> paths[i], status |-> AuthRequired]
<1>1. ASSUME NEW i \in 1 .. n
      PROVE  entry(i) \in Entries /\ entry(i).id = first + (i - 1) /\ entry(i).path = paths[i]
  <2>1. first + (i - 1) \in Nat \ {0} /\ paths[i] \in Paths /\ AuthRequired \in Statuses
    BY DEF Statuses
  <2> QED
    BY <2>1 DEF Entries
<1>2. Numbered(n, first, paths) = [i \in 1 .. n |-> entry(i)]
  BY DEF Numbered
<1> HIDE DEF entry
<1> QED
  BY <1>1, <1>2

\* Registering the profiles found on disk keeps the pool one, and every entry.
LEMMA Registered ==
    ASSUME NEW s, IsPool(s), NEW present \in SUBSET Own
    PROVE  LET t == RegisterDiscovered(s, present)
           IN  /\ IsPool(t)
               /\ ToSet(s) \subseteq ToSet(t) /\ Continues(s, t)
               /\ present \subseteq Known(s) => t = s
<1> DEFINE missing == present \ Known(s)
           new == SetToSeq(missing)
           late == [i \in DOMAIN new |-> [Entry(s, new[i]) EXCEPT !.id = @ + (i - 1)]]
           t == s \o late
<1>1. RegisterDiscovered(s, present) = t
  BY DEF RegisterDiscovered
<1>2. IsFiniteSet(missing)
  BY PoolAssumption, FS_Subset
<1>3. /\ new \in Seq(missing)
      /\ \A i, j \in DOMAIN new : new[i] = new[j] => i = j
      /\ missing = {} => new = <<>>
  BY <1>2, Enumeration
<1>4. /\ NextId(s) \in Nat \ {0}
      /\ \A i \in DOMAIN s : s[i].id < NextId(s)
  BY NextIdIsFresh
<1>5. Len(new) \in Nat /\ DOMAIN new = 1 .. Len(new) /\ \A i \in DOMAIN new : new[i] \in missing
  <2> HIDE DEF new, missing
  <2> QED
    BY <1>3
<1>6. missing \subseteq Paths
  BY DEF Paths
<1> DEFINE L == Len(new)
           next == NextId(s)
<1>7. ASSUME NEW i \in 1 .. L
      PROVE  late[i] = [id |-> next + (i - 1), path |-> new[i], status |-> AuthRequired]
  BY <1>5 DEF Entry
<1> HIDE DEF new, missing, next
<1>8. /\ late \in Seq(Entries) /\ Len(late) = L
      /\ \A i \in 1 .. L : late[i].id = next + (i - 1) /\ late[i].path = new[i]
  <2>1. late = Numbered(L, next, new)
    BY <1>5, <1>7 DEF Numbered
  <2>2. L \in Nat /\ next \in Nat \ {0} /\ \A i \in 1 .. L : new[i] \in Paths
    BY <1>4, <1>5, <1>6 DEF next
  <2> HIDE DEF late, L
  <2> QED
    BY <2>1, <2>2, NumberedEntries
<1>9. s \in Seq(Entries)
  BY DEF IsPool
<1>10. L \in Nat /\ \A i, j \in 1 .. L : new[i] = new[j] => i = j
  BY <1>3, <1>5
<1> HIDE DEF late, L
<1>11. /\ t \in Seq(Entries) /\ Len(t) = Len(s) + L
       /\ \A i \in 1 .. Len(s) : t[i] = s[i]
       /\ \A i \in Len(s) + 1 .. Len(s) + L : t[i] = late[i - Len(s)] /\ i - Len(s) \in 1 .. L
       /\ L \in Nat /\ Len(s) \in Nat
  BY <1>8, <1>9, <1>10, Concatenation
<1>12. \A i \in 1 .. Len(s) : \A k \in 1 .. L : s[i].path # new[k]
  BY <1>5, <1>9 DEF L, missing, Known, ToSet
<1> HIDE DEF t
<1>13. Unique(t)
  <2> SUFFICES ASSUME NEW i \in 1 .. Len(t), NEW j \in 1 .. Len(t),
                      t[i].id = t[j].id \/ t[i].path = t[j].path
               PROVE  i = j
    BY <1>11 DEF Unique
  <2>1. CASE i <= Len(s) /\ j <= Len(s)
    BY <2>1, <1>9, <1>11 DEF IsPool, Unique
  <2>2. CASE i <= Len(s) /\ j > Len(s)
    <3>1. t[j] = late[j - Len(s)] /\ j - Len(s) \in 1 .. L /\ t[i] = s[i] /\ i \in DOMAIN s
      BY <2>2, <1>9, <1>11
    <3>2. t[i].path # t[j].path
      BY <3>1, <1>8, <1>12, <1>9
    <3>3. t[i].id # t[j].id
      BY <3>1, <1>8, <1>4, <1>9 DEF next, Entries
    <3> QED
      BY <3>2, <3>3
  <2>3. CASE i > Len(s) /\ j <= Len(s)
    <3>1. t[i] = late[i - Len(s)] /\ i - Len(s) \in 1 .. L /\ t[j] = s[j] /\ j \in DOMAIN s
      BY <2>3, <1>9, <1>11
    <3>2. t[i].path # t[j].path
      BY <3>1, <1>8, <1>12, <1>9
    <3>3. t[i].id # t[j].id
      BY <3>1, <1>8, <1>4, <1>9 DEF next, Entries
    <3> QED
      BY <3>2, <3>3
  <2>4. CASE i > Len(s) /\ j > Len(s)
    <3>1. /\ t[i] = late[i - Len(s)] /\ i - Len(s) \in 1 .. L
          /\ t[j] = late[j - Len(s)] /\ j - Len(s) \in 1 .. L
      BY <2>4, <1>11
    <3>2. t[i].id = t[j].id => i = j
      BY <3>1, <1>8, <1>4, <1>11 DEF next
    <3>3. t[i].path = t[j].path => i = j
      <4>1. t[i].path = new[i - Len(s)] /\ t[j].path = new[j - Len(s)]
        BY <3>1, <1>8
      <4>2. t[i].path = t[j].path => i - Len(s) = j - Len(s)
        BY <4>1, <3>1, <1>10
      <4> QED
        BY <4>2, <1>11
    <3> QED
      BY <3>2, <3>3
  <2> QED
    BY <2>1, <2>2, <2>3, <2>4, <1>11
<1>14. Bounded(t)
  <2>1. next \in Nat /\ next + L \in Nat
    BY <1>4, <1>11 DEF next
  <2>2. ASSUME NEW i \in 1 .. Len(t) PROVE t[i].id <= next + L
    <3>1. t[i].id \in Nat
      <4>1. t[i] \in Entries
        BY <1>11
      <4> QED
        BY <4>1 DEF Entries
    <3>2. CASE i <= Len(s)
      <4>1. i \in DOMAIN s /\ t[i] = s[i]
        BY <3>2, <1>9, <1>11
      <4>2. t[i].id < next
        BY <4>1, <1>4 DEF next
      <4> QED
        BY <4>2, <3>1, <2>1, <1>11
    <3>3. CASE i > Len(s)
      <4>1. i - Len(s) \in 1 .. L /\ t[i].id = next + ((i - Len(s)) - 1)
        BY <3>3, <1>8, <1>11
      <4> QED
        BY <4>1, <2>1, <1>11
    <3> QED
      BY <3>2, <3>3, <1>11
  <2>3. \A i \in DOMAIN t : t[i].id <= next + L
    BY <2>2, <1>11
  <2> QED
    BY <2>1, <2>3 DEF Bounded
<1>15. ToSet(s) \subseteq ToSet(t)
  BY <1>9, <1>11 DEF ToSet
<1>17. Continues(s, t)
  BY <1>9, <1>11 DEF Continues
<1>16. ASSUME present \subseteq Known(s) PROVE t = s
  <2>1. L = 0
    BY <1>16, <1>3 DEF L, missing
  <2> QED
    BY <2>1, <1>9, <1>11
<1> QED
  BY <1>1, <1>11, <1>13, <1>14, <1>15, <1>16, <1>17 DEF IsPool

\* What one step makes of the table: the four actions of SessionRegistry, as a
\* relation between two tables.
Step(t, u) ==
    \/ t \subseteq u /\ Registry!Keyed(u)
    \/ \E e \in t : u = t \ {e}
    \/ \E e \in t, f \in u : f.id = e.id /\ f.path = e.path /\ u = (t \ {e}) \cup {f}
    \/ u = {}

\* A pool is keyed.
LEMMA PoolIsKeyed == ASSUME NEW s, IsPool(s) PROVE Registry!Keyed(ToSet(s))
  BY DEF IsPool, Unique, ToSet, Registry!Keyed

\* The empty pool is one.
LEMMA EmptyPool == IsPool(<<>>) /\ ToSet(<<>>) = {}
  BY DEF IsPool, Unique, Bounded, ToSet

\* A profile that the pool does not name is added to it.
LEMMA Added ==
    ASSUME NEW s, IsPool(s), NEW path \in Paths
    PROVE  IsPool(AddSession(s, path)) /\ ToSet(s) \subseteq ToSet(AddSession(s, path))
<1>1. CASE path \in Known(s)
  BY <1>1 DEF AddSession
<1>2. CASE path \notin Known(s)
  <2> DEFINE n == NextId(s)
             e == Entry(s, path)
             t == Append(s, e)
  <2>1. n \in Nat \ {0} /\ \A i \in DOMAIN s : s[i].id < n
    BY NextIdIsFresh
  <2>2. e \in Entries /\ e.id = n /\ e.path = path
    BY <2>1 DEF Entry, Entries, Statuses
  <2>3. s \in Seq(Entries) /\ Unique(s)
    BY DEF IsPool
  <2>4. \A i \in DOMAIN s : s[i].path # path /\ s[i].id # n /\ s[i].id <= n
    <3>1. \A i \in DOMAIN s : s[i].path # path
      BY <1>2 DEF Known, ToSet
    <3>2. \A i \in DOMAIN s : s[i] \in Entries
      BY <2>3
    <3>3. \A i \in DOMAIN s : s[i].id \in Nat
      BY <3>2 DEF Entries
    <3> HIDE DEF n
    <3> QED
      BY <3>1, <3>3, <2>1
  <2>5. AddSession(s, path) = t
    BY <1>2 DEF AddSession
  <2> HIDE DEF e, n
  <2>6. /\ t \in Seq(Entries) /\ Len(t) = Len(s) + 1 /\ Len(s) \in Nat
        /\ \A i \in 1 .. Len(s) : t[i] = s[i] /\ i \in DOMAIN s
        /\ t[Len(s) + 1] = e
        /\ DOMAIN s = 1 .. Len(s) /\ DOMAIN t = 1 .. Len(s) + 1
    BY <2>2, <2>3
  <2> HIDE DEF t
  <2>7. Unique(t)
    BY <2>2, <2>3, <2>4, <2>6 DEF Unique
  <2>8. \A i \in DOMAIN t : t[i].id <= n
    BY <2>1, <2>2, <2>4, <2>6
  <2>9. ToSet(s) \subseteq ToSet(t)
    BY <2>6 DEF ToSet
  <2> QED
    BY <2>1, <2>5, <2>6, <2>7, <2>8, <2>9 DEF IsPool, Bounded
<1> QED
  BY <1>1, <1>2

\* What is left when the entry of one place is removed.
LEMMA RemovedAt ==
    ASSUME NEW s \in Seq(Entries), NEW i \in DOMAIN s
    PROVE  LET u == RemoveAt(s, i)
           IN  /\ u \in Seq(Entries) /\ Len(u) = Len(s) - 1
               /\ \A j \in 1 .. Len(u) : u[j] = IF j < i THEN s[j] ELSE s[j + 1]
<1> DEFINE front == SubSeq(s, 1, i - 1)
           rest == SubSeq(s, i + 1, Len(s))
<1>1. i \in 1 .. Len(s) /\ Len(s) \in Nat
  OBVIOUS
<1>2. /\ front \in Seq(Entries) /\ Len(front) = i - 1
      /\ \A j \in 1 .. i - 1 : front[j] = s[j]
  BY <1>1
<1>3. /\ rest \in Seq(Entries) /\ Len(rest) = Len(s) - i
      /\ \A j \in 1 .. Len(s) - i : rest[j] = s[j + i]
  BY <1>1
<1> HIDE DEF front, rest
<1> DEFINE u == front \o rest
<1>4. /\ u \in Seq(Entries) /\ Len(u) = Len(front) + Len(rest)
      /\ \A j \in 1 .. Len(front) : u[j] = front[j]
      /\ \A j \in Len(front) + 1 .. Len(front) + Len(rest) : u[j] = rest[j - Len(front)]
  BY <1>2, <1>3, Concatenation
<1>5. RemoveAt(s, i) = u
  BY DEF RemoveAt, front, rest
<1> HIDE DEF u
<1>6. \A j \in 1 .. Len(s) - 1 : u[j] = IF j < i THEN s[j] ELSE s[j + 1]
  <2> SUFFICES ASSUME NEW j \in 1 .. Len(s) - 1
               PROVE  u[j] = IF j < i THEN s[j] ELSE s[j + 1]
    OBVIOUS
  <2>1. CASE j < i
    BY <2>1, <1>1, <1>2, <1>4
  <2>2. CASE ~(j < i)
    <3>0. Len(front) = i - 1 /\ Len(rest) = Len(s) - i
      BY <1>2, <1>3
    <3>1. j \in Len(front) + 1 .. Len(front) + Len(rest) /\ j - Len(front) = j - i + 1
      BY <2>2, <3>0, <1>1
    <3>2. j - i + 1 \in 1 .. Len(s) - i /\ (j - i + 1) + i = j + 1
      BY <2>2, <1>1
    <3> QED
      BY <2>2, <3>1, <3>2, <1>3, <1>4
  <2> QED
    BY <2>1, <2>2
<1>7. Len(u) = Len(s) - 1
  BY <1>1, <1>2, <1>3, <1>4
<1> QED
  BY <1>4, <1>5, <1>6, <1>7

\* At most one entry is dropped, and no other is touched.
LEMMA Dropped ==
    ASSUME NEW s, IsPool(s), NEW hits \in SUBSET (DOMAIN s)
    PROVE  LET u == DropAt(s, hits)
           IN  IsPool(u) /\ (u = s \/ \E e \in ToSet(s) : ToSet(u) = ToSet(s) \ {e})
<1>1. CASE hits = {}
  BY <1>1 DEF DropAt
<1>2. CASE hits # {}
  <2>1. s \in Seq(Entries) /\ Unique(s) /\ Bounded(s)
    BY DEF IsPool
  <2>2. hits \subseteq Nat
    BY <2>1
  <2>3. \E x \in hits : \A y \in hits : x <= y
    BY <2>2, <1>2, LeastNatural
  <2>4. Min(hits) \in hits
    BY <2>3 DEF Min
  <2> DEFINE i == Min(hits)
             u == RemoveAt(s, i)
  <2>5. i \in DOMAIN s
    BY <2>4
  <2>6. /\ u \in Seq(Entries) /\ Len(u) = Len(s) - 1
        /\ \A j \in 1 .. Len(u) : u[j] = IF j < i THEN s[j] ELSE s[j + 1]
    BY <2>1, <2>5, RemovedAt
  <2>7. DropAt(s, hits) = u
    BY <1>2 DEF DropAt
  <2> HIDE DEF i, u
  <2>8. DOMAIN s = 1 .. Len(s) /\ Len(s) \in Nat /\ DOMAIN u = 1 .. Len(s) - 1
    BY <2>1, <2>6
  <2>9. \A j \in DOMAIN u : \E k \in DOMAIN s :
            k # i /\ k = (IF j < i THEN j ELSE j + 1) /\ u[j] = s[k]
    BY <2>5, <2>6, <2>8
  <2>10. \A k \in DOMAIN s : k # i => \E j \in DOMAIN u : u[j] = s[k]
    <3> SUFFICES ASSUME NEW k \in DOMAIN s, k # i PROVE \E j \in DOMAIN u : u[j] = s[k]
      OBVIOUS
    <3>1. CASE k < i
      BY <3>1, <2>5, <2>6, <2>8
    <3>2. CASE k > i
      <4>1. k - 1 \in DOMAIN u /\ ~(k - 1 < i) /\ (k - 1) + 1 = k
        BY <3>2, <2>5, <2>8
      <4> QED
        BY <4>1, <2>6, <2>8
    <3> QED
      BY <3>1, <3>2, <2>5, <2>8
  <2>11. Unique(u)
    <3> SUFFICES ASSUME NEW j1 \in DOMAIN u, NEW j2 \in DOMAIN u,
                        u[j1].id = u[j2].id \/ u[j1].path = u[j2].path
                 PROVE  j1 = j2
      BY DEF Unique
    <3>1. PICK k1 \in DOMAIN s : k1 # i /\ k1 = (IF j1 < i THEN j1 ELSE j1 + 1) /\ u[j1] = s[k1]
      BY <2>9
    <3>2. PICK k2 \in DOMAIN s : k2 # i /\ k2 = (IF j2 < i THEN j2 ELSE j2 + 1) /\ u[j2] = s[k2]
      BY <2>9
    <3>3. k1 = k2
      BY <3>1, <3>2, <2>1 DEF Unique
    <3> QED
      BY <3>1, <3>2, <3>3, <2>5, <2>8
  <2>12. Bounded(u)
    BY <2>1, <2>9 DEF Bounded
  <2>13. \A k \in DOMAIN s : s[k] = s[i] => k = i
    BY <2>1, <2>5 DEF Unique
  <2>14. ToSet(u) = ToSet(s) \ {s[i]}
    BY <2>9, <2>10, <2>13 DEF ToSet
  <2>15. s[i] \in ToSet(s)
    BY <2>5 DEF ToSet
  <2> QED
    BY <2>6, <2>7, <2>11, <2>12, <2>14, <2>15 DEF IsPool
<1> QED
  BY <1>1, <1>2

\* A verdict is written to the one entry of its id, if there is one.
LEMMA Marked ==
    ASSUME NEW s, IsPool(s), NEW id, NEW status \in Statuses
    PROVE  IsPool(Mark(s, id, status)) /\ Step(ToSet(s), ToSet(Mark(s, id, status)))
<1> DEFINE t == Mark(s, id, status)
<1>1. s \in Seq(Entries) /\ Unique(s) /\ Bounded(s)
  BY DEF IsPool
<1>2. DOMAIN s = 1 .. Len(s) /\ Len(s) \in Nat /\ \A i \in DOMAIN s : s[i] \in Entries
  BY <1>1
<1>3. ASSUME NEW i \in DOMAIN s
      PROVE  /\ t[i] \in Entries /\ t[i].id = s[i].id /\ t[i].path = s[i].path
             /\ s[i].id # id => t[i] = s[i]
  <2>1. t[i] = IF s[i].id = id THEN [s[i] EXCEPT !.status = status] ELSE s[i]
    BY DEF Mark
  <2>2. s[i] \in Entries
    BY <1>2
  <2> QED
    BY <2>1, <2>2 DEF Entries
<1>4. t = [i \in 1 .. Len(s) |-> t[i]]
  BY <1>2 DEF Mark
<1> HIDE DEF t
<1>5. t \in Seq(Entries) /\ DOMAIN t = DOMAIN s
  BY <1>2, <1>3, <1>4
<1>6. IsPool(t)
  BY <1>1, <1>3, <1>5 DEF IsPool, Unique, Bounded
<1>7. CASE \A i \in DOMAIN s : s[i].id # id
  <2>1. ToSet(t) = ToSet(s)
    BY <1>7, <1>3, <1>5 DEF ToSet
  <2> QED
    BY <2>1, <1>6, PoolIsKeyed DEF Step, t
<1>8. CASE \E i \in DOMAIN s : s[i].id = id
  <2>1. PICK i \in DOMAIN s : s[i].id = id
    BY <1>8
  <2>2. \A j \in DOMAIN s : j # i => s[j].id # id /\ t[j] = s[j] /\ s[j] # s[i]
    BY <1>1, <1>3, <2>1 DEF Unique
  <2>3. ToSet(t) = (ToSet(s) \ {s[i]}) \cup {t[i]}
    BY <1>5, <2>2 DEF ToSet
  <2>4. s[i] \in ToSet(s) /\ t[i] \in ToSet(t)
    BY <1>5 DEF ToSet
  <2> QED
    BY <1>3, <1>6, <2>3, <2>4 DEF Step, t
<1> QED
  BY <1>7, <1>8

\* What a verb may ask for.
OpOK(op) ==
    /\ op.kind = "add" => op.path \in Paths
    /\ op.kind = "clone" => op.path \in Own
    /\ op.kind = "mark" => op.status \in Statuses

\* Every locked verb makes a pool of a pool, in one step of the table.
LEMMA Applied ==
    ASSUME NEW s, IsPool(s), NEW op, OpOK(op)
    PROVE  IsPool(Apply(op, s)) /\ Step(ToSet(s), ToSet(Apply(op, s)))
<1>1. Registry!Keyed(ToSet(s)) /\ Step(ToSet(s), ToSet(s))
  BY PoolIsKeyed DEF Step
<1>2. CASE op.kind \in {"add", "clone"}
  <2>1. Apply(op, s) = AddSession(s, op.path) /\ op.path \in Paths
    BY <1>2 DEF Apply, OpOK, Paths
  <2>2. IsPool(AddSession(s, op.path)) /\ ToSet(s) \subseteq ToSet(AddSession(s, op.path))
    BY <2>1, Added
  <2> QED
    BY <2>1, <2>2, PoolIsKeyed DEF Step
<1>3. CASE op.kind = "remove"
  <2> DEFINE hits == {i \in DOMAIN s : s[i].id = op.id}
  <2>1. Apply(op, s) = DropAt(s, hits) /\ hits \in SUBSET (DOMAIN s)
    BY <1>3 DEF Apply, DropId
  <2> HIDE DEF hits
  <2> QED
    BY <2>1, <1>1, Dropped DEF Step
<1>4. CASE op.kind = "removeName"
  <2> DEFINE hits == {i \in DOMAIN s : NameOf[s[i].path] = op.name}
  <2>1. Apply(op, s) = DropAt(s, hits) /\ hits \in SUBSET (DOMAIN s)
    BY <1>4 DEF Apply, DropName
  <2> HIDE DEF hits
  <2> QED
    BY <2>1, <1>1, Dropped DEF Step
<1>5. CASE op.kind = "mark"
  <2>1. Apply(op, s) = Mark(s, op.id, op.status) /\ op.status \in Statuses
    BY <1>5 DEF Apply, OpOK
  <2> QED
    BY <2>1, Marked
<1>6. CASE op.kind \notin {"add", "clone", "remove", "removeName", "mark"}
  BY <1>6, <1>1 DEF Apply
<1> QED
  BY <1>2, <1>3, <1>4, <1>5, <1>6

-----------------------------------------------------------------------------
(* The invariant.                                                            *)

Fields == {"pc", "verb", "op", "then", "arg", "view", "buf", "todo", "out"}
Shape(r) == DOMAIN r = Fields /\ r = [f \in DOMAIN r |-> r[f]]

\* The verdicts of a health check are still to be marked.
Marking(r) == r.pc = "marking" \/ (r.pc \in {"lock", "new", "held"} /\ r.then = "marking")

\* A verb between its load and its save has a pool in hand, and what it asked
\* for is in order.
RecordOK(r) ==
    /\ Shape(r)
    /\ r.view \in Seq(Entries)
    /\ OpOK(r.op)
    /\ r.then \notin {"lock", "new", "held", "browser", "import"}
    /\ r.pc \in {"browser", "import"} => r.arg \in Paths
    /\ Marking(r) => r.todo \in Seq(Entries)
    /\ r.pc \in {"new", "held"} => IsPool(r.buf)

\* It holds the lock, and the file is as it loaded or saved it, or was damaged
\* (and quarantined by a reader) since.
Locked(p) ==
    /\ proc[p].pc \in {"new", "held"} => lock = p
    /\ proc[p].pc = "new" => Table \subseteq ToSet(proc[p].buf)
    /\ proc[p].pc = "held" => Table = {} \/ Table = ToSet(proc[p].buf)

PoolInv ==
    /\ pool = Damaged \/ IsPool(pool)
    /\ dirs \subseteq Own
    /\ proc = [p \in Procs |-> proc[p]]
    /\ \A p \in Procs : RecordOK(proc[p]) /\ Locked(p)

\* A step of one process that holds no pool in hand, and takes none.
LEMMA Aside ==
    ASSUME PoolInv, NEW p \in Procs, NEW r, proc' = [proc EXCEPT ![p] = r],
           RecordOK(r), r.pc \notin {"new", "held"},
           UNCHANGED <<pool, lock>>, dirs' \subseteq Own
    PROVE  PoolInv'
<1>1. proc' = [q \in Procs |-> proc'[q]] /\ proc'[p] = r /\ \A q \in Procs \ {p} : proc'[q] = proc[q]
  BY DEF PoolInv
<1>2. Table' = Table
  BY DEF Table
<1>3. ASSUME NEW q \in Procs PROVE RecordOK(proc'[q]) /\ Locked(q)'
  <2>1. CASE q = p
    BY <2>1, <1>1 DEF Locked
  <2>2. CASE q # p
    BY <2>2, <1>1, <1>2 DEF Locked, PoolInv
  <2> QED
    BY <2>1, <2>2
<1> QED
  BY <1>1, <1>3 DEF PoolInv

\* Going on to a phase without conditions.
LEMMA GoOK ==
    ASSUME NEW r, RecordOK(r), NEW pc,
           pc \notin {"browser", "import", "marking", "lock", "new", "held"}
    PROVE  RecordOK([r EXCEPT !.pc = pc])
  BY DEF RecordOK, Shape, Fields, Marking

\* Asking for a change.
LEMMA AskOK ==
    ASSUME NEW r, RecordOK(r), NEW op, OpOK(op), NEW then,
           then \notin {"lock", "new", "held", "browser", "import", "marking"}
    PROVE  RecordOK([r EXCEPT !.pc = "lock", !.op = op, !.then = then])
<1> DEFINE x == [r EXCEPT !.pc = "lock", !.op = op, !.then = then]
<1>1. Shape(x) /\ x.pc = "lock" /\ x.op = op /\ x.then = then /\ x.view = r.view
  BY DEF RecordOK, Shape, Fields
<1> HIDE DEF x
<1>2. RecordOK(x)
  BY <1>1 DEF RecordOK, Marking
<1> QED
  BY <1>2 DEF x

\* A verb begins.
LEMMA BeginOK ==
    ASSUME NEW pc, NEW verb, NEW path \in Paths, pc \notin {"marking", "lock", "new", "held"}
    PROVE  RecordOK([Idle EXCEPT !.pc = pc, !.verb = verb, !.arg = path])
<1> DEFINE x == [Idle EXCEPT !.pc = pc, !.verb = verb, !.arg = path]
<1>1. Shape(x) /\ x.pc = pc /\ x.op = NoOp /\ x.then = "idle" /\ x.view = <<>> /\ x.arg = path
  BY DEF Shape, Fields, Idle
<1> HIDE DEF x
<1>2. RecordOK(x)
  BY <1>1 DEF RecordOK, Marking, NoOp, OpOK
<1> QED
  BY <1>2 DEF x

\* A verb ends.
LEMMA FinishOK ==
    ASSUME NEW out, NEW arg
    PROVE  /\ RecordOK(Idle) /\ RecordOK([Idle EXCEPT !.out = out, !.arg = arg])
           /\ Idle.pc = "idle" /\ [Idle EXCEPT !.out = out, !.arg = arg].pc = "idle"
<1> DEFINE x == [Idle EXCEPT !.out = out, !.arg = arg]
<1>1. Shape(Idle) /\ Idle.pc = "idle" /\ Idle.op = NoOp /\ Idle.then = "idle" /\ Idle.view = <<>>
  BY DEF Shape, Fields, Idle
<1>2. Shape(x) /\ x.pc = "idle" /\ x.op = NoOp /\ x.then = "idle" /\ x.view = <<>>
  BY DEF Shape, Fields, Idle
<1> HIDE DEF x
<1>3. RecordOK(Idle)
  BY <1>1 DEF RecordOK, Marking, NoOp, OpOK
<1>4. RecordOK(x)
  BY <1>2 DEF RecordOK, Marking, NoOp, OpOK
<1> QED
  BY <1>1, <1>2, <1>3, <1>4 DEF x

\* The three ways a verb goes on, as steps that keep the invariant.
LEMMA GoKeeps ==
    ASSUME PoolInv, NEW p \in Procs, NEW pc,
           pc \notin {"browser", "import", "marking", "lock", "new", "held"},
           Go(p, pc), UNCHANGED <<pool, lock>>, dirs' \subseteq Own
    PROVE  PoolInv'
<1> DEFINE r == [proc[p] EXCEPT !.pc = pc]
<1>1. proc' = [proc EXCEPT ![p] = r]
  BY DEF Go, PoolInv
<1>2. RecordOK(r) /\ r.pc = pc
  <2>1. RecordOK(proc[p])
    BY DEF PoolInv
  <2>2. r.pc = pc
    BY <2>1 DEF RecordOK, Shape, Fields
  <2> QED
    BY <2>1, <2>2, GoOK
<1> HIDE DEF r
<1> QED
  BY <1>1, <1>2, Aside

\* It asks for a change of the pool.
LEMMA AskKeeps ==
    ASSUME PoolInv, NEW p \in Procs, NEW op, OpOK(op), NEW then,
           then \notin {"lock", "new", "held", "browser", "import", "marking"},
           Ask(p, op, then), UNCHANGED <<pool, lock>>, dirs' \subseteq Own
    PROVE  PoolInv'
<1> DEFINE r == [proc[p] EXCEPT !.pc = "lock", !.op = op, !.then = then]
<1>1. proc' = [proc EXCEPT ![p] = r]
  BY DEF Ask, PoolInv
<1>2. RecordOK(r) /\ r.pc = "lock"
  <2>1. RecordOK(proc[p])
    BY DEF PoolInv
  <2>2. r.pc = "lock"
    BY <2>1 DEF RecordOK, Shape, Fields
  <2> QED
    BY <2>1, <2>2, AskOK
<1> HIDE DEF r
<1> QED
  BY <1>1, <1>2, Aside

\* It answers.
LEMMA FinishKeeps ==
    ASSUME PoolInv, NEW p \in Procs, NEW out,
           Finish(p, out), UNCHANGED <<pool, lock>>, dirs' \subseteq Own
    PROVE  PoolInv'
<1> DEFINE r == IF out = "deleted" THEN [Idle EXCEPT !.out = out, !.arg = proc[p].arg] ELSE Idle
<1>1. proc' = [proc EXCEPT ![p] = r]
  BY DEF Finish
<1>2. RecordOK(r) /\ r.pc = "idle"
  BY FinishOK
<1> HIDE DEF r
<1> QED
  BY <1>1, <1>2, Aside

\* It begins.
LEMMA BeginKeeps ==
    ASSUME PoolInv, NEW p \in Procs, NEW verb, NEW path \in Paths, NEW pc,
           pc \notin {"marking", "lock", "new", "held"},
           Begin(p, verb, path, pc), UNCHANGED <<pool, lock>>, dirs' \subseteq Own
    PROVE  PoolInv'
<1> DEFINE r == [Idle EXCEPT !.pc = pc, !.verb = verb, !.arg = path]
<1>1. proc' = [proc EXCEPT ![p] = r]
  BY DEF Begin
<1>2. RecordOK(r)
  BY BeginOK
<1>3. r.pc = pc
  BY DEF Idle
<1> HIDE DEF r
<1> QED
  BY <1>1, <1>2, <1>3, Aside

-----------------------------------------------------------------------------
(* The steps.                                                                *)

\* A verb starts.
LEMMA StartStep ==
    ASSUME PoolInv, NEW p \in Procs, Start(p)
    PROVE  PoolInv' /\ pool' = pool
<1>1. dirs \subseteq Own /\ Own \subseteq Paths /\ Brave \subseteq Paths
  BY DEF PoolInv, Paths
<1>2. CASE StartReading(p)
  <2>1. PICK x \in Paths : \E v : /\ Begin(p, v, x, "read")
                                 /\ UNCHANGED <<pool, dirs, saved, lock, damage>>
    BY <1>2 DEF StartReading
  <2> QED
    BY <1>1, <2>1, BeginKeeps
<1>3. CASE StartLogin(p)
  <2>1. PICK a \in Own : /\ Begin(p, "login", a, "browser") /\ dirs' = dirs \cup {a}
                         /\ UNCHANGED <<pool, saved, lock, damage>>
    BY <1>3 DEF StartLogin
  <2>2. a \in Paths /\ dirs' \subseteq Own
    BY <1>1, <2>1
  <2> QED
    BY <2>1, <2>2, BeginKeeps
<1>4. CASE StartImport(p)
  <2>1. PICK b \in Brave : /\ Begin(p, "import", b, "import")
                           /\ UNCHANGED <<pool, dirs, saved, lock, damage>>
    BY <1>4 DEF StartImport
  <2> QED
    BY <1>1, <2>1, BeginKeeps
<1>5. CASE StartDeletePath(p)
  <2>1. PICK a \in Own : /\ Begin(p, "drop", a, "rmtree")
                         /\ UNCHANGED <<pool, dirs, saved, lock, damage>>
    BY <1>5 DEF StartDeletePath
  <2> QED
    BY <1>1, <2>1, BeginKeeps
<1> QED
  BY <1>2, <1>3, <1>4, <1>5 DEF Start

\* The steps that neither read nor write the file, and end, go on or ask.
Plain(p) ==
    \/ EndLogin(p) \/ Import(p) \/ List(p) \/ RemoveNamed(p)
    \/ RefuseDelete(p) \/ HalfDelete(p) \/ DeleteProfile(p) \/ DropByPath(p)
    \/ NoEligible(p) \/ Found(p) \/ Answer(p)

\* Each of them keeps the invariant and the file.
LEMMA PlainStep ==
    ASSUME PoolInv, NEW p \in Procs, Plain(p)
    PROVE  PoolInv' /\ pool' = pool
<1>1. dirs \subseteq Own /\ RecordOK(proc[p]) /\ Own \subseteq Paths
  BY DEF PoolInv, Paths
<1>2. CASE EndLogin(p)
  <2>1. proc[p].arg \in Paths
    BY <1>1, <1>2 DEF EndLogin, RecordOK
  <2> DEFINE op == [kind |-> "add", path |-> proc[p].arg]
  <2>2. OpOK(op)
    BY <2>1 DEF OpOK
  <2>3. \/ Ask(p, op, "done")
        \/ Finish(p, "failed")
    BY <1>2 DEF EndLogin
  <2> HIDE DEF op
  <2>4. UNCHANGED <<pool, lock, dirs>>
    BY <1>2 DEF EndLogin
  <2> QED
    BY <1>1, <2>2, <2>3, <2>4, AskKeeps, FinishKeeps
<1>3. CASE Import(p)
  <2>1. proc[p].arg \in Paths
    BY <1>1, <1>3 DEF Import, RecordOK
  <2>2. PICK op : OpOK(op) /\ Ask(p, op, "done")
    BY <1>1, <1>3, <2>1 DEF Import, OpOK
  <2>3. UNCHANGED <<pool, lock, dirs>>
    BY <1>3 DEF Import
  <2> QED
    BY <1>1, <2>2, <2>3, AskKeeps
<1>4. CASE List(p) \/ RefuseDelete(p) \/ NoEligible(p) \/ Answer(p)
  <2>1. \E out : Finish(p, out)
    BY <1>4 DEF List, RefuseDelete, NoEligible, Answer
  <2>2. UNCHANGED <<pool, lock, dirs>>
    BY <1>4 DEF List, RefuseDelete, NoEligible, Answer
  <2> QED
    BY <1>1, <2>1, <2>2, FinishKeeps
<1>5. CASE RemoveNamed(p)
  <2> DEFINE op == [kind |-> "remove", id |-> First(p, Named(p)).id]
  <2>1. OpOK(op)
    BY DEF OpOK
  <2>2. Finish(p, "failed") \/ Ask(p, op, "done")
    BY <1>5 DEF RemoveNamed
  <2>3. UNCHANGED <<pool, lock, dirs>>
    BY <1>5 DEF RemoveNamed
  <2> HIDE DEF op
  <2> QED
    BY <1>1, <2>1, <2>2, <2>3, AskKeeps, FinishKeeps
<1>6. CASE HalfDelete(p)
  <2>1. dirs' \subseteq Own
    BY <1>1, <1>6 DEF HalfDelete
  <2> QED
    BY <1>6, <2>1, FinishKeeps DEF HalfDelete
<1>7. CASE DeleteProfile(p)
  <2> DEFINE op == [kind |-> "removeName", name |-> NameOf[proc[p].arg]]
  <2>1. OpOK(op)
    BY DEF OpOK
  <2>2. Ask(p, op, "deleted") \/ Go(p, "read")
    BY <1>7 DEF DeleteProfile
  <2>3. UNCHANGED <<pool, lock>> /\ dirs' \subseteq Own
    BY <1>1, <1>7 DEF DeleteProfile
  <2> HIDE DEF op
  <2> QED
    BY <2>1, <2>2, <2>3, AskKeeps, GoKeeps
<1>8. CASE DropByPath(p)
  <2>1. Go(p, "deleted") \/ \E op : OpOK(op) /\ Ask(p, op, "deleted")
    BY <1>8 DEF DropByPath, OpOK
  <2>2. UNCHANGED <<pool, lock, dirs>>
    BY <1>8 DEF DropByPath
  <2> QED
    BY <1>1, <2>1, <2>2, AskKeeps, GoKeeps
<1>9. CASE Found(p)
  <2> DEFINE op == [kind |-> "used"]
  <2>1. OpOK(op)
    BY DEF OpOK
  <2>2. Go(p, "done") \/ Ask(p, op, "done")
    BY <1>9 DEF Found
  <2>3. UNCHANGED <<pool, lock, dirs>>
    BY <1>9 DEF Found
  <2> HIDE DEF op
  <2> QED
    BY <1>1, <2>1, <2>2, <2>3, AskKeeps, GoKeeps
<1> QED
  BY <1>2, <1>3, <1>4, <1>5, <1>6, <1>7, <1>8, <1>9 DEF Plain

\* What the probes come back with is a status.
LEMMA VerdictsAreStatuses ==
    RotationVerdicts \subseteq Statuses /\ HealthVerdicts \subseteq Statuses
  BY DEF RotationVerdicts, HealthVerdicts, LimitVerdict, LoginVerdict, Combined, Statuses

\* The steps that take sessions from what was read, to probe or to mark them.
Probing(p) == ResolveName(p) \/ Candidates(p) \/ Probe(p) \/ CheckAll(p) \/ MarkNext(p)

\* Each of them keeps the invariant and the file.
LEMMA ProbingStep ==
    ASSUME PoolInv, NEW p \in Procs, Probing(p)
    PROVE  PoolInv' /\ pool' = pool
<1>1. dirs \subseteq Own /\ RecordOK(proc[p]) /\ p \in DOMAIN proc
  BY DEF PoolInv
<1>2. /\ Shape(proc[p]) /\ OpOK(proc[p].op) /\ proc[p].view \in Seq(Entries)
      /\ proc[p].then \notin {"lock", "new", "held", "browser", "import"}
  BY <1>1 DEF RecordOK
<1>3. CASE ResolveName(p)
  <2>1. CASE Named(p) = {}
    <3>1. Finish(p, "failed") /\ UNCHANGED <<pool, dirs, lock>>
      BY <1>3, <2>1 DEF ResolveName
    <3> QED
      BY <1>1, <3>1, FinishKeeps
  <2>2. CASE Named(p) # {}
    <3> DEFINE arg == First(p, Named(p)).path
               r == [proc[p] EXCEPT !.arg = arg, !.pc = "rmtree"]
    <3>1. proc' = [proc EXCEPT ![p].arg = arg, ![p].pc = "rmtree"] /\ UNCHANGED <<pool, dirs, lock>>
      BY <1>3, <2>2 DEF ResolveName
    <3> HIDE DEF arg
    <3>2. proc' = [proc EXCEPT ![p] = r]
      BY <3>1, <1>1
    <3>3. Shape(r) /\ r.pc = "rmtree" /\ r.op = proc[p].op /\ r.then = proc[p].then /\ r.view = proc[p].view
      BY <1>2 DEF Shape, Fields
    <3> HIDE DEF r
    <3>4. RecordOK(r)
      BY <1>2, <3>3 DEF RecordOK, Marking
    <3> QED
      BY <1>1, <3>1, <3>2, <3>3, <3>4, Aside
  <2> QED
    BY <2>1, <2>2
<1>4. CASE Candidates(p)
  <2>1. PICK todo : proc' = [proc EXCEPT ![p].pc = "probe", ![p].view = <<>>, ![p].todo = todo]
    BY <1>4 DEF Candidates
  <2>2. UNCHANGED <<pool, dirs, lock>>
    BY <1>4 DEF Candidates
  <2> DEFINE r == [proc[p] EXCEPT !.pc = "probe", !.view = <<>>, !.todo = todo]
  <2>3. proc' = [proc EXCEPT ![p] = r]
    BY <2>1, <1>1
  <2>4. Shape(r) /\ r.pc = "probe" /\ r.op = proc[p].op /\ r.then = proc[p].then /\ r.view = <<>>
    BY <1>2 DEF Shape, Fields
  <2> HIDE DEF r
  <2>5. RecordOK(r)
    BY <1>2, <2>4 DEF RecordOK, Marking
  <2> QED
    BY <1>1, <2>2, <2>3, <2>4, <2>5, Aside
<1>5. CASE Probe(p)
  <2>1. PICK found \in RotationVerdicts :
            LET c == Head(proc[p].todo)
            IN  proc' = [proc EXCEPT ![p].pc = "lock", ![p].todo = Tail(@),
                           ![p].op = [kind |-> "mark", id |-> c.id, status |-> found],
                           ![p].then = IF found = Active THEN "found" ELSE "probe",
                           ![p].arg = IF found = Active THEN c.path ELSE @]
    BY <1>5 DEF Probe
  <2>2. UNCHANGED <<pool, dirs, lock>>
    BY <1>5 DEF Probe
  <2> DEFINE op == [kind |-> "mark", id |-> Head(proc[p].todo).id, status |-> found]
             then == IF found = Active THEN "found" ELSE "probe"
             arg == IF found = Active THEN Head(proc[p].todo).path ELSE proc[p].arg
             todo == Tail(proc[p].todo)
             r == [proc[p] EXCEPT !.pc = "lock", !.todo = todo, !.op = op, !.then = then, !.arg = arg]
  <2>3. proc' = [proc EXCEPT ![p] = r]
    BY <2>1, <1>1
  <2>4. OpOK(op) /\ then \in {"found", "probe"}
    BY VerdictsAreStatuses DEF OpOK
  <2> HIDE DEF op, then, arg, todo
  <2>5. Shape(r) /\ r.pc = "lock" /\ r.op = op /\ r.then = then /\ r.view = proc[p].view
    BY <1>2 DEF Shape, Fields
  <2> HIDE DEF r
  <2>6. RecordOK(r)
    BY <1>2, <2>4, <2>5 DEF RecordOK, Marking
  <2> QED
    BY <1>1, <2>2, <2>3, <2>5, <2>6, Aside
<1>6. CASE CheckAll(p)
  <2> DEFINE view == proc[p].view
  <2>1. PICK v \in [DOMAIN view -> HealthVerdicts] :
            proc' = [proc EXCEPT ![p].pc = "marking", ![p].view = <<>>,
                       ![p].todo = [i \in DOMAIN v |-> [view[i] EXCEPT !.status = v[i]]]]
    BY <1>6 DEF CheckAll
  <2>2. UNCHANGED <<pool, dirs, lock>>
    BY <1>6 DEF CheckAll
  <2> DEFINE todo == [i \in DOMAIN v |-> [view[i] EXCEPT !.status = v[i]]]
             r == [proc[p] EXCEPT !.pc = "marking", !.view = <<>>, !.todo = todo]
  <2>3. proc' = [proc EXCEPT ![p] = r]
    BY <2>1, <1>1
  <2>4. todo \in Seq(Entries)
    <3> HIDE DEF view
    <3>1. view \in Seq(Entries)
      BY <1>2 DEF view
    <3>2. DOMAIN v = 1 .. Len(view) /\ Len(view) \in Nat
      BY <3>1
    <3>3. ASSUME NEW i \in 1 .. Len(view) PROVE [view[i] EXCEPT !.status = v[i]] \in Entries
      <4>1. view[i] \in Entries /\ v[i] \in Statuses
        BY <3>1, <3>2, VerdictsAreStatuses
      <4> QED
        BY <4>1 DEF Entries
    <3> QED
      BY <3>2, <3>3
  <2> HIDE DEF todo, view
  <2>5. /\ Shape(r) /\ r.pc = "marking" /\ r.op = proc[p].op /\ r.then = proc[p].then
        /\ r.view = <<>> /\ r.todo = todo
    BY <1>2 DEF Shape, Fields
  <2> HIDE DEF r
  <2>6. RecordOK(r)
    BY <1>2, <2>4, <2>5 DEF RecordOK, Marking
  <2> QED
    BY <1>1, <2>2, <2>3, <2>5, <2>6, Aside
<1>7. CASE MarkNext(p)
  <2>1. CASE proc[p].todo = <<>>
    <3>1. Go(p, "done") /\ UNCHANGED <<pool, dirs, lock>>
      BY <1>7, <2>1 DEF MarkNext
    <3> QED
      BY <1>1, <3>1, GoKeeps
  <2>2. CASE proc[p].todo # <<>>
    <3> DEFINE c == Head(proc[p].todo)
               op == [kind |-> "mark", id |-> c.id, status |-> c.status]
               todo == Tail(proc[p].todo)
               r == [proc[p] EXCEPT !.pc = "lock", !.then = "marking", !.todo = todo, !.op = op]
    <3>1. /\ proc' = [proc EXCEPT ![p].pc = "lock", ![p].then = "marking", ![p].todo = Tail(@),
                                  ![p].op = op]
          /\ UNCHANGED <<pool, dirs, lock>>
      BY <1>7, <2>2 DEF MarkNext
    <3>2. proc[p].todo \in Seq(Entries)
      BY <1>1, <1>7 DEF MarkNext, RecordOK, Marking
    <3>3. c \in Entries /\ todo \in Seq(Entries)
      BY <2>2, <3>2
    <3>4. OpOK(op)
      <4> HIDE DEF c
      <4> QED
        BY <3>3 DEF OpOK, Entries
    <3>5. proc' = [proc EXCEPT ![p] = r]
      <4> HIDE DEF op
      <4> QED
        BY <3>1, <1>1
    <3> HIDE DEF op, todo, c
    <3>6. /\ Shape(r) /\ r.pc = "lock" /\ r.op = op /\ r.then = "marking" /\ r.view = proc[p].view
          /\ r.todo = todo
      BY <1>2 DEF Shape, Fields
    <3> HIDE DEF r
    <3>7. RecordOK(r)
      BY <1>2, <3>3, <3>4, <3>6 DEF RecordOK, Marking
    <3> QED
      BY <1>1, <3>1, <3>5, <3>6, <3>7, Aside
  <2> QED
    BY <2>1, <2>2
<1> QED
  BY <1>3, <1>4, <1>5, <1>6, <1>7 DEF Probing

\* A pool is not a damaged file.
LEMMA PoolIsWhole == ASSUME NEW s, IsPool(s) PROVE s # Damaged
  BY PoolAssumption DEF IsPool, Entries

\* The table is keyed as it stands.
LEMMA TableIsKeyed == ASSUME PoolInv PROVE Registry!Keyed(Table) /\ Step(Table, Table)
  BY PoolIsKeyed DEF PoolInv, Table, Step, Registry!Keyed

\* A step of one process on the file, its lock or its pool in hand.
LEMMA FileStep ==
    ASSUME PoolInv, NEW p \in Procs, NEW r, proc' = [proc EXCEPT ![p] = r], RecordOK(r),
           pool' = Damaged \/ IsPool(pool'), dirs' \subseteq Own,
           r.pc \in {"new", "held"} => lock' = p,
           r.pc = "new" => Table' \subseteq ToSet(r.buf),
           r.pc = "held" => Table' = {} \/ Table' = ToSet(r.buf),
           \A q \in Procs \ {p} : proc[q].pc \in {"new", "held"} =>
               lock' = q /\ (Table' = {} \/ Table' = Table)
    PROVE  PoolInv'
<1>1. proc' = [q \in Procs |-> proc'[q]] /\ proc'[p] = r /\ \A q \in Procs \ {p} : proc'[q] = proc[q]
  BY DEF PoolInv
<1>2. ASSUME NEW q \in Procs PROVE RecordOK(proc'[q]) /\ Locked(q)'
  <2>1. CASE q = p
    BY <2>1, <1>1 DEF Locked
  <2>2. CASE q # p
    <3>1. RecordOK(proc[q]) /\ Locked(q) /\ proc'[q] = proc[q]
      BY <2>2, <1>1 DEF PoolInv
    <3> QED
      BY <2>2, <3>1 DEF Locked
  <2> QED
    BY <2>1, <2>2
<1> QED
  BY <1>1, <1>2 DEF PoolInv

\* Reading without the lock, and setting a damaged file aside.
LEMMA ReadStep ==
    ASSUME PoolInv, NEW p \in Procs, Read(p) \/ Quarantine(p)
    PROVE  PoolInv' /\ Step(Table, Table')
<1>1. dirs \subseteq Own /\ RecordOK(proc[p]) /\ p \in DOMAIN proc /\ Step(Table, Table)
  BY TableIsKeyed DEF PoolInv
<1>2. /\ Shape(proc[p]) /\ OpOK(proc[p].op) /\ proc[p].view \in Seq(Entries)
      /\ proc[p].then \notin {"lock", "new", "held", "browser", "import"}
  BY <1>1 DEF RecordOK
<1> DEFINE op == [kind |-> "discover"]
           ask == [proc[p] EXCEPT !.pc = "lock", !.op = op, !.then = "have"]
           have(view) == [proc[p] EXCEPT !.pc = "have", !.view = view]
<1>3. OpOK(op)
  BY DEF OpOK
<1>4. ASSUME NEW view \in Seq(Entries)
      PROVE  RecordOK(have(view)) /\ have(view).pc = "have"
  <2>1. /\ Shape(have(view)) /\ have(view).pc = "have" /\ have(view).op = proc[p].op
        /\ have(view).then = proc[p].then /\ have(view).view = view
    BY <1>2 DEF Shape, Fields
  <2> HIDE DEF have
  <2> QED
    BY <2>1, <1>2 DEF RecordOK, Marking
<1>5. CASE Read(p)
  <2>1. UNCHANGED <<pool, lock, dirs>>
    BY <1>5 DEF Read
  <2>2. Table' = Table
    BY <2>1 DEF Table
  <2>3. CASE Go(p, "quarantine")
    BY <1>1, <2>1, <2>2, <2>3, GoKeeps
  <2>4. CASE Ask(p, op, "have")
    <3> HIDE DEF op
    <3> QED
      BY <1>1, <1>3, <2>1, <2>2, <2>4, AskKeeps
  <2>5. CASE pool # Damaged /\ proc' = [proc EXCEPT ![p].pc = "have", ![p].view = pool]
    <3>1. pool \in Seq(Entries)
      BY <2>5 DEF PoolInv, IsPool
    <3>2. proc' = [proc EXCEPT ![p] = have(pool)]
      BY <2>5, <1>1
    <3>3. RecordOK(have(pool)) /\ have(pool).pc = "have"
      BY <3>1, <1>4
    <3> HIDE DEF have
    <3> QED
      BY <1>1, <2>1, <2>2, <3>2, <3>3, Aside
  <2> QED
    BY <1>5, <2>3, <2>4, <2>5 DEF Read
<1>6. CASE Quarantine(p)
  <2>1. pool' = <<>> /\ UNCHANGED <<lock, dirs>>
    BY <1>6 DEF Quarantine
  <2>2. IsPool(pool') /\ Table' = {}
    BY <2>1, EmptyPool DEF Table
  <2>3. PICK r : proc' = [proc EXCEPT ![p] = r] /\ RecordOK(r) /\ r.pc \notin {"new", "held"}
    <3>1. CASE proc' = [proc EXCEPT ![p].pc = "have", ![p].view = <<>>]
      <4>1. proc' = [proc EXCEPT ![p] = have(<<>>)]
        BY <3>1, <1>1
      <4>2. RecordOK(have(<<>>)) /\ have(<<>>).pc = "have"
        <5> HIDE DEF have
        <5>1. <<>> \in Seq(Entries)
          OBVIOUS
        <5> QED
          BY <5>1, <1>4
      <4> HIDE DEF have
      <4> QED
        BY <4>1, <4>2
    <3>2. CASE Ask(p, op, "have")
      <4>1. proc' = [proc EXCEPT ![p] = ask]
        <5> HIDE DEF op
        <5> QED
          BY <3>2, <1>1 DEF Ask
      <4>2. RecordOK(ask)
        <5> HIDE DEF op
        <5> QED
          BY <1>1, <1>3, AskOK
      <4>3. ask.pc = "lock"
        BY <1>2 DEF Shape, Fields
      <4> HIDE DEF ask
      <4> QED
        BY <4>1, <4>2, <4>3
    <3> QED
      BY <1>6, <3>1, <3>2 DEF Quarantine
  <2>4. \A q \in Procs \ {p} : proc[q].pc \in {"new", "held"} =>
            lock' = q /\ (Table' = {} \/ Table' = Table)
    BY <2>1, <2>2 DEF PoolInv, Locked
  <2>5. PoolInv'
    BY <1>1, <2>1, <2>2, <2>3, <2>4, FileStep
  <2> QED
    BY <2>2, <2>5 DEF Step
<1> QED
  BY <1>5, <1>6

\* Taking the lock and loading.
LEMMA LoadStep ==
    ASSUME PoolInv, NEW p \in Procs, Load(p)
    PROVE  PoolInv' /\ Step(Table, Table')
<1>1. dirs \subseteq Own /\ RecordOK(proc[p]) /\ p \in DOMAIN proc
  BY DEF PoolInv
<1>2. /\ Shape(proc[p]) /\ OpOK(proc[p].op) /\ proc[p].view \in Seq(Entries)
      /\ proc[p].then \notin {"lock", "new", "held", "browser", "import"}
  BY <1>1 DEF RecordOK
<1> DEFINE s == IF pool = Damaged THEN <<>> ELSE pool
           buf == RegisterDiscovered(s, dirs)
           pc == IF dirs \subseteq Known(s) THEN "held" ELSE "new"
           r == [proc[p] EXCEPT !.pc = pc, !.buf = buf]
<1>3. IsPool(s) /\ ToSet(s) = Table
  BY EmptyPool DEF PoolInv, Table
<1>4. /\ IsPool(buf) /\ ToSet(s) \subseteq ToSet(buf)
      /\ dirs \subseteq Known(s) => ToSet(buf) = ToSet(s)
  <2> HIDE DEF s
  <2> QED
    BY <1>1, <1>3, Registered
<1>5. /\ proc[p].pc = "lock" /\ lock = NoProc /\ pool' = s /\ lock' = p /\ dirs' = dirs
      /\ proc' = [proc EXCEPT ![p].pc = pc, ![p].buf = buf]
  BY DEF Load
<1>6. pc \in {"held", "new"} /\ (pc = "held" => ToSet(buf) = ToSet(s))
  <2> HIDE DEF s, buf
  <2> QED
    BY <1>4
<1> HIDE DEF s, buf, pc
<1>7. proc' = [proc EXCEPT ![p] = r]
  BY <1>1, <1>5
<1>8. /\ Shape(r) /\ r.pc = pc /\ r.op = proc[p].op /\ r.then = proc[p].then
      /\ r.view = proc[p].view /\ r.buf = buf /\ r.todo = proc[p].todo
  BY <1>2 DEF Shape, Fields
<1> HIDE DEF r
<1>9. RecordOK(r)
  BY <1>1, <1>4, <1>5, <1>6, <1>8 DEF RecordOK, Marking
<1>10. Table' = Table
  <2>1. pool' # Damaged
    BY <1>3, <1>5, PoolIsWhole
  <2> QED
    BY <1>3, <1>5, <2>1 DEF Table
<1>11. \A q \in Procs \ {p} : proc[q].pc \notin {"new", "held"}
  BY <1>5, PoolAssumption DEF PoolInv, Locked
<1>12. PoolInv'
  BY <1>1, <1>3, <1>4, <1>5, <1>6, <1>7, <1>8, <1>9, <1>10, <1>11, FileStep
<1> QED
  BY <1>10, <1>12, TableIsKeyed

\* Saving what was discovered, and the verb's own change.
LEMMA SaveDiscoveredStep ==
    ASSUME PoolInv, NEW p \in Procs, SaveDiscovered(p)
    PROVE  PoolInv' /\ Step(Table, Table')
<1>1. dirs \subseteq Own /\ RecordOK(proc[p]) /\ p \in DOMAIN proc
  BY DEF PoolInv
<1>2. /\ Shape(proc[p]) /\ OpOK(proc[p].op) /\ proc[p].view \in Seq(Entries)
      /\ proc[p].then \notin {"lock", "new", "held", "browser", "import"}
  BY <1>1 DEF RecordOK
<1> DEFINE r == [proc[p] EXCEPT !.pc = "held"]
           buf == proc[p].buf
<1>3. /\ proc[p].pc = "new" /\ pool' = buf /\ UNCHANGED <<dirs, lock>>
      /\ proc' = [proc EXCEPT ![p].pc = "held"]
  BY DEF SaveDiscovered, Go
<1>4. IsPool(buf) /\ lock = p /\ Table \subseteq ToSet(buf)
  BY <1>1, <1>3 DEF RecordOK, PoolInv, Locked
<1>5. Table' = ToSet(buf)
  <2>1. pool' # Damaged
    BY <1>3, <1>4, PoolIsWhole
  <2> QED
    BY <1>3, <2>1 DEF Table
<1>6. proc' = [proc EXCEPT ![p] = r]
  BY <1>1, <1>3
<1>7. /\ Shape(r) /\ r.pc = "held" /\ r.op = proc[p].op /\ r.then = proc[p].then
      /\ r.view = proc[p].view /\ r.buf = buf /\ r.todo = proc[p].todo
  BY <1>2 DEF Shape, Fields
<1> HIDE DEF r, buf
<1>8. RecordOK(r)
  BY <1>1, <1>3, <1>4, <1>7 DEF RecordOK, Marking
<1>9. \A q \in Procs \ {p} : proc[q].pc \notin {"new", "held"}
  BY <1>4 DEF PoolInv, Locked
<1>10. PoolInv'
  BY <1>1, <1>3, <1>4, <1>5, <1>6, <1>7, <1>8, <1>9, FileStep
<1> QED
  BY <1>4, <1>5, <1>10, PoolIsKeyed DEF Step

\* The verb's change, its save and the release of the lock.
LEMMA SaveStep ==
    ASSUME PoolInv, NEW p \in Procs, Save(p)
    PROVE  PoolInv' /\ Step(Table, Table')
<1>1. dirs \subseteq Own /\ RecordOK(proc[p]) /\ p \in DOMAIN proc /\ Step(Table, Table)
  BY TableIsKeyed DEF PoolInv
<1>2. /\ Shape(proc[p]) /\ OpOK(proc[p].op) /\ proc[p].view \in Seq(Entries)
      /\ proc[p].then \notin {"lock", "new", "held", "browser", "import"}
  BY <1>1 DEF RecordOK
<1> DEFINE op == proc[p].op
           buf == proc[p].buf
           s == Apply(op, buf)
           view == IF op.kind = "discover" THEN s ELSE proc[p].view
           r == [proc[p] EXCEPT !.pc = proc[p].then, !.op = NoOp, !.buf = <<>>, !.view = view]
<1>3. /\ proc[p].pc = "held" /\ lock' = NoProc /\ pool' \in {s, pool}
      /\ proc' = [proc EXCEPT ![p].pc = proc[p].then, ![p].op = NoOp, ![p].buf = <<>>,
                              ![p].view = IF op.kind = "discover" THEN s ELSE @]
  BY DEF Save
<1>4. dirs' \subseteq Own
  <2>1. \/ dirs' = dirs
        \/ op.kind = "clone" /\ dirs' = dirs \cup {op.path}
    BY DEF Save
  <2>2. op.kind = "clone" => op.path \in Own
    BY <1>2 DEF OpOK
  <2> HIDE DEF op
  <2> QED
    BY <1>1, <2>1, <2>2
<1>5. IsPool(buf) /\ lock = p /\ (Table = {} \/ Table = ToSet(buf))
  BY <1>1, <1>3 DEF RecordOK, PoolInv, Locked
<1>6. IsPool(s) /\ Step(ToSet(buf), ToSet(s))
  BY <1>2, <1>5, Applied
<1>7. view \in Seq(Entries)
  BY <1>2, <1>6 DEF IsPool
<1> HIDE DEF s, buf
<1>8. proc' = [proc EXCEPT ![p] = r]
  BY <1>1, <1>3
<1> HIDE DEF op, view
<1>9. /\ Shape(r) /\ r.pc = proc[p].then /\ r.op = NoOp /\ r.then = proc[p].then
      /\ r.view = view /\ r.buf = <<>> /\ r.todo = proc[p].todo
  BY <1>2 DEF Shape, Fields
<1> HIDE DEF r
<1>10. RecordOK(r)
  BY <1>1, <1>2, <1>3, <1>7, <1>9 DEF RecordOK, Marking, OpOK, NoOp
<1>11. \A q \in Procs \ {p} : proc[q].pc \notin {"new", "held"}
  BY <1>5 DEF PoolInv, Locked
<1>12. (pool' = Damaged \/ IsPool(pool')) /\ Step(Table, Table')
  <2>1. CASE pool' = s
    <3>1. pool' # Damaged
      BY <2>1, <1>6, PoolIsWhole
    <3>2. Table' = ToSet(s)
      BY <2>1, <3>1 DEF Table
    <3>3. CASE Table = {}
      BY <2>1, <3>2, <3>3, <1>6, PoolIsKeyed DEF Step
    <3>4. CASE Table = ToSet(buf)
      BY <2>1, <3>2, <3>4, <1>6
    <3> QED
      BY <3>3, <3>4, <1>5
  <2>2. CASE pool' = pool
    <3>1. Table' = Table
      BY <2>2 DEF Table
    <3> QED
      BY <2>2, <3>1, <1>1 DEF PoolInv
  <2> QED
    BY <2>1, <2>2, <1>3
<1>13. PoolInv'
  BY <1>2, <1>4, <1>8, <1>9, <1>10, <1>11, <1>12, FileStep
<1> QED
  BY <1>12, <1>13

\* A process dies; profiles appear, and the file is damaged, from outside.
LEMMA OutsideStep ==
    ASSUME PoolInv, (\E p \in Procs : Crash(p)) \/ ProfileAppears \/ DamageFile
    PROVE  PoolInv' /\ Step(Table, Table')
<1>1. dirs \subseteq Own /\ Step(Table, Table)
  BY TableIsKeyed DEF PoolInv
<1>2. ASSUME NEW p \in Procs, Crash(p) PROVE PoolInv' /\ Step(Table, Table')
  <2>1. /\ proc' = [proc EXCEPT ![p] = Idle] /\ UNCHANGED <<pool, dirs>>
        /\ lock' = IF lock = p THEN NoProc ELSE lock
    BY <1>2 DEF Crash
  <2>2. Table' = Table
    BY <2>1 DEF Table
  <2>3. RecordOK(Idle) /\ Idle.pc = "idle"
    BY FinishOK
  <2>4. \A q \in Procs \ {p} : proc[q].pc \in {"new", "held"} => lock' = q
    BY <2>1 DEF PoolInv, Locked
  <2>5. pool' = Damaged \/ IsPool(pool')
    BY <2>1 DEF PoolInv
  <2>6. PoolInv'
    BY <1>1, <2>1, <2>2, <2>3, <2>4, <2>5, FileStep
  <2> QED
    BY <1>1, <2>2, <2>6
<1>3. CASE ProfileAppears
  <2>1. UNCHANGED <<pool, lock, proc>> /\ dirs' \subseteq Own
    BY <1>1, <1>3 DEF ProfileAppears
  <2>2. Table' = Table
    BY <2>1 DEF Table
  <2> QED
    BY <1>1, <2>1, <2>2 DEF PoolInv, Locked
<1>4. CASE DamageFile
  <2>1. pool' = Damaged /\ UNCHANGED <<dirs, lock, proc>>
    BY <1>4 DEF DamageFile
  <2>2. Table' = {}
    BY <2>1 DEF Table
  <2> QED
    BY <1>1, <2>1, <2>2 DEF PoolInv, Locked, Step
<1> QED
  BY <1>2, <1>3, <1>4

\* The invariant holds at the start.
LEMMA PoolInit == Init => PoolInv /\ Table = {}
<1> SUFFICES ASSUME Init PROVE PoolInv /\ Table = {}
  OBVIOUS
<1>1. /\ pool = <<>> /\ dirs \subseteq Own /\ proc = [p \in Procs |-> Idle]
  BY DEF Init
<1>2. IsPool(pool) /\ Table = {}
  BY <1>1, EmptyPool, PoolIsWhole DEF Table
<1>3. ASSUME NEW p \in Procs PROVE RecordOK(proc[p]) /\ Locked(p)
  <2>1. proc[p] = Idle /\ RecordOK(Idle) /\ Idle.pc = "idle"
    BY <1>1, FinishOK
  <2> QED
    BY <2>1 DEF Locked
<1> QED
  BY <1>1, <1>2, <1>3 DEF PoolInv

\* Every step keeps it, and makes of the table what the registry allows.
LEMMA PoolNext == PoolInv /\ [Next]_vars => PoolInv' /\ Step(Table, Table')
<1> SUFFICES ASSUME PoolInv, [Next]_vars PROVE PoolInv' /\ Step(Table, Table')
  OBVIOUS
<1>1. Step(Table, Table)
  BY TableIsKeyed
<1>2. ASSUME pool' = pool PROVE Table' = Table
  BY <1>2 DEF Table
<1>3. CASE UNCHANGED vars
  BY <1>1, <1>3 DEF vars, PoolInv, Locked, Table
<1>4. ASSUME NEW p \in Procs, Start(p) PROVE PoolInv' /\ Step(Table, Table')
  BY <1>1, <1>2, <1>4, StartStep
<1>5. ASSUME NEW p \in Procs, Verb(p) PROVE PoolInv' /\ Step(Table, Table')
  <2>1. \/ Read(p) \/ Quarantine(p) \/ Load(p) \/ SaveDiscovered(p) \/ Save(p)
        \/ Plain(p) \/ Probing(p)
    BY <1>5 DEF Verb, Plain, Probing
  <2> QED
    BY <1>1, <1>2, <2>1, ReadStep, LoadStep, SaveDiscoveredStep, SaveStep, PlainStep, ProbingStep
<1> QED
  BY <1>3, <1>4, <1>5, OutsideStep DEF Next

\* pool.json is a pool or damaged, whoever works on it; a process between its
\* load and its save holds the lock and the pool as it stands in the file
\* (_pool_lock, load_pool, save_pool and every locked verb).
THEOREM PoolInvariant == Spec => []PoolInv
  BY PoolInit, PoolNext, PTL DEF Spec

\* Whatever the processes interleave, pool.json behaves as a table keyed by id
\* and by path that one verb changes at a time: no writer undoes another's
\* update, for any number of processes, profiles, verbs, deaths and damages.
THEOREM PoolImplementsRegistry == Spec => ImplementsRegistry
<1>1. Init => Table = {}
  BY PoolInit
<1>2. PoolInv /\ [Next]_vars =>
          [Registry!Register \/ Registry!Drop \/ Registry!Record \/ Registry!Lose]_Table
  BY PoolNext DEF Step, Registry!Register, Registry!Drop, Registry!Record, Registry!Lose
<1> QED
  BY <1>1, <1>2, PoolInvariant, PTL DEF Spec, ImplementsRegistry, Registry!RegistrySpec

-----------------------------------------------------------------------------
(* The types.                                                                *)

\* The lock is held by a process between its load and its save only, and a
\* backup is kept inside its profile.
HeldInv ==
    /\ saved \subseteq dirs
    /\ \A p \in Procs : lock = p => proc[p].pc \in {"new", "held"}

\* A step of a process that has not loaded the pool, whatever it goes on to.
LEMMA HeldApart ==
    ASSUME HeldInv, NEW p \in Procs, proc[p].pc \notin {"new", "held"}, lock' = lock,
           \A q \in Procs \ {p} : proc'[q] = proc[q], saved' \subseteq dirs'
    PROVE  HeldInv'
  BY DEF HeldInv

\* Every step keeps it.
LEMMA HeldStep == PoolInv /\ HeldInv /\ [Next]_vars => HeldInv'
<1> SUFFICES ASSUME PoolInv, HeldInv, [Next]_vars PROVE HeldInv'
  OBVIOUS
<1>0. proc = [p \in Procs |-> proc[p]] /\ saved \subseteq dirs
  BY DEF PoolInv, HeldInv
<1>1. ASSUME NEW p \in Procs, Start(p) PROVE HeldInv'
  <2>1. proc[p].pc = "idle" /\ lock' = lock /\ saved' = saved /\ dirs \subseteq dirs'
    BY <1>1 DEF Start, StartReading, StartLogin, StartImport, StartDeletePath, Begin
  <2>2. \A q \in Procs \ {p} : proc'[q] = proc[q]
    BY <1>0, <1>1 DEF Start, StartReading, StartLogin, StartImport, StartDeletePath, Begin
  <2> QED
    BY <1>0, <2>1, <2>2, HeldApart
<1>2. ASSUME NEW p \in Procs, Load(p) PROVE HeldInv'
  <2>1. /\ lock' = p /\ saved' = saved /\ dirs' = dirs
        /\ proc'[p].pc \in {"new", "held"}
    BY <1>0, <1>2 DEF Load, PoolInv, RecordOK, Shape, Fields
  <2> QED
    BY <1>0, <2>1 DEF HeldInv
<1>3. ASSUME NEW p \in Procs, SaveDiscovered(p) PROVE HeldInv'
  <2>1. /\ lock' = lock /\ saved' = saved /\ dirs' = dirs
        /\ proc'[p].pc = "held" /\ \A q \in Procs \ {p} : proc'[q] = proc[q]
    BY <1>0, <1>3 DEF SaveDiscovered, Go, PoolInv, RecordOK, Shape, Fields
  <2> QED
    BY <1>0, <2>1 DEF HeldInv
<1>4. ASSUME NEW p \in Procs, Save(p) PROVE HeldInv'
  <2>1. lock' = NoProc /\ saved' = saved /\ dirs \subseteq dirs'
    BY <1>4 DEF Save
  <2> QED
    BY <1>0, <2>1, PoolAssumption DEF HeldInv
<1>5. ASSUME NEW p \in Procs, Crash(p) PROVE HeldInv'
  <2>1. /\ lock' = IF lock = p THEN NoProc ELSE lock
        /\ saved' = saved /\ dirs' = dirs /\ \A q \in Procs \ {p} : proc'[q] = proc[q]
    BY <1>0, <1>5 DEF Crash
  <2> QED
    BY <1>0, <2>1, PoolAssumption DEF HeldInv
<1>6. ASSUME NEW p \in Procs,
             \/ Read(p) \/ Quarantine(p) \/ Import(p) \/ List(p) \/ RemoveNamed(p) \/ ResolveName(p)
             \/ RefuseDelete(p) \/ DropByPath(p) \/ Answer(p)
      PROVE  HeldInv'
  <2>1. proc[p].pc \notin {"new", "held"} /\ lock' = lock /\ saved' = saved /\ dirs' = dirs
    BY <1>6 DEF Read, Quarantine, Import, List, RemoveNamed, ResolveName, RefuseDelete,
                DropByPath, Answer
  <2>2. \A q \in Procs \ {p} : proc'[q] = proc[q]
    BY <1>0, <1>6 DEF Read, Quarantine, Import, List, RemoveNamed, ResolveName, RefuseDelete,
                DropByPath, Answer, Go, Ask, Finish
  <2> QED
    BY <1>0, <2>1, <2>2, HeldApart
<1>7. ASSUME NEW p \in Procs,
             \/ Candidates(p) \/ Probe(p) \/ NoEligible(p) \/ Found(p) \/ CheckAll(p) \/ MarkNext(p)
      PROVE  HeldInv'
  <2>1. proc[p].pc \notin {"new", "held"} /\ lock' = lock /\ saved' = saved /\ dirs' = dirs
    BY <1>7 DEF Candidates, Probe, NoEligible, Found, CheckAll, MarkNext
  <2>2. \A q \in Procs \ {p} : proc'[q] = proc[q]
    BY <1>0, <1>7 DEF Candidates, Probe, NoEligible, Found, CheckAll, MarkNext, Go, Ask, Finish
  <2> QED
    BY <1>0, <2>1, <2>2, HeldApart
<1>8. ASSUME NEW p \in Procs, EndLogin(p) \/ HalfDelete(p) \/ DeleteProfile(p) PROVE HeldInv'
  <2>1. proc[p].pc \notin {"new", "held"} /\ lock' = lock /\ saved' \subseteq dirs'
    BY <1>0, <1>8 DEF EndLogin, HalfDelete, DeleteProfile
  <2>2. \A q \in Procs \ {p} : proc'[q] = proc[q]
    BY <1>0, <1>8 DEF EndLogin, HalfDelete, DeleteProfile, Go, Ask, Finish
  <2> QED
    BY <1>0, <2>1, <2>2, HeldApart
<1>9. CASE ProfileAppears \/ DamageFile
  BY <1>9 DEF ProfileAppears, DamageFile, HeldInv
<1>10. CASE UNCHANGED vars
  BY <1>10 DEF vars, HeldInv
<1> QED
  BY <1>1, <1>2, <1>3, <1>4, <1>5, <1>6, <1>7, <1>8, <1>9, <1>10 DEF Next, Verb

\* A pool has as many entries as places.
LEMMA PoolSize ==
    ASSUME NEW s, IsPool(s)
    PROVE  Cardinality(ToSet(s)) = Len(s)
<1>1. s \in Seq(Entries) /\ Len(s) \in Nat /\ DOMAIN s = 1 .. Len(s)
  BY DEF IsPool
<1>2. s \in [1 .. Len(s) -> ToSet(s)] /\ \A i, j \in 1 .. Len(s) : s[i] = s[j] => i = j
  BY <1>1 DEF IsPool, Unique, ToSet
<1>3. \A e \in ToSet(s) : \E i \in 1 .. Len(s) : s[i] = e
  BY <1>1 DEF ToSet
<1>4. s \in Bijection(1 .. Len(s), ToSet(s))
  BY <1>2, <1>3 DEF Bijection, Injection, Surjection, IsInjective
<1> QED
  BY <1>1, <1>4, FS_CountingElements DEF ExistsBijection

\* The pool's entries and the directories have their types, no two places of the
\* file hold one entry, backups go with their profile, and the lock is held exactly by
\* the process whose verb is between its load and its save (_pool_lock), for any
\* processes and profiles.
THEOREM PoolTypes == Spec => []TypeOK
<1>1. Init => HeldInv
  BY PoolAssumption DEF Init, HeldInv
<1>2. PoolInv /\ HeldInv => TypeOK
  <2> SUFFICES ASSUME PoolInv, HeldInv PROVE TypeOK
    OBVIOUS
  <2>1. ASSUME pool # Damaged PROVE IsPool(pool) /\ Table = ToSet(pool)
    BY <2>1 DEF PoolInv, Table
  <2>2. ASSUME NEW e \in Table PROVE e \in Entries
    BY <2>1, <2>2 DEF Table, IsPool, ToSet
  <2>3. pool # Damaged => Cardinality(Table) = Len(pool)
    BY <2>1, PoolSize
  <2>4. \A p \in Procs : proc[p].pc \in {"new", "held"} <=> lock = p
    BY DEF PoolInv, Locked, HeldInv
  <2> QED
    BY <2>2, <2>3, <2>4 DEF TypeOK, Entries, PoolInv, HeldInv
<1> QED
  BY <1>1, <1>2, HeldStep, PoolInvariant, PTL DEF Spec

-----------------------------------------------------------------------------
(* Deletions.                                                                *)

\* A path is the first one of its name.
FirstNamed(s, path) ==
    \E i \in DOMAIN s : /\ s[i].path = path
                        /\ \A j \in DOMAIN s : j < i => NameOf[s[j].path] # NameOf[path]

Removals == {"remove", "delete", "drop"}
Dropping == {"remove", "removeName"}
Locking == {"lock", "new", "held"}

\* The change asked for takes out the profile the verb is about.
Targeted(r) ==
    \/ r.op.kind = "removeName" /\ r.op.name = NameOf[r.arg] /\ FirstNamed(r.view, r.arg)
    \/ r.op.kind = "remove" /\ \E i \in DOMAIN r.view : r.view[i].id = r.op.id /\ r.view[i].path = r.arg

\* Where the verb of process p stands, on a file that nothing has damaged: only a
\* manager removes, what it read is still there when it removes, and what it
\* asks for is what it read about its target.
DropOK(r, p, s) ==
    /\ r.pc # "quarantine"
    /\ r.pc = "held" => s = r.buf
    /\ r.pc = "new" => Continues(s, r.buf)
    /\ r.verb \in Removals => p \in Admins
    /\ r.pc = "rmtree" => r.verb \in {"delete", "drop"}
    /\ r.pc = "rmtree" /\ r.verb = "delete" => FirstNamed(r.view, r.arg)
    /\ r.pc \in Locking => r.then \notin {"quarantine", "rmtree"}
    /\ r.pc \in Locking /\ r.op.kind \in Dropping =>
         r.verb \in Removals /\ r.then \in {"done", "deleted"}
    /\ r.pc \in Locking /\ r.then = "deleted" => Targeted(r)
    /\ r.verb \in Removals /\ r.pc \notin {"done", "deleted"} => Continues(r.view, s)

DropInv ==
    /\ damage \in Nat
    /\ damage = 0 => pool # Damaged /\ \A p \in Procs : DropOK(proc[p], p, pool)

\* What comes first comes first in every continuation.
LEMMA FirstStays ==
    ASSUME NEW s \in Seq(Entries), NEW t \in Seq(Entries), Continues(s, t), NEW path
    PROVE  \A i \in DOMAIN s :
             s[i].path = path /\ (\A j \in DOMAIN s : j < i => NameOf[s[j].path] # NameOf[path]) =>
               /\ i \in DOMAIN t /\ t[i].path = path
               /\ \A j \in DOMAIN t : j < i => NameOf[t[j].path] # NameOf[path]
<1> SUFFICES ASSUME NEW i \in DOMAIN s, s[i].path = path,
                    \A j \in DOMAIN s : j < i => NameOf[s[j].path] # NameOf[path]
             PROVE  /\ i \in DOMAIN t /\ t[i].path = path
                    /\ \A j \in DOMAIN t : j < i => NameOf[t[j].path] # NameOf[path]
  OBVIOUS
<1>1. \A j \in DOMAIN t : j < i => j \in DOMAIN s
  OBVIOUS
<1> QED
  BY <1>1 DEF Continues

\* A verb that does not move stays in order while the file is continued, and
\* also when somebody else removes, unless it removes itself.
LEMMA DropKept ==
    ASSUME NEW r, NEW p, NEW s, NEW t, DropOK(r, p, s),
           r.verb \in Removals => Continues(s, t),
           t = s \/ r.pc \notin {"new", "held"}
    PROVE  DropOK(r, p, t)
<1>1. Continues(r.view, s) /\ Continues(s, t) => Continues(r.view, t)
  BY DEF Continues
<1> QED
  BY <1>1 DEF DropOK

\* Adding a profile, and marking a verdict, continue the pool.
LEMMA AppliedContinues ==
    ASSUME NEW s, IsPool(s), NEW op, OpOK(op), op.kind \notin Dropping
    PROVE  Continues(s, Apply(op, s))
<1>1. s \in Seq(Entries) /\ \A i \in DOMAIN s : s[i] \in Entries
  BY DEF IsPool
<1>2. CASE op.kind \in {"add", "clone"}
  <2>1. Apply(op, s) = AddSession(s, op.path)
    BY <1>2 DEF Apply
  <2>2. ASSUME NEW e PROVE Continues(s, Append(s, e))
    BY <1>1 DEF Continues
  <2>3. Continues(s, s)
    BY DEF Continues
  <2> QED
    BY <2>1, <2>2, <2>3 DEF AddSession
<1>3. CASE op.kind = "mark"
  <2>1. Apply(op, s) = Mark(s, op.id, op.status)
    BY <1>3 DEF Apply
  <2>2. ASSUME NEW i \in DOMAIN s
        PROVE  /\ i \in DOMAIN Mark(s, op.id, op.status)
               /\ Mark(s, op.id, op.status)[i].id = s[i].id
               /\ Mark(s, op.id, op.status)[i].path = s[i].path
    BY <1>1 DEF Mark, Entries
  <2> QED
    BY <2>1, <2>2 DEF Continues
<1>4. CASE op.kind \notin {"add", "clone", "mark"}
  BY <1>4 DEF Apply, Continues, Dropping
<1> QED
  BY <1>2, <1>3, <1>4

\* How the verbs move, field by field.
LEMMA GoFields ==
    ASSUME PoolInv, NEW p \in Procs, NEW c, Go(p, c)
    PROVE  /\ proc'[p].pc = c /\ proc'[p].verb = proc[p].verb /\ proc'[p].view = proc[p].view
           /\ proc'[p].op = proc[p].op /\ proc'[p].then = proc[p].then
           /\ proc'[p].arg = proc[p].arg /\ proc'[p].buf = proc[p].buf
           /\ \A q \in Procs \ {p} : proc'[q] = proc[q]
  BY DEF Go, PoolInv, RecordOK, Shape, Fields

\* A verb asks for a change and queues for the lock.
LEMMA AskFields ==
    ASSUME PoolInv, NEW p \in Procs, NEW op, NEW then, Ask(p, op, then)
    PROVE  /\ proc'[p].pc = "lock" /\ proc'[p].verb = proc[p].verb /\ proc'[p].view = proc[p].view
           /\ proc'[p].op = op /\ proc'[p].then = then /\ proc'[p].arg = proc[p].arg
           /\ \A q \in Procs \ {p} : proc'[q] = proc[q]
  BY DEF Ask, PoolInv, RecordOK, Shape, Fields

\* A verb ends.
LEMMA FinishFields ==
    ASSUME PoolInv, NEW p \in Procs, NEW out, Finish(p, out)
    PROVE  /\ proc'[p].pc = "idle" /\ proc'[p].verb = "none"
           /\ \A q \in Procs \ {p} : proc'[q] = proc[q]
  BY DEF Finish, Idle, PoolInv

\* A verb begins with an empty view.
LEMMA BeginFields ==
    ASSUME PoolInv, NEW p \in Procs, NEW verb, NEW path, NEW c, Begin(p, verb, path, c)
    PROVE  /\ proc'[p].pc = c /\ proc'[p].verb = verb /\ proc'[p].view = <<>>
           /\ \A q \in Procs \ {p} : proc'[q] = proc[q]
  BY DEF Begin, Idle, PoolInv

\* A verb that goes on without a lock in sight.
LEMMA DropAside ==
    ASSUME NEW r, NEW q, NEW p, NEW s, DropOK(r, p, s), q.verb = r.verb, q.view = r.view,
           r.pc \notin {"done", "deleted"}, q.pc \notin Locking \cup {"quarantine", "rmtree"}
    PROVE  DropOK(q, p, s)
  BY DEF DropOK, Locking

\* A verb that asks for something else than a removal.
LEMMA DropAsks ==
    ASSUME NEW r, NEW q, NEW p, NEW s, DropOK(r, p, s), q.verb = r.verb, q.view = r.view,
           r.pc \notin {"done", "deleted"}, q.pc = "lock", q.op.kind \notin Dropping,
           q.then \notin {"deleted", "quarantine", "rmtree"}
    PROVE  DropOK(q, p, s)
  BY DEF DropOK

\* A verb that removes nothing, away from the lock.
LEMMA DropElse ==
    ASSUME NEW q, NEW p, NEW s, q.verb \notin Removals,
           q.pc \notin Locking \cup {"quarantine", "rmtree"}
    PROVE  DropOK(q, p, s)
  BY DEF DropOK, Locking

\* The first place of a set of places.
LEMMA FirstPlace ==
    ASSUME NEW s \in Seq(Entries), NEW hits \in SUBSET (DOMAIN s), hits # {}
    PROVE  Min(hits) \in hits /\ \A i \in hits : Min(hits) <= i
<1>1. hits \subseteq Nat
  OBVIOUS
<1>2. \E x \in hits : \A y \in hits : x <= y
  BY <1>1, LeastNatural
<1> QED
  BY <1>2 DEF Min

\* The verbs' steps away from the file, by what becomes of the one that moves.
LEMMA DropMoves ==
    ASSUME PoolInv, NEW p \in Procs, DropOK(proc[p], p, pool), pool # Damaged,
           \/ Read(p) \/ EndLogin(p) \/ Import(p) \/ List(p) \/ RefuseDelete(p) \/ HalfDelete(p)
           \/ Answer(p) \/ Candidates(p) \/ Probe(p) \/ NoEligible(p) \/ Found(p) \/ CheckAll(p)
           \/ MarkNext(p)
    PROVE  /\ DropOK(proc'[p], p, pool) /\ pool' = pool
           /\ \A q \in Procs \ {p} : proc'[q] = proc[q]
<1> DEFINE Goal == /\ DropOK(proc'[p], p, pool) /\ pool' = pool
                   /\ \A q \in Procs \ {p} : proc'[q] = proc[q]
<1>0. Shape(proc[p]) /\ proc = [q \in Procs |-> proc[q]]
  BY DEF PoolInv, RecordOK
<1>1. ASSUME pool' = pool, \E out : Finish(p, out) PROVE Goal
  BY <1>1, FinishFields, DropElse DEF Removals, Locking
<1>2. ASSUME pool' = pool, proc[p].pc \notin {"done", "deleted"}, NEW c,
             c \notin Locking \cup {"quarantine", "rmtree"}, Go(p, c)
      PROVE  Goal
  BY <1>2, GoFields, DropAside
<1>3. ASSUME pool' = pool, proc[p].pc \notin {"done", "deleted"}, NEW op, NEW then,
             op.kind \notin Dropping, then \notin {"deleted", "quarantine", "rmtree"}, Ask(p, op, then)
      PROVE  Goal
  BY <1>3, AskFields, DropAsks
<1> SUFFICES Goal
  BY DEF Goal
<1> HIDE DEF Goal
<1>4. CASE Read(p)
  <2>1. proc[p].pc = "read" /\ pool' = pool
    BY <1>4 DEF Read
  <2>2. CASE dirs \subseteq Known(pool)
    <3>1. proc' = [proc EXCEPT ![p].pc = "have", ![p].view = pool]
      BY <1>4, <2>2 DEF Read
    <3>2. /\ proc'[p].pc = "have" /\ proc'[p].verb = proc[p].verb /\ proc'[p].view = pool
          /\ \A q \in Procs \ {p} : proc'[q] = proc[q]
      BY <1>0, <3>1 DEF Shape, Fields
    <3>3. Continues(pool, pool)
      BY DEF Continues
    <3> QED
      BY <2>1, <3>2, <3>3 DEF Goal, DropOK, Locking
  <2>3. CASE ~(dirs \subseteq Known(pool))
    <3> DEFINE op == [kind |-> "discover"]
    <3>1. Ask(p, op, "have") /\ op.kind \notin Dropping
      BY <1>4, <2>3 DEF Read, Dropping
    <3> HIDE DEF op
    <3> QED
      BY <1>3, <2>1, <3>1
  <2> QED
    BY <2>2, <2>3
<1>5. CASE EndLogin(p)
  <2> DEFINE op == [kind |-> "add", path |-> proc[p].arg]
  <2>1. /\ proc[p].pc = "browser" /\ pool' = pool /\ op.kind \notin Dropping
        /\ Ask(p, op, "done") \/ Finish(p, "failed")
    BY <1>5 DEF EndLogin, Dropping
  <2> HIDE DEF op
  <2> QED
    BY <1>1, <1>3, <2>1
<1>6. CASE Import(p)
  <2>1. proc[p].pc = "import" /\ pool' = pool
    BY <1>6 DEF Import
  <2>2. \E op : op.kind \notin Dropping /\ Ask(p, op, "done")
    BY <1>6 DEF Import, Dropping
  <2> QED
    BY <1>3, <2>1, <2>2
<1>7. CASE List(p) \/ RefuseDelete(p) \/ HalfDelete(p) \/ Answer(p) \/ NoEligible(p)
  <2>1. pool' = pool /\ \E out : Finish(p, out)
    BY <1>7 DEF List, RefuseDelete, HalfDelete, Answer, NoEligible
  <2> QED
    BY <1>1, <2>1
<1>8. CASE Candidates(p) \/ CheckAll(p)
  <2>0. PICK c \in {"probe", "marking"} :
            \E todo : proc' = [proc EXCEPT ![p].pc = c, ![p].view = <<>>, ![p].todo = todo]
    BY <1>8 DEF Candidates, CheckAll
  <2>1. /\ proc'[p].pc \in {"probe", "marking"} /\ proc'[p].verb = proc[p].verb
        /\ \A q \in Procs \ {p} : proc'[q] = proc[q]
    BY <1>0, <2>0 DEF Shape, Fields
  <2>2. proc[p].verb \in {"rotate", "execute", "health"} /\ pool' = pool
    BY <1>8 DEF Candidates, CheckAll
  <2> QED
    BY <2>1, <2>2, DropElse DEF Goal, Removals, Locking
<1>9. CASE Probe(p)
  <2>0. PICK answer \in RotationVerdicts :
            LET c == Head(proc[p].todo)
            IN  proc' = [proc EXCEPT ![p].pc = "lock", ![p].todo = Tail(@),
                           ![p].op = [kind |-> "mark", id |-> c.id, status |-> answer],
                           ![p].then = IF answer = Active THEN "found" ELSE "probe",
                           ![p].arg = IF answer = Active THEN c.path ELSE @]
    BY <1>9 DEF Probe
  <2> DEFINE op == [kind |-> "mark", id |-> Head(proc[p].todo).id, status |-> answer]
             then == IF answer = Active THEN "found" ELSE "probe"
             arg == IF answer = Active THEN Head(proc[p].todo).path ELSE proc[p].arg
             todo == Tail(proc[p].todo)
             r == [proc[p] EXCEPT !.pc = "lock", !.todo = todo, !.op = op, !.then = then, !.arg = arg]
  <2>2. proc' = [proc EXCEPT ![p] = r]
    BY <2>0, <1>0
  <2>3. op.kind = "mark" /\ then \in {"found", "probe"}
    OBVIOUS
  <2> HIDE DEF op, then, arg, todo
  <2>4. /\ r.pc = "lock" /\ r.verb = proc[p].verb /\ r.view = proc[p].view /\ r.op = op
        /\ r.then = then
    BY <1>0 DEF Shape, Fields
  <2> HIDE DEF r
  <2>1. /\ proc[p].pc = "probe" /\ pool' = pool
        /\ proc'[p].pc = "lock" /\ proc'[p].verb = proc[p].verb /\ proc'[p].view = proc[p].view
        /\ proc'[p].op.kind = "mark" /\ proc'[p].then \in {"found", "probe"}
        /\ \A q \in Procs \ {p} : proc'[q] = proc[q]
    BY <1>0, <1>9, <2>2, <2>3, <2>4 DEF Probe
  <2> QED
    BY <2>1, DropAsks DEF Goal, Dropping
<1>10. CASE Found(p)
  <2> DEFINE op == [kind |-> "used"]
  <2>1. /\ proc[p].pc = "found" /\ pool' = pool /\ op.kind \notin Dropping
        /\ Go(p, "done") \/ Ask(p, op, "done")
    BY <1>10 DEF Found, Dropping
  <2>2. "done" \notin Locking \cup {"quarantine", "rmtree"}
    BY DEF Locking
  <2> HIDE DEF op
  <2> QED
    BY <1>2, <1>3, <2>1, <2>2
<1>11. CASE MarkNext(p)
  <2>1. proc[p].pc = "marking" /\ pool' = pool
    BY <1>11 DEF MarkNext
  <2>2. CASE proc[p].todo = <<>>
    BY <1>2, <1>11, <2>1, <2>2 DEF MarkNext, Locking
  <2>3. CASE proc[p].todo # <<>>
    <3> DEFINE c == Head(proc[p].todo)
               op == [kind |-> "mark", id |-> c.id, status |-> c.status]
               todo == Tail(proc[p].todo)
    <3>0. proc' = [proc EXCEPT ![p].pc = "lock", ![p].then = "marking", ![p].todo = Tail(@),
                               ![p].op = op]
      BY <1>11, <2>3 DEF MarkNext
    <3>2. op.kind = "mark"
      OBVIOUS
    <3> HIDE DEF op
    <3>1. /\ proc'[p].pc = "lock" /\ proc'[p].verb = proc[p].verb /\ proc'[p].view = proc[p].view
          /\ proc'[p].op.kind = "mark" /\ proc'[p].then = "marking"
          /\ \A q \in Procs \ {p} : proc'[q] = proc[q]
      BY <1>0, <3>0, <3>2 DEF Shape, Fields
    <3> QED
      BY <2>1, <3>1, DropAsks DEF Goal, Dropping
  <2> QED
    BY <2>2, <2>3
<1> QED
  BY <1>4, <1>5, <1>6, <1>7, <1>8, <1>9, <1>10, <1>11

\* The steps of a removal before it has the lock.
LEMMA DropResolves ==
    ASSUME PoolInv, NEW p \in Procs, DropOK(proc[p], p, pool),
           RemoveNamed(p) \/ ResolveName(p) \/ DeleteProfile(p) \/ DropByPath(p)
    PROVE  /\ DropOK(proc'[p], p, pool) /\ pool' = pool
           /\ \A q \in Procs \ {p} : proc'[q] = proc[q]
<1> DEFINE Goal == /\ DropOK(proc'[p], p, pool) /\ pool' = pool
                   /\ \A q \in Procs \ {p} : proc'[q] = proc[q]
           view == proc[p].view
<1>0. Shape(proc[p]) /\ proc = [q \in Procs |-> proc[q]] /\ view \in Seq(Entries)
  BY DEF PoolInv, RecordOK
<1>1. ASSUME pool' = pool, \E out : Finish(p, out) PROVE Goal
  BY <1>1, FinishFields, DropElse DEF Removals, Locking
<1>2. ASSUME pool' = pool, proc[p].pc \notin {"done", "deleted"}, NEW c,
             c \notin Locking \cup {"quarantine", "rmtree"}, Go(p, c)
      PROVE  Goal
  BY <1>2, GoFields, DropAside
<1> SUFFICES Goal
  BY DEF Goal
<1> HIDE DEF Goal
<1>3. CASE RemoveNamed(p)
  <2>1. proc[p].pc = "have" /\ proc[p].verb = "remove" /\ pool' = pool
    BY <1>3 DEF RemoveNamed
  <2>2. Finish(p, "failed") \/ Ask(p, [kind |-> "remove", id |-> First(p, Named(p)).id], "done")
    BY <1>3 DEF RemoveNamed
  <2>3. CASE Ask(p, [kind |-> "remove", id |-> First(p, Named(p)).id], "done")
    BY <2>1, <2>3, AskFields DEF Goal, DropOK, Removals, Locking
  <2> QED
    BY <1>1, <2>1, <2>2, <2>3
<1>4. CASE ResolveName(p)
  <2>1. proc[p].pc = "have" /\ proc[p].verb = "delete" /\ pool' = pool
    BY <1>4 DEF ResolveName
  <2>2. CASE Named(p) = {}
    BY <1>1, <1>4, <2>1, <2>2 DEF ResolveName
  <2>3. CASE Named(p) # {}
    <3> DEFINE i == Min(Named(p))
    <3>1. Named(p) \in SUBSET (DOMAIN view)
      BY DEF Named
    <3>2. i \in Named(p) /\ \A j \in Named(p) : i <= j
      BY <1>0, <2>3, <3>1, FirstPlace
    <3> DEFINE path == view[i].path
    <3>0. proc' = [proc EXCEPT ![p].arg = path, ![p].pc = "rmtree"]
      BY <1>4, <2>3 DEF ResolveName, First
    <3> HIDE DEF path
    <3>3. /\ proc'[p].pc = "rmtree" /\ proc'[p].verb = "delete" /\ proc'[p].view = view
          /\ proc'[p].arg = path
          /\ \A q \in Procs \ {p} : proc'[q] = proc[q]
      BY <1>0, <2>1, <3>0 DEF Shape, Fields
    <3> HIDE DEF i
    <3>4. /\ i \in DOMAIN view
          /\ \A j \in DOMAIN view : j < i => NameOf[view[j].path] # NameOf[view[i].path]
      BY <1>0, <3>2 DEF Named
    <3>5. FirstNamed(view, path)
      BY <3>4 DEF FirstNamed, path
    <3> QED
      BY <2>1, <3>3, <3>5 DEF Goal, DropOK, Locking
  <2> QED
    BY <2>2, <2>3
<1>5. CASE DeleteProfile(p)
  <2>1. proc[p].pc = "rmtree" /\ proc[p].verb \in {"delete", "drop"} /\ pool' = pool
    BY <1>5 DEF DeleteProfile, DropOK
  <2>2. CASE proc[p].verb = "delete"
    <3> DEFINE op == [kind |-> "removeName", name |-> NameOf[proc[p].arg]]
    <3>1. Ask(p, op, "deleted")
      BY <1>5, <2>2 DEF DeleteProfile
    <3>2. op.kind = "removeName" /\ op.name = NameOf[proc[p].arg]
      OBVIOUS
    <3> HIDE DEF op
    <3>3. FirstNamed(view, proc[p].arg) /\ Continues(view, pool) /\ p \in Admins
      BY <2>1, <2>2 DEF DropOK, Removals
    <3>4. /\ proc'[p].pc = "lock" /\ proc'[p].verb = proc[p].verb /\ proc'[p].view = view
          /\ proc'[p].op = op /\ proc'[p].then = "deleted" /\ proc'[p].arg = proc[p].arg
          /\ \A q \in Procs \ {p} : proc'[q] = proc[q]
      BY <3>1, AskFields
    <3>5. Targeted(proc'[p])
      BY <3>2, <3>3, <3>4 DEF Targeted
    <3> QED
      BY <2>1, <2>2, <3>3, <3>4, <3>5 DEF Goal, DropOK, Removals
  <2>3. CASE proc[p].verb # "delete"
    BY <1>2, <1>5, <2>1, <2>3 DEF DeleteProfile, Locking
  <2> QED
    BY <2>2, <2>3
<1>6. CASE DropByPath(p)
  <2>1. proc[p].pc = "have" /\ proc[p].verb = "drop" /\ pool' = pool
    BY <1>6 DEF DropByPath
  <2>2. CASE At(p) = {}
    BY <1>2, <1>6, <2>1, <2>2 DEF DropByPath, Locking
  <2>3. CASE At(p) # {}
    <3> DEFINE i == Min(At(p))
               op == [kind |-> "remove", id |-> view[i].id]
    <3>1. At(p) \in SUBSET (DOMAIN view)
      BY DEF At
    <3>2. i \in At(p)
      BY <1>0, <2>3, <3>1, FirstPlace
    <3>3. Ask(p, op, "deleted")
      BY <1>6, <2>3 DEF DropByPath, First
    <3> HIDE DEF i
    <3>4. i \in DOMAIN view /\ view[i].path = proc[p].arg
      BY <3>2 DEF At
    <3>5. op.kind = "remove" /\ op.id = view[i].id
      OBVIOUS
    <3> HIDE DEF op
    <3>6. Continues(view, pool) /\ p \in Admins
      BY <2>1 DEF DropOK, Removals
    <3>7. /\ proc'[p].pc = "lock" /\ proc'[p].verb = proc[p].verb /\ proc'[p].view = view
          /\ proc'[p].op = op /\ proc'[p].then = "deleted" /\ proc'[p].arg = proc[p].arg
          /\ \A q \in Procs \ {p} : proc'[q] = proc[q]
      BY <3>3, AskFields
    <3>8. Targeted(proc'[p])
      BY <3>4, <3>5, <3>7 DEF Targeted
    <3> QED
      BY <2>1, <3>6, <3>7, <3>8 DEF Goal, DropOK, Removals
  <2> QED
    BY <2>2, <2>3
<1> QED
  BY <1>3, <1>4, <1>5, <1>6

\* A removal takes out the entry of its target, if any.
LEMMA RemovedHits ==
    ASSUME NEW s, IsPool(s), NEW i \in DOMAIN s, NEW hits \in SUBSET (DOMAIN s), i \in hits,
           \A k \in hits : i <= k
    PROVE  \A e \in ToSet(s) : e \in ToSet(DropAt(s, hits)) \/ e = s[i]
<1>1. s \in Seq(Entries)
  BY DEF IsPool
<1>2. Min(hits) \in hits /\ \A k \in hits : Min(hits) <= k
  BY <1>1, FirstPlace
<1>3. Min(hits) = i
  <2>1. Min(hits) \in Nat /\ i \in Nat
    BY <1>1, <1>2
  <2> QED
    BY <1>2, <2>1
<1> DEFINE u == RemoveAt(s, i)
<1>4. DropAt(s, hits) = u
  BY <1>3 DEF DropAt
<1>5. /\ u \in Seq(Entries) /\ Len(u) = Len(s) - 1
      /\ \A j \in 1 .. Len(u) : u[j] = IF j < i THEN s[j] ELSE s[j + 1]
  BY <1>1, RemovedAt
<1> HIDE DEF u
<1>6. ASSUME NEW k \in DOMAIN s, k # i PROVE \E j \in DOMAIN u : u[j] = s[k]
  <2>1. Len(s) \in Nat /\ DOMAIN s = 1 .. Len(s) /\ DOMAIN u = 1 .. Len(s) - 1
    BY <1>1, <1>5
  <2>2. CASE k < i
    BY <1>5, <1>6, <2>1, <2>2
  <2>3. CASE k > i
    <3>1. k - 1 \in DOMAIN u /\ ~(k - 1 < i) /\ (k - 1) + 1 = k
      BY <1>6, <2>1, <2>3
    <3> QED
      BY <1>5, <2>1, <3>1
  <2> QED
    BY <1>6, <2>1, <2>2, <2>3
<1> QED
  BY <1>4, <1>6 DEF ToSet

\* What a deletion asked for takes out its target and nothing else.
LEMMA TargetedHits ==
    ASSUME NEW s, IsPool(s), NEW r, r.view \in Seq(Entries), Continues(r.view, s), Targeted(r)
    PROVE  \A e \in ToSet(s) : e \in ToSet(Apply(r.op, s)) \/ e.path = r.arg
<1>1. s \in Seq(Entries) /\ Unique(s)
  BY DEF IsPool
<1>2. CASE r.op.kind = "removeName" /\ r.op.name = NameOf[r.arg] /\ FirstNamed(r.view, r.arg)
  <2> DEFINE hits == {k \in DOMAIN s : NameOf[s[k].path] = NameOf[r.arg]}
  <2>1. Apply(r.op, s) = DropAt(s, hits)
    BY <1>2 DEF Apply, DropName
  <2>2. PICK i \in DOMAIN s : s[i].path = r.arg /\
            \A j \in DOMAIN s : j < i => NameOf[s[j].path] # NameOf[r.arg]
    BY <1>1, <1>2, FirstStays DEF FirstNamed
  <2>3. i \in hits /\ \A k \in hits : i <= k
    BY <1>1, <2>2
  <2>4. hits \in SUBSET (DOMAIN s)
    OBVIOUS
  <2> HIDE DEF hits
  <2> QED
    BY <2>1, <2>2, <2>3, <2>4, RemovedHits
<1>3. CASE r.op.kind = "remove" /\ \E i \in DOMAIN r.view : r.view[i].id = r.op.id /\ r.view[i].path = r.arg
  <2> DEFINE hits == {k \in DOMAIN s : s[k].id = r.op.id}
  <2>1. Apply(r.op, s) = DropAt(s, hits)
    BY <1>3 DEF Apply, DropId
  <2>2. PICK i \in DOMAIN s : s[i].id = r.op.id /\ s[i].path = r.arg
    BY <1>3 DEF Continues
  <2>3. i \in hits /\ \A k \in hits : k = i /\ i <= k
    BY <1>1, <2>2 DEF Unique
  <2>4. hits \in SUBSET (DOMAIN s)
    OBVIOUS
  <2> HIDE DEF hits
  <2> QED
    BY <2>1, <2>2, <2>3, <2>4, RemovedHits
<1> QED
  BY <1>2, <1>3 DEF Targeted

\* A step of one process changes nobody else, and the file only as far as the
\* others' removals allow.
LEMMA DropFrame ==
    ASSUME DropInv, damage = 0, damage' = 0, NEW p \in Procs, pool' # Damaged,
           DropOK(proc'[p], p, pool'), \A q \in Procs \ {p} : proc'[q] = proc[q],
           \/ pool' = pool
           \/ \A q \in Procs \ {p} : /\ proc[q].pc \notin {"new", "held"}
                                     /\ proc[q].verb \in Removals => Continues(pool, pool')
    PROVE  DropInv'
<1>1. ASSUME NEW q \in Procs, q # p PROVE DropOK(proc'[q], q, pool')
  <2>1. DropOK(proc[q], q, pool) /\ proc'[q] = proc[q]
    BY <1>1 DEF DropInv
  <2>2. CASE pool' = pool
    BY <2>1, <2>2
  <2>3. CASE pool' # pool
    BY <1>1, <2>1, <2>3, DropKept
  <2> QED
    BY <2>2, <2>3
<1> QED
  BY <1>1 DEF DropInv

\* Taking the lock, and saving what was discovered.
LEMMA DropLoads ==
    ASSUME PoolInv, DropInv, damage = 0, damage' = 0, NEW p \in Procs, Load(p) \/ SaveDiscovered(p)
    PROVE  DropInv'
<1>0. /\ Shape(proc[p]) /\ proc = [q \in Procs |-> proc[q]] /\ DropOK(proc[p], p, pool)
      /\ pool # Damaged /\ IsPool(pool) /\ dirs \in SUBSET Own
  BY DEF PoolInv, RecordOK, DropInv
<1>1. CASE Load(p)
  <2> DEFINE buf == RegisterDiscovered(pool, dirs)
             c == IF dirs \subseteq Known(pool) THEN "held" ELSE "new"
  <2>1. /\ proc[p].pc = "lock" /\ pool' = pool
        /\ proc' = [proc EXCEPT ![p].pc = c, ![p].buf = buf]
    BY <1>0, <1>1 DEF Load
  <2>2. Continues(pool, buf) /\ (c = "held" => buf = pool) /\ c \in {"held", "new"}
    BY <1>0, Registered
  <2> HIDE DEF buf, c
  <2>3. /\ proc'[p].pc = c /\ proc'[p].buf = buf /\ proc'[p].verb = proc[p].verb
        /\ proc'[p].view = proc[p].view /\ proc'[p].op = proc[p].op
        /\ proc'[p].then = proc[p].then /\ proc'[p].arg = proc[p].arg
        /\ \A q \in Procs \ {p} : proc'[q] = proc[q]
    BY <1>0, <2>1 DEF Shape, Fields
  <2>4. DropOK(proc'[p], p, pool)
    BY <1>0, <2>1, <2>2, <2>3 DEF DropOK, Locking, Targeted
  <2> QED
    BY <1>0, <2>1, <2>3, <2>4, DropFrame
<1>2. CASE SaveDiscovered(p)
  <2>1. proc[p].pc = "new" /\ pool' = proc[p].buf /\ Go(p, "held")
    BY <1>2 DEF SaveDiscovered
  <2>2. Continues(pool, pool') /\ IsPool(pool')
    BY <1>0, <2>1 DEF DropOK, PoolInv, RecordOK
  <2>3. Continues(proc[p].view, pool) => Continues(proc[p].view, pool')
    BY <2>2 DEF Continues
  <2>4. DropOK(proc'[p], p, pool')
    BY <1>0, <2>1, <2>3, GoFields DEF DropOK, Locking, Targeted
  <2>5. \A q \in Procs \ {p} : proc[q].pc \notin {"new", "held"}
    BY <2>1 DEF PoolInv, Locked
  <2>6. pool' # Damaged
    BY <2>2, PoolIsWhole
  <2> QED
    BY <2>1, <2>2, <2>4, <2>5, <2>6, GoFields, DropFrame
<1> QED
  BY <1>1, <1>2

\* The locked change and its save, by the only manager.
LEMMA DropSaves ==
    ASSUME \A p, q \in Admins : p = q,
           PoolInv, DropInv, damage = 0, damage' = 0, NEW p \in Procs, Save(p)
    PROVE  DropInv'
<1> DEFINE op == proc[p].op
           s == Apply(op, pool)
           view == IF op.kind = "discover" THEN s ELSE proc[p].view
<1>0. /\ Shape(proc[p]) /\ proc = [q \in Procs |-> proc[q]] /\ DropOK(proc[p], p, pool)
      /\ pool # Damaged /\ IsPool(pool) /\ OpOK(op)
  BY DEF PoolInv, RecordOK, DropInv
<1>1. proc[p].pc = "held" /\ proc[p].buf = pool
  BY <1>0 DEF Save, DropOK
<1>2. /\ pool' = s
      /\ proc' = [proc EXCEPT ![p].pc = proc[p].then, ![p].op = NoOp, ![p].buf = <<>>,
                              ![p].view = view]
  BY <1>0, <1>1 DEF Save
<1>3. IsPool(s) /\ (op.kind \notin Dropping => Continues(pool, s))
  BY <1>0, Applied, AppliedContinues
<1>4. op.kind = "discover" => Continues(view, s)
  BY DEF Continues
<1>5. op.kind # "discover" => view = proc[p].view
  OBVIOUS
<1>6. proc[p].then \notin {"lock", "new", "held"}
  BY DEF PoolInv, RecordOK
<1> HIDE DEF s, view
<1>7. /\ proc'[p].pc = proc[p].then /\ proc'[p].verb = proc[p].verb /\ proc'[p].view = view
      /\ proc'[p].op = NoOp /\ proc'[p].then = proc[p].then /\ proc'[p].arg = proc[p].arg
      /\ \A q \in Procs \ {p} : proc'[q] = proc[q]
  BY <1>0, <1>2 DEF Shape, Fields
<1>8. Continues(proc[p].view, pool) /\ Continues(pool, s) => Continues(proc[p].view, s)
  BY DEF Continues
<1>9. DropOK(proc'[p], p, s)
  BY <1>0, <1>1, <1>3, <1>4, <1>5, <1>6, <1>7, <1>8 DEF DropOK, Locking
<1>10. \A q \in Procs \ {p} : proc[q].pc \notin {"new", "held"}
  BY <1>1 DEF PoolInv, Locked
<1>11. ASSUME NEW q \in Procs \ {p}, proc[q].verb \in Removals PROVE Continues(pool, s)
  <2>1. q \in Admins
    BY <1>11 DEF DropInv, DropOK
  <2>2. p \notin Admins
    BY <1>11, <2>1
  <2> QED
    BY <1>0, <1>1, <1>3, <2>2 DEF DropOK, Locking
<1>12. pool' # Damaged
  BY <1>2, <1>3, PoolIsWhole
<1> QED
  BY <1>2, <1>7, <1>9, <1>10, <1>11, <1>12, DropFrame

\* Only damage from outside counts as damage, and only it, a quarantine, a load or a
\* save writes the pool.
LEMMA Writers ==
    ASSUME [Next]_vars
    PROVE  /\ UNCHANGED damage \/ DamageFile
           /\ \/ UNCHANGED pool \/ DamageFile
              \/ \E q \in Procs : Quarantine(q) \/ Load(q) \/ SaveDiscovered(q) \/ Save(q)
<1>1. ASSUME NEW p \in Procs, Start(p) PROVE UNCHANGED <<damage, pool>>
  <2>1. CASE StartReading(p)  BY <2>1 DEF StartReading
  <2>2. CASE StartLogin(p)  BY <2>2 DEF StartLogin
  <2>3. CASE StartImport(p)  BY <2>3 DEF StartImport
  <2>4. CASE StartDeletePath(p)  BY <2>4 DEF StartDeletePath
  <2> QED
    BY <1>1, <2>1, <2>2, <2>3, <2>4 DEF Start
<1>2. ASSUME NEW p \in Procs, Quarantine(p) \/ Load(p) \/ SaveDiscovered(p) \/ Save(p)
      PROVE  UNCHANGED damage
  <2>1. CASE Quarantine(p)  BY <2>1 DEF Quarantine
  <2>2. CASE Load(p)  BY <2>2 DEF Load
  <2>3. CASE SaveDiscovered(p)  BY <2>3 DEF SaveDiscovered
  <2>4. CASE Save(p)  BY <2>4 DEF Save
  <2> QED
    BY <1>2, <2>1, <2>2, <2>3, <2>4
<1>3. ASSUME NEW p \in Procs,
             Read(p) \/ EndLogin(p) \/ Import(p) \/ List(p) \/ RemoveNamed(p) \/ Answer(p)
      PROVE  UNCHANGED <<damage, pool>>
  <2>1. CASE Read(p)  BY <2>1 DEF Read
  <2>2. CASE EndLogin(p)  BY <2>2 DEF EndLogin
  <2>3. CASE Import(p)  BY <2>3 DEF Import
  <2>4. CASE List(p)  BY <2>4 DEF List
  <2>5. CASE RemoveNamed(p)  BY <2>5 DEF RemoveNamed
  <2>6. CASE Answer(p)  BY <2>6 DEF Answer
  <2> QED
    BY <1>3, <2>1, <2>2, <2>3, <2>4, <2>5, <2>6
<1>4. ASSUME NEW p \in Procs,
             ResolveName(p) \/ RefuseDelete(p) \/ HalfDelete(p) \/ DeleteProfile(p) \/ DropByPath(p)
      PROVE  UNCHANGED <<damage, pool>>
  <2>1. CASE ResolveName(p)  BY <2>1 DEF ResolveName
  <2>2. CASE RefuseDelete(p)  BY <2>2 DEF RefuseDelete
  <2>3. CASE HalfDelete(p)  BY <2>3 DEF HalfDelete
  <2>4. CASE DeleteProfile(p)  BY <2>4 DEF DeleteProfile
  <2>5. CASE DropByPath(p)  BY <2>5 DEF DropByPath
  <2> QED
    BY <1>4, <2>1, <2>2, <2>3, <2>4, <2>5
<1>5. ASSUME NEW p \in Procs,
             Candidates(p) \/ Probe(p) \/ NoEligible(p) \/ Found(p) \/ CheckAll(p) \/ MarkNext(p)
      PROVE  UNCHANGED <<damage, pool>>
  <2>1. CASE Candidates(p)  BY <2>1 DEF Candidates
  <2>2. CASE Probe(p)  BY <2>2 DEF Probe
  <2>3. CASE NoEligible(p)  BY <2>3 DEF NoEligible
  <2>4. CASE Found(p)  BY <2>4 DEF Found
  <2>5. CASE CheckAll(p)  BY <2>5 DEF CheckAll
  <2>6. CASE MarkNext(p)  BY <2>6 DEF MarkNext
  <2> QED
    BY <1>5, <2>1, <2>2, <2>3, <2>4, <2>5, <2>6
<1>6. ASSUME NEW p \in Procs, Verb(p)
      PROVE  /\ UNCHANGED damage
             /\ UNCHANGED pool \/ Quarantine(p) \/ Load(p) \/ SaveDiscovered(p) \/ Save(p)
  BY <1>2, <1>3, <1>4, <1>5, <1>6 DEF Verb
<1>7. ASSUME NEW p \in Procs, Crash(p) PROVE UNCHANGED <<damage, pool>>
  BY <1>7 DEF Crash
<1>8. CASE ProfileAppears \/ UNCHANGED vars
  BY <1>8 DEF ProfileAppears, vars
<1> QED
  BY <1>1, <1>6, <1>7, <1>8 DEF Next

\* Every step keeps it, while one process manages.
LEMMA DropStep ==
    ASSUME \A p, q \in Admins : p = q, PoolInv, DropInv, [Next]_vars
    PROVE  DropInv'
<1>0. damage' \in Nat /\ (damage' = 0 => damage = 0)
  <2>1. damage \in Nat
    BY DEF DropInv
  <2>2. CASE DamageFile
    BY <2>1, <2>2 DEF DamageFile
  <2>3. CASE UNCHANGED damage
    BY <2>1, <2>3
  <2>4. UNCHANGED damage \/ DamageFile
    BY Writers
  <2> QED
    BY <2>2, <2>3, <2>4
<1>1. CASE damage' # 0
  BY <1>0, <1>1 DEF DropInv
<1>2. CASE damage' = 0
  <2> USE <1>0, <1>2
  <2>0. /\ pool # Damaged /\ proc = [q \in Procs |-> proc[q]]
        /\ \A q \in Procs : DropOK(proc[q], q, pool)
    BY DEF DropInv, PoolInv
  <2>1. ASSUME NEW p \in Procs, Start(p) PROVE DropInv'
    <3>1. ASSUME NEW verb, NEW path, NEW c \in {"read", "browser", "import", "rmtree"},
                 Begin(p, verb, path, c), verb \in Removals => p \in Admins,
                 c = "rmtree" => verb = "drop"
          PROVE  DropInv'
      <4>1. pool' = pool
        BY <2>1 DEF Start, StartReading, StartLogin, StartImport, StartDeletePath
      <4>2. Continues(<<>>, pool)
        BY DEF Continues
      <4>3. DropOK(proc'[p], p, pool)
        BY <3>1, <4>2, BeginFields DEF DropOK, Locking
      <4> QED
        BY <2>0, <3>1, <4>1, <4>3, BeginFields, DropFrame
    <3>2. CASE StartReading(p)
      <4>1. PICK v \in {"list", "rotate", "execute", "health"} \cup
                       (IF p \in Admins THEN {"remove", "delete"} ELSE {}), x \in Paths :
                Begin(p, v, x, "read")
        BY <3>2 DEF StartReading
      <4>2. v \in Removals => p \in Admins
        BY <4>1 DEF Removals
      <4> QED
        BY <3>1, <4>1, <4>2
    <3>3. CASE p \in Admins /\ (StartLogin(p) \/ StartImport(p) \/ StartDeletePath(p))
      BY <3>1, <3>3 DEF StartLogin, StartImport, StartDeletePath
    <3> QED
      BY <2>1, <3>2, <3>3 DEF Start
  <2>2. ASSUME NEW p \in Procs, Quarantine(p) PROVE DropInv'
    BY <2>0, <2>2 DEF Quarantine, DropOK
  <2>3. ASSUME NEW p \in Procs, Load(p) \/ SaveDiscovered(p) PROVE DropInv'
    BY <2>3, DropLoads
  <2>4. ASSUME NEW p \in Procs, Save(p) PROVE DropInv'
    BY <2>4, DropSaves
  <2>5. ASSUME NEW p \in Procs,
               \/ Read(p) \/ EndLogin(p) \/ Import(p) \/ List(p) \/ RefuseDelete(p) \/ HalfDelete(p)
               \/ Answer(p) \/ Candidates(p) \/ Probe(p) \/ NoEligible(p) \/ Found(p) \/ CheckAll(p)
               \/ MarkNext(p)
        PROVE  DropInv'
    BY <2>0, <2>5, DropMoves, DropFrame
  <2>6. ASSUME NEW p \in Procs,
               RemoveNamed(p) \/ ResolveName(p) \/ DeleteProfile(p) \/ DropByPath(p)
        PROVE  DropInv'
    BY <2>0, <2>6, DropResolves, DropFrame
  <2>7. ASSUME NEW p \in Procs, Crash(p) PROVE DropInv'
    <3>1. /\ pool' = pool /\ proc'[p].pc = "idle" /\ proc'[p].verb = "none"
          /\ \A q \in Procs \ {p} : proc'[q] = proc[q]
      BY <2>0, <2>7 DEF Crash, Idle
    <3>2. DropOK(proc'[p], p, pool)
      BY <3>1, DropElse DEF Removals, Locking
    <3> QED
      BY <2>0, <3>1, <3>2, DropFrame
  <2>8. CASE ProfileAppears \/ UNCHANGED vars
    BY <2>0, <2>8 DEF ProfileAppears, vars, DropInv
  <2>9. ~DamageFile
    BY DEF DamageFile
  <2> QED
    BY <2>1, <2>2, <2>3, <2>4, <2>5, <2>6, <2>7, <2>8, <2>9 DEF Next, Verb
<1> QED
  BY <1>1, <1>2

\* While one process at a time manages sessions, a deletion drops the entry of the
\* profile it removed and no other, however rotations and checks of any number of
\* other processes discover and mark between its reading of the pool and its lock,
\* and however many profiles share a name (_delete, remove_session_by_name,
\* remove_session).
THEOREM DeletionsHit ==
    ASSUME \A p, q \in Admins : p = q
    PROVE  Spec => DeleteDropsOnlyItsTarget
<1> DEFINE A == \A p \in Procs :
                  proc[p].pc = "held" /\ proc[p].then = "deleted" /\ damage' = 0 =>
                    \A e \in Table : e \in Table' \/ e.path = proc[p].arg
<1>1. Init => DropInv
  <2> SUFFICES ASSUME Init PROVE DropInv
    OBVIOUS
  <2>1. pool = <<>> /\ damage = 0 /\ \A p \in Procs : proc[p] = Idle
    BY DEF Init
  <2>2. pool # Damaged
    BY <2>1, EmptyPool, PoolIsWhole
  <2>3. \A p \in Procs : DropOK(proc[p], p, pool)
    BY <2>1 DEF Idle, DropOK, Removals, Locking
  <2> QED
    BY <2>1, <2>2, <2>3 DEF DropInv
<1>2. PoolInv /\ DropInv /\ DropInv' /\ [Next]_vars => A
  <2> SUFFICES ASSUME PoolInv, DropInv, DropInv', [Next]_vars, NEW p \in Procs,
                      proc[p].pc = "held", proc[p].then = "deleted", damage' = 0,
                      NEW e \in Table
               PROVE  e \in Table' \/ e.path = proc[p].arg
    OBVIOUS
  <2>0. damage = 0
    <3>1. damage \in Nat
      BY DEF DropInv
    <3>2. UNCHANGED damage \/ DamageFile
      BY Writers
    <3> QED
      BY <3>1, <3>2 DEF DamageFile
  <2>1. /\ pool # Damaged /\ pool' # Damaged /\ IsPool(pool) /\ Table = ToSet(pool)
        /\ Table' = ToSet(pool') /\ DropOK(proc[p], p, pool)
    BY <2>0 DEF DropInv, PoolInv, Table
  <2>2. CASE pool' = pool
    BY <2>1, <2>2
  <2>3. CASE pool' # pool
    <3>1. PICK q \in Procs : Quarantine(q) \/ Load(q) \/ SaveDiscovered(q) \/ Save(q)
      BY <2>1, <2>3, Writers DEF DamageFile
    <3>2. ~Quarantine(q) /\ ~Load(q)
      BY <2>0, <2>1, <2>3 DEF Quarantine, Load, DropInv, DropOK
    <3>3. q = p /\ Save(p)
      BY <3>1, <3>2 DEF SaveDiscovered, Save, PoolInv, Locked
    <3>4. pool' = Apply(proc[p].op, pool)
      BY <2>1, <3>3 DEF Save, DropOK
    <3>5. /\ Targeted(proc[p]) /\ proc[p].view \in Seq(Entries)
          /\ Continues(proc[p].view, pool)
      BY <2>1 DEF DropOK, Locking, PoolInv, RecordOK, Targeted, Dropping
    <3> QED
      BY <2>1, <3>4, <3>5, TargetedHits
  <2> QED
    BY <2>2, <2>3
<1>3. PoolInv /\ DropInv /\ [Next]_vars => DropInv'
  BY DropStep
<1>4. DeleteDropsOnlyItsTarget <=> [][A]_vars
  BY DEF DeleteDropsOnlyItsTarget
<1> HIDE DEF A
<1> QED
  BY <1>1, <1>2, <1>3, <1>4, PoolInvariant, PTL DEF Spec

-----------------------------------------------------------------------------
(* The terminal interface.                                                   *)

\* A slot has an event while it has a worker: the one of the worker's run.
SlotsInv ==
    /\ DOMAIN worker = Slots /\ DOMAIN token = Slots
    /\ \A s \in Slots : token[s] = worker[s]

\* What a dialog about slots names are slots.
AboutSlots(m) ==
    /\ m.asks = "cancel" => m.slot \in Slots
    /\ m.asks = "quit" => m.slots \subseteq Slots

\* Dialogs and deletions are queues, and a cancellation is about slots.
DialogsInv ==
    /\ \E S : modals \in Seq(S)
    /\ \E S : deletes \in Seq(S)
    /\ \A i \in DOMAIN modals : AboutSlots(modals[i])

\* The file and the environment hold one value, but for the quotes, unless the
\* shell exports another.
SettingInv ==
    /\ DOMAIN setting = {"secret", "exported", "env", "file", "field"}
    /\ setting = [f \in DOMAIN setting |-> setting[f]]
    /\ setting.exported = Unset => Parsed(setting.file) = Parsed(setting.env)

TuiInv == SlotsInv /\ DialogsInv /\ SettingInv

\* It holds at the start.
LEMMA TuiStarts == TuiInit => TuiInv
<1> SUFFICES ASSUME TuiInit PROVE TuiInv
  OBVIOUS
<1>1. SlotsInv
  BY DEF TuiInit, SlotInit, SlotsInv
<1>2. DialogsInv
  <2>1. modals = <<>> /\ deletes = <<>>
    BY DEF TuiInit, SlotInit, SessionsInit
  <2>2. <<>> \in Seq({})
    OBVIOUS
  <2> QED
    BY <2>1, <2>2 DEF DialogsInv
<1>3. SettingInv
  BY DEF TuiInit, SettingInit, SettingInv
<1> QED
  BY <1>1, <1>2, <1>3 DEF TuiInv

\* A dialog more or a dialog less.
LEMMA Pushed ==
    ASSUME DialogsInv, NEW m, AboutSlots(m),
           modals' = <<m>> \o modals, deletes' = deletes
    PROVE  DialogsInv' /\ Len(modals') > Len(modals)
<1>1. PICK S : modals \in Seq(S)
  BY DEF DialogsInv
<1> DEFINE R == S \cup {m}
<1>2. modals \in Seq(R) /\ <<m>> \in Seq(R)
  BY <1>1
<1> HIDE DEF R
<1>3. modals' \in Seq(R) /\ Len(modals') = Len(modals) + 1 /\ Len(modals) \in Nat
  BY <1>2
<1>4. \A i \in DOMAIN modals' : modals'[i] = m \/ \E j \in DOMAIN modals : modals'[i] = modals[j]
  BY <1>2
<1>5. \A i \in DOMAIN modals' : AboutSlots(modals'[i])
  BY <1>4 DEF DialogsInv
<1> QED
  BY <1>3, <1>5 DEF DialogsInv

\* The latest dialog, or every one, is closed; a deletion may be queued.
LEMMA Closed ==
    ASSUME DialogsInv, Len(modals) > 0, modals' = Tail(modals) \/ modals' = <<>>,
           deletes' = deletes \/ \E n : deletes' = Append(deletes, n)
    PROVE  DialogsInv'
<1>1. PICK S : modals \in Seq(S)
  BY DEF DialogsInv
<1>2. modals' \in Seq(S)
  <2>1. Tail(modals) \in Seq(S) /\ <<>> \in Seq(S)
    BY <1>1
  <2> QED
    BY <2>1
<1>3. \A i \in DOMAIN modals' : \E j \in DOMAIN modals : modals'[i] = modals[j]
  <2>1. CASE modals' = <<>>
    BY <2>1
  <2>2. CASE modals' = Tail(modals)
    <3>1. \A i \in DOMAIN Tail(modals) : i + 1 \in DOMAIN modals /\ Tail(modals)[i] = modals[i + 1]
      BY <1>1
    <3> QED
      BY <2>2, <3>1
  <2> QED
    BY <2>1, <2>2
<1>4. \A i \in DOMAIN modals' : AboutSlots(modals'[i])
  BY <1>3 DEF DialogsInv
<1>5. \E R : deletes' \in Seq(R)
  <2>1. PICK D : deletes \in Seq(D)
    BY DEF DialogsInv
  <2>2. ASSUME NEW n, deletes' = Append(deletes, n) PROVE deletes' \in Seq(D \cup {n})
    <3>1. deletes \in Seq(D \cup {n}) /\ n \in D \cup {n}
      BY <2>1
    <3> HIDE DEF DialogsInv
    <3> QED
      BY <2>2, <3>1
  <2> QED
    BY <2>1, <2>2
<1> QED
  BY <1>2, <1>4, <1>5 DEF DialogsInv

\* A step that leaves the dialogs and the deletions alone.
LEMMA DialogsStay ==
    ASSUME DialogsInv, UNCHANGED <<modals, deletes>>
    PROVE  DialogsInv' /\ Len(modals') = Len(modals) /\ Len(modals) \in Nat
  BY DEF DialogsInv

\* What an answered dialog does, as ConfirmedAsAsked states it.
AsAsked ==
    Len(modals') < Len(modals) /\ open' =>
        LET m == modals[1]
        IN  /\ m.asks = "cancel" =>
                   /\ stopped' \ stopped \subseteq {m.run}
                   /\ \A s \in Slots : worker'[s] # worker[s] => worker[s] = m.run
            /\ m.asks = "delete" =>
                   \A i \in DOMAIN deletes' \ DOMAIN deletes : deletes'[i] = m.name

\* Only an answer takes a dialog away.
LEMMA NotAnswered == ASSUME Len(modals) \in Nat, Len(modals') \in Nat, ~(Len(modals') < Len(modals)) PROVE AsAsked
  BY DEF AsAsked

\* A cancellation leaves a slot without worker without event.
LEMMA Cancelled ==
    ASSUME SlotsInv, NEW S, DoCancel(S)
    PROVE  SlotsInv'
  BY DEF DoCancel, SlotsInv

\* The cancellation of one slot reaches the run it holds, and no other.
LEMMA CancelledOne ==
    ASSUME SlotsInv, NEW slot \in Slots, DoCancel({slot})
    PROVE  /\ stopped' \ stopped \subseteq {worker[slot]}
           /\ \A s \in Slots : worker'[s] # worker[s] => s = slot
<1> DEFINE hit == {s \in {slot} : worker[s] # NoRun}
<1>1. /\ stopped' = stopped \cup UNION {Reached(s) : s \in hit}
      /\ worker' = [s \in Slots |-> IF s \in hit THEN NoRun ELSE worker[s]]
  BY DEF DoCancel
<1>2. \A s \in hit : s = slot
  OBVIOUS
<1> HIDE DEF hit
<1>3. Reached(slot) \subseteq {worker[slot]}
  BY DEF Reached, SlotsInv
<1>4. UNION {Reached(s) : s \in hit} \subseteq Reached(slot)
  BY <1>2
<1> QED
  BY <1>1, <1>2, <1>3, <1>4

\* The steps of the slots screen.
LEMMA SlotsStep ==
    ASSUME TuiInv, SlotsScreen
    PROVE  TuiInv' /\ AsAsked
<1>1. UNCHANGED <<deletes, setting>>
  BY DEF SlotsScreen, notSlots, poolVars
<1>2. SettingInv'
  BY <1>1 DEF TuiInv, SettingInv
<1>3. SlotsInv /\ DialogsInv /\ deletes' = deletes
  BY <1>1 DEF TuiInv
<1>4. SUFFICES SlotsInv' /\ DialogsInv' /\ AsAsked
  BY <1>2 DEF TuiInv
<1>5. ASSUME UNCHANGED <<modals>> PROVE DialogsInv' /\ AsAsked
  BY <1>3, <1>5, DialogsStay, NotAnswered
<1>6. ASSUME NEW m, AboutSlots(m), Push(m) PROVE DialogsInv' /\ AsAsked
  <2>1. DialogsInv' /\ Len(modals') > Len(modals)
    BY <1>3, <1>6, Pushed DEF Push
  <2>2. Len(modals) \in Nat /\ Len(modals') \in Nat
    BY <1>3, <2>1 DEF DialogsInv
  <2> QED
    BY <2>1, <2>2, NotAnswered
<1>7. ASSUME Len(modals) > 0, Close PROVE DialogsInv'
  BY <1>3, <1>7, Closed DEF Close
<1>8. ASSUME NEW s \in Slots, NEW kind, BeginRun(s, kind) PROVE SlotsInv' /\ UNCHANGED modals
  BY <1>3, <1>8 DEF BeginRun, dialogs, SlotsInv
<1>9. ASSUME NEW s \in Slots, RunSlot(s) \/ SendComposer(s) PROVE SlotsInv' /\ DialogsInv' /\ AsAsked
  BY <1>5, <1>8, <1>9 DEF RunSlot, SendComposer
<1>10. ASSUME NEW s \in Slots, CancelSlot(s) PROVE SlotsInv' /\ DialogsInv' /\ AsAsked
  <2> DEFINE m == [asks |-> "cancel", slot |-> s, run |-> worker[s]]
  <2>1. CASE Push(m) /\ UNCHANGED slots
    <3>1. SlotsInv'
      BY <1>3, <2>1 DEF slots, SlotsInv
    <3>2. AboutSlots(m)
      BY DEF AboutSlots
    <3> HIDE DEF m
    <3> QED
      BY <1>6, <2>1, <3>1, <3>2
  <2>2. CASE DoCancel({s}) /\ UNCHANGED modals
    BY <1>3, <1>5, <2>2, Cancelled
  <2> QED
    BY <1>10, <2>1, <2>2 DEF CancelSlot, slots
<1>11. ASSUME NEW r, RunThread(r) \/ Age(r) PROVE SlotsInv' /\ DialogsInv' /\ AsAsked
  <2>1. UNCHANGED modals
    BY <1>11 DEF RunThread, FirstRead, SecondRead, Execute, Return, Finalize, Age, dialogs
  <2>2. CASE Finalize(r)
    BY <1>3, <1>5, <2>1, <2>2 DEF Finalize, SlotsInv
  <2>3. CASE ~Finalize(r)
    <3>1. UNCHANGED <<worker, token>>
      BY <1>11, <2>3 DEF RunThread, FirstRead, SecondRead, Execute, Return, Age, slots
    <3> QED
      BY <1>3, <1>5, <2>1, <3>1 DEF SlotsInv
  <2> QED
    BY <2>2, <2>3
<1>12. CASE ConfirmCancel
  <2>1. Len(modals) > 0 /\ modals[1].asks = "cancel" /\ Close
    BY <1>12 DEF ConfirmCancel, Top
  <2>2. modals[1].slot \in Slots
    BY <1>3, <2>1 DEF DialogsInv, AboutSlots
  <2>3. CASE StillMeant(modals[1]) /\ DoCancel({modals[1].slot})
    <3>1. worker[modals[1].slot] = modals[1].run
      BY <2>3 DEF StillMeant
    <3>2. /\ stopped' \ stopped \subseteq {modals[1].run}
          /\ \A s \in Slots : worker'[s] # worker[s] => worker[s] = modals[1].run
      BY <1>3, <2>2, <2>3, <3>1, CancelledOne
    <3> QED
      BY <1>3, <1>7, <2>1, <2>3, <3>2, Cancelled DEF AsAsked
  <2>4. CASE UNCHANGED <<stopped, slots>>
    BY <1>3, <1>7, <2>1, <2>4 DEF slots, SlotsInv, AsAsked
  <2> QED
    BY <1>12, <2>3, <2>4 DEF ConfirmCancel
<1>13. CASE RequestQuit
  <2>1. SlotsInv'
    BY <1>3, <1>13 DEF RequestQuit, slots, SlotsInv
  <2>2. CASE UNCHANGED modals
    BY <1>5, <2>1, <2>2
  <2>3. CASE Push([asks |-> "quit", slots |-> AtWork])
    <3> DEFINE m == [asks |-> "quit", slots |-> AtWork]
    <3>1. AboutSlots(m)
      BY DEF AboutSlots, AtWork
    <3>2. Push(m)
      BY <2>3
    <3> HIDE DEF m
    <3> QED
      BY <1>6, <2>1, <3>1, <3>2
  <2> QED
    BY <1>13, <2>2, <2>3 DEF RequestQuit
<1>14. CASE ConfirmQuit
  <2>1. Len(modals) > 0 /\ modals' = <<>> /\ ~open'
    BY <1>14 DEF ConfirmQuit, Top
  <2>2. SlotsInv'
    BY <1>3, <1>14, Cancelled DEF ConfirmQuit
  <2> QED
    BY <1>3, <2>1, <2>2, Closed DEF AsAsked
<1>15. CASE DismissSlot
  <2>1. Len(modals) > 0 /\ Close /\ UNCHANGED <<stopped, worker, token>>
        /\ modals[1].asks \in {"cancel", "quit"}
    BY <1>15 DEF DismissSlot, Top, slots
  <2> QED
    BY <1>3, <1>7, <2>1 DEF SlotsInv, AsAsked
<1> QED
  BY <1>9, <1>10, <1>11, <1>12, <1>13, <1>14, <1>15 DEF SlotsScreen, SlotNext

\* The steps of the swarm screen: its dialogs are neither of the two kinds.
LEMMA SwarmStep ==
    ASSUME TuiInv, SwarmNext
    PROVE  TuiInv' /\ AsAsked
<1>1. UNCHANGED <<worker, token, deletes, setting>>
  BY DEF SwarmNext, notSwarm, slots, poolVars
<1>2. SettingInv' /\ SlotsInv' /\ DialogsInv
  BY <1>1 DEF TuiInv, SettingInv, SlotsInv
<1>3. CASE UNCHANGED modals
  BY <1>1, <1>2, <1>3, DialogsStay, NotAnswered DEF TuiInv
<1>4. ASSUME NEW input, Push([asks |-> "swarm", input |-> input]) PROVE DialogsInv' /\ AsAsked
  <2> DEFINE m == [asks |-> "swarm", input |-> input]
  <2>1. AboutSlots(m) /\ modals' = <<m>> \o modals
    BY <1>4 DEF Push, AboutSlots
  <2> HIDE DEF m
  <2>2. DialogsInv' /\ Len(modals') > Len(modals)
    BY <1>1, <1>2, <2>1, Pushed
  <2>3. Len(modals) \in Nat /\ Len(modals') \in Nat
    BY <1>2, <2>2 DEF DialogsInv
  <2> QED
    BY <2>2, <2>3, NotAnswered
<1>5. ASSUME Top("swarm"), Close PROVE DialogsInv' /\ AsAsked
  <2>1. Len(modals) > 0 /\ modals[1].asks = "swarm" /\ modals' = Tail(modals)
    BY <1>5 DEF Top, Close
  <2> QED
    BY <1>1, <1>2, <2>1, Closed DEF AsAsked
<1>6. \/ UNCHANGED modals
      \/ \E input : Push([asks |-> "swarm", input |-> input])
      \/ Top("swarm") /\ Close
  BY DEF SwarmNext, RunSwarm, ConfirmSwarm, DismissSwarm, CancelSwarm, SwarmThread,
         SwarmStarts, SwarmSettles, SwarmPolls, SwarmFails, dialogs
<1> QED
  BY <1>2, <1>3, <1>4, <1>5, <1>6 DEF TuiInv

\* A removed place leaves a queue.
LEMMA WithoutOne ==
    ASSUME NEW S, NEW q \in Seq(S), NEW i \in DOMAIN q
    PROVE  Without(q, i) \in Seq(S)
<1>1. i \in 1 .. Len(q) /\ Len(q) \in Nat
  OBVIOUS
<1>2. SubSeq(q, 1, i - 1) \in Seq(S) /\ SubSeq(q, i + 1, Len(q)) \in Seq(S)
  BY <1>1
<1> QED
  BY <1>2 DEF Without

\* The steps of the sessions screen: a confirmed deletion passes on the name of
\* its dialog, whatever rows were loaded meanwhile.
LEMMA SessionsStep ==
    ASSUME TuiInv, SessionsNext
    PROVE  TuiInv' /\ AsAsked
<1>1. UNCHANGED <<worker, token, setting>>
  BY DEF SessionsNext, slots
<1>2. SettingInv' /\ SlotsInv' /\ DialogsInv
  BY <1>1 DEF TuiInv, SettingInv, SlotsInv
<1>3. SUFFICES DialogsInv' /\ AsAsked
  BY <1>2 DEF TuiInv
<1>4. CASE UNCHANGED <<modals, deletes>>
  BY <1>2, <1>4, DialogsStay, NotAnswered
<1>5. ASSUME NEW row, AskDelete(row) PROVE DialogsInv' /\ AsAsked
  <2> DEFINE m == [asks |-> "delete", name |-> cache[row].name, row |-> row]
  <2>1. AboutSlots(m) /\ modals' = <<m>> \o modals /\ deletes' = deletes
    BY <1>5 DEF AskDelete, Push, AboutSlots
  <2> HIDE DEF m
  <2>2. DialogsInv' /\ Len(modals') > Len(modals)
    BY <1>2, <2>1, Pushed
  <2>3. Len(modals) \in Nat /\ Len(modals') \in Nat
    BY <1>2, <2>2 DEF DialogsInv
  <2> QED
    BY <2>2, <2>3, NotAnswered
<1>6. CASE ConfirmDelete
  <2>1. /\ Len(modals) > 0 /\ modals[1].asks = "delete" /\ modals' = Tail(modals)
        /\ deletes' = Append(deletes, modals[1].name)
    BY <1>6 DEF ConfirmDelete, Top, Close, NameAsked
  <2>2. DialogsInv'
    BY <1>2, <2>1, Closed
  <2>3. \A i \in DOMAIN deletes' \ DOMAIN deletes : deletes'[i] = modals[1].name
    <3>1. PICK D : deletes \in Seq(D)
      BY <1>2 DEF DialogsInv
    <3>2. DOMAIN deletes' = 1 .. Len(deletes) + 1 /\ DOMAIN deletes = 1 .. Len(deletes)
          /\ Len(deletes) \in Nat /\ deletes'[Len(deletes) + 1] = modals[1].name
      <4>1. deletes \in Seq(D \cup {modals[1].name}) /\ modals[1].name \in D \cup {modals[1].name}
        BY <3>1
      <4> QED
        BY <2>1, <4>1
    <3> QED
      BY <3>2
  <2> QED
    BY <2>1, <2>2, <2>3 DEF AsAsked
<1>7. CASE DismissDelete
  <2>1. /\ Len(modals) > 0 /\ modals[1].asks = "delete" /\ modals' = Tail(modals)
        /\ deletes' = deletes
    BY <1>7 DEF DismissDelete, Top, Close
  <2> QED
    BY <1>2, <2>1, Closed DEF AsAsked
<1>8. ASSUME NEW i \in DOMAIN deletes, DeleteSession(i) PROVE DialogsInv' /\ AsAsked
  <2>1. modals' = modals /\ deletes' = Without(deletes, i)
    BY <1>8 DEF DeleteSession, dialogs
  <2>2. \E D : deletes' \in Seq(D)
    BY <1>2, <1>8, <2>1, WithoutOne DEF DialogsInv
  <2>3. DialogsInv' /\ Len(modals) \in Nat
    BY <1>2, <2>1, <2>2 DEF DialogsInv
  <2> QED
    BY <2>1, <2>3, NotAnswered
<1>9. ASSUME OthersEdit \/ Refresh \/ \E i \in DOMAIN loads : ListSessions(i) \/ ShowRows(i)
      PROVE  UNCHANGED <<modals, deletes>>
  BY <1>9 DEF OthersEdit, Refresh, ListSessions, ShowRows, dialogs
<1> QED
  BY <1>4, <1>5, <1>6, <1>7, <1>8, <1>9 DEF SessionsNext

\* Taking the quotes off twice takes them off once.
LEMMA ParsedTwice == \A value : Parsed(Parsed(value)) = Parsed(value)
  BY DEF Parsed

\* The steps of the settings screen.
LEMMA SettingsStep ==
    ASSUME TuiInv, SettingsNext
    PROVE  TuiInv' /\ AsAsked
<1>1. UNCHANGED <<worker, token, modals, deletes>>
  BY DEF SettingsNext, slotVars, slots, dialogs, poolVars
<1>2. DialogsInv' /\ SlotsInv' /\ AsAsked
  BY <1>1, DialogsStay, NotAnswered DEF TuiInv, SlotsInv
<1>3. SettingInv
  BY DEF TuiInv
<1>4. SUFFICES SettingInv'
  BY <1>2 DEF TuiInv
<1>5. ASSUME NEW env, NEW file, Sets(env, file),
             setting.exported = Unset => Parsed(file) = Parsed(env)
      PROVE  SettingInv'
  <2>1. /\ DOMAIN setting' = DOMAIN setting /\ setting' = [f \in DOMAIN setting' |-> setting'[f]]
        /\ setting'.exported = setting.exported /\ setting'.env = env /\ setting'.file = file
    BY <1>3, <1>5 DEF SettingInv, Sets
  <2> QED
    BY <1>3, <1>5, <2>1 DEF SettingInv
<1>6. CASE TypeValue
  <2>1. /\ DOMAIN setting' = DOMAIN setting /\ setting' = [f \in DOMAIN setting' |-> setting'[f]]
        /\ setting'.exported = setting.exported /\ setting'.env = setting.env
        /\ setting'.file = setting.file
    BY <1>3, <1>6 DEF SettingInv, TypeValue
  <2> QED
    BY <1>3, <2>1 DEF SettingInv
<1>7. CASE ResetOverride
  <2> DEFINE file == IF setting.env = Unset THEN setting.file ELSE Unset
  <2>1. Sets(Unset, file)
    BY <1>7 DEF ResetOverride
  <2>2. setting.exported = Unset => Parsed(file) = Parsed(Unset)
    BY <1>3 DEF SettingInv
  <2> HIDE DEF file
  <2> QED
    BY <1>5, <2>1, <2>2
<1>8. CASE ApplyOverride
  <2>1. Sets(setting.env, setting.file) \/ Sets(setting.field, setting.field)
    BY <1>8 DEF ApplyOverride, Stored
  <2>2. setting.exported = Unset => Parsed(setting.file) = Parsed(setting.env)
    BY <1>3 DEF SettingInv
  <2> QED
    BY <1>5, <2>1, <2>2
<1>9. CASE Restart
  <2> DEFINE env == IF setting.exported = Unset THEN Parsed(setting.file) ELSE setting.exported
  <2>1. setting' = [setting EXCEPT !.env = env, !.field = Shown(env)]
    BY <1>9 DEF Restart
  <2>2. setting.exported = Unset => Parsed(setting.file) = Parsed(env)
    BY ParsedTwice
  <2> HIDE DEF env
  <2>3. /\ DOMAIN setting' = DOMAIN setting /\ setting' = [f \in DOMAIN setting' |-> setting'[f]]
        /\ setting'.exported = setting.exported /\ setting'.env = env
        /\ setting'.file = setting.file
    BY <1>3, <2>1 DEF SettingInv
  <2> QED
    BY <1>3, <2>2, <2>3 DEF SettingInv
<1> QED
  BY <1>6, <1>7, <1>8, <1>9 DEF SettingsNext

\* Every step keeps the invariant, and every answer is to what was asked.
LEMMA TuiKept == TuiInv /\ [TuiNext]_tuiVars => TuiInv' /\ AsAsked
<1> SUFFICES ASSUME TuiInv, [TuiNext]_tuiVars PROVE TuiInv' /\ AsAsked
  OBVIOUS
<1>1. ASSUME UNCHANGED <<worker, token, modals, deletes, setting>> PROVE TuiInv' /\ AsAsked
  BY <1>1, DialogsStay, NotAnswered DEF TuiInv, SlotsInv, SettingInv
<1>2. CASE UNCHANGED tuiVars
  BY <1>1, <1>2 DEF tuiVars, slotVars, slots, dialogs, poolVars
<1>3. CASE CheckNext
  BY <1>1, <1>3 DEF CheckNext, notCheck, slotVars, slots, dialogs, poolVars
<1> QED
  BY <1>2, <1>3, SlotsStep, SwarmStep, SessionsStep, SettingsStep DEF TuiNext

\* A slot's event is that of the run its worker is for, dialogs are answered
\* latest first, and the override file agrees with the environment
\* (_slot_cancel_events, _do_cancel_slot, _finalize_slot; the settings screen).
THEOREM TuiInvariant == TuiSpec => []TuiInv
  BY TuiStarts, TuiKept, PTL DEF TuiSpec

\* An answered dialog acts on what it asked about, whatever runs ended and
\* started in the slot, and whatever rows were loaded, while it was open: for
\* any number of slots, runs, dialogs and deletions.
THEOREM AnsweredAsAsked == TuiSpec => ConfirmedAsAsked
<1>1. TuiInv /\ [TuiNext]_tuiVars =>
          [Len(modals') < Len(modals) /\ open' =>
               LET m == modals[1]
               IN  /\ m.asks = "cancel" =>
                          /\ stopped' \ stopped \subseteq {m.run}
                          /\ \A s \in Slots : worker'[s] # worker[s] => worker[s] = m.run
                   /\ m.asks = "delete" =>
                          \A i \in DOMAIN deletes' \ DOMAIN deletes : deletes'[i] = m.name]_tuiVars
  BY TuiKept DEF AsAsked
<1> QED
  BY <1>1, TuiInvariant, PTL DEF TuiSpec, ConfirmedAsAsked

\* A restart finds the value the session ran with, without the quotes it may
\* have been typed with, unless the shell exports another (install_settings,
\* parse_settings, the settings screen).
THEOREM RestartKeepsSettings == TuiSpec => RestartAgrees
<1>1. TuiInv => [Restart /\ setting.exported = Unset =>
                    setting'.env = Parsed(setting.env)]_tuiVars
  <2> SUFFICES ASSUME TuiInv, Restart, setting.exported = Unset
               PROVE  setting'.env = Parsed(setting.env)
    OBVIOUS
  <2>1. setting'.env = Parsed(setting.file)
    BY DEF Restart, TuiInv, SettingInv
  <2> QED
    BY <2>1 DEF TuiInv, SettingInv
<1> QED
  BY <1>1, TuiInvariant, PTL DEF RestartAgrees

\* The generation of a slot counts cancellations, each of a run of its own; an
\* event belongs to a started run.
SlotsCount ==
    \A s \in Slots :
        /\ generation[s] + (IF worker[s] = NoRun THEN 0 ELSE 1) <= started
        /\ token[s] <= started

SlotsSound == SlotTypes /\ SlotsCount

\* The records of the runs keep their shape when one field is read anew.
LEMMA RunRead ==
    ASSUME SlotTypes, NEW r \in DOMAIN run, NEW f \in {"generation", "token"},
           NEW n \in 0 .. MaxRuns, run' = [run EXCEPT ![r] = [@ EXCEPT ![f] = n]]
    PROVE  /\ DOMAIN run' = 1 .. started
           /\ \A k \in DOMAIN run' :
                  run'[k] \in [slot : Slots, kind : Kinds, generation : 0 .. MaxRuns, token : 0 .. MaxRuns]
<1>1. \A k \in DOMAIN run :
          run[k] \in [slot : Slots, kind : Kinds, generation : 0 .. MaxRuns, token : 0 .. MaxRuns]
  BY DEF SlotTypes
<1>2. [run[r] EXCEPT ![f] = n] \in [slot : Slots, kind : Kinds, generation : 0 .. MaxRuns, token : 0 .. MaxRuns]
  BY <1>1
<1> QED
  BY <1>1, <1>2 DEF SlotTypes

\* A run's start.
LEMMA RunBegins ==
    ASSUME SlotsSound, NEW s \in Slots, NEW kind \in Kinds \cup {"none"}, BeginRun(s, kind)
    PROVE  SlotsSound'
<1>0. MaxRuns \in Nat /\ started \in 0 .. MaxRuns /\ started + 1 \in 1 .. MaxRuns /\ kind \in Kinds
  BY TuiSlotsAssumption DEF SlotsSound, SlotTypes, BeginRun
<1>1. started' = started + 1 /\ DOMAIN run' = 1 .. started'
  BY DEF BeginRun
<1>2. \A r \in DOMAIN run' :
          run'[r] \in [slot : Slots, kind : Kinds, generation : 0 .. MaxRuns, token : 0 .. MaxRuns]
  <2> SUFFICES ASSUME NEW r \in DOMAIN run'
               PROVE  run'[r] \in [slot : Slots, kind : Kinds, generation : 0 .. MaxRuns, token : 0 .. MaxRuns]
    OBVIOUS
  <2>1. CASE r = started + 1
    <3>1. run'[r] = [slot |-> s, kind |-> kind, generation |-> 0, token |-> NoRun]
      BY <1>0, <2>1 DEF BeginRun
    <3> QED
      BY <1>0, <3>1 DEF NoRun
  <2>2. CASE r # started + 1
    <3>1. r \in 1 .. started
      BY <1>0, <1>1, <2>2
    <3>2. run'[r] = run[r]
      BY <1>1, <2>2 DEF BeginRun
    <3> QED
      BY <3>1, <3>2 DEF SlotsSound, SlotTypes
  <2> QED
    BY <2>1, <2>2
<1>3. /\ at' \in [Runs -> {"none", "new", "half", "ready", "working", "returned", "over"}]
      /\ worker' \in [Slots -> 0 .. MaxRuns] /\ token' \in [Slots -> 0 .. MaxRuns]
      /\ badge' \in [Slots -> {"IDLE", "RUNNING", "CANCELLED", "SUCCESS", "FAILED"}]
      /\ UNCHANGED <<generation, index, open>>
  BY <1>0 DEF BeginRun, SlotsSound, SlotTypes, Runs, dialogs
<1>4. /\ aged' \subseteq 1 .. started' /\ stopped' \subseteq 1 .. started'
      /\ started' \in 0 .. MaxRuns
  BY <1>0, <1>1 DEF BeginRun, SlotsSound, SlotTypes
<1>5. SlotsCount'
  <2> SUFFICES ASSUME NEW z \in Slots
               PROVE  /\ generation[z] + (IF worker'[z] = NoRun THEN 0 ELSE 1) <= started + 1
                      /\ token'[z] <= started + 1
    BY <1>1, <1>3 DEF SlotsCount
  <2>1. /\ generation[z] \in Nat /\ token[z] <= started /\ worker[s] = NoRun
        /\ generation[z] + (IF worker[z] = NoRun THEN 0 ELSE 1) <= started
        /\ token[z] \in Nat
    BY <1>0 DEF SlotsSound, SlotTypes, SlotsCount, BeginRun
  <2>2. /\ worker' = [worker EXCEPT ![s] = started + 1]
        /\ token' = [token EXCEPT ![s] = started + 1]
        /\ DOMAIN worker = Slots /\ DOMAIN token = Slots
    BY DEF BeginRun, SlotsSound, SlotTypes
  <2>3. CASE z = s
    BY <1>0, <2>1, <2>2, <2>3
  <2>4. CASE z # s
    BY <1>0, <2>1, <2>2, <2>4
  <2> QED
    BY <2>3, <2>4
<1> QED
  BY <1>1, <1>2, <1>3, <1>4, <1>5 DEF SlotsSound, SlotTypes

\* A cancellation of some slots.
LEMMA CancelTypes ==
    ASSUME SlotsSound, NEW S \in SUBSET Slots, DoCancel(S),
           UNCHANGED <<started, run, aged, index>>, open' \in BOOLEAN
    PROVE  SlotsSound'
<1> DEFINE hit == {s \in S : worker[s] # NoRun}
<1>0. MaxRuns \in Nat /\ started \in 0 .. MaxRuns
  BY TuiSlotsAssumption DEF SlotsSound, SlotTypes
<1>1. /\ generation' = [s \in Slots |-> IF s \in hit THEN generation[s] + 1 ELSE generation[s]]
      /\ stopped' = stopped \cup UNION {Reached(s) : s \in hit}
      /\ worker' = [s \in Slots |-> IF s \in hit THEN NoRun ELSE worker[s]]
      /\ token' = [s \in Slots |-> IF s \in hit THEN NoRun ELSE token[s]]
      /\ badge' = [s \in Slots |-> IF s \in hit THEN "CANCELLED" ELSE badge[s]]
      /\ at' \in [Runs -> {"none", "new", "half", "ready", "working", "returned", "over"}]
  BY DEF DoCancel, SlotsSound, SlotTypes
<1>2. \A s \in hit : s \in Slots /\ worker[s] # NoRun
  OBVIOUS
<1>3. \A s \in Slots : worker[s] = NoRun => s \notin hit
  OBVIOUS
<1> HIDE DEF hit
<1>4. \A s \in Slots :
          /\ generation[s] \in Nat /\ generation[s] <= started /\ worker[s] \in 0 .. MaxRuns
          /\ token[s] \in 0 .. MaxRuns /\ token[s] <= started
          /\ worker[s] # NoRun => generation[s] + 1 <= started
  BY <1>0 DEF SlotsSound, SlotTypes, SlotsCount
<1>5. stopped' \subseteq DOMAIN run
  <2>1. \A s \in hit : Reached(s) \subseteq 1 .. started
    BY <1>0, <1>2, <1>4 DEF Reached, NoRun
  <2> QED
    BY <1>1, <2>1 DEF SlotsSound, SlotTypes
<1>6. \A s \in Slots : generation'[s] \in 0 .. started /\ token'[s] \in 0 .. started
  BY <1>0, <1>1, <1>2, <1>4 DEF NoRun
<1>7. SlotsCount'
  <2> SUFFICES ASSUME NEW s \in Slots
               PROVE  generation'[s] + (IF worker'[s] = NoRun THEN 0 ELSE 1) <= started
    BY <1>0, <1>6 DEF SlotsCount
  <2>1. CASE s \in hit
    BY <1>0, <1>1, <1>2, <1>4, <2>1 DEF NoRun
  <2>2. CASE s \notin hit
    BY <1>0, <1>1, <2>2 DEF SlotsSound, SlotsCount
  <2> QED
    BY <2>1, <2>2
<1>8. /\ generation' \in [Slots -> 0 .. MaxRuns] /\ worker' \in [Slots -> 0 .. MaxRuns]
      /\ token' \in [Slots -> 0 .. MaxRuns]
      /\ badge' \in [Slots -> {"IDLE", "RUNNING", "CANCELLED", "SUCCESS", "FAILED"}]
  BY <1>0, <1>1, <1>4, <1>6 DEF NoRun, SlotsSound, SlotTypes
<1> QED
  BY <1>1, <1>5, <1>7, <1>8 DEF SlotsSound, SlotTypes

\* The steps of a run's thread.
LEMMA ThreadTypes ==
    ASSUME SlotsSound, NEW r \in DOMAIN run, RunThread(r) \/ Age(r)
    PROVE  SlotsSound'
<1>0. /\ MaxRuns \in Nat /\ started \in 0 .. MaxRuns /\ r \in Runs
      /\ run[r].slot \in Slots /\ run[r].token \in 0 .. MaxRuns
      /\ token[run[r].slot] \in 0 .. MaxRuns /\ generation[run[r].slot] \in 0 .. MaxRuns
      /\ SlotTypes
  <2>1. /\ MaxRuns \in Nat /\ started \in 0 .. MaxRuns /\ DOMAIN run = 1 .. started
        /\ token \in [Slots -> 0 .. MaxRuns] /\ generation \in [Slots -> 0 .. MaxRuns] /\ SlotTypes
    BY TuiSlotsAssumption DEF SlotsSound, SlotTypes
  <2>2. run[r] \in [slot : Slots, kind : Kinds, generation : 0 .. MaxRuns, token : 0 .. MaxRuns]
    BY DEF SlotsSound, SlotTypes
  <2>3. r \in Runs
    BY <2>1 DEF Runs
  <2>4. run[r].slot \in Slots /\ run[r].token \in 0 .. MaxRuns
    BY <2>2
  <2> QED
    BY <2>1, <2>3, <2>4
<1>1. CASE FirstRead(r) \/ SecondRead(r)
  <2>1. /\ UNCHANGED <<started, aged, stopped, index, worker, generation, token, badge, open>>
        /\ at' \in [Runs -> {"none", "new", "half", "ready", "working", "returned", "over"}]
    BY <1>1 DEF FirstRead, SecondRead, Thread, slots, dialogs, SlotsSound, SlotTypes
  <2>2. UNCHANGED run \/ ReadsToken(r) \/ ReadsGeneration(r)
    BY <1>1 DEF FirstRead, SecondRead
  <2>3. /\ DOMAIN run' = 1 .. started
        /\ \A k \in DOMAIN run' :
               run'[k] \in [slot : Slots, kind : Kinds, generation : 0 .. MaxRuns, token : 0 .. MaxRuns]
    <3>1. CASE UNCHANGED run
      BY <3>1 DEF SlotsSound, SlotTypes
    <3>2. CASE ReadsToken(r)
      <4>1. run' = [run EXCEPT ![r] = [@ EXCEPT !["token"] = token[run[r].slot]]]
        BY <3>2 DEF ReadsToken
      <4> QED
        BY <1>0, <4>1, RunRead
    <3>3. CASE ReadsGeneration(r)
      <4>1. run' = [run EXCEPT ![r] = [@ EXCEPT !["generation"] = generation[run[r].slot]]]
        BY <3>3 DEF ReadsGeneration
      <4> QED
        BY <1>0, <4>1, RunRead
    <3> QED
      BY <2>2, <3>1, <3>2, <3>3
  <2> QED
    BY <2>1, <2>3 DEF SlotsSound, SlotTypes, SlotsCount
<1>2. CASE Execute(r) \/ Return(r)
  <2>1. /\ UNCHANGED <<started, run, aged, stopped, worker, generation, token, badge, open>>
        /\ at' \in [Runs -> {"none", "new", "half", "ready", "working", "returned", "over"}]
    BY <1>2 DEF Execute, Return, Thread, slots, dialogs, SlotsSound, SlotTypes
  <2>2. index' \in [Runs -> 0 .. MaxRuns]
    <3>1. r \in 0 .. MaxRuns /\ NoRun \in 0 .. MaxRuns /\ index \in [Runs -> 0 .. MaxRuns]
      BY <1>0 DEF Runs, NoRun, SlotTypes
    <3> QED
      BY <1>2, <3>1 DEF Execute, Return
  <2> QED
    BY <2>1, <2>2 DEF SlotsSound, SlotTypes, SlotsCount
<1>3. CASE Finalize(r)
  <2>1. /\ UNCHANGED <<started, run, aged, stopped, index, generation, open>>
        /\ at' \in [Runs -> {"none", "new", "half", "ready", "working", "returned", "over"}]
    BY <1>3 DEF Finalize, Thread, dialogs, SlotsSound, SlotTypes
  <2>2. \/ UNCHANGED <<worker, token, badge>>
        \/ \E s \in Slots, status \in {"SUCCESS", "FAILED"} :
               /\ worker' = [worker EXCEPT ![s] = NoRun] /\ token' = [token EXCEPT ![s] = NoRun]
               /\ badge' = [badge EXCEPT ![s] = status]
    BY <1>0, <1>3 DEF Finalize
  <2>3. /\ worker' \in [Slots -> 0 .. MaxRuns] /\ token' \in [Slots -> 0 .. MaxRuns]
        /\ badge' \in [Slots -> {"IDLE", "RUNNING", "CANCELLED", "SUCCESS", "FAILED"}]
        /\ \A s \in Slots : /\ worker'[s] = worker[s] \/ worker'[s] = NoRun
                            /\ token'[s] = token[s] \/ token'[s] = NoRun
    <3>1. NoRun \in 0 .. MaxRuns
      BY <1>0 DEF NoRun
    <3>2. /\ worker \in [Slots -> 0 .. MaxRuns] /\ token \in [Slots -> 0 .. MaxRuns]
          /\ badge \in [Slots -> {"IDLE", "RUNNING", "CANCELLED", "SUCCESS", "FAILED"}]
      BY DEF SlotsSound, SlotTypes
    <3>3. CASE UNCHANGED <<worker, token, badge>>
      BY <3>2, <3>3
    <3>4. ASSUME NEW s \in Slots, NEW status \in {"SUCCESS", "FAILED"},
                 worker' = [worker EXCEPT ![s] = NoRun], token' = [token EXCEPT ![s] = NoRun],
                 badge' = [badge EXCEPT ![s] = status]
          PROVE  /\ worker' \in [Slots -> 0 .. MaxRuns] /\ token' \in [Slots -> 0 .. MaxRuns]
                 /\ badge' \in [Slots -> {"IDLE", "RUNNING", "CANCELLED", "SUCCESS", "FAILED"}]
                 /\ \A z \in Slots : /\ worker'[z] = worker[z] \/ worker'[z] = NoRun
                                     /\ token'[z] = token[z] \/ token'[z] = NoRun
      BY <3>1, <3>2, <3>4
    <3> QED
      BY <2>2, <3>3, <3>4
  <2>4. SlotsCount'
    <3> SUFFICES ASSUME NEW s \in Slots
                 PROVE  /\ generation[s] + (IF worker'[s] = NoRun THEN 0 ELSE 1) <= started
                        /\ token'[s] <= started
      BY <2>1 DEF SlotsCount
    <3>1. /\ generation[s] \in Nat /\ token[s] <= started
          /\ generation[s] + (IF worker[s] = NoRun THEN 0 ELSE 1) <= started
      BY <1>0 DEF SlotsSound, SlotTypes, SlotsCount
    <3> QED
      BY <1>0, <2>3, <3>1 DEF NoRun
  <2> QED
    BY <2>1, <2>3, <2>4 DEF SlotsSound, SlotTypes
<1>4. CASE Age(r)
  BY <1>4 DEF Age, slots, dialogs, SlotsSound, SlotTypes, SlotsCount
<1> QED
  BY <1>1, <1>2, <1>3, <1>4 DEF RunThread

\* Every step keeps the types.
LEMMA SlotsStayTyped == TuiInv /\ SlotsSound /\ [TuiNext]_tuiVars => SlotsSound'
<1> SUFFICES ASSUME TuiInv, SlotsSound, [TuiNext]_tuiVars PROVE SlotsSound'
  OBVIOUS
<1>0. open \in BOOLEAN
  BY DEF SlotsSound, SlotTypes
<1>1. ASSUME UNCHANGED <<started, threads, stopped, index, slots>>, open' \in BOOLEAN PROVE SlotsSound'
  BY <1>1 DEF threads, slots, SlotsSound, SlotTypes, SlotsCount
<1>2. CASE ~SlotsScreen
  <2>1. UNCHANGED <<started, threads, stopped, index, slots>>
    BY <1>2 DEF TuiNext, tuiVars, slotVars, CheckNext, notCheck, SwarmNext, notSwarm, SessionsNext, SettingsNext
  <2>2. open' = open
    BY <1>2 DEF TuiNext, tuiVars, slotVars, dialogs, CheckNext, notCheck, SettingsNext,
                SwarmNext, RunSwarm, ConfirmSwarm, DismissSwarm, CancelSwarm,
                SwarmThread, SwarmStarts, SwarmSettles, SwarmPolls, SwarmFails, SessionsNext, OthersEdit, Refresh, ConfirmDelete,
                DismissDelete, ListSessions, ShowRows, DeleteSession, AskDelete
  <2> QED
    BY <1>0, <1>1, <2>1, <2>2
<1>3. CASE SlotNext
  <2>1. ASSUME NEW s \in Slots, RunSlot(s) \/ SendComposer(s) PROVE SlotsSound'
    <3>1. PICK in \in Held : BeginRun(s, RunKind(in)) \/ BeginRun(s, SendKind(in))
      BY <2>1 DEF RunSlot, SendComposer
    <3>2. RunKind(in) \in Kinds \cup {"none"} /\ SendKind(in) \in Kinds \cup {"none"}
      BY <3>1 DEF RunKind, SendKind, Held, Inputs, Kinds
    <3> QED
      BY <3>1, <3>2, RunBegins
  <2>2. ASSUME NEW s \in Slots, CancelSlot(s) PROVE SlotsSound'
    <3>1. CASE worker[s] \in aged
      BY <1>0, <1>1, <2>2, <3>1 DEF CancelSlot, threads
    <3>2. CASE worker[s] \notin aged
      BY <1>0, <2>2, <3>2, CancelTypes DEF CancelSlot
    <3> QED
      BY <3>1, <3>2
  <2>3. CASE ConfirmCancel
    <3>1. CASE StillMeant(modals[1])
      <4>1. modals[1].slot \in Slots
        <5>1. PICK S : modals \in Seq(S)
          BY DEF TuiInv, DialogsInv
        <5>2. 1 \in DOMAIN modals /\ modals[1].asks = "cancel"
          BY <2>3, <5>1 DEF ConfirmCancel, Top
        <5> QED
          BY <5>2 DEF TuiInv, DialogsInv, AboutSlots
      <4> QED
        BY <1>0, <2>3, <3>1, <4>1, CancelTypes DEF ConfirmCancel
    <3>2. CASE ~StillMeant(modals[1])
      BY <1>0, <1>1, <2>3, <3>2 DEF ConfirmCancel, threads
    <3> QED
      BY <3>1, <3>2
  <2>4. CASE RequestQuit
    BY <1>0, <1>1, <2>4 DEF RequestQuit
  <2>5. CASE ConfirmQuit
    <3> DEFINE S == {s \in modals[1].slots : worker[s] \notin aged}
    <3>1. modals[1].slots \subseteq Slots
      <4>1. PICK D : modals \in Seq(D)
        BY DEF TuiInv, DialogsInv
      <4>2. 1 \in DOMAIN modals /\ modals[1].asks = "quit"
        BY <2>5, <4>1 DEF ConfirmQuit, Top
      <4> QED
        BY <4>2 DEF TuiInv, DialogsInv, AboutSlots
    <3>2. S \in SUBSET Slots /\ DoCancel(S) /\ UNCHANGED <<started, run, aged, index>> /\ ~open'
      BY <2>5, <3>1 DEF ConfirmQuit
    <3>3. open' \in BOOLEAN
      BY <2>5 DEF ConfirmQuit
    <3> HIDE DEF S
    <3> QED
      BY <3>2, <3>3, CancelTypes
  <2> QED
    BY <1>3, <2>1, <2>2, <2>3, <2>4, <2>5, ThreadTypes DEF SlotNext
<1>4. CASE DismissSlot
  BY <1>0, <1>1, <1>4 DEF DismissSlot
<1> QED
  BY <1>2, <1>3, <1>4 DEF SlotsScreen

\* What the slots of the interface hold has the types of its code, however its
\* runs and dialogs interleave; a generation never exceeds the runs started
\* (_slot_workers, _slot_generation, _slot_cancel_events).
THEOREM SlotsTyped == TuiSpec => []SlotTypes
<1>1. TuiInit => SlotsSound
  <2> SUFFICES ASSUME TuiInit PROVE SlotsSound
    OBVIOUS
  <2>1. MaxRuns \in Nat \ {0}
    BY TuiSlotsAssumption
  <2>2. /\ started = 0 /\ DOMAIN run = 1 .. started /\ DOMAIN run = {} /\ aged = {} /\ stopped = {}
        /\ open = TRUE
    BY DEF TuiInit, SlotInit
  <2>3. /\ at \in [Runs -> {"none", "new", "half", "ready", "working", "returned", "over"}]
        /\ worker \in [Slots -> 0 .. MaxRuns] /\ token \in [Slots -> 0 .. MaxRuns]
        /\ generation \in [Slots -> 0 .. MaxRuns]
        /\ badge \in [Slots -> {"IDLE", "RUNNING", "CANCELLED", "SUCCESS", "FAILED"}]
        /\ index \in [Runs -> 0 .. MaxRuns]
    BY <2>1 DEF TuiInit, SlotInit, NoRun
  <2>4. SlotsCount
    BY <2>1 DEF TuiInit, SlotInit, SlotsCount, NoRun
  <2> QED
    BY <2>1, <2>2, <2>3, <2>4 DEF SlotsSound, SlotTypes
<1>2. SlotsSound => SlotTypes
  BY DEF SlotsSound
<1> QED
  BY <1>1, <1>2, SlotsStayTyped, TuiInvariant, PTL DEF TuiSpec
=============================================================================
