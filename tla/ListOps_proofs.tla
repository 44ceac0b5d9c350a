--------------------------- MODULE ListOps_proofs ---------------------------
(***************************************************************************)
(* What the list operators do to the items of a list without duplicates,   *)
(* which is what every list of the container tree is, and the least        *)
(* position the searches of the seat stop at.  From the least position     *)
(* follow induction over the positions of a list, for a set of positions,  *)
(* and with it the existence of functions that are defined by recursion,   *)
(* such as the running sum of arrange_tree_children and the loops over the *)
(* array behind a list.  The last part shows that the operations on that   *)
(* array do to the contents of a list what ListOps says.                   *)
(***************************************************************************)
EXTENDS EList, SequenceTheorems, WellFoundedInduction, TLAPS

\* A set of positions that is not empty has a least one.
LEMMA LeastOf ==
    ASSUME NEW T \in SUBSET Nat, T # {}
    PROVE  \E x \in T : \A y \in T : x <= y
  <1> DEFINE R == OpToRel(<, Nat)
  <1>1. IsWellFoundedOn(R, Nat)
    BY NatLessThanWellFounded, Zenon
  <1>2. PICK x \in T : \A y \in T : <<y, x>> \notin R
    <2> HIDE DEF R
    <2> QED
      BY <1>1, WFMin
  <1>3. \A y \in T : ~(y < x)
    BY <1>2 DEF OpToRel
  <1> QED
    BY <1>3

\* A set of positions that holds 0 and with each position the next holds all.
LEMMA UpTo ==
    ASSUME NEW n \in Nat, NEW T, 0 \in T, \A k \in 1..n : k - 1 \in T => k \in T
    PROVE  0..n \subseteq T
  <1> SUFFICES ASSUME (0..n) \ T # {}
               PROVE  FALSE
    OBVIOUS
  <1>1. PICK k \in (0..n) \ T : \A y \in (0..n) \ T : k <= y
    <2> (0..n) \ T \in SUBSET Nat
      OBVIOUS
    <2> QED
      BY LeastOf
  <1>2. k \in 1..n /\ k - 1 \in 0..n
    BY <1>1
  <1>3. k - 1 \in T
    BY <1>1, <1>2
  <1> QED
    BY <1>1, <1>2, <1>3

\* f follows from its value at 0 and what step makes of k and the value before it.
FollowsUpTo(f, S, base, step, n) ==
    /\ f \in [0..n -> S]
    /\ f[0] = base
    /\ \A k \in 1..n : f[k] = step[<<k, f[k - 1]>>]

FollowsOnNat(f, S, base, step) ==
    /\ f \in [Nat -> S]
    /\ f[0] = base
    /\ \A k \in Nat \ {0} : f[k] = step[<<k, f[k - 1]>>]

\* A function is defined by its value at 0 and by what each value makes of the one
\* before it.
LEMMA RecursionUpTo ==
    ASSUME NEW S, NEW base \in S, NEW step \in [Nat \X S -> S], NEW n \in Nat
    PROVE  \E f : FollowsUpTo(f, S, base, step, n)
  <1> DEFINE Good(m, f) == FollowsUpTo(f, S, base, step, m)
             T == {m \in 0..n : \E f : Good(m, f)}
  <1>1. 0 \in T
    <2>1. Good(0, [k \in 0..0 |-> base])
      BY DEF FollowsUpTo
    <2>2. \E f : Good(0, f)
      BY <2>1, Zenon
    <2> QED
      BY <2>2
  <1>2. ASSUME NEW m \in 1..n, m - 1 \in T PROVE m \in T
    <2>1. PICK f : Good(m - 1, f)
      BY <1>2
    <2> DEFINE g == [k \in 0..m |-> IF k = m THEN step[<<m, f[m - 1]>>] ELSE f[k]]
    <2>2. m - 1 \in 0..(m - 1) /\ f[m - 1] \in S /\ <<m, f[m - 1]>> \in Nat \X S
      BY <2>1 DEF FollowsUpTo
    <2>3. g \in [0..m -> S] /\ g[0] = base
      BY <2>1, <2>2 DEF FollowsUpTo
    <2>4. \A k \in 0..(m - 1) : g[k] = f[k]
      OBVIOUS
    <2>5. g[m] = step[<<m, f[m - 1]>>]
      OBVIOUS
    <2> HIDE DEF g
    <2>6. ASSUME NEW k \in 1..m PROVE g[k] = step[<<k, g[k - 1]>>]
      <3>1. k - 1 \in 0..(m - 1) /\ (k = m \/ k \in 1..(m - 1))
        OBVIOUS
      <3> QED
        BY <3>1, <2>1, <2>4, <2>5 DEF FollowsUpTo
    <2>7. \E h : Good(m, h)
      BY <2>3, <2>6 DEF FollowsUpTo
    <2> QED
      BY <2>7
  <1> HIDE DEF T
  <1>3. n \in T
    BY <1>1, <1>2, UpTo
  <1> QED
    BY <1>3 DEF T

\* The functions for all n are one function.
LEMMA Recursion ==
    ASSUME NEW S, NEW base \in S, NEW step \in [Nat \X S -> S]
    PROVE  \E f : FollowsOnNat(f, S, base, step)
  <1> DEFINE Good(m, f) == FollowsUpTo(f, S, base, step, m)
             part == [m \in Nat |-> CHOOSE f : Good(m, f)]
             whole == [m \in Nat |-> part[m][m]]
  <1>1. ASSUME NEW m \in Nat PROVE Good(m, part[m])
    <2>1. \E f : Good(m, f)
      BY RecursionUpTo
    <2>2. part[m] = CHOOSE f : Good(m, f)
      BY Zenon
    <2> HIDE DEF Good
    <2> QED
      BY <2>1, <2>2, Zenon
  <1> HIDE DEF part
  <1>2. ASSUME NEW m \in Nat \ {0} PROVE part[m][m - 1] = part[m - 1][m - 1]
    <2> DEFINE T == {j \in 0..(m - 1) : part[m][j] = part[m - 1][j]}
    <2>1. Good(m, part[m]) /\ Good(m - 1, part[m - 1])
      BY <1>1
    <2>2. 0 \in T
      BY <2>1 DEF FollowsUpTo
    <2>3. ASSUME NEW j \in 1..(m - 1), j - 1 \in T PROVE j \in T
      <3>1. j \in 1..m /\ part[m][j - 1] = part[m - 1][j - 1]
        BY <2>3
      <3>2. part[m][j] = step[<<j, part[m][j - 1]>>]
        BY <2>1, <3>1 DEF FollowsUpTo
      <3>3. part[m - 1][j] = step[<<j, part[m - 1][j - 1]>>]
        BY <2>1 DEF FollowsUpTo
      <3> QED
        BY <3>1, <3>2, <3>3
    <2> HIDE DEF T
    <2>4. m - 1 \in T
      BY <2>2, <2>3, UpTo
    <2> QED
      BY <2>4 DEF T
  <1>3. whole \in [Nat -> S]
    <2>1. ASSUME NEW m \in Nat PROVE part[m][m] \in S
      <3>1. part[m] \in [0..m -> S] /\ m \in 0..m
        BY <1>1 DEF FollowsUpTo
      <3> QED
        BY <3>1
    <2> QED
      BY <2>1
  <1>4. whole[0] = base
    BY <1>1 DEF FollowsUpTo
  <1>5. ASSUME NEW k \in Nat \ {0} PROVE whole[k] = step[<<k, whole[k - 1]>>]
    <2>1. Good(k, part[k]) /\ k \in 1..k /\ k - 1 \in Nat
      BY <1>1
    <2>2. part[k][k] = step[<<k, part[k][k - 1]>>]
      BY <2>1 DEF FollowsUpTo
    <2> QED
      BY <1>2, <2>1, <2>2
  <1> HIDE DEF whole
  <1> QED
    BY <1>3, <1>4, <1>5 DEF FollowsOnNat

\* Appending an item (e_list_add) adds it to the items of the list, and keeps the
\* list free of duplicates if it is new.
LEMMA AppendItems ==
    ASSUME NEW S, NEW s \in Seq(S), NEW x \in S
    PROVE  /\ Append(s, x) \in Seq(S)
           /\ Items(Append(s, x)) = Items(s) \cup {x}
           /\ NoDuplicates(s) /\ x \notin Items(s) => NoDuplicates(Append(s, x))
  <1> DEFINE n == Len(s)
  <1>1. /\ DOMAIN s = 1..n /\ n \in Nat
        /\ DOMAIN Append(s, x) = 1..(n + 1)
        /\ \A i \in 1..n : Append(s, x)[i] = s[i]
        /\ Append(s, x)[n + 1] = x
    OBVIOUS
  <1>2. Items(Append(s, x)) = Items(s) \cup {x}
    <2> HIDE DEF n
    <2>1. ASSUME NEW y \in Items(Append(s, x)) PROVE y \in Items(s) \cup {x}
      BY <1>1, <2>1 DEF Items
    <2>2. ASSUME NEW y \in Items(s) \cup {x} PROVE y \in Items(Append(s, x))
      BY <1>1, <2>2 DEF Items
    <2> QED
      BY <2>1, <2>2
  <1>3. NoDuplicates(s) /\ x \notin Items(s) => NoDuplicates(Append(s, x))
    <2> HIDE DEF n
    <2> QED
      BY <1>1 DEF NoDuplicates, Items
  <1> QED
    BY <1>2, <1>3

\* In a list without duplicates e_list_find_index finds the one position of x.
LEMMA FindPosition ==
    ASSUME NEW S, NEW s \in Seq(S), NoDuplicates(s), NEW x
    PROVE  /\ ListFind(s, x) = 0 <=> x \notin Items(s)
           /\ x \in Items(s) => ListFind(s, x) \in DOMAIN s /\ s[ListFind(s, x)] = x
  <1>1. CASE x \in Items(s)
    <2>1. PICK i \in DOMAIN s : s[i] = x
      BY <1>1 DEF Items
    <2>2. \A j \in 1..(i - 1) : s[j] # x
      BY <2>1 DEF NoDuplicates
    <2>3. ListFind(s, x) \in DOMAIN s /\ s[ListFind(s, x)] = x
      BY <1>1, <2>1, <2>2 DEF ListFind
    <2> QED
      BY <1>1, <2>3
  <1>2. CASE x \notin Items(s)
    BY <1>2 DEF ListFind
  <1> QED
    BY <1>1, <1>2

\* Removing an item (e_list_remove) takes it, and nothing else, out of a list
\* without duplicates, which stays free of duplicates.
LEMMA RemoveItems ==
    ASSUME NEW S, NEW s \in Seq(S), NoDuplicates(s), NEW x
    PROVE  /\ ListRemove(s, x) \in Seq(S)
           /\ Items(ListRemove(s, x)) = Items(s) \ {x}
           /\ NoDuplicates(ListRemove(s, x))
  <1>1. CASE x \notin Items(s)
    BY <1>1, FindPosition DEF ListRemove
  <1>2. CASE x \in Items(s)
    <2> DEFINE k == ListFind(s, x)
               n == Len(s)
               r == ListRemove(s, x)
    <2>1. /\ k \in 1..n /\ s[k] = x /\ n \in Nat
          /\ DOMAIN s = 1..n
      BY <1>2, FindPosition
    <2>2. r = [i \in 1..(n - 1) |-> IF i < k THEN s[i] ELSE s[i + 1]]
      BY <2>1 DEF ListRemove, ListRemoveAt
    <2> HIDE DEF k, n, r
    <2>3. n - 1 \in Nat /\ DOMAIN r = 1..(n - 1)
      BY <2>1, <2>2
    <2>4. \A i \in 1..(n - 1) : r[i] \in S
      BY <2>1, <2>2
    <2>5. r \in Seq(S)
      BY <2>2, <2>3, <2>4
    <2>6. \A i \in 1..(n - 1) : r[i] = IF i < k THEN s[i] ELSE s[i + 1]
      BY <2>2
    <2>7. \A i \in 1..n : i # k => s[i] # x
      BY <2>1 DEF NoDuplicates
    <2>8. ASSUME NEW y \in Items(r) PROVE y \in Items(s) \ {x}
      <3>1. PICK i \in 1..(n - 1) : r[i] = y
        BY <2>3 DEF Items
      <3> QED
        BY <3>1, <2>1, <2>6, <2>7 DEF Items
    <2>9. ASSUME NEW y \in Items(s) \ {x} PROVE y \in Items(r)
      <3>1. PICK i \in 1..n : s[i] = y
        BY <2>1 DEF Items
      <3>2. i # k
        BY <3>1, <2>1
      <3>3. CASE i < k
        BY <3>1, <3>3, <2>1, <2>3, <2>6 DEF Items
      <3>4. CASE i > k
        <4>1. i - 1 \in 1..(n - 1) /\ r[i - 1] = y
          BY <3>1, <3>4, <2>1, <2>6
        <4> QED
          BY <4>1, <2>3 DEF Items
      <3> QED
        BY <3>2, <3>3, <3>4, <2>1
    <2>10. NoDuplicates(r)
      <3> SUFFICES ASSUME NEW i \in 1..(n - 1), NEW j \in 1..(n - 1), r[i] = r[j]
                   PROVE  i = j
        BY <2>3 DEF NoDuplicates
      <3>1. \A p, q \in 1..n : s[p] = s[q] => p = q
        BY <2>1 DEF NoDuplicates
      <3>2. PICK p \in 1..n : p = (IF i < k THEN i ELSE i + 1) /\ r[i] = s[p]
        BY <2>1, <2>6
      <3>3. PICK q \in 1..n : q = (IF j < k THEN j ELSE j + 1) /\ r[j] = s[q]
        BY <2>1, <2>6
      <3>4. p = q
        BY <3>1, <3>2, <3>3
      <3> QED
        BY <3>2, <3>3, <3>4, <2>1
    <2> QED
      BY <2>5, <2>8, <2>9, <2>10 DEF r
  <1> QED
    BY <1>1, <1>2

-----------------------------------------------------------------------------
(***************************************************************************)
(* The array behind a list                                                 *)
(***************************************************************************)

\* The slots behind index moved by one to the right, up to that of count, and those behind
\* index moved by one to the left, up to the last item.
MovedRight(items, capacity, count, index) ==
    [i \in 0..(capacity - 1) |->
        IF index < i /\ i <= count THEN items[i - 1] ELSE items[i]]

MovedLeft(items, capacity, count, index) ==
    [i \in 0..(capacity - 1) |->
        IF index <= i /\ i < count - 1 THEN items[i + 1] ELSE items[i]]

\* The loop of e_list_insert, which is defined by its steps, moves the items from index on.
LEMMA ShiftedRightMoves ==
    ASSUME NEW V, NEW capacity \in Nat, NEW items \in [0..(capacity - 1) -> V],
           NEW count \in Nat, count < capacity, NEW index \in 0..count
    PROVE  ShiftedRight(items, count, index) = MovedRight(items, capacity, count, index)
  <1> DEFINE n == count - index
             Slots == [0..(capacity - 1) -> V]
             moved(k) == [i \in 0..(capacity - 1) |->
                             IF count - k < i /\ i <= count THEN items[i - 1] ELSE items[i]]
             step == [p \in Nat \X Slots |->
                         IF p[1] \in 1..n
                         THEN [p[2] EXCEPT ![count - p[1] + 1] = p[2][count - p[1]]]
                         ELSE p[2]]
             after == CHOOSE f : f = [k \in 0..n |->
                         IF k = 0 THEN items
                         ELSE [f[k - 1] EXCEPT ![count - k + 1] = f[k - 1][count - k]]]
  <1>1. n \in Nat /\ items \in Slots
    OBVIOUS
  <1>2. step \in [Nat \X Slots -> Slots]
    <2>1. ASSUME NEW k \in 1..n, NEW g \in Slots
          PROVE  [g EXCEPT ![count - k + 1] = g[count - k]] \in Slots
      <3>1. count - k \in 0..(capacity - 1)
        OBVIOUS
      <3>2. g[count - k] \in V
        BY <3>1
      <3> QED
        BY <3>2
    <2>2. ASSUME NEW p \in Nat \X Slots
          PROVE  (IF p[1] \in 1..n
                  THEN [p[2] EXCEPT ![count - p[1] + 1] = p[2][count - p[1]]]
                  ELSE p[2]) \in Slots
      <3>1. p[1] \in Nat /\ p[2] \in Slots
        OBVIOUS
      <3> HIDE DEF n, Slots
      <3> QED
        BY <2>1, <3>1
    <2> HIDE DEF n, Slots
    <2> QED
      BY <2>2
  <1>3. PICK f : FollowsUpTo(f, Slots, items, step, n)
    <2> HIDE DEF step, n, Slots
    <2> QED
      BY <1>1, <1>2, RecursionUpTo
  <1>4. ASSUME NEW k \in 1..n
        PROVE  f[k] = [f[k - 1] EXCEPT ![count - k + 1] = f[k - 1][count - k]]
    <2> HIDE DEF n, Slots
    <2>1. f[k - 1] \in Slots /\ <<k, f[k - 1]>> \in Nat \X Slots /\ k \in 1..n
      BY <1>1, <1>3 DEF FollowsUpTo
    <2>2. step[<<k, f[k - 1]>>] = [f[k - 1] EXCEPT ![count - k + 1] = f[k - 1][count - k]]
      BY <2>1
    <2> HIDE DEF step
    <2> QED
      BY <1>3, <2>2 DEF FollowsUpTo
  <1>5. f = [k \in 0..n |->
                IF k = 0 THEN items
                ELSE [f[k - 1] EXCEPT ![count - k + 1] = f[k - 1][count - k]]]
    <2> HIDE DEF n, step, Slots
    <2>1. f = [k \in 0..n |-> f[k]] /\ f[0] = items
      BY <1>3 DEF FollowsUpTo
    <2>2. ASSUME NEW k \in 0..n
          PROVE  f[k] = IF k = 0 THEN items
                        ELSE [f[k - 1] EXCEPT ![count - k + 1] = f[k - 1][count - k]]
      <3>1. CASE k = 0
        BY <2>1, <3>1
      <3>2. CASE k # 0
        <4>1. k \in 1..n
          BY <1>1, <3>2
        <4> QED
          BY <1>4, <3>2, <4>1
      <3> QED
        BY <3>1, <3>2
    <2> QED
      BY <2>1, <2>2, Zenon
  <1>6. /\ after[0] = items
        /\ \A k \in 1..n :
              after[k] = [after[k - 1] EXCEPT ![count - k + 1] = after[k - 1][count - k]]
    <2> DEFINE F(g) == [k \in 0..n |->
                  IF k = 0 THEN items
                  ELSE [g[k - 1] EXCEPT ![count - k + 1] = g[k - 1][count - k]]]
    <2>1. after = CHOOSE g : g = F(g)
      OBVIOUS
    <2>2. f = F(f)
      BY <1>5
    <2> HIDE DEF F
    <2>3. after = F(after)
      BY <2>1, <2>2, Zenon
    <2>4. \A k \in 0..n :
             after[k] = IF k = 0 THEN items
                        ELSE [after[k - 1] EXCEPT ![count - k + 1] = after[k - 1][count - k]]
      BY <2>3, Zenon DEF F
    <2>5. 0 \in 0..n /\ \A k \in 1..n : k \in 0..n /\ k # 0
      BY <1>1
    <2> HIDE DEF after, n
    <2> QED
      BY <2>4, <2>5, Zenon
  <1>7. ShiftedRight(items, count, index) = after[n]
    BY DEF ShiftedRight
  <1> HIDE DEF after
  <1>8. \A k \in 0..n : after[k] = moved(k)
    <2> DEFINE T == {k \in 0..n : after[k] = moved(k)}
    <2>1. 0 \in T
      <3>1. moved(0) = items /\ 0 \in 0..n
        BY <1>1
      <3> QED
        BY <1>6, <3>1
    <2>2. ASSUME NEW k \in 1..n, k - 1 \in T PROVE k \in T
      <3>1. after[k] = [after[k - 1] EXCEPT ![count - k + 1] = after[k - 1][count - k]]
        BY <1>6
      <3>2. after[k - 1] = moved(k - 1)
        BY <2>2
      <3> DEFINE g == moved(k - 1)
                 s == count - k
      <3>3. /\ s \in 0..(capacity - 1) /\ s + 1 \in 0..(capacity - 1)
            /\ g \in [0..(capacity - 1) -> V] /\ g[s] = items[s]
        <4>1. s \in 0..(capacity - 1) /\ s + 1 \in 0..(capacity - 1) /\ ~(count - (k - 1) < s)
          OBVIOUS
        <4>2. \A i \in 0..(capacity - 1) :
                 (IF count - (k - 1) < i /\ i <= count THEN items[i - 1] ELSE items[i]) \in V
          <5> SUFFICES ASSUME NEW i \in 0..(capacity - 1), count - (k - 1) < i, i <= count
                       PROVE  items[i - 1] \in V
            OBVIOUS
          <5>1. i - 1 \in 0..(capacity - 1)
            OBVIOUS
          <5> QED
            BY <5>1
        <4>3. g \in [0..(capacity - 1) -> V]
          BY <4>2
        <4> QED
          BY <4>1, <4>3
      <3>4. [g EXCEPT ![s + 1] = g[s]] = moved(k)
        <4>1. \A i \in 0..(capacity - 1) :
                 [g EXCEPT ![s + 1] = g[s]][i] = IF i = s + 1 THEN items[s] ELSE g[i]
          <5> HIDE DEF g, s
          <5> QED
            BY <3>3
        <4>2. \A i \in 0..(capacity - 1) :
                 moved(k)[i] = IF i = s + 1 THEN items[s] ELSE g[i]
          OBVIOUS
        <4>3. [g EXCEPT ![s + 1] = g[s]] \in [0..(capacity - 1) -> V]
          <5> HIDE DEF g, s
          <5> QED
            BY <3>3
        <4>4. moved(k) \in [0..(capacity - 1) -> V]
          OBVIOUS
        <4> DEFINE a == [g EXCEPT ![s + 1] = g[s]]
                   b == moved(k)
        <4> HIDE DEF a, b, g, s
        <4>5. \A i \in 0..(capacity - 1) : a[i] = b[i]
          BY <4>1, <4>2 DEF a, b
        <4>6. a = b
          BY <4>3, <4>4, <4>5 DEF a, b
        <4> QED
          BY <4>6 DEF a, b
      <3>5. after[k] = moved(k)
        BY <3>1, <3>2, <3>4
      <3> QED
        BY <3>5
    <2> HIDE DEF T
    <2>3. 0..n \subseteq T
      BY <1>1, <2>1, <2>2, UpTo
    <2> QED
      BY <2>3 DEF T
  <1>9. moved(n) = MovedRight(items, capacity, count, index)
    <2>1. count - n = index
      OBVIOUS
    <2> HIDE DEF n
    <2> QED
      BY <2>1 DEF MovedRight
  <1>10. after[n] = moved(n)
    <2> HIDE DEF moved
    <2> QED
      BY <1>1, <1>8
  <1> QED
    BY <1>7, <1>9, <1>10

\* The loop of e_list_remove_index moves the items behind index.
LEMMA ShiftedLeftMoves ==
    ASSUME NEW V, NEW capacity \in Nat, NEW items \in [0..(capacity - 1) -> V],
           NEW count \in Nat, count <= capacity, NEW index \in 0..(count - 1)
    PROVE  ShiftedLeft(items, count, index) = MovedLeft(items, capacity, count, index)
  <1> DEFINE n == count - 1 - index
             Slots == [0..(capacity - 1) -> V]
             moved(k) == [i \in 0..(capacity - 1) |->
                             IF index <= i /\ i < index + k THEN items[i + 1] ELSE items[i]]
             step == [p \in Nat \X Slots |->
                         IF p[1] \in 1..n
                         THEN [p[2] EXCEPT ![index + p[1] - 1] = p[2][index + p[1]]]
                         ELSE p[2]]
             after == CHOOSE f : f = [k \in 0..n |->
                         IF k = 0 THEN items
                         ELSE [f[k - 1] EXCEPT ![index + k - 1] = f[k - 1][index + k]]]
  <1>1. n \in Nat /\ items \in Slots
    OBVIOUS
  <1>2. step \in [Nat \X Slots -> Slots]
    <2>1. ASSUME NEW k \in 1..n, NEW g \in Slots
          PROVE  [g EXCEPT ![index + k - 1] = g[index + k]] \in Slots
      <3>1. index + k \in 0..(capacity - 1)
        OBVIOUS
      <3>2. g[index + k] \in V
        BY <3>1
      <3> QED
        BY <3>2
    <2>2. ASSUME NEW p \in Nat \X Slots
          PROVE  (IF p[1] \in 1..n
                  THEN [p[2] EXCEPT ![index + p[1] - 1] = p[2][index + p[1]]]
                  ELSE p[2]) \in Slots
      <3>1. p[1] \in Nat /\ p[2] \in Slots
        OBVIOUS
      <3> HIDE DEF n, Slots
      <3> QED
        BY <2>1, <3>1
    <2> HIDE DEF n, Slots
    <2> QED
      BY <2>2
  <1>3. PICK f : FollowsUpTo(f, Slots, items, step, n)
    <2> HIDE DEF step, n, Slots
    <2> QED
      BY <1>1, <1>2, RecursionUpTo
  <1>4. ASSUME NEW k \in 1..n
        PROVE  f[k] = [f[k - 1] EXCEPT ![index + k - 1] = f[k - 1][index + k]]
    <2> HIDE DEF n, Slots
    <2>1. f[k - 1] \in Slots /\ <<k, f[k - 1]>> \in Nat \X Slots /\ k \in 1..n
      BY <1>1, <1>3 DEF FollowsUpTo
    <2>2. step[<<k, f[k - 1]>>] = [f[k - 1] EXCEPT ![index + k - 1] = f[k - 1][index + k]]
      BY <2>1
    <2> HIDE DEF step
    <2> QED
      BY <1>3, <2>2 DEF FollowsUpTo
  <1>5. f = [k \in 0..n |->
                IF k = 0 THEN items
                ELSE [f[k - 1] EXCEPT ![index + k - 1] = f[k - 1][index + k]]]
    <2> HIDE DEF n, step, Slots
    <2>1. f = [k \in 0..n |-> f[k]] /\ f[0] = items
      BY <1>3 DEF FollowsUpTo
    <2>2. ASSUME NEW k \in 0..n
          PROVE  f[k] = IF k = 0 THEN items
                        ELSE [f[k - 1] EXCEPT ![index + k - 1] = f[k - 1][index + k]]
      <3>1. CASE k = 0
        BY <2>1, <3>1
      <3>2. CASE k # 0
        <4>1. k \in 1..n
          BY <1>1, <3>2
        <4> QED
          BY <1>4, <3>2, <4>1
      <3> QED
        BY <3>1, <3>2
    <2> QED
      BY <2>1, <2>2, Zenon
  <1>6. /\ after[0] = items
        /\ \A k \in 1..n :
              after[k] = [after[k - 1] EXCEPT ![index + k - 1] = after[k - 1][index + k]]
    <2> DEFINE F(g) == [k \in 0..n |->
                  IF k = 0 THEN items
                  ELSE [g[k - 1] EXCEPT ![index + k - 1] = g[k - 1][index + k]]]
    <2>1. after = CHOOSE g : g = F(g)
      OBVIOUS
    <2>2. f = F(f)
      BY <1>5
    <2> HIDE DEF F
    <2>3. after = F(after)
      BY <2>1, <2>2, Zenon
    <2>4. \A k \in 0..n :
             after[k] = IF k = 0 THEN items
                        ELSE [after[k - 1] EXCEPT ![index + k - 1] = after[k - 1][index + k]]
      BY <2>3, Zenon DEF F
    <2>5. 0 \in 0..n /\ \A k \in 1..n : k \in 0..n /\ k # 0
      BY <1>1
    <2> HIDE DEF after, n
    <2> QED
      BY <2>4, <2>5, Zenon
  <1>7. ShiftedLeft(items, count, index) = after[n]
    BY DEF ShiftedLeft
  <1> HIDE DEF after
  <1>8. \A k \in 0..n : after[k] = moved(k)
    <2> DEFINE T == {k \in 0..n : after[k] = moved(k)}
    <2>1. 0 \in T
      <3>1. moved(0) = items /\ 0 \in 0..n
        BY <1>1
      <3> QED
        BY <1>6, <3>1
    <2>2. ASSUME NEW k \in 1..n, k - 1 \in T PROVE k \in T
      <3>1. after[k] = [after[k - 1] EXCEPT ![index + k - 1] = after[k - 1][index + k]]
        BY <1>6
      <3>2. after[k - 1] = moved(k - 1)
        BY <2>2
      <3> DEFINE g == moved(k - 1)
                 s == index + k
      <3>3. /\ s \in 0..(capacity - 1) /\ s - 1 \in 0..(capacity - 1)
            /\ g \in [0..(capacity - 1) -> V] /\ g[s] = items[s]
        <4>1. s \in 0..(capacity - 1) /\ s - 1 \in 0..(capacity - 1) /\ ~(s < index + (k - 1))
          OBVIOUS
        <4>2. \A i \in 0..(capacity - 1) :
                 (IF index <= i /\ i < index + (k - 1) THEN items[i + 1] ELSE items[i]) \in V
          <5> SUFFICES ASSUME NEW i \in 0..(capacity - 1), index <= i, i < index + (k - 1)
                       PROVE  items[i + 1] \in V
            OBVIOUS
          <5>1. i + 1 \in 0..(capacity - 1)
            OBVIOUS
          <5> QED
            BY <5>1
        <4>3. g \in [0..(capacity - 1) -> V]
          BY <4>2
        <4> QED
          BY <4>1, <4>3
      <3>4. [g EXCEPT ![s - 1] = g[s]] = moved(k)
        <4>1. \A i \in 0..(capacity - 1) :
                 [g EXCEPT ![s - 1] = g[s]][i] = IF i = s - 1 THEN items[s] ELSE g[i]
          <5> HIDE DEF g, s
          <5> QED
            BY <3>3
        <4>2. \A i \in 0..(capacity - 1) :
                 moved(k)[i] = IF i = s - 1 THEN items[s] ELSE g[i]
          OBVIOUS
        <4>3. [g EXCEPT ![s - 1] = g[s]] \in [0..(capacity - 1) -> V]
          <5> HIDE DEF g, s
          <5> QED
            BY <3>3
        <4>4. moved(k) \in [0..(capacity - 1) -> V]
          OBVIOUS
        <4> DEFINE a == [g EXCEPT ![s - 1] = g[s]]
                   b == moved(k)
        <4> HIDE DEF a, b, g, s
        <4>5. \A i \in 0..(capacity - 1) : a[i] = b[i]
          BY <4>1, <4>2 DEF a, b
        <4>6. a = b
          BY <4>3, <4>4, <4>5 DEF a, b
        <4> QED
          BY <4>6 DEF a, b
      <3>5. after[k] = moved(k)
        BY <3>1, <3>2, <3>4
      <3> QED
        BY <3>5
    <2> HIDE DEF T
    <2>3. 0..n \subseteq T
      BY <1>1, <2>1, <2>2, UpTo
    <2> QED
      BY <2>3 DEF T
  <1>9. moved(n) = MovedLeft(items, capacity, count, index)
    <2>1. index + n = count - 1
      OBVIOUS
    <2> HIDE DEF n
    <2> QED
      BY <2>1 DEF MovedLeft
  <1>10. after[n] = moved(n)
    <2> HIDE DEF moved
    <2> QED
      BY <1>1, <1>8
  <1> QED
    BY <1>7, <1>9, <1>10

\* Doubling gets there, and not below what was there before.
LEMMA DoubledEnough ==
    ASSUME NEW capacity \in Nat \ {0}, NEW wanted \in Nat, capacity < wanted
    PROVE  /\ Doubled(capacity, wanted) \in Nat
           /\ Doubled(capacity, wanted) >= wanted
  <1> DEFINE step == [p \in Nat \X Nat |-> 2 * p[2]]
             twice == CHOOSE f : f = [k \in 0..wanted |->
                                         IF k = 0 THEN capacity ELSE 2 * f[k - 1]]
             enough(k) == twice[k] >= wanted /\ \A j \in 0..(k - 1) : twice[j] < wanted
  <1>1. step \in [Nat \X Nat -> Nat]
    <2>1. \A p \in Nat \X Nat : 2 * p[2] \in Nat
      OBVIOUS
    <2> QED
      BY <2>1
  <1>2. PICK f : FollowsUpTo(f, Nat, capacity, step, wanted)
    <2> HIDE DEF step
    <2> QED
      BY <1>1, RecursionUpTo
  <1>3. \A k \in 1..wanted : f[k] = 2 * f[k - 1]
    <2> SUFFICES ASSUME NEW k \in 1..wanted PROVE f[k] = 2 * f[k - 1]
      OBVIOUS
    <2>1. f[k - 1] \in Nat /\ <<k, f[k - 1]>> \in Nat \X Nat
      BY <1>2 DEF FollowsUpTo
    <2>2. step[<<k, f[k - 1]>>] = 2 * f[k - 1]
      BY <2>1
    <2> HIDE DEF step
    <2> QED
      BY <1>2, <2>2 DEF FollowsUpTo
  <1>4. f = [k \in 0..wanted |-> IF k = 0 THEN capacity ELSE 2 * f[k - 1]]
    <2> HIDE DEF step
    <2>1. f = [k \in 0..wanted |-> f[k]] /\ f[0] = capacity
      BY <1>2 DEF FollowsUpTo
    <2>2. \A k \in 0..wanted : f[k] = IF k = 0 THEN capacity ELSE 2 * f[k - 1]
      <3> SUFFICES ASSUME NEW k \in 0..wanted, k # 0 PROVE f[k] = 2 * f[k - 1]
        BY <2>1
      <3>1. k \in 1..wanted
        OBVIOUS
      <3> QED
        BY <1>3, <3>1
    <2> QED
      BY <2>1, <2>2, Zenon
  <1>5. twice = [k \in 0..wanted |-> IF k = 0 THEN capacity ELSE 2 * twice[k - 1]]
    BY <1>4
  <1>6. Doubled(capacity, wanted) = twice[CHOOSE k \in 0..wanted : enough(k)]
    BY DEF Doubled
  <1> HIDE DEF twice
  <1>7. \A k \in 0..wanted : twice[k] \in Nat /\ twice[k] > k
    <2> DEFINE T == {k \in 0..wanted : twice[k] \in Nat /\ twice[k] > k}
    <2>1. 0 \in T
      BY <1>5
    <2>2. ASSUME NEW k \in 1..wanted, k - 1 \in T PROVE k \in T
      <3>1. twice[k] = 2 * twice[k - 1]
        BY <1>5
      <3> QED
        BY <2>2, <3>1
    <2> HIDE DEF T
    <2>3. 0..wanted \subseteq T
      BY <2>1, <2>2, UpTo
    <2> QED
      BY <2>3 DEF T
  <1>8. \E k \in 0..wanted : enough(k)
    <2> DEFINE T == {k \in 0..wanted : twice[k] >= wanted}
    <2>1. wanted \in T
      BY <1>7
    <2>2. T # {} /\ T \in SUBSET Nat
      BY <2>1
    <2>3. PICK k \in T : \A j \in T : k <= j
      <3> HIDE DEF T
      <3> QED
        BY <2>2, LeastOf
    <2>4. ASSUME NEW j \in 0..(k - 1) PROVE twice[j] < wanted
      BY <1>7, <2>3
    <2> QED
      BY <2>3, <2>4
  <1> DEFINE least == CHOOSE k \in 0..wanted : enough(k)
  <1>9. least \in 0..wanted /\ enough(least)
    <2> HIDE DEF enough
    <2> QED
      BY <1>8
  <1> HIDE DEF least
  <1> QED
    BY <1>6, <1>7, <1>9 DEF least

\* What callers see of a list has as many items as its count says.
LEMMA ContentsFields ==
    ASSUME NEW S, NEW l, IsEList(l, S)
    PROVE  /\ Contents(l) \in Seq(S) /\ Len(Contents(l)) = l.count
           /\ DOMAIN Contents(l) = 1..l.count
           /\ l.count \in Nat /\ l.capacity \in Nat \ {0} /\ l.count <= l.capacity
           /\ l.items \in [0..(l.capacity - 1) -> S \cup {NullItem}]
           /\ \A k \in 1..l.count : Contents(l)[k] = l.items[k - 1] /\ l.items[k - 1] \in S
  <1>1. /\ l.count \in Nat /\ l.capacity \in Nat \ {0} /\ l.count <= l.capacity
        /\ l.items \in [0..(l.capacity - 1) -> S \cup {NullItem}]
        /\ \A i \in 0..(l.capacity - 1) : l.items[i] \in S <=> i < l.count
    BY DEF IsEList
  <1>2. \A k \in 1..l.count : l.items[k - 1] \in S
    <2> SUFFICES ASSUME NEW k \in 1..l.count PROVE l.items[k - 1] \in S
      OBVIOUS
    <2>1. k - 1 \in 0..(l.capacity - 1) /\ k - 1 < l.count
      BY <1>1
    <2> QED
      BY <1>1, <2>1
  <1>3. Contents(l) = [k \in 1..l.count |-> l.items[k - 1]]
    BY DEF Contents
  <1>4. Contents(l) \in [1..l.count -> S]
    BY <1>2, <1>3
  <1>5. Contents(l) \in Seq(S) /\ Len(Contents(l)) = l.count
    <2> DEFINE s == Contents(l)
               n == l.count
    <2>1. n \in Nat /\ s \in [1..n -> S]
      BY <1>1, <1>4
    <2> HIDE DEF s, n
    <2>2. s \in Seq(S)
      BY <2>1
    <2>3. Len(s) = n
      BY <2>1, <2>2, LenProperties
    <2> QED
      BY <2>2, <2>3 DEF s, n
  <1> QED
    BY <1>1, <1>2, <1>3, <1>5

\* realloc keeps what there is and adds slots without an item.
CapacityKept(r, l, wanted, memory, S) ==
    /\ r.ok \in BOOLEAN
    /\ r.ok <=> memory \/ wanted <= l.capacity
    /\ ~r.ok => r.list = l
    /\ r.ok => r.list.capacity >= wanted
    /\ IsEList(r.list, S)
    /\ r.list.count = l.count
    /\ r.list.capacity >= l.capacity
    /\ \A i \in 0..(l.capacity - 1) : r.list.items[i] = l.items[i]

LEMMA CapacityKeeps ==
    ASSUME NEW S, NullItem \notin S, NEW l, IsEList(l, S), NEW wanted \in Nat, NEW memory \in BOOLEAN
    PROVE  CapacityKept(EnsureCapacity(l, wanted, memory), l, wanted, memory, S)
  <1> DEFINE r == EnsureCapacity(l, wanted, memory)
             larger == Doubled(l.capacity, wanted)
             slots == [i \in 0..(larger - 1) |-> IF i < l.capacity THEN l.items[i] ELSE NullItem]
  <1>1. /\ l.count \in Nat /\ l.capacity \in Nat \ {0} /\ l.count <= l.capacity
        /\ l.items \in [0..(l.capacity - 1) -> S \cup {NullItem}]
        /\ \A i \in 0..(l.capacity - 1) : l.items[i] \in S <=> i < l.count
    BY DEF IsEList
  <1>2. CASE wanted <= l.capacity
    <2>1. r = [ok |-> TRUE, list |-> l]
      BY <1>1, <1>2 DEF EnsureCapacity
    <2> QED
      BY <1>1, <1>2, <2>1 DEF CapacityKept
  <1>3. CASE ~(wanted <= l.capacity) /\ ~memory
    <2>1. r = [ok |-> FALSE, list |-> l]
      BY <1>1, <1>3 DEF EnsureCapacity
    <2> QED
      BY <1>1, <1>3, <2>1 DEF CapacityKept
  <1>4. CASE ~(wanted <= l.capacity) /\ memory
    <2>1. r = [ok |-> TRUE, list |-> [l EXCEPT !.items = slots, !.capacity = larger]]
      BY <1>1, <1>4 DEF EnsureCapacity
    <2>2. larger \in Nat /\ larger >= wanted /\ l.capacity < wanted
      BY <1>1, <1>4, DoubledEnough
    <2> HIDE DEF larger
    <2>3. /\ slots \in [0..(larger - 1) -> S \cup {NullItem}]
          /\ \A i \in 0..(larger - 1) : slots[i] \in S <=> i < l.count
          /\ \A i \in 0..(l.capacity - 1) : slots[i] = l.items[i]
      BY <1>1, <2>2
    <2> HIDE DEF slots
    <2> DEFINE u == [l EXCEPT !.items = slots, !.capacity = larger]
    <2>4. /\ u.items = slots /\ u.count = l.count /\ u.capacity = larger
          /\ u \in [items : {slots}, count : {l.count}, capacity : {larger}]
      BY DEF IsEList
    <2> HIDE DEF u
    <2>5. IsEList(u, S) /\ u.count = l.count /\ u.capacity = larger /\ u.items = slots
      BY <1>1, <2>2, <2>3, <2>4 DEF IsEList
    <2>6. r.ok = TRUE /\ r.list = u
      BY <2>1 DEF u
    <2> HIDE DEF r
    <2>7. r.ok \in BOOLEAN /\ (r.ok <=> memory \/ wanted <= l.capacity)
      BY <1>4, <2>6
    <2>8. r.list.capacity >= wanted /\ r.list.capacity >= l.capacity
      BY <1>1, <2>2, <2>5, <2>6
    <2> QED
      BY <2>3, <2>5, <2>6, <2>7, <2>8 DEF r, CapacityKept
  <1> QED
    BY <1>2, <1>3, <1>4

\* An insertion opens a gap for the item, in the array as in the contents.
THEOREM InsertKeepsContents ==
    ASSUME NEW S, NullItem \notin S, NEW l, IsEList(l, S), NEW x \in S, NEW index \in Int,
           NEW memory \in BOOLEAN
    PROVE  InsertImplements(l, x, index, memory, S)
  <1> DEFINE room == EnsureCapacity(l, l.count + 1, memory)
             u == room.list
             moved == ShiftedRight(u.items, l.count, index)
             slots == [moved EXCEPT ![index] = x]
             r == EListInsert(l, x, index, memory)
             now == [u EXCEPT !.items = slots, !.count = @ + 1]
             n == l.count
             c == u.capacity
  <1>1. /\ n \in Nat /\ l.capacity \in Nat \ {0} /\ n <= l.capacity
        /\ Contents(l) \in Seq(S) /\ Len(Contents(l)) = n
        /\ \A k \in 1..n : Contents(l)[k] = l.items[k - 1]
    BY ContentsFields
  <1>2. /\ room.ok \in BOOLEAN /\ (room.ok <=> memory \/ n + 1 <= l.capacity)
        /\ room.ok => c >= n + 1
        /\ IsEList(u, S) /\ u.count = n /\ c >= l.capacity
        /\ \A i \in 0..(l.capacity - 1) : u.items[i] = l.items[i]
    <2> DEFINE w == n + 1
    <2>1. w \in Nat
      BY <1>1
    <2> HIDE DEF w
    <2>2. CapacityKept(EnsureCapacity(l, w, memory), l, w, memory, S)
      BY <2>1, CapacityKeeps
    <2> QED
      BY <2>2 DEF w, CapacityKept
  <1>3. CASE index \notin 0..n \/ ~room.ok
    <2>1. r = [ok |-> FALSE, list |-> l]
      BY <1>3 DEF EListInsert
    <2>2. r.ok = FALSE /\ r.list = l
      BY <2>1
    <2>3. ~(index \in 0..n /\ (memory \/ n < l.capacity))
      BY <1>1, <1>2, <1>3
    <2> HIDE DEF r
    <2> QED
      BY <2>2, <2>3 DEF InsertImplements, r
  <1>4. CASE index \in 0..n /\ room.ok
    <2>1. r = [ok |-> TRUE, list |-> now]
      BY <1>4 DEF EListInsert
    <2>2. /\ c \in Nat \ {0} /\ n < c
          /\ u.items \in [0..(c - 1) -> S \cup {NullItem}]
          /\ \A i \in 0..(c - 1) : u.items[i] \in S <=> i < n
          /\ u \in [items : {u.items}, count : {n}, capacity : {c}]
      BY <1>1, <1>2, <1>4 DEF IsEList
    <2>3. moved = [i \in 0..(c - 1) |->
                      IF index < i /\ i <= n THEN u.items[i - 1] ELSE u.items[i]]
      <3> DEFINE all == u.items
                 V == S \cup {NullItem}
      <3>1. c \in Nat /\ all \in [0..(c - 1) -> V] /\ n \in Nat /\ n < c /\ index \in 0..n
        BY <1>1, <1>4, <2>2
      <3> HIDE DEF all, V, n, c
      <3>2. ShiftedRight(all, n, index) = MovedRight(all, c, n, index)
        BY <3>1, ShiftedRightMoves
      <3>3. moved = ShiftedRight(all, n, index)
        BY Zenon DEF all, n
      <3> HIDE DEF moved
      <3>4. moved = MovedRight(all, c, n, index)
        BY <3>2, <3>3
      <3> QED
        BY <3>4 DEF all, MovedRight
    <2> HIDE DEF u, c, n, moved
    <2>4. /\ slots \in [0..(c - 1) -> S \cup {NullItem}]
          /\ \A i \in 0..(c - 1) : slots[i] \in S <=> i < n + 1
          /\ \A i \in 0..n : slots[i] = IF i < index THEN l.items[i]
                                        ELSE IF i = index THEN x ELSE l.items[i - 1]
      <3>1. ASSUME NEW i \in 0..(c - 1), index < i, i <= n
            PROVE  i - 1 \in 0..(c - 1) /\ i - 1 < n /\ u.items[i - 1] \in S
                   /\ u.items[i - 1] = l.items[i - 1]
        <4>1. i - 1 \in 0..(c - 1) /\ i - 1 < n /\ i - 1 \in 0..(l.capacity - 1)
          BY <1>1, <1>4, <2>2, <3>1
        <4> QED
          BY <1>2, <2>2, <4>1
      <3>2. moved \in [0..(c - 1) -> S \cup {NullItem}]
        BY <2>2, <2>3, <3>1
      <3>3. index \in 0..(c - 1)
        BY <1>1, <1>4, <2>2
      <3>4. slots \in [0..(c - 1) -> S \cup {NullItem}]
        BY <3>2, <3>3
      <3>5. \A i \in 0..(c - 1) :
               slots[i] = IF i = index THEN x
                          ELSE IF index < i /\ i <= n THEN u.items[i - 1] ELSE u.items[i]
        BY <2>3, <3>2, <3>3
      <3> HIDE DEF slots
      <3>6. ASSUME NEW i \in 0..(c - 1) PROVE slots[i] \in S <=> i < n + 1
        <4>1. CASE i = index
          BY <1>1, <1>4, <3>5, <4>1
        <4>2. CASE index < i /\ i <= n
          BY <1>1, <3>1, <3>5, <4>2
        <4>3. CASE i # index /\ ~(index < i /\ i <= n)
          BY <1>1, <1>4, <2>2, <3>5, <4>3
        <4> QED
          BY <4>1, <4>2, <4>3
      <3>7. ASSUME NEW i \in 0..n
            PROVE  slots[i] = IF i < index THEN l.items[i]
                              ELSE IF i = index THEN x ELSE l.items[i - 1]
        <4>1. i \in 0..(c - 1)
          BY <1>1, <2>2
        <4>2. CASE i < index
          <5>1. i \in 0..(l.capacity - 1)
            BY <1>1, <1>4, <4>2
          <5> QED
            BY <1>2, <1>4, <3>5, <4>1, <4>2, <5>1
        <4>3. CASE i = index
          BY <3>5, <4>1, <4>3
        <4>4. CASE index < i
          BY <1>1, <1>4, <3>1, <3>5, <4>1, <4>4
        <4> QED
          BY <1>1, <1>4, <4>2, <4>3, <4>4
      <3> QED
        BY <3>4, <3>6, <3>7
    <2> HIDE DEF slots
    <2>5. /\ now.items = slots /\ now.count = n + 1 /\ now.capacity = c
          /\ now \in [items : {slots}, count : {n + 1}, capacity : {c}]
      BY <2>2 DEF c
    <2>6. r.ok = TRUE /\ r.list = now
      BY <2>1
    <2> HIDE DEF now, r
    <2>7. IsEList(now, S)
      BY <1>1, <2>2, <2>4, <2>5 DEF IsEList
    <2>8. Contents(now) = ListInsertAt(Contents(l), index + 1, x)
      <3>1. Contents(now) = [k \in 1..(n + 1) |-> slots[k - 1]]
        BY <2>5 DEF Contents
      <3>2. ListInsertAt(Contents(l), index + 1, x)
               = [k \in 1..(n + 1) |->
                     IF k < index + 1 THEN Contents(l)[k]
                     ELSE IF k = index + 1 THEN x ELSE Contents(l)[k - 1]]
        BY <1>1 DEF ListInsertAt
      <3>3. ASSUME NEW k \in 1..(n + 1)
            PROVE  slots[k - 1] = IF k < index + 1 THEN Contents(l)[k]
                                  ELSE IF k = index + 1 THEN x ELSE Contents(l)[k - 1]
        <4>1. k - 1 \in 0..n
          BY <1>1
        <4>2. CASE k < index + 1
          <5>1. k \in 1..n /\ k - 1 < index
            BY <1>1, <1>4, <4>2
          <5> QED
            BY <1>1, <2>4, <4>1, <4>2, <5>1
        <4>3. CASE k = index + 1
          <5>1. k - 1 = index /\ ~(k - 1 < index)
            BY <1>4, <4>3
          <5> QED
            BY <2>4, <4>1, <4>3, <5>1
        <4>4. CASE k > index + 1
          <5>1. k - 1 \in 1..n /\ ~(k - 1 < index) /\ k - 1 # index
            BY <1>1, <1>4, <4>4
          <5>2. slots[k - 1] = l.items[(k - 1) - 1]
            BY <2>4, <4>1, <5>1
          <5>3. Contents(l)[k - 1] = l.items[(k - 1) - 1]
            BY <1>1, <5>1
          <5> QED
            BY <1>4, <4>4, <5>2, <5>3
        <4> QED
          BY <1>1, <1>4, <4>2, <4>3, <4>4
      <3> QED
        BY <3>1, <3>2, <3>3
    <2>9. memory \/ n < l.capacity
      BY <1>1, <1>2, <1>4
    <2> QED
      BY <1>4, <2>6, <2>7, <2>8, <2>9 DEF InsertImplements, r, n
  <1> QED
    BY <1>2, <1>3, <1>4

\* e_list_add appends, unless there is no memory, and never says so.
THEOREM AddKeepsContents ==
    ASSUME NEW S, NullItem \notin S, NEW l, IsEList(l, S), NEW x \in S, NEW memory \in BOOLEAN
    PROVE  AddImplements(l, x, memory, S)
  <1> DEFINE i == EListInsert(l, x, l.count, memory)
             r == EListAdd(l, x, memory)
  <1>1. /\ l.count \in Nat /\ Contents(l) \in Seq(S) /\ Len(Contents(l)) = l.count
    BY ContentsFields
  <1>2. InsertImplements(l, x, l.count, memory, S)
    BY <1>1, InsertKeepsContents
  <1>3. /\ IsEList(i.list, S)
        /\ i.ok => Contents(i.list) = ListInsertAt(Contents(l), l.count + 1, x)
        /\ ~i.ok => i.list = l
        /\ i.ok <=> memory \/ l.count < l.capacity
    BY <1>1, <1>2 DEF InsertImplements
  <1>4. r.ok = TRUE /\ r.list = i.list
    BY DEF EListAdd
  <1>5. ListInsertAt(Contents(l), l.count + 1, x) = Append(Contents(l), x)
    <2> DEFINE s == Contents(l)
               n == l.count
    <2>1. n \in Nat /\ s \in Seq(S) /\ Len(s) = n
      BY <1>1
    <2> HIDE DEF s, n
    <2>2. ListInsertAt(s, n + 1, x) = [k \in 1..(n + 1) |-> IF k < n + 1 THEN s[k] ELSE x]
      BY <2>1 DEF ListInsertAt
    <2>3. Append(s, x) = [k \in 1..(n + 1) |-> IF k < n + 1 THEN s[k] ELSE x]
      <3>1. Append(s, x) \in Seq(S) /\ Len(Append(s, x)) = n + 1
        BY <2>1
      <3>2. Append(s, x) = [k \in 1..(n + 1) |-> Append(s, x)[k]]
        BY <2>1, <3>1, LenProperties
      <3>3. \A k \in 1..(n + 1) : Append(s, x)[k] = IF k < n + 1 THEN s[k] ELSE x
        BY <2>1
      <3> QED
        BY <3>2, <3>3, Zenon
    <2> QED
      BY <2>2, <2>3 DEF s, n
  <1> HIDE DEF i, r
  <1> QED
    BY <1>3, <1>4, <1>5 DEF AddImplements, r

\* The first position of an item, in the slots as in the contents.
LEMMA FirstPosition ==
    ASSUME NEW S, NEW l, IsEList(l, S), NEW x
    PROVE  /\ x \notin Items(Contents(l)) =>
                  EListFindIndex(l, x) = -1 /\ ListFind(Contents(l), x) = 0
           /\ x \in Items(Contents(l)) =>
                  /\ EListFindIndex(l, x) \in 0..(l.count - 1)
                  /\ ListFind(Contents(l), x) = EListFindIndex(l, x) + 1
  <1> DEFINE s == Contents(l)
             n == l.count
             first(k) == s[k] = x /\ \A j \in 1..(k - 1) : s[j] # x
             firstSlot(i) == l.items[i] = x /\ \A j \in 0..(i - 1) : l.items[j] # x
  <1>1. /\ n \in Nat /\ DOMAIN s = 1..n
        /\ \A k \in 1..n : s[k] = l.items[k - 1]
    BY ContentsFields
  <1>2. /\ ListFind(s, x) = IF x \in Items(s) THEN CHOOSE k \in 1..n : first(k) ELSE 0
        /\ EListFindIndex(l, x) = IF \E i \in 0..(n - 1) : l.items[i] = x
                                  THEN CHOOSE i \in 0..(n - 1) : firstSlot(i) ELSE -1
    BY <1>1 DEF ListFind, EListFindIndex
  <1>3. x \in Items(s) <=> \E k \in 1..n : s[k] = x
    BY <1>1 DEF Items
  <1> HIDE DEF s, n
  <1>4. \A i \in 0..(n - 1) : i + 1 \in 1..n /\ l.items[i] = s[i + 1]
    <2> SUFFICES ASSUME NEW i \in 0..(n - 1) PROVE i + 1 \in 1..n /\ l.items[i] = s[i + 1]
      OBVIOUS
    <2>1. i + 1 \in 1..n /\ (i + 1) - 1 = i
      BY <1>1
    <2> QED
      BY <1>1, <2>1
  <1>5. CASE x \notin Items(s)
    BY <1>2, <1>3, <1>4, <1>5 DEF s
  <1>6. CASE x \in Items(s)
    <2> DEFINE T == {k \in 1..n : s[k] = x}
    <2>1. T # {} /\ T \in SUBSET Nat
      BY <1>3, <1>6
    <2>2. PICK k \in T : \A j \in T : k <= j
      <3> HIDE DEF T
      <3> QED
        BY <2>1, LeastOf
    <2>3. k \in 1..n /\ s[k] = x /\ \A j \in 1..n : s[j] = x => k <= j
      BY <2>2
    <2>4. first(k)
      BY <1>1, <2>3
    <2>5. ASSUME NEW m \in 1..n, first(m) PROVE m = k
      BY <1>1, <2>3, <2>5
    <2>6. (CHOOSE m \in 1..n : first(m)) = k
      <3> HIDE DEF first
      <3> QED
        BY <2>3, <2>4, <2>5
    <2>7. k - 1 \in 0..(n - 1) /\ firstSlot(k - 1)
      <3>1. k - 1 \in 0..(n - 1)
        BY <1>1, <2>3
      <3>2. l.items[k - 1] = x
        BY <1>1, <2>3
      <3>3. ASSUME NEW j \in 0..((k - 1) - 1) PROVE l.items[j] # x
        <4>1. j \in 0..(n - 1) /\ j + 1 \in 1..n /\ ~(k <= j + 1)
          BY <1>1, <2>3
        <4> QED
          BY <1>4, <2>3, <4>1
      <3> QED
        BY <3>1, <3>2, <3>3
    <2>8. ASSUME NEW i \in 0..(n - 1), firstSlot(i) PROVE i = k - 1
      <3>1. s[i + 1] = x /\ i + 1 \in 1..n
        BY <1>4, <2>8
      <3>2. k <= i + 1
        BY <2>3, <3>1
      <3>3. ~(k - 1 < i)
        <4> SUFFICES ASSUME k - 1 < i PROVE FALSE
          OBVIOUS
        <4>1. k - 1 \in 0..(i - 1)
          BY <1>1, <2>3
        <4> QED
          BY <2>7, <2>8, <4>1
      <3> QED
        BY <1>1, <2>3, <3>2, <3>3
    <2>9. (CHOOSE i \in 0..(n - 1) : firstSlot(i)) = k - 1
      <3> HIDE DEF firstSlot
      <3> QED
        BY <2>7, <2>8
    <2>10. ListFind(s, x) = k /\ EListFindIndex(l, x) = k - 1
      <3>1. \E i \in 0..(n - 1) : l.items[i] = x
        BY <2>7
      <3> HIDE DEF first, firstSlot
      <3> QED
        BY <1>2, <1>6, <2>6, <2>9, <3>1
    <2>11. k - 1 \in 0..(n - 1) /\ k = (k - 1) + 1
      BY <2>3, <2>7
    <2> QED
      BY <1>6, <2>10, <2>11 DEF s, n
  <1> QED
    BY <1>5, <1>6 DEF s

\* e_list_find_index finds in the array what ListFind finds in the contents.
THEOREM FindsInContents ==
    ASSUME NEW S, NEW l, IsEList(l, S), NEW x
    PROVE  FindImplements(l, x)
  <1> DEFINE k == ListFind(Contents(l), x)
             i == EListFindIndex(l, x)
  <1>1. \/ i = -1 /\ k = 0
        \/ i \in 0..(l.count - 1) /\ k = i + 1
    BY FirstPosition
  <1>2. l.count \in Nat
    BY ContentsFields
  <1> HIDE DEF i, k
  <1>3. i = k - 1
    BY <1>1, <1>2
  <1> QED
    BY <1>3 DEF FindImplements, i, k

\* Removing an item closes its gap, in the array as in the contents.
THEOREM RemoveKeepsContents ==
    ASSUME NEW S, NullItem \notin S, NEW l, IsEList(l, S), NEW x
    PROVE  RemoveImplements(l, x, S)
  <1> DEFINE s == Contents(l)
             n == l.count
             c == l.capacity
             index == EListFindIndex(l, x)
             moved == ShiftedLeft(l.items, n, index)
             slots == [moved EXCEPT ![n - 1] = NullItem]
             now == [l EXCEPT !.items = slots, !.count = @ - 1]
             r == EListRemove(l, x)
  <1>1. /\ n \in Nat /\ c \in Nat \ {0} /\ n <= c
        /\ l.items \in [0..(c - 1) -> S \cup {NullItem}]
        /\ s \in Seq(S) /\ Len(s) = n
        /\ \A k \in 1..n : s[k] = l.items[k - 1]
        /\ \A i \in 0..(c - 1) : l.items[i] \in S <=> i < n
    <2>1. \A i \in 0..(c - 1) : l.items[i] \in S <=> i < n
      BY DEF IsEList
    <2> QED
      BY <2>1, ContentsFields
  <1>2. r = EListRemoveIndex(l, index)
    BY DEF EListRemove
  <1>3. CASE x \notin Items(s)
    <2>1. index = -1 /\ ListFind(s, x) = 0
      BY <1>3, FirstPosition
    <2>2. index \notin 0..(n - 1)
      BY <1>1, <2>1
    <2>3. r = [ok |-> FALSE, list |-> l]
      BY <1>2, <2>2 DEF EListRemoveIndex
    <2>4. r.ok = FALSE /\ r.list = l
      BY <2>3
    <2>5. ListRemove(s, x) = s
      BY <2>1 DEF ListRemove
    <2> HIDE DEF r, s
    <2> QED
      BY <1>3, <2>4, <2>5 DEF RemoveImplements, r, s
  <1>4. CASE x \in Items(s)
    <2>1. index \in 0..(n - 1) /\ ListFind(s, x) = index + 1
      BY <1>4, FirstPosition
    <2>2. r = [ok |-> TRUE, list |-> now]
      BY <1>2, <2>1 DEF EListRemoveIndex
    <2>3. l \in [items : {l.items}, count : {n}, capacity : {c}]
      BY DEF IsEList
    <2>4. moved = MovedLeft(l.items, c, n, index)
      <3> DEFINE all == l.items
                 V == S \cup {NullItem}
      <3>1. c \in Nat /\ all \in [0..(c - 1) -> V] /\ n \in Nat /\ n <= c /\ index \in 0..(n - 1)
        BY <1>1, <2>1
      <3> HIDE DEF all, V, n, c, index
      <3>2. ShiftedLeft(all, n, index) = MovedLeft(all, c, n, index)
        BY <3>1, ShiftedLeftMoves
      <3>3. moved = ShiftedLeft(all, n, index)
        BY Zenon DEF all
      <3> HIDE DEF moved
      <3>4. moved = MovedLeft(all, c, n, index)
        BY <3>2, <3>3
      <3> QED
        BY <3>4 DEF all
    <2> HIDE DEF moved, index
    <2>5. moved = [i \in 0..(c - 1) |->
                      IF index <= i /\ i < n - 1 THEN l.items[i + 1] ELSE l.items[i]]
      BY <2>4 DEF MovedLeft
    <2> HIDE DEF s, n, c
    <2>6. /\ slots \in [0..(c - 1) -> S \cup {NullItem}]
          /\ \A i \in 0..(c - 1) : slots[i] \in S <=> i < n - 1
          /\ \A i \in 0..(n - 2) : slots[i] = IF i < index THEN l.items[i] ELSE l.items[i + 1]
      <3>1. ASSUME NEW i \in 0..(c - 1), index <= i, i < n - 1
            PROVE  i + 1 \in 0..(c - 1) /\ i + 1 < n /\ l.items[i + 1] \in S
        <4>1. i + 1 \in 0..(c - 1) /\ i + 1 < n
          BY <1>1, <2>1, <3>1
        <4> QED
          BY <1>1, <4>1
      <3>2. moved \in [0..(c - 1) -> S \cup {NullItem}]
        BY <1>1, <2>5, <3>1
      <3>3. n - 1 \in 0..(c - 1)
        BY <1>1, <2>1
      <3>4. slots \in [0..(c - 1) -> S \cup {NullItem}]
        BY <3>2, <3>3
      <3>5. \A i \in 0..(c - 1) :
               slots[i] = IF i = n - 1 THEN NullItem
                          ELSE IF index <= i /\ i < n - 1 THEN l.items[i + 1] ELSE l.items[i]
        BY <2>5, <3>2, <3>3
      <3> HIDE DEF slots
      <3>6. ASSUME NEW i \in 0..(c - 1) PROVE slots[i] \in S <=> i < n - 1
        <4>1. CASE i = n - 1
          <5>1. slots[i] = NullItem
            BY <3>5, <4>1
          <5>2. ~(i < n - 1)
            BY <1>1, <4>1
          <5> QED
            BY <5>1, <5>2
        <4>2. CASE index <= i /\ i < n - 1
          BY <1>1, <3>1, <3>5, <4>2
        <4>3. CASE i # n - 1 /\ ~(index <= i /\ i < n - 1)
          BY <1>1, <2>1, <3>5, <4>3
        <4> QED
          BY <4>1, <4>2, <4>3
      <3>7. ASSUME NEW i \in 0..(n - 2)
            PROVE  slots[i] = IF i < index THEN l.items[i] ELSE l.items[i + 1]
        <4>1. i \in 0..(c - 1) /\ i # n - 1 /\ i < n - 1
          BY <1>1, <2>1
        <4>2. index <= i <=> ~(i < index)
          BY <1>1, <2>1
        <4> QED
          BY <3>5, <4>1, <4>2
      <3> QED
        BY <3>4, <3>6, <3>7
    <2> HIDE DEF slots
    <2>7. /\ now.items = slots /\ now.count = n - 1 /\ now.capacity = c
          /\ now \in [items : {slots}, count : {n - 1}, capacity : {c}]
      BY <2>3 DEF n, c
    <2>8. r.ok = TRUE /\ r.list = now
      BY <2>2
    <2> HIDE DEF now, r
    <2>9. IsEList(now, S)
      BY <1>1, <2>1, <2>6, <2>7 DEF IsEList
    <2>10. Contents(now) = ListRemove(s, x)
      <3>1. Contents(now) = [k \in 1..(n - 1) |-> slots[k - 1]]
        BY <2>7 DEF Contents
      <3>2. ListRemove(s, x) = [k \in 1..(n - 1) |-> IF k < index + 1 THEN s[k] ELSE s[k + 1]]
        <4>1. ListFind(s, x) # 0
          BY <1>1, <2>1
        <4> QED
          BY <1>1, <2>1, <4>1 DEF ListRemove, ListRemoveAt
      <3>3. ASSUME NEW k \in 1..(n - 1)
            PROVE  slots[k - 1] = IF k < index + 1 THEN s[k] ELSE s[k + 1]
        <4>1. k - 1 \in 0..(n - 2) /\ k \in 1..n /\ k + 1 \in 1..n /\ (k - 1) + 1 = k
              /\ (k - 1 < index <=> k < index + 1) /\ (k + 1) - 1 = k
          BY <1>1, <2>1
        <4>2. slots[k - 1] = IF k < index + 1 THEN l.items[k - 1] ELSE l.items[k]
          BY <2>6, <4>1
        <4>3. s[k] = l.items[k - 1] /\ s[k + 1] = l.items[k]
          BY <1>1, <4>1
        <4> QED
          BY <4>2, <4>3
      <3> QED
        BY <3>1, <3>2, <3>3
    <2> QED
      BY <1>4, <2>8, <2>9, <2>10 DEF RemoveImplements, r, s
  <1> QED
    BY <1>3, <1>4


\* An exchange of two items, of one list or of two, is one in the contents.
THEOREM SwapExchangesContents ==
    ASSUME NEW S, NEW D, NEW lists, lists = [d \in D |-> lists[d]],
           \A d \in D : IsEList(lists[d], S),
           NEW a \in D, NEW b \in D, NEW i \in Int, NEW j \in Int
    PROVE  SwapImplements(lists, a, i, b, j, S)
  <1> DEFINE r == EListSwapOutside(lists, a, i, b, j)
             from == lists[a].items[i]
             to == lists[b].items[j]
             once == [lists EXCEPT ![a].items[i] = to]
             twice == [once EXCEPT ![b].items[j] = from]
             slots(d) == [k \in 0..(lists[d].capacity - 1) |->
                             IF d = b /\ k = j THEN from
                             ELSE IF d = a /\ k = i THEN to ELSE lists[d].items[k]]
  <1>1. CASE i \notin 0..(lists[a].count - 1) \/ j \notin 0..(lists[b].count - 1)
    <2>1. r = [ok |-> FALSE, lists |-> lists]
      BY <1>1 DEF EListSwapOutside
    <2>2. r.ok = FALSE /\ r.lists = lists /\ DOMAIN lists = D
      BY <2>1
    <2> HIDE DEF r
    <2> QED
      BY <2>2 DEF SwapImplements, r
  <1>2. CASE i \in 0..(lists[a].count - 1) /\ j \in 0..(lists[b].count - 1)
    <2>1. r = [ok |-> TRUE, lists |-> twice]
      BY <1>2 DEF EListSwapOutside
    <2>2. \A d \in D :
             /\ lists[d] \in [items : {lists[d].items}, count : {lists[d].count},
                              capacity : {lists[d].capacity}]
             /\ lists[d].items \in [0..(lists[d].capacity - 1) -> S \cup {NullItem}]
             /\ lists[d].count \in Nat /\ lists[d].capacity \in Nat \ {0}
             /\ lists[d].count <= lists[d].capacity
             /\ \A k \in 0..(lists[d].capacity - 1) :
                   lists[d].items[k] \in S <=> k < lists[d].count
      BY DEF IsEList
    <2>3. DOMAIN lists = D
      OBVIOUS
    <2>4. /\ i \in 0..(lists[a].capacity - 1) /\ i < lists[a].count
          /\ j \in 0..(lists[b].capacity - 1) /\ j < lists[b].count
      BY <1>2, <2>2
    <2>5. from \in S /\ to \in S
      BY <2>2, <2>4
    <2> HIDE DEF from, to
    <2>6. ASSUME NEW d \in D
          PROVE  /\ once[d].count = lists[d].count
                 /\ once[d].capacity = lists[d].capacity
                 /\ once[d].items = [k \in 0..(lists[d].capacity - 1) |->
                                       IF d = a /\ k = i THEN to ELSE lists[d].items[k]]
                 /\ once[d] \in [items : {once[d].items}, count : {lists[d].count},
                                 capacity : {lists[d].capacity}]
      <3>1. CASE d = a
        <4>1. once[d] = [lists[d] EXCEPT !.items = [@ EXCEPT ![i] = to]]
          BY <2>3, <3>1
        <4> HIDE DEF once
        <4>2. /\ once[d].count = lists[d].count
              /\ once[d].capacity = lists[d].capacity
              /\ once[d].items = [lists[d].items EXCEPT ![i] = to]
              /\ once[d] \in [items : {once[d].items}, count : {lists[d].count},
                              capacity : {lists[d].capacity}]
          BY <2>2, <4>1
        <4>3. DOMAIN lists[d].items = 0..(lists[d].capacity - 1)
              /\ lists[d].items = [k \in 0..(lists[d].capacity - 1) |-> lists[d].items[k]]
          BY <2>2
        <4>4. [lists[d].items EXCEPT ![i] = to]
                 = [k \in 0..(lists[d].capacity - 1) |->
                       IF d = a /\ k = i THEN to ELSE lists[d].items[k]]
          <5> DEFINE all == lists[d].items
                     top == lists[d].capacity - 1
          <5>1. all = [k \in 0..top |-> all[k]]
            BY <4>3
          <5> HIDE DEF all, top
          <5>2. [all EXCEPT ![i] = to]
                   = [k \in 0..top |-> IF d = a /\ k = i THEN to ELSE all[k]]
            BY <3>1, <5>1
          <5> QED
            BY <5>2 DEF all, top
        <4> QED
          BY <4>2, <4>4
      <3>2. CASE d # a
        <4>1. once[d] = lists[d]
          BY <2>3, <3>2
        <4> HIDE DEF once
        <4> QED
          BY <2>2, <3>2, <4>1
      <3> QED
        BY <3>1, <3>2
    <2>7. DOMAIN once = D
      BY <2>3
    <2> HIDE DEF once
    <2>8. ASSUME NEW d \in D
          PROVE  /\ twice[d].count = lists[d].count
                 /\ twice[d].capacity = lists[d].capacity
                 /\ twice[d].items = slots(d)
                 /\ twice[d] \in [items : {twice[d].items}, count : {lists[d].count},
                                  capacity : {lists[d].capacity}]
      <3>1. CASE d = b
        <4>1. twice[d] = [once[d] EXCEPT !.items = [@ EXCEPT ![j] = from]]
          BY <2>7, <3>1
        <4>2. /\ once[d].items \in [0..(lists[d].capacity - 1) -> S \cup {NullItem}]
              /\ \A k \in 0..(lists[d].capacity - 1) :
                    once[d].items[k] = IF d = a /\ k = i THEN to ELSE lists[d].items[k]
          <5> DEFINE value(k) == IF d = a /\ k = i THEN to ELSE lists[d].items[k]
                     all == once[d].items
          <5>1. all = [k \in 0..(lists[d].capacity - 1) |-> value(k)]
            BY <2>6
          <5>2. \A k \in 0..(lists[d].capacity - 1) : value(k) \in S \cup {NullItem}
            BY <2>2, <2>5
          <5> HIDE DEF value, all
          <5>3. /\ all \in [0..(lists[d].capacity - 1) -> S \cup {NullItem}]
                /\ \A k \in 0..(lists[d].capacity - 1) : all[k] = value(k)
            BY <5>1, <5>2
          <5> QED
            BY <5>3 DEF value, all
        <4> HIDE DEF twice
        <4>3. /\ twice[d].count = lists[d].count
              /\ twice[d].capacity = lists[d].capacity
              /\ twice[d].items = [once[d].items EXCEPT ![j] = from]
              /\ twice[d] \in [items : {twice[d].items}, count : {lists[d].count},
                               capacity : {lists[d].capacity}]
          BY <2>6, <4>1
        <4>4. [once[d].items EXCEPT ![j] = from] = slots(d)
          BY <3>1, <4>2
        <4> HIDE DEF slots
        <4> QED
          BY <4>3, <4>4
      <3>2. CASE d # b
        <4>1. twice[d] = once[d]
          BY <2>7, <3>2
        <4> HIDE DEF twice
        <4> QED
          BY <2>6, <3>2, <4>1
      <3> QED
        BY <3>1, <3>2
    <2> HIDE DEF twice, r
    <2>9. r.ok = TRUE /\ r.lists = twice
      BY <2>1
    <2>10. ASSUME NEW d \in D PROVE IsEList(twice[d], S)
      <3>1. slots(d) \in [0..(lists[d].capacity - 1) -> S \cup {NullItem}]
        BY <2>2, <2>5
      <3>2. \A k \in 0..(lists[d].capacity - 1) : slots(d)[k] \in S <=> k < lists[d].count
        BY <2>2, <2>4, <2>5
      <3> HIDE DEF slots
      <3> QED
        BY <2>2, <2>8, <3>1, <3>2 DEF IsEList
    <2>11. ASSUME NEW d \in D
           PROVE  Contents(twice[d]) = ExchangedContents(lists, a, i, b, j)[d]
      <3> DEFINE n == lists[d].count
                 exchanged(k) == IF d = a /\ k = i + 1 THEN Contents(lists[b])[j + 1]
                                 ELSE IF d = b /\ k = j + 1 THEN Contents(lists[a])[i + 1]
                                 ELSE Contents(lists[d])[k]
      <3>1. Contents(twice[d]) = [k \in 1..n |-> slots(d)[k - 1]]
        BY <2>8 DEF Contents
      <3>2. ExchangedContents(lists, a, i, b, j)[d] = [k \in 1..n |-> exchanged(k)]
        BY <2>3 DEF ExchangedContents
      <3>3. Contents(lists[b])[j + 1] = to /\ Contents(lists[a])[i + 1] = from
        <4>1. \A e \in D : \A k \in 1..lists[e].count :
                 Contents(lists[e])[k] = lists[e].items[k - 1]
          BY DEF Contents
        <4>2. /\ j + 1 \in 1..lists[b].count /\ (j + 1) - 1 = j
              /\ i + 1 \in 1..lists[a].count /\ (i + 1) - 1 = i
          <5>1. lists[a].count \in Nat /\ lists[b].count \in Nat
            BY <2>2
          <5> QED
            BY <2>4, <5>1
        <4> QED
          BY <4>1, <4>2 DEF from, to
      <3>4. ASSUME NEW k \in 1..n PROVE slots(d)[k - 1] = exchanged(k)
        <4>1. k - 1 \in 0..(lists[d].capacity - 1)
              /\ (k - 1 = i <=> k = i + 1) /\ (k - 1 = j <=> k = j + 1)
          BY <2>2
        <4>2. Contents(lists[d])[k] = lists[d].items[k - 1]
          BY DEF Contents
        <4>3. slots(d)[k - 1] = IF d = b /\ k = j + 1 THEN from
                                ELSE IF d = a /\ k = i + 1 THEN to ELSE lists[d].items[k - 1]
          BY <4>1
        <4>4. CASE d = a /\ k = i + 1 /\ d = b /\ k = j + 1
          <5>1. a = b /\ i = j
            BY <4>4
          <5> QED
            BY <3>3, <4>3, <4>4, <5>1 DEF from, to
        <4>5. CASE ~(d = a /\ k = i + 1 /\ d = b /\ k = j + 1)
          <5> HIDE DEF slots
          <5> QED
            BY <3>3, <4>2, <4>3, <4>5
        <4> QED
          BY <4>4, <4>5
      <3> HIDE DEF slots, exchanged
      <3> QED
        BY <3>1, <3>2, <3>4
    <2> QED
      BY <2>3, <2>9, <2>10, <2>11 DEF SwapImplements, r
  <1> QED
    BY <1>1, <1>2

\* e_list_copy_to leaves its target without contents, whatever it copied and reports: the
\* count of the target, which the clearing before set to 0, is never set again.
THEOREM CopyLeavesNothing ==
    ASSUME NEW S, NEW D, NEW lists, lists = [d \in D |-> lists[d]],
           \A d \in D : IsEList(lists[d], S),
           NEW src \in D, NEW dest \in D, NEW memory \in BOOLEAN
    PROVE  CopyEmpties(lists, src, dest, memory)
  <1> DEFINE r == EListCopyTo(lists, src, dest, memory)
             cleared == [lists EXCEPT ![dest] = EListClear(@)]
             room == EnsureCapacity(cleared[dest], cleared[src].count, memory)
             copied == [i \in DOMAIN room.list.items |->
                           IF i < cleared[src].count THEN cleared[src].items[i]
                           ELSE room.list.items[i]]
             copy == [cleared EXCEPT ![dest] = [room.list EXCEPT !.items = copied]]
  <1>1. DOMAIN lists = D
    OBVIOUS
  <1>2. /\ DOMAIN cleared = D
        /\ cleared[dest] = EListClear(lists[dest])
        /\ \A d \in D \ {dest} : cleared[d] = lists[d]
    BY <1>1
  <1>3. lists[dest] \in [items : {lists[dest].items}, count : {lists[dest].count},
                         capacity : {lists[dest].capacity}]
    BY DEF IsEList
  <1>4. /\ cleared[dest].count = 0
        /\ cleared[dest] \in [items : {cleared[dest].items}, count : {0},
                              capacity : {cleared[dest].capacity}]
    BY <1>2, <1>3 DEF EListClear
  <1> HIDE DEF cleared
  <1>5. room.list.count = 0 /\ room.list \in [items : {room.list.items}, count : {0},
                                              capacity : {room.list.capacity}]
    BY <1>4 DEF EnsureCapacity
  <1> HIDE DEF room
  <1>6. r = IF ~room.ok THEN [ok |-> FALSE, lists |-> cleared] ELSE [ok |-> TRUE, lists |-> copy]
    BY DEF EListCopyTo, room, cleared
  <1> HIDE DEF copied
  <1>7. copy[dest].count = 0 /\ \A d \in D \ {dest} : copy[d] = lists[d]
    BY <1>2, <1>5
  <1> HIDE DEF copy, r
  <1>8. r.lists[dest].count = 0 /\ \A d \in D \ {dest} : r.lists[d] = lists[d]
    BY <1>2, <1>4, <1>6, <1>7
  <1>9. Contents(r.lists[dest]) = <<>>
    BY <1>8 DEF Contents
  <1> QED
    BY <1>1, <1>8, <1>9 DEF CopyEmpties, r
=============================================================================
