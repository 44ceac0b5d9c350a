-------------------------- MODULE TilingTree_proofs --------------------------
(***************************************************************************)
(* The invariants of TilingTree, for any views, areas, targets and whole.  *)
(*                                                                         *)
(* ShareOfFirst is a sum over a list of any length.  SumsDefined shows by  *)
(* induction over places that the sums exist and what each makes of the    *)
(* one before; SumsShift, that where the shares of two tilings differ by   *)
(* the same amount, so many places apart, their sums differ accordingly.   *)
(* What removing, dragging and swapping do to the sums are instances of    *)
(* it; inserting makes all shares equal (EqualSums).                       *)
(*                                                                         *)
(* The inductive invariant TInv says that the shares never sum to more     *)
(* than the whole (Shared), and that what is seen is arranged: the boxes   *)
(* are the ones the present shares give.  Rounding loses parts when a      *)
(* share is spread over the other children, so that the shares add up to   *)
(* the whole, and each is one that a child may have, only where there are  *)
(* parts enough (ExactParts); the stronger Exact says of n children that   *)
(* each share can be divided among the others, again and again, and so on  *)
(* down to one: it is a multiple of (n - 1)!.  In the code percentages are *)
(* floating point and stand for reals, for which nothing is lost.          *)
(*                                                                         *)
(* Where children are too many for the minimum, all shares are equal: no   *)
(* two of them together have twice the minimum, which a drag demands, and  *)
(* spreading an equal part makes equal parts (EqualParts, SpreadParts).    *)
(*                                                                         *)
(* Whole pixels are lost between children whatever the parts are; that is  *)
(* less than one pixel between two of them, which needs only DivSum.       *)
(***************************************************************************)
EXTENDS TilingTree, ListOps_proofs, FiniteSetTheorems

\* A tiling has its type, and no child twice.
Typed(tt) == tt \in Tilings /\ NoDuplicates(tt.children)

\* What the type of a tiling says of its fields.
LEMMA TilingFields ==
    ASSUME NEW tt \in Tilings
    PROVE  /\ tt.children \in Seq(Views) /\ tt.share \in [Views -> Nat]
           /\ tt.mode \in {"horizontal", "vertical"} /\ tt.area \in Boxes
           /\ tt.box \in [Views -> Boxes] /\ tt.tiled_area \in Boxes
           /\ tt.fullscreen \in Views \cup {None}
           /\ Len(tt.children) \in Nat /\ DOMAIN tt.children = 1..Len(tt.children)
           /\ \A k \in 1..Len(tt.children) :
                 /\ tt.children[k] \in Views
                 /\ tt.share[tt.children[k]] \in Nat
                 /\ tt.box[tt.children[k]] \in Boxes
           /\ Items(tt.children) \subseteq Views
  <1>1. /\ tt.children \in Seq(Views) /\ tt.share \in [Views -> Nat]
        /\ tt.mode \in {"horizontal", "vertical"} /\ tt.area \in Boxes
        /\ tt.box \in [Views -> Boxes] /\ tt.tiled_area \in Boxes
        /\ tt.fullscreen \in Views \cup {None}
    BY DEF Tilings
  <1>2. /\ Len(tt.children) \in Nat /\ DOMAIN tt.children = 1..Len(tt.children)
        /\ \A k \in 1..Len(tt.children) : tt.children[k] \in Views
    BY <1>1
  <1> QED
    BY <1>1, <1>2 DEF Items

(***************************************************************************)
(* Running sums of the shares                                              *)
(***************************************************************************)

\* The loop of arrange_tree_children adds up one share after the other.
LEMMA SumsDefined ==
    ASSUME NEW tt \in Tilings
    PROVE  /\ ShareOfFirst(tt, 0) = 0
           /\ \A k \in 1..Len(tt.children) :
                 ShareOfFirst(tt, k) = ShareOfFirst(tt, k - 1) + tt.share[tt.children[k]]
           /\ \A k \in 0..Len(tt.children) : ShareOfFirst(tt, k) \in Nat
  <1> DEFINE n == Len(tt.children)
             term == [k \in Nat |-> IF k \in 1..n THEN tt.share[tt.children[k]] ELSE 0]
             step == [p \in Nat \X Nat |-> p[2] + term[p[1]]]
             sum == CHOOSE f : f = [i \in 0..n |-> IF i = 0 THEN 0
                                                   ELSE f[i - 1] + tt.share[tt.children[i]]]
  <1>1. /\ n \in Nat
        /\ \A k \in 1..n : tt.share[tt.children[k]] \in Nat
    BY DEF Tilings
  <1>2. term \in [Nat -> Nat] /\ \A k \in 1..n : term[k] = tt.share[tt.children[k]]
    BY <1>1
  <1> HIDE DEF term
  <1>3. step \in [Nat \X Nat -> Nat]
    <2>1. ASSUME NEW p \in Nat \X Nat PROVE p[2] + term[p[1]] \in Nat
      <3>1. p[1] \in Nat /\ p[2] \in Nat
        OBVIOUS
      <3> QED
        BY <1>2, <3>1, SMTT(30)
    <2> QED
      BY <2>1
  <1>4. PICK f : FollowsUpTo(f, Nat, 0, step, n)
    <2> HIDE DEF step, n
    <2>1. 0 \in Nat
      OBVIOUS
    <2> QED
      BY <1>1, <1>3, <2>1, RecursionUpTo
  <1>5. ASSUME NEW k \in 1..n PROVE f[k] = f[k - 1] + tt.share[tt.children[k]]
    <2>1. f[k - 1] \in Nat /\ <<k, f[k - 1]>> \in Nat \X Nat
      BY <1>1, <1>4 DEF FollowsUpTo
    <2>2. step[<<k, f[k - 1]>>] = f[k - 1] + term[k]
      BY <2>1
    <2> QED
      BY <1>2, <1>4, <2>2 DEF FollowsUpTo
  <1>6. f = [i \in 0..n |-> IF i = 0 THEN 0 ELSE f[i - 1] + tt.share[tt.children[i]]]
    <2> HIDE DEF n, step
    <2> QED
      BY <1>1, <1>4, <1>5 DEF FollowsUpTo
  <1>7. sum = [i \in 0..n |-> IF i = 0 THEN 0 ELSE sum[i - 1] + tt.share[tt.children[i]]]
    <2> HIDE DEF n
    <2> QED
      BY <1>6
  <1>8. \A k : ShareOfFirst(tt, k) = sum[k]
    BY DEF ShareOfFirst
  <1> HIDE DEF sum, n
  <1>9. /\ sum[0] = 0
        /\ \A k \in 1..n : sum[k] = sum[k - 1] + tt.share[tt.children[k]]
    BY <1>1, <1>7
  <1>10. \A k \in 0..n : sum[k] \in Nat
    <2> DEFINE T == {k \in 0..n : sum[k] \in Nat}
    <2>1. 0 \in T
      BY <1>1, <1>9
    <2>2. ASSUME NEW k \in 1..n, k - 1 \in T PROVE k \in T
      BY <1>1, <1>9, <2>2
    <2> HIDE DEF T
    <2>3. 0..n \subseteq T
      BY <1>1, <2>1, <2>2, UpTo
    <2> QED
      BY <2>3 DEF T
  <1> QED
    BY <1>8, <1>9, <1>10 DEF n

\* A step of a running sum, with its terms named.
LEMMA AddUp ==
    ASSUME NEW A \in Int, NEW B \in Int, NEW c \in Int, NEW d \in Int, NEW e \in Int,
           NEW m \in Int, NEW p \in Int, NEW X, NEW Y,
           p = m + e, A = B + d + m, X = A + (c + e), Y = B + c
    PROVE  X = Y + d + p
  OBVIOUS

\* The shares behind place lo up to hi differ by e from those o places further on.
SharesApart(u, tt, o, e, lo, hi) ==
    \A k \in (lo + 1)..hi : u.share[u.children[k]] = tt.share[tt.children[k + o]] + e

SumsApart(u, tt, o, d, e, lo, hi) ==
    \A k \in lo..hi : ShareOfFirst(u, k) = ShareOfFirst(tt, k + o) + d + (k - lo) * e

\* Two tilings whose shares differ by the same amount e, place by place and o places
\* apart, have sums that differ accordingly.
LEMMA SumsShift ==
    ASSUME NEW u \in Tilings, NEW tt \in Tilings, NEW o \in Nat, NEW d \in Int, NEW e \in Int,
           NEW lo \in Nat, NEW hi \in Nat, lo <= hi,
           hi <= Len(u.children), hi + o <= Len(tt.children),
           ShareOfFirst(u, lo) = ShareOfFirst(tt, lo + o) + d,
           SharesApart(u, tt, o, e, lo, hi)
    PROVE  SumsApart(u, tt, o, d, e, lo, hi)
  <1> DEFINE T == {i \in 0..(hi - lo) :
                      ShareOfFirst(u, lo + i) = ShareOfFirst(tt, lo + i + o) + d + i * e}
  <1>1. Len(u.children) \in Nat /\ Len(tt.children) \in Nat
    BY DEF Tilings
  <1>2. 0 \in T
    BY SumsDefined, <1>1, SMTT(30)
  <1>3. ASSUME NEW i \in 1..(hi - lo), i - 1 \in T PROVE i \in T
    <2> DEFINE k == lo + i
    <2>1. k \in (lo + 1)..hi /\ k \in 1..Len(u.children) /\ k + o \in 1..Len(tt.children)
      BY <1>1
    <2>2. u.share[u.children[k]] = tt.share[tt.children[k + o]] + e
      BY <2>1 DEF SharesApart
    <2> k \in Nat /\ k - 1 \in 0..Len(u.children) /\ k + o - 1 \in 0..Len(tt.children)
      <3> HIDE DEF k
      <3> QED
        BY <2>1, <1>1
    <2>3. /\ ShareOfFirst(u, k) = ShareOfFirst(u, k - 1) + u.share[u.children[k]]
          /\ ShareOfFirst(u, k - 1) \in Nat
      <3> HIDE DEF k
      <3> QED
        BY <2>1, SumsDefined
    <2>4. /\ ShareOfFirst(tt, k + o) = ShareOfFirst(tt, k + o - 1) + tt.share[tt.children[k + o]]
          /\ ShareOfFirst(tt, k + o - 1) \in Nat
      <3> DEFINE p == k + o
      <3> p \in 1..Len(tt.children) /\ p - 1 \in 0..Len(tt.children)
        <4> HIDE DEF k
        <4> QED
          BY <2>1, <1>1
      <3> HIDE DEF p
      <3>1. /\ ShareOfFirst(tt, p) = ShareOfFirst(tt, p - 1) + tt.share[tt.children[p]]
            /\ ShareOfFirst(tt, p - 1) \in Nat
        BY SumsDefined
      <3> QED
        BY <3>1 DEF p
    <2> tt.share[tt.children[k + o]] \in Nat
      <3> HIDE DEF k
      <3> QED
        BY <2>1, TilingFields
    <2>5. k - 1 = lo + (i - 1) /\ k + o - 1 = lo + (i - 1) + o
      BY <2>1
    <2>6. ShareOfFirst(u, k - 1) = ShareOfFirst(tt, k + o - 1) + d + (i - 1) * e
      BY <1>3, <2>5
    <2>7. (i - 1) * e + e = i * e
      OBVIOUS
    <2>8. (i - 1) * e \in Int /\ i * e \in Int
      OBVIOUS
    <2>9. ShareOfFirst(u, k) = ShareOfFirst(tt, k + o) + d + i * e
      <3> DEFINE m == (i - 1) * e
                 A == ShareOfFirst(u, k - 1)
                 B == ShareOfFirst(tt, k + o - 1)
                 c == tt.share[tt.children[k + o]]
                 p == i * e
                 X == ShareOfFirst(u, k)
                 Y == ShareOfFirst(tt, k + o)
      <3> HIDE DEF k
      <3>1. p = m + e /\ m \in Int /\ p \in Int
        BY <2>7, <2>8
      <3> HIDE DEF m, p
      <3>2. A \in Nat /\ B \in Nat /\ c \in Nat
        BY <2>3, <2>4
      <3>3. A = B + d + m
        BY <2>6 DEF m
      <3>4. X = A + (c + e) /\ Y = B + c
        BY <2>2, <2>3, <2>4
      <3>5. X = Y + d + p
        <4> HIDE DEF A, B, c, X, Y
        <4> QED
          BY <3>1, <3>2, <3>3, <3>4, AddUp, SMTT(30)
      <3> QED
        BY <3>5 DEF p
    <2> QED
      BY <2>9
  <1> HIDE DEF T
  <1>4. 0..(hi - lo) \subseteq T
    <2>1. hi - lo \in Nat
      OBVIOUS
    <2> QED
      BY <1>2, <1>3, <2>1, UpTo
  <1>5. ASSUME NEW k \in lo..hi
        PROVE  ShareOfFirst(u, k) = ShareOfFirst(tt, k + o) + d + (k - lo) * e
    <2>1. k - lo \in T
      BY <1>4
    <2>2. lo + (k - lo) = k
      OBVIOUS
    <2> QED
      BY <2>1, <2>2 DEF T
  <1> QED
    BY <1>5 DEF SumsApart

\* Where the shares agree, the sums agree.
LEMMA SumsAgree ==
    ASSUME NEW u \in Tilings, NEW tt \in Tilings, NEW lo \in Nat, NEW hi \in Nat, lo <= hi,
           hi <= Len(u.children), hi <= Len(tt.children),
           ShareOfFirst(u, lo) = ShareOfFirst(tt, lo),
           \A k \in (lo + 1)..hi : u.share[u.children[k]] = tt.share[tt.children[k]]
    PROVE  \A k \in lo..hi : ShareOfFirst(u, k) = ShareOfFirst(tt, k)
  <1>1. Len(tt.children) \in Nat
    BY DEF Tilings
  <1>2. \A k \in lo..hi : ShareOfFirst(tt, k) \in Nat
    <2>1. \A k \in lo..hi : k \in 0..Len(tt.children)
      BY <1>1
    <2> QED
      BY <2>1, SumsDefined
  <1> DEFINE z == 0
  <1>3. z \in Nat /\ z \in Int /\ z = 0 /\ \A k \in Int : k + z = k /\ k * z = 0
    OBVIOUS
  <1> HIDE DEF z
  <1>4. ASSUME NEW k \in (lo + 1)..hi
        PROVE  u.share[u.children[k]] = tt.share[tt.children[k + z]] + z
    <2>1. k \in 1..Len(tt.children) /\ k + z = k
      BY <1>1, <1>3
    <2>2. tt.share[tt.children[k]] \in Nat
      BY <2>1, TilingFields
    <2> QED
      BY <1>3, <2>1, <2>2
  <1>5. ShareOfFirst(u, lo) = ShareOfFirst(tt, lo + z) + z /\ hi + z <= Len(tt.children)
    <2>1. lo \in lo..hi /\ lo + z = lo /\ hi + z = hi
      BY <1>3
    <2> QED
      BY <1>1, <1>2, <1>3, <2>1
  <1>6. SumsApart(u, tt, z, z, z, lo, hi)
    <2>1. SharesApart(u, tt, z, z, lo, hi)
      BY <1>4 DEF SharesApart
    <2> QED
      BY <1>3, <1>5, <2>1, SumsShift
  <1>7. ASSUME NEW k \in lo..hi PROVE ShareOfFirst(u, k) = ShareOfFirst(tt, k)
    <2>1. k + z = k /\ (k - lo) * z = 0 /\ ShareOfFirst(tt, k) + z + 0 = ShareOfFirst(tt, k)
      BY <1>2, <1>3
    <2> QED
      BY <1>2, <1>6, <2>1 DEF SumsApart
  <1> QED
    BY <1>7

(***************************************************************************)
(* Whole pixels and whole parts                                            *)
(***************************************************************************)

\* Rounding down, and what it leaves.
LEMMA DivIs ==
    ASSUME NEW a \in Int, NEW d \in Nat \ {0}, NEW q \in Int, d * q <= a, a < d * q + d
    PROVE  a \div d = q
  OBVIOUS

LEMMA DivBounds ==
    ASSUME NEW a \in Int, NEW d \in Nat \ {0}
    PROVE  /\ a \div d \in Int
           /\ d * (a \div d) <= a
           /\ a < d * (a \div d) + d
  OBVIOUS

LEMMA DivNat ==
    ASSUME NEW a \in Nat, NEW d \in Nat \ {0}
    PROVE  a \div d \in Nat
  OBVIOUS

\* Two parts rounded down are together at most one less than their sum rounded down.
LEMMA DivSum ==
    ASSUME NEW a \in Int, NEW b \in Int, NEW d \in Nat \ {0}
    PROVE  (a + b) \div d - a \div d - b \div d \in {0, 1}
  OBVIOUS

LEMMA DivExact ==
    ASSUME NEW m \in Int, NEW d \in Nat \ {0}
    PROVE  (m * d) \div d = m
  OBVIOUS

\* x is a whole number of parts of size d.
Divides(d, x) == \E m \in Int : x = m * d

\* Whole parts stay whole when added, subtracted and taken in parts.
LEMMA DividesMod ==
    ASSUME NEW x \in Int, NEW d \in Nat \ {0}, x % d = 0
    PROVE  Divides(d, x)
  <1>1. x = d * (x \div d) + (x % d) /\ x \div d \in Int
    OBVIOUS
  <1>2. x = (x \div d) * d
    BY <1>1
  <1> QED
    BY <1>1, <1>2 DEF Divides

LEMMA DividesSum ==
    ASSUME NEW x \in Int, NEW y \in Int, NEW d \in Nat \ {0}, Divides(d, x), Divides(d, y)
    PROVE  Divides(d, x + y) /\ Divides(d, x - y)
  <1>1. PICK p \in Int : x = p * d
    BY DEF Divides
  <1>2. PICK q \in Int : y = q * d
    BY DEF Divides
  <1>3. x + y = (p + q) * d /\ x - y = (p - q) * d
    BY <1>1, <1>2
  <1>4. p + q \in Int /\ p - q \in Int
    OBVIOUS
  <1> QED
    BY <1>3, <1>4 DEF Divides

LEMMA DividesParts ==
    ASSUME NEW x \in Int, NEW c \in Int, NEW d \in Nat \ {0}, Divides(c * d, x)
    PROVE  Divides(d, x)
  <1>1. PICK m \in Int : x = m * (c * d)
    BY DEF Divides
  <1>2. x = (m * c) * d /\ m * c \in Int
    BY <1>1
  <1> QED
    BY <1>2 DEF Divides

\* The factorials of Combinatorics, which exist by recursion.
LEMMA FactorialNext ==
    /\ factorial[0] = 1
    /\ \A n \in Nat \ {0} : factorial[n] = n * factorial[n - 1]
    /\ \A n \in Nat : factorial[n] \in Nat \ {0}
  <1> DEFINE step == [p \in Nat \X Nat |-> p[1] * p[2]]
  <1>1. step \in [Nat \X Nat -> Nat]
    OBVIOUS
  <1>2. PICK f : FollowsOnNat(f, Nat, 1, step)
    <2> HIDE DEF step
    <2>1. 1 \in Nat
      OBVIOUS
    <2> QED
      BY <1>1, <2>1, Recursion
  <1>3. ASSUME NEW k \in Nat \ {0} PROVE f[k] = k * f[k - 1]
    <2>1. <<k, f[k - 1]>> \in Nat \X Nat
      BY <1>2 DEF FollowsOnNat
    <2>2. step[<<k, f[k - 1]>>] = k * f[k - 1]
      BY <2>1
    <2> QED
      BY <1>2, <2>2 DEF FollowsOnNat
  <1>4. f = [n \in Nat |-> IF n = 0 THEN 1 ELSE n * f[n - 1]]
    BY <1>2, <1>3 DEF FollowsOnNat
  <1>5. factorial = [n \in Nat |-> IF n = 0 THEN 1 ELSE n * factorial[n - 1]]
    BY <1>4 DEF factorial
  <1>6. \A n \in Nat : factorial[n] = IF n = 0 THEN 1 ELSE n * factorial[n - 1]
    BY <1>5, Zenon
  <1>7. \A n \in Nat \ {0} : factorial[n] = n * factorial[n - 1]
    BY <1>6
  <1>8. factorial[0] = 1
    BY <1>6
  <1>9. ASSUME NEW n \in Nat PROVE factorial[n] \in Nat \ {0}
    <2> DEFINE T == {k \in Nat : factorial[k] \in Nat \ {0}}
    <2>1. 0 \in T
      BY <1>8
    <2>2. ASSUME NEW k \in 1..n, k - 1 \in T PROVE k \in T
      <3>1. /\ factorial[k] = k * factorial[k - 1]
            /\ k \in Nat \ {0} /\ factorial[k - 1] \in Nat \ {0}
        BY <1>7, <2>2
      <3>2. \A p, q \in Nat \ {0} : p * q \in Nat \ {0}
        OBVIOUS
      <3> QED
        BY <3>1, <3>2
    <2> HIDE DEF T
    <2>3. n \in T
      BY <2>1, <2>2, UpTo
    <2> QED
      BY <2>3 DEF T
  <1> QED
    BY <1>7, <1>8, <1>9

(***************************************************************************)
(* Inserting and removing                                                  *)
(***************************************************************************)

\* e_tree_container_insert_container.
LEMMA InsertFields ==
    ASSUME NEW tt, Typed(tt), NEW v \in Views, v \notin Items(tt.children)
    PROVE  LET u == InsertChild(tt, v)
               n == Len(tt.children) + 1
           IN  /\ Typed(u)
               /\ u.children = Append(tt.children, v)
               /\ Len(u.children) = n
               /\ \A x \in Items(u.children) : u.share[x] = Whole \div n
               /\ u.fullscreen = tt.fullscreen /\ u.tiled_area = tt.tiled_area
               /\ u.area = tt.area /\ u.mode = tt.mode
  <1> DEFINE u == InsertChild(tt, v)
             now == Append(tt.children, v)
             n == Len(tt.children) + 1
             share == [x \in Views |-> IF x \in Items(now) THEN Whole \div Len(now)
                                       ELSE tt.share[x]]
  <1>1. tt \in Tilings /\ NoDuplicates(tt.children)
    BY DEF Typed
  <1>2. now \in Seq(Views) /\ NoDuplicates(now) /\ Len(now) = n /\ n \in Nat \ {0}
    BY <1>1, TilingFields, AppendItems
  <1>3. Whole \div n \in Nat
    BY <1>2, DivNat, TilingAssumption
  <1>4. u = [tt EXCEPT !.children = now, !.share = share]
    BY DEF InsertChild
  <1> HIDE DEF u, now, n
  <1>5. share \in [Views -> Nat]
    BY <1>1, <1>2, <1>3, TilingFields
  <1>6. \A x \in Items(now) : x \in Views /\ share[x] = Whole \div n
    BY <1>2 DEF Items
  <1> HIDE DEF share
  <1>7. /\ u \in Tilings
        /\ u.children = now /\ u.share = share
        /\ u.fullscreen = tt.fullscreen /\ u.tiled_area = tt.tiled_area
        /\ u.area = tt.area /\ u.mode = tt.mode
    BY <1>1, <1>2, <1>4, <1>5 DEF Tilings
  <1> QED
    BY <1>2, <1>6, <1>7 DEF Typed, u, now, n

\* n equal shares.
LEMMA EqualSums ==
    ASSUME NEW u \in Tilings, NEW q \in Nat, \A x \in Items(u.children) : u.share[x] = q
    PROVE  \A k \in 0..Len(u.children) : ShareOfFirst(u, k) = k * q
  <1> DEFINE n == Len(u.children)
             T == {k \in 0..n : ShareOfFirst(u, k) = k * q}
  <1>1. n \in Nat /\ \A k \in 1..n : u.share[u.children[k]] = q
    BY TilingFields DEF Items
  <1>2. 0 \in T
    BY <1>1, SumsDefined
  <1>3. ASSUME NEW k \in 1..n, k - 1 \in T PROVE k \in T
    <2>1. ShareOfFirst(u, k) = ShareOfFirst(u, k - 1) + q
      BY <1>1, SumsDefined
    <2>2. (k - 1) * q + q = k * q
      OBVIOUS
    <2> QED
      BY <1>3, <2>1, <2>2
  <1> HIDE DEF T, n
  <1>4. 0..n \subseteq T
    BY <1>1, <1>2, <1>3, UpTo
  <1> QED
    BY <1>4 DEF T, n

\* Where the item at position p is removed the items behind it move up.
LEMMA RemovePlaces ==
    ASSUME NEW S, NEW s \in Seq(S), NoDuplicates(s), NEW p \in 1..Len(s)
    PROVE  /\ Len(ListRemove(s, s[p])) = Len(s) - 1
           /\ \A k \in 1..(Len(s) - 1) :
                 ListRemove(s, s[p])[k] = IF k < p THEN s[k] ELSE s[k + 1]
  <1> DEFINE x == s[p]
             n == Len(s)
  <1>1. n \in Nat /\ DOMAIN s = 1..n /\ x \in Items(s)
    BY DEF Items
  <1>2. ListFind(s, x) \in 1..n /\ s[ListFind(s, x)] = s[p]
    BY <1>1, FindPosition
  <1>3. ListFind(s, x) = p /\ p # 0
    BY <1>1, <1>2 DEF NoDuplicates
  <1>4. ListRemove(s, x) = [k \in 1..(n - 1) |-> IF k < p THEN s[k] ELSE s[k + 1]]
    BY <1>3 DEF ListRemove, ListRemoveAt
  <1> HIDE DEF x, n
  <1>5. n - 1 \in Nat
    BY <1>1 DEF n
  <1>6. Len(ListRemove(s, x)) = n - 1
    BY <1>4, <1>5
  <1> QED
    BY <1>4, <1>6 DEF x, n

\* e_tree_container_remove_container: what is left of the tree.
LEMMA RemoveFields ==
    ASSUME NEW tt, Typed(tt), NEW p \in 1..Len(tt.children)
    PROVE  LET v == tt.children[p]
               u == RemoveChild(tt, v)
               n == Len(tt.children) - 1
           IN  /\ Typed(u)
               /\ Len(u.children) = n
               /\ \A k \in 1..n :
                     u.children[k] = IF k < p THEN tt.children[k] ELSE tt.children[k + 1]
               /\ Items(u.children) = Items(tt.children) \ {v}
               /\ \A x \in Items(u.children) : u.share[x] = tt.share[x] + (tt.share[v] \div n)
               /\ u.fullscreen = tt.fullscreen /\ u.tiled_area = tt.tiled_area
               /\ u.area = tt.area /\ u.mode = tt.mode
  <1> DEFINE v == tt.children[p]
             u == RemoveChild(tt, v)
             now == ListRemove(tt.children, v)
             n == Len(tt.children) - 1
             share == [x \in Views |-> IF x \in Items(now)
                                       THEN tt.share[x] + (tt.share[v] \div Len(now)) ELSE 0]
  <1>1. tt \in Tilings /\ NoDuplicates(tt.children) /\ v \in Views
    BY TilingFields DEF Typed
  <1>2. /\ now \in Seq(Views) /\ NoDuplicates(now)
        /\ Items(now) = Items(tt.children) \ {v}
    BY <1>1, TilingFields, RemoveItems
  <1>3. /\ Len(now) = n /\ n \in Nat
        /\ \A k \in 1..n : now[k] = IF k < p THEN tt.children[k] ELSE tt.children[k + 1]
    <2>1. /\ tt.children \in Seq(Views) /\ Len(tt.children) \in Nat /\ p \in Nat
          /\ 1 <= p /\ p <= Len(tt.children)
      BY <1>1, TilingFields
    <2>2. /\ Len(now) = Len(tt.children) - 1
          /\ \A k \in 1..(Len(tt.children) - 1) :
                now[k] = IF k < p THEN tt.children[k] ELSE tt.children[k + 1]
      <3> DEFINE s == tt.children
      <3>1. s \in Seq(Views) /\ NoDuplicates(s) /\ p \in 1..Len(s)
        BY <1>1, <2>1
      <3> HIDE DEF s
      <3>2. /\ Len(ListRemove(s, s[p])) = Len(s) - 1
            /\ \A k \in 1..(Len(s) - 1) :
                  ListRemove(s, s[p])[k] = IF k < p THEN s[k] ELSE s[k + 1]
        BY <3>1, RemovePlaces
      <3> QED
        BY <3>2 DEF s
    <2>3. n \in Nat
      BY <2>1
    <2> HIDE DEF now
    <2> QED
      BY <2>2, <2>3
  <1>4. u = [tt EXCEPT !.children = now, !.share = share, !.box[v] = NoBox]
    BY DEF RemoveChild
  <1> HIDE DEF u, now, n, v
  <1>5. \A x \in Items(now) : x \in Views /\ n # 0
    BY <1>2, <1>3 DEF Items
  <1>6. share \in [Views -> Nat]
    <2>1. ASSUME NEW x \in Views, x \in Items(now)
          PROVE  tt.share[x] + (tt.share[v] \div Len(now)) \in Nat
      <3>1. tt.share[x] \in Nat /\ tt.share[v] \in Nat /\ n \in Nat \ {0}
        BY <1>1, <1>3, <1>5, <2>1, TilingFields
      <3>2. tt.share[v] \div n \in Nat
        BY <3>1, DivNat
      <3> QED
        BY <1>3, <3>1, <3>2
    <2> QED
      BY <2>1
  <1>7. \A x \in Items(now) : share[x] = tt.share[x] + (tt.share[v] \div n)
    BY <1>3, <1>5
  <1> HIDE DEF share
  <1>8. [tt.box EXCEPT ![v] = NoBox] \in [Views -> Boxes]
    BY <1>1, TilingFields DEF NoBox, Boxes
  <1>9. /\ u \in Tilings
        /\ u.children = now /\ u.share = share
        /\ u.fullscreen = tt.fullscreen /\ u.tiled_area = tt.tiled_area
        /\ u.area = tt.area /\ u.mode = tt.mode
    BY <1>1, <1>2, <1>4, <1>6, <1>8 DEF Tilings
  <1> QED
    BY <1>2, <1>3, <1>7, <1>9 DEF Typed, u, now, n, v

\* The children keep what they had and get what the removed one leaves, in equal parts.
LEMMA RemoveSum ==
    ASSUME NEW tt, Typed(tt), NEW p \in 1..Len(tt.children), Len(tt.children) > 1
    PROVE  LET v == tt.children[p]
               u == RemoveChild(tt, v)
               n == Len(tt.children) - 1
           IN  ShareOfFirst(u, n) = ShareOfFirst(tt, n + 1) - tt.share[v]
                                        + n * (tt.share[v] \div n)
  <1> DEFINE v == tt.children[p]
             u == RemoveChild(tt, v)
             n == Len(tt.children) - 1
             e == tt.share[v] \div n
             d == (p - 1) * e - tt.share[v]
             lo == p - 1
             z == 0
             i == 1
  <1>1. tt \in Tilings /\ n \in Nat \ {0} /\ Len(tt.children) = n + 1 /\ tt.share[v] \in Nat
    BY TilingFields DEF Typed
  <1>2. /\ u \in Tilings /\ Len(u.children) = n
        /\ \A k \in 1..n :
              u.children[k] = IF k < p THEN tt.children[k] ELSE tt.children[k + 1]
        /\ \A x \in Items(u.children) : u.share[x] = tt.share[x] + e
    BY RemoveFields DEF Typed
  <1>3. e \in Nat
    BY <1>1, DivNat
  <1> HIDE DEF u, n, v, e
  <1>4. \A k \in 1..n : u.share[u.children[k]] = tt.share[u.children[k]] + e
    <2>1. \A k \in 1..n : u.children[k] \in Items(u.children)
      BY <1>2, TilingFields DEF Items
    <2> QED
      BY <1>2, <2>1
  <1>5. /\ lo \in Nat /\ lo <= n /\ p \in Nat /\ p = lo + 1 /\ z \in Nat /\ z \in Int /\ z = 0
        /\ i \in Nat /\ i = 1
    BY <1>1
  <1> HIDE DEF z, lo, i
  <1>6. /\ ShareOfFirst(u, z) = 0 /\ ShareOfFirst(tt, z) = 0
        /\ \A k \in 0..(n + 1) : ShareOfFirst(tt, k) \in Nat
        /\ ShareOfFirst(tt, p) = ShareOfFirst(tt, lo) + tt.share[v]
    BY <1>1, <1>2, <1>5, SumsDefined DEF v
  <1>7. SumsApart(u, tt, z, z, e, z, lo)
    <2>1. SharesApart(u, tt, z, e, z, lo)
      <3> SUFFICES ASSUME NEW k \in (z + 1)..lo
                   PROVE  u.share[u.children[k]] = tt.share[tt.children[k + z]] + e
        BY DEF SharesApart
      <3>1. k \in 1..n /\ k < p /\ k + z = k
        BY <1>1, <1>5
      <3> QED
        BY <1>2, <1>4, <3>1
    <2>2. ShareOfFirst(u, z) = ShareOfFirst(tt, z + z) + z
      BY <1>5, <1>6
    <2>3. z <= lo /\ lo <= Len(u.children) /\ lo + z <= Len(tt.children)
      BY <1>1, <1>2, <1>5
    <2>4. /\ u \in Tilings /\ tt \in Tilings /\ z \in Nat /\ z \in Int /\ e \in Int
          /\ lo \in Nat
      BY <1>1, <1>2, <1>3, <1>5
    <2> QED
      BY <2>1, <2>2, <2>3, <2>4, SumsShift
  <1>8. ShareOfFirst(u, lo) = ShareOfFirst(tt, lo) + lo * e
    <2>1. lo \in z..lo /\ lo + z = lo /\ lo - z = lo /\ ShareOfFirst(tt, lo) \in Nat
      BY <1>1, <1>5, <1>6
    <2> QED
      BY <1>5, <1>7, <2>1 DEF SumsApart
  <1>9. d \in Int /\ d = lo * e - tt.share[v] /\ lo * e \in Int
    BY <1>1, <1>3, <1>5
  <1> HIDE DEF d
  <1>10. SumsApart(u, tt, i, d, e, lo, n)
    <2>1. SharesApart(u, tt, i, e, lo, n)
      <3> SUFFICES ASSUME NEW k \in (lo + 1)..n
                   PROVE  u.share[u.children[k]] = tt.share[tt.children[k + i]] + e
        BY DEF SharesApart
      <3>1. k \in 1..n /\ ~(k < p) /\ k + i = k + 1
        BY <1>1, <1>5
      <3> QED
        BY <1>2, <1>4, <3>1
    <2>2. ShareOfFirst(u, lo) = ShareOfFirst(tt, lo + i) + d
      <3>1. lo + i = p /\ ShareOfFirst(tt, lo) \in Nat
        BY <1>1, <1>5, <1>6
      <3> QED
        BY <1>1, <1>6, <1>8, <1>9, <3>1
    <2>3. n <= Len(u.children) /\ n + i <= Len(tt.children)
      BY <1>1, <1>2, <1>5
    <2>4. /\ u \in Tilings /\ tt \in Tilings /\ i \in Nat /\ d \in Int /\ e \in Int
          /\ lo \in Nat /\ n \in Nat /\ lo <= n
      BY <1>1, <1>2, <1>3, <1>5, <1>9
    <2> QED
      BY <2>1, <2>2, <2>3, <2>4, SumsShift
  <1>11. ShareOfFirst(u, n) = ShareOfFirst(tt, n + 1) + d + (n - lo) * e
    <2>1. n \in lo..n /\ n + i = n + 1
      BY <1>1, <1>5
    <2> QED
      BY <1>10, <2>1 DEF SumsApart
  <1>12. lo * e + (n - lo) * e = n * e /\ (n - lo) * e \in Int /\ n * e \in Int
    BY <1>1, <1>3, <1>5
  <1>13. ShareOfFirst(u, n) = ShareOfFirst(tt, n + 1) - tt.share[v] + n * e
    <2>1. ShareOfFirst(tt, n + 1) \in Nat
      BY <1>1, <1>6
    <2> QED
      BY <1>1, <1>9, <1>11, <1>12, <2>1
  <1> QED
    BY <1>13 DEF u, n, v, e

(***************************************************************************)
(* Dragging and swapping                                                   *)
(***************************************************************************)

\* What e_container_resize_tiled does to the two shares.
LEMMA ResizeFields ==
    ASSUME NEW tt, Typed(tt), NEW i \in 1..Len(tt.children), NEW j \in 1..Len(tt.children),
           i # j, NEW percentage \in Int
    PROVE  LET v == tt.children[i]
               sibling == tt.children[j]
               u == ResizeTiled(tt, v, sibling, percentage)
               total == tt.share[v] + tt.share[sibling]
           IN  /\ Typed(u)
               /\ u.children = tt.children
               /\ u.fullscreen = tt.fullscreen /\ u.tiled_area = tt.tiled_area
               /\ u.area = tt.area /\ u.mode = tt.mode /\ u.box = tt.box
               /\ \A k \in 1..Len(tt.children) \ {i, j} :
                     u.share[tt.children[k]] = tt.share[tt.children[k]]
               /\ u.share[v] + u.share[sibling] = total
               /\ \/ u.share = tt.share
                  \/ /\ u.share[v] >= Minimum /\ u.share[sibling] >= Minimum
                     /\ u.share[v] \in {percentage, Minimum, total - Minimum}
  <1> DEFINE v == tt.children[i]
             sibling == tt.children[j]
             u == ResizeTiled(tt, v, sibling, percentage)
             total == tt.share[v] + tt.share[sibling]
             given == Clamped(percentage, total)
             share == [tt.share EXCEPT ![v] = given, ![sibling] = total - given]
  <1>1. /\ tt \in Tilings /\ NoDuplicates(tt.children) /\ DOMAIN tt.children = 1..Len(tt.children)
        /\ v \in Views /\ sibling \in Views /\ tt.share \in [Views -> Nat]
        /\ tt.share[v] \in Nat /\ tt.share[sibling] \in Nat
    BY TilingFields DEF Typed
  <1>2. /\ v # sibling
        /\ \A k \in 1..Len(tt.children) \ {i, j} :
              tt.children[k] # v /\ tt.children[k] # sibling
    BY <1>1 DEF NoDuplicates
  <1>3. total \in Nat /\ Minimum \in Nat
    BY <1>1, TilingAssumption
  <1>4. CASE total < 2 * Minimum
    <2>1. u = tt
      BY <1>4 DEF ResizeTiled
    <2> QED
      BY <2>1, <1>1
  <1>5. CASE ~(total < 2 * Minimum)
    <2>1. u = [tt EXCEPT !.share = share]
      <3>1. u = [tt EXCEPT !.share[v] = given, !.share[sibling] = total - given]
        BY <1>5 DEF ResizeTiled
      <3> HIDE DEF given, total, v, sibling, u
      <3> QED
        BY <3>1, <1>1 DEF Tilings
    <2> HIDE DEF u, total, v, sibling
    <2>2. /\ given \in Nat /\ total - given \in Nat
          /\ given >= Minimum /\ total - given >= Minimum
          /\ given \in {percentage, Minimum, total - Minimum}
      BY <1>3, <1>5 DEF Clamped
    <2> HIDE DEF given
    <2>3. /\ share \in [Views -> Nat] /\ share[v] = given /\ share[sibling] = total - given
          /\ \A x \in Views \ {v, sibling} : share[x] = tt.share[x]
      BY <1>1, <1>2, <2>2
    <2> HIDE DEF share
    <2>4. /\ u \in Tilings /\ u.share = share
          /\ u.children = tt.children
          /\ u.fullscreen = tt.fullscreen /\ u.tiled_area = tt.tiled_area
          /\ u.area = tt.area /\ u.mode = tt.mode /\ u.box = tt.box
      BY <1>1, <2>1, <2>3 DEF Tilings
    <2>5. \A k \in 1..Len(tt.children) \ {i, j} :
             u.share[tt.children[k]] = tt.share[tt.children[k]]
      BY <1>1, <1>2, <2>3, <2>4, TilingFields
    <2>6. u.share[v] + u.share[sibling] = total
      BY <1>3, <2>2, <2>3, <2>4
    <2>7. /\ u.share[v] >= Minimum /\ u.share[sibling] >= Minimum
          /\ u.share[v] \in {percentage, Minimum, total - Minimum}
      BY <2>2, <2>3, <2>4
    <2> QED
      BY <1>1, <2>4, <2>5, <2>6, <2>7 DEF Typed, total, v, sibling, u
  <1> QED
    BY <1>4, <1>5

\* Two shares side by side that keep their sum leave all sums but the one between them.
LEMMA TwoShares ==
    ASSUME NEW u \in Tilings, NEW tt \in Tilings, u.children = tt.children,
           NEW lo \in 1..(Len(tt.children) - 1),
           \A k \in 1..Len(tt.children) \ {lo, lo + 1} :
              u.share[tt.children[k]] = tt.share[tt.children[k]],
           u.share[tt.children[lo]] + u.share[tt.children[lo + 1]]
              = tt.share[tt.children[lo]] + tt.share[tt.children[lo + 1]]
    PROVE  \A k \in 0..Len(tt.children) :
              k # lo => ShareOfFirst(u, k) = ShareOfFirst(tt, k)
  <1> DEFINE n == Len(tt.children)
             z == 0
             before == lo - 1
             after == lo + 1
  <1>1. n \in Nat /\ lo \in Nat /\ lo \in 1..n /\ after \in 1..n /\ before \in 0..n
    BY TilingFields
  <1>2. /\ before \in Nat /\ after \in Nat /\ after <= n /\ n <= Len(u.children)
        /\ before <= Len(u.children) /\ before <= n /\ z \in Nat /\ z = 0 /\ z <= before
    BY <1>1
  <1>3. /\ \A k \in 1..n : ShareOfFirst(u, k) = ShareOfFirst(u, k - 1) + u.share[tt.children[k]]
        /\ \A k \in 1..n : ShareOfFirst(tt, k) = ShareOfFirst(tt, k - 1) + tt.share[tt.children[k]]
        /\ \A k \in 0..n : ShareOfFirst(u, k) \in Nat /\ ShareOfFirst(tt, k) \in Nat
        /\ ShareOfFirst(u, 0) = 0 /\ ShareOfFirst(tt, 0) = 0
    BY SumsDefined
  <1>4. \A k \in 1..n : u.share[tt.children[k]] \in Nat /\ tt.share[tt.children[k]] \in Nat
    BY TilingFields
  <1> HIDE DEF n, z
  <1>5. \A k \in z..before : ShareOfFirst(u, k) = ShareOfFirst(tt, k)
    <2>1. ASSUME NEW k \in (z + 1)..before
          PROVE  u.share[u.children[k]] = tt.share[tt.children[k]]
      <3>1. k \in 1..n /\ k # lo /\ k # lo + 1
        BY <1>1, <1>2
      <3> QED
        BY <3>1 DEF n
    <2>2. ShareOfFirst(u, z) = ShareOfFirst(tt, z)
      BY <1>2, <1>3
    <2> HIDE DEF before, after
    <2> QED
      BY <1>2, <2>1, <2>2, SumsAgree, SMTT(30) DEF n
  <1>6. ShareOfFirst(u, after) = ShareOfFirst(tt, after)
    <2>1. ShareOfFirst(u, before) = ShareOfFirst(tt, before) /\ ShareOfFirst(tt, before) \in Nat
      BY <1>1, <1>2, <1>3, <1>5
    <2>2. /\ ShareOfFirst(u, lo) = ShareOfFirst(u, before) + u.share[tt.children[lo]]
          /\ ShareOfFirst(tt, lo) = ShareOfFirst(tt, before) + tt.share[tt.children[lo]]
      BY <1>1, <1>3
    <2>3. /\ ShareOfFirst(u, after) = ShareOfFirst(u, lo) + u.share[tt.children[after]]
          /\ ShareOfFirst(tt, after) = ShareOfFirst(tt, lo) + tt.share[tt.children[after]]
      <3>1. after - 1 = lo
        BY <1>1
      <3> HIDE DEF after
      <3> QED
        BY <1>1, <1>3, <3>1
    <2>4. /\ u.share[tt.children[lo]] \in Nat /\ tt.share[tt.children[lo]] \in Nat
          /\ u.share[tt.children[after]] \in Nat /\ tt.share[tt.children[after]] \in Nat
      BY <1>1, <1>4
    <2>5. u.share[tt.children[lo]] + u.share[tt.children[after]]
             = tt.share[tt.children[lo]] + tt.share[tt.children[after]]
      OBVIOUS
    <2> HIDE DEF before, after
    <2> QED
      <3>1. (ShareOfFirst(tt, before) + u.share[tt.children[lo]]) + u.share[tt.children[after]]
               = (ShareOfFirst(tt, before) + tt.share[tt.children[lo]])
                    + tt.share[tt.children[after]]
        <4> DEFINE b == ShareOfFirst(tt, before)
                   c == u.share[tt.children[lo]]
                   d == u.share[tt.children[after]]
                   e == tt.share[tt.children[lo]]
                   f == tt.share[tt.children[after]]
        <4>1. b \in Nat /\ c \in Nat /\ d \in Nat /\ e \in Nat /\ f \in Nat /\ c + d = e + f
          BY <2>1, <2>4, <2>5
        <4>2. (b + c) + d = (b + e) + f
          <5> HIDE DEF b, c, d, e, f
          <5> QED
            BY <4>1
        <4> QED
          BY <4>2
      <3> QED
        BY <2>1, <2>2, <2>3, <3>1
  <1>7. \A k \in after..n : ShareOfFirst(u, k) = ShareOfFirst(tt, k)
    <2>1. ASSUME NEW k \in (after + 1)..n
          PROVE  u.share[u.children[k]] = tt.share[tt.children[k]]
      <3>1. k \in 1..n /\ k # lo /\ k # lo + 1
        BY <1>1, <1>2
      <3> QED
        BY <3>1 DEF n
    <2>2. n <= Len(tt.children) /\ n \in Nat
      BY <1>1 DEF n
    <2>3. \A k \in (after + 1)..n : u.share[u.children[k]] = tt.share[tt.children[k]]
      BY <2>1
    <2> HIDE DEF before, after
    <2>4. /\ after \in Nat /\ after <= n /\ n <= Len(u.children)
      BY <1>2
    <2> QED
      BY <1>6, <2>2, <2>3, <2>4, SumsAgree
  <1>8. \A k \in 0..n : k # lo => k \in z..before \/ k \in after..n
    BY <1>1, <1>2
  <1> QED
    BY <1>5, <1>7, <1>8 DEF n

\* swap_tiled_containers leaves the shares where they are and exchanges who has them.
LEMMA SwapFields ==
    ASSUME NEW tt, Typed(tt), NEW i \in 1..Len(tt.children), NEW j \in 1..Len(tt.children),
           i # j
    PROVE  LET u == Swapped(tt, i, j)
           IN  /\ Typed(u)
               /\ Len(u.children) = Len(tt.children)
               /\ Items(u.children) = Items(tt.children)
               /\ u.children[i] = tt.children[j] /\ u.children[j] = tt.children[i]
               /\ \A k \in 1..Len(tt.children) \ {i, j} : u.children[k] = tt.children[k]
               /\ \A k \in 1..Len(tt.children) :
                     u.share[u.children[k]] = tt.share[tt.children[k]]
               /\ u.fullscreen = tt.fullscreen /\ u.tiled_area = tt.tiled_area
               /\ u.area = tt.area /\ u.mode = tt.mode
  <1> DEFINE a == tt.children[i]
             b == tt.children[j]
             s == tt.children
             n == Len(tt.children)
             u == Swapped(tt, i, j)
             now == [tt.children EXCEPT ![i] = b, ![j] = a]
             share == [tt.share EXCEPT ![a] = tt.share[b], ![b] = tt.share[a]]
  <1>1. /\ tt \in Tilings /\ s \in Seq(Views) /\ DOMAIN s = 1..n /\ n \in Nat
        /\ a \in Views /\ b \in Views /\ tt.share \in [Views -> Nat]
        /\ \A k \in 1..n : s[k] \in Views
        /\ \A k, l \in 1..n : s[k] = s[l] => k = l
    BY TilingFields DEF Typed, NoDuplicates
  <1>2. /\ a # b
        /\ \A k \in 1..n \ {i, j} : s[k] # a /\ s[k] # b
    BY <1>1
  <1>3. u = [tt EXCEPT !.children = now, !.share = share]
    <2>1. u = [tt EXCEPT !.children[i] = b, !.children[j] = a,
                         !.share[a] = tt.share[b], !.share[b] = tt.share[a]]
      BY DEF Swapped
    <2> HIDE DEF a, b, u
    <2> QED
      BY <2>1, <1>1 DEF Tilings
  <1> HIDE DEF a, b, u, n
  <1>4. /\ now \in Seq(Views) /\ Len(now) = n /\ DOMAIN now = 1..n
        /\ now[i] = b /\ now[j] = a
        /\ \A k \in 1..n \ {i, j} : now[k] = s[k]
    BY <1>1 DEF n
  <1>5. /\ share \in [Views -> Nat] /\ share[a] = tt.share[b] /\ share[b] = tt.share[a]
        /\ \A x \in Views \ {a, b} : share[x] = tt.share[x]
    BY <1>1, <1>2
  <1>6. s[i] = a /\ s[j] = b /\ i \in 1..n /\ j \in 1..n
    BY DEF a, b, n
  <1> HIDE DEF now, share, s
  <1>7. \A k \in 1..n : share[now[k]] = tt.share[s[k]]
    BY <1>1, <1>2, <1>4, <1>5, <1>6
  <1>8. NoDuplicates(now)
    <2> SUFFICES ASSUME NEW k \in 1..n, NEW l \in 1..n, now[k] = now[l]
                 PROVE  k = l
      BY <1>4 DEF NoDuplicates
    <2> DEFINE from(x) == IF x = i THEN j ELSE IF x = j THEN i ELSE x
    <2>1. ASSUME NEW x \in 1..n PROVE now[x] = s[from(x)] /\ from(x) \in 1..n
      BY <1>4, <1>6
    <2>2. from(k) = from(l)
      <3> HIDE DEF from
      <3> QED
        BY <1>1, <2>1
    <2> QED
      BY <2>2
  <1>9. Items(now) = Items(s)
    <2>1. ASSUME NEW x \in Items(now) PROVE x \in Items(s)
      BY <2>1, <1>1, <1>4, <1>6 DEF Items
    <2>2. ASSUME NEW x \in Items(s) PROVE x \in Items(now)
      <3>1. PICK k \in 1..n : s[k] = x
        BY <1>1 DEF Items
      <3> QED
        BY <3>1, <1>4, <1>6 DEF Items
    <2> QED
      BY <2>1, <2>2
  <1>10. /\ u \in Tilings /\ u.children = now /\ u.share = share
         /\ u.fullscreen = tt.fullscreen /\ u.tiled_area = tt.tiled_area
         /\ u.area = tt.area /\ u.mode = tt.mode
    BY <1>1, <1>3, <1>4, <1>5 DEF Tilings
  <1> QED
    BY <1>4, <1>6, <1>7, <1>8, <1>9, <1>10 DEF Typed, a, b, u, n, s

\* A swap of two containers leaves every sum as it was.
LEMMA SwapSums ==
    ASSUME NEW tt, Typed(tt), NEW i \in 1..Len(tt.children), NEW j \in 1..Len(tt.children),
           i # j
    PROVE  \A k \in 0..Len(tt.children) :
              ShareOfFirst(Swapped(tt, i, j), k) = ShareOfFirst(tt, k)
  <1> DEFINE u == Swapped(tt, i, j)
             n == Len(tt.children)
             z == 0
  <1>1. /\ u \in Tilings /\ tt \in Tilings /\ Len(u.children) = n /\ n \in Nat
        /\ \A k \in 1..n : u.share[u.children[k]] = tt.share[tt.children[k]]
    BY SwapFields, TilingFields DEF Typed
  <1> HIDE DEF u
  <1>2. ShareOfFirst(u, z) = ShareOfFirst(tt, z) /\ z \in Nat /\ z = 0 /\ z <= n
    BY <1>1, SumsDefined
  <1> HIDE DEF z, n
  <1>3. \A k \in z..n : ShareOfFirst(u, k) = ShareOfFirst(tt, k)
    <2>1. \A k \in (z + 1)..n : u.share[u.children[k]] = tt.share[tt.children[k]]
      BY <1>1, <1>2
    <2>2. n <= Len(u.children) /\ n <= Len(tt.children)
      BY <1>1 DEF n
    <2> QED
      BY <1>1, <1>2, <2>1, <2>2, SumsAgree
  <1> QED
    BY <1>2, <1>3 DEF u, n

(***************************************************************************)
(* Arranging                                                               *)
(***************************************************************************)

\* Each child has the box its share and those before it give it, in the area the
\* workspace has for tiling.
Arranged(tt) ==
    /\ tt.area = tt.tiled_area
    /\ \A k \in 1..Len(tt.children) : tt.box[tt.children[k]] = ChildBox(tt, k)

\* The box of a child depends on its place and on the shares alone, not on who it is.
LEMMA BoxOfPlace ==
    ASSUME NEW u, NEW tt, NEW k, u.mode = tt.mode, u.area = tt.area,
           u.share[u.children[k]] = tt.share[tt.children[k]],
           ShareOfFirst(u, k - 1) = ShareOfFirst(tt, k - 1)
    PROVE  ChildBox(u, k) = ChildBox(tt, k)
  BY DEF ChildBox

\* The area of a child is an area.
LEMMA ChildBoxType ==
    ASSUME NEW tt \in Tilings, NEW k \in 1..Len(tt.children)
    PROVE  ChildBox(tt, k) \in Boxes
  <1> DEFINE a == tt.area
             start == ShareOfFirst(tt, k - 1)
             share == tt.share[tt.children[k]]
  <1>1. /\ a \in Boxes /\ start \in Nat /\ share \in Nat /\ Whole \in Nat \ {0}
    <2>1. k - 1 \in 0..Len(tt.children)
      BY TilingFields
    <2> QED
      BY <2>1, TilingFields, SumsDefined, TilingAssumption
  <1>2. /\ a.x \in Nat /\ a.y \in Nat /\ a.width \in Nat /\ a.height \in Nat
    BY <1>1 DEF Boxes
  <1>3. ChildBox(tt, k) =
           IF tt.mode = "horizontal"
           THEN [a EXCEPT !.x = @ + (a.width * start) \div Whole,
                          !.width = (@ * share) \div Whole]
           ELSE [a EXCEPT !.y = @ + (a.height * start) \div Whole,
                          !.height = (@ * share) \div Whole]
    BY DEF ChildBox
  <1> HIDE DEF a, start, share
  <1>4. \A p, q \in Nat : p * q \in Nat
    OBVIOUS
  <1>5. /\ (a.width * start) \div Whole \in Nat /\ (a.width * share) \div Whole \in Nat
        /\ (a.height * start) \div Whole \in Nat /\ (a.height * share) \div Whole \in Nat
    BY <1>1, <1>2, <1>4, DivNat
  <1>6. /\ a.x + (a.width * start) \div Whole \in Nat
        /\ a.y + (a.height * start) \div Whole \in Nat
    BY <1>2, <1>5
  <1> QED
    BY <1>1, <1>2, <1>3, <1>5, <1>6 DEF Boxes

\* arrange_tree_children.
LEMMA ArrangeChildrenFields ==
    ASSUME NEW tt, Typed(tt)
    PROVE  LET u == ArrangeChildren(tt)
           IN  /\ Typed(u)
               /\ u.children = tt.children /\ u.share = tt.share /\ u.mode = tt.mode
               /\ u.area = tt.area /\ u.tiled_area = tt.tiled_area
               /\ u.fullscreen = tt.fullscreen
               /\ \A k : ShareOfFirst(u, k) = ShareOfFirst(tt, k)
               /\ \A k : ChildBox(u, k) = ChildBox(tt, k)
               /\ \A k \in 1..Len(u.children) : u.box[u.children[k]] = ChildBox(u, k)
  <1> DEFINE u == ArrangeChildren(tt)
             s == tt.children
             box == [v \in Views |-> IF v \in Items(s) THEN ChildBox(tt, ListFind(s, v))
                                     ELSE tt.box[v]]
  <1>1. /\ tt \in Tilings /\ s \in Seq(Views) /\ NoDuplicates(s) /\ DOMAIN s = 1..Len(s)
        /\ Items(s) \subseteq Views /\ tt.box \in [Views -> Boxes]
    BY TilingFields DEF Typed
  <1>2. u = [tt EXCEPT !.box = box]
    BY DEF ArrangeChildren
  <1>3. \A v \in Items(s) : ListFind(s, v) \in 1..Len(s)
    BY <1>1, FindPosition
  <1>4. \A k \in 1..Len(s) : s[k] \in Items(s) /\ ListFind(s, s[k]) = k
    <2> TAKE k \in 1..Len(s)
    <2>1. s[k] \in Items(s)
      BY <1>1 DEF Items
    <2>2. ListFind(s, s[k]) \in 1..Len(s) /\ s[ListFind(s, s[k])] = s[k]
      BY <1>1, <2>1, FindPosition
    <2> QED
      BY <1>1, <2>1, <2>2 DEF NoDuplicates
  <1>5. box \in [Views -> Boxes]
    BY <1>1, <1>3, ChildBoxType
  <1>6. \A k \in 1..Len(s) : box[s[k]] = ChildBox(tt, k)
    BY <1>1, <1>4
  <1> HIDE DEF box, u
  <1>7. /\ u \in Tilings /\ u.box = box
        /\ u.children = tt.children /\ u.share = tt.share /\ u.mode = tt.mode
        /\ u.area = tt.area /\ u.tiled_area = tt.tiled_area /\ u.fullscreen = tt.fullscreen
    BY <1>1, <1>2, <1>5 DEF Tilings
  <1>8. \A k : ShareOfFirst(u, k) = ShareOfFirst(tt, k)
    BY <1>7 DEF ShareOfFirst
  <1>9. \A k : ChildBox(u, k) = ChildBox(tt, k)
    BY <1>7, <1>8 DEF ChildBox
  <1> QED
    BY <1>1, <1>6, <1>7, <1>8, <1>9 DEF Typed, u

\* e_workspace_arrange: what is seen fits the area afterwards.
LEMMA ArrangeFields ==
    ASSUME NEW tt, Typed(tt), NEW area \in Boxes
    PROVE  LET u == Arrange(tt, area)
           IN  /\ Typed(u)
               /\ u.children = tt.children /\ u.share = tt.share /\ u.mode = tt.mode
               /\ u.tiled_area = area /\ u.fullscreen = tt.fullscreen
               /\ \A k : ShareOfFirst(u, k) = ShareOfFirst(tt, k)
               /\ u.fullscreen = None => Arranged(u)
  <1> DEFINE u == Arrange(tt, area)
             given == [tt EXCEPT !.tiled_area = area]
             inArea == [given EXCEPT !.area = area]
  <1>1. tt \in Tilings
    BY DEF Typed
  <1>2. /\ given \in Tilings /\ inArea \in Tilings
        /\ given.children = tt.children /\ given.share = tt.share /\ given.mode = tt.mode
        /\ given.tiled_area = area /\ given.fullscreen = tt.fullscreen
        /\ inArea.children = tt.children /\ inArea.share = tt.share /\ inArea.mode = tt.mode
        /\ inArea.tiled_area = area /\ inArea.fullscreen = tt.fullscreen
        /\ inArea.area = area
    BY <1>1 DEF Tilings
  <1>3. Typed(given) /\ Typed(inArea)
    BY <1>2 DEF Typed
  <1>4. u = IF tt.fullscreen # None THEN given ELSE ArrangeChildren(inArea)
    BY DEF Arrange
  <1>5. \A k : /\ ShareOfFirst(given, k) = ShareOfFirst(tt, k)
               /\ ShareOfFirst(inArea, k) = ShareOfFirst(tt, k)
    BY <1>2 DEF ShareOfFirst
  <1> HIDE DEF u, given, inArea
  <1>6. CASE tt.fullscreen # None
    BY <1>2, <1>3, <1>4, <1>5, <1>6 DEF u
  <1>7. CASE tt.fullscreen = None
    BY <1>2, <1>3, <1>4, <1>5, <1>7, ArrangeChildrenFields DEF u, Arranged
  <1> QED
    BY <1>6, <1>7

(***************************************************************************)
(* Exact shares                                                            *)
(***************************************************************************)

\* Shares that can be spread over the other children, again and again, add up to one.
Exact(tt) ==
    LET n == Len(tt.children)
    IN  n > 0 =>
        /\ ShareOfFirst(tt, n) = Whole
        /\ \A v \in Items(tt.children) :
              MayHave(n, tt.share[v]) /\ Divides(factorial[n - 1], tt.share[v])

\* Rounding may lose parts of the whole and never makes any.
Shared(tt) ==
    /\ Typed(tt)
    /\ ShareOfFirst(tt, Len(tt.children)) <= Whole
    /\ ExactParts => Exact(tt)

\* A factorial is a multiple of every smaller one.
LEMMA FactorialDivides ==
    ASSUME NEW n \in Nat, NEW m \in 0..n
    PROVE  \E c \in Nat : factorial[n] = c * factorial[m]
  <1> DEFINE T == {i \in 0..(n - m) : \E c \in Nat : factorial[m + i] = c * factorial[m]}
  <1>1. m \in Nat /\ n - m \in Nat /\ \A i \in 0..(n - m) : m + i \in Nat
    OBVIOUS
  <1>2. 0 \in T
    <2>1. factorial[m + 0] = 1 * factorial[m]
      BY <1>1, FactorialNext
    <2> QED
      BY <1>1, <2>1
  <1>3. ASSUME NEW i \in 1..(n - m), i - 1 \in T PROVE i \in T
    <2>1. PICK c \in Nat : factorial[m + (i - 1)] = c * factorial[m]
      BY <1>3
    <2>2. /\ m + i \in Nat \ {0} /\ (m + i) - 1 = m + (i - 1) /\ (m + i) * c \in Nat
          /\ factorial[m] \in Nat
      BY <1>1, FactorialNext
    <2>3. factorial[m + i] = (m + i) * factorial[m + (i - 1)]
      BY <2>2, FactorialNext
    <2>4. factorial[m + i] = ((m + i) * c) * factorial[m]
      <3> DEFINE a == m + i
                 f == factorial[m]
      <3>1. a \in Nat /\ f \in Nat
        BY <2>2
      <3> HIDE DEF a, f
      <3>2. a * (c * f) = (a * c) * f
        BY <3>1
      <3> QED
        BY <2>1, <2>3, <3>2 DEF a, f
    <2> QED
      BY <2>2, <2>4
  <1> HIDE DEF T
  <1>4. n - m \in T
    BY <1>1, <1>2, <1>3, UpTo
  <1> QED
    BY <1>1, <1>4 DEF T

\* The children are among the views.
LEMMA ChildrenBound ==
    ASSUME NEW tt, Typed(tt), IsFiniteSet(Views)
    PROVE  Len(tt.children) <= Cardinality(Views) /\ Cardinality(Views) \in Nat
  <1> DEFINE s == tt.children
             n == Len(s)
  <1>1. /\ s \in [1..n -> Views] /\ n \in Nat
        /\ \A i, j \in 1..n : s[i] = s[j] => i = j
    BY TilingFields DEF Typed, NoDuplicates
  <1>2. IsFiniteSet(1..n) /\ Cardinality(1..n) = n
    BY <1>1, FS_Interval, SMTT(30)
  <1>3. Cardinality(Views) \in Nat
    BY FS_CardinalityType
  <1> HIDE DEF s, n
  <1>4. ~(Cardinality(Views) < n)
    BY <1>1, <1>2, FS_PigeonHole
  <1> QED
    BY <1>1, <1>3, <1>4 DEF s, n

\* What ExactParts says of a tiling of n children.
LEMMA PartsOf ==
    ASSUME ExactParts, NEW tt, Typed(tt), Len(tt.children) > 0
    PROVE  LET n == Len(tt.children)
           IN  /\ n \in Nat \ {0}
               /\ factorial[n - 1] \in Nat \ {0}
               /\ factorial[n] \in Nat \ {0}
               /\ factorial[n] = n * factorial[n - 1]
               /\ Divides(factorial[n], Whole)
               /\ \A p \in Targets \cup {Minimum} : Divides(factorial[n - 1], p)
  <1> DEFINE n == Len(tt.children)
             N == Cardinality(Views)
  <1>1. n \in Nat \ {0} /\ N \in Nat /\ n <= N
    BY TilingFields, ChildrenBound DEF Typed, ExactParts
  <1> HIDE DEF n
  <1>2. /\ Whole % factorial[N] = 0
        /\ \A p \in Targets \cup {Minimum} : p % factorial[N - 1] = 0
    <2>1. N > 0
      BY <1>1
    <2> QED
      BY <2>1 DEF ExactParts
  <1> HIDE DEF N
  <1>3. Whole \in Nat \ {0} /\ Minimum \in Nat /\ \A p \in Targets \cup {Minimum} : p \in Int
    BY TilingAssumption
  <1>4. /\ n - 1 \in Nat /\ N - 1 \in Nat /\ n \in 0..N /\ n - 1 \in 0..(N - 1)
    BY <1>1
  <1>5. /\ factorial[n - 1] \in Nat \ {0} /\ factorial[n] \in Nat \ {0}
        /\ factorial[N - 1] \in Nat \ {0} /\ factorial[N] \in Nat \ {0}
        /\ factorial[n] = n * factorial[n - 1]
    BY <1>1, <1>4, FactorialNext
  <1>7. Divides(factorial[n], Whole)
    <2>1. PICK c \in Nat : factorial[N] = c * factorial[n]
      BY <1>1, <1>4, FactorialDivides
    <2> DEFINE d == factorial[n]
    <2>2. Divides(c * d, Whole)
      BY <1>2, <1>3, <1>5, <2>1, DividesMod
    <2>3. d \in Nat \ {0} /\ c \in Int /\ Whole \in Int
      BY <1>3, <1>5
    <2> HIDE DEF d
    <2>4. Divides(d, Whole)
      BY <2>2, <2>3, DividesParts
    <2> QED
      BY <2>4 DEF d
  <1>8. ASSUME NEW p \in Targets \cup {Minimum} PROVE Divides(factorial[n - 1], p)
    <2>1. PICK c \in Nat : factorial[N - 1] = c * factorial[n - 1]
      BY <1>1, <1>4, FactorialDivides
    <2> DEFINE d == factorial[n - 1]
    <2>2. Divides(c * d, p)
      BY <1>2, <1>3, <1>5, <2>1, DividesMod
    <2>3. d \in Nat \ {0} /\ c \in Int /\ p \in Int
      BY <1>3, <1>5
    <2> HIDE DEF d
    <2>4. Divides(d, p)
      BY <2>2, <2>3, DividesParts
    <2> QED
      BY <2>4 DEF d
  <1> QED
    BY <1>1, <1>5, <1>7, <1>8 DEF n

\* An equal part of the whole is a share each of n children may have.
LEMMA EqualParts ==
    ASSUME NEW n \in Nat \ {0}, NEW q \in Nat, n * q = Whole
    PROVE  MayHave(n, q)
  <1>1. Whole \in Nat \ {0} /\ Minimum \in Nat
    BY TilingAssumption
  <1>2. ASSUME n * Minimum <= Whole PROVE q >= Minimum
    <2> SUFFICES ASSUME q < Minimum PROVE FALSE
      BY <1>1
    <2>1. n * (q + 1) <= n * Minimum /\ n * (q + 1) = n * q + n
      BY <1>1
    <2>2. n * q \in Nat /\ n * Minimum \in Nat
      BY <1>1
    <2> QED
      BY <1>1, <1>2, <2>1, <2>2
  <1> QED
    BY <1>2 DEF MayHave

\* When the share a of one of n + 1 children is spread, in parts e, over the others, each
\* of these has what one of n children may have.
LEMMA SpreadParts ==
    ASSUME NEW n \in Nat \ {0}, NEW s \in Nat, NEW a \in Nat, NEW e \in Nat,
           MayHave(n + 1, s), MayHave(n + 1, a), n * e = a
    PROVE  MayHave(n, s + e)
  <1>1. Whole \in Nat \ {0} /\ Minimum \in Nat
    BY TilingAssumption
  <1>2. CASE (n + 1) * Minimum <= Whole
    <2>1. (n + 1) * Minimum = n * Minimum + Minimum /\ n * Minimum \in Nat
      BY <1>1
    <2>2. n * Minimum <= Whole
      BY <1>1, <1>2, <2>1
    <2>3. s >= Minimum
      BY <1>2 DEF MayHave
    <2>4. s + e >= Minimum
      BY <1>1, <2>3
    <2> QED
      BY <2>2, <2>4 DEF MayHave
  <1>3. CASE ~((n + 1) * Minimum <= Whole)
    <2>1. (n + 1) * s = Whole /\ (n + 1) * a = Whole
      BY <1>3 DEF MayHave
    <2>2. (n + 1) * s = n * s + s /\ (n + 1) * a = n * a + a
      OBVIOUS
    <2>3. s = a
      <3>1. ASSUME s < a PROVE FALSE
        <4>1. n * s <= n * a /\ n * s \in Nat /\ n * a \in Nat
          BY <3>1
        <4> QED
          BY <2>1, <2>2, <3>1, <4>1
      <3>2. ASSUME a < s PROVE FALSE
        <4>1. n * a <= n * s /\ n * s \in Nat /\ n * a \in Nat
          BY <3>2
        <4> QED
          BY <2>1, <2>2, <3>2, <4>1
      <3> QED
        BY <3>1, <3>2
    <2>4. n * (s + e) = n * s + n * e /\ s + e \in Nat
      OBVIOUS
    <2>5. n * (s + e) = Whole
      BY <2>1, <2>2, <2>3, <2>4
    <2> QED
      BY <2>4, <2>5, EqualParts
  <1> QED
    BY <1>2, <1>3

\* Two siblings have twice the minimum together, which a drag demands, only where all
\* children can have the minimum.
LEMMA NoneToDrag ==
    ASSUME NEW n \in Nat \ {0}, NEW a \in Nat, NEW b \in Nat,
           MayHave(n, a), MayHave(n, b), a + b >= 2 * Minimum
    PROVE  n * Minimum <= Whole
  <1>1. Whole \in Nat \ {0} /\ Minimum \in Nat
    BY TilingAssumption
  <1> SUFFICES ASSUME ~(n * Minimum <= Whole) PROVE FALSE
    OBVIOUS
  <1>2. n * a = Whole /\ n * b = Whole
    BY DEF MayHave
  <1>3. ASSUME NEW c \in Nat, n * c = Whole PROVE c < Minimum
    <2> SUFFICES ASSUME c >= Minimum PROVE FALSE
      BY <1>1
    <2>1. n * Minimum <= n * c
      BY <1>1
    <2> QED
      BY <1>3, <2>1
  <1> QED
    BY <1>1, <1>2, <1>3

\* e_tree_container_insert_container shares the whole out anew.
LEMMA InsertShared ==
    ASSUME NEW tt, Typed(tt), NEW v \in Views, v \notin Items(tt.children)
    PROVE  Shared(InsertChild(tt, v))
  <1> DEFINE u == InsertChild(tt, v)
             n == Len(u.children)
             q == Whole \div n
  <1>1. /\ Typed(u) /\ u \in Tilings /\ n = Len(tt.children) + 1
        /\ \A x \in Items(u.children) : u.share[x] = q
    BY InsertFields DEF Typed
  <1> HIDE DEF u
  <1>2. n \in Nat \ {0} /\ Whole \in Nat \ {0} /\ Minimum \in Nat
    <2>1. Len(tt.children) \in Nat
      BY TilingFields DEF Typed
    <2> QED
      BY <1>1, <2>1, TilingAssumption
  <1> HIDE DEF n
  <1>3. q \in Nat /\ n * q <= Whole /\ Whole < n * q + n
    BY <1>2, DivNat, DivBounds
  <1> HIDE DEF q
  <1>4. ShareOfFirst(u, n) = n * q
    <2>1. n \in 0..n
      BY <1>2
    <2> QED
      BY <1>1, <1>3, <2>1, EqualSums DEF n
  <1>5. ASSUME ExactParts PROVE Exact(u)
    <2>1. /\ factorial[n - 1] \in Nat \ {0} /\ factorial[n] = n * factorial[n - 1]
          /\ Divides(factorial[n], Whole)
      <3>1. Len(u.children) > 0
        BY <1>2 DEF n
      <3>2. /\ factorial[Len(u.children) - 1] \in Nat \ {0}
            /\ factorial[Len(u.children)] = Len(u.children) * factorial[Len(u.children) - 1]
            /\ Divides(factorial[Len(u.children)], Whole)
        BY <1>1, <1>5, <3>1, PartsOf
      <3> QED
        BY <3>2 DEF n
    <2>2. PICK m \in Int : Whole = m * factorial[n]
      BY <2>1 DEF Divides
    <2> DEFINE f == factorial[n - 1]
    <2> HIDE DEF f
    <2>3. Whole = (m * f) * n /\ m * f \in Int
      <3>1. f \in Nat
        BY <2>1 DEF f
      <3>2. m * (n * f) = (m * f) * n /\ m * f \in Int
        BY <1>2, <3>1
      <3> QED
        BY <2>1, <2>2, <3>2 DEF f
    <2>4. q = m * f
      BY <1>2, <2>3, DivExact DEF q
    <2>5. n * q = Whole
      BY <1>2, <1>3, <2>3, <2>4
    <2>6. MayHave(n, q)
      BY <1>2, <1>3, <2>5, EqualParts
    <2>7. Divides(factorial[n - 1], q)
      BY <2>4 DEF Divides, f
    <2> QED
      BY <1>1, <1>4, <2>5, <2>6, <2>7 DEF Exact, n
  <1> QED
    BY <1>1, <1>3, <1>4, <1>5 DEF Shared, n, u

\* e_tree_container_remove_container spreads the share of the child that goes.
LEMMA RemoveShared ==
    ASSUME NEW tt, Shared(tt), NEW p \in 1..Len(tt.children)
    PROVE  Shared(RemoveChild(tt, tt.children[p]))
  <1> DEFINE v == tt.children[p]
             u == RemoveChild(tt, v)
             n == Len(tt.children) - 1
             e == tt.share[v] \div n
  <1>1. /\ Typed(tt) /\ tt \in Tilings /\ n \in Nat /\ Len(tt.children) = n + 1
        /\ v \in Views /\ tt.share[v] \in Nat /\ v \in Items(tt.children)
    BY TilingFields DEF Shared, Typed, Items
  <1>2. /\ Typed(u) /\ u \in Tilings /\ Len(u.children) = n
        /\ Items(u.children) = Items(tt.children) \ {v}
        /\ \A x \in Items(u.children) : u.share[x] = tt.share[x] + e
    BY <1>1, RemoveFields DEF Typed
  <1>3. Whole \in Nat \ {0} /\ Minimum \in Nat
    BY TilingAssumption
  <1>4. CASE n = 0
    <2>1. ShareOfFirst(u, 0) = 0
      BY <1>2, SumsDefined
    <2> HIDE DEF u, n, v
    <2> QED
      BY <1>2, <1>3, <1>4, <2>1 DEF Shared, Exact, u, v
  <1>5. CASE n > 0
    <2>1. ShareOfFirst(u, n) = ShareOfFirst(tt, n + 1) - tt.share[v] + n * e
      BY <1>1, <1>5, RemoveSum
    <2>2. ShareOfFirst(tt, n + 1) \in Nat
      BY <1>1, SumsDefined
    <2>3. e \in Nat /\ n * e <= tt.share[v] /\ n \in Nat \ {0}
      <3> DEFINE a == tt.share[v]
      <3>1. a \in Nat /\ n \in Nat \ {0}
        <4> HIDE DEF n, v
        <4> QED
          BY <1>1, <1>5
      <3> HIDE DEF a, n
      <3>2. a \div n \in Nat /\ n * (a \div n) <= a
        BY <3>1, DivNat, DivBounds
      <3> QED
        BY <3>1, <3>2 DEF a
    <2> HIDE DEF u, e
    <2>4. ShareOfFirst(u, n) <= Whole
      <3>1. ShareOfFirst(tt, n + 1) <= Whole
        BY <1>1 DEF Shared
      <3>2. n * e \in Nat
        BY <2>3
      <3> HIDE DEF n, v
      <3> QED
        BY <1>1, <1>3, <2>1, <2>2, <2>3, <3>1, <3>2
    <2>5. ASSUME ExactParts PROVE Exact(u)
      <3> DEFINE f == factorial[n - 1]
      <3>1. /\ f \in Nat \ {0} /\ factorial[n] = n * f /\ factorial[n] \in Nat \ {0}
        <4> HIDE DEF n
        <4>1. n - 1 \in Nat
          BY <2>3
        <4> QED
          BY <2>3, <4>1, FactorialNext
      <3>2. /\ ShareOfFirst(tt, n + 1) = Whole
            /\ \A x \in Items(tt.children) :
                  MayHave(n + 1, tt.share[x]) /\ Divides(factorial[n], tt.share[x])
        <4>1. Exact(tt)
          BY <2>5 DEF Shared
        <4>2. (n + 1) - 1 = n /\ n + 1 > 0
          BY <1>1
        <4> HIDE DEF n
        <4> QED
          BY <1>1, <4>1, <4>2 DEF Exact
      <3> HIDE DEF f, n, v
      <3>3. PICK m \in Int : tt.share[v] = m * factorial[n]
        BY <1>1, <3>2 DEF Divides
      <3>4. tt.share[v] = (m * f) * n /\ m * f \in Int
        <4>1. m * (n * f) = (m * f) * n /\ m * f \in Int
          BY <2>3, <3>1
        <4> QED
          BY <3>1, <3>3, <4>1
      <3>5. e = m * f
        BY <2>3, <3>4, DivExact DEF e
      <3>6. n * e = tt.share[v]
        BY <2>3, <3>4, <3>5
      <3>7. ShareOfFirst(u, n) = Whole
        BY <1>1, <1>3, <2>1, <3>2, <3>6
      <3>8. ASSUME NEW x \in Items(u.children)
            PROVE  MayHave(n, u.share[x]) /\ Divides(f, u.share[x])
        <4>1. /\ x \in Items(tt.children) /\ u.share[x] = tt.share[x] + e
              /\ tt.share[x] \in Nat
          BY <1>1, <1>2, <3>8, TilingFields
        <4>2. MayHave(n + 1, tt.share[x]) /\ Divides(n * f, tt.share[x])
          BY <3>1, <3>2, <4>1
        <4>3. Divides(f, tt.share[x])
          BY <2>3, <3>1, <4>1, <4>2, DividesParts
        <4>4. Divides(f, e)
          BY <3>5 DEF Divides
        <4>5. Divides(f, tt.share[x] + e)
          <5> DEFINE c == tt.share[x]
          <5>1. c \in Int /\ e \in Int /\ Divides(f, c)
            BY <2>3, <4>1, <4>3
          <5> HIDE DEF c
          <5>2. Divides(f, c + e)
            BY <3>1, <4>4, <5>1, DividesSum
          <5> QED
            BY <5>2 DEF c
        <4>6. MayHave(n, tt.share[x] + e)
          <5>1. MayHave(n + 1, tt.share[v])
            BY <1>1, <3>2
          <5> QED
            BY <1>1, <2>3, <3>6, <4>1, <4>2, <5>1, SpreadParts
        <4> QED
          BY <4>1, <4>5, <4>6
      <3> QED
        BY <1>2, <3>7, <3>8 DEF Exact, f
    <2> QED
      BY <1>2, <2>4, <2>5 DEF Shared, u
  <1> HIDE DEF n
  <1> QED
    BY <1>1, <1>4, <1>5

\* Dragging moves shares between two children, as far as the minimum allows.
LEMMA ResizeShared ==
    ASSUME NEW tt, Shared(tt), NEW i \in 1..Len(tt.children), NEW j \in 1..Len(tt.children),
           j = i - 1 \/ j = i + 1, NEW percentage \in Targets
    PROVE  LET u == ResizeTiled(tt, tt.children[i], tt.children[j], percentage)
               lo == IF i < j THEN i ELSE j
           IN  /\ Shared(u)
               /\ u.children = tt.children /\ u.area = tt.area /\ u.mode = tt.mode
               /\ \A k \in 1..Len(tt.children) \ {i, j} :
                     u.share[tt.children[k]] = tt.share[tt.children[k]]
               /\ \A k \in 0..Len(tt.children) :
                     k # lo => ShareOfFirst(u, k) = ShareOfFirst(tt, k)
  <1> DEFINE v == tt.children[i]
             sibling == tt.children[j]
             u == ResizeTiled(tt, v, sibling, percentage)
             lo == IF i < j THEN i ELSE j
             n == Len(tt.children)
             total == tt.share[v] + tt.share[sibling]
  <1>1. /\ Typed(tt) /\ tt \in Tilings /\ n \in Nat /\ n > 0 /\ i \in Nat /\ j \in Nat /\ i # j
        /\ percentage \in Int /\ Minimum \in Nat
        /\ tt.share[v] \in Nat /\ tt.share[sibling] \in Nat
        /\ v \in Items(tt.children) /\ sibling \in Items(tt.children)
    <2>1. Typed(tt) /\ tt \in Tilings
      BY DEF Shared, Typed
    <2>2. n \in Nat /\ DOMAIN tt.children = 1..n
      BY <2>1, TilingFields
    <2>3. n > 0 /\ i \in Nat /\ j \in Nat /\ i # j
      BY <2>2
    <2>4. percentage \in Int /\ Minimum \in Nat
      BY TilingAssumption
    <2>5. /\ tt.share[v] \in Nat /\ tt.share[sibling] \in Nat
          /\ v \in Items(tt.children) /\ sibling \in Items(tt.children)
      BY <2>1, TilingFields DEF Items
    <2> QED
      BY <2>1, <2>2, <2>3, <2>4, <2>5
  <1>2. /\ Typed(u) /\ u \in Tilings /\ u.children = tt.children
        /\ u.area = tt.area /\ u.mode = tt.mode
        /\ \A k \in 1..n \ {i, j} : u.share[tt.children[k]] = tt.share[tt.children[k]]
        /\ u.share[v] + u.share[sibling] = total
        /\ \/ u.share = tt.share
           \/ /\ u.share[v] >= Minimum /\ u.share[sibling] >= Minimum
              /\ u.share[v] \in {percentage, Minimum, total - Minimum}
    <2>1. Typed(tt) /\ i # j /\ percentage \in Int
      BY <1>1
    <2>2. Typed(u) /\ u \in Tilings
      BY <2>1, ResizeFields DEF Typed
    <2>3. /\ u.children = tt.children /\ u.area = tt.area /\ u.mode = tt.mode
          /\ \A k \in 1..n \ {i, j} : u.share[tt.children[k]] = tt.share[tt.children[k]]
      BY <2>1, ResizeFields
    <2>4. /\ u.share[v] + u.share[sibling] = total
          /\ \/ u.share = tt.share
             \/ /\ u.share[v] >= Minimum /\ u.share[sibling] >= Minimum
                /\ u.share[v] \in {percentage, Minimum, total - Minimum}
      BY <2>1, ResizeFields
    <2> QED
      BY <2>2, <2>3, <2>4
  <1>3. u.share[v] \in Nat /\ u.share[sibling] \in Nat
    BY <1>1, <1>2, TilingFields
  <1> HIDE DEF u
  <1>4. lo \in 1..(n - 1) /\ {i, j} = {lo, lo + 1}
    BY <1>1
  <1>5. u.share[tt.children[lo]] + u.share[tt.children[lo + 1]]
           = tt.share[tt.children[lo]] + tt.share[tt.children[lo + 1]]
    <2>1. CASE i < j
      <3>1. lo = i /\ lo + 1 = j
        BY <1>1, <2>1
      <3> HIDE DEF lo
      <3> QED
        BY <1>2, <3>1
    <2>2. CASE ~(i < j)
      <3>1. lo = j /\ lo + 1 = i
        BY <1>1, <2>2
      <3> HIDE DEF lo
      <3>2. u.share[sibling] + u.share[v] = tt.share[sibling] + tt.share[v]
        BY <1>1, <1>2, <1>3, SMTT(30)
      <3> QED
        BY <3>1, <3>2
    <2> QED
      BY <2>1, <2>2
  <1> HIDE DEF lo
  <1>6. \A k \in 0..n : k # lo => ShareOfFirst(u, k) = ShareOfFirst(tt, k)
    BY <1>1, <1>2, <1>4, <1>5, TwoShares
  <1>7. ShareOfFirst(u, n) = ShareOfFirst(tt, n)
    BY <1>1, <1>4, <1>6
  <1> HIDE DEF n
  <1>8. ASSUME ExactParts PROVE Exact(u)
    <2> DEFINE f == factorial[n - 1]
    <2>1. /\ ShareOfFirst(tt, n) = Whole
          /\ \A x \in Items(tt.children) : MayHave(n, tt.share[x]) /\ Divides(f, tt.share[x])
      BY <1>1, <1>8 DEF Shared, Exact, n
    <2>2. f \in Nat \ {0} /\ Divides(f, percentage) /\ Divides(f, Minimum)
      BY <1>1, <1>8, PartsOf DEF n
    <2> HIDE DEF f
    <2>3. ASSUME NEW x \in Items(tt.children)
          PROVE  MayHave(n, u.share[x]) /\ Divides(f, u.share[x])
      <3>1. CASE u.share = tt.share
        BY <2>1, <3>1
      <3>2. CASE /\ u.share[v] >= Minimum /\ u.share[sibling] >= Minimum
                 /\ u.share[v] \in {percentage, Minimum, total - Minimum}
        <4>1. Divides(f, total) /\ total \in Int
          <5> DEFINE a == tt.share[v]
                     b == tt.share[sibling]
          <5>1. a \in Int /\ b \in Int /\ Divides(f, a) /\ Divides(f, b) /\ total = a + b
            BY <1>1, <2>1
          <5> HIDE DEF a, b, total
          <5> QED
            BY <2>2, <5>1, DividesSum
        <4> total = tt.share[v] + tt.share[sibling]
          OBVIOUS
        <4> HIDE DEF total
        <4>2. Divides(f, total - Minimum)
          <5> Minimum \in Int
            BY <1>1
          <5> QED
            BY <2>2, <4>1, DividesSum
        <4>3. Divides(f, u.share[v])
          BY <2>2, <3>2, <4>2
        <4>4. u.share[sibling] = total - u.share[v]
          BY <1>1, <1>2, <1>3
        <4>5. Divides(f, total - u.share[v])
          <5> u.share[v] \in Int
            BY <1>3
          <5> QED
            BY <2>2, <4>1, <4>3, DividesSum
        <4>6. PICK k \in 1..n : tt.children[k] = x
          BY <1>1, TilingFields DEF Items, n
        <4>9. n * Minimum <= Whole
          <5>1. tt.share[v] + tt.share[sibling] >= 2 * Minimum
            BY <1>1, <1>3, <3>2, <4>4
          <5>2. MayHave(n, tt.share[v]) /\ MayHave(n, tt.share[sibling]) /\ n \in Nat \ {0}
            BY <1>1, <2>1
          <5> QED
            BY <1>1, <5>1, <5>2, NoneToDrag
        <4>7. CASE k \in {i, j}
          BY <3>2, <4>3, <4>4, <4>5, <4>6, <4>7, <4>9 DEF MayHave
        <4>8. CASE k \notin {i, j}
          <5>1. u.share[x] = tt.share[x]
            BY <1>2, <4>6, <4>8
          <5> QED
            BY <2>1, <5>1
        <4> QED
          BY <4>7, <4>8
      <3> QED
        BY <1>2, <3>1, <3>2
    <2> QED
      BY <1>2, <1>7, <2>1, <2>3 DEF Exact, n, f
  <1> QED
    BY <1>2, <1>6, <1>7, <1>8 DEF Shared, u, n, lo

\* swap_tiled_containers gives each child the share of its new place.
LEMMA SwapShared ==
    ASSUME NEW tt, Shared(tt), NEW i \in 1..Len(tt.children), NEW j \in 1..Len(tt.children),
           i # j
    PROVE  Shared(Swapped(tt, i, j))
  <1> DEFINE u == Swapped(tt, i, j)
             n == Len(tt.children)
  <1>1. Typed(tt) /\ tt \in Tilings /\ n \in Nat /\ n \in 0..n
    BY TilingFields DEF Shared, Typed
  <1>2. /\ Typed(u) /\ u \in Tilings /\ Len(u.children) = n
        /\ Items(u.children) = Items(tt.children)
        /\ \A k \in 1..n : u.share[u.children[k]] = tt.share[tt.children[k]]
    BY <1>1, SwapFields DEF Typed
  <1>3. ShareOfFirst(u, n) = ShareOfFirst(tt, n)
    BY <1>1, SwapSums
  <1> HIDE DEF u, n
  <1>4. ASSUME ExactParts PROVE Exact(u)
    <2>1. Exact(tt)
      BY <1>4 DEF Shared
    <2>2. ASSUME NEW x \in Items(u.children)
          PROVE  \E y \in Items(tt.children) : u.share[x] = tt.share[y]
      <3>1. PICK k \in 1..n : u.children[k] = x
        BY <1>2, TilingFields DEF Items
      <3>2. tt.children[k] \in Items(tt.children)
        BY <1>1, <3>1, TilingFields DEF Items, n
      <3> QED
        BY <1>2, <3>1, <3>2
    <2> QED
      BY <1>2, <1>3, <2>1, <2>2 DEF Exact, n
  <1> QED
    BY <1>2, <1>3, <1>4 DEF Shared, u, n

\* Shares are of the children alone: neither boxes nor areas matter.
LEMMA SharedOf ==
    ASSUME NEW tt, Shared(tt), NEW u, Typed(u),
           u.children = tt.children, u.share = tt.share
    PROVE  Shared(u)
  <1>1. \A k : ShareOfFirst(u, k) = ShareOfFirst(tt, k)
    BY DEF ShareOfFirst
  <1> QED
    BY <1>1 DEF Shared, Exact

\* e_container_leave.
LEMMA LeaveFields ==
    ASSUME NEW tt, Shared(tt), NEW v \in Views
    PROVE  LET u == Leave(tt, v)
           IN  /\ Shared(u)
               /\ Items(u.children) = Items(tt.children) \ {v}
               /\ u.tiled_area = tt.tiled_area
               /\ u.fullscreen = IF tt.fullscreen = v THEN None ELSE tt.fullscreen
               /\ v \notin Items(tt.children) => u.children = tt.children
               /\ v \in Items(tt.children) => Len(u.children) = Len(tt.children) - 1
  <1> DEFINE unfull == [tt EXCEPT !.fullscreen = IF @ = v THEN None ELSE @]
             u == Leave(tt, v)
  <1>1. tt \in Tilings /\ Typed(tt)
    BY DEF Shared, Typed
  <1>2. /\ unfull \in Tilings
        /\ unfull.children = tt.children /\ unfull.share = tt.share
        /\ unfull.tiled_area = tt.tiled_area
        /\ unfull.fullscreen = IF tt.fullscreen = v THEN None ELSE tt.fullscreen
    BY <1>1 DEF Tilings
  <1> HIDE DEF unfull
  <1>3. Shared(unfull)
    BY <1>1, <1>2, SharedOf DEF Typed
  <1>4. u = IF v \in Items(tt.children) THEN RemoveChild(unfull, v) ELSE unfull
    BY DEF Leave, unfull
  <1> HIDE DEF u
  <1>5. CASE v \notin Items(tt.children)
    BY <1>2, <1>3, <1>4, <1>5 DEF u
  <1>6. CASE v \in Items(tt.children)
    <2>1. PICK p \in 1..Len(unfull.children) : unfull.children[p] = v
      BY <1>1, <1>2, <1>6, TilingFields DEF Items
    <2>2. u = RemoveChild(unfull, unfull.children[p])
      BY <1>4, <1>6, <2>1
    <2>3. Shared(u)
      BY <1>3, <2>2, RemoveShared
    <2>4. /\ Len(u.children) = Len(unfull.children) - 1
          /\ Items(u.children) = Items(unfull.children) \ {v}
          /\ u.fullscreen = unfull.fullscreen /\ u.tiled_area = unfull.tiled_area
      BY <1>3, <2>1, <2>2, RemoveFields DEF Shared
    <2> QED
      BY <1>2, <1>6, <2>3, <2>4 DEF u
  <1> QED
    BY <1>5, <1>6

(***************************************************************************)
(* The inductive invariant                                                 *)
(***************************************************************************)

\* The shares add up to the whole at most, exactly where parts suffice, and what is seen is
\* arranged; a displayed workspace is so in the usable area.
TInv ==
    /\ Shared(t)
    /\ t.fullscreen = None => Arranged(t)
    /\ shown \in BOOLEAN
    /\ usable \in Areas
    /\ ShownInUsable

\* Usable areas may be areas of a tiling.
LEMMA AreasAreBoxes == Areas \subseteq Boxes
  BY TilingAssumption DEF Boxes

\* Nothing is tiled, and the empty workspace is arranged in the area it was given.
LEMMA InitInv == Init => TInv
  <1> SUFFICES ASSUME Init PROVE TInv
    OBVIOUS
  <1> DEFINE given == IF shown THEN usable ELSE NoBox
  <1>1. NoBox \in Boxes /\ given \in Boxes
    BY AreasAreBoxes DEF Init, NoBox, Boxes
  <1>2. t = [children |-> <<>>, share |-> [v \in Views |-> 0], mode |-> "horizontal",
             area |-> given, box |-> [v \in Views |-> NoBox], tiled_area |-> given,
             fullscreen |-> None]
    BY DEF Init
  <1> HIDE DEF given
  <1>3. /\ t \in Tilings /\ t.children = <<>> /\ t.area = t.tiled_area /\ t.tiled_area = given
        /\ Len(t.children) = 0
    BY <1>1, <1>2 DEF Tilings
  <1>4. Typed(t)
    BY <1>3 DEF Typed, NoDuplicates
  <1>5. Shared(t)
    <2>1. ShareOfFirst(t, 0) = 0
      BY <1>3, SumsDefined
    <2> QED
      BY <1>3, <1>4, <2>1, TilingAssumption DEF Shared, Exact
  <1>6. Arranged(t)
    BY <1>3 DEF Arranged
  <1> QED
    BY <1>3, <1>5, <1>6 DEF TInv, Init, ShownInUsable, given

\* e_workspace_arrange leaves the shares alone, and what is seen in place.
LEMMA ArrangeShared ==
    ASSUME NEW tt, Shared(tt), NEW area \in Boxes
    PROVE  LET u == Arrange(tt, area)
           IN  /\ Shared(u)
               /\ u.tiled_area = area
               /\ u.children = tt.children /\ u.fullscreen = tt.fullscreen
               /\ u.fullscreen = None => Arranged(u)
  <1>1. Typed(tt)
    BY DEF Shared
  <1> QED
    BY <1>1, ArrangeFields, SharedOf

\* arrange_tree_children leaves the shares alone too.
LEMMA ArrangeChildrenShared ==
    ASSUME NEW tt, Shared(tt), tt.fullscreen = None => tt.area = tt.tiled_area
    PROVE  LET u == ArrangeChildren(tt)
           IN  /\ Shared(u)
               /\ u.tiled_area = tt.tiled_area
               /\ u.children = tt.children /\ u.fullscreen = tt.fullscreen
               /\ u.fullscreen = None => Arranged(u)
  <1>1. Typed(tt)
    BY DEF Shared
  <1> QED
    BY <1>1, ArrangeChildrenFields, SharedOf DEF Arranged

\* A handler that ends with e_workspace_rearrange.
LEMMA RearrangeInv ==
    ASSUME TInv, NEW tt, Shared(tt), tt.tiled_area = t.tiled_area,
           t' = Rearrange(tt), UNCHANGED <<shown, usable>>
    PROVE  TInv'
  <1>1. tt.tiled_area \in Boxes
    BY TilingFields DEF Shared, Typed
  <1>2. t' = Arrange(tt, tt.tiled_area)
    BY DEF Rearrange
  <1> QED
    BY <1>1, <1>2, ArrangeShared DEF TInv, ShownInUsable

\* A handler that ends with arrange_tree_children.
LEMMA ArrangeChildrenInv ==
    ASSUME TInv, NEW tt, Shared(tt), tt.tiled_area = t.tiled_area, tt.area = t.area,
           tt.fullscreen = t.fullscreen,
           t' = ArrangeChildren(tt), UNCHANGED <<shown, usable>>
    PROVE  TInv'
  <1>1. tt.fullscreen = None => tt.area = tt.tiled_area
    BY DEF TInv, Arranged
  <1> QED
    BY <1>1, ArrangeChildrenShared DEF TInv, ShownInUsable

\* The fullscreen container does not matter to the shares.
LEMMA FullscreenShared ==
    ASSUME NEW tt, Shared(tt), NEW v \in Views \cup {None}
    PROVE  LET u == [tt EXCEPT !.fullscreen = v]
           IN  Shared(u) /\ u.tiled_area = tt.tiled_area /\ u.children = tt.children
  <1> DEFINE u == [tt EXCEPT !.fullscreen = v]
  <1>1. tt \in Tilings /\ Typed(tt)
    BY DEF Shared, Typed
  <1>2. u \in Tilings /\ u.tiled_area = tt.tiled_area /\ u.children = tt.children
        /\ u.share = tt.share
    BY <1>1 DEF Tilings
  <1> HIDE DEF u
  <1>3. Shared(u)
    BY <1>1, <1>2, SharedOf DEF Typed
  <1> QED
    BY <1>2, <1>3 DEF u

\* Each handler keeps the invariant.
LEMMA EnterInv ==
    ASSUME TInv, NEW v \in Views, NEW full \in BOOLEAN, Enter(v, full)
    PROVE  TInv'
  <1> DEFINE left == Leave(t, v)
             now == InsertChild(left, v)
             tt == [now EXCEPT !.fullscreen = IF full THEN v ELSE @]
  <1>1. Shared(left) /\ left.tiled_area = t.tiled_area /\ v \notin Items(left.children)
    BY LeaveFields DEF TInv
  <1> HIDE DEF left
  <1>2. Shared(now) /\ now.tiled_area = t.tiled_area
    BY <1>1, InsertFields, InsertShared DEF Shared
  <1>3. now.fullscreen \in Views \cup {None}
    BY <1>2, TilingFields DEF Shared, Typed
  <1> HIDE DEF now
  <1>4. Shared(tt) /\ tt.tiled_area = t.tiled_area
    <2>1. tt = [now EXCEPT !.fullscreen = IF full THEN v ELSE now.fullscreen]
      BY <1>2 DEF Shared, Typed, Tilings
    <2> QED
      BY <1>2, <1>3, <2>1, FullscreenShared
  <1>5. t' = Rearrange(tt) /\ UNCHANGED <<shown, usable>>
    BY DEF Enter, now, left
  <1> HIDE DEF tt
  <1> QED
    BY <1>4, <1>5, RearrangeInv

\* e_cursor_resize_tiled.
LEMMA DragEdgeInv ==
    ASSUME TInv, NEW i \in DOMAIN t.children, NEW percentage \in Targets,
           NEW j \in Siblings(i), DragEdge(i, j, percentage)
    PROVE  TInv'
  <1> DEFINE tt == ResizeTiled(t, t.children[i], t.children[j], percentage)
  <1>1. /\ i \in 1..Len(t.children) /\ j \in 1..Len(t.children)
        /\ j = i - 1 \/ j = i + 1
        /\ Shared(t) /\ Typed(t) /\ percentage \in Int /\ i # j
    BY TilingFields, TilingAssumption DEF TInv, Shared, Typed, Siblings
  <1>2. Shared(tt)
    BY <1>1, ResizeShared
  <1>3. /\ tt.tiled_area = t.tiled_area /\ tt.area = t.area /\ tt.fullscreen = t.fullscreen
    BY <1>1, ResizeFields
  <1>4. t' = ArrangeChildren(tt) /\ UNCHANGED <<shown, usable>>
    BY DEF DragEdge
  <1> HIDE DEF tt
  <1> QED
    BY <1>2, <1>3, <1>4, ArrangeChildrenInv

\* swap_tiled_containers.
LEMMA SwapInv ==
    ASSUME TInv, NEW i \in DOMAIN t.children, NEW j \in DOMAIN t.children, SwapChildren(i, j)
    PROVE  TInv'
  <1> DEFINE tt == Swapped(t, i, j)
  <1>1. /\ i \in 1..Len(t.children) /\ j \in 1..Len(t.children) /\ i # j
        /\ Shared(t) /\ Typed(t)
    BY TilingFields DEF TInv, Shared, Typed, SwapChildren
  <1>2. Shared(tt)
    BY <1>1, SwapShared
  <1>3. /\ tt.tiled_area = t.tiled_area /\ tt.area = t.area /\ tt.fullscreen = t.fullscreen
    BY <1>1, SwapFields
  <1>4. t' = ArrangeChildren(tt) /\ UNCHANGED <<shown, usable>>
    BY DEF SwapChildren
  <1> HIDE DEF tt
  <1> QED
    BY <1>2, <1>3, <1>4, ArrangeChildrenInv

\* switch_tiling_mode.
LEMMA SwitchInv ==
    ASSUME TInv, SwitchTilingMode
    PROVE  TInv'
  <1> DEFINE tt == [t EXCEPT !.mode = IF @ = "horizontal" THEN "vertical" ELSE "horizontal"]
  <1>1. Shared(t) /\ Typed(t) /\ t \in Tilings
    BY DEF TInv, Shared, Typed
  <1>2. /\ tt \in Tilings /\ tt.children = t.children /\ tt.share = t.share
        /\ tt.tiled_area = t.tiled_area /\ tt.area = t.area /\ tt.fullscreen = t.fullscreen
    BY <1>1 DEF Tilings
  <1>3. t' = ArrangeChildren(tt) /\ UNCHANGED <<shown, usable>>
    BY DEF SwitchTilingMode
  <1> HIDE DEF tt
  <1>4. Shared(tt)
    BY <1>1, <1>2, SharedOf DEF Typed
  <1> QED
    BY <1>2, <1>3, <1>4, ArrangeChildrenInv

\* Every step keeps the invariant.
LEMMA NextInv == TInv /\ [Next]_vars => TInv'
  <1> SUFFICES ASSUME TInv, [Next]_vars PROVE TInv'
    OBVIOUS
  <1>1. ASSUME NEW v \in Views, NEW full \in BOOLEAN, Enter(v, full) PROVE TInv'
    BY <1>1, EnterInv
  <1>2. ASSUME NEW v \in Views, Exit(v) PROVE TInv'
    <2>1. Shared(Leave(t, v)) /\ Leave(t, v).tiled_area = t.tiled_area
      BY LeaveFields DEF TInv
    <2> QED
      BY <1>2, <2>1, RearrangeInv DEF Exit
  <1>f. ASSUME NEW v \in Views, FloatChild(v) PROVE TInv'
    <2> DEFINE left == Leave(t, v)
               tt == [left EXCEPT !.fullscreen = t.fullscreen]
    <2>1. Shared(left) /\ left.tiled_area = t.tiled_area
      BY LeaveFields DEF TInv
    <2>2. t.fullscreen \in Views \cup {None}
      BY TilingFields DEF TInv, Shared, Typed
    <2> HIDE DEF left
    <2>3. Shared(tt) /\ tt.tiled_area = t.tiled_area
      BY <2>1, <2>2, FullscreenShared
    <2>4. t' = Rearrange(tt) /\ UNCHANGED <<shown, usable>>
      BY <1>f DEF FloatChild, left
    <2> HIDE DEF tt
    <2> QED
      BY <2>3, <2>4, RearrangeInv
  <1>3. ASSUME NEW v \in Views, ToggleFullscreen(v) PROVE TInv'
    <2> DEFINE w == IF t.fullscreen = v THEN None ELSE v
    <2>1. w \in Views \cup {None}
      OBVIOUS
    <2>2. t' = ChangedFullscreen(t, w) /\ UNCHANGED <<shown, usable>>
      BY <1>3 DEF ToggleFullscreen
    <2> HIDE DEF w
    <2> DEFINE tt == [t EXCEPT !.fullscreen = w]
    <2>3. Shared(tt) /\ tt.tiled_area = t.tiled_area
      BY <2>1, FullscreenShared DEF TInv
    <2>4. t' = Rearrange(tt)
      BY <2>2 DEF ChangedFullscreen
    <2> HIDE DEF tt
    <2> QED
      BY <2>2, <2>3, <2>4, RearrangeInv
  <1>4. CASE SwitchTilingMode
    BY <1>4, SwitchInv
  <1>5. ASSUME NEW i \in DOMAIN t.children, NEW j \in DOMAIN t.children, SwapChildren(i, j)
        PROVE  TInv'
    BY <1>5, SwapInv
  <1>6. ASSUME NEW i \in DOMAIN t.children, NEW percentage \in Targets,
               NEW j \in Siblings(i), DragEdge(i, j, percentage)
        PROVE  TInv'
    BY <1>6, DragEdgeInv
  <1>7. ASSUME NEW area \in Areas, OutputArrange(area) PROVE TInv'
    <2>1. area \in Boxes
      BY AreasAreBoxes
    <2>2. CASE shown
      BY <1>7, <2>1, <2>2, ArrangeShared DEF OutputArrange, TInv, ShownInUsable
    <2>3. CASE ~shown
      BY <1>7, <2>3 DEF OutputArrange, TInv, ShownInUsable
    <2> QED
      BY <2>2, <2>3
  <1>8. CASE Display
    <2>1. usable \in Boxes
      BY AreasAreBoxes DEF TInv
    <2>2. CASE shown
      BY <1>8, <2>2 DEF Display, TInv, ShownInUsable
    <2>3. CASE ~shown
      BY <1>8, <2>1, <2>3, ArrangeShared DEF Display, Displayed, TInv, ShownInUsable
    <2> QED
      BY <2>2, <2>3 DEF TInv
  <1>9. CASE UNCHANGED vars
    BY <1>9 DEF TInv, ShownInUsable, vars
  <1> QED
    BY <1>1, <1>2, <1>f, <1>3, <1>4, <1>5, <1>6, <1>7, <1>8, <1>9 DEF Next

\* The shares and the areas of the tiling are in step after every handler.
THEOREM TilingInvariant == Spec => []TInv
  BY InitInv, NextInv, PTL DEF Spec

(***************************************************************************)
(* Boxes side by side                                                      *)
(***************************************************************************)

\* The extent of a box along the direction of tiling.
Extent(b) == IF t.mode = "horizontal" THEN b.width ELSE b.height

\* Where the k-th child lies.
LEMMA ChildAlong ==
    ASSUME t \in Tilings, NEW k \in 1..Len(t.children)
    PROVE  LET a == t.area
               b == ChildBox(t, k)
           IN  /\ BeginOf(b) = BeginOf(a) + (Extent(a) * ShareOfFirst(t, k - 1)) \div Whole
               /\ EndOf(b) = BeginOf(b)
                                + (Extent(a) * t.share[t.children[k]]) \div Whole
               /\ SpansAcross(b, a)
               /\ EndOf(a) = BeginOf(a) + Extent(a)
               /\ Extent(a) \in Nat /\ BeginOf(a) \in Nat
  <1> DEFINE a == t.area
             b == ChildBox(t, k)
             start == (Extent(a) * ShareOfFirst(t, k - 1)) \div Whole
             size == (Extent(a) * t.share[t.children[k]]) \div Whole
  <1>1. a \in Boxes /\ t.mode \in {"horizontal", "vertical"}
    BY TilingFields
  <1>2. a.x \in Nat /\ a.y \in Nat /\ a.width \in Nat /\ a.height \in Nat
    BY <1>1 DEF Boxes
  <1>3. CASE t.mode = "horizontal"
    <2>1. b = [a EXCEPT !.x = @ + start, !.width = size]
      BY <1>3 DEF ChildBox, Extent
    <2> HIDE DEF start, size, a
    <2>2. b.x = a.x + start /\ b.width = size /\ b.y = a.y /\ b.height = a.height
      <3> HIDE DEF b
      <3> QED
        BY <1>1, <2>1 DEF Boxes
    <2> HIDE DEF b
    <2> QED
      BY <1>2, <1>3, <2>2 DEF BeginOf, EndOf, Extent, SpansAcross, a, b, start, size
  <1>4. CASE t.mode = "vertical"
    <2>1. b = [a EXCEPT !.y = @ + start, !.height = size]
      BY <1>4 DEF ChildBox, Extent
    <2> HIDE DEF start, size, a
    <2>2. b.y = a.y + start /\ b.height = size /\ b.x = a.x /\ b.width = a.width
      <3> HIDE DEF b
      <3> QED
        BY <1>1, <2>1 DEF Boxes
    <2> HIDE DEF b
    <2> QED
      BY <1>2, <1>4, <2>2 DEF BeginOf, EndOf, Extent, SpansAcross, a, b, start, size
  <1> QED
    BY <1>1, <1>3, <1>4

\* Where the k-th child ends, less than a pixel is left out before what its share
\* and those before it cover.
LEMMA ChildEnd ==
    ASSUME t \in Tilings, NEW k \in 1..Len(t.children)
    PROVE  LET a == t.area
               covered == (Extent(a) * ShareOfFirst(t, k)) \div Whole
           IN  /\ covered \in Nat
               /\ BeginOf(a) + covered - EndOf(ChildBox(t, k)) \in {0, 1}
               /\ EndOf(ChildBox(t, k)) \in Int
  <1> DEFINE a == t.area
             w == Extent(a)
             before == ShareOfFirst(t, k - 1)
             share == t.share[t.children[k]]
             covered == (w * ShareOfFirst(t, k)) \div Whole
             begin == BeginOf(a)
             end == EndOf(ChildBox(t, k))
  <1>1. /\ before \in Nat /\ share \in Nat /\ ShareOfFirst(t, k) = before + share
    <2>1. k - 1 \in 0..Len(t.children)
      BY TilingFields
    <2> QED
      BY <2>1, SumsDefined, TilingFields
  <1>2. w \in Nat /\ begin \in Nat /\ Whole \in Nat \ {0}
    BY ChildAlong, TilingAssumption
  <1>3. end = (begin + (w * before) \div Whole) + (w * share) \div Whole
    BY ChildAlong
  <1> HIDE DEF w, before, share, begin, end
  <1>4. /\ w * before \in Nat /\ w * share \in Nat
        /\ w * (before + share) = w * before + w * share
    BY <1>1, <1>2
  <1> DEFINE p == (w * before) \div Whole
             q == (w * share) \div Whole
  <1>5. covered - p - q \in {0, 1}
    <2>1. covered = (w * before + w * share) \div Whole
      BY <1>1, <1>4
    <2> DEFINE x == w * before
               y == w * share
    <2>2. x \in Int /\ y \in Int
      BY <1>4
    <2> HIDE DEF x, y
    <2>3. (x + y) \div Whole - x \div Whole - y \div Whole \in {0, 1}
      BY <1>2, <2>2, DivSum
    <2> HIDE DEF covered
    <2> QED
      BY <2>1, <2>3 DEF x, y
  <1>6. p \in Nat /\ q \in Nat /\ covered \in Nat
    <2>1. w * ShareOfFirst(t, k) \in Nat
      BY <1>1, <1>4
    <2> QED
      BY <1>2, <1>4, <2>1, DivNat
  <1>7. end = (begin + p) + q
    BY <1>3
  <1> HIDE DEF p, q, covered
  <1>8. begin + covered - end \in {0, 1} /\ end \in Int
    BY <1>2, <1>5, <1>6, <1>7
  <1> QED
    BY <1>6, <1>8 DEF covered, begin, end, w

\* The tiling but for where it ends: also when percentages are rounded, the children lie
\* in order, do not overlap, leave out less than a pixel between two of them, and stay in
\* the area.
TilesApart ==
    t.fullscreen = None =>
        LET n == Len(t.children)
            b(i) == t.box[t.children[i]]
        IN  /\ \A i \in 1..n : SpansAcross(b(i), t.tiled_area)
            /\ n > 0 => BeginOf(b(1)) = BeginOf(t.tiled_area)
            /\ \A i \in 1..(n - 1) :
                  LET gap == BeginOf(b(i + 1)) - EndOf(b(i)) IN gap \in {0, 1}
            /\ n > 0 => EndOf(b(n)) <= EndOf(t.tiled_area)

\* What is arranged does not overlap.
LEMMA TilesApartInv == TInv => TilesApart
  <1> SUFFICES ASSUME TInv, t.fullscreen = None
               PROVE  LET n == Len(t.children)
                          b(i) == t.box[t.children[i]]
                      IN  /\ \A i \in 1..n : SpansAcross(b(i), t.tiled_area)
                          /\ n > 0 => BeginOf(b(1)) = BeginOf(t.tiled_area)
                          /\ \A i \in 1..(n - 1) :
                                LET gap == BeginOf(b(i + 1)) - EndOf(b(i)) IN gap \in {0, 1}
                          /\ n > 0 => EndOf(b(n)) <= EndOf(t.tiled_area)
    BY DEF TilesApart
  <1> DEFINE n == Len(t.children)
             a == t.area
             w == Extent(a)
             covered(k) == (w * ShareOfFirst(t, k)) \div Whole
  <1>1. /\ t \in Tilings /\ a = t.tiled_area /\ n \in Nat
        /\ \A k \in 1..n : t.box[t.children[k]] = ChildBox(t, k)
        /\ ShareOfFirst(t, n) <= Whole /\ Whole \in Nat \ {0}
    BY TilingFields, TilingAssumption DEF TInv, Shared, Typed, Arranged
  <1>2. \A k \in 1..n : SpansAcross(ChildBox(t, k), a)
    BY <1>1, ChildAlong
  <1>3. ASSUME n > 0 PROVE BeginOf(ChildBox(t, 1)) = BeginOf(a)
    <2>1. 1 \in 1..n /\ 1 - 1 = 0 /\ ShareOfFirst(t, 0) = 0
      BY <1>1, <1>3, SumsDefined
    <2>2. /\ BeginOf(ChildBox(t, 1)) = BeginOf(a) + (w * ShareOfFirst(t, 1 - 1)) \div Whole
          /\ w \in Nat /\ BeginOf(a) \in Nat
      BY <1>1, <2>1, ChildAlong
    <2> HIDE DEF w
    <2>3. (w * 0) \div Whole = 0
      BY <1>1, <2>2
    <2> QED
      BY <2>1, <2>2, <2>3
  <1>4. ASSUME NEW k \in 1..(n - 1)
        PROVE  BeginOf(ChildBox(t, k + 1)) - EndOf(ChildBox(t, k)) \in {0, 1}
    <2>1. k \in 1..n /\ k + 1 \in 1..n /\ (k + 1) - 1 = k
      BY <1>1
    <2>2. BeginOf(ChildBox(t, k + 1)) = BeginOf(a) + covered(k)
      <3> DEFINE l == k + 1
      <3>1. l \in 1..n /\ l - 1 = k
        BY <2>1
      <3> HIDE DEF l
      <3>2. BeginOf(ChildBox(t, l)) = BeginOf(a) + (w * ShareOfFirst(t, l - 1)) \div Whole
        BY <1>1, <3>1, ChildAlong
      <3> QED
        BY <3>1, <3>2 DEF l
    <2>3. /\ BeginOf(a) + covered(k) - EndOf(ChildBox(t, k)) \in {0, 1}
          /\ EndOf(ChildBox(t, k)) \in Int /\ covered(k) \in Nat /\ BeginOf(a) \in Nat
      BY <1>1, <2>1, ChildAlong, ChildEnd
    <2> DEFINE begin == BeginOf(ChildBox(t, k + 1))
               end == EndOf(ChildBox(t, k))
               f == BeginOf(a)
               c == covered(k)
    <2> HIDE DEF begin, end, f, c
    <2>4. /\ begin = f + c /\ f + c - end \in {0, 1}
          /\ end \in Int /\ c \in Nat /\ f \in Nat
      BY <2>2, <2>3 DEF begin, end, f, c
    <2>5. begin - end \in {0, 1}
      BY <2>4
    <2> QED
      BY <2>5 DEF begin, end
  <1>5. ASSUME n > 0 PROVE EndOf(ChildBox(t, n)) <= EndOf(a)
    <2>1. n \in 1..n /\ ShareOfFirst(t, n) \in Nat
      BY <1>1, <1>5, SumsDefined
    <2>2. EndOf(a) = BeginOf(a) + w /\ w \in Nat /\ BeginOf(a) \in Nat
      BY <1>1, <2>1, ChildAlong
    <2>3. /\ BeginOf(a) + covered(n) - EndOf(ChildBox(t, n)) \in {0, 1}
          /\ EndOf(ChildBox(t, n)) \in Int /\ covered(n) \in Nat
      BY <1>1, <2>1, ChildEnd
    <2>4. covered(n) <= w
      <3> DEFINE s == ShareOfFirst(t, n)
      <3>1. w * s <= w * Whole /\ w * s \in Nat
        BY <1>1, <2>1, <2>2
      <3> DEFINE p == w * s
      <3> HIDE DEF w, s
      <3>2. Whole * (p \div Whole) <= p
        <4>1. p \in Int
          BY <3>1
        <4> HIDE DEF p
        <4> QED
          BY <1>1, <4>1, DivBounds
      <3> DEFINE c == (w * s) \div Whole
      <3>3. Whole * c <= Whole * w /\ c \in Nat
        BY <1>1, <2>2, <3>1, <3>2, DivNat
      <3> HIDE DEF c
      <3>4. c <= w
        BY <1>1, <2>2, <3>3
      <3> QED
        BY <3>4 DEF c, s
    <2> DEFINE e == EndOf(ChildBox(t, n))
               f == BeginOf(a)
               c == covered(n)
    <2> HIDE DEF e, f, c, w
    <2>5. /\ f + c - e \in {0, 1} /\ e \in Int /\ c \in Nat /\ c <= w /\ f \in Nat /\ w \in Nat
          /\ EndOf(a) = f + w
      BY <2>2, <2>3, <2>4 DEF e, f, c
    <2>6. e <= EndOf(a)
      BY <2>5
    <2> QED
      BY <2>6 DEF e
  <1> HIDE DEF a, n
  <1>6. /\ \A i \in 1..n : SpansAcross(t.box[t.children[i]], t.tiled_area)
        /\ n > 0 => BeginOf(t.box[t.children[1]]) = BeginOf(t.tiled_area)
        /\ n > 0 => EndOf(t.box[t.children[n]]) <= EndOf(t.tiled_area)
    BY <1>1, <1>2, <1>3, <1>5
  <1>7. ASSUME NEW i \in 1..(n - 1)
        PROVE  BeginOf(t.box[t.children[i + 1]]) - EndOf(t.box[t.children[i]]) \in {0, 1}
    <2>1. i \in 1..n /\ i + 1 \in 1..n
      BY <1>1
    <2> QED
      BY <1>1, <1>4, <2>1
  <1> QED
    BY <1>6, <1>7 DEF n

\* What is arranged covers the area where no part is lost.
LEMMA TilesFitInv == ASSUME ExactParts PROVE TInv => TilesFit
  <1> SUFFICES ASSUME TInv, t.fullscreen = None
               PROVE  Len(t.children) > 0 =>
                         EndOf(t.tiled_area) - EndOf(t.box[t.children[Len(t.children)]]) \in {0, 1}
    BY TilesApartInv DEF TilesFit, TilesApart
  <1> SUFFICES ASSUME Len(t.children) > 0
               PROVE  EndOf(t.tiled_area) - EndOf(t.box[t.children[Len(t.children)]]) \in {0, 1}
    OBVIOUS
  <1> DEFINE n == Len(t.children)
             a == t.area
             w == Extent(a)
  <1>1. /\ t \in Tilings /\ a = t.tiled_area /\ n \in 1..n
        /\ t.box[t.children[n]] = ChildBox(t, n)
        /\ ShareOfFirst(t, n) = Whole /\ Whole \in Nat \ {0}
    <2>1. t \in Tilings /\ n \in Nat /\ n \in 1..n
      BY TilingFields DEF TInv, Shared, Typed
    <2> QED
      BY <2>1, TilingAssumption DEF TInv, Shared, Exact, Arranged
  <1>2. EndOf(a) = BeginOf(a) + w /\ w \in Nat /\ BeginOf(a) \in Nat
    BY <1>1, ChildAlong
  <1>3. /\ BeginOf(a) + (w * ShareOfFirst(t, n)) \div Whole - EndOf(ChildBox(t, n)) \in {0, 1}
        /\ EndOf(ChildBox(t, n)) \in Int
    BY <1>1, ChildEnd
  <1> HIDE DEF w, n, a
  <1>4. (w * Whole) \div Whole = w
    BY <1>1, <1>2, DivExact
  <1>5. (w * ShareOfFirst(t, n)) \div Whole = w
    BY <1>1, <1>4, Zenon
  <1>6. EndOf(a) - EndOf(ChildBox(t, n)) \in {0, 1}
    <2> DEFINE end == EndOf(ChildBox(t, n))
               f == BeginOf(a)
               c == (w * ShareOfFirst(t, n)) \div Whole
    <2> HIDE DEF end, f, c
    <2>1. /\ EndOf(a) = f + w /\ f + c - end \in {0, 1} /\ c = w
          /\ end \in Int /\ w \in Nat /\ f \in Nat
      BY <1>2, <1>3, <1>5 DEF end, f, c
    <2>2. EndOf(a) - end \in {0, 1}
      BY <2>1
    <2> QED
      BY <2>2 DEF end
  <1> QED
    BY <1>1, <1>6, Zenon DEF n

(***************************************************************************)
(* Steps                                                                   *)
(***************************************************************************)

\* A child more, or less.
LEMMA EnterLength ==
    ASSUME TInv, NEW v \in Views, NEW full \in BOOLEAN, Enter(v, full)
    PROVE  Len(t'.children) = Len(t.children) + 1
  <1> DEFINE left == Leave(t, v)
             now == InsertChild(left, v)
             tt == [now EXCEPT !.fullscreen = IF full THEN v ELSE @]
  <1>1. /\ Shared(left) /\ left.tiled_area \in Boxes
        /\ v \notin Items(left.children) /\ left.children = t.children
    BY LeaveFields, TilingFields DEF TInv, Shared, Typed, Enter, IsChild
  <1> HIDE DEF left
  <1>2. /\ Shared(now) /\ now.tiled_area \in Boxes
        /\ Len(now.children) = Len(t.children) + 1
    BY <1>1, InsertFields, InsertShared DEF Shared
  <1>3. now.fullscreen \in Views \cup {None}
    BY <1>2, TilingFields DEF Shared, Typed
  <1> HIDE DEF now
  <1>4. Shared(tt) /\ tt.tiled_area \in Boxes /\ tt.children = now.children
    <2>1. tt = [now EXCEPT !.fullscreen = IF full THEN v ELSE now.fullscreen]
      BY <1>2 DEF Shared, Typed, Tilings
    <2> QED
      BY <1>2, <1>3, <2>1, FullscreenShared
  <1>5. t' = Arrange(tt, tt.tiled_area)
    BY DEF Enter, now, left, Rearrange
  <1> HIDE DEF tt
  <1> QED
    BY <1>2, <1>4, <1>5, ArrangeShared

\* Without a fullscreen container only a child can go.
LEMMA ExitLength ==
    ASSUME TInv, NEW v \in Views, Exit(v), t.fullscreen = None
    PROVE  Len(t'.children) = Len(t.children) - 1
  <1> DEFINE left == Leave(t, v)
  <1>1. v \in Items(t.children)
    BY TilingAssumption DEF Exit, IsChild
  <1>2. /\ Shared(left) /\ left.tiled_area \in Boxes
        /\ Len(left.children) = Len(t.children) - 1
    BY <1>1, LeaveFields, TilingFields DEF TInv, Shared, Typed
  <1>3. t' = Arrange(left, left.tiled_area)
    BY DEF Exit, Rearrange
  <1> HIDE DEF left
  <1> QED
    BY <1>2, <1>3, ArrangeShared

\* A child that floats is a child less, also of a workspace with a fullscreen container.
LEMMA FloatLength ==
    ASSUME TInv, NEW v \in Views, FloatChild(v)
    PROVE  Len(t'.children) = Len(t.children) - 1
  <1> DEFINE left == Leave(t, v)
             tt == [left EXCEPT !.fullscreen = t.fullscreen]
  <1>1. v \in Items(t.children)
    BY DEF FloatChild, IsChild
  <1>2. /\ Shared(left) /\ left.tiled_area \in Boxes
        /\ Len(left.children) = Len(t.children) - 1
    BY <1>1, LeaveFields, TilingFields DEF TInv, Shared, Typed
  <1>3. t.fullscreen \in Views \cup {None}
    BY TilingFields DEF TInv, Shared, Typed
  <1> HIDE DEF left
  <1>4. Shared(tt) /\ tt.tiled_area \in Boxes /\ tt.children = left.children
    BY <1>2, <1>3, FullscreenShared
  <1>5. t' = Arrange(tt, tt.tiled_area)
    BY DEF FloatChild, Rearrange, left
  <1> HIDE DEF tt
  <1> QED
    BY <1>2, <1>4, <1>5, ArrangeShared

\* The handlers that move no child: none of them changes a share.
SharesStay == t'.children = t.children /\ t'.share = t.share

\* Arranging anew changes no share.
LEMMA AreaStays ==
    ASSUME TInv, NEW area \in Boxes
    PROVE  /\ Arrange(t, area).children = t.children
           /\ Arrange(t, area).share = t.share
  BY ArrangeFields DEF TInv, Shared

\* These handlers move no boundary by themselves.
LEMMA OtherSteps ==
    ASSUME TInv,
           \/ \E v \in Views : ToggleFullscreen(v)
           \/ \E area \in Areas : OutputArrange(area)
           \/ Display
           \/ UNCHANGED vars
    PROVE  SharesStay
  <1>1. ASSUME NEW v \in Views, ToggleFullscreen(v) PROVE SharesStay
    <2> DEFINE w == IF t.fullscreen = v THEN None ELSE v
               tt == [t EXCEPT !.fullscreen = w]
    <2>1. t \in Tilings /\ w \in Views \cup {None} /\ Typed(t)
      BY DEF TInv, Shared, Typed
    <2>2. t' = Arrange(tt, tt.tiled_area)
      BY <1>1 DEF ToggleFullscreen, ChangedFullscreen, Rearrange
    <2> HIDE DEF w
    <2>3. /\ tt \in Tilings /\ tt.children = t.children /\ tt.share = t.share
          /\ tt.tiled_area \in Boxes
      BY <2>1 DEF Tilings
    <2>4. Typed(tt)
      BY <2>1, <2>3 DEF Typed
    <2> HIDE DEF tt
    <2> QED
      BY <2>2, <2>3, <2>4, ArrangeFields DEF SharesStay
  <1>2. ASSUME NEW area \in Areas, OutputArrange(area) PROVE SharesStay
    BY <1>2, AreaStays, AreasAreBoxes DEF OutputArrange, SharesStay
  <1>3. CASE Display
    BY <1>3, AreaStays, AreasAreBoxes DEF Display, Displayed, SharesStay, TInv
  <1>4. CASE UNCHANGED vars
    BY <1>4 DEF vars, SharesStay
  <1> QED
    BY <1>1, <1>2, <1>3, <1>4

\* Another direction of tiling: the same children, with another mode.
LEMMA SwitchMode ==
    ASSUME TInv, SwitchTilingMode
    PROVE  t'.mode # t.mode /\ t'.children = t.children
  <1> DEFINE tt == [t EXCEPT !.mode = IF @ = "horizontal" THEN "vertical" ELSE "horizontal"]
  <1>1. Typed(t) /\ t \in Tilings
    BY DEF TInv, Shared, Typed
  <1>2. tt \in Tilings /\ tt.children = t.children /\ tt.mode # t.mode
    BY <1>1 DEF Tilings
  <1>3. t' = ArrangeChildren(tt)
    BY DEF SwitchTilingMode
  <1> HIDE DEF tt
  <1>4. Typed(tt)
    BY <1>1, <1>2 DEF Typed
  <1> QED
    BY <1>2, <1>3, <1>4, ArrangeChildrenFields

\* A drag of the edge between two children, the lo-th and the one behind it.
LEMMA DragMovesOne ==
    ASSUME TInv, t.fullscreen = None, NEW i \in DOMAIN t.children, NEW percentage \in Targets,
           NEW j \in Siblings(i), DragEdge(i, j, percentage)
    PROVE  LET lo == IF i < j THEN i ELSE j
           IN  /\ lo \in 1..(Len(t.children) - 1)
               /\ t'.children = t.children
               /\ \A k \in DOMAIN t.children \ {lo, lo + 1} :
                     t'.box[t.children[k]] = t.box[t.children[k]]
               /\ BeginOf(t'.box[t.children[lo]]) = BeginOf(t.box[t.children[lo]])
  <1> DEFINE lo == IF i < j THEN i ELSE j
             tt == ResizeTiled(t, t.children[i], t.children[j], percentage)
             n == Len(t.children)
  <1>1. /\ i \in 1..n /\ j \in 1..n /\ i \in Int /\ j \in Int
        /\ Shared(t) /\ Typed(t) /\ percentage \in Int /\ i # j /\ t \in Tilings
        /\ DOMAIN t.children = 1..n /\ n \in Nat
        /\ \A k \in 1..n : t.box[t.children[k]] = ChildBox(t, k)
    BY TilingFields, TilingAssumption, SMTT(30) DEF TInv, Shared, Typed, Siblings, Arranged
  <1>n. j = i - 1 \/ j = i + 1
    BY DEF Siblings
  <1>2. lo \in 1..(n - 1) /\ {i, j} = {lo, lo + 1}
    <2> HIDE DEF n
    <2>1. CASE j = i - 1
      BY <1>1, <2>1
    <2>2. CASE j = i + 1
      BY <1>1, <2>2
    <2> QED
      BY <1>n, <2>1, <2>2
  <1>3. /\ Shared(tt)
        /\ tt.children = t.children /\ tt.area = t.area /\ tt.mode = t.mode
        /\ \A k \in 1..n \ {i, j} : tt.share[t.children[k]] = t.share[t.children[k]]
        /\ \A k \in 0..n : k # lo => ShareOfFirst(tt, k) = ShareOfFirst(t, k)
    <2>1. i \in 1..Len(t.children) /\ j \in 1..Len(t.children)
      BY <1>1
    <2> HIDE DEF n, tt, lo
    <2>2. LET u == ResizeTiled(t, t.children[i], t.children[j], percentage)
              m == IF i < j THEN i ELSE j
          IN  /\ Shared(u)
              /\ u.children = t.children /\ u.area = t.area /\ u.mode = t.mode
              /\ \A k \in 1..Len(t.children) \ {i, j} :
                    u.share[t.children[k]] = t.share[t.children[k]]
              /\ \A k \in 0..Len(t.children) :
                    k # m => ShareOfFirst(u, k) = ShareOfFirst(t, k)
      BY <1>1, <1>n, <2>1, ResizeShared
    <2> QED
      BY <2>2 DEF n, tt, lo
  <1>5. t' = ArrangeChildren(tt)
    BY DEF DragEdge
  <1> HIDE DEF lo, tt
  <1>6. /\ t'.children = t.children
        /\ \A k \in 1..n : t'.box[t.children[k]] = ChildBox(tt, k)
    <2>1. Typed(tt)
      BY <1>3 DEF Shared
    <2> QED
      BY <1>3, <1>5, <2>1, ArrangeChildrenFields
  <1>7. ASSUME NEW k \in 1..n \ {lo, lo + 1} PROVE ChildBox(tt, k) = ChildBox(t, k)
    <2>1. k - 1 \in 0..n /\ k - 1 # lo
      BY <1>1, <1>2
    <2>2. ShareOfFirst(tt, k - 1) = ShareOfFirst(t, k - 1)
      BY <1>3, <2>1
    <2>3. tt.share[tt.children[k]] = t.share[t.children[k]]
      BY <1>2, <1>3
    <2> QED
      BY <1>3, <2>2, <2>3, BoxOfPlace
  <1>8. BeginOf(ChildBox(tt, lo)) = BeginOf(ChildBox(t, lo))
    <2>1. lo - 1 \in 0..n /\ lo - 1 # lo /\ lo \in 1..n
      BY <1>1, <1>2
    <2>2. ShareOfFirst(tt, lo - 1) = ShareOfFirst(t, lo - 1)
      BY <1>3, <2>1
    <2>3. t.area \in Boxes /\ t.mode \in {"horizontal", "vertical"}
      BY <1>1, TilingFields
    <2> DEFINE a == t.area
               start == ShareOfFirst(t, lo - 1)
    <2>4. \A share : LET b == [a EXCEPT !.x = @ + (a.width * start) \div Whole,
                                        !.width = (@ * share) \div Whole]
                     IN  b.x = a.x + (a.width * start) \div Whole
      <3> HIDE DEF a, start
      <3> QED
        BY <2>3 DEF Boxes, a
    <2>5. \A share : LET b == [a EXCEPT !.y = @ + (a.height * start) \div Whole,
                                        !.height = (@ * share) \div Whole]
                     IN  b.y = a.y + (a.height * start) \div Whole
      <3> HIDE DEF a, start
      <3> QED
        BY <2>3 DEF Boxes, a
    <2>6. CASE t.mode = "horizontal"
      BY <1>3, <2>2, <2>4, <2>6 DEF BeginOf, ChildBox
    <2>7. CASE t.mode = "vertical"
      BY <1>3, <2>2, <2>5, <2>7 DEF BeginOf, ChildBox
    <2> QED
      BY <2>3, <2>6, <2>7
  <1>9. lo \in 1..n
    BY <1>1, <1>2
  <1> QED
    BY <1>1, <1>2, <1>6, <1>7, <1>8, <1>9 DEF lo

\* A swap changes who is where, and nothing of the places.
LEMMA SwapMovesNone ==
    ASSUME TInv, t.fullscreen = None, NEW i \in DOMAIN t.children, NEW j \in DOMAIN t.children,
           SwapChildren(i, j)
    PROVE  /\ t'.children # t.children
           /\ \A k \in DOMAIN t.children : t'.box[t'.children[k]] = t.box[t.children[k]]
  <1> DEFINE tt == Swapped(t, i, j)
             n == Len(t.children)
  <1>1. /\ i \in 1..n /\ j \in 1..n /\ i # j
        /\ Shared(t) /\ Typed(t) /\ t \in Tilings
        /\ DOMAIN t.children = 1..n /\ n \in Nat
        /\ \A k \in 1..n : t.box[t.children[k]] = ChildBox(t, k)
    BY TilingFields DEF TInv, Shared, Typed, SwapChildren, Arranged
  <1>2. /\ Typed(tt) /\ Len(tt.children) = n /\ tt.area = t.area /\ tt.mode = t.mode
        /\ tt.children[i] = t.children[j]
        /\ \A k \in 1..n : tt.share[tt.children[k]] = t.share[t.children[k]]
    BY <1>1, SwapFields
  <1>3. \A k \in 0..n : ShareOfFirst(tt, k) = ShareOfFirst(t, k)
    BY <1>1, SwapSums
  <1>4. t' = ArrangeChildren(tt)
    BY DEF SwapChildren
  <1> HIDE DEF tt
  <1>5. /\ t'.children = tt.children
        /\ \A k \in 1..n : t'.box[tt.children[k]] = ChildBox(tt, k)
    BY <1>2, <1>4, ArrangeChildrenFields
  <1>6. ASSUME NEW k \in 1..n PROVE ChildBox(tt, k) = ChildBox(t, k)
    <2>1. k - 1 \in 0..n
      BY <1>1
    <2> QED
      BY <1>2, <1>3, <2>1, BoxOfPlace
  <1>7. t.children[i] # t.children[j]
    BY <1>1 DEF Typed, NoDuplicates
  <1> QED
    BY <1>1, <1>2, <1>5, <1>6, <1>7

(***************************************************************************)
(* The theorems                                                            *)
(***************************************************************************)

\* The tiling has its type, whatever comes, goes, is dragged, swapped or covered.
THEOREM TilingTypeCorrect == Spec => []TypeOK
  <1>1. TInv => TypeOK
    BY DEF TInv, Shared, Typed, TypeOK
  <1> QED
    BY <1>1, TilingInvariant, PTL

\* A displayed workspace is arranged in the area the output has now, in whatever order the
\* area changed and workspaces were displayed.
THEOREM AlwaysShownInUsable == Spec => []ShownInUsable
  <1>1. TInv => ShownInUsable
    BY DEF TInv
  <1> QED
    BY <1>1, TilingInvariant, PTL

\* Percentages add up to one, and each is one that its child may have (MayHave), after any
\* sequence of inserting, removing, dragging and swapping, of however many views, where the
\* whole is divided in parts enough.
THEOREM SharesAlwaysKept ==
    ASSUME ExactParts
    PROVE  Spec => []SharesKept
  <1>1. TInv => SharesKept
    <2> SUFFICES ASSUME TInv PROVE SharesKept
      OBVIOUS
    <2>1. t.children \in Seq(Views) /\ Len(t.children) \in Nat /\ Exact(t)
      BY TilingFields DEF TInv, Shared, Typed
    <2>2. CASE Len(t.children) > 0
      BY <2>1, <2>2 DEF Exact, SharesKept
    <2>3. CASE Len(t.children) = 0
      <3>1. t.children = <<>> /\ Items(t.children) = {}
        BY <2>1, <2>3 DEF Items
      <3> QED
        BY <3>1 DEF SharesKept
    <2> QED
      BY <2>1, <2>2, <2>3
  <1> QED
    BY <1>1, TilingInvariant, PTL

\* Whatever happened behind a fullscreen container or while another workspace was
\* displayed, the children tile the area to the last pixel but one.
THEOREM AlwaysTiled ==
    ASSUME ExactParts
    PROVE  Spec => []TilesFit
  <1>1. TInv => TilesFit
    BY TilesFitInv
  <1> QED
    BY <1>1, TilingInvariant, PTL

\* Also where percentages are rounded, children never overlap and never leave the area.
THEOREM TilesNeverOverlap == Spec => []TilesApart
  BY TilesApartInv, TilingInvariant, PTL

\* Dragging an edge moves one boundary and leaves the boxes of all others as they are.
THEOREM DragsMoveOneBoundary == Spec => OneBoundaryMoves
  <1> DEFINE Guard == /\ t'.children = t.children /\ t'.mode = t.mode
                      /\ t.fullscreen = None /\ t'.share # t.share
             Moved == \E i \in 1..(Len(t.children) - 1) :
                         /\ \A j \in DOMAIN t.children \ {i, i + 1} :
                               t'.box[t.children[j]] = t.box[t.children[j]]
                         /\ BeginOf(t'.box[t.children[i]]) = BeginOf(t.box[t.children[i]])
  <1>1. TInv /\ [Next]_vars => (Guard => Moved)
    <2> SUFFICES ASSUME TInv, [Next]_vars, Guard PROVE Moved
      OBVIOUS
    <2>1. Len(t.children) \in Nat
      BY TilingFields DEF TInv, Shared, Typed
    <2>2. ASSUME NEW v \in Views, NEW full \in BOOLEAN, Enter(v, full) PROVE FALSE
      BY <2>1, <2>2, EnterLength
    <2>3. ASSUME NEW v \in Views, Exit(v) PROVE FALSE
      BY <2>1, <2>3, ExitLength
    <2>f. ASSUME NEW v \in Views, FloatChild(v) PROVE FALSE
      BY <2>1, <2>f, FloatLength
    <2>4. ASSUME NEW i \in DOMAIN t.children, NEW j \in DOMAIN t.children, SwapChildren(i, j)
          PROVE  FALSE
      BY <2>4, SwapMovesNone
    <2>5. ASSUME NEW i \in DOMAIN t.children, NEW percentage \in Targets,
                 NEW j \in Siblings(i), DragEdge(i, j, percentage)
          PROVE  Moved
      <3> DEFINE lo == IF i < j THEN i ELSE j
      <3>1. /\ lo \in 1..(Len(t.children) - 1)
            /\ \A k \in DOMAIN t.children \ {lo, lo + 1} :
                  t'.box[t.children[k]] = t.box[t.children[k]]
            /\ BeginOf(t'.box[t.children[lo]]) = BeginOf(t.box[t.children[lo]])
        BY <2>5, DragMovesOne
      <3> HIDE DEF lo
      <3> QED
        BY <3>1
    <2>6. ~SwitchTilingMode
      BY SwitchMode
    <2>7. ~SharesStay
      BY DEF SharesStay
    <2> HIDE DEF Guard, Moved
    <2> QED
      BY <2>2, <2>3, <2>f, <2>4, <2>5, <2>6, <2>7, OtherSteps DEF Next
  <1>2. TInv /\ [Next]_vars => [Guard => Moved]_vars
    BY <1>1
  <1> QED
    BY <1>2, TilingInvariant, PTL DEF Spec, OneBoundaryMoves

\* Two children that change places take over each other's box exactly.
THEOREM SwapsKeepPlaces == Spec => SwapKeepsPlaces
  <1> DEFINE Guard == /\ Len(t'.children) = Len(t.children) /\ t'.children # t.children
                      /\ t.fullscreen = None /\ t'.fullscreen = None
             Kept == \A i \in DOMAIN t.children :
                        t'.box[t'.children[i]] = t.box[t.children[i]]
  <1>1. TInv /\ [Next]_vars => (Guard => Kept)
    <2> SUFFICES ASSUME TInv, [Next]_vars, Guard PROVE Kept
      OBVIOUS
    <2>1. Len(t.children) \in Nat
      BY TilingFields DEF TInv, Shared, Typed
    <2>2. ASSUME NEW v \in Views, NEW full \in BOOLEAN, Enter(v, full) PROVE FALSE
      BY <2>1, <2>2, EnterLength
    <2>3. ASSUME NEW v \in Views, Exit(v) PROVE FALSE
      BY <2>1, <2>3, ExitLength
    <2>f. ASSUME NEW v \in Views, FloatChild(v) PROVE FALSE
      BY <2>1, <2>f, FloatLength
    <2>4. ASSUME NEW i \in DOMAIN t.children, NEW j \in DOMAIN t.children, SwapChildren(i, j)
          PROVE  Kept
      BY <2>4, SwapMovesNone
    <2>5. ASSUME NEW i \in DOMAIN t.children, NEW percentage \in Targets,
                 NEW j \in Siblings(i), DragEdge(i, j, percentage)
          PROVE  FALSE
      BY <2>5, DragMovesOne
    <2>6. ~SwitchTilingMode
      BY SwitchMode
    <2>7. ~SharesStay
      BY DEF SharesStay
    <2> HIDE DEF Guard, Kept
    <2> QED
      BY <2>2, <2>3, <2>f, <2>4, <2>5, <2>6, <2>7, OtherSteps DEF Next
  <1>2. TInv /\ [Next]_vars => [Guard => Kept]_vars
    BY <1>1
  <1> QED
    BY <1>2, TilingInvariant, PTL DEF Spec, SwapKeepsPlaces

=============================================================================
