------------------------------ MODULE ListOps ------------------------------
(***************************************************************************)
(* What the operations of struct e_list (util/list.c) do to the contents   *)
(* of a list, seen as a sequence.  Positions count from 1 here and from 0  *)
(* in the code, so the code's "not found" (-1) is position 0.              *)
(***************************************************************************)
LOCAL INSTANCE Naturals
LOCAL INSTANCE Sequences

\* The items of a list.
Items(s) == {s[i] : i \in DOMAIN s}

\* No item is in the list twice.
NoDuplicates(s) == \A i, j \in DOMAIN s : s[i] = s[j] => i = j

\* Position of the first occurrence of x, 0 when x is not in the list.
ListFind(s, x) ==
    IF x \in Items(s)
    THEN CHOOSE i \in DOMAIN s : s[i] = x /\ \A j \in 1..(i - 1) : s[j] # x
    ELSE 0

\* Close the gap at position k: the items behind it move one to the left.
ListRemoveAt(s, k) ==
    [i \in 1..(Len(s) - 1) |-> IF i < k THEN s[i] ELSE s[i + 1]]

\* Open a gap at position k: the items from k on move one to the right.
ListInsertAt(s, k, x) ==
    [i \in 1..(Len(s) + 1) |->
        IF i < k THEN s[i] ELSE IF i = k THEN x ELSE s[i - 1]]

\* Remove the first occurrence of x, if there is one.
ListRemove(s, x) ==
    IF ListFind(s, x) = 0 THEN s ELSE ListRemoveAt(s, ListFind(s, x))
=============================================================================
