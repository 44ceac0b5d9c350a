------------------------------- MODULE EList -------------------------------
(***************************************************************************)
(* struct e_list (util/list.c): the array in which a list keeps its items. *)
(* ListOps says what its operations do to the contents; this module says   *)
(* how: slots, their count and capacity, the loops that move items, and    *)
(* what happens where there is no memory for a larger array.               *)
(*                                                                         *)
(* A list l is a record:                                                   *)
(*   l.items     the slots, a function on 0..(l.capacity - 1)              *)
(*   l.count     how many of them hold items                               *)
(*   l.capacity  how many there are                                        *)
(* An operation that may fail returns what it reports (ok) and the list    *)
(* after it; memory says whether realloc finds any.  An operation on two   *)
(* lists, which may be one, works on a function lists from their names.    *)
(* Positions count from 0, as in the code.  Capacities stay far below      *)
(* where an int overflows.                                                 *)
(***************************************************************************)
EXTENDS Integers, Sequences, ListOps

\* What a slot without an item holds; the operations assert that no item is it.
NullItem == "NULL"

\* A list of items from S: every slot up to count holds one, and none behind it does.
IsEList(l, S) ==
    /\ l \in [items : [0..(l.capacity - 1) -> S \cup {NullItem}],
              count : 0..l.capacity, capacity : Nat \ {0}]
    /\ \A i \in 0..(l.capacity - 1) : l.items[i] \in S <=> i < l.count

\* What callers see of a list.
Contents(l) == [i \in 1..l.count |-> l.items[i - 1]]

EListInit(capacity) ==
    [items |-> [i \in 0..(capacity - 1) |-> NullItem], count |-> 0, capacity |-> capacity]

EListAt(l, index) == IF index \in 0..(l.count - 1) THEN l.items[index] ELSE NullItem

\* The first capacity, doubled again and again, that is wanted at least.
Doubled(capacity, wanted) ==
    LET twice[k \in 0..wanted] == IF k = 0 THEN capacity ELSE 2 * twice[k - 1]
    IN  twice[CHOOSE k \in 0..wanted :
                 twice[k] >= wanted /\ \A j \in 0..(k - 1) : twice[j] < wanted]

EnsureCapacity(l, wanted, memory) ==
    LET larger == Doubled(l.capacity, wanted)
        slots == [i \in 0..(larger - 1) |-> IF i < l.capacity THEN l.items[i] ELSE NullItem]
    IN  IF l.capacity >= wanted THEN [ok |-> TRUE, list |-> l]
        ELSE IF ~memory THEN [ok |-> FALSE, list |-> l]
        ELSE [ok |-> TRUE, list |-> [l EXCEPT !.items = slots, !.capacity = larger]]

\* The loop that opens a gap at index, from the last of count items down to it.
ShiftedRight(items, count, index) ==
    LET after[k \in 0..(count - index)] ==
            IF k = 0 THEN items
            ELSE [after[k - 1] EXCEPT ![count - k + 1] = after[k - 1][count - k]]
    IN  after[count - index]

\* The loop that closes the gap at index, from the item behind it up to the last.
ShiftedLeft(items, count, index) ==
    LET after[k \in 0..(count - 1 - index)] ==
            IF k = 0 THEN items
            ELSE [after[k - 1] EXCEPT ![index + k - 1] = after[k - 1][index + k]]
    IN  after[count - 1 - index]

EListInsert(l, x, index, memory) ==
    LET room == EnsureCapacity(l, l.count + 1, memory)
        moved == ShiftedRight(room.list.items, l.count, index)
    IN  IF index \notin 0..l.count \/ ~room.ok THEN [ok |-> FALSE, list |-> l]
        ELSE [ok |-> TRUE,
              list |-> [room.list EXCEPT !.items = [moved EXCEPT ![index] = x], !.count = @ + 1]]

\* e_list_add does not look at what the insertion reports.
EListAdd(l, x, memory) ==
    [ok |-> TRUE, list |-> EListInsert(l, x, l.count, memory).list]

EListFindIndex(l, x) ==
    IF \E i \in 0..(l.count - 1) : l.items[i] = x
    THEN CHOOSE i \in 0..(l.count - 1) :
            l.items[i] = x /\ \A j \in 0..(i - 1) : l.items[j] # x
    ELSE -1

EListRemoveIndex(l, index) ==
    LET moved == ShiftedLeft(l.items, l.count, index)
    IN  IF index \notin 0..(l.count - 1) THEN [ok |-> FALSE, list |-> l]
        ELSE [ok |-> TRUE,
              list |-> [l EXCEPT !.items = [moved EXCEPT ![l.count - 1] = NullItem],
                                 !.count = @ - 1]]

\* e_list_remove, whose search is that of e_list_find_index.
EListRemove(l, x) == EListRemoveIndex(l, EListFindIndex(l, x))

EListClear(l) ==
    [l EXCEPT !.items = [i \in DOMAIN @ |-> IF i < l.count THEN NullItem ELSE @[i]],
              !.count = 0]

\* One slot after the other is assigned, so that a and b may be the same list.
EListSwapOutside(lists, a, i, b, j) ==
    LET tmp == lists[a].items[i]
        once == [lists EXCEPT ![a].items[i] = lists[b].items[j]]
    IN  IF i \notin 0..(lists[a].count - 1) \/ j \notin 0..(lists[b].count - 1)
        THEN [ok |-> FALSE, lists |-> lists]
        ELSE [ok |-> TRUE, lists |-> [once EXCEPT ![b].items[j] = tmp]]

\* The items are copied into a list that was cleared, and its count stays 0.
EListCopyTo(lists, src, dest, memory) ==
    LET cleared == [lists EXCEPT ![dest] = EListClear(@)]
        room == EnsureCapacity(cleared[dest], cleared[src].count, memory)
        copied == [i \in DOMAIN room.list.items |->
                      IF i < cleared[src].count THEN cleared[src].items[i]
                      ELSE room.list.items[i]]
    IN  IF ~room.ok THEN [ok |-> FALSE, lists |-> cleared]
        ELSE [ok |-> TRUE, lists |-> [cleared EXCEPT ![dest] = [room.list EXCEPT !.items = copied]]]

-----------------------------------------------------------------------------
(***************************************************************************)
(* What the operations promise                                             *)
(***************************************************************************)

\* An insertion that reports success did to the contents what ListInsertAt says, and one
\* that does not report it did nothing; it fails only for want of memory or of a place.
InsertImplements(l, x, index, memory, S) ==
    LET r == EListInsert(l, x, index, memory)
    IN  /\ IsEList(r.list, S)
        /\ r.ok => Contents(r.list) = ListInsertAt(Contents(l), index + 1, x)
        /\ ~r.ok => r.list = l
        /\ r.ok <=> index \in 0..l.count /\ (memory \/ l.count < l.capacity)

\* e_list_add appends, or leaves the list as it was, and reports success either way.
AddImplements(l, x, memory, S) ==
    LET r == EListAdd(l, x, memory)
    IN  /\ IsEList(r.list, S)
        /\ r.ok
        /\ IF memory \/ l.count < l.capacity
           THEN Contents(r.list) = Append(Contents(l), x)
           ELSE r.list = l

FindImplements(l, x) == EListFindIndex(l, x) = ListFind(Contents(l), x) - 1

\* Removing an item does to the contents what ListRemove says, and reports whether it was
\* there.
RemoveImplements(l, x, S) ==
    LET r == EListRemove(l, x)
    IN  /\ IsEList(r.list, S)
        /\ Contents(r.list) = ListRemove(Contents(l), x)
        /\ r.ok <=> x \in Items(Contents(l))

\* The contents of lists when the items at position i of a and position j of b have
\* changed places: those of one list, or of two.
ExchangedContents(lists, a, i, b, j) ==
    [c \in DOMAIN lists |->
        [k \in 1..lists[c].count |->
            IF c = a /\ k = i + 1 THEN Contents(lists[b])[j + 1]
            ELSE IF c = b /\ k = j + 1 THEN Contents(lists[a])[i + 1]
            ELSE Contents(lists[c])[k]]]

SwapImplements(lists, a, i, b, j, S) ==
    LET r == EListSwapOutside(lists, a, i, b, j)
    IN  /\ \A c \in DOMAIN lists : IsEList(r.lists[c], S)
        /\ r.ok => \A c \in DOMAIN lists :
                      Contents(r.lists[c]) = ExchangedContents(lists, a, i, b, j)[c]
        /\ ~r.ok => r.lists = lists

\* Whatever was copied, and whatever is reported, the list copied to has no contents.
CopyEmpties(lists, src, dest, memory) ==
    LET r == EListCopyTo(lists, src, dest, memory)
    IN  /\ Contents(r.lists[dest]) = <<>>
        /\ \A c \in DOMAIN lists \ {dest} : r.lists[c] = lists[c]
=============================================================================
