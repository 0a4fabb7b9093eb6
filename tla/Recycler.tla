------------------------------ MODULE Recycler ------------------------------
(***************************************************************************)
(* The slab-like storage of src/recycler.rs, as operators on one record:   *)
(*   data : the slots, each None or Some(item)      (Vec<Option<T>>)       *)
(*   free : the indexes of the unused slots, a stack       (Vec<usize>)    *)
(* Indexes count from 0 as in the source; slot idx is data[idx + 1].       *)
(*                                                                         *)
(* An operator that the code guards by an assert! is paired with a         *)
(* predicate that says when the assertion holds; the modules that use the  *)
(* recycler decide what a failed assertion does to them.                   *)
(***************************************************************************)
EXTENDS Integers, Sequences, FiniteSets

\* Option<T>: a sequence of at most one item.
None == << >>
Some(item) == << item >>
Option(T) == {s \in Seq(T) : Len(s) <= 1}

\* The storages of items of type T.
RecyclerOf(T) == [data : Seq(Option(T)), free : Seq(Nat)]

\* Recycler::new
EmptyRecycler == [data |-> << >>, free |-> << >>]

\* valid: the index lies inside the storage and its slot holds an item.
Valid(r, idx) == /\ idx \in 0 .. Len(r.data) - 1
                 /\ r.data[idx + 1] # None

\* index: the item in a valid slot (the code asserts Valid).
At(r, idx) == r.data[idx + 1][1]

\* The index that store returns: the top of the free stack, or a new slot.
StoreIdx(r) == IF r.free # << >> THEN r.free[Len(r.free)] ELSE Len(r.data)

\* The assertion of store: a slot taken from the free stack is empty.
StoreAsserts(r) ==
    r.free # << >> =>
        /\ StoreIdx(r) \in 0 .. Len(r.data) - 1
        /\ r.data[StoreIdx(r) + 1] = None

\* store
Store_Appends(r, item) == [data |-> Append(r.data, Some(item)), free |-> r.free]
Store_KeepsFree(r, item) ==
    IF r.free # << >>
    THEN [r EXCEPT !.data[StoreIdx(r) + 1] = Some(item)]
    ELSE [data |-> Append(r.data, Some(item)), free |-> r.free]
Store(r, item) ==
    IF r.free # << >>
    THEN [data |-> [r.data EXCEPT ![StoreIdx(r) + 1] = Some(item)],
          free |-> SubSeq(r.free, 1, Len(r.free) - 1)]
    ELSE [data |-> Append(r.data, Some(item)), free |-> r.free]

\* release (the code asserts Valid(r, idx))
Release_Forgets(r, idx) == [r EXCEPT !.data[idx + 1] = None]
Release(r, idx) == [data |-> [r.data EXCEPT ![idx + 1] = None],
                    free |-> Append(r.free, idx)]

\* index_mut followed by an assignment (the code asserts Valid(r, idx))
Update(r, idx, item) == [data |-> [r.data EXCEPT ![idx + 1] = Some(item)],
                         free |-> r.free]

\* len and is_empty
RecyclerLen(r) == Len(r.data) - Len(r.free)
IsEmpty(r) == RecyclerLen(r) = 0

\* The indexes in use.
Used(r) == {idx \in 0 .. Len(r.data) - 1 : r.data[idx + 1] # None}

\* What keeps the storage sound: the free stack lists exactly the empty slots,
\* each one once.  It is what makes the assertion of store and the subtraction
\* of len safe.
RecyclerOK(r) ==
    /\ \A k \in 1 .. Len(r.free) : /\ r.free[k] \in 0 .. Len(r.data) - 1
                                   /\ r.data[r.free[k] + 1] = None
    /\ \A j, k \in 1 .. Len(r.free) : r.free[j] = r.free[k] => j = k
    /\ \A idx \in 0 .. Len(r.data) - 1 :
           r.data[idx + 1] = None => \E k \in 1 .. Len(r.free) : r.free[k] = idx
=============================================================================
