------------------------------ MODULE SlotMap ------------------------------
(***************************************************************************)
(* What the comments of src/recycler.rs promise of a Recycler, without     *)
(* saying how: a finite map from indexes to items.  A stored item gets an  *)
(* index no other item has, keeps it until it is released, and any use of  *)
(* an index without an item is refused and changes nothing.                *)
(***************************************************************************)
EXTENDS Integers, FiniteSets

CONSTANTS Item,    (* the items stored                                     *)
          Index    (* the indexes a user may try                           *)

VARIABLES items,   (* a function from the indexes in use to their items    *)
          answer   (* what the last operation returned                     *)

vars == << items, answer >>

Init == DOMAIN items = {} /\ answer = << "none" >>

\* Store an item under some index that is not in use.
Store(item) ==
    \E idx \in DOMAIN items' \ DOMAIN items :
        /\ idx \in Index
        /\ DOMAIN items' = DOMAIN items \cup {idx}
        /\ items'[idx] = item
        /\ \A other \in DOMAIN items : items'[other] = items[other]
        /\ answer' = << "index", idx >>

Release(idx) ==
    /\ idx \in DOMAIN items
    /\ items' = [other \in DOMAIN items \ {idx} |-> items[other]]
    /\ answer' = << "item", items[idx] >>

Assign(idx, item) ==
    /\ idx \in DOMAIN items
    /\ items' = [items EXCEPT ![idx] = item]
    /\ answer' = << "none" >>

Read(idx) ==
    /\ idx \in DOMAIN items
    /\ answer' = << "item", items[idx] >>
    /\ UNCHANGED items

\* Any of the three above on an index without an item: only that is refused.
Refuse(idx) ==
    /\ idx \notin DOMAIN items
    /\ answer' = << "panic", idx >>
    /\ UNCHANGED items

Count == answer' = << "len", Cardinality(DOMAIN items) >> /\ UNCHANGED items

Next ==
    \/ \E item \in Item : Store(item)
    \/ \E idx \in DOMAIN items : Release(idx) \/ Read(idx)
    \/ \E idx \in DOMAIN items, item \in Item : Assign(idx, item)
    \/ \E idx \in Index : Refuse(idx)
    \/ Count

Spec == Init /\ [][Next]_vars
=============================================================================
