-------------------------- MODULE RecyclerMachine --------------------------
(***************************************************************************)
(* A Recycler and its user: any operation of src/recycler.rs, with any     *)
(* index, in any order.  An assertion that fails unwinds out of the        *)
(* operation before it changes anything, and the storage may be used on.   *)
(***************************************************************************)
EXTENDS Recycler

CONSTANTS Item,      (* the items stored                                   *)
          MaxSlots   (* bound: slots ever allocated                        *)

ASSUME MaxSlotsAssumption == MaxSlots \in Nat

VARIABLES rec,     (* the Recycler                                         *)
          answer   (* what the last operation returned, or a panic         *)

\* The indexes the user tries; the last one is never in use.
Index == 0 .. MaxSlots

machine == << rec, answer >>

StorageInit == rec = EmptyRecycler /\ answer = << "none" >>

\* store, with the assertion on the slot it takes from the free stack
StoreItem(item) ==
    /\ rec.free # << >> \/ Len(rec.data) < MaxSlots
    /\ rec' = IF StoreAsserts(rec) THEN Store(rec, item) ELSE rec
    /\ answer' = << IF StoreAsserts(rec) THEN "index" ELSE "panic", StoreIdx(rec) >>

\* release
ReleaseItem(idx) ==
    \/ /\ Valid(rec, idx)
       /\ rec' = Release(rec, idx) /\ answer' = << "item", At(rec, idx) >>
    \/ ~Valid(rec, idx) /\ answer' = << "panic", idx >> /\ UNCHANGED rec

\* index
ReadItem(idx) ==
    /\ answer' = IF Valid(rec, idx) THEN << "item", At(rec, idx) >> ELSE << "panic", idx >>
    /\ UNCHANGED rec

\* index_mut, and the assignment through it
AssignItem(idx, item) ==
    \/ Valid(rec, idx) /\ rec' = Update(rec, idx, item) /\ answer' = << "none" >>
    \/ ~Valid(rec, idx) /\ answer' = << "panic", idx >> /\ UNCHANGED rec

\* len
CountItems == answer' = << "len", RecyclerLen(rec) >> /\ UNCHANGED rec

StorageNext ==
    \/ \E item \in Item : StoreItem(item)
    \/ \E idx \in Index : ReleaseItem(idx) \/ ReadItem(idx)
    \/ \E idx \in Index, item \in Item : AssignItem(idx, item)
    \/ CountItems

StorageSpec == StorageInit /\ [][StorageNext]_machine

-----------------------------------------------------------------------------
(* Properties.                                                             *)

StorageTypeOK == rec \in RecyclerOf(Item) /\ Len(rec.data) <= MaxSlots

\* The two vectors of the Recycler agree, whatever the user does with indexes
\* that were released or never given out.
StorageSound == StorageTypeOK /\ RecyclerOK(rec)

\* The Recycler is the finite map its comments describe.
Map == INSTANCE SlotMap WITH
          items <- [idx \in Used(rec) |-> At(rec, idx)]
IsSlotMap == Map!Spec
=============================================================================
