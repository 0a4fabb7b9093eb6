------------------------------ MODULE IoProofs ------------------------------
(***************************************************************************)
(* Proofs about IoTable: the tables agree, and readiness does not reach    *)
(* another IO, for any numbers of events, IOs and nested callbacks.        *)
(***************************************************************************)
EXTENDS IoTable, RecyclerProofs

\* The types, without the bound on the length of the table.
Typed ==
    /\ ios \in RecyclerOf(Event)
    /\ ios_released \subseteq Nat
    /\ IsFiniteSet(watched) /\ watched \subseteq Registration
    /\ Live \subseteq 0 .. born - 1 /\ born \in Nat /\ made \in Nat
    /\ scheduled \in Seq(Task)
    /\ calls \in Seq(Event)

\* Called events live, and are called once.
StackLives ==
    /\ \A i \in 1 .. Len(calls) : calls[i] \in Live
    /\ \A i, j \in 1 .. Len(calls) : calls[i] = calls[j] => i = j

\* Each IO belongs to one event, under one index, and was registered before.
IosDistinct ==
    /\ \A e \in Live : \A k \in DOMAIN owned[e] : k \in Nat /\ owned[e][k] \in 0 .. made - 1
    /\ \A e, f \in Live : \A k \in DOMAIN owned[e], l \in DOMAIN owned[f] :
         owned[e][k] = owned[f][l] => e = f /\ k = l

Sound == Typed /\ StackLives /\ IosDistinct

\* Tasks are for events that were inserted before.
TasksPast == \A k \in 1 .. Len(scheduled) : scheduled[k].idx \notin removed => scheduled[k].to < born

-----------------------------------------------------------------------------
(* Lemmas about the data.                                                  *)

LEMMA Longer ==
    ASSUME NEW S, NEW q \in Seq(S), NEW x \in S
    PROVE  /\ Append(q, x) \in Seq(S)
           /\ Len(Append(q, x)) = Len(q) + 1 /\ Len(q) \in Nat
           /\ \A i \in 1 .. Len(q) : Append(q, x)[i] = q[i]
           /\ Append(q, x)[Len(q) + 1] = x
OBVIOUS

LEMMA Rest ==
    ASSUME NEW S, NEW q \in Seq(S), q # << >>
    PROVE  /\ Head(q) \in S /\ Head(q) = q[1] /\ Tail(q) \in Seq(S)
           /\ Len(Tail(q)) = Len(q) - 1 /\ Len(q) \in Nat \ {0}
           /\ \A i \in 1 .. Len(q) - 1 : Tail(q)[i] = q[i + 1]
OBVIOUS

LEMMA TopLives ==
    ASSUME Sound, calls # << >>
    PROVE  /\ Top \in Live /\ Top \in Event /\ Top = calls[Len(calls)]
           /\ Len(calls) \in Nat \ {0}
BY DEF Sound, Typed, StackLives, Top, Event

-----------------------------------------------------------------------------
(* TablesAgree, one index at a time.                                       *)

OwnersAgree == \A e \in Live : \A k \in DOMAIN owned[e] :
                  k \notin removed => Valid(ios, k) /\ At(ios, k) = e
AllOwnedOrPending ==
    \A k : Valid(ios, k) /\ k \notin removed =>
            k \in ios_released \/ \E e \in Live : k \in DOMAIN owned[e]
PendingTaken == \A k \in ios_released : k \notin removed => Valid(ios, k)
PendingApart == \A e \in Live : \A k \in DOMAIN owned[e] : k \in ios_released => k \in removed
PanicsLate == pc = "panic" => removed # {}
Owns(w, e) == w.idx \in DOMAIN owned[e] /\ owned[e][w.idx] = w.io
WatchedOwned == pc # "panic" => \A w \in watched : \E e \in Live : Owns(w, e)
OwnedWatched == pc # "panic" => \A e \in Live : \A k \in DOMAIN owned[e] :
                                  [idx |-> k, io |-> owned[e][k]] \in watched
Parts ==
    /\ RecyclerOK(ios)
    /\ OwnersAgree /\ AllOwnedOrPending /\ PendingTaken /\ PendingApart
    /\ PanicsLate /\ WatchedOwned /\ OwnedWatched

LEMMA WatchFacts ==
    ASSUME watched \subseteq Registration
    PROVE  (pc # "panic" => watched = UNION {Watches(e) : e \in Live})
             <=> WatchedOwned /\ OwnedWatched
<1>1. \A w \in Registration : \A e \in Live : w \in Watches(e) <=> Owns(w, e)
  BY DEF Watches, Registration, Owns
<1>2. \A w : w \in UNION {Watches(e) : e \in Live} <=> \E e \in Live : w \in Watches(e)
  OBVIOUS
<1>3. \A e \in Live : \A w : w \in Watches(e) <=>
          \E k \in DOMAIN owned[e] : w = [idx |-> k, io |-> owned[e][k]]
  BY DEF Watches
<1>4. (watched = UNION {Watches(e) : e \in Live}) <=>
          /\ \A w \in watched : \E e \in Live : Owns(w, e)
          /\ \A e \in Live : \A k \in DOMAIN owned[e] : [idx |-> k, io |-> owned[e][k]] \in watched
  BY <1>1, <1>2, <1>3
<1> QED
  BY <1>4 DEF WatchedOwned, OwnedWatched

LEMMA PartsOfTables == Typed => (TablesAgree <=> Parts)
<1> SUFFICES ASSUME Typed PROVE TablesAgree <=> Parts
  OBVIOUS
<1>1. \A k : k \in AllOwned <=> \E e \in Live : k \in DOMAIN owned[e]
  BY DEF AllOwned
<1>2. \A k : k \in Used(ios) <=> Valid(ios, k)
  BY UsedIsValid
<1>3. (Used(ios) \ removed = (ios_released \cup AllOwned) \ removed) <=>
          \A k : k \notin removed => (Valid(ios, k) <=> k \in ios_released \/ k \in AllOwned)
  BY <1>2
<1>4. ((ios_released \cap AllOwned) \subseteq removed) <=> PendingApart
  BY <1>1 DEF PendingApart
<1>5. (\A e \in Live : \A idx \in DOMAIN owned[e] \ removed : Valid(ios, idx) /\ At(ios, idx) = e)
          <=> OwnersAgree
  BY DEF OwnersAgree
<1>6. OwnersAgree =>
        ((\A k : k \notin removed => (Valid(ios, k) <=> k \in ios_released \/ k \in AllOwned))
           <=> AllOwnedOrPending /\ PendingTaken)
  BY <1>1 DEF OwnersAgree, AllOwnedOrPending, PendingTaken
<1>7. (pc # "panic" => watched = UNION {Watches(e) : e \in Live}) <=> WatchedOwned /\ OwnedWatched
  BY WatchFacts DEF Typed
<1> QED
  BY <1>3, <1>4, <1>5, <1>6, <1>7 DEF TablesAgree, Parts, PanicsLate

-----------------------------------------------------------------------------
(* The changes of the events and their IOs.                                *)

\* A new event
LEMMA NewEvent ==
    ASSUME Typed, owned' = With(owned, born, << >>)
    PROVE  /\ born \notin Live /\ Live' = Live \cup {born}
           /\ \A e \in Live : owned'[e] = owned[e]
           /\ DOMAIN owned'[born] = {}
<1>1. born \notin Live
  BY DEF Typed
<1>2. /\ DOMAIN owned' = DOMAIN owned \cup {born}
      /\ owned'[born] = << >>
      /\ \A x \in DOMAIN owned : x # born => owned'[x] = owned[x]
  BY DEF With
<1>3. DOMAIN owned'[born] = {}
  BY <1>2
<1> QED
  BY <1>1, <1>2, <1>3 DEF Live

\* The event being called gets an IO ...
LEMMA NewIo ==
    ASSUME Sound, calls # << >>, NEW idx,
           owned' = [owned EXCEPT ![Top] = With(@, idx, made)]
    PROVE  /\ Live' = Live
           /\ \A e \in Live : e # Top => owned'[e] = owned[e]
           /\ DOMAIN owned'[Top] = DOMAIN owned[Top] \cup {idx}
           /\ owned'[Top][idx] = made
           /\ \A k \in DOMAIN owned[Top] : k # idx => owned'[Top][k] = owned[Top][k]
<1>1. Top \in DOMAIN owned
  BY TopLives DEF Live
<1>2. /\ owned'[Top] = With(owned[Top], idx, made) /\ DOMAIN owned' = DOMAIN owned
      /\ \A e \in DOMAIN owned : e # Top => owned'[e] = owned[e]
  BY <1>1
<1>3. /\ DOMAIN owned'[Top] = DOMAIN owned[Top] \cup {idx}
      /\ owned'[Top][idx] = made
      /\ \A k \in DOMAIN owned[Top] : k # idx => owned'[Top][k] = owned[Top][k]
  BY <1>2 DEF With
<1> QED
  BY <1>2, <1>3 DEF Live

\* ... or loses one ...
LEMMA LessIo ==
    ASSUME Sound, calls # << >>, NEW idx,
           owned' = [owned EXCEPT ![Top] = Without(@, idx)]
    PROVE  /\ Live' = Live
           /\ \A e \in Live : e # Top => owned'[e] = owned[e]
           /\ DOMAIN owned'[Top] = DOMAIN owned[Top] \ {idx}
           /\ \A k \in DOMAIN owned[Top] \ {idx} : owned'[Top][k] = owned[Top][k]
<1>1. Top \in DOMAIN owned
  BY TopLives DEF Live
<1>2. /\ owned'[Top] = Without(owned[Top], idx) /\ DOMAIN owned' = DOMAIN owned
      /\ \A e \in DOMAIN owned : e # Top => owned'[e] = owned[e]
  BY <1>1
<1>3. /\ DOMAIN owned'[Top] = DOMAIN owned[Top] \ {idx}
      /\ \A k \in DOMAIN owned[Top] \ {idx} : owned'[Top][k] = owned[Top][k]
  BY <1>2 DEF Without
<1> QED
  BY <1>2, <1>3 DEF Live

\* ... or dies.
LEMMA LessEvent ==
    ASSUME owned' = Without(owned, Top)
    PROVE  /\ Live' = Live \ {Top}
           /\ \A e \in Live' : owned'[e] = owned[e]
BY DEF Without, Live

-----------------------------------------------------------------------------
(* The tables through each action.                                         *)

IInv == Sound /\ Parts

LEMMA InvInit == Init => IInv
<1> SUFFICES ASSUME Init PROVE IInv
  OBVIOUS
<1>1. Live = {}
  BY DEF Init, Live
<1>2. Typed
  BY <1>1, EmptyFacts, FS_EmptySet DEF Init, Typed
<1>3. StackLives /\ IosDistinct
  BY <1>1 DEF Init, StackLives, IosDistinct
<1>4. RecyclerOK(ios) /\ \A k : ~Valid(ios, k)
  BY EmptyFacts DEF Init
<1>5. Parts
  BY <1>1, <1>4 DEF Init, Parts, OwnersAgree, AllOwnedOrPending, PendingTaken, PendingApart,
                    PanicsLate, WatchedOwned, OwnedWatched
<1> QED
  BY <1>2, <1>3, <1>5 DEF IInv, Sound

\* Steps that touch no table
LEMMA Untouched ==
    ASSUME IInv, UNCHANGED << tables, inputs >>,
           scheduled' \in Seq(Task), calls' \in Seq(Event), StackLives',
           pc # "panic", pc' = "panic" => removed # {}
    PROVE  IInv'
<1>1. Typed' /\ IosDistinct'
  BY DEF IInv, Sound, Typed, IosDistinct, tables, inputs, Live
<1>2. Parts'
  BY DEF IInv, Parts, OwnersAgree, AllOwnedOrPending, PendingTaken, PendingApart,
         PanicsLate, WatchedOwned, OwnedWatched, Owns, tables, inputs, Live
<1> QED
  BY <1>1, <1>2 DEF IInv, Sound

\* A table of IOs that says the same as before
LEMMA SameTable ==
    ASSUME IInv, UNCHANGED << ios_released, owned, watched, inputs, scheduled, calls, pc >>,
           ios' \in RecyclerOf(Event), RecyclerOK(ios'),
           \A k : Valid(ios', k) <=> Valid(ios, k),
           \A k : Valid(ios, k) => At(ios', k) = At(ios, k)
    PROVE  IInv'
<1>1. Typed' /\ IosDistinct' /\ StackLives'
  BY DEF IInv, Sound, Typed, IosDistinct, StackLives, inputs, Live
<1>2. OwnersAgree' /\ AllOwnedOrPending' /\ PendingTaken'
  BY DEF IInv, Parts, OwnersAgree, AllOwnedOrPending, PendingTaken, inputs, Live
<1>3. PendingApart' /\ PanicsLate' /\ WatchedOwned' /\ OwnedWatched'
  BY DEF IInv, Parts, PendingApart, PanicsLate, WatchedOwned, OwnedWatched, Owns, inputs, Live
<1> QED
  BY <1>1, <1>2, <1>3 DEF IInv, Sound, Parts

LEMMA InvInsert == ASSUME IInv, Insert PROVE IInv'
<1>1. Typed /\ StackLives /\ IosDistinct /\ Parts
  BY DEF IInv, Sound
<1>2. /\ born \notin Live /\ Live' = Live \cup {born}
      /\ \A e \in Live : owned'[e] = owned[e]
      /\ DOMAIN owned'[born] = {}
  BY <1>1, NewEvent DEF Insert
<1>3. /\ calls' \in Seq(Event) /\ Len(calls') = Len(calls) + 1 /\ Len(calls) \in Nat
      /\ \A i \in 1 .. Len(calls) : calls'[i] = calls[i]
      /\ calls'[Len(calls) + 1] = born
  BY <1>1, Longer DEF Insert, Typed, Event
<1>4. Typed'
  <2>1. Live' \subseteq 0 .. born' - 1 /\ born' \in Nat
    BY <1>1, <1>2 DEF Insert, Typed
  <2> QED
    BY <1>1, <1>3, <2>1 DEF Insert, Typed
<1>5. StackLives'
  <2>1. \A i \in 1 .. Len(calls) : calls'[i] \in Live /\ calls'[i] # born
    BY <1>1, <1>2, <1>3 DEF StackLives
  <2>2. \A i \in 1 .. Len(calls') : i \in 1 .. Len(calls) \/ i = Len(calls) + 1
    BY <1>3
  <2> QED
    BY <1>1, <1>2, <1>3, <2>1, <2>2 DEF StackLives
<1>6. IosDistinct'
  BY <1>1, <1>2 DEF IosDistinct, Insert
<1>7. Parts'
  BY <1>1, <1>2 DEF Insert, Parts, OwnersAgree, AllOwnedOrPending, PendingTaken, PendingApart,
                    PanicsLate, WatchedOwned, OwnedWatched, Owns
<1> QED
  BY <1>4, <1>5, <1>6, <1>7 DEF IInv, Sound

LEMMA InvRegister == ASSUME IInv, IoRegister PROVE IInv'
<1> DEFINE idx == StoreIdx(ios)
           stored == Store(ios, Top)
<1>1. /\ Typed /\ StackLives /\ IosDistinct /\ Parts /\ Sound
      /\ ios \in RecyclerOf(Event) /\ RecyclerOK(ios)
  BY DEF IInv, Sound, Typed, Parts
<1>2. Top \in Live /\ Top \in Event
  BY <1>1, TopLives DEF IoRegister, InCallback
<1>3. /\ idx \in Nat /\ ~Valid(ios, idx)
      /\ stored \in RecyclerOf(Event) /\ RecyclerOK(stored)
      /\ \A k : Valid(stored, k) <=> Valid(ios, k) \/ k = idx
      /\ At(stored, idx) = Top
      /\ \A k : Valid(ios, k) => At(stored, k) = At(ios, k)
  BY <1>1, <1>2, StoreFacts
<1>4. ASSUME ios' = Release(stored, idx), UNCHANGED << watched, owned, made >>
      PROVE  IInv'
  <2>1. Valid(stored, idx)
    BY <1>3
  <2>2. /\ ios' \in RecyclerOf(Event) /\ RecyclerOK(ios')
        /\ \A k : Valid(ios', k) <=> Valid(stored, k) /\ k # idx
        /\ \A k : Valid(stored, k) /\ k # idx => At(ios', k) = At(stored, k)
    BY <1>3, <1>4, <2>1, ReleaseFacts
  <2>3. /\ \A k : Valid(ios', k) <=> Valid(ios, k)
        /\ \A k : Valid(ios, k) => At(ios', k) = At(ios, k)
    BY <1>3, <2>2
  <2> QED
    BY <1>4, <2>2, <2>3, SameTable DEF IoRegister, inputs
<1>5. ASSUME ios' = stored, made' = made + 1,
             watched' = (watched \ {w \in Watches(Top) : w.idx = idx})
                          \cup {[idx |-> idx, io |-> made]},
             owned' = [owned EXCEPT ![Top] = With(@, idx, made)]
      PROVE  IInv'
  <2>1. UNCHANGED << ios_released, born, removed, scheduled, calls, pc >> /\ pc = "user"
    BY DEF IoRegister, InCallback
  <2>2. /\ Live' = Live
        /\ \A e \in Live : e # Top => owned'[e] = owned[e]
        /\ DOMAIN owned'[Top] = DOMAIN owned[Top] \cup {idx}
        /\ owned'[Top][idx] = made
        /\ \A k \in DOMAIN owned[Top] : k # idx => owned'[Top][k] = owned[Top][k]
    BY <1>1, <1>5, NewIo DEF IoRegister, InCallback
  <2>3. made \in Nat
    BY <1>1 DEF Typed
  <2>4. Typed'
    <3>1. [idx |-> idx, io |-> made] \in Registration
      BY <1>3, <2>3 DEF Registration, Io
    <3>2. IsFiniteSet(watched \ {w \in Watches(Top) : w.idx = idx})
      BY <1>1, FS_Subset DEF Typed
    <3>3. IsFiniteSet(watched') /\ watched' \subseteq Registration
      BY <1>1, <1>5, <3>1, <3>2, FS_AddElement DEF Typed
    <3> QED
      BY <1>1, <1>3, <1>5, <2>1, <2>2, <2>3, <3>3 DEF Typed
  <2>5. StackLives'
    BY <1>1, <2>1, <2>2 DEF StackLives
  <2>6. IosDistinct'
    <3>1. \A e \in Live : \A k \in DOMAIN owned'[e] :
            \/ e = Top /\ k = idx
            \/ k \in DOMAIN owned[e] /\ owned'[e][k] = owned[e][k] /\ ~(e = Top /\ k = idx)
      BY <2>2
    <3>2. \A e \in Live : \A k \in DOMAIN owned[e] :
            k \in Nat /\ owned[e][k] \in 0 .. made - 1 /\ owned[e][k] # made
      BY <1>1, <2>3 DEF IosDistinct
    <3>3. \A e \in Live : \A k \in DOMAIN owned'[e] : k \in Nat /\ owned'[e][k] \in 0 .. made' - 1
      BY <1>3, <1>5, <2>2, <2>3, <3>1, <3>2
    <3>4. \A e, f \in Live : \A k \in DOMAIN owned'[e], l \in DOMAIN owned'[f] :
            owned'[e][k] = owned'[f][l] => e = f /\ k = l
      BY <1>1, <2>2, <3>1, <3>2 DEF IosDistinct
    <3> QED
      BY <2>2, <3>3, <3>4 DEF IosDistinct
  <2>7. OwnersAgree' /\ AllOwnedOrPending' /\ PendingTaken'
    BY <1>1, <1>2, <1>3, <1>5, <2>1, <2>2
       DEF Parts, OwnersAgree, AllOwnedOrPending, PendingTaken
  <2>8. PendingApart'
    <3>1. idx \in ios_released => idx \in removed
      BY <1>1, <1>3 DEF Parts, PendingTaken
    <3> QED
      BY <1>1, <2>1, <2>2, <3>1 DEF Parts, PendingApart
  <2>9. WatchedOwned'
    <3> SUFFICES ASSUME NEW w \in watched' PROVE \E e \in Live : Owns(w, e)'
      BY <2>2 DEF WatchedOwned
    <3>1. CASE w = [idx |-> idx, io |-> made]
      BY <1>2, <2>2, <3>1 DEF Owns
    <3>2. CASE w \in watched /\ ~(w \in Watches(Top) /\ w.idx = idx)
      <4>1. PICK e \in Live : Owns(w, e)
        BY <1>1, <2>1, <3>2 DEF Parts, WatchedOwned
      <4>2. w \in Registration
        BY <1>1, <3>2 DEF Typed
      <4>3. w \in Watches(e)
        BY <4>1, <4>2 DEF Watches, Owns, Registration
      <4>4. e # Top \/ w.idx # idx
        BY <3>2, <4>3
      <4>5. Owns(w, e)'
        BY <2>2, <4>1, <4>4 DEF Owns
      <4> QED
        BY <4>5
    <3> QED
      BY <1>5, <3>1, <3>2
  <2>10. OwnedWatched'
    <3> SUFFICES ASSUME NEW e \in Live, NEW k \in DOMAIN owned'[e]
                 PROVE  [idx |-> k, io |-> owned'[e][k]] \in watched'
      BY <2>2 DEF OwnedWatched
    <3>1. CASE e = Top /\ k = idx
      BY <1>5, <2>2, <3>1
    <3>2. CASE ~(e = Top /\ k = idx)
      <4>1. k \in DOMAIN owned[e] /\ owned'[e][k] = owned[e][k]
        BY <2>2, <3>2
      <4> DEFINE r == [idx |-> k, io |-> owned[e][k]]
      <4>2. r \in watched
        BY <1>1, <2>1, <4>1 DEF Parts, OwnedWatched
      <4>3. ~(r \in Watches(Top) /\ r.idx = idx)
        <5> SUFFICES ASSUME r \in Watches(Top), r.idx = idx PROVE FALSE
          OBVIOUS
        <5>1. k = idx
          OBVIOUS
        <5>2. idx \in DOMAIN owned[Top] /\ owned[Top][idx] = owned[e][k]
          BY <5>1 DEF Watches
        <5> QED
          BY <1>1, <1>2, <3>2, <4>1, <5>1, <5>2 DEF IosDistinct
      <4> QED
        BY <1>5, <4>1, <4>2, <4>3
    <3> QED
      BY <3>1, <3>2
  <2> QED
    BY <1>3, <1>5, <2>1, <2>4, <2>5, <2>6, <2>7, <2>8, <2>9, <2>10
       DEF IInv, Sound, Parts, PanicsLate
<1> QED
  BY <1>4, <1>5 DEF IoRegister

LEMMA InvRemove == ASSUME IInv, NEW idx, IoRemove(idx) PROVE IInv'
<1>1. /\ Typed /\ StackLives /\ IosDistinct /\ Parts /\ Sound
      /\ ios \in RecyclerOf(Event) /\ RecyclerOK(ios)
  BY DEF IInv, Sound, Typed, Parts
<1>2. Top \in Live /\ Top \in Event
  BY <1>1, TopLives DEF IoRemove, InCallback
<1>3. /\ UNCHANGED << born, made, scheduled, calls >> /\ pc = "user"
      /\ removed' = removed \cup {idx} /\ idx \in DOMAIN owned[Top]
  BY DEF IoRemove, InCallback
<1>4. /\ Live' = Live
      /\ \A e \in Live : e # Top => owned'[e] = owned[e]
      /\ DOMAIN owned'[Top] = DOMAIN owned[Top] \ {idx}
      /\ \A k \in DOMAIN owned[Top] \ {idx} : owned'[Top][k] = owned[Top][k]
  BY <1>1, LessIo DEF IoRemove, InCallback
<1>5. \A e \in Live : \A k \in DOMAIN owned'[e] :
        k \in DOMAIN owned[e] /\ owned'[e][k] = owned[e][k] /\ ~(e = Top /\ k = idx)
  BY <1>4
<1>6. \A e \in Live : \A k \in DOMAIN owned[e] : k # idx => k \in DOMAIN owned'[e]
  BY <1>4
<1>7. StackLives' /\ IosDistinct'
  BY <1>1, <1>3, <1>4, <1>5 DEF StackLives, IosDistinct
<1>8. PanicsLate'
  BY <1>3 DEF PanicsLate
<1>9. CASE ~Valid(ios, idx)
  <2>1. UNCHANGED << ios, ios_released, watched >> /\ pc' = "panic"
    BY <1>9 DEF IoRemove
  <2>2. Typed'
    BY <1>1, <1>3, <1>4, <2>1 DEF Typed
  <2>3. OwnersAgree' /\ AllOwnedOrPending' /\ PendingTaken' /\ PendingApart'
    BY <1>1, <1>3, <1>4, <1>5, <1>6, <2>1
       DEF Parts, OwnersAgree, AllOwnedOrPending, PendingTaken, PendingApart
  <2>4. WatchedOwned' /\ OwnedWatched'
    BY <2>1 DEF WatchedOwned, OwnedWatched
  <2> QED
    BY <1>1, <1>7, <1>8, <2>1, <2>2, <2>3, <2>4 DEF IInv, Sound, Parts
<1>10. CASE Valid(ios, idx)
  <2>1. /\ ios' = Release(ios, idx)
        /\ ios_released' = ios_released \cup {idx}
        /\ watched' = watched \ {[idx |-> idx, io |-> owned[Top][idx]]}
        /\ pc' = pc
    BY <1>10 DEF IoRemove
  <2>2. /\ ios' \in RecyclerOf(Event) /\ RecyclerOK(ios') /\ idx \in Nat
        /\ \A k : Valid(ios', k) <=> Valid(ios, k) /\ k # idx
        /\ \A k : Valid(ios, k) /\ k # idx => At(ios', k) = At(ios, k)
    BY <1>1, <1>10, <2>1, ReleaseFacts, AtType
  <2>3. Typed'
    <3>1. IsFiniteSet(watched')
      BY <1>1, <2>1, FS_Subset DEF Typed
    <3> QED
      BY <1>1, <1>3, <1>4, <2>1, <2>2, <3>1 DEF Typed
  <2>4. OwnersAgree' /\ AllOwnedOrPending' /\ PendingTaken' /\ PendingApart'
    BY <1>1, <1>3, <1>4, <1>5, <1>6, <2>1, <2>2
       DEF Parts, OwnersAgree, AllOwnedOrPending, PendingTaken, PendingApart
  <2>5. WatchedOwned'
    <3> SUFFICES ASSUME NEW w \in watched' PROVE \E e \in Live : Owns(w, e)'
      BY <1>4 DEF WatchedOwned
    <3>1. PICK e \in Live : Owns(w, e)
      BY <1>1, <1>3, <2>1 DEF Parts, WatchedOwned
    <3>2. w \in Registration
      BY <1>1, <2>1 DEF Typed
    <3>3. e # Top \/ w.idx # idx
      BY <2>1, <3>1, <3>2 DEF Owns, Registration
    <3>4. Owns(w, e)'
      BY <1>4, <3>1, <3>3 DEF Owns
    <3> QED
      BY <3>4
  <2>6. OwnedWatched'
    <3> SUFFICES ASSUME NEW e \in Live, NEW k \in DOMAIN owned'[e]
                 PROVE  [idx |-> k, io |-> owned'[e][k]] \in watched'
      BY <1>4 DEF OwnedWatched
    <3>1. k \in DOMAIN owned[e] /\ owned'[e][k] = owned[e][k] /\ ~(e = Top /\ k = idx)
      BY <1>5
    <3>2. [idx |-> k, io |-> owned[e][k]] \in watched
      BY <1>1, <1>3, <3>1 DEF Parts, OwnedWatched
    <3>3. owned[e][k] # owned[Top][idx]
      BY <1>1, <1>2, <1>3, <3>1 DEF IosDistinct
    <3> QED
      BY <2>1, <3>1, <3>2, <3>3
  <2> QED
    BY <1>7, <1>8, <2>2, <2>3, <2>4, <2>5, <2>6 DEF IInv, Sound, Parts
<1> QED
  BY <1>9, <1>10

\* The callback's return, after which the event lives on or dies
LEMMA InvReturn == ASSUME IInv, NEW keep \in BOOLEAN, Return(keep) PROVE IInv'
<1>1. /\ Typed /\ StackLives /\ IosDistinct /\ Parts /\ Sound
      /\ calls \in Seq(Event) /\ calls # << >>
  BY DEF IInv, Sound, Typed, Return, InCallback
<1>2. Top \in Live /\ Top = calls[Len(calls)] /\ Len(calls) \in Nat \ {0}
  BY <1>1, TopLives
<1>3. /\ calls' \in Seq(Event) /\ Len(calls') = Len(calls) - 1
      /\ \A i \in 1 .. Len(calls) - 1 : calls'[i] = calls[i]
  BY <1>1, <1>2, PopFacts DEF Return
<1>4. UNCHANGED << inputs, scheduled, pc >> /\ pc = "user"
  BY DEF Return, InCallback
<1>5. \A i \in 1 .. Len(calls') : i \in 1 .. Len(calls) /\ calls'[i] = calls[i] /\ i # Len(calls)
  BY <1>2, <1>3
<1>6. \A i \in 1 .. Len(calls') : calls'[i] \in Live \ {Top}
  BY <1>1, <1>2, <1>5 DEF StackLives
<1>7. CASE UNCHANGED tables
  <2>1. StackLives'
    BY <1>1, <1>5, <1>6, <1>7 DEF StackLives, tables, Live
  <2>2. scheduled' \in Seq(Task)
    BY <1>1, <1>4 DEF Typed
  <2> QED
    BY <1>3, <1>4, <1>7, <2>1, <2>2, Untouched
<1>8. CASE Kill
  <2>1. /\ ios_released' = ios_released \cup DOMAIN owned[Top]
        /\ watched' = watched \ Watches(Top)
        /\ ios' = ios
    BY <1>8 DEF Kill
  <2>2. Live' = Live \ {Top} /\ \A e \in Live \ {Top} : owned'[e] = owned[e]
    BY <1>8, LessEvent DEF Kill
  <2>3. UNCHANGED << born, made, removed >>
    BY <1>4 DEF inputs
  <2>4. \A k \in DOMAIN owned[Top] : k \in Nat
    BY <1>1, <1>2 DEF IosDistinct
  <2>5. Typed'
    <3>1. IsFiniteSet(watched')
      BY <1>1, <2>1, FS_Subset DEF Typed
    <3> QED
      BY <1>1, <1>3, <1>4, <2>1, <2>2, <2>3, <2>4, <3>1 DEF Typed
  <2>6. StackLives'
    BY <1>1, <1>5, <1>6, <2>2 DEF StackLives
  <2>7. IosDistinct'
    BY <1>1, <2>2, <2>3 DEF IosDistinct
  <2>8. OwnersAgree' /\ AllOwnedOrPending' /\ PendingTaken'
    BY <1>1, <1>2, <2>1, <2>2, <2>3
       DEF Parts, OwnersAgree, AllOwnedOrPending, PendingTaken
  <2>9. PendingApart'
    <3> SUFFICES ASSUME NEW e \in Live \ {Top}, NEW k \in DOMAIN owned[e],
                        k \in ios_released \/ k \in DOMAIN owned[Top], k \notin removed
                 PROVE  FALSE
      BY <2>1, <2>2, <2>3 DEF PendingApart
    <3>1. k \notin ios_released /\ At(ios, k) = e
      BY <1>1 DEF Parts, PendingApart, OwnersAgree
    <3>2. At(ios, k) = Top
      BY <1>1, <1>2, <3>1 DEF Parts, OwnersAgree
    <3> QED
      BY <3>1, <3>2
  <2>10. WatchedOwned'
    <3> SUFFICES ASSUME NEW w \in watched' PROVE \E e \in Live \ {Top} : Owns(w, e)'
      BY <2>2 DEF WatchedOwned
    <3>1. PICK e \in Live : Owns(w, e)
      BY <1>1, <1>4, <2>1 DEF Parts, WatchedOwned
    <3>2. w \in Registration
      BY <1>1, <2>1 DEF Typed
    <3>3. e # Top
      BY <2>1, <3>1, <3>2 DEF Watches, Owns, Registration
    <3>4. Owns(w, e)'
      BY <2>2, <3>1, <3>3 DEF Owns
    <3> QED
      BY <3>3, <3>4
  <2>11. OwnedWatched'
    <3> SUFFICES ASSUME NEW e \in Live \ {Top}, NEW k \in DOMAIN owned[e]
                 PROVE  [idx |-> k, io |-> owned[e][k]] \in watched'
      BY <2>2 DEF OwnedWatched
    <3>1. [idx |-> k, io |-> owned[e][k]] \in watched
      BY <1>1, <1>4 DEF Parts, OwnedWatched
    <3>2. \A l \in DOMAIN owned[Top] : owned[e][k] # owned[Top][l]
      BY <1>1, <1>2 DEF IosDistinct
    <3>3. [idx |-> k, io |-> owned[e][k]] \notin Watches(Top)
      BY <3>2 DEF Watches
    <3> QED
      BY <2>1, <3>1, <3>3
  <2>12. RecyclerOK(ios') /\ PanicsLate'
    BY <1>1, <1>4, <2>1 DEF Parts, PanicsLate
  <2> QED
    BY <2>5, <2>6, <2>7, <2>8, <2>9, <2>10, <2>11, <2>12 DEF IInv, Sound, Parts
<1> QED
  BY <1>7, <1>8 DEF Return

LEMMA InvRunOne == ASSUME IInv, RunOne PROVE IInv'
<1>1. /\ scheduled' \in Seq(Task) /\ calls' \in Seq(Event)
      /\ pc # "panic" /\ pc' # "panic"
  BY DEF IInv, Sound, Typed, RunOne
<1>2. StackLives'
  BY DEF IInv, Sound, StackLives, RunOne, tables, Live
<1> QED
  BY <1>1, <1>2, Untouched DEF RunOne

LEMMA InvSkip == ASSUME IInv, Skip PROVE IInv'
<1>1. /\ scheduled' \in Seq(Task) /\ calls' \in Seq(Event)
      /\ pc # "panic" /\ pc' # "panic"
  BY Rest DEF IInv, Sound, Typed, Skip
<1>2. StackLives'
  BY DEF IInv, Sound, StackLives, Skip, tables, Live
<1> QED
  BY <1>1, <1>2, Untouched DEF Skip

LEMMA InvDispatch == ASSUME IInv, Dispatch PROVE IInv'
<1> DEFINE e == Head(scheduled).to
<1>1. /\ calls \in Seq(Event) /\ StackLives /\ scheduled \in Seq(Task) /\ scheduled # << >>
      /\ UNCHANGED << tables, inputs >> /\ pc = "run_one" /\ pc' = "user" /\ e \in Live
  BY DEF IInv, Sound, Typed, Dispatch
<1>2. scheduled' \in Seq(Task) /\ e \in Event
  <2>1. scheduled' = Tail(scheduled)
    BY DEF Dispatch
  <2>2. scheduled' \in Seq(Task) /\ Head(scheduled) \in Task
    BY <1>1, <2>1, Rest
  <2> QED
    BY <2>2 DEF Task
<1>3. CASE calls' = calls
  BY <1>1, <1>2, <1>3, Untouched DEF StackLives, tables, Live
<1>4. CASE calls' = Append(calls, e) /\ e \notin Called
  <2>1. /\ calls' \in Seq(Event) /\ Len(calls') = Len(calls) + 1 /\ Len(calls) \in Nat
        /\ \A i \in 1 .. Len(calls) : calls'[i] = calls[i]
        /\ calls'[Len(calls) + 1] = e
    BY <1>1, <1>2, <1>4, Longer
  <2>2. \A i \in 1 .. Len(calls) : calls'[i] # e /\ calls'[i] \in Live
    BY <1>1, <1>4, <2>1 DEF Called, StackLives
  <2>3. \A i \in 1 .. Len(calls') : i \in 1 .. Len(calls) \/ i = Len(calls) + 1
    BY <2>1
  <2>4. StackLives'
    BY <1>1, <2>1, <2>2, <2>3 DEF StackLives, tables, Live
  <2> QED
    BY <1>1, <1>2, <2>1, <2>4, Untouched
<1> QED
  BY <1>3, <1>4 DEF Dispatch

LEMMA InvGatherEmpty == ASSUME IInv, GatherEmpty PROVE IInv'
<1>1. /\ scheduled' \in Seq(Task) /\ calls' \in Seq(Event)
      /\ pc # "panic" /\ pc' # "panic"
  BY DEF IInv, Sound, Typed, GatherEmpty
<1>2. StackLives'
  BY DEF IInv, Sound, StackLives, GatherEmpty, tables, Live
<1> QED
  BY <1>1, <1>2, Untouched DEF GatherEmpty

LEMMA InvDrain == ASSUME IInv, Drain PROVE IInv'
<1>1. /\ Typed /\ StackLives /\ IosDistinct /\ Parts
      /\ ios \in RecyclerOf(Event) /\ RecyclerOK(ios)
  BY DEF IInv, Sound, Typed, Parts
<1>2. /\ UNCHANGED << owned, watched, inputs, scheduled, calls >>
      /\ UNCHANGED << born, made, removed >> /\ Live' = Live /\ pc = "run_one"
  BY DEF Drain, inputs, Live
<1>3. PICK idx \in ios_released :
        /\ ios_released' = ios_released \ {idx}
        /\ IF Valid(ios, idx) THEN ios' = Release(ios, idx) /\ UNCHANGED pc
                              ELSE pc' = "panic" /\ UNCHANGED ios
  BY DEF Drain
<1>4. StackLives' /\ IosDistinct'
  BY <1>1, <1>2 DEF StackLives, IosDistinct
<1>5. WatchedOwned' /\ OwnedWatched'
  BY <1>1, <1>2 DEF Parts, WatchedOwned, OwnedWatched, Owns
<1>6. CASE Valid(ios, idx)
  <2>1. /\ ios' \in RecyclerOf(Event) /\ RecyclerOK(ios')
        /\ \A k : Valid(ios', k) <=> Valid(ios, k) /\ k # idx
        /\ \A k : Valid(ios, k) /\ k # idx => At(ios', k) = At(ios, k)
    BY <1>1, <1>3, <1>6, ReleaseFacts
  <2>2. Typed'
    BY <1>1, <1>2, <1>3, <2>1 DEF Typed
  <2>3. OwnersAgree' /\ AllOwnedOrPending' /\ PendingTaken' /\ PendingApart'
    BY <1>1, <1>2, <1>3, <2>1
       DEF Parts, OwnersAgree, AllOwnedOrPending, PendingTaken, PendingApart
  <2>4. PanicsLate'
    BY <1>2, <1>3, <1>6 DEF PanicsLate
  <2> QED
    BY <1>4, <1>5, <2>1, <2>2, <2>3, <2>4 DEF IInv, Sound, Parts
<1>7. CASE ~Valid(ios, idx)
  <2>1. ios' = ios /\ idx \in removed
    BY <1>1, <1>3, <1>7 DEF Parts, PendingTaken
  <2>2. Typed'
    BY <1>1, <1>2, <1>3, <2>1 DEF Typed
  <2>3. OwnersAgree' /\ AllOwnedOrPending' /\ PendingTaken' /\ PendingApart'
    BY <1>1, <1>2, <1>3, <2>1
       DEF Parts, OwnersAgree, AllOwnedOrPending, PendingTaken, PendingApart
  <2>4. PanicsLate'
    BY <1>2, <2>1 DEF PanicsLate
  <2> QED
    BY <1>1, <1>4, <1>5, <2>1, <2>2, <2>3, <2>4 DEF IInv, Sound, Parts
<1> QED
  BY <1>6, <1>7

\* What the poll reports are tasks for the owners of the IOs.
LEMMA Polled ==
    ASSUME IInv, NEW ready \in SUBSET watched, \A w \in ready : Valid(ios, w.idx),
           NEW order \in Orders(ready),
           scheduled' = [k \in DOMAIN order |->
                           [to |-> At(ios, order[k].idx), idx |-> order[k].idx,
                            about |-> order[k].io]]
    PROVE  /\ scheduled' \in Seq(Task)
           /\ \A k \in 1 .. Len(scheduled') : \E w \in ready :
                scheduled'[k].to = At(ios, w.idx) /\ scheduled'[k].idx = w.idx
                  /\ scheduled'[k].about = w.io
<1>1. IsFiniteSet(watched) /\ watched \subseteq Registration /\ ios \in RecyclerOf(Event)
  BY DEF IInv, Sound, Typed
<1>2. Cardinality(ready) \in Nat
  BY <1>1, FS_Subset, FS_CardinalityType
<1>3. DOMAIN order = 1 .. Cardinality(ready) /\ \A k \in DOMAIN order : order[k] \in ready
  BY DEF Orders
<1>4. \A w \in ready : At(ios, w.idx) \in Event /\ w.idx \in Nat /\ w.io \in Io
  BY <1>1, AtType DEF Registration
<1>5. \A k \in DOMAIN order :
        [to |-> At(ios, order[k].idx), idx |-> order[k].idx, about |-> order[k].io] \in Task
  BY <1>3, <1>4 DEF Task
<1>6. scheduled' \in [1 .. Cardinality(ready) -> Task]
  BY <1>3, <1>5
<1>7. scheduled' \in Seq(Task) /\ Len(scheduled') = Cardinality(ready)
  BY <1>2, <1>6
<1> QED
  BY <1>3, <1>7

LEMMA InvPoll == ASSUME IInv, Poll PROVE IInv'
<1>1. UNCHANGED << tables, inputs, calls >> /\ pc = "run_one"
  BY DEF Poll
<1>2. PICK ready \in SUBSET watched :
        \/ /\ \A w \in ready : Valid(ios, w.idx)
           /\ \E order \in Orders(ready) :
                scheduled' = [k \in DOMAIN order |->
                                [to |-> At(ios, order[k].idx), idx |-> order[k].idx,
                                 about |-> order[k].io]]
           /\ UNCHANGED pc
        \/ /\ \E w \in ready : ~Valid(ios, w.idx)
           /\ pc' = "panic" /\ UNCHANGED scheduled
  BY DEF Poll
<1>3. calls' \in Seq(Event) /\ StackLives'
  BY <1>1 DEF IInv, Sound, Typed, StackLives, tables, Live
<1>4. scheduled' \in Seq(Task)
  BY <1>2, Polled DEF IInv, Sound, Typed
<1>5. ASSUME NEW w \in ready, ~Valid(ios, w.idx) PROVE removed # {}
  <2>1. WatchedOwned /\ OwnersAgree
    BY DEF IInv, Parts
  <2>2. PICK e \in Live : Owns(w, e)
    BY <1>1, <2>1 DEF WatchedOwned
  <2> QED
    BY <1>5, <2>1, <2>2 DEF OwnersAgree, Owns
<1>6. pc' = "panic" => removed # {}
  BY <1>1, <1>2, <1>5
<1> QED
  BY <1>1, <1>3, <1>4, <1>6, Untouched

LEMMA InvPollFailed == ASSUME IInv, PollFailed PROVE IInv'
<1>1. UNCHANGED << tables, inputs, scheduled, calls >> /\ pc = "run_one" /\ pc' = "user"
  BY DEF PollFailed
<1>2. scheduled' \in Seq(Task) /\ calls' \in Seq(Event) /\ StackLives'
  BY <1>1 DEF IInv, Sound, Typed, StackLives, tables, Live
<1> QED
  BY <1>1, <1>2, Untouched

LEMMA InvNext == ASSUME IInv, [Next]_vars PROVE IInv'
<1>1. CASE UserCode
  BY <1>1, InvInsert, InvRegister, InvRunOne, InvRemove, InvReturn DEF UserCode
<1>2. CASE LoopCode
  BY <1>2, InvSkip, InvDispatch, InvDrain, InvGatherEmpty, InvPoll, InvPollFailed DEF LoopCode
<1>3. CASE UNCHANGED vars
  <2>1. UNCHANGED << ios_released, owned, watched, inputs, scheduled, calls, pc, ios >>
    BY <1>3 DEF vars, inputs
  <2>2. ios \in RecyclerOf(Event) /\ RecyclerOK(ios)
    BY DEF IInv, Sound, Typed, Parts
  <2> QED
    BY <2>1, <2>2, SameTable
<1> QED
  BY <1>1, <1>2, <1>3 DEF Next

\* The table of IOs, the events and the pending releases agree about each index that
\* io_remove was not used on, however many events die in whatever nesting; no assertion
\* of the Recycler or of the poll fails before the first io_remove.
THEOREM IoTablesAgree == Spec => []TablesAgree
<1>1. IInv => TablesAgree
  BY PartsOfTables DEF IInv, Sound
<1> QED
  BY <1>1, InvInit, InvNext, PTL DEF Spec

-----------------------------------------------------------------------------
(* The size of the table                                                   *)

\* The table never grows beyond the IOs ever registered: there is a free slot for each
\* index that went back, also for that of an IO the poll refused.
Sizes ==
    /\ RecyclerLen(ios) <= made /\ made <= MaxIos
    /\ Len(ios.data) <= MaxIos
    /\ removed \subseteq Nat
    /\ pc \in {"user", "run_one", "panic"}

LEMMA StoreSize ==
    ASSUME NEW r \in RecyclerOf(Event), RecyclerOK(r), NEW e \in Event
    PROVE  /\ Len(r.data) \in Nat /\ Len(r.free) \in Nat /\ RecyclerLen(r) \in Nat
           /\ RecyclerLen(Store(r, e)) = RecyclerLen(r) + 1
           /\ Len(Store(r, e).data) = Len(r.data) \/ Len(Store(r, e).data) = RecyclerLen(r) + 1
           /\ Len(Store(r, e).data) \in Nat /\ Len(Store(r, e).free) \in Nat
<1>0. RecyclerLen(r) \in Nat
  BY LenIsCount
<1>1. PICK d \in Seq(Option(Event)), f \in Seq(Nat) : r.data = d /\ r.free = f
  BY DEF RecyclerOf
<1>2. Len(d) \in Nat /\ Len(f) \in Nat /\ RecyclerLen(r) = Len(d) - Len(f)
  BY <1>1 DEF RecyclerLen
<1>3. CASE f # << >>
  <2>1. Len(f) > 0
    BY <1>2, <1>3
  <2>2. Len(SubSeq(f, 1, Len(f) - 1)) = Len(f) - 1
    BY <2>1, PopFacts
  <2>3. Len([d EXCEPT ![StoreIdx(r) + 1] = Some(e)]) = Len(d)
    BY <1>1
  <2>4. Len(Store(r, e).data) = Len(d) /\ Len(Store(r, e).free) = Len(f) - 1
    BY <1>1, <1>3, <2>2, <2>3 DEF Store
  <2>5. RecyclerLen(Store(r, e)) = Len(d) - (Len(f) - 1)
    BY <2>4 DEF RecyclerLen
  <2> QED BY <1>0, <1>1, <1>2, <2>1, <2>4, <2>5
<1>4. CASE f = << >>
  <2>1. Len(f) = 0
    BY <1>4
  <2>2. Len(Append(d, Some(e))) = Len(d) + 1
    OBVIOUS
  <2>3. Len(Store(r, e).data) = Len(d) + 1 /\ Len(Store(r, e).free) = 0
    BY <1>1, <1>4, <2>1, <2>2 DEF Store
  <2>4. RecyclerLen(Store(r, e)) = Len(d) + 1 - 0
    BY <2>3 DEF RecyclerLen
  <2> QED BY <1>0, <1>1, <1>2, <2>1, <2>3, <2>4
<1> QED BY <1>3, <1>4

LEMMA ReleaseSize ==
    ASSUME NEW r \in RecyclerOf(Event), RecyclerOK(r), NEW idx, Valid(r, idx)
    PROVE  /\ RecyclerLen(Release(r, idx)) = RecyclerLen(r) - 1
           /\ Len(Release(r, idx).data) = Len(r.data)
<1>1. PICK d \in Seq(Option(Event)), f \in Seq(Nat) : r.data = d /\ r.free = f
  BY DEF RecyclerOf
<1>2. idx \in Nat
  BY DEF Valid
<1>3. Len(d) \in Nat /\ Len(f) \in Nat /\ Len(Append(f, idx)) = Len(f) + 1
  BY <1>1, <1>2
<1>4. Len([d EXCEPT ![idx + 1] = None]) = Len(d)
  BY <1>1
<1>5. Len(Release(r, idx).data) = Len(d) /\ Len(Release(r, idx).free) = Len(f) + 1
  BY <1>1, <1>3, <1>4 DEF Release
<1> QED BY <1>1, <1>3, <1>5 DEF RecyclerLen

LEMMA SizesInit == Init => Sizes
<1>1. RecyclerLen(EmptyRecycler) = 0 /\ Len(EmptyRecycler.data) = 0
  BY DEF RecyclerLen, EmptyRecycler
<1> QED BY <1>1, IoConstants DEF Init, Sizes

\* A step that touches neither the table nor the numbers
LEMMA SizesKept ==
    ASSUME Sizes, UNCHANGED << ios, made, removed >>, pc' \in {"user", "run_one", "panic"}
    PROVE  Sizes'
BY DEF Sizes

LEMMA SizesRegister ==
    ASSUME IInv, Sizes, IoRegister
    PROVE  Sizes'
<1> DEFINE idx == StoreIdx(ios)
           stored == Store(ios, Top)
<1>1. ios \in RecyclerOf(Event) /\ RecyclerOK(ios) /\ Top \in Event /\ made \in Nat
  BY TopLives DEF IInv, Sound, Typed, Parts, IoRegister, InCallback
<1>2. stored \in RecyclerOf(Event) /\ RecyclerOK(stored) /\ Valid(stored, idx)
  BY <1>1, StoreFacts
<1>3. /\ RecyclerLen(ios) \in Nat
      /\ RecyclerLen(stored) = RecyclerLen(ios) + 1
      /\ Len(stored.data) = Len(ios.data) \/ Len(stored.data) = RecyclerLen(ios) + 1
  BY <1>1, StoreSize
<1>4. /\ RecyclerLen(Release(stored, idx)) = RecyclerLen(stored) - 1
      /\ Len(Release(stored, idx).data) = Len(stored.data)
  BY <1>2, ReleaseSize
<1>5. made < MaxIos /\ UNCHANGED << removed, pc >>
  BY DEF IoRegister
<1>6. \/ ios' = stored /\ made' = made + 1
      \/ ios' = Release(stored, idx) /\ made' = made
  BY DEF IoRegister
<1>7. Len(stored.data) <= MaxIos
  BY <1>1, <1>3, <1>5, IoConstants DEF Sizes
<1> HIDE DEF stored, idx
<1> QED BY <1>1, <1>3, <1>4, <1>5, <1>6, <1>7, IoConstants DEF Sizes

\* An index goes back.
LEMMA SizesRelease ==
    ASSUME IInv, Sizes, NEW idx, Valid(ios, idx), ios' = Release(ios, idx),
           UNCHANGED made, removed' \subseteq Nat, pc' \in {"user", "run_one", "panic"}
    PROVE  Sizes'
<1>1. ios \in RecyclerOf(Event) /\ RecyclerOK(ios) /\ made \in Nat
  BY DEF IInv, Sound, Typed, Parts
<1>2. RecyclerLen(ios) \in Nat
  BY <1>1, LenIsCount
<1>3. RecyclerLen(ios') = RecyclerLen(ios) - 1 /\ Len(ios'.data) = Len(ios.data)
  BY <1>1, ReleaseSize
<1> QED BY <1>1, <1>2, <1>3, IoConstants DEF Sizes

LEMMA SizesNext == ASSUME IInv, Sizes, [Next]_vars PROVE Sizes'
<1>1. ASSUME NEW idx \in 0 .. MaxIos, IoRemove(idx) PROVE Sizes'
  <2>0. idx \in Nat /\ removed' = removed \cup {idx} /\ UNCHANGED made
    BY <1>1 DEF IoRemove
  <2>1. removed' \subseteq Nat /\ UNCHANGED made
    BY <2>0 DEF Sizes
  <2>2. CASE Valid(ios, idx) /\ ios' = Release(ios, idx) /\ UNCHANGED pc
    BY <2>1, <2>2, SizesRelease DEF Sizes
  <2>3. CASE pc' = "panic" /\ UNCHANGED ios
    BY <2>1, <2>3 DEF Sizes
  <2> QED BY <1>1, <2>2, <2>3 DEF IoRemove
<1>2. ASSUME Drain PROVE Sizes'
  <2>1. UNCHANGED << made, removed >> /\ pc = "run_one"
    BY <1>2 DEF Drain, inputs
  <2>2. PICK idx \in ios_released :
          IF Valid(ios, idx) THEN ios' = Release(ios, idx) /\ UNCHANGED pc
                             ELSE pc' = "panic" /\ UNCHANGED ios
    BY <1>2 DEF Drain
  <2>3. CASE Valid(ios, idx)
    BY <2>1, <2>2, <2>3, SizesRelease DEF Sizes
  <2>4. CASE ~Valid(ios, idx)
    BY <2>1, <2>2, <2>4, SizesKept
  <2> QED BY <2>3, <2>4
<1>3. ASSUME NEW keep \in BOOLEAN, Return(keep) PROVE Sizes'
  BY <1>3, SizesKept DEF Return, InCallback, tables, inputs, Kill
<1>4. ASSUME Insert \/ RunOne \/ Skip \/ Dispatch \/ GatherEmpty \/ Poll \/ PollFailed \/ UNCHANGED vars
      PROVE  Sizes'
  <2>1. UNCHANGED << ios, made, removed >>
    BY <1>4 DEF Insert, RunOne, Skip, Dispatch, GatherEmpty, Poll, PollFailed, tables, inputs, vars
  <2>2. pc' \in {"user", "run_one", "panic"}
    BY <1>4 DEF Sizes, Insert, RunOne, Skip, Dispatch, GatherEmpty, Poll, PollFailed, vars
  <2> QED BY <2>1, <2>2, SizesKept
<1> QED BY <1>1, <1>2, <1>3, <1>4, SizesRegister DEF Next, UserCode, LoopCode

\* The state of a loop with IOs is well formed, and its table has no more slots than
\* IOs were registered.
THEOREM IoTypeCorrect == Spec => []TypeOK
<1>1. IInv /\ Sizes => TypeOK
  <2> SUFFICES ASSUME IInv, Sizes PROVE TypeOK
    OBVIOUS
  <2>1. Typed /\ IosDistinct
    BY DEF IInv, Sound
  <2>2. Live \subseteq Event
    BY <2>1 DEF Typed, Event
  <2>3. \A e \in Live : \A k \in DOMAIN owned[e] : k \in Nat /\ owned[e][k] \in Io
    BY <2>1 DEF Typed, IosDistinct, Io
  <2>4. \A e \in Live : DOMAIN owned[e] \subseteq Nat
    BY <2>3
  <2> QED BY <2>1, <2>2, <2>3, <2>4 DEF Typed, Sizes, TypeOK
<1> QED BY <1>1, InvInit, InvNext, SizesInit, SizesNext, PTL DEF Spec

-----------------------------------------------------------------------------
(* Readiness that waits in the queue                                       *)

Right == TasksPast /\ StaleOnlyIfRemoved

LEMMA RightInit == Init => Right
BY DEF Init, Right, TasksPast, StaleOnlyIfRemoved

\* A step that adds no task keeps them right, if each event that lives before and after
\* keeps the IOs it has under indexes io_remove is not used on.
LEMMA RightKept ==
    ASSUME IInv, Right, scheduled' = scheduled \/ (scheduled # << >> /\ scheduled' = Tail(scheduled)),
           born' \in Nat, born <= born', removed \subseteq removed',
           \A e \in Live' : e < born => e \in Live,
           \A e \in Live \cap Live' : \A k \in DOMAIN owned[e] :
               k \notin removed' => k \in DOMAIN owned'[e] /\ owned'[e][k] = owned[e][k]
    PROVE  Right'
<1>1. scheduled \in Seq(Task) /\ born \in Nat
  BY DEF IInv, Sound, Typed
<1>2. /\ Len(scheduled') \in Nat /\ DOMAIN scheduled' = 1 .. Len(scheduled')
      /\ \A k \in 1 .. Len(scheduled') : \E l \in 1 .. Len(scheduled) : scheduled'[k] = scheduled[l]
  <2>1. CASE scheduled' = scheduled
    BY <1>1, <2>1
  <2>2. CASE scheduled # << >> /\ scheduled' = Tail(scheduled)
    <3>1. /\ Len(Tail(scheduled)) = Len(scheduled) - 1 /\ Len(scheduled) \in Nat \ {0}
          /\ \A i \in 1 .. Len(scheduled) - 1 : Tail(scheduled)[i] = scheduled[i + 1]
          /\ DOMAIN Tail(scheduled) = 1 .. Len(scheduled) - 1
      BY <1>1, <2>2, Rest
    <3>2. Len(scheduled') = Len(scheduled) - 1 /\ DOMAIN scheduled' = 1 .. Len(scheduled')
      BY <2>2, <3>1
    <3>3. \A k \in 1 .. Len(scheduled') :
            k + 1 \in 1 .. Len(scheduled) /\ scheduled'[k] = scheduled[k + 1]
      <4>1. \A k \in 1 .. Len(scheduled') : k \in 1 .. Len(scheduled) - 1 /\ k + 1 \in 1 .. Len(scheduled)
        BY <3>1, <3>2
      <4> QED
        BY <2>2, <3>1, <4>1
    <3> QED
      BY <3>1, <3>2, <3>3
  <2> QED
    BY <2>1, <2>2
<1>3. \A l \in 1 .. Len(scheduled) :
        (scheduled[l].idx \notin removed => scheduled[l].to < born) /\ scheduled[l].to \in Nat
  <2>1. \A l \in 1 .. Len(scheduled) : scheduled[l] \in Task
    BY <1>1
  <2> QED
    BY <2>1 DEF Right, TasksPast, Task, Event
<1>4. TasksPast'
  <2> SUFFICES ASSUME NEW k \in 1 .. Len(scheduled'), scheduled'[k].idx \notin removed'
               PROVE  scheduled'[k].to < born'
    BY DEF TasksPast
  <2>1. PICK l \in 1 .. Len(scheduled) : scheduled'[k] = scheduled[l]
    BY <1>2
  <2>2. scheduled'[k].to < born /\ scheduled'[k].to \in Nat
    BY <1>3, <2>1
  <2> QED
    BY <1>1, <2>2
<1>5. StaleOnlyIfRemoved'
  <2>1. ASSUME NEW k \in DOMAIN scheduled', scheduled'[k].to \in Live',
               scheduled'[k].idx \notin removed'
        PROVE  /\ scheduled'[k].idx \in DOMAIN owned'[scheduled'[k].to]
               /\ owned'[scheduled'[k].to][scheduled'[k].idx] = scheduled'[k].about
    <3>1. PICK l \in 1 .. Len(scheduled) : scheduled'[k] = scheduled[l]
      BY <1>2
    <3> DEFINE task == scheduled[l]
    <3>2. task.to \in Live \cap Live' /\ task.idx \notin removed
      BY <1>3, <2>1, <3>1
    <3>3. ReachesReadyIo(task)
      BY <1>1, <3>2 DEF Right, StaleOnlyIfRemoved
    <3>4. /\ task.idx \in DOMAIN owned'[task.to]
          /\ owned'[task.to][task.idx] = task.about
      BY <2>1, <3>1, <3>2, <3>3 DEF ReachesReadyIo
    <3> QED
      BY <3>1, <3>4
  <2> QED
    BY <2>1 DEF StaleOnlyIfRemoved, ReachesReadyIo
<1> QED
  BY <1>4, <1>5 DEF Right

LEMMA RightInsert == ASSUME IInv, Right, Insert PROVE Right'
<1>1. Typed
  BY DEF IInv, Sound
<1>2. /\ born \notin Live /\ Live' = Live \cup {born}
      /\ \A e \in Live : owned'[e] = owned[e]
  BY <1>1, NewEvent DEF Insert
<1>3. scheduled' = scheduled /\ removed' = removed /\ born \in Nat /\ born' = born + 1
  BY <1>1 DEF Insert, Typed
<1>4. \A e \in Live' : e < born => e \in Live
  BY <1>2, <1>3
<1> QED
  BY <1>2, <1>3, <1>4, RightKept

\* A new IO gets a free index, which no event has unless io_remove was used on it.
LEMMA RightRegister == ASSUME IInv, Right, IoRegister PROVE Right'
<1> DEFINE idx == StoreIdx(ios)
<1>1. /\ Typed /\ Sound /\ OwnersAgree /\ calls # << >>
      /\ ios \in RecyclerOf(Event) /\ RecyclerOK(ios)
  BY DEF IInv, Sound, Typed, Parts, IoRegister, InCallback
<1>2. Top \in Live /\ Top \in Event
  BY <1>1, TopLives
<1>3. ~Valid(ios, idx)
  BY <1>1, <1>2, StoreFacts
<1>4. UNCHANGED << born, removed, scheduled >> /\ born \in Nat
  BY <1>1 DEF IoRegister, Typed
<1>5. CASE owned' = owned
  BY <1>4, <1>5, RightKept DEF Live
<1>6. CASE owned' = [owned EXCEPT ![Top] = With(@, idx, made)]
  <2>1. /\ Live' = Live
        /\ \A e \in Live : e # Top => owned'[e] = owned[e]
        /\ DOMAIN owned'[Top] = DOMAIN owned[Top] \cup {idx}
        /\ \A k \in DOMAIN owned[Top] : k # idx => owned'[Top][k] = owned[Top][k]
    BY <1>1, <1>6, NewIo
  <2>2. \A k \in DOMAIN owned[Top] : k \notin removed => k # idx
    BY <1>1, <1>2, <1>3 DEF OwnersAgree
  <2>3. \A e \in Live : \A k \in DOMAIN owned[e] :
          k \notin removed => k \in DOMAIN owned'[e] /\ owned'[e][k] = owned[e][k]
    BY <2>1, <2>2
  <2> QED
    BY <1>4, <2>1, <2>3, RightKept
<1> QED
  BY <1>5, <1>6 DEF IoRegister

LEMMA RightRemove == ASSUME IInv, Right, NEW idx, IoRemove(idx) PROVE Right'
<1>1. Typed /\ Sound /\ calls # << >>
  BY DEF IInv, Sound, IoRemove, InCallback
<1>2. UNCHANGED << born, scheduled >> /\ born \in Nat /\ removed' = removed \cup {idx}
  BY <1>1 DEF IoRemove, Typed
<1>3. /\ Live' = Live
      /\ \A e \in Live : e # Top => owned'[e] = owned[e]
      /\ DOMAIN owned'[Top] = DOMAIN owned[Top] \ {idx}
      /\ \A k \in DOMAIN owned[Top] \ {idx} : owned'[Top][k] = owned[Top][k]
  BY <1>1, LessIo DEF IoRemove
<1>4. \A e \in Live : \A k \in DOMAIN owned[e] :
        k \notin removed' => k \in DOMAIN owned'[e] /\ owned'[e][k] = owned[e][k]
  BY <1>2, <1>3
<1> QED
  BY <1>2, <1>3, <1>4, RightKept

LEMMA RightReturn == ASSUME IInv, Right, NEW keep \in BOOLEAN, Return(keep) PROVE Right'
<1>1. UNCHANGED << born, removed, scheduled >> /\ born \in Nat
  BY DEF IInv, Sound, Typed, Return, inputs
<1>2. CASE UNCHANGED tables
  BY <1>1, <1>2, RightKept DEF tables, Live
<1>3. CASE Kill
  <2>1. Live' = Live \ {Top} /\ \A e \in Live' : owned'[e] = owned[e]
    BY <1>3, LessEvent DEF Kill
  <2> QED
    BY <1>1, <2>1, RightKept
<1> QED
  BY <1>2, <1>3 DEF Return

\* The steps of run_one before the poll take tasks away or change no IO.
LEMMA RightOthers ==
    ASSUME IInv, Right, \/ RunOne \/ Skip \/ Dispatch \/ Drain \/ GatherEmpty \/ PollFailed
                        \/ UNCHANGED vars
    PROVE  Right'
<1>1. born \in Nat
  BY DEF IInv, Sound, Typed
<1>2. UNCHANGED << owned, born, removed >>
  BY DEF RunOne, Skip, Dispatch, Drain, GatherEmpty, PollFailed, vars, tables, inputs
<1>3. scheduled' = scheduled \/ (scheduled # << >> /\ scheduled' = Tail(scheduled))
  BY DEF RunOne, Skip, Dispatch, Drain, GatherEmpty, PollFailed, vars
<1> QED
  BY <1>1, <1>2, <1>3, RightKept DEF Live

LEMMA RightPoll == ASSUME IInv, Right, Poll PROVE Right'
<1>1. /\ UNCHANGED << owned, born, removed, ios, watched >> /\ pc = "run_one"
      /\ Live' = Live /\ born \in Nat /\ Live \subseteq 0 .. born - 1
      /\ OwnersAgree /\ WatchedOwned
  BY DEF Poll, tables, inputs, IInv, Sound, Typed, Parts, Live
<1>2. CASE UNCHANGED scheduled
  BY <1>1, <1>2, RightKept
<1>3. ASSUME NEW ready \in SUBSET watched, \A w \in ready : Valid(ios, w.idx),
             NEW order \in Orders(ready),
             scheduled' = [k \in DOMAIN order |->
                             [to |-> At(ios, order[k].idx), idx |-> order[k].idx,
                              about |-> order[k].io]]
      PROVE  Right'
  <2>1. /\ scheduled' \in Seq(Task)
        /\ \A k \in 1 .. Len(scheduled') : \E w \in ready :
             scheduled'[k].to = At(ios, w.idx) /\ scheduled'[k].idx = w.idx
               /\ scheduled'[k].about = w.io
    BY <1>3, Polled
  <2>2. ASSUME NEW k \in 1 .. Len(scheduled'), scheduled'[k].idx \notin removed
        PROVE  /\ scheduled'[k].to \in Live
               /\ scheduled'[k].idx \in DOMAIN owned[scheduled'[k].to]
               /\ owned[scheduled'[k].to][scheduled'[k].idx] = scheduled'[k].about
    <3>1. PICK w \in ready : /\ scheduled'[k].to = At(ios, w.idx) /\ scheduled'[k].idx = w.idx
                             /\ scheduled'[k].about = w.io
      BY <2>1
    <3>2. PICK e \in Live : Owns(w, e)
      BY <1>1 DEF WatchedOwned
    <3>3. At(ios, w.idx) = e
      BY <1>1, <2>2, <3>1, <3>2 DEF OwnersAgree, Owns
    <3> QED
      BY <3>1, <3>2, <3>3 DEF Owns
  <2>3. TasksPast'
    <3>1. \A e \in Live : e < born
      BY <1>1
    <3> QED
      BY <1>1, <2>2, <3>1 DEF TasksPast
  <2>4. DOMAIN scheduled' = 1 .. Len(scheduled')
    BY <2>1
  <2>5. StaleOnlyIfRemoved'
    BY <1>1, <2>2, <2>4 DEF StaleOnlyIfRemoved, ReachesReadyIo
  <2> QED
    BY <2>3, <2>5 DEF Right
<1> QED
  BY <1>2, <1>3 DEF Poll

LEMMA RightNext == ASSUME IInv, Right, [Next]_vars PROVE Right'
<1>1. CASE UserCode
  BY <1>1, RightInsert, RightRegister, RightOthers, RightRemove, RightReturn DEF UserCode
<1>2. CASE LoopCode
  BY <1>2, RightOthers, RightPoll DEF LoopCode
<1>3. CASE UNCHANGED vars
  BY <1>3, RightOthers
<1> QED
  BY <1>1, <1>2, <1>3 DEF Next

\* Readiness that waits for a living event reaches the IO that was ready and no other that
\* has its index now, unless io_remove was used on that index.
THEOREM ReadinessIsCurrent == Spec => []StaleOnlyIfRemoved
<1>1. Init => IInv /\ Right
  BY InvInit, RightInit
<1>2. IInv /\ Right /\ [Next]_vars => IInv' /\ Right'
  BY InvNext, RightNext
<1>3. Right => StaleOnlyIfRemoved
  BY DEF Right
<1> QED
  BY <1>1, <1>2, <1>3, PTL DEF Spec
=============================================================================
