------------------------------ MODULE IoTable ------------------------------
(***************************************************************************)
(* The table of watched IOs, from src/core.rs: registration, removal, the  *)
(* delayed release of their indexes, and the way of readiness from the     *)
(* poll through the queue of tasks to the callback.                        *)
(*                                                                         *)
(* An event is its handle here, a number no other event ever has, and the  *)
(* call stack keeps only the events being called, as in Timers.  The index *)
(* of an IO is what the poll knows it by (its token, but for a shift).     *)
(***************************************************************************)
EXTENDS Recycler

CONSTANTS
  MaxEvents,   (* bound: events ever inserted                              *)
  MaxIos,      (* bound: IOs ever registered                               *)
  MaxDepth     (* bound: nested callbacks                                  *)

ASSUME IoConstants ==
    /\ MaxEvents \in Nat /\ MaxIos \in Nat /\ MaxDepth \in Nat

VARIABLES
  ios,           (* Recycler of the events that own the indexes            *)
  ios_released,  (* indexes to be released before the next poll            *)
  owned,         (* the living events and their IOs, by index              *)
  watched,       (* IOs registered with the poll, and their tokens         *)
  born,          (* how many events were inserted so far                   *)
  made,          (* how many IOs were registered so far                    *)
  removed,       (* history: indexes io_remove was ever used on            *)
  scheduled,     (* tasks ready to be dispatched                           *)
  calls,         (* events whose callbacks run, the innermost last         *)
  pc             (* in user code, in run_one, or stopped by an assertion   *)

vars == << ios, ios_released, owned, watched, born, made, removed,
           scheduled, calls, pc >>
tables == << ios, ios_released, owned, watched >>
inputs == << born, made, removed >>

Event == Nat
\* An IO object: IOs are told apart by the order of their registration.
Io == Nat
\* A task names the index; about is a history variable, the IO that was ready.
Task == [to : Event, idx : Nat, about : Io]
\* A registration in the poll (external): a token and the IO it stands for.
Registration == [idx : Nat, io : Io]

Live == DOMAIN owned
Called == {calls[i] : i \in 1 .. Len(calls)}
Top == calls[Len(calls)]

TypeOK ==
    /\ ios \in RecyclerOf(Event) /\ Len(ios.data) <= MaxIos
    /\ ios_released \subseteq Nat /\ removed \subseteq Nat
    /\ watched \subseteq Registration
    /\ Live \subseteq Event
    /\ \A e \in Live : /\ DOMAIN owned[e] \subseteq Nat
                        /\ \A idx \in DOMAIN owned[e] : owned[e][idx] \in Io
    /\ born \in Nat /\ made \in Nat
    /\ scheduled \in Seq(Task)
    /\ calls \in Seq(Event)
    /\ pc \in {"user", "run_one", "panic"}

Init ==
    /\ ios = EmptyRecycler /\ ios_released = {} /\ watched = {}
    /\ owned = << >> /\ born = 0 /\ made = 0 /\ removed = {}
    /\ scheduled = << >> /\ calls = << >>
    /\ pc = "user"

-----------------------------------------------------------------------------
(* User code                                                               *)

InCallback == pc = "user" /\ calls # << >>

With(f, k, v) == [x \in DOMAIN f \cup {k} |-> IF x = k THEN v ELSE f[x]]
Without(f, k) == [x \in DOMAIN f \ {k} |-> f[x]]
\* The registrations of an event's IOs
Watches(e) == {[idx |-> k, io |-> owned[e][k]] : k \in DOMAIN owned[e]}

\* insert_exact, up to init
Insert ==
    /\ pc = "user" /\ born < MaxEvents /\ Len(calls) < MaxDepth
    /\ owned' = With(owned, born, << >>)
    /\ born' = born + 1
    /\ calls' = Append(calls, born)
    /\ UNCHANGED << ios, ios_released, watched, made, removed, scheduled, pc >>

\* io_register_any.  When the poll refuses the IO, its index is given back.  An
\* IO the event has under the same index is dropped, and the poll forgets it.
IoRegister ==
    /\ InCallback /\ made < MaxIos
    /\ LET idx == StoreIdx(ios)
           stored == Store(ios, Top)
           dropped == {w \in Watches(Top) : w.idx = idx}
       IN  \/ /\ ios' = stored
              /\ watched' = (watched \ dropped) \cup {[idx |-> idx, io |-> made]}
              /\ owned' = [owned EXCEPT ![Top] = With(@, idx, made)]
              /\ made' = made + 1
           \/ ios' = Release(stored, idx) /\ UNCHANGED << watched, owned, made >>
    /\ UNCHANGED << ios_released, born, removed, scheduled, calls, pc >>

\* io_remove
IoRemove(idx) ==
    /\ InCallback
    /\ idx \in DOMAIN owned[Top]
    /\ owned' = [owned EXCEPT ![Top] = Without(@, idx)]
    /\ removed' = removed \cup {idx}
    /\ \/ /\ Valid(ios, idx)
          /\ ios' = Release(ios, idx)
          /\ ios_released' = ios_released \cup {idx}
          /\ watched' = watched \ {[idx |-> idx, io |-> owned[Top][idx]]}
          /\ UNCHANGED pc
       \/ ~Valid(ios, idx) /\ pc' = "panic" /\ UNCHANGED << ios, ios_released, watched >>
    /\ UNCHANGED << born, made, scheduled, calls >>

\* event_kill, the IOs of the event that is being called
Kill_Watched ==
    /\ ios_released' = ios_released \cup DOMAIN owned[Top]
    /\ owned' = Without(owned, Top)
    /\ UNCHANGED << ios, watched >>
Kill_Leaks ==
    /\ watched' = watched \ Watches(Top)
    /\ owned' = Without(owned, Top)
    /\ UNCHANGED << ios, ios_released >>
Kill ==
    /\ ios_released' = ios_released \cup DOMAIN owned[Top]
    /\ watched' = watched \ Watches(Top)
    /\ owned' = Without(owned, Top)
    /\ UNCHANGED ios

\* event_call, from the callback's return on
Return(keep) ==
    /\ InCallback
    /\ calls' = SubSeq(calls, 1, Len(calls) - 1)
    /\ IF keep THEN UNCHANGED tables ELSE Kill
    /\ UNCHANGED << inputs, scheduled, pc >>

RunOne ==
    /\ pc = "user" /\ Len(calls) < MaxDepth
    /\ pc' = "run_one"
    /\ UNCHANGED << tables, inputs, scheduled, calls >>

-----------------------------------------------------------------------------
(* run_one                                                                 *)

Skip ==
    /\ pc = "run_one" /\ scheduled # << >> /\ Head(scheduled).to \notin Live
    /\ scheduled' = Tail(scheduled)
    /\ UNCHANGED << tables, inputs, calls, pc >>

\* The test that the event still has the IO of a task
HasIo_Any(task) == TRUE
HasIo(task) == task.idx \in DOMAIN owned[task.to]

Dispatch ==
    /\ pc = "run_one" /\ scheduled # << >> /\ Head(scheduled).to \in Live
    /\ scheduled' = Tail(scheduled)
    /\ calls' = IF HasIo(Head(scheduled)) /\ Head(scheduled).to \notin Called
                THEN Append(calls, Head(scheduled).to)
                ELSE calls                            \* Ok, or Err(Busy)
    /\ pc' = "user"
    /\ UNCHANGED << tables, inputs >>

-----------------------------------------------------------------------------
(* tasks_gather                                                            *)

\* One release of the loop that drains ios_released; it may come in any order.
Drain ==
    /\ pc = "run_one" /\ scheduled = << >>
    /\ \E idx \in ios_released :
         /\ ios_released' = ios_released \ {idx}
         /\ IF Valid(ios, idx) THEN ios' = Release(ios, idx) /\ UNCHANGED pc
                               ELSE pc' = "panic" /\ UNCHANGED ios
    /\ UNCHANGED << owned, watched, inputs, scheduled, calls >>

GatherEmpty ==
    /\ pc = "run_one" /\ scheduled = << >> /\ ios_released = {} /\ Live = {}
    /\ pc' = "user"                                   \* Err(Empty)
    /\ UNCHANGED << tables, inputs, scheduled, calls >>

\* The poll reports what is ready in any order.
Orders(S) == {order \in [1 .. Cardinality(S) -> S] :
                \A j, k \in DOMAIN order : order[j] = order[k] => j = k}

\* The poll, and tasks_gather_io: an IO that is ready is a task for the event in
\* the table.  The code asserts that there is one.
Poll ==
    /\ pc = "run_one" /\ scheduled = << >> /\ ios_released = {} /\ Live # {}
    /\ \E ready \in SUBSET watched :
         \/ /\ \A w \in ready : Valid(ios, w.idx)
            /\ \E order \in Orders(ready) :
                 scheduled' = [k \in DOMAIN order |->
                                 [to |-> At(ios, order[k].idx), idx |-> order[k].idx,
                                  about |-> order[k].io]]
            /\ UNCHANGED pc
         \/ /\ \E w \in ready : ~Valid(ios, w.idx)
            /\ pc' = "panic" /\ UNCHANGED scheduled
    /\ UNCHANGED << tables, inputs, calls >>

\* An error of the poll, which run_one returns.  (EINTR is as if nothing were ready.)
PollFailed ==
    /\ pc = "run_one" /\ scheduled = << >> /\ ios_released = {} /\ Live # {}
    /\ pc' = "user"
    /\ UNCHANGED << tables, inputs, scheduled, calls >>

-----------------------------------------------------------------------------
UserCode ==
    \/ Insert \/ IoRegister \/ RunOne
    \/ \E idx \in 0 .. MaxIos : IoRemove(idx)
    \/ \E keep \in BOOLEAN : Return(keep)

LoopCode == Skip \/ Dispatch \/ Drain \/ GatherEmpty \/ Poll \/ PollFailed

Next == UserCode \/ LoopCode

Spec == Init /\ [][Next]_vars

-----------------------------------------------------------------------------
(* Properties.                                                             *)

AllOwned == UNION {DOMAIN owned[e] : e \in Live}

\* The table, the events and the pending releases agree about every index that
\* io_remove was not used on, also if it was used on others: it is taken either
\* by one living event, the one in the table, or until its release, or it is free;
\* and no assertion fails before the first io_remove.  And the poll watches exactly
\* the IOs of living events: none dies or goes without being deregistered.
TablesAgree ==
    /\ RecyclerOK(ios)
    /\ \A e \in Live : \A idx \in DOMAIN owned[e] \ removed :
           Valid(ios, idx) /\ At(ios, idx) = e
    /\ Used(ios) \ removed = (ios_released \cup AllOwned) \ removed
    /\ (ios_released \cap AllOwned) \subseteq removed
    /\ pc = "panic" => removed # {}
    /\ pc # "panic" => watched = UNION {Watches(e) : e \in Live}

\* What the comment in io_remove says: readiness of an old IO does not reach one
\* that has its index now.  A task reaches the callback of its event with the index
\* of the very IO that was ready.
ReachesReadyIo(task) == /\ task.idx \in DOMAIN owned[task.to]
                        /\ owned[task.to][task.idx] = task.about
NoStaleIo ==
    [][pc = "run_one" /\ Len(calls') > Len(calls) => ReachesReadyIo(Head(scheduled))]_vars

\* That does hold for each index that io_remove was not used on, whatever events
\* died, and whoever got their indexes, while tasks were waiting.
StaleOnlyIfRemoved ==
    \A k \in DOMAIN scheduled :
        scheduled[k].to \in Live /\ scheduled[k].idx \notin removed =>
            ReachesReadyIo(scheduled[k])
=============================================================================
