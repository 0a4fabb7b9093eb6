----------------------------- MODULE EventCalls -----------------------------
(***************************************************************************)
(* What the documentation in src/core.rs promises of events, their         *)
(* callbacks and their messages, without slots, locks, generations and the *)
(* functions on the stack.  An event is inserted once, gets callbacks, one *)
(* at a time, and is gone for good when one of them says so.  A callback   *)
(* may run the loop, and then ends after the callbacks called from it.     *)
(* Messages that an event accepts are handed over in the order they were   *)
(* sent, each once and only to this event; they are lost if it is gone or  *)
(* busy.  A callback for idle time comes once for each time it was asked   *)
(* for, and when nothing else waits.                                       *)
(***************************************************************************)
EXTENDS Integers, Sequences

VARIABLES
  inserted,  (* the events ever inserted                                   *)
  accepts,   (* the living events, and the types of messages each accepts  *)
  queue,     (* what waits to be handed over, oldest first                 *)
  idlers,    (* the events that asked for an idle callback                 *)
  running    (* the callbacks that run, by place: a later place was called *)
             (* from an earlier one                                        *)

vars == << inserted, accepts, queue, idlers, running >>

\* The living events, and those with a callback that runs.
Live == DOMAIN accepts
Busy == {running[p].event : p \in DOMAIN running}
\* Only the callback called last acts, and ends.
Innermost(p) == p \in DOMAIN running /\ \A q \in DOMAIN running : q <= p

Init ==
    /\ inserted = {} /\ Live = {} /\ DOMAIN running = {}
    /\ queue = << >> /\ idlers = {}

\* A callback of event e begins, in those that run.
Enter(e, why) ==
    /\ e \notin Busy
    /\ \E p \in DOMAIN running' :
          /\ \A q \in DOMAIN running : q < p
          /\ DOMAIN running' = DOMAIN running \cup {p}
          /\ running'[p] = [event |-> e, why |-> why]
          /\ \A q \in DOMAIN running : running'[q] = running[q]

Insert ==
    /\ \E e \in Live' \ inserted :
          /\ inserted' = inserted \cup {e}
          /\ Live' = Live \cup {e} /\ accepts'[e] = {}
          /\ \A f \in Live : accepts'[f] = accepts[f]
          /\ Enter(e, "init")
    /\ UNCHANGED << queue, idlers >>

\* A callback ends; its event lives on, or is gone and with it its wish to be idle.
Leave ==
    /\ \E p \in DOMAIN running :
          /\ Innermost(p)
          /\ running' = [q \in DOMAIN running \ {p} |-> running[q]]
          /\ \/ UNCHANGED << accepts, idlers >>
             \/ LET e == running[p].event
                IN  /\ accepts' = [f \in Live \ {e} |-> accepts[f]]
                    /\ idlers' = idlers \ {e}
    /\ UNCHANGED << inserted, queue >>

\* The event whose callback runs wants more messages, or to be called when idle.
Expect ==
    /\ \E p \in DOMAIN running :
          /\ Innermost(p)
          /\ Live' = Live
          /\ LET e == running[p].event
             IN  \A f \in Live : IF f = e THEN accepts[f] \subseteq accepts'[f]
                                          ELSE accepts'[f] = accepts[f]
    /\ UNCHANGED << inserted, queue, idlers, running >>
WantIdle ==
    /\ \E p \in DOMAIN running :
          Innermost(p) /\ idlers' = idlers \cup {running[p].event}
    /\ UNCHANGED << inserted, accepts, queue, running >>

\* A message is handed over at once (post) or queued (send, or a channel); the
\* idle callback is queued when nothing else waits.
Post ==
    /\ \E e \in Live : \E tp \in accepts[e] : Enter(e, tp)
    /\ UNCHANGED << inserted, accepts, queue, idlers >>
Accept ==
    /\ \E e \in Live : \E tp \in accepts[e] :
          queue' = Append(queue, [to |-> e, what |-> tp])
    /\ UNCHANGED << inserted, accepts, idlers, running >>
Idle ==
    /\ queue = << >>
    /\ \E e \in idlers :
          /\ queue' = << [to |-> e, what |-> "idle"] >>
          /\ idlers' = idlers \ {e}
    /\ UNCHANGED << inserted, accepts, running >>

\* What waited longest is handed over, or lost if its event is gone or busy.
HandOver ==
    /\ queue # << >> /\ queue' = Tail(queue)
    /\ Head(queue).to \in Live
    /\ Enter(Head(queue).to, Head(queue).what)
    /\ UNCHANGED << inserted, accepts, idlers >>
Lose ==
    /\ queue # << >> /\ queue' = Tail(queue)
    /\ Head(queue).to \in Busy \/ Head(queue).to \notin Live
    /\ UNCHANGED << inserted, accepts, idlers, running >>

Next ==
    \/ Insert \/ Leave \/ Expect \/ WantIdle
    \/ Post \/ Accept \/ Idle \/ HandOver \/ Lose

Spec == Init /\ [][Next]_vars
=============================================================================
