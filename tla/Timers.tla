------------------------------- MODULE Timers -------------------------------
(***************************************************************************)
(* Timeouts, from src/core.rs: the heap of timeouts, the counters by which *)
(* the loop guesses how many of them belong to dead events, their pruning, *)
(* and their way through the queue of tasks to the callback.               *)
(*                                                                         *)
(* An event is its handle here, a number no other event ever has (the      *)
(* storage behind that is in EventLoop).  The call stack keeps only the    *)
(* events being called, and pc says where the code above the last of them  *)
(* is.  All tasks that are not timeouts are alike.                         *)
(***************************************************************************)
EXTENDS Integers, Sequences, FiniteSets

CONSTANTS
  DeadLimit,   (* as many dead timeouts are never pruned; 5 in the code    *)
  DeadRatio,   (* pruning waits for so many dead ones for a live one; 3    *)
  MaxEvents,   (* bound: events ever inserted                              *)
  MaxTimers,   (* bound: timeouts ever registered                          *)
  MaxTime,     (* bound: the last instant                                  *)
  MaxDepth,    (* bound: nested callbacks                                  *)
  MaxQueue     (* bound: tasks in the queue when something is sent         *)

ASSUME TimersConstants ==
    /\ DeadLimit \in Nat /\ DeadRatio \in Nat
    /\ MaxEvents \in Nat /\ MaxTimers \in Nat /\ MaxTime \in Nat
    /\ MaxDepth \in Nat /\ MaxQueue \in Nat

VARIABLES
  clock,               (* the time, Instant::now()                         *)
  now,                 (* the time when the loop last gathered             *)
  heap,                (* timeouts waiting for their instant               *)
  timeout_generation,  (* the next id of a timeout                         *)
  timeouts_inserted,   (* the counters of the loop                         *)
  timeouts_fired,
  timeouts_dead,
  timeouts,            (* the living events and how many timeouts each has *)
  born,                (* how many events were inserted so far             *)
  scheduled,           (* tasks ready to be dispatched                     *)
  calls,               (* events whose callbacks run, the innermost last   *)
  pc                   (* in user code, in run_one, or blocked in the poll *)

stats == << timeouts_inserted, timeouts_fired, timeouts_dead >>
vars == << clock, now, heap, timeout_generation, stats, timeouts, born,
           scheduled, calls, pc >>

Event == Nat
Instant == Nat
TimeoutHolder == [id : Nat, to : Event, when : Instant]
\* A task knows the id of its timeout; other tasks have none.
NoTimeout == -1
Task == [to : Event, id : Nat \cup {NoTimeout}]
OtherTask(e) == [to |-> e, id |-> NoTimeout]

Live == DOMAIN timeouts
Alive(e) == e \in Live
Called == {calls[i] : i \in 1 .. Len(calls)}

TypeOK ==
    /\ clock \in Instant /\ now \in Instant
    /\ heap \subseteq TimeoutHolder
    /\ timeout_generation \in Nat /\ born \in Nat
    /\ timeouts_inserted \in Nat /\ timeouts_fired \in Nat /\ timeouts_dead \in Nat
    /\ Live \subseteq Event /\ \A e \in Live : timeouts[e] \in Nat
    /\ scheduled \in Seq(Task)
    /\ calls \in Seq(Event)
    /\ pc \in {"user", "run_one", "poll"}

Init ==
    /\ clock = 0 /\ now = 0
    /\ heap = {} /\ timeout_generation = 0
    /\ timeouts_inserted = 0 /\ timeouts_fired = 0 /\ timeouts_dead = 0
    /\ timeouts = [e \in {} |-> 0] /\ born = 0
    /\ scheduled = << >> /\ calls = << >>
    /\ pc = "user"

-----------------------------------------------------------------------------
(* User code: the owner of the loop, or the callback on the top.           *)

InCallback == pc = "user" /\ calls # << >>
Top == calls[Len(calls)]

\* insert_exact, up to init
Insert ==
    /\ pc = "user" /\ born < MaxEvents /\ Len(calls) < MaxDepth
    /\ timeouts' = [e \in Live \cup {born} |-> IF e = born THEN 0 ELSE timeouts[e]]
    /\ born' = born + 1
    /\ calls' = Append(calls, born)
    /\ UNCHANGED << clock, now, heap, timeout_generation, stats, scheduled, pc >>

\* timeout_at
TimeoutAt(when) ==
    /\ InCallback /\ timeout_generation < MaxTimers
    /\ timeout_generation' = timeout_generation + 1
    /\ timeouts' = [timeouts EXCEPT ![Top] = @ + 1]
    /\ timeouts_inserted' = timeouts_inserted + 1
    /\ heap' = heap \cup {[id |-> timeout_generation, to |-> Top, when |-> when]}
    /\ UNCHANGED << clock, now, timeouts_fired, timeouts_dead, born, scheduled, calls, pc >>

\* send, to a living event
Send(e) ==
    /\ pc = "user" /\ Len(scheduled) < MaxQueue
    /\ scheduled' = Append(scheduled, OtherTask(e))
    /\ UNCHANGED << clock, now, heap, timeout_generation, stats, timeouts, born, calls, pc >>

\* event_kill, of the event being called
Kill_Uncounted == UNCHANGED timeouts_dead
KillCounts == timeouts_dead' = timeouts_dead + timeouts[Top]
Kill ==
    /\ KillCounts
    /\ timeouts' = [e \in Live \ {Top} |-> timeouts[e]]

\* event_call, from the callback's return on
Return(keep) ==
    /\ InCallback
    /\ calls' = SubSeq(calls, 1, Len(calls) - 1)
    /\ IF keep THEN UNCHANGED << timeouts, timeouts_dead >> ELSE Kill
    /\ UNCHANGED << clock, now, heap, timeout_generation, timeouts_inserted, timeouts_fired,
                    born, scheduled, pc >>

\* run_one (run and run_until_complete call it again and again)
RunOne ==
    /\ pc = "user" /\ Len(calls) < MaxDepth
    /\ pc' = "run_one"
    /\ UNCHANGED << clock, now, heap, timeout_generation, stats, timeouts, born,
                    scheduled, calls >>

-----------------------------------------------------------------------------
(* run_one: a task for the event that may be dead, busy or free.           *)

\* The bookkeeping of a timeout that is dispatched to a living event.
CountFired_NotBusy(task) ==
    IF task.id = NoTimeout \/ task.to \in Called
    THEN UNCHANGED << timeouts_fired, timeouts >>
    ELSE /\ timeouts_fired' = timeouts_fired + 1
         /\ timeouts' = [timeouts EXCEPT ![task.to] = @ - 1]
CountFired(task) ==
    IF task.id = NoTimeout
    THEN UNCHANGED << timeouts_fired, timeouts >>
    ELSE /\ timeouts_fired' = timeouts_fired + 1
         /\ timeouts' = [timeouts EXCEPT ![task.to] = @ - 1]

Skip ==
    /\ pc = "run_one" /\ scheduled # << >> /\ ~Alive(Head(scheduled).to)
    /\ scheduled' = Tail(scheduled)
    /\ UNCHANGED << clock, now, heap, timeout_generation, stats, timeouts, born, calls, pc >>

Dispatch ==
    /\ pc = "run_one" /\ scheduled # << >> /\ Alive(Head(scheduled).to)
    /\ scheduled' = Tail(scheduled)
    /\ CountFired(Head(scheduled))
    /\ calls' = IF Head(scheduled).to \in Called THEN calls    \* Err(Busy)
                ELSE Append(calls, Head(scheduled).to)
    /\ pc' = "user"
    /\ UNCHANGED << clock, now, heap, timeout_generation, timeouts_inserted, timeouts_dead, born >>

-----------------------------------------------------------------------------
(* tasks_gather                                                            *)

Dead(ts) == {t \in ts : ~Alive(t.to)}

\* What the while loop of timeout_min may remove: it pops dead timeouts until
\* a living one is on top.  Of timeouts of one instant any may be on top.
DeadHeads ==
    {d \in SUBSET Dead(heap) : \A t \in Dead(heap) :
        /\ (\A u \in heap \ Dead(heap) : t.when < u.when) => t \in d
        /\ t \in d => \A u \in heap \ Dead(heap) : t.when <= u.when}

GatherEmpty ==
    /\ pc = "run_one" /\ scheduled = << >> /\ Live = {}
    /\ pc' = "user"                                            \* Err(Empty)
    /\ UNCHANGED << clock, now, heap, timeout_generation, stats, timeouts, born,
                    scheduled, calls >>

\* tasks_gather up to the poll
Gather ==
    /\ pc = "run_one" /\ scheduled = << >> /\ Live # {}
    /\ \E d \in DeadHeads : heap' = heap \ d
    /\ pc' = "poll"
    /\ UNCHANGED << clock, now, timeout_generation, stats, timeouts, born, scheduled, calls >>

\* The poll ends with EINTR, or with another error, which run_one returns.
Interrupted ==
    /\ pc = "poll"
    /\ pc' \in {"run_one", "user"}
    /\ UNCHANGED << clock, now, heap, timeout_generation, stats, timeouts, born,
                    scheduled, calls >>

\* timers_cleanup: the numbers it works out from the counters ...
HandledDead == timeouts_inserted - Cardinality(heap) - timeouts_fired
StillDead == timeouts_dead - HandledDead
StillAlive == Cardinality(heap) - StillDead
TooManyDead_Never == FALSE
TooManyDead == StillDead > DeadLimit /\ StillAlive * DeadRatio < StillDead

\* ... what it leaves in the heap ...
Pruned_Inverted == Dead(heap)
Pruned == heap \ Dead(heap)
Cleaned == IF TooManyDead THEN Pruned ELSE heap

\* ... and in the counters.
CleanCounters ==
    /\ timeouts_fired' = 0
    /\ timeouts_inserted' = Cardinality(Cleaned)
    /\ timeouts_dead' = IF TooManyDead THEN 0 ELSE StillDead

\* tasks_gather_timers: the timeouts it takes, in an order the heap may give.
IsDue_Strict(t) == t.when < now'
IsDue(t) == t.when <= now'
InOrder(ts) ==
    {s \in [1 .. Cardinality(ts) -> ts] :
        \A i, j \in DOMAIN s : i < j => s[i] # s[j] /\ s[i].when <= s[j].when}
TaskOf(t) == [to |-> t.to, id |-> t.id]

\* tasks_gather from the poll on.  The poll ends when the first timeout is due or
\* when something else happens, which may bring a task for an event or nothing.
PollReturned ==
    /\ pc = "poll"
    /\ now' = clock
    /\ \E others \in {<< >>} \cup {<< OtherTask(e) >> : e \in Live} :
         LET due == {t \in Cleaned : IsDue(t)}
         IN  /\ heap' = Cleaned \ due
             /\ \E s \in InOrder(due) :
                  scheduled' = others \o [i \in DOMAIN s |-> TaskOf(s[i])]
    /\ CleanCounters
    /\ pc' = "run_one"
    /\ UNCHANGED << clock, timeout_generation, timeouts, born, calls >>

-----------------------------------------------------------------------------
Tick ==
    /\ clock < MaxTime
    /\ clock' = clock + 1
    /\ UNCHANGED << now, heap, timeout_generation, stats, timeouts, born, scheduled, calls, pc >>

UserCode ==
    \/ Insert \/ RunOne
    \/ \E when \in 0 .. MaxTime : TimeoutAt(when)
    \/ \E e \in Live : Send(e)
    \/ \E keep \in BOOLEAN : Return(keep)

LoopCode == Skip \/ Dispatch \/ GatherEmpty \/ Gather

Next == UserCode \/ LoopCode \/ Interrupted \/ PollReturned \/ Tick

Spec == Init /\ [][Next]_vars

\* Time passes, the code of the loop runs on, callbacks return, the owner keeps
\* running the loop, and a poll whose timeout is over returns, unless it is
\* interrupted by a signal, which does not happen every time.
TimeoutOver == \E t \in heap : t.when <= clock
Fairness ==
    /\ WF_vars(Tick)
    /\ WF_vars(LoopCode)
    /\ SF_vars(TimeoutOver /\ PollReturned)
    /\ WF_vars(\E keep \in BOOLEAN : Return(keep))
    /\ WF_vars(calls = << >> /\ RunOne)
FairSpec == Spec /\ Fairness

-----------------------------------------------------------------------------
(* Properties.                                                             *)

QueuedTimeouts == {k \in 1 .. Len(scheduled) : scheduled[k].id # NoTimeout}
Owner(id, e) == \/ \E t \in heap : t.id = id /\ t.to = e
                \/ \E k \in QueuedTimeouts : scheduled[k].id = id /\ scheduled[k].to = e
PendingOf(e) == {id \in 0 .. timeout_generation - 1 : Owner(id, e)}
PendingDead == {id \in 0 .. timeout_generation - 1 :
                   \E e \in 0 .. born - 1 : Owner(id, e) /\ ~Alive(e)}

\* The counters tell exactly what they are used for, whatever died, fired, was
\* refused or was pruned when: every event's own count is the number of its
\* timeouts, and the number that timers_cleanup works out for the dead ones is
\* the number of dead ones, so that none of its unsigned subtractions underflows.
StatsExact ==
    LET removed == HandledDead - Cardinality(QueuedTimeouts)
    IN  /\ removed >= 0
        /\ timeouts_dead - removed = Cardinality(PendingDead)
        /\ \A e \in Live : timeouts[e] = Cardinality(PendingOf(e))

\* What timers_cleanup is for: after it, dead timeouts are few in number, or few
\* for the living ones that were there (those that were due included).
GarbageBounded ==
    [][PollReturned =>
          \/ Cardinality(Dead(Cleaned)) <= DeadLimit
          \/ Cardinality(Dead(Cleaned)) <= DeadRatio * Cardinality(Cleaned \ Dead(Cleaned))]_vars

\* A timeout of a living event gets lost on no way but one: it reaches the
\* queue's head while a callback of that event is on the stack, and run_one
\* fails with Busy.
LiveTimeoutsKept ==
    [][\A e \in Live : \A id \in PendingOf(e) :
          \/ id \in PendingOf(e)'
          \/ calls' = Append(calls, e)
          \/ ~Alive(e)'
          \/ e \in Called /\ pc = "run_one" /\ Head(scheduled) = [to |-> e, id |-> id]]_vars

Due(id) == \E e \in Live : /\ id \in PendingOf(e)
                           /\ \A t \in heap : t.id = id => t.when <= clock

\* A timeout of a living event whose instant came is handed over or dies with
\* its event, unless callbacks keep the queue filled for ever: run_one gathers
\* nothing while there is a task.
SendingEnds == <>[][~\E e \in Live : Send(e)]_vars
DueTimeoutsLeave == SendingEnds => \A id \in 0 .. MaxTimers - 1 : Due(id) ~> ~Due(id)
=============================================================================
