----------------------------- MODULE Background -----------------------------
(***************************************************************************)
(* Background tasks, from src/core.rs: they are submitted by callbacks,    *)
(* run in the threads of a pool, and send their results through the        *)
(* channel of the loop to the event that asked.  A task may panic at any   *)
(* time, and the loop may be dropped while it runs.                        *)
(*                                                                         *)
(* Events and the call stack are those of Timers.  All values are alike    *)
(* but for their number, and all tasks of the loop that are not results    *)
(* are alike.                                                              *)
(***************************************************************************)
EXTENDS Integers, Sequences, FiniteSets

CONSTANTS
  Job,         (* the tasks ever submitted                                 *)
  MaxThreads,  (* bound: threads of the pool                               *)
  MaxItems,    (* bound: values an iterator gives                          *)
  MaxEvents,   (* bound: events ever inserted                              *)
  MaxDepth     (* bound: nested callbacks                                  *)

NoJob == 0
ASSUME BackgroundConstants ==
    /\ Job \subseteq Nat \ {NoJob}
    /\ MaxThreads \in Nat \ {0} /\ MaxItems \in Nat
    /\ MaxEvents \in Nat /\ MaxDepth \in Nat

Kind == {"one", "iter"}

VARIABLES
  threads,     (* the number of threads of the pool, 0 without a pool      *)
  waiting,     (* jobs submitted and not started, oldest first             *)
  kind,        (* what was submitted as each job, or "none"                *)
  requestor,   (* the event that asked for it                              *)
  at,          (* where each job is                                        *)
  complete,    (* jobs whose BackgroundWrapper has its flag set            *)
  items,       (* how many values each iterator gave                       *)
  inbox,       (* the channel of the loop                                  *)
  gone,        (* whether the loop was dropped, and the channel with it    *)
  live,        (* the living events                                        *)
  born,        (* how many events were inserted so far                     *)
  scheduled,   (* tasks ready to be dispatched                             *)
  calls,       (* events whose callbacks run, the innermost last           *)
  pc,          (* in user code, in run_one, in the poll or after it        *)
  given,       (* history: the numbers of the values that callbacks got,   *)
               (* by job, NoValue for each that was lost                   *)
  answers      (* history: the other results, "lost" for one that was lost *)

pool == << threads, waiting >>
jobs == << kind, requestor, at, complete, items >>
loop == << live, born, scheduled, calls, pc >>
handed == << given, answers >>
vars == << pool, jobs, inbox, gone, loop, handed >>

Event == Nat
Data == {"value", "error", "panicked", "end", "item"}
\* RemoteMessage; item is the number of an iterator's value.
Letter == [to : Event, job : Job, data : Data, item : Nat]
OtherTask(e) == [to |-> e, job |-> NoJob]
Task == Letter \cup [to : Event, job : {NoJob}]
IsResult(task) == task.job # NoJob
IsItem(letter) == letter.data = "item"

\* The history of results: what a callback gets, or that it gets nothing.
NoValue == 0
Outcome == (Data \ {"item"}) \cup {"lost"}

Called == {calls[i] : i \in 1 .. Len(calls)}
Callable == live \ Called
Top == calls[Len(calls)]

\* A job is queued, in its function, in its iterator, has sent its result, leaves
\* the task's scope (in which BackgroundWrapper lives), or is over; an iterator that
\* panicked is silent.
Running == {j \in Job : at[j] \in {"function", "iterator", "sent", "leaving"}}

TypeOK ==
    /\ threads \in 0 .. MaxThreads
    /\ waiting \in Seq(Job)
    /\ kind \in [Job -> Kind \cup {"none"}]
    /\ requestor \in [Job -> Event]
    /\ at \in [Job -> {"none", "queued", "function", "iterator", "sent", "leaving", "over", "silent"}]
    /\ complete \subseteq Job
    /\ items \in [Job -> Nat]
    /\ inbox \in Seq(Letter)
    /\ gone \in BOOLEAN
    /\ live \subseteq 0 .. born - 1 /\ born \in Nat
    /\ scheduled \in Seq(Task)
    /\ calls \in Seq(Event)
    /\ pc \in {"user", "run_one", "poll", "receive"}
    /\ given \in [Job -> Seq(Nat)]
    /\ answers \in [Job -> Seq(Outcome)]

Init ==
    /\ threads = 0 /\ waiting = << >>
    /\ kind = [j \in Job |-> "none"] /\ requestor = [j \in Job |-> 0]
    /\ at = [j \in Job |-> "none"] /\ complete = {} /\ items = [j \in Job |-> 0]
    /\ inbox = << >> /\ gone = FALSE
    /\ live = {} /\ born = 0 /\ scheduled = << >> /\ calls = << >> /\ pc = "user"
    /\ given = [j \in Job |-> << >>] /\ answers = [j \in Job |-> << >>]

-----------------------------------------------------------------------------
(* User code                                                               *)

InUser == pc = "user" /\ ~gone
InCallback == InUser /\ calls # << >>

\* insert_exact, up to init
Insert ==
    /\ InUser /\ born < MaxEvents /\ Len(calls) < MaxDepth
    /\ live' = live \cup {born}
    /\ born' = born + 1
    /\ calls' = Append(calls, born)
    /\ UNCHANGED << pool, jobs, inbox, gone, scheduled, pc, handed >>

\* background and background_iter, with background_submit: without a pool, one of
\* a single thread is made.
PoolFor_Another == threads + 1
PoolFor == IF threads = 0 THEN 1 ELSE threads
Submit(j, k) ==
    /\ InCallback /\ kind[j] = "none"
    /\ kind' = [kind EXCEPT ![j] = k]
    /\ requestor' = [requestor EXCEPT ![j] = Top]
    /\ at' = [at EXCEPT ![j] = "queued"]
    /\ threads' = PoolFor
    /\ waiting' = Append(waiting, j)
    /\ UNCHANGED << complete, items, inbox, gone, loop, handed >>

\* pool_thread_count_set (a pool of no threads is refused by ThreadPool)
PoolThreadCountSet(n) ==
    /\ InUser /\ calls = << >> /\ n \in 1 .. MaxThreads /\ n # threads
    /\ threads' = n
    /\ UNCHANGED << waiting, jobs, inbox, gone, loop, handed >>

\* event_call, from the callback's return on
Return(keep) ==
    /\ InCallback
    /\ calls' = SubSeq(calls, 1, Len(calls) - 1)
    /\ live' = IF keep THEN live ELSE live \ {Top}
    /\ UNCHANGED << pool, jobs, inbox, gone, born, scheduled, pc, handed >>

RunOne ==
    /\ InUser /\ Len(calls) < MaxDepth
    /\ pc' = "run_one"
    /\ UNCHANGED << pool, jobs, inbox, gone, live, born, scheduled, calls, handed >>

\* The loop is dropped.  The pool goes with it, but its threads finish what was
\* submitted.
DropLoop ==
    /\ InUser /\ calls = << >>
    /\ gone' = TRUE
    /\ inbox' = << >> /\ scheduled' = << >> /\ live' = {}
    /\ UNCHANGED << pool, jobs, born, calls, pc, handed >>

-----------------------------------------------------------------------------
(* The threads of the pool.                                                *)

Step(j, to) == at' = [at EXCEPT ![j] = to]
\* Sender::send, which fails when the loop is gone, and the task does not care.
Post(j, data, item) ==
    inbox' = IF gone THEN inbox
             ELSE Append(inbox, [to |-> requestor[j], job |-> j, data |-> data, item |-> item])

\* A thread takes the oldest job (ThreadPool, external).  A lower number of threads
\* takes effect as threads finish.
Start(j) ==
    /\ waiting # << >> /\ Head(waiting) = j
    /\ Cardinality(Running) < threads
    /\ waiting' = Tail(waiting)
    /\ Step(j, "function")
    /\ UNCHANGED << threads, kind, requestor, complete, items, inbox, gone, loop, handed >>

\* background: the function returns, its result is sent ...
SendResult(j) ==
    /\ at[j] = "function" /\ kind[j] = "one"
    /\ \E data \in {"value", "error"} : Post(j, data, 0)
    /\ Step(j, "sent")
    /\ UNCHANGED << pool, kind, requestor, complete, items, gone, loop, handed >>

\* ... the wrapper is told ...
SetComplete_Not(j) == complete
SetComplete(j) == complete \cup {j}
Complete(j) ==
    /\ at[j] = "sent"
    /\ complete' = SetComplete(j)
    /\ Step(j, "leaving")
    /\ UNCHANGED << pool, kind, requestor, items, inbox, gone, loop, handed >>

\* ... or the function panics ...
Panic(j) ==
    /\ at[j] = "function" /\ kind[j] = "one"
    /\ Step(j, "leaving")
    /\ UNCHANGED << pool, kind, requestor, complete, items, inbox, gone, loop, handed >>

\* ... and BackgroundWrapper::drop sends the news of a panic.
DropWrapper_Mute(j) == UNCHANGED inbox
DropWrapper(j) == IF j \in complete THEN UNCHANGED inbox ELSE Post(j, "panicked", 0)
Leave(j) ==
    /\ at[j] = "leaving"
    /\ DropWrapper(j)
    /\ Step(j, "over")
    /\ UNCHANGED << pool, kind, requestor, complete, items, gone, loop, handed >>

\* background_iter: the function gives an iterator, or an error that is sent ...
MakeIterator(j) ==
    /\ at[j] = "function" /\ kind[j] = "iter"
    /\ \/ Step(j, "iterator") /\ UNCHANGED inbox
       \/ Step(j, "over") /\ Post(j, "error", 0)
    /\ UNCHANGED << pool, kind, requestor, complete, items, gone, loop, handed >>

\* ... each value is sent ...
SendItem(j) ==
    /\ at[j] = "iterator" /\ items[j] < MaxItems
    /\ Post(j, "item", items[j] + 1)
    /\ items' = [items EXCEPT ![j] = @ + 1]
    /\ UNCHANGED << pool, kind, requestor, at, complete, gone, loop, handed >>

\* ... then the end.
SendEnd(j) ==
    /\ at[j] = "iterator"
    /\ Post(j, "end", 0)
    /\ Step(j, "over")
    /\ UNCHANGED << pool, kind, requestor, complete, items, gone, loop, handed >>

\* A panic of the function or of the iterator: there is no wrapper here, and nothing
\* is sent.
PanicIter(j) ==
    /\ at[j] \in {"function", "iterator"} /\ kind[j] = "iter"
    /\ Step(j, "silent")
    /\ UNCHANGED << pool, kind, requestor, complete, items, inbox, gone, loop, handed >>

-----------------------------------------------------------------------------
(* run_one and tasks_gather                                                *)

\* What becomes of a task, for the history: a callback gets it, or it is lost.
Record(task, number, answer) ==
    \/ /\ IsResult(task) /\ IsItem(task)
       /\ given' = [given EXCEPT ![task.job] = Append(@, number)]
       /\ UNCHANGED answers
    \/ /\ IsResult(task) /\ ~IsItem(task)
       /\ answers' = [answers EXCEPT ![task.job] = Append(@, answer)]
       /\ UNCHANGED given
    \/ ~IsResult(task) /\ UNCHANGED handed
HandOver(task) == Record(task, task.item, task.data)
Lose(task) == Record(task, NoValue, "lost")

Take ==
    /\ pc = "run_one" /\ scheduled # << >>
    /\ scheduled' = Tail(scheduled)
    /\ UNCHANGED << pool, jobs, inbox, gone, live, born >>

\* A task for a dead event is dropped, and run_one goes on.
Skip ==
    /\ Take /\ Head(scheduled).to \notin live
    /\ Lose(Head(scheduled))
    /\ UNCHANGED << calls, pc >>

\* event_call fails with Busy if a callback of the event is on the stack, and the
\* task is dropped with that.
Busy ==
    /\ Take /\ Head(scheduled).to \in live \cap Called
    /\ Lose(Head(scheduled))
    /\ pc' = "user"
    /\ UNCHANGED calls

Dispatch ==
    /\ Take /\ Head(scheduled).to \in Callable
    /\ HandOver(Head(scheduled))
    /\ calls' = Append(calls, Head(scheduled).to)
    /\ pc' = "user"

\* Without events there is an error, before the channel is looked at.
Gather ==
    /\ pc = "run_one" /\ scheduled = << >>
    /\ pc' = IF live = {} THEN "user" ELSE "poll"
    /\ UNCHANGED << pool, jobs, inbox, gone, live, born, scheduled, calls, handed >>

Others == {<< >>} \cup {<< OtherTask(e) >> : e \in live}

\* The poll ends with EINTR or a timeout, or because something else happened, or with
\* an error that run_one returns.
PollOther ==
    /\ pc = "poll"
    /\ \/ scheduled' \in Others /\ pc' = "run_one"
       \/ UNCHANGED scheduled /\ pc' = "user"
    /\ UNCHANGED << pool, jobs, inbox, gone, live, born, calls, handed >>

\* The poll ends and there are messages, perhaps after something else that happened.
PollChannel ==
    /\ pc = "poll" /\ inbox # << >>
    /\ scheduled' \in Others
    /\ pc' = "receive"
    /\ UNCHANGED << pool, jobs, inbox, gone, live, born, calls, handed >>

\* They are taken until there are none.  Results are let through unchecked, those for
\* dead events too.
Passed_Front(letter) == << letter >> \o scheduled
Passed(letter) == Append(scheduled, letter)
Receive ==
    /\ pc = "receive"
    /\ IF inbox # << >>
       THEN /\ scheduled' = Passed(Head(inbox))
            /\ inbox' = Tail(inbox)
            /\ UNCHANGED pc
       ELSE /\ pc' = "run_one"
            /\ UNCHANGED << scheduled, inbox >>
    /\ UNCHANGED << pool, jobs, gone, live, born, calls, handed >>

-----------------------------------------------------------------------------
UserCode ==
    \/ Insert \/ RunOne \/ DropLoop
    \/ \E j \in Job, k \in Kind : Submit(j, k)
    \/ \E n \in 1 .. MaxThreads : PoolThreadCountSet(n)
    \/ \E keep \in BOOLEAN : Return(keep)

Thread(j) ==
    \/ Start(j) \/ SendResult(j) \/ Complete(j) \/ Panic(j) \/ Leave(j)
    \/ MakeIterator(j) \/ SendItem(j) \/ SendEnd(j) \/ PanicIter(j)

LoopCode == Skip \/ Busy \/ Dispatch \/ Gather \/ Receive

Next == UserCode \/ LoopCode \/ PollOther \/ PollChannel \/ \E j \in Job : Thread(j)

Spec == Init /\ [][Next]_vars

\* The threads run and the code of the tasks ends, the code of the loop runs on,
\* callbacks return, the owner keeps running the loop, and not every poll ends before
\* it sees the channel.
Fairness ==
    /\ \A j \in Job : WF_vars(Thread(j))
    /\ WF_vars(LoopCode)
    /\ SF_vars(PollChannel)
    /\ WF_vars(\E keep \in BOOLEAN : Return(keep))
    /\ WF_vars(calls = << >> /\ RunOne)
FairSpec == Spec /\ Fairness

-----------------------------------------------------------------------------
(* Properties.                                                             *)

Streams == INSTANCE ResultStreams
           WITH asker <- requestor, free <- Callable

\* The results of a job come to one answer, after the values of an iterator, in their
\* order; a panic is told of only if there is no result.  Each is handed over once, or
\* lost when its turn comes while its event is dead or busy, and on no other way.
IsResultStreams == Streams!Spec

\* Each job comes to its answer, which its event gets, or misses because it is dead or
\* busy then: by IsResultStreams there is no other way to miss it, so a living event
\* whose callbacks do not run the loop themselves gets it.  Excepted are the jobs whose
\* iterator panicked, a loop that is dropped, and one that runs out of events.
Got(j) == answers[j] \notin {<< >>, << "lost" >>}
Missed(j) == answers[j] = << "lost" >>
Excused(j) == at[j] = "silent" \/ gone \/ live = {}
JobsAnswered == \A j \in Job : kind[j] # "none" ~> Got(j) \/ Missed(j) \/ Excused(j)
=============================================================================
