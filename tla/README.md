# A TLA+ model of eveboros

[eveboros](../src) is an event loop library for Rust: one thread runs a `Loop`
that holds events and calls their callbacks when messages, timeouts, IO,
signals, child exits or idle time call for it. These modules model the loop's
own logic from `src/src/*.rs` and the two example programs built on it, check them
with TLC on small instances and prove the central properties with TLAPS for
instances of any size.

## The system

| part | state it keeps | operations | what makes it correct |
|---|---|---|---|
| `Recycler` (`recycler.rs`) | slots, stack of free indexes | `store`, `release`, `valid`, `len`, indexing | it is a finite map; the free stack lists exactly the empty slots |
| `StolenCell` (`stolen_cell.rs`) | an event, a lock, its address | `steal`, `unsteal` | a called event stays where it is and is not entered twice |
| dispatching (`core.rs`: `run_one`, `event_call`, `event_kill`, `insert_exact`, `run*`, `stop`) | events with generations, the task queue, `active` | callbacks and whatever callbacks call, recursively | each event locked exactly while it is called; dead handles stay dead; waiting for oneself is refused |
| messages (`send`, `post`, `Channel`) | the queue, the channel of other threads | check the type, queue or call | only expected types reach an event |
| idle (`idle`, `want_idle`) | an ordered set of handles | register, one at a time when nothing else is there | only living events wait, each once |
| timeouts (`timeout_at`, `timeout_min`, `timers_cleanup`, `tasks_gather_timers`) | a heap, three counters, a count in each event | register, prune, gather, fire | counters exact, garbage bounded, nothing lost, everything due fires |
| IO (`io_register_any`, `io_remove`, `ios_released`) | a `Recycler` of owners, indexes to release, IOs of each event, registrations in the poll | register, remove, delayed release, readiness | the tables agree; readiness never reaches another IO |
| signals (`signal_dispatch.rs`, `signal_enable`, `tasks_gather_io`) | per process: notifiers under a mutex; per loop: flags, a wakeup channel of one message | register, handler, scan | no lost wakeup, no deadlock, every signal heard |
| children (`child`, `children_gather`) | per loop: the event of each pid; per event: its pids | track, reap, report, clean up at death | tables agree; no zombie is forgotten; an exit reaches who asked for this process |
| background tasks (`background`, `background_iter`, `BackgroundWrapper`) | the pool, its queue, a flag in each task, the channel to the loop | submit, run, panic, send, resize the pool, deliver | one answer for each job, after its values in order |
| adapters (`adapt.rs`) | none | `combined!` picks the variant of an event; the rest forwards calls | a task reaches the variant it was for |
| `examples/echo.rs` | buffer and positions of each connection, its interest | accept, read, write, shut down | bytes come back once and in order; nobody starves |
| `examples/pargs.rs` | the command of each runner, unread lines, an error flag | start a command, await its exit, read the next | no more commands at a time than asked for; success means that all ran |
| errors, identifiers (`error.rs`, `lib.rs`) | none | conversions | not modelled: no state |

The parts meet in one place: every source of tasks appends to `scheduled`, and
`run_one` takes the first task, checks that its event is alive and calls it. A
callback runs in the middle of `event_call` and may call any operation of the
loop again. That recursion is the hard part of the loop's thread. The others are
what is checked at one time and used later (types of messages, indexes of IOs,
handles, pids), the delay between an event's death and the clean-up of its timeouts
and IOs, other threads that send messages, signal handlers that interrupt
anything, and processes that end before anybody waits for them. `PROJECT.json` lists each such hazard at its line, with the properties
that watch it.

## Modules

* `Recycler` - the storage as operators on a record `[data, free]`; it is used
  by all other modules that store something. Each assertion of the code is a
  predicate (`StoreAsserts`, `Valid`).
* `SlotMap` - what the comments of `recycler.rs` promise, as a state machine on
  a finite map.
* `RecyclerMachine` - a `Recycler` whose user does anything with any index; it
  implements `SlotMap`, the items of the map being those of the slots in use.
* `EventLoop` - events, handles, calls, nesting, messages and idle callbacks.
  The variable `stack` is the call stack of the loop's thread, a frame for each
  operation that is not finished: `call` (an `event_call` whose callback runs),
  `insert` (waits for `init`), `run_one`, `until` (`run_until_complete`), `run`,
  `until_empty`. User code acts when the stack is empty or a `call` is on top;
  otherwise the loop does its next step. `ret` is the result handed to the top
  frame; `"panic"` stands for a failed assertion. `run_one` and `post` end in a
  tail call of `event_call`, whose frame takes the place of theirs. The actions
  are named after the functions; `InsertExact`/`InsertDone`, `EventCall`/`Return`
  are the two halves of functions around a callback, and `GatherEmpty`, `Poll`,
  `Receive`, `ReceiveDone`, `GatherIdle` are the steps of `tasks_gather` between
  which another thread may send something.
* `Timers` - the heap and counters of timeouts with real time (`clock`), the
  cached time (`now`), deaths, nesting and `EINTR`. An event is a number that is
  never used again, which `EventLoop` shows handles to be; the call stack is
  just the sequence of called events, since a finished `run_one` leaves nothing
  behind. Every task that is not a timeout is alike.
* `IoTable` - the table of IO indexes, with the same abstractions. A history
  field `about` of a task remembers which IO was ready, and `removed` the indexes that
  `io_remove` was used on: its early release (below) spoils those and, as the run
  shows, only those.
* `SignalDispatch` - threads with a loop each, the mutex, masks, handlers on the
  stack of any thread that does not block their signal, flags and wakeups.
  `owed` is history: the signals a loop must still hear of.
* `Children` - pids, SIGCHLD, `waitpid(-1)` and the recipients of signals. The
  kernel is part of it: a process runs, is a zombie, is reaped (by this loop or by
  anything else in the program), and its pid may then be given to another one,
  which the code cannot tell apart and the model can. The way of a signal to the
  flag of the loop is a single step, `Deliver`, since `SignalDispatch` is about
  that. The scan of the flags and the loop around `waitpid` are steps of their own
  (`Scan`, `Reap`, `ReapDone`, `ScanDone`), as processes end between them. History:
  `asker`, `heard` (processes that ended when SIGCHLD was enabled), `missed` (reaped
  by others while tracked, or tracked when already reaped) and `settled`.
* `Pargs` - `examples/pargs.rs` as one of the programs `Children` is about: each of
  its steps is a step of `Children` with a condition on its own state. The other
  value of `program`, `"any"`, is every program at once, so that one run serves both.
* `EventCalls` - what the documentation in `core.rs` promises to the user of a loop:
  events that are inserted once, get callbacks one at a time and are gone for good;
  messages that are handed over in the order they were accepted, or lost if the event is
  gone or busy; one idle callback for a wish, when nothing else waits. No slots, locks,
  generations or functions on the stack. `EventLoop` implements it (`IsAsPromised`):
  handles are the events, the callbacks of the stack the ones that run.
* `ResultStreams` - what the documentation of `background` and `background_iter`
  promises of the results, as a state machine without loops or threads. Of loops it
  knows which events are `free`, that is, alive with no callback running: when its
  turn comes, a result reaches such an event, and is lost for any other.
* `Background` - tasks from `submit` through a pool of threads and the channel to
  the callback. Each thread's task has its place (`at`): in the queue, in its
  function, in its iterator, with its result sent, leaving the scope in which
  `BackgroundWrapper` is dropped, or over. Between any two of these the loop moves
  on, an event dies or the loop is dropped. A result that `run_one` takes from the queue
  is dispatched, skipped as its event is dead (`Skip`), or dropped as `event_call` says
  `Busy` (`Busy`). History: `given`, the numbers of the values of each job that
  callbacks got, and `answers`, the other results of it; a lost result leaves `NoValue`
  or `"lost"` in its place. They are the state of `ResultStreams`, which `Background`
  implements with `requestor` as the asker and `Callable` as the free events.
* `Echo` - `examples/echo.rs` with its peers: the accepting loop of the listener, the
  buffers with real bytes and positions, partial writes, the error handler that
  drops a connection, and `Shutdown`. `Drop` is the end of a connection that its peer
  ended or reset. `Fail` is that by an error of the server's own calls, of the read, the
  write, or of `io_update` after either, and `AcceptDropped` that of one whose `init`
  fails; both leave the peer `"failed"`, and bytes may be gone. The three signals are
  one flag.
* `RecyclerProofs`, `EventLoopProofs`, `TimersProofs`, `IoProofs`, `SignalProofs`,
  `ChildrenProofs` (also of `Pargs`), `BackgroundProofs`, `EchoProofs` - lemmas and
  proofs.

Definitions whose name has a suffix (`Kill_KeepsIdle`, `IsBusy_Never`, ...) are
deliberate mistakes next to the definition they are variants of. They are not
part of any specification: a property is listed with one that breaks it, so that
it is known to say something about the code.

## Runs

Every run is one configuration of one module; TLC explores it completely.

| run | shows | bounds |
|---|---|---|
| `storage` | `Recycler` refines `SlotMap`; free stack and slots agree; no growth while a slot is free | 4 slots, 2 items: a freed slot is reused below, between and above others |
| `nesting` | events locked exactly while called (`StolenIffCalled`), one deadlock check is enough (`WaitNeverOnSelf`), only living events wait to be idle, nested loops never report `Empty`, a run ends only by a stop during it | 3 events ever, 6 frames, first allocation of 1 so that the vector grows and moves: enough for two nested waits, for `run_until_empty` in a callback, and for a slot to get a second event while a third is called |
| `messages` | only expected messages (`OnlyExpected`); refines `EventCalls` | 2 events ever, so that the second may take the slot of the first while messages for that wait; 4 frames, 2 messages queued or in the channel, so that their order matters |
| `timers` | counters exact, garbage bounded, a timeout lost only to `Busy`, due timeouts leave (liveness) | 2 events, 3 timeouts, 3 instants, 2 nested callbacks, 1 other task, pruning from 2 dead timeouts (`DeadLimit`, `DeadRatio` are 1 and 1 for the code's 5 and 3, so that pruning happens) |
| `io_delayed` | tables agree and no stale readiness, for every index that `io_remove` was never used on; the poll watches just the IOs of living events | 3 events, 3 IOs, 2 nested callbacks: an index changes its owner twice |
| `signals` | no lost wakeup, no lost notifier, every signal heard (liveness, and with it no deadlock for one signal) | 2 threads, 1 signal, 3 raised: a second one during the first handler, and one during the scan |
| `children` | for any program: tables agree, an exit goes to who asked for this process, no zombie is forgotten, exits are reported (liveness); for pargs: each runner has its command, success means all done, it ends | 2 processes, 2 pids in any assignment (so also one pid twice), the signal SIGCHLD, 2 events, 2 nested callbacks; for pargs 0 to 2 jobs and lines |
| `background` | refines `ResultStreams`, so a result is lost only if its event is dead or busy when its turn comes; the answer of each job is handed over or lost so, unless its iterator panicked or the loop is dropped or runs empty (liveness) | 2 jobs, 1 or 2 threads, 2 values of an iterator, 1 event, 2 nested callbacks: the callback runs the loop in itself, so results meet a busy event |
| `echo` | nothing lost, doubled or reordered, assertions hold, a closed connection was echoed whole unless it was reset or the server's own calls for it failed, no connection and no shutdown starves (liveness) | 2 connections at a time, which come again for ever, buffers of 2 bytes, 2 bytes a peer, 1 connection accepted in a call (128 in the code): a second connection waits for another call, a buffer is written in two parts |

One signal is enough in `signals` because with two the code can deadlock, as
`signal_nested` shows, and nothing live is left to say; the proofs of its safety
properties are for any number of signals.

Runs that find what the code's documentation or comments do not say
(`PROJECT.json`, `findings`):

| run | the code ... | ... and its text |
|---|---|---|
| `pointers` | an insertion from a callback can move the running event | `core.rs:1052`: that "just doesn't happen here" |
| `io_removed` | `io_remove` releases an index at once, and again before the next poll: the readiness of the removed IO reaches the next one | `core.rs:1598`: the index is held until the next gathering, so that it is not triggered by an old event |
| `signal_nested` | a handler can wait for its own thread | `signal_dispatch.rs:95`: signals are blocked while the mutex is held |

More disagreements of the code with its text were met on the way and have no run.
The models show them:

* `stop` clears one flag that all nested runs share, and `run` sets it when it
  starts. `core.rs:238` says that `stop` terminates the innermost run. In
  `EventLoop`, one `Stop` ends every run of the stack, unless a nested run starts
  before the outer one looks at the flag. What does hold is `UnstoppedRunsGoOn`.
* `channel` looks at no event, while `core.rs:42` says that the event is checked to
  be alive. `MakeChannel` has no such guard; the message is dropped when it arrives.
* `run_one` gathers nothing while the queue is not empty. An event that sends itself
  a message from every message callback keeps timeouts, IO and other threads waiting
  for ever, while `core.rs:410` says that the callback gets called.
  `DueTimeoutsLeave` states what is left of the promise: it is about loops in which
  sending ends.
* A timeout whose event is busy in a nested loop is taken from the queue, counted as
  fired and lost with `Err(Busy)`, against the same line. `LiveTimeoutsKept` says that
  this is the only way. Exits of children and results of background tasks are lost
  in this way too: `ExitsReported` counts such an exit as settled, and `ResultStreams`
  has the lost result, which `JobsAnswered` counts as missed.
* `timers_cleanup` prunes from three dead timeouts for a living one, while
  `core.rs:927` says from more dead ones than living ones. `GarbageBounded` states
  the bound that the code keeps.
* `io_update` is called last in `Connection::io` of the echo example, with a `?`: if it
  fails after a read or a part of a write, the connection is closed with bytes in its
  buffer, though its peer did nothing. `ClosedAfterEcho` and `EverythingEchoed` except
  such connections by name (`"failed"`).
* An iterator of `background_iter` that panics is not told of: it has no
  `BackgroundWrapper`. `core.rs:618` says that the sequence ends with `IterEnd`. In
  `Background` such a job is `"silent"`, and `JobsAnswered` leaves it out.
* `BackgroundWrapper::drop` labels its message with the type `Result<R>` although it
  also has that type inside, while results carry the label `R`. The loop does not look
  at the label of results, so only a callback that asks for `real_type` sees it.
* An error of `init` that the error handler swallows leaves `insert` with `Ok` and the
  handle of a dead event (`InsertDone`).
* An error of `accept` other than `WouldBlock` and `Interrupted`, such as an aborted
  connection, goes to the error handler of the echo example, which lets it through
  for the listener: the server ends (`AcceptFailed`).
* The pargs example enables SIGCHLD by its first call of `child`, after the first
  spawn, against the advice at `core.rs:497-501`. If every command it started is over by
  then, it waits for ever: the case `Stranded` of `PargsEnds`. With 0 jobs it reports
  success although it read no line.
* `lib.rs:77-80` says that a signal can be handled in one thread only, while
  `SignalDispatch` in the code tells every loop that enabled it, and `SignalsHeard`
  shows that it does. `waitpid(-1)` is what makes children a matter of one thread:
  what another loop reaps is in `missed`.

An error of the poll other than `EINTR`, which `run_one` returns, is a step of
`EventLoop` and `IoTable` (`PollFailed`), `Timers` (`Interrupted`), `Children` and
`Background` (`PollOther`), `Pargs` (`LoopFails`, which ends it) and `Echo`
(`PollFailed`, which ends the server). `SignalDispatch` leaves it out: there a poll that
ends without a wakeup changes nothing.

All bounds are constants named `Max...` and stand in guards. In `EventLoop`,
`MaxQueue` bounds the tasks that are queued by users and together with them the
messages of other threads; the loop's own idle task is not bounded. `FirstCap` is
the first capacity of a Rust vector, 4 for events of usual size and 1 for very
big ones.

Deadlock is checked only in `storage`. The others really may stop: the owner may stop
using the loop or drop it, the poll of a loop for which nothing ever happens blocks
for good, the examples end, and a bound ends each behaviour.

In `EventLoop` the error `User` stands for any error a callback returns, and the
error handler is any function: it lets the error through or swallows it.

## Fairness

In all modules: threads are scheduled, so the loop's own steps are taken; callbacks
return; and the owner calls `run_one` again when it is in control (`run` is such an
owner). Nothing is assumed of nested loops: a callback that runs the loop itself may
do so for ever. Strong fairness stands only where the kernel may interrupt something
any number of times, and is assumed not to do so for ever. Beyond that:

* `Timers` - time passes, and a poll whose timeout is over returns (strong: signals
  interrupt it).
* `SignalDispatch` - the kernel delivers a pending signal to some thread that does not
  block it. Weak fairness suffices for the mutex, since only finitely many handlers
  and registrations ask for it in a run.
* `Children` - signals are delivered, and a poll does not end each time with
  something else when there is a wakeup (strong). Nothing is assumed of processes: they may
  run for ever. `Pargs` adds that commands end.
* `Background` - a thread that got a job goes on with it, so functions and iterators
  end or panic, and the poll sees the channel at some time (strong).
* `Echo` - not every `accept`, `read` and `write` is interrupted or refused (strong):
  the peers read what they are sent. Peers need not send, end or connect. Calls may
  fail at any time, and always.

## Proofs

* `RecyclerProofs` - first the lemmas that others cite: what `Store`, `Release`, `Update`
  and `RecyclerLen` do to any storage for which `RecyclerOK` holds. Then
  `StorageStaysSound`: `StorageSpec` of `RecyclerMachine` keeps `StorageSound` (types, and the free stack lists exactly the empty slots).
  `RecyclerIsSlotMap`: it implements `SlotMap`, initial state to initial state, each
  operation to the one of the same name, a refused one to `Refuse`. The only assumption is `MaxSlots \in Nat`.
* `EventLoopProofs` - `TypeCorrect`, `StolenWhileCalled` and `HandlesStayDead`,
  from the inductive invariant

      IInv == TypeOK /\ RecyclerOK(events) /\ StolenIffCalled /\ GenerationsPast

  `StolenIffCalled` alone is not inductive. A new event must land in a slot that
  no called event is in (`RecyclerOK`: the free stack lists only empty slots),
  and its handle must not be that of a called event (`GenerationsPast`: all
  generations in slots and in handles are below the counter). There is a lemma
  for each action; those that touch no event rest on `NoEventStep`, calls on
  `StealStep`, returns on `LeaveStep` and insertions on `InsertStep`.
  `HandlesStayDead` follows from `OnlyFresh`: what is alive after a step was alive
  before or has the generation the counter had. The assumptions are those of
  `ConstantsOK`; TLC evaluates them in every run.

  Then come `OneCheckIsEnough` (`WaitNeverOnSelf`) and
  `RunsGoOnUntilStopped` (`UnstoppedRunsGoOn`). Their invariant is `NestingOK`, both
  properties together, beside `IInv`. `StackAgrees` describes nearly all steps at
  once: the new stack is the old one up to some frame, and harmless above, where a
  wait has not passed its check and a run stands only while the flag is set. Two
  steps are not of this shape. A waiting loop that passes its check rests on
  `StolenIffCalled`: were a callback of its event below, the event would be locked.
  And `stop`, which marks every run.

  Next are `OnlyTheLivingWait`, `OnlyExpectedArrives` and
  `NestedLoopsHaveEvents`. They rest on `StepsOnEvents`: a step keeps all events,
  their generations and what they expect (`EventsStay`), unless a callback's
  return removes its event (`EventGoes`), and its wish to be idle with it.
  `OnlyExpected` needs `TasksPast` to be inductive: a waiting message is for a
  generation below the counter, so that no event inserted later can get it.
  `NestedNeverEmpty` follows from `StolenIffCalled`, by which a called event
  is in the storage, and from `LenIsCount`.

  Last is the refinement `LoopIsAsPromised` (`Spec => IsAsPromised`). A step of the loop
  that no user sees keeps events, queue, waiters and calls (`Unseen`) and maps to
  stuttering; the others map as `...IsPromised` says: `InsertExact` to `Insert`, where
  `GenerationsPast` makes the handle new; `Return` to `Leave`; `Dispatch` to `HandOver`
  or `Lose`, where `StolenIffCalled` turns the lock of an event into a callback that
  runs (`CallEnters`); `Send` and `Receive` to `Accept` or, refused, to stuttering;
  `GatherIdle` to `Idle`, where `IdleWaitersAlive` makes a list of waiters the set of
  them. `NoResurrection` and `OnlyExpected` follow from `IsAsPromised` in principle, and
  have direct proofs.
* `TimersProofs` - all of `Timers` but liveness: `TimersTypeCorrect`,
  `CountersAreExact` (`StatsExact`), `GarbageStaysBounded` (`GarbageBounded`) and
  `OnlyBusyLosesTimeouts` (`LiveTimeoutsKept`). The invariant is

      IInv == Typed /\ Book /\ StatsExact

  where `Typed` leaves out of `TypeOK` that the counters of dead timeouts and of each event
  are natural: a subtraction keeps them so only because they are exact. The
  counters are compared with the sets of ids they count (`IdsIn`), wherever a timeout
  waits; `Book` says that an id is in use once and below the counter of ids (so a
  cardinality changes by one exactly), that the heap is finite, and that called events
  live. `GarbageBounded` follows from `StatsExact` and the comparison in
  `timers_cleanup`; `LiveTimeoutsKept` from the exact count of each event.
* `ChildrenProofs` - all safety properties of `Children`, from three invariants, each
  resting on the one before:

      Sound   == TypeOK /\ TablesAgree /\ StackLives /\ HeardEnded
      Current == PidsDistinct /\ EntriesCurrent
      Right   == SettledReaped /\ ReportsAreRight

  `TablesAgree` needs that called events live (`StackLives`), for it is them who track.
  `NoSleepingZombie` is inductive with `Sound`: what it says of the loop's steps depends
  on `HeardEnded`, by which no process that runs is counted as one SIGCHLD told of.
  `EntriesCurrent` needs that processes not yet reaped have different pids, which the
  kernel sees to (`PidsDistinct`): then the process reaped is the one the table was
  about. `ReportsAreRight` needs that a settled process was reaped, so that it is not
  reported again. `ProgramsAreServed` carries all of it to pargs through
  `PargsIsAProgram`, by which each step of `Pargs` is one of `Children`. The
  assumptions are `ChildrenConstants` and, for pargs, `PargsConstants`; `Children` itself
  needs no finite sets.

  For `Pargs` there are also `PargsTypeCorrect`, `RunnersHaveOneCommand` (`RunnersBusy`)
  and `SuccessIsDone` (`SuccessMeansDone`), from `Working` beside the three invariants
  above. `Working` says that one callback runs at a time (`Depths`), that only exits are
  queued and nobody else reaps (`Quiet`), that at most one process is started and not yet
  tracked (`FreshOne`), that each Runner but the one being called has exactly one child
  it was not told of (`Single`, `Holders`), that such a child's Runner lives (`DeadDone`),
  and that a Runner dies only when no lines are left or something failed (`Quit`). That the exit
  dispatched is the one this Runner waits for is `ReportsAreRight`; that `child` does not
  panic is `EntriesCurrent`. The number of commands is bounded by mapping each to its
  Runner, one to one.
* `SignalProofs` - `WakeupsAreKept` (`NoLostWakeup`) and `LoopsStayRegistered`
  (`EveryLoopRegistered`) for any numbers of threads and signals. The first rests on
  the types alone. The second needs the whole protocol of the mutex, `Book`: one
  holder at a time (`Exclusive`), handlers that wait have nothing in hand (`Fresh`),
  who is about to register is not in the table yet (`Asking`), the table lists just
  the loops that enabled the signal, each once (`Listed`), and what a handler took out
  is split between what it has yet to wake, what it keeps and who is gone (`Taken`).
  `SignalTypeCorrect` (`TypeOK`) bounds the lists: a notifier is in the table or in one
  list of a handler (`Single`), and a handler blocks its own signal (`StackApart`), so
  neither is longer than there are threads or signals, which are finitely many
  (`SignalConstants`).

* `IoProofs` - `IoTablesAgree` (`TablesAgree`) and `ReadinessIsCurrent`
  (`StaleOnlyIfRemoved`). `Parts` says what `TablesAgree` does, one index at a time. It
  needs `Sound`: called events live (`StackLives`), and no two entries are for one IO
  (`IosDistinct`), or deregistering one would take the other's registration from the
  poll. `RecyclerProofs` tells what `Store` and `Release` do to the table. For the second
  theorem a waiting task must be for an event inserted before (`TasksPast`), and a new
  IO gets a free index, which by `TablesAgree` no living event has. `IoTypeCorrect`
  (`TypeOK`) adds the size of the table (`Sizes`): its slots are never more than the IOs
  ever made, as an index that is free is taken before a new slot.
* `BackgroundProofs` - `BackgroundTypeCorrect` and the refinement `ResultsAreStreams`:
  `Spec => IsResultStreams`, initial state to initial state, `Submit` to `Submit`, the
  dispatch of a result to an `Item` or `Answer` that reaches its event, the skipping and
  the refusal (`Busy`) of one to those that miss it, insertions, returns and other calls to
  `Events`, all else to stuttering. What makes a result fit when it is handed over was decided by another thread long before.
  The invariant therefore describes all that is under way: within the queue and the channel
  together, the values of a job come in order and before its answer (`Lines`); each result
  there is still to be told (`Letters`); each value given whose turn has not come is there
  while the loop lives (`Handed`), so that none is skipped; each result is on its way to
  the event that asked for it (`Addressed`), so that it is lost only for the reasons of
  that event; and an answer is sent
  once (`Life`, which follows the thread, the panics and the flag `complete` of
  `BackgroundWrapper`). Jobs, threads, values, events and frames are any number.

* `EchoProofs` - all safety properties of `Echo`: `EchoTypeCorrect` (`TypeOK`),
  `AssertionsHold` (`TasksFit`), `EchoLosesNothing` (`NothingLost`) and `ClosesAfterAll`
  (`ClosedAfterEcho`). The invariant is

      IInv == TypeOK /\ Kept /\ Queued /\ Fits

  `Kept` says of each connection what its buffer is (`Buffered`: to be filled when empty,
  to be written else, with the interest to match) and where each byte is (`InOrder`: the
  positions of the echoed bytes, of those in the buffer and of those not yet read follow
  each other). It is stated byte by byte because `NothingLost` compares
  concatenations, which the provers cannot take apart; `KnownIsNumbers` leads from one
  to the other. `Queued` says that the backlog lists just the connections that wait to be
  accepted, each once, which an `accept` needs to make a new one. `Fits` says that each
  event has at most one task, with the readiness it waits for: a connection
  changes what it waits for only in its own task, so what the poll saw still holds when the task is dispatched, however
  late. A poll can put its tasks in a sequence only while finitely many connections are
  open, which `Fits` keeps, so that `Conn` may be infinite.

  `NoOwedConnectionSleeps` is what `EverythingEchoed` asks of safety: a connection that
  still has bytes to get back is ripe for what it waits for. No run checks it by itself,
  as `EverythingEchoed` fails where it does.

So every invariant and every action property that a passing run checks, and the three
refinements, are proved for any constants that fulfil the assumptions.
`NoResurrection` is proved and left out of the runs, which check the stronger
`IsAsPromised`. Only model-checked is liveness (`DueTimeoutsLeave`, `SignalsHeard`,
`ExitsReported`, `PargsEnds`, `JobsAnswered`, `EverythingEchoed`, `SignalStops`), which is
out of the provers' reach, as it rests on fairness.

The assumptions are those in the modules, and TLC evaluates them in every run: bounds are
natural numbers, those of buffers and loops positive; a pool has room for a thread;
threads, signals of `SignalDispatch` and the processes of `Pargs` are finitely many; ids
are numbers; the handles of the echo server's listener and shutdown are not connections.

## Not modelled

* `error.rs`, the identifiers in `lib.rs`, `dyn_event` and `DynScope` in `adapt.rs`:
  plain data and calls passed on, without state or decisions.
* `context`, `now` as seen by users, `with_io`, `io_mut`, `io_update`: they change no
  state of the loop; `io_update` changes an interest in the poll.
* `Error::LoopGone`: it tells a sender that the loop is gone; `Background` has the
  dropped loop and the message that is lost with it.
* The inside of the thread pool: a crate of its own, modelled as the code uses it.
* In `Echo`, readiness that is neither to read nor to write, only an error or a hangup,
  for which `Connection::io` has `unreachable!()` (`echo.rs:122-124`) and would panic: the
  poll of the model reports a connection with just the readiness it waits for. That handlers
  of two signals may block each other is in `SignalDispatch` only.
* A callback that itself returns `Err(Error::Empty)` or another error of the loop: the
  error of a callback is `User` in `EventLoop`.
* The contents of messages and results; generations that wrap after 2^64 insertions;
  the memory allocation inside the signal handler.
* `tests/signal-handling.rs`, which was read for how the library is used.

## Plan

Done: all modules above, their runs and proofs; no safety property is left to prove.

`Timers` and `IoTable` have no refinement of `EventCalls`, and are not meant to: one poll
queues the tasks of several timeouts or IOs at once, those of dead timeouts among
them, while `EventCalls` accepts one letter at a time and only for the living. What a user
is promised of them is said by `LiveTimeoutsKept` and `StaleOnlyIfRemoved`.

A change of the code is followed by a change of the definitions that "map" in
`PROJECT.json` names for its lines, then by the runs, then by the proofs.
