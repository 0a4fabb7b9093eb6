----------------------------- MODULE EventLoop -----------------------------
(***************************************************************************)
(* The dispatching core of src/core.rs: the storage of events and their    *)
(* handles, the callbacks, and the recursive loop.  A callback may call    *)
(* back into the loop (insert, post, run_one, run, run_until_complete), so *)
(* the state holds the call stack of the loop's thread.  User code runs    *)
(* when the stack is empty (the owner of the loop) or when its top is a    *)
(* callback; it may call any operation of the loop or, in a callback,      *)
(* return.  Everything the loop does between two pieces of user code is    *)
(* deterministic except for the outside world.                             *)
(*                                                                         *)
(* Two sources of tasks are modelled here, messages (send, post, and       *)
(* channels used by other threads) and idle callbacks.  The other sources  *)
(* (timeouts, IO, signals, children) put the same kind of task into the    *)
(* same queue and have modules of their own.                               *)
(***************************************************************************)
EXTENDS Recycler

CONSTANTS
  MsgType,        (* the types (TypeId) of messages                        *)
  Ops,            (* the operations the user code of this instance uses    *)
  FirstCap,       (* capacity of the first allocation of a Vec (external)  *)
  MaxGeneration,  (* bound: number of events ever inserted                 *)
  MaxDepth,       (* bound: frames on the call stack                       *)
  MaxQueue        (* bound: tasks in the queue and messages in the channel *)

\* Names of user operations, the members of Ops.
AllOps == {"insert", "send", "post", "run_one", "run_until_complete", "run",
           "run_until_empty", "stop", "channel", "idle", "expect_message", "error"}

ASSUME ConstantsOK ==
    /\ "init" \notin MsgType /\ "idle" \notin MsgType
    /\ Ops \subseteq AllOps
    /\ FirstCap \in Nat \ {0}
    /\ MaxGeneration \in Nat /\ MaxDepth \in Nat /\ MaxQueue \in Nat

VARIABLES
  events,      (* Recycler of holders                                      *)
  buffer,      (* the allocation behind events.data: capacity and address  *)
  generation,  (* the next generation to give out                          *)
  issued,      (* the handles user code may know                           *)
  scheduled,   (* tasks ready to be dispatched                             *)
  want_idle,   (* handles that asked for an idle callback, oldest first    *)
  channels,    (* recipients of the Channels handed to other threads       *)
  inbox,       (* messages other threads sent, not yet received            *)
  active,      (* cleared by stop                                          *)
  stack,       (* call stack of the loop's thread, the top is last         *)
  ret          (* the result handed to the top of the stack, or "none"     *)

vars == << events, buffer, generation, issued, scheduled, want_idle, channels,
           inbox, active, stack, ret >>
storage == << events, buffer, generation, issued >>
queues == << scheduled, want_idle, channels, inbox >>

Handle == [id : Nat, gen : Nat]
\* EvHolder: the cell's lock, the generation and the accepted message types.
Holder == [gen : Nat, stolen : BOOLEAN, expects : SUBSET MsgType]
Task == [to : Handle, what : MsgType \cup {"idle"}]
Letter == [to : Handle, what : MsgType]

\* "none": nothing to hand over; "panic": an assertion of the code failed.
Errors == {"Missing", "MsgUnexpected", "Busy", "DeadLock", "Empty", "Io", "User"}
Result == Errors \cup {"none", "Ok", "panic"}

\* Frames.  A call frame is an event_call in whose callback the user code is;
\* ptr is the address the event was stolen at.  run_one and post end in a tail
\* call of event_call, whose frame replaces theirs.
CallFrame == [fn : {"call"}, h : Handle, what : MsgType \cup {"idle", "init"}, ptr : Nat]
InsertFrame == [fn : {"insert"}, h : Handle]
RunOneFrame == [fn : {"run_one"}, at : {"dispatch", "channel", "idle"}]
UntilFrame == [fn : {"until"}, h : Handle, checked : BOOLEAN]
\* stopped is history: stop was called since this run began.
RunFrame == [fn : {"run"}, stopped : BOOLEAN]
EmptyFrame == [fn : {"until_empty"}]
Frame == CallFrame \cup InsertFrame \cup RunOneFrame \cup UntilFrame \cup RunFrame
             \cup EmptyFrame

TypeOK ==
    /\ events \in RecyclerOf(Holder)
    /\ buffer \in [cap : Nat, addr : Nat]
    /\ generation \in Nat
    /\ issued \subseteq Handle
    /\ scheduled \in Seq(Task)
    /\ want_idle \in Seq(Handle)
    /\ channels \subseteq Handle
    /\ inbox \in Seq(Letter)
    /\ active \in BOOLEAN
    /\ stack \in Seq(Frame)
    /\ ret \in Result

Init ==
    /\ events = EmptyRecycler
    /\ buffer = [cap |-> 0, addr |-> 0]
    /\ generation = 0
    /\ issued = {}
    /\ scheduled = << >> /\ want_idle = << >>
    /\ channels = {} /\ inbox = << >>
    /\ active = FALSE
    /\ stack = << >>
    /\ ret = "none"

-----------------------------------------------------------------------------
(* The stack.                                                              *)

Top == stack[Len(stack)]
Push(f) == Append(stack, f)
Pop == SubSeq(stack, 1, Len(stack) - 1)
ReplaceTop(f) == [stack EXCEPT ![Len(stack)] = f]
TopIs(fn) == stack # << >> /\ Top.fn = fn
IsCall(i) == stack[i].fn = "call"

\* User code runs: the owner of the loop, or the callback on the top.
UserRuns == ret # "panic" /\ (stack = << >> \/ TopIs("call"))
InCallback == UserRuns /\ TopIs("call")
MayCall(op) == UserRuns /\ op \in Ops /\ Len(stack) < MaxDepth

-----------------------------------------------------------------------------
(* Events.                                                                 *)

\* event_alive
Alive(h) == Valid(events, h.id) /\ At(events, h.id).gen = h.gen
Stolen(h) == At(events, h.id).stolen
Called(h, what) == [fn |-> "call", h |-> h, what |-> what, ptr |-> buffer.addr]

\* StolenCell::steal and unsteal
SetStolen(h, b) == Update(events, h.id, [At(events, h.id) EXCEPT !.stolen = b])

\* The test of event_call that refuses an event which is being called.
IsBusy_Never(h) == FALSE
IsBusy(h) == Stolen(h)

\* event_call, up to the callback: refuse a missing or busy event, else steal
\* it and run its callback.  stk is the stack the result or the call goes on.
EventCall(h, what, stk) ==
    \/ /\ ~Alive(h)
       /\ ret' = "Missing" /\ stack' = stk /\ UNCHANGED events
    \/ /\ Alive(h) /\ IsBusy(h)
       /\ ret' = "Busy" /\ stack' = stk /\ UNCHANGED events
    \/ /\ Alive(h) /\ ~IsBusy(h)
       /\ events' = SetStolen(h, TRUE)
       /\ stack' = Append(stk, Called(h, what))
       /\ ret' = "none"

\* LinkedHashMap::remove
RemoveKey(s, h) ==
    IF \E k \in 1 .. Len(s) : s[k] = h
    THEN LET k == CHOOSE k \in 1 .. Len(s) : s[k] = h
         IN  [i \in 1 .. Len(s) - 1 |-> IF i < k THEN s[i] ELSE s[i + 1]]
    ELSE s

\* event_kill
Kill_KeepsIdle(h) ==
    /\ events' = Release(events, h.id)
    /\ UNCHANGED want_idle
Kill(h) ==
    /\ events' = Release(events, h.id)
    /\ want_idle' = RemoveKey(want_idle, h)

\* event_call, from the callback's return on: unsteal asserts that the event is
\* where it was stolen; Ok(true) keeps the event, Ok(false) kills it, and on an
\* error the handler decides what is propagated.
Return(resp) ==
    /\ InCallback
    /\ resp = "err" => "error" \in Ops
    /\ UNCHANGED << buffer, generation, issued, scheduled, channels, inbox, active >>
    /\ \/ /\ Top.ptr # buffer.addr
          /\ ret' = "panic"
          /\ UNCHANGED << events, want_idle, stack >>
       \/ /\ Top.ptr = buffer.addr
          /\ stack' = Pop
          /\ \/ /\ resp = "true"
                /\ events' = SetStolen(Top.h, FALSE)
                /\ ret' = "Ok"
                /\ UNCHANGED want_idle
             \/ resp = "false" /\ Kill(Top.h) /\ ret' = "Ok"
             \/ resp = "err" /\ Kill(Top.h) /\ ret' \in {"Ok", "User"}

\* Vec::push (external): a full buffer is reallocated, possibly elsewhere.
\* The set of buffers that may result from storing one more event.
GrownBuffers ==
    IF events.free = << >> /\ Len(events.data) = buffer.cap
    THEN [cap : {IF buffer.cap = 0 THEN FirstCap ELSE 2 * buffer.cap},
          addr : {buffer.addr, buffer.addr + 1}]
    ELSE {buffer}

\* The generation counter after an insertion.
NextGeneration_Same == generation
NextGeneration_Down == generation - 1
NextGeneration == generation + 1

\* insert_exact: store a holder of a new generation and call init on it.
InsertExact ==
    /\ MayCall("insert") /\ Len(stack) + 1 < MaxDepth
    /\ generation < MaxGeneration
    /\ LET h == [id |-> StoreIdx(events), gen |-> generation]
           holder == [gen |-> generation, stolen |-> TRUE, expects |-> {}]
       IN  \E b \in GrownBuffers :
             /\ buffer' = b
             /\ events' = Store(events, holder)
             /\ generation' = NextGeneration
             /\ issued' = issued \cup {h}
             /\ stack' = stack \o << [fn |-> "insert", h |-> h],
                                     [fn |-> "call", h |-> h, what |-> "init",
                                      ptr |-> b.addr] >>
    /\ ret' = "none"
    /\ UNCHANGED << queues, active >>

\* insert_exact, after init: event_call's error is propagated, else the handle.
InsertDone ==
    /\ TopIs("insert") /\ ret # "panic"
    /\ stack' = Pop
    /\ UNCHANGED << storage, queues, active, ret >>

-----------------------------------------------------------------------------
(* Messages.                                                               *)

\* msg_type_check
MsgTypeCheck(h, tp) ==
    IF ~Alive(h) THEN "Missing"
    ELSE IF tp \notin At(events, h.id).expects THEN "MsgUnexpected" ELSE "Ok"

\* send_impl_sender
Send(h, tp) ==
    /\ UserRuns /\ "send" \in Ops
    /\ Len(scheduled) < MaxQueue
    /\ ret' = MsgTypeCheck(h, tp)
    /\ scheduled' = IF ret' = "Ok" THEN Append(scheduled, [to |-> h, what |-> tp])
                                   ELSE scheduled
    /\ UNCHANGED << storage, want_idle, channels, inbox, active, stack >>

\* post_impl_sender
Post(h, tp) ==
    /\ MayCall("post")
    /\ \/ /\ MsgTypeCheck(h, tp) # "Ok"
          /\ ret' = MsgTypeCheck(h, tp)
          /\ UNCHANGED << events, stack >>
       \/ MsgTypeCheck(h, tp) = "Ok" /\ EventCall(h, tp, stack)
    /\ UNCHANGED << buffer, generation, issued, queues, active >>

\* LoopScope::expect_message
AddExpected(h, tp) ==
    Update(events, h.id, [At(events, h.id) EXCEPT !.expects = @ \cup {tp}])
ExpectMessage(tp) ==
    /\ InCallback /\ "expect_message" \in Ops
    /\ events' = AddExpected(Top.h, tp)
    /\ ret' = "none"
    /\ UNCHANGED << buffer, generation, issued, queues, active, stack >>

\* Loop::channel, and the handing of the channel to another thread
MakeChannel(h) ==
    /\ UserRuns /\ "channel" \in Ops
    /\ channels' = channels \cup {h}
    /\ ret' = "Ok"
    /\ UNCHANGED << storage, scheduled, want_idle, inbox, active, stack >>

\* Channel::send, in another thread, at any moment
ChannelSend(h, tp) ==
    /\ h \in channels
    /\ Len(inbox) + Len(scheduled) < MaxQueue
    /\ inbox' = Append(inbox, [to |-> h, what |-> tp])
    /\ UNCHANGED << storage, scheduled, want_idle, channels, active, stack, ret >>

\* LoopScope::idle: LinkedHashMap::insert moves a key that is there to the back.
WantIdle ==
    /\ InCallback /\ "idle" \in Ops
    /\ want_idle' = Append(RemoveKey(want_idle, Top.h), Top.h)
    /\ ret' = "none"
    /\ UNCHANGED << storage, scheduled, channels, inbox, active, stack >>

-----------------------------------------------------------------------------
(* run_one.  The frame's at says how far run_one is: about to dispatch a   *)
(* task, or inside tasks_gather after the poll.                            *)

RunOneAt(at) == TopIs("run_one") /\ Top.at = at /\ ret # "panic"
GoTo(at) == stack' = ReplaceTop([fn |-> "run_one", at |-> at])

RunOne ==
    /\ MayCall("run_one")
    /\ stack' = Push([fn |-> "run_one", at |-> "dispatch"])
    /\ ret' = "none"
    /\ UNCHANGED << storage, queues, active >>

\* The test for a loop without events
NoEvents_AllCalled == \A id \in Used(events) : At(events, id).stolen
NoEvents == IsEmpty(events)

\* tasks_gather on a loop without events
GatherEmpty ==
    /\ RunOneAt("dispatch") /\ scheduled = << >> /\ NoEvents
    /\ stack' = Pop /\ ret' = "Empty"
    /\ UNCHANGED << storage, queues, active >>

\* tasks_gather up to the poll, which blocks until there is something to do: it
\* reports the channel if that is readable, and returns at once for idle tasks.
Poll ==
    /\ RunOneAt("dispatch") /\ scheduled = << >> /\ ~NoEvents
    /\ inbox # << >> \/ want_idle # << >>
    /\ GoTo(IF inbox # << >> THEN "channel" ELSE "idle")
    /\ UNCHANGED << storage, queues, active, ret >>

\* An error of the poll other than EINTR, after which nothing is changed
PollFailed ==
    /\ RunOneAt("dispatch") /\ scheduled = << >> /\ ~NoEvents
    /\ stack' = Pop /\ ret' = "Io"
    /\ UNCHANGED << storage, queues, active >>

\* The check of a message from another thread, made when it is received.
Accepts_AnyType(letter) == Alive(letter.to)
Accepts(letter) == MsgTypeCheck(letter.to, letter.what) = "Ok"

\* tasks_gather_io, the CHANNEL_TOK arm, one message of its loop: the type is
\* checked here, and a message that does not pass is dropped.
Receive ==
    /\ RunOneAt("channel") /\ inbox # << >>
    /\ inbox' = Tail(inbox)
    /\ scheduled' = IF Accepts(Head(inbox))
                    THEN Append(scheduled, Head(inbox)) ELSE scheduled
    /\ UNCHANGED << storage, want_idle, channels, active, stack, ret >>

ReceiveDone ==
    /\ RunOneAt("channel") /\ inbox = << >>
    /\ GoTo("idle")
    /\ UNCHANGED << storage, queues, active, ret >>

\* The end of tasks_gather: one idle task, if there is nothing else.
GatherIdle ==
    /\ RunOneAt("idle")
    /\ IF scheduled = << >> /\ want_idle # << >>
       THEN /\ scheduled' = << [to |-> Head(want_idle), what |-> "idle"] >>
            /\ want_idle' = Tail(want_idle)
       ELSE UNCHANGED << scheduled, want_idle >>
    /\ GoTo("dispatch")
    /\ UNCHANGED << storage, channels, inbox, active, ret >>

\* run_one pops a task: one for a dead event is skipped, one for a living event
\* is called, which ends run_one.
Dispatch ==
    /\ RunOneAt("dispatch") /\ scheduled # << >>
    /\ scheduled' = Tail(scheduled)
    /\ LET task == Head(scheduled)
       IN  \/ ~Alive(task.to) /\ UNCHANGED << events, stack, ret >>
           \/ Alive(task.to) /\ EventCall(task.to, task.what, Pop)
    /\ UNCHANGED << buffer, generation, issued, want_idle, channels, inbox, active >>

-----------------------------------------------------------------------------
(* The loops around run_one.                                               *)

\* What a loop does with the result of its last run_one (the ? operator).
Propagate(fn) ==
    /\ TopIs(fn) /\ ret \in Errors
    /\ stack' = Pop
    /\ UNCHANGED << storage, queues, active, ret >>
Continues(fn) == TopIs(fn) /\ ret \in {"none", "Ok"}
CallRunOne(stk) == /\ stack' = Append(stk, [fn |-> "run_one", at |-> "dispatch"])
                   /\ ret' = "none"

RunUntilComplete(h) ==
    /\ MayCall("run_until_complete")
    /\ stack' = Push([fn |-> "until", h |-> h, checked |-> FALSE])
    /\ ret' = "none"
    /\ UNCHANGED << storage, queues, active >>

\* The deadlock check of run_until_complete, on the first iteration only.
WouldDeadLock_Never(f) == FALSE
WouldDeadLock(f) == ~f.checked /\ Stolen(f.h)

\* One turn of run_until_complete's while loop.
UntilTurn ==
    /\ Continues("until")
    /\ \/ ~Alive(Top.h) /\ stack' = Pop /\ ret' = "Ok"
       \/ /\ Alive(Top.h) /\ WouldDeadLock(Top)
          /\ stack' = Pop /\ ret' = "DeadLock"
       \/ /\ Alive(Top.h) /\ ~WouldDeadLock(Top)
          /\ Len(stack) < MaxDepth
          /\ CallRunOne(ReplaceTop([Top EXCEPT !.checked = TRUE]))
    /\ UNCHANGED << storage, queues, active >>

RunBody_KeepsFlag(stk) ==
    /\ stack' = Append(stk, [fn |-> "run", stopped |-> FALSE])
    /\ ret' = "none"
    /\ UNCHANGED << storage, queues, active >>
RunBody(stk) ==
    /\ active' = TRUE
    /\ stack' = Append(stk, [fn |-> "run", stopped |-> FALSE])
    /\ ret' = "none"
    /\ UNCHANGED << storage, queues >>

Run == MayCall("run") /\ RunBody(stack)

\* One turn of run's while loop.
RunTurn ==
    /\ Continues("run")
    /\ \/ active /\ Len(stack) < MaxDepth /\ CallRunOne(stack)
       \/ ~active /\ stack' = Pop /\ ret' = "Ok"
    /\ UNCHANGED << storage, queues, active >>

\* run_until_empty: run, with Err(Empty) turned into Ok.
RunUntilEmpty ==
    /\ MayCall("run_until_empty")
    /\ RunBody(Push([fn |-> "until_empty"]))

RunUntilEmptyDone ==
    /\ TopIs("until_empty") /\ ret # "panic"
    /\ stack' = Pop
    /\ ret' = IF ret = "Empty" THEN "Ok" ELSE ret
    /\ UNCHANGED << storage, queues, active >>

\* stop.  The runs of the stack note it (history only).
RunFrames == {i \in 1 .. Len(stack) : stack[i].fn = "run"}
Stop ==
    /\ UserRuns /\ "stop" \in Ops
    /\ active' = FALSE
    /\ stack' = [i \in 1 .. Len(stack) |->
                   IF i \in RunFrames THEN [fn |-> "run", stopped |-> TRUE] ELSE stack[i]]
    /\ ret' = "none"
    /\ UNCHANGED << storage, queues >>

-----------------------------------------------------------------------------
UserCode ==
    \/ InsertExact
    \/ RunOne \/ Run \/ RunUntilEmpty \/ Stop
    \/ WantIdle
    \/ \E tp \in MsgType : ExpectMessage(tp)
    \/ \E h \in issued : RunUntilComplete(h) \/ MakeChannel(h)
    \/ \E h \in issued, tp \in MsgType : Send(h, tp) \/ Post(h, tp)
    \/ \E resp \in {"true", "false", "err"} : Return(resp)

LoopCode ==
    \/ InsertDone
    \/ GatherEmpty \/ Poll \/ PollFailed \/ Receive \/ ReceiveDone \/ GatherIdle \/ Dispatch
    \/ UntilTurn \/ RunTurn \/ RunUntilEmptyDone
    \/ Propagate("until") \/ Propagate("run")

OtherThreads == \E h \in channels, tp \in MsgType : ChannelSend(h, tp)

Next == UserCode \/ LoopCode \/ OtherThreads

Spec == Init /\ [][Next]_vars

-----------------------------------------------------------------------------
(* Properties.                                                             *)

Calls == {i \in 1 .. Len(stack) : IsCall(i)}

\* An event is locked in its cell exactly while one callback of it is on the
\* stack: it is never entered twice, never released or replaced under its
\* callback, and never left locked (event_call, stolen_cell.rs).
StolenIffCalled ==
    /\ \A i \in Calls : Alive(stack[i].h) /\ Stolen(stack[i].h)
    /\ \A i, j \in Calls : stack[i].h = stack[j].h => i = j
    /\ \A id \in Used(events) : At(events, id).stolen =>
           \E i \in Calls : stack[i].h = [id |-> id, gen |-> At(events, id).gen]

\* A handle whose event is gone stays dead, whatever its slot is reused for
\* (the generation check of event_alive).
NoResurrection == [][\A h \in issued : ~Alive(h) => ~Alive(h)']_vars

\* Nobody waits, past the first iteration, for an event one of whose callbacks
\* is further down the same stack: checking once in run_until_complete is
\* enough, "as it can't change later on".
WaitNeverOnSelf ==
    \A i \in 1 .. Len(stack) :
        stack[i].fn = "until" /\ stack[i].checked =>
            \A j \in Calls : j < i => stack[j].h # stack[i].h

\* A nested loop never reports Empty: the event that nests it still counts.
NestedNeverEmpty == ret = "Empty" => Calls = {}

\* A message waiting for a living event, or being handed to it, has a type that
\* event asked for: although it is checked when sent or received and dispatched
\* later, perhaps after the slot got another event.
OnlyExpected ==
    /\ \A k \in 1 .. Len(scheduled) :
           scheduled[k].what \in MsgType /\ Alive(scheduled[k].to) =>
               scheduled[k].what \in At(events, scheduled[k].to.id).expects
    /\ \A i \in Calls :
           stack[i].what \in MsgType =>
               stack[i].what \in At(events, stack[i].h.id).expects

\* Only living events wait to be idle, each at most once.
IdleWaitersAlive ==
    /\ \A k \in 1 .. Len(want_idle) : Alive(want_idle[k])
    /\ \A j, k \in 1 .. Len(want_idle) : want_idle[j] = want_idle[k] => j = k

\* What core.rs and stolen_cell.rs say of the raw pointer to a called event: the
\* event does not go away, so every callback on the stack works on the event at
\* its present place.
PointersValid == \A i \in Calls : stack[i].ptr = buffer.addr

\* A run ends with Ok only after a stop that was called during it: a stop before
\* it, and the end of a run nested in it, leave it going, although all share one
\* flag.
UnstoppedRunsGoOn == \A i \in RunFrames : ~stack[i].stopped => active

\* What a user of the loop sees: the living events with what each accepts, who waits
\* to be idle, and the callbacks that run.
Living == {[id |-> id, gen |-> At(events, id).gen] : id \in Used(events)}
Accepting == [h \in Living |-> At(events, h.id).expects]
Waiting == {want_idle[k] : k \in 1 .. Len(want_idle)}
Running == [i \in Calls |-> [event |-> stack[i].h, why |-> stack[i].what]]

\* Events, callbacks and messages are what the documentation of core.rs promises:
\* that slots are used again, and that nested loops share one queue, one storage and
\* its locks, cannot be told from outside (EventCalls).
Promised == INSTANCE EventCalls WITH
    inserted <- issued, accepts <- Accepting, queue <- scheduled,
    idlers <- Waiting, running <- Running
IsAsPromised == Promised!Spec
=============================================================================
