-------------------------- MODULE EventLoopProofs --------------------------
(***************************************************************************)
(* Proofs about EventLoop, for any number of events, tasks and frames.     *)
(*                                                                         *)
(* The inductive invariant adds to StolenIffCalled the soundness of the    *)
(* storage and that all generations in use are below the counter, so that  *)
(* a stored event gets a slot no callback works on and a handle nobody     *)
(* has.  Nested loops, what is delivered to events, and the refinement of  *)
(* EventCalls come after that.                                             *)
(***************************************************************************)
EXTENDS EventLoop, RecyclerProofs

\* Every generation in a slot or in a handle was given out by the counter.
GenerationsPast ==
    /\ \A id : Valid(events, id) => At(events, id).gen < generation
    /\ \A h \in issued : h.gen < generation

IInv == TypeOK /\ RecyclerOK(events) /\ StolenIffCalled /\ GenerationsPast

-----------------------------------------------------------------------------
(* Frames and the stack.                                                   *)

\* A frame whose function is "call" is a call frame, and so on.
LEMMA FrameKinds ==
    ASSUME NEW f \in Frame
    PROVE  /\ f.fn = "call" => f \in CallFrame
           /\ f.fn = "until" => f \in UntilFrame
           /\ f.fn = "run_one" => f \in RunOneFrame
           /\ f.fn = "run" => f \in RunFrame
           /\ f.fn = "insert" => f \in InsertFrame
BY DEF Frame, CallFrame, UntilFrame, RunOneFrame, RunFrame, InsertFrame, EmptyFrame

\* The operations on the stack keep it a stack and say what is where.
LEMMA PushStack ==
    ASSUME NEW s \in Seq(Frame), NEW f \in Frame
    PROVE  /\ Append(s, f) \in Seq(Frame)
           /\ Len(Append(s, f)) = Len(s) + 1
           /\ \A i \in 1 .. Len(s) : Append(s, f)[i] = s[i]
           /\ Append(s, f)[Len(s) + 1] = f
BY AppendProperties

LEMMA ReplaceStack ==
    ASSUME TypeOK, stack # << >>, NEW f \in Frame
    PROVE  /\ ReplaceTop(f) \in Seq(Frame)
           /\ Len(ReplaceTop(f)) = Len(stack)
           /\ \A i \in 1 .. Len(stack) :
                  ReplaceTop(f)[i] = IF i = Len(stack) THEN f ELSE stack[i]
BY DEF TypeOK, ReplaceTop

LEMMA PopStack ==
    ASSUME TypeOK, stack # << >>
    PROVE  /\ Pop \in Seq(Frame)
           /\ Len(Pop) = Len(stack) - 1
           /\ \A i \in 1 .. Len(stack) - 1 : Pop[i] = stack[i]
           /\ Len(stack) \in 1 .. Len(stack)
           /\ Top \in Frame
<1>1. stack \in Seq(Frame) /\ Len(stack) > 0
  BY DEF TypeOK
<1>2. /\ SubSeq(stack, 1, Len(stack) - 1) \in Seq(Frame)
      /\ Len(SubSeq(stack, 1, Len(stack) - 1)) = Len(stack) - 1
      /\ \A k \in 1 .. Len(stack) - 1 : SubSeq(stack, 1, Len(stack) - 1)[k] = stack[k]
  BY <1>1, PopFacts, Zenon
<1>3. Len(stack) \in 1 .. Len(stack) /\ stack[Len(stack)] \in Frame
  BY <1>1
<1> QED BY <1>2, <1>3 DEF Pop, Top

\* A step that keeps the events and the call frames keeps the invariant on them.
LEMMA CallsKept ==
    ASSUME StolenIffCalled, events' = events, Calls' = Calls,
           \A i \in Calls : stack'[i].h = stack[i].h
    PROVE  StolenIffCalled'
BY DEF StolenIffCalled, Alive, Stolen

\* Pushing, popping or replacing a frame that is no call keeps the calls.
LEMMA PushKeepsCalls ==
    ASSUME TypeOK, NEW f \in Frame, f.fn # "call", stack' = Append(stack, f)
    PROVE  stack' \in Seq(Frame) /\ Calls' = Calls /\ \A i \in Calls : stack'[i] = stack[i]
<1>1. stack \in Seq(Frame) /\ Len(stack) \in Nat
  BY DEF TypeOK
<1>2. /\ stack' \in Seq(Frame) /\ Len(stack') = Len(stack) + 1
      /\ \A i \in 1 .. Len(stack) : stack'[i] = stack[i]
      /\ stack'[Len(stack) + 1] = f
  BY <1>1, PushStack
<1> QED BY <1>1, <1>2 DEF Calls, IsCall

LEMMA PopKeepsCalls ==
    ASSUME TypeOK, stack # << >>, Top.fn # "call", stack' = Pop
    PROVE  stack' \in Seq(Frame) /\ Calls' = Calls /\ \A i \in Calls : stack'[i] = stack[i]
<1>1. stack \in Seq(Frame) /\ Len(stack) \in Nat
  BY DEF TypeOK
<1>2. /\ stack' \in Seq(Frame) /\ Len(stack') = Len(stack) - 1
      /\ \A i \in 1 .. Len(stack) - 1 : stack'[i] = stack[i]
      /\ stack[Len(stack)].fn # "call"
  BY PopStack DEF Top
<1> QED BY <1>1, <1>2 DEF Calls, IsCall

LEMMA ReplaceKeepsCalls ==
    ASSUME TypeOK, stack # << >>, Top.fn # "call",
           NEW f \in Frame, f.fn # "call", stack' = ReplaceTop(f)
    PROVE  stack' \in Seq(Frame) /\ Calls' = Calls /\ \A i \in Calls : stack'[i] = stack[i]
<1>1. stack \in Seq(Frame) /\ Len(stack) \in Nat
  BY DEF TypeOK
<1>2. /\ stack' \in Seq(Frame) /\ Len(stack') = Len(stack)
      /\ \A i \in 1 .. Len(stack) : stack'[i] = IF i = Len(stack) THEN f ELSE stack[i]
      /\ stack[Len(stack)].fn # "call"
  BY ReplaceStack DEF Top
<1> QED BY <1>1, <1>2 DEF Calls, IsCall

-----------------------------------------------------------------------------
(* Events.                                                                 *)

\* A step that creates no event: what is alive after it was alive before.
NoNewEvents ==
    \A id : Valid(events', id) =>
        Valid(events, id) /\ At(events', id).gen = At(events, id).gen

LEMMA UnchangedEvents ==
    ASSUME events' = events
    PROVE  NoNewEvents
BY DEF NoNewEvents

LEMMA GenerationsKept ==
    ASSUME GenerationsPast, NoNewEvents, UNCHANGED << generation, issued >>
    PROVE  GenerationsPast'
BY DEF GenerationsPast, NoNewEvents

\* The handle of a called event, and its holder.
LEMMA CallTop ==
    ASSUME TypeOK, StolenIffCalled, TopIs("call")
    PROVE  /\ Top \in CallFrame /\ Top.h \in Handle
           /\ Valid(events, Top.h.id)
           /\ At(events, Top.h.id) \in Holder
           /\ At(events, Top.h.id).gen = Top.h.gen
           /\ At(events, Top.h.id).stolen
           /\ Len(stack) \in Calls
<1>1. stack # << >> /\ Top \in Frame /\ Top.fn = "call" /\ Len(stack) \in 1 .. Len(stack)
  BY PopStack DEF TopIs
<1>2. Top \in CallFrame
  BY <1>1, FrameKinds
<1>3. Top.h \in Handle
  BY <1>2 DEF CallFrame
<1>4. Len(stack) \in Calls /\ stack[Len(stack)] = Top
  BY <1>1 DEF Calls, IsCall, Top
<1>5. Alive(Top.h) /\ Stolen(Top.h)
  BY <1>4 DEF StolenIffCalled
<1>6. Valid(events, Top.h.id) /\ At(events, Top.h.id) \in Holder
  BY <1>5, AtType DEF Alive, TypeOK
<1> QED BY <1>2, <1>3, <1>4, <1>5, <1>6 DEF Alive, Stolen

\* The lemma on Update, for the storage of events.
LEMMA HolderUpdate ==
    ASSUME NEW ev \in RecyclerOf(Holder), RecyclerOK(ev), NEW idx, Valid(ev, idx),
           NEW new \in Holder, NEW after, after = Update(ev, idx, new)
    PROVE  /\ after \in RecyclerOf(Holder) /\ RecyclerOK(after)
           /\ \A id : Valid(after, id) <=> Valid(ev, id)
           /\ At(after, idx) = new
           /\ \A id : Valid(ev, id) /\ id # idx => At(after, id) = At(ev, id)
BY UpdateFacts

\* Locking or unlocking an event changes its lock and nothing else.
LEMMA SetStolenFacts ==
    ASSUME TypeOK, RecyclerOK(events), NEW h \in Handle, Alive(h), NEW b \in BOOLEAN
    PROVE  /\ SetStolen(h, b) \in RecyclerOf(Holder) /\ RecyclerOK(SetStolen(h, b))
           /\ \A id : Valid(SetStolen(h, b), id) <=> Valid(events, id)
           /\ At(SetStolen(h, b), h.id).gen = h.gen
           /\ At(SetStolen(h, b), h.id).stolen = b
           /\ At(SetStolen(h, b), h.id).expects = At(events, h.id).expects
           /\ \A id : Valid(events, id) /\ id # h.id =>
                  At(SetStolen(h, b), id) = At(events, id)
<1>1. PICK old \in Holder : old = At(events, h.id) /\ old.gen = h.gen
  BY AtType DEF Alive, TypeOK
<1> DEFINE new == [old EXCEPT !.stolen = b]
           after == SetStolen(h, b)
<1>2. new \in Holder /\ new.stolen = b /\ new.gen = old.gen /\ new.expects = old.expects
  BY DEF Holder
<1>3. after = Update(events, h.id, new)
  BY <1>1 DEF SetStolen
<1>4. events \in RecyclerOf(Holder) /\ Valid(events, h.id)
  BY DEF TypeOK, Alive
<1> HIDE DEF new, after
<1>5. /\ after \in RecyclerOf(Holder) /\ RecyclerOK(after)
      /\ \A id : Valid(after, id) <=> Valid(events, id)
      /\ At(after, h.id) = new
      /\ \A id : Valid(events, id) /\ id # h.id => At(after, id) = At(events, id)
  BY <1>2, <1>3, <1>4, HolderUpdate
<1>6. At(after, h.id).gen = h.gen /\ At(after, h.id).expects = At(events, h.id).expects
  BY <1>1, <1>2, <1>5
<1>7. At(after, h.id).stolen = b
  BY <1>2, <1>5, Zenon
<1> QED BY <1>5, <1>6, <1>7, Zenon DEF after

\* Accepting one more message type keeps everything else of the event.
LEMMA AddExpectedFacts ==
    ASSUME TypeOK, RecyclerOK(events), NEW h \in Handle, Alive(h), NEW tp \in MsgType
    PROVE  /\ AddExpected(h, tp) \in RecyclerOf(Holder) /\ RecyclerOK(AddExpected(h, tp))
           /\ \A id : Valid(AddExpected(h, tp), id) <=> Valid(events, id)
           /\ At(AddExpected(h, tp), h.id).gen = h.gen
           /\ At(AddExpected(h, tp), h.id).stolen = At(events, h.id).stolen
           /\ At(events, h.id).expects \subseteq At(AddExpected(h, tp), h.id).expects
           /\ \A id : Valid(events, id) /\ id # h.id =>
                  At(AddExpected(h, tp), id) = At(events, id)
<1>1. PICK old \in Holder : old = At(events, h.id) /\ old.gen = h.gen
  BY AtType DEF Alive, TypeOK
<1> DEFINE new == [old EXCEPT !.expects = @ \cup {tp}]
           after == AddExpected(h, tp)
<1>2. /\ new \in Holder /\ new.stolen = old.stolen /\ new.gen = old.gen
      /\ old.expects \subseteq new.expects
  BY DEF Holder
<1>3. after = Update(events, h.id, new)
  BY <1>1 DEF AddExpected
<1>4. events \in RecyclerOf(Holder) /\ Valid(events, h.id)
  BY DEF TypeOK, Alive
<1> HIDE DEF new, after
<1>5. /\ after \in RecyclerOf(Holder) /\ RecyclerOK(after)
      /\ \A id : Valid(after, id) <=> Valid(events, id)
      /\ At(after, h.id) = new
      /\ \A id : Valid(events, id) /\ id # h.id => At(after, id) = At(events, id)
  BY <1>2, <1>3, <1>4, HolderUpdate
<1>6. At(after, h.id).gen = h.gen
  BY <1>1, <1>2, <1>5
<1>7. At(after, h.id).stolen = At(events, h.id).stolen
  BY <1>1, <1>2, <1>5, Zenon
<1>8. At(events, h.id).expects \subseteq At(after, h.id).expects
  BY <1>1, <1>2, <1>5
<1> QED BY <1>5, <1>6, <1>7, <1>8, Zenon DEF after

\* Stealing an event and entering its callback; stk is the stack below it.
LEMMA StealStep ==
    ASSUME TypeOK, RecyclerOK(events), StolenIffCalled,
           NEW h \in Handle, Alive(h), ~Stolen(h),
           NEW f \in CallFrame, f.h = h, NEW stk \in Seq(Frame),
           {i \in 1 .. Len(stk) : stk[i].fn = "call"} = Calls,
           \A i \in Calls : stk[i] = stack[i],
           events' = SetStolen(h, TRUE), stack' = Append(stk, f)
    PROVE  /\ events' \in RecyclerOf(Holder) /\ RecyclerOK(events') /\ NoNewEvents
           /\ stack' \in Seq(Frame)
           /\ StolenIffCalled'
<1>1. Valid(events, h.id) /\ At(events, h.id).gen = h.gen
  BY DEF Alive
<1>2. /\ events' \in RecyclerOf(Holder) /\ RecyclerOK(events')
      /\ \A id : Valid(events', id) <=> Valid(events, id)
      /\ At(events', h.id).gen = h.gen /\ At(events', h.id).stolen = TRUE
      /\ \A id : Valid(events, id) /\ id # h.id => At(events', id) = At(events, id)
  <2>1. PICK b \in BOOLEAN : b = TRUE
    OBVIOUS
  <2>2. events' = SetStolen(h, b)
    BY <2>1
  <2>3. /\ SetStolen(h, b) \in RecyclerOf(Holder) /\ RecyclerOK(SetStolen(h, b))
        /\ \A id : Valid(SetStolen(h, b), id) <=> Valid(events, id)
        /\ At(SetStolen(h, b), h.id).gen = h.gen
        /\ At(SetStolen(h, b), h.id).stolen = b
        /\ \A id : Valid(events, id) /\ id # h.id =>
               At(SetStolen(h, b), id) = At(events, id)
    BY SetStolenFacts
  <2> QED BY <2>1, <2>2, <2>3, Zenon
<1>3. NoNewEvents
  BY <1>1, <1>2 DEF NoNewEvents
<1>4. f \in Frame /\ f.fn = "call"
  BY DEF Frame, CallFrame
<1>5. PICK n \in Nat : n = Len(stk)
  OBVIOUS
<1>6. /\ stack' \in Seq(Frame) /\ Len(stack') = n + 1
      /\ \A i \in 1 .. n : stack'[i] = stk[i]
      /\ stack'[n + 1] = f
  BY <1>4, <1>5, PushStack
<1>7. n + 1 \notin Calls /\ Calls \subseteq 1 .. n
  BY <1>5
<1>8. Calls' = Calls \cup {n + 1}
  BY <1>4, <1>5, <1>6 DEF Calls, IsCall
<1>9. \A i \in Calls : stack'[i] = stack[i]
  BY <1>6, <1>7
<1>10. \A i \in Calls : stack[i].h # h
  BY DEF StolenIffCalled
<1>11. \A i \in Calls : stack[i].h.id # h.id
  BY <1>1 DEF StolenIffCalled, Alive, Stolen
<1>12. \A i \in Calls' : Alive(stack[i].h)' /\ Stolen(stack[i].h)'
  <2>1. ASSUME NEW i \in Calls PROVE Alive(stack[i].h)' /\ Stolen(stack[i].h)'
    <3>1. Alive(stack[i].h) /\ Stolen(stack[i].h)
      BY DEF StolenIffCalled
    <3>2. PICK g : g = stack[i].h /\ g = stack'[i].h
      BY <1>9
    <3>3. Valid(events, g.id) /\ At(events, g.id).gen = g.gen /\ At(events, g.id).stolen
      BY <3>1, <3>2 DEF Alive, Stolen
    <3>4. At(events', g.id) = At(events, g.id) /\ Valid(events', g.id)
      BY <3>2, <3>3, <1>2, <1>11
    <3> QED BY <3>2, <3>3, <3>4, Zenon DEF Alive, Stolen
  <2>2. Alive(stack[n + 1].h)' /\ Stolen(stack[n + 1].h)'
    BY <1>1, <1>2, <1>6 DEF Alive, Stolen
  <2> QED BY <2>1, <2>2, <1>8
<1>13. ASSUME NEW i \in Calls', NEW j \in Calls', stack'[i].h = stack'[j].h
       PROVE  i = j
  <2>1. \A k \in Calls : stack'[k].h # stack'[n + 1].h
    BY <1>6, <1>9, <1>10
  <2>2. CASE i \in Calls /\ j \in Calls
    BY <2>2, <1>9, <1>13 DEF StolenIffCalled
  <2>3. CASE i = n + 1 \/ j = n + 1
    BY <2>1, <2>3, <1>8, <1>13
  <2> QED BY <2>2, <2>3, <1>8
<1>14. ASSUME NEW id \in Used(events'), At(events', id).stolen
       PROVE  \E i \in Calls' : stack'[i].h = [id |-> id, gen |-> At(events', id).gen]
  <2>1. Valid(events, id)
    BY <1>2, UsedIsValid
  <2>2. CASE id = h.id
    <3>1. h = [id |-> h.id, gen |-> h.gen]
      BY DEF Handle
    <3>2. At(events', id).gen = h.gen /\ stack'[n + 1].h = h /\ n + 1 \in Calls'
      BY <2>2, <1>2, <1>6, <1>8
    <3> QED BY <2>2, <3>1, <3>2
  <2>3. CASE id # h.id
    <3>1. At(events', id) = At(events, id)
      BY <2>1, <2>3, <1>2
    <3>2. PICK i \in Calls : stack[i].h = [id |-> id, gen |-> At(events, id).gen]
      BY <1>14, <2>1, <3>1, UsedIsValid DEF StolenIffCalled
    <3> QED BY <3>1, <3>2, <1>8, <1>9
  <2> QED BY <2>2, <2>3
<1>15. StolenIffCalled'
  BY <1>12, <1>13, <1>14 DEF StolenIffCalled
<1> QED BY <1>2, <1>3, <1>6, <1>15

\* The handle of a call frame is the handle of a stored event.
LEMMA CallHandle ==
    ASSUME TypeOK, StolenIffCalled, NEW i \in Calls
    PROVE  /\ stack[i].h \in Handle
           /\ Valid(events, stack[i].h.id)
           /\ At(events, stack[i].h.id).gen = stack[i].h.gen
<1>1. stack[i] \in Frame /\ stack[i].fn = "call"
  BY DEF Calls, IsCall, TypeOK
<1>2. stack[i] \in CallFrame
  BY <1>1, FrameKinds
<1>3. stack[i].h \in Handle
  BY <1>2 DEF CallFrame
<1> QED BY <1>3 DEF StolenIffCalled, Alive

\* Leaving a callback, its event unlocked or gone and the others as they were.
LEMMA LeaveStep ==
    ASSUME TypeOK, StolenIffCalled, TopIs("call"), stack' = Pop,
           NEW h, h = Top.h,
           \A id : id # h.id =>
               /\ Valid(events', id) <=> Valid(events, id)
               /\ Valid(events, id) => At(events', id) = At(events, id),
           Valid(events', h.id) => ~At(events', h.id).stolen
    PROVE  StolenIffCalled' /\ stack' \in Seq(Frame)
<1>1. stack # << >> /\ h \in Handle /\ At(events, h.id).gen = h.gen /\ Len(stack) \in Calls
  BY CallTop DEF TopIs
<1>2. PICK n \in Nat : n = Len(stack)
  BY DEF TypeOK
<1>3. /\ stack' \in Seq(Frame) /\ Len(stack') = n - 1
      /\ \A i \in 1 .. n - 1 : stack'[i] = stack[i]
      /\ stack[n].h = h /\ n \in Calls
  BY <1>1, <1>2, PopStack DEF Top
<1>4. Calls' = Calls \ {n} /\ \A i \in Calls' : stack'[i] = stack[i]
  BY <1>2, <1>3 DEF Calls, IsCall
<1>5. \A i \in Calls' : stack[i].h # h
  BY <1>3, <1>4 DEF StolenIffCalled
<1>6. \A i \in Calls' : stack[i].h.id # h.id
  <2> SUFFICES ASSUME NEW i \in Calls', stack[i].h.id = h.id
               PROVE  FALSE
    OBVIOUS
  <2>1. PICK g \in Handle : g = stack[i].h /\ At(events, g.id).gen = g.gen
    BY <1>4, CallHandle
  <2>2. g.id = h.id /\ g.gen = h.gen
    BY <2>1, <1>1
  <2>3. g = h
    BY <2>2, <1>1 DEF Handle
  <2> QED BY <2>1, <2>3, <1>5
<1>7. ASSUME NEW i \in Calls'
      PROVE  Alive(stack[i].h)' /\ Stolen(stack[i].h)'
  <2>1. PICK g : g = stack[i].h /\ g = stack'[i].h
    BY <1>4
  <2>2. Valid(events, g.id) /\ At(events, g.id).gen = g.gen /\ At(events, g.id).stolen
    BY <2>1, <1>4 DEF StolenIffCalled, Alive, Stolen
  <2>3. At(events', g.id) = At(events, g.id) /\ Valid(events', g.id)
    BY <2>1, <2>2, <1>6
  <2> QED BY <2>1, <2>2, <2>3, Zenon DEF Alive, Stolen
<1>8. \A i, j \in Calls' : stack'[i].h = stack'[j].h => i = j
  BY <1>4 DEF StolenIffCalled
<1>9. ASSUME NEW id \in Used(events'), At(events', id).stolen
      PROVE  \E i \in Calls' : stack'[i].h = [id |-> id, gen |-> At(events', id).gen]
  <2>1. id # h.id /\ Valid(events, id) /\ At(events', id) = At(events, id)
    BY <1>9, UsedIsValid
  <2>2. PICK i \in Calls : stack[i].h = [id |-> id, gen |-> At(events, id).gen]
    BY <1>9, <2>1, UsedIsValid DEF StolenIffCalled
  <2>3. i # n
    BY <2>1, <2>2, <1>3
  <2> QED BY <2>1, <2>2, <2>3, <1>4
<1> QED BY <1>3, <1>7, <1>8, <1>9 DEF StolenIffCalled

\* The lemma on Store, for the storage of events.
LEMMA HolderStore ==
    ASSUME NEW ev \in RecyclerOf(Holder), RecyclerOK(ev), NEW new \in Holder,
           NEW after, after = Store(ev, new)
    PROVE  /\ StoreIdx(ev) \in Nat
           /\ after \in RecyclerOf(Holder) /\ RecyclerOK(after)
           /\ ~Valid(ev, StoreIdx(ev))
           /\ \A id : Valid(after, id) <=> Valid(ev, id) \/ id = StoreIdx(ev)
           /\ At(after, StoreIdx(ev)) = new
           /\ \A id : Valid(ev, id) => At(after, id) = At(ev, id)
BY StoreFacts

\* The slot the next event gets.
LEMMA HolderStoreIdx ==
    ASSUME NEW ev \in RecyclerOf(Holder), RecyclerOK(ev)
    PROVE  StoreIdx(ev) \in Nat
<1>1. PICK new : new \in Holder
  <2>1. [gen |-> 0, stolen |-> FALSE, expects |-> {}] \in Holder
    BY DEF Holder
  <2> QED BY <2>1
<1> QED BY <1>1, StoreFacts

\* Storing a new event, locked, with its first callback on the stack.
LEMMA InsertStep ==
    ASSUME IInv,
           NEW h, h = [id |-> StoreIdx(events), gen |-> generation],
           NEW holder, holder = [gen |-> generation, stolen |-> TRUE, expects |-> {}],
           NEW f \in CallFrame, f.h = h,
           events' = Store(events, holder),
           stack' = stack \o << [fn |-> "insert", h |-> h], f >>
    PROVE  /\ h \in Handle
           /\ events' \in RecyclerOf(Holder) /\ RecyclerOK(events')
           /\ \A id : Valid(events', id) =>
                  \/ id = h.id /\ At(events', id).gen = generation
                  \/ Valid(events, id) /\ At(events', id).gen = At(events, id).gen
           /\ stack' \in Seq(Frame)
           /\ StolenIffCalled'
<1>1. events \in RecyclerOf(Holder) /\ RecyclerOK(events) /\ generation \in Nat
  BY DEF IInv, TypeOK
<1>2. holder \in Holder /\ holder.gen = generation /\ holder.stolen = TRUE
  BY <1>1 DEF Holder
<1>3. /\ StoreIdx(events) \in Nat
      /\ events' \in RecyclerOf(Holder) /\ RecyclerOK(events')
      /\ ~Valid(events, StoreIdx(events))
      /\ \A id : Valid(events', id) <=> Valid(events, id) \/ id = StoreIdx(events)
      /\ At(events', StoreIdx(events)) = holder
      /\ \A id : Valid(events, id) => At(events', id) = At(events, id)
  <2>1. PICK after : after = events' /\ after = Store(events, holder)
    OBVIOUS
  <2>2. /\ StoreIdx(events) \in Nat
        /\ after \in RecyclerOf(Holder) /\ RecyclerOK(after)
        /\ ~Valid(events, StoreIdx(events))
        /\ \A id : Valid(after, id) <=> Valid(events, id) \/ id = StoreIdx(events)
        /\ At(after, StoreIdx(events)) = holder
        /\ \A id : Valid(events, id) => At(after, id) = At(events, id)
    <3>1. PICK ev \in RecyclerOf(Holder) : ev = events /\ RecyclerOK(ev)
      BY <1>1
    <3>2. PICK new \in Holder : new = holder
      BY <1>2
    <3>3. after = Store(ev, new)
      BY <2>1, <3>1, <3>2
    <3>4. /\ StoreIdx(ev) \in Nat
          /\ after \in RecyclerOf(Holder) /\ RecyclerOK(after)
          /\ ~Valid(ev, StoreIdx(ev))
          /\ \A id : Valid(after, id) <=> Valid(ev, id) \/ id = StoreIdx(ev)
          /\ At(after, StoreIdx(ev)) = new
          /\ \A id : Valid(ev, id) => At(after, id) = At(ev, id)
      BY <3>1, <3>3, HolderStore
    <3> QED BY <3>1, <3>2, <3>4
  <2> QED BY <2>1, <2>2, Zenon
<1>4. h \in Handle /\ h.id = StoreIdx(events) /\ h.gen = generation
  BY <1>1, <1>3 DEF Handle
<1>5. PICK i1 \in Frame : i1 = [fn |-> "insert", h |-> h] /\ i1.fn = "insert"
  BY <1>4 DEF Frame, InsertFrame
<1>6. f \in Frame /\ f.fn = "call"
  BY DEF Frame, CallFrame
<1>7. PICK n \in Nat : n = Len(stack) /\ stack \in Seq(Frame)
  BY DEF IInv, TypeOK
<1>8. /\ stack' \in Seq(Frame) /\ Len(stack') = n + 2
      /\ \A i \in 1 .. n : stack'[i] = stack[i]
      /\ stack'[n + 1] = i1 /\ stack'[n + 2] = f
  <2>1. stack' = stack \o << i1, f >>
    BY <1>5
  <2>2. << i1, f >> \in Seq(Frame) /\ Len(<< i1, f >>) = 2
    BY <1>6
  <2> QED BY <2>1, <2>2, <1>7
<1>9. Calls' = Calls \cup {n + 2} /\ n + 2 \notin Calls /\ Calls \subseteq 1 .. n
  BY <1>5, <1>6, <1>7, <1>8 DEF Calls, IsCall
<1>10. \A i \in Calls : stack'[i] = stack[i]
  BY <1>8, <1>9
<1>11. \A i \in Calls : Valid(events, stack[i].h.id)
  BY DEF IInv, StolenIffCalled, Alive
<1>12. ASSUME NEW i \in Calls'
       PROVE  Alive(stack[i].h)' /\ Stolen(stack[i].h)'
  <2>1. CASE i \in Calls
    <3>1. PICK g : g = stack[i].h /\ g = stack'[i].h
      BY <2>1, <1>10
    <3>2. Valid(events, g.id) /\ At(events, g.id).gen = g.gen /\ At(events, g.id).stolen
      BY <2>1, <3>1 DEF IInv, StolenIffCalled, Alive, Stolen
    <3>3. At(events', g.id) = At(events, g.id) /\ Valid(events', g.id)
      BY <3>2, <1>3
    <3> QED BY <3>1, <3>2, <3>3, Zenon DEF Alive, Stolen
  <2>2. CASE i = n + 2
    <3>1. stack'[i].h = h
      BY <2>2, <1>8
    <3>2. Valid(events', h.id) /\ At(events', h.id).gen = h.gen
      BY <1>2, <1>3, <1>4
    <3>3. At(events', h.id).stolen
      BY <1>2, <1>3, <1>4, Zenon
    <3> QED BY <3>1, <3>2, <3>3, Zenon DEF Alive, Stolen
  <2> QED BY <2>1, <2>2, <1>9
<1>13. ASSUME NEW i \in Calls', NEW j \in Calls', stack'[i].h = stack'[j].h
       PROVE  i = j
  <2>1. \A k \in Calls : stack'[k].h # stack'[n + 2].h
    <3> SUFFICES ASSUME NEW k \in Calls PROVE stack'[k].h # stack'[n + 2].h
      OBVIOUS
    <3>1. Valid(events, stack'[k].h.id)
      BY <1>10, <1>11
    <3>2. stack'[n + 2].h = h /\ ~Valid(events, h.id)
      BY <1>3, <1>4, <1>8
    <3> QED BY <3>1, <3>2
  <2>2. CASE i \in Calls /\ j \in Calls
    BY <2>2, <1>10, <1>13 DEF IInv, StolenIffCalled
  <2>3. CASE i = n + 2 \/ j = n + 2
    BY <2>1, <2>3, <1>9, <1>13
  <2> QED BY <2>2, <2>3, <1>9
<1>14. ASSUME NEW id \in Used(events'), At(events', id).stolen
       PROVE  \E i \in Calls' : stack'[i].h = [id |-> id, gen |-> At(events', id).gen]
  <2>1. CASE id = h.id
    <3>1. At(events', id).gen = generation
      BY <2>1, <1>2, <1>3, <1>4
    <3> QED BY <2>1, <3>1, <1>4, <1>8, <1>9
  <2>2. CASE id # h.id
    <3>1. Valid(events, id) /\ At(events', id) = At(events, id)
      BY <2>2, <1>3, <1>4, UsedIsValid
    <3>2. PICK i \in Calls : stack[i].h = [id |-> id, gen |-> At(events, id).gen]
      BY <1>14, <3>1, UsedIsValid DEF IInv, StolenIffCalled
    <3> QED BY <3>1, <3>2, <1>9, <1>10
  <2> QED BY <2>1, <2>2
<1>15. StolenIffCalled'
  BY <1>12, <1>13, <1>14 DEF StolenIffCalled
<1>16. \A id : Valid(events', id) =>
           \/ id = h.id /\ At(events', id).gen = generation
           \/ Valid(events, id) /\ At(events', id).gen = At(events, id).gen
  BY <1>2, <1>3, <1>4
<1> QED BY <1>3, <1>4, <1>8, <1>15, <1>16

-----------------------------------------------------------------------------
(* The operations.                                                         *)

\* A step that leaves all call frames where they are.
SameCalls == Calls' = Calls /\ \A i \in Calls : stack'[i] = stack[i]

\* A step that keeps the events, the handles and the call frames.
LEMMA NoEventStep ==
    ASSUME IInv, TypeOK', UNCHANGED << events, generation, issued >>, Calls' = Calls,
           \A i \in Calls : stack'[i].h = stack[i].h
    PROVE  IInv'
<1>1. StolenIffCalled'
  BY CallsKept DEF IInv
<1>2. GenerationsPast'
  BY UnchangedEvents, GenerationsKept DEF IInv
<1> QED BY <1>1, <1>2 DEF IInv

\* The frames that the loop pushes.
LEMMA FrameTypes ==
    /\ \A at \in {"dispatch", "channel", "idle"} : [fn |-> "run_one", at |-> at] \in Frame
    /\ \A h \in Handle, c \in BOOLEAN : [fn |-> "until", h |-> h, checked |-> c] \in Frame
    /\ \A b \in BOOLEAN : [fn |-> "run", stopped |-> b] \in Frame
    /\ [fn |-> "until_empty"] \in Frame
BY DEF Frame, RunOneFrame, UntilFrame, RunFrame, EmptyFrame

LEMMA RemoveKeyType ==
    ASSUME NEW S, NEW s \in Seq(S), NEW h
    PROVE  RemoveKey(s, h) \in Seq(S)
<1>1. CASE \E k \in 1 .. Len(s) : s[k] = h
  <2> DEFINE k == CHOOSE k \in 1 .. Len(s) : s[k] = h
             n == Len(s) - 1
  <2>1. k \in 1 .. Len(s) /\ n \in Nat /\ n + 1 = Len(s)
    BY <1>1
  <2>2. RemoveKey(s, h) = [i \in 1 .. n |-> IF i < k THEN s[i] ELSE s[i + 1]]
    BY <1>1 DEF RemoveKey
  <2> HIDE DEF k, n
  <2>3. \A i \in 1 .. n : (IF i < k THEN s[i] ELSE s[i + 1]) \in S
    BY <2>1
  <2> QED BY <2>1, <2>2, <2>3
<1>2. CASE ~\E k \in 1 .. Len(s) : s[k] = h
  BY <1>2 DEF RemoveKey
<1> QED BY <1>1, <1>2

\* Operations that touch neither the events nor the stack.
LEMMA QueueStep ==
    ASSUME IInv, UNCHANGED << storage, stack >>,
           scheduled' \in Seq(Task), want_idle' \in Seq(Handle), channels' \subseteq Handle,
           inbox' \in Seq(Letter), active' \in BOOLEAN, ret' \in Result
    PROVE  IInv' /\ SameCalls
<1>1. TypeOK'
  BY DEF IInv, TypeOK, storage
<1>2. SameCalls
  BY DEF SameCalls, Calls, IsCall
<1> QED BY <1>1, <1>2, NoEventStep DEF storage, SameCalls

LEMMA SendStep ==
    ASSUME IInv, NEW h \in issued, NEW tp \in MsgType, Send(h, tp)
    PROVE  IInv' /\ SameCalls
<1>1. h \in Handle /\ [to |-> h, what |-> tp] \in Task /\ ret' \in Result
  BY DEF Send, IInv, TypeOK, Task, MsgTypeCheck, Result, Errors
<1>2. scheduled' \in Seq(Task)
  BY <1>1 DEF Send, IInv, TypeOK
<1> QED BY <1>1, <1>2, QueueStep DEF Send, IInv, TypeOK, storage

LEMMA MakeChannelStep ==
    ASSUME IInv, NEW h \in issued, MakeChannel(h)
    PROVE  IInv' /\ SameCalls
<1>1. channels' \subseteq Handle /\ ret' \in Result
  BY DEF MakeChannel, IInv, TypeOK, Result
<1> QED BY <1>1, QueueStep DEF MakeChannel, IInv, TypeOK, storage

LEMMA ChannelSendStep ==
    ASSUME IInv, NEW h \in channels, NEW tp \in MsgType, ChannelSend(h, tp)
    PROVE  IInv' /\ SameCalls
<1>1. [to |-> h, what |-> tp] \in Letter
  BY DEF IInv, TypeOK, Letter
<1>2. inbox' \in Seq(Letter)
  BY <1>1 DEF ChannelSend, IInv, TypeOK
<1> QED BY <1>2, QueueStep DEF ChannelSend, IInv, TypeOK, storage

LEMMA WantIdleStep ==
    ASSUME IInv, WantIdle
    PROVE  IInv' /\ SameCalls
<1>1. Top.h \in Handle
  BY CallTop DEF WantIdle, InCallback, IInv
<1>2. want_idle \in Seq(Handle)
  BY DEF IInv, TypeOK
<1>3. RemoveKey(want_idle, Top.h) \in Seq(Handle)
  BY <1>2, RemoveKeyType
<1>4. want_idle' \in Seq(Handle)
  BY <1>1, <1>3 DEF WantIdle
<1> QED BY <1>4, QueueStep DEF WantIdle, IInv, TypeOK, storage, Result

LEMMA ReceiveStep ==
    ASSUME IInv, Receive
    PROVE  IInv' /\ SameCalls
<1>1. inbox \in Seq(Letter) /\ inbox # << >> /\ scheduled \in Seq(Task)
  BY DEF Receive, IInv, TypeOK
<1>2. Head(inbox) \in Letter /\ inbox' \in Seq(Letter)
  BY <1>1 DEF Receive
<1>3. Head(inbox) \in Task
  BY <1>2 DEF Letter, Task
<1>4. scheduled' \in Seq(Task)
  BY <1>1, <1>3 DEF Receive
<1> QED BY <1>2, <1>4, QueueStep DEF Receive, IInv, TypeOK, storage

\* Operations that keep the events and push, pop or replace a frame.
LEMMA FrameStep ==
    ASSUME IInv, UNCHANGED << storage, channels, inbox >>,
           scheduled' \in Seq(Task), want_idle' \in Seq(Handle),
           active' \in BOOLEAN, ret' \in Result,
           \/ \E f \in Frame : f.fn # "call" /\ stack' = Append(stack, f)
           \/ stack # << >> /\ Top.fn # "call" /\ stack' = Pop
           \/ \E f \in Frame : /\ stack # << >> /\ Top.fn # "call"
                               /\ f.fn # "call" /\ stack' = ReplaceTop(f)
    PROVE  IInv' /\ SameCalls
<1>1. stack' \in Seq(Frame) /\ Calls' = Calls /\ \A i \in Calls : stack'[i] = stack[i]
  BY PushKeepsCalls, PopKeepsCalls, ReplaceKeepsCalls DEF IInv
<1>2. TypeOK'
  BY <1>1 DEF IInv, TypeOK, storage
<1> QED BY <1>1, <1>2, NoEventStep DEF storage, SameCalls

LEMMA RunOneStep ==
    ASSUME IInv, RunOne
    PROVE  IInv' /\ SameCalls
<1> QED BY FrameTypes, FrameStep DEF RunOne, Push, IInv, TypeOK, queues, Result

LEMMA RunUntilCompleteStep ==
    ASSUME IInv, NEW h \in issued, RunUntilComplete(h)
    PROVE  IInv' /\ SameCalls
<1>1. [fn |-> "until", h |-> h, checked |-> FALSE] \in Frame
  BY FrameTypes DEF IInv, TypeOK
<1> QED BY <1>1, FrameStep DEF RunUntilComplete, Push, IInv, TypeOK, queues, Result

LEMMA RunStep ==
    ASSUME IInv, Run
    PROVE  IInv' /\ SameCalls
<1>1. [fn |-> "run", stopped |-> FALSE] \in Frame
  BY FrameTypes
<1> QED BY <1>1, FrameStep DEF Run, RunBody, IInv, TypeOK, queues, Result

\* Frames that the loop pops; the result is one of its results.
LEMMA PopStep ==
    ASSUME IInv, UNCHANGED << storage, queues, active >>, ret' \in Result,
           stack # << >>, Top.fn # "call", stack' = Pop
    PROVE  IInv' /\ SameCalls
BY FrameStep DEF IInv, TypeOK, queues

LEMMA InsertDoneStep ==
    ASSUME IInv, InsertDone
    PROVE  IInv' /\ SameCalls
BY PopStep DEF InsertDone, TopIs, IInv, TypeOK

LEMMA GatherEmptyStep ==
    ASSUME IInv, GatherEmpty
    PROVE  IInv' /\ SameCalls
BY PopStep DEF GatherEmpty, RunOneAt, TopIs, Result, Errors

LEMMA PollFailedStep ==
    ASSUME IInv, PollFailed
    PROVE  IInv' /\ SameCalls
BY PopStep DEF PollFailed, RunOneAt, TopIs, Result, Errors

LEMMA PropagateStep ==
    ASSUME IInv, NEW fn \in {"until", "run"}, Propagate(fn)
    PROVE  IInv' /\ SameCalls
BY PopStep DEF Propagate, TopIs, IInv, TypeOK

LEMMA RunUntilEmptyDoneStep ==
    ASSUME IInv, RunUntilEmptyDone
    PROVE  IInv' /\ SameCalls
<1>1. ret' \in Result
  BY DEF RunUntilEmptyDone, IInv, TypeOK, Result
<1> QED BY <1>1, PopStep DEF RunUntilEmptyDone, TopIs

\* The steps inside tasks_gather.
LEMMA GoToStep ==
    ASSUME IInv, NEW at \in {"dispatch", "channel", "idle"}, NEW here, RunOneAt(here), GoTo(at),
           UNCHANGED << storage, channels, inbox, active, ret >>,
           scheduled' \in Seq(Task), want_idle' \in Seq(Handle)
    PROVE  IInv' /\ SameCalls
<1>1. [fn |-> "run_one", at |-> at] \in Frame
  BY FrameTypes
<1>2. stack # << >> /\ Top.fn # "call"
  BY DEF RunOneAt, TopIs
<1>3. stack' = ReplaceTop([fn |-> "run_one", at |-> at])
  BY DEF GoTo
<1>4. active' \in BOOLEAN /\ ret' \in Result
  BY DEF IInv, TypeOK
<1> QED BY <1>1, <1>2, <1>3, <1>4, FrameStep

LEMMA PollStep ==
    ASSUME IInv, Poll
    PROVE  IInv' /\ SameCalls
<1>1. PICK at \in {"dispatch", "channel", "idle"} : GoTo(at)
  BY DEF Poll
<1> QED BY <1>1, GoToStep DEF Poll, queues, IInv, TypeOK

LEMMA ReceiveDoneStep ==
    ASSUME IInv, ReceiveDone
    PROVE  IInv' /\ SameCalls
BY GoToStep DEF ReceiveDone, queues, IInv, TypeOK

LEMMA GatherIdleStep ==
    ASSUME IInv, GatherIdle
    PROVE  IInv' /\ SameCalls
<1>1. scheduled' \in Seq(Task) /\ want_idle' \in Seq(Handle)
  <2>1. CASE scheduled = << >> /\ want_idle # << >>
    <3>1. want_idle \in Seq(Handle)
      BY DEF IInv, TypeOK
    <3>2. Head(want_idle) \in Handle /\ Tail(want_idle) \in Seq(Handle)
      BY <2>1, <3>1
    <3>3. [to |-> Head(want_idle), what |-> "idle"] \in Task
      BY <3>2 DEF Task
    <3>4. << [to |-> Head(want_idle), what |-> "idle"] >> \in Seq(Task)
      BY <3>3
    <3> QED BY <2>1, <3>2, <3>4 DEF GatherIdle
  <2>2. CASE ~(scheduled = << >> /\ want_idle # << >>)
    BY <2>2 DEF GatherIdle, IInv, TypeOK
  <2> QED BY <2>1, <2>2
<1> QED BY <1>1, GoToStep DEF GatherIdle

\* One turn of the loops around run_one.
LEMMA RunTurnStep ==
    ASSUME IInv, RunTurn
    PROVE  IInv' /\ SameCalls
<1>1. CASE active /\ CallRunOne(stack)
  BY <1>1, FrameTypes, FrameStep DEF RunTurn, CallRunOne, IInv, TypeOK, queues, Result
<1>2. CASE ~active /\ stack' = Pop /\ ret' = "Ok"
  BY <1>2, PopStep DEF RunTurn, Continues, TopIs, Result
<1> QED BY <1>1, <1>2 DEF RunTurn

LEMMA UntilTurnStep ==
    ASSUME IInv, UntilTurn
    PROVE  IInv' /\ SameCalls
<1>1. stack # << >> /\ Top.fn = "until" /\ Top \in Frame /\ stack \in Seq(Frame)
  BY PopStack DEF UntilTurn, Continues, TopIs, IInv, TypeOK
<1>2. CASE stack' = Pop
  <2>1. ret' \in Result
    BY <1>2 DEF UntilTurn, CallRunOne, Result, Errors
  <2> QED BY <1>1, <1>2, <2>1, PopStep DEF UntilTurn
<1>3. CASE CallRunOne(ReplaceTop([Top EXCEPT !.checked = TRUE]))
  <2>1. Top \in UntilFrame
    BY <1>1, FrameKinds
  <2>2. PICK f : f = [Top EXCEPT !.checked = TRUE]
    OBVIOUS
  <2>3. f \in UntilFrame /\ f \in Frame /\ f.fn = "until"
    BY <2>1, <2>2 DEF UntilFrame, Frame
  <2>4. PICK r \in Frame : r = [fn |-> "run_one", at |-> "dispatch"] /\ r.fn = "run_one"
    BY FrameTypes
  <2>5. PICK s : s = ReplaceTop(f)
    OBVIOUS
  <2>6. PICK n \in Nat : n = Len(stack)
    BY <1>1
  <2>7. /\ s \in Seq(Frame) /\ Len(s) = n
        /\ \A i \in 1 .. n : s[i] = IF i = n THEN f ELSE stack[i]
    BY <1>1, <2>3, <2>5, <2>6, ReplaceStack DEF IInv
  <2>8. stack' = Append(s, r) /\ ret' = "none"
    BY <1>3, <2>2, <2>4, <2>5 DEF CallRunOne
  <2>9. /\ stack' \in Seq(Frame) /\ Len(stack') = n + 1 /\ stack'[n + 1] = r
        /\ \A i \in 1 .. n : stack'[i] = s[i]
    BY <2>7, <2>8, PushStack
  <2>10. stack[n].fn = "until"
    BY <1>1, <2>6 DEF Top
  <2>11. Calls' = Calls /\ \A i \in Calls : stack'[i] = stack[i]
    BY <2>3, <2>4, <2>6, <2>7, <2>9, <2>10 DEF Calls, IsCall
  <2>12. TypeOK'
    BY <2>8, <2>9 DEF UntilTurn, IInv, TypeOK, storage, queues, Result
  <2> QED BY <2>11, <2>12, NoEventStep DEF UntilTurn, storage, SameCalls
<1> QED BY <1>2, <1>3 DEF UntilTurn

LEMMA RunUntilEmptyStep ==
    ASSUME IInv, RunUntilEmpty
    PROVE  IInv' /\ SameCalls
<1>1. PICK e \in Frame, r \in Frame :
          /\ e = [fn |-> "until_empty"] /\ e.fn = "until_empty"
          /\ r = [fn |-> "run", stopped |-> FALSE] /\ r.fn = "run"
  BY FrameTypes
<1>2. PICK n \in Nat : n = Len(stack) /\ stack \in Seq(Frame)
  BY DEF IInv, TypeOK
<1>3. PICK s : s = Append(stack, e)
  OBVIOUS
<1>4. /\ s \in Seq(Frame) /\ Len(s) = n + 1 /\ s[n + 1] = e
      /\ \A i \in 1 .. n : s[i] = stack[i]
  BY <1>2, <1>3, PushStack
<1>5. stack' = Append(s, r) /\ ret' = "none" /\ active' = TRUE
  BY <1>1, <1>3 DEF RunUntilEmpty, RunBody, Push
<1>6. /\ stack' \in Seq(Frame) /\ Len(stack') = n + 2 /\ stack'[n + 2] = r
      /\ \A i \in 1 .. n + 1 : stack'[i] = s[i]
  BY <1>4, <1>5, PushStack
<1>7. Calls' = Calls /\ \A i \in Calls : stack'[i] = stack[i]
  <2>1. \A i \in 1 .. n : i \in 1 .. n + 1 /\ stack'[i] = stack[i]
    BY <1>4, <1>6
  <2>2. n + 1 \in 1 .. n + 1 /\ stack'[n + 1] = e
    BY <1>4, <1>6
  <2>3. \A i : i \in 1 .. n + 2 <=> i \in 1 .. n \/ i = n + 1 \/ i = n + 2
    OBVIOUS
  <2>4. Len(stack') = n + 2 /\ stack'[n + 2] = r /\ e.fn # "call" /\ r.fn # "call"
    BY <1>1, <1>6
  <2> QED BY <2>1, <2>2, <2>3, <2>4, <1>2 DEF Calls, IsCall
<1>8. TypeOK'
  BY <1>5, <1>6 DEF RunUntilEmpty, RunBody, IInv, TypeOK, storage, queues, Result
<1> QED BY <1>7, <1>8, NoEventStep DEF RunUntilEmpty, RunBody, storage, SameCalls

LEMMA StopStep ==
    ASSUME IInv, Stop
    PROVE  IInv' /\ SameCalls
<1>1. PICK n \in Nat : n = Len(stack) /\ stack \in Seq(Frame)
  BY DEF IInv, TypeOK
<1>2. PICK r \in Frame : r = [fn |-> "run", stopped |-> TRUE] /\ r.fn = "run"
  BY FrameTypes
<1>4. \A i \in 1 .. n : stack[i] \in Frame
  BY <1>1
<1>5. stack' = [i \in 1 .. n |->
                  IF i \in RunFrames THEN r ELSE stack[i]]
  BY <1>1, <1>2 DEF Stop
<1>6. /\ stack' \in Seq(Frame) /\ Len(stack') = n
      /\ \A i \in 1 .. n : stack'[i] = stack[i] \/ (stack'[i] = r /\ i \in RunFrames)
  <2> HIDE DEF RunFrames
  <2> QED BY <1>4, <1>5
<1>7. Calls' = Calls /\ \A i \in Calls : stack'[i] = stack[i]
  BY <1>1, <1>2, <1>6 DEF Calls, IsCall, RunFrames
<1>8. TypeOK'
  BY <1>6 DEF Stop, IInv, TypeOK, storage, queues, Result
<1> QED BY <1>7, <1>8, NoEventStep DEF Stop, storage, SameCalls

\* event_call up to the callback, below it a stack with the same calls.
LEMMA EventCallStep ==
    ASSUME IInv, NEW h \in Handle, NEW what \in MsgType \cup {"idle"},
           NEW stk \in Seq(Frame),
           {i \in 1 .. Len(stk) : stk[i].fn = "call"} = Calls,
           \A i \in Calls : stk[i] = stack[i],
           EventCall(h, what, stk)
    PROVE  /\ events' \in RecyclerOf(Holder) /\ RecyclerOK(events') /\ NoNewEvents
           /\ stack' \in Seq(Frame) /\ ret' \in Result
           /\ StolenIffCalled'
<1>1. CASE events' = events /\ stack' = stk /\ ret' \in {"Missing", "Busy"}
  <2>1. Calls' = Calls /\ \A i \in Calls : stack'[i].h = stack[i].h
    BY <1>1 DEF Calls, IsCall
  <2>2. StolenIffCalled'
    BY <1>1, <2>1, CallsKept DEF IInv
  <2> QED BY <1>1, <2>2, UnchangedEvents DEF IInv, TypeOK, Result, Errors
<1>2. CASE Alive(h) /\ ~Stolen(h) /\ events' = SetStolen(h, TRUE)
           /\ stack' = Append(stk, Called(h, what)) /\ ret' = "none"
  <2>1. Called(h, what) \in CallFrame /\ Called(h, what).h = h
    BY DEF Called, CallFrame, IInv, TypeOK
  <2> QED BY <1>2, <2>1, StealStep DEF IInv, Result
<1> QED BY <1>1, <1>2 DEF EventCall, IsBusy

LEMMA PostStep ==
    ASSUME IInv, NEW h \in issued, NEW tp \in MsgType, Post(h, tp)
    PROVE  IInv' /\ NoNewEvents
<1>1. stack \in Seq(Frame) /\ h \in Handle
  BY DEF IInv, TypeOK
<1>2. CASE MsgTypeCheck(h, tp) # "Ok" /\ ret' = MsgTypeCheck(h, tp) /\ UNCHANGED << events, stack >>
  <2>1. ret' \in Result
    BY <1>2 DEF MsgTypeCheck, Result, Errors
  <2> QED BY <1>2, <2>1, QueueStep, UnchangedEvents DEF Post, IInv, TypeOK, storage, queues
<1>3. CASE EventCall(h, tp, stack)
  <2>1. {i \in 1 .. Len(stack) : stack[i].fn = "call"} = Calls
    BY DEF Calls, IsCall
  <2>2. /\ events' \in RecyclerOf(Holder) /\ RecyclerOK(events') /\ NoNewEvents
        /\ stack' \in Seq(Frame) /\ ret' \in Result
        /\ StolenIffCalled'
    BY <1>1, <1>3, <2>1, EventCallStep
  <2>3. TypeOK'
    BY <2>2 DEF Post, IInv, TypeOK, queues
  <2> QED BY <2>2, <2>3, GenerationsKept DEF Post, IInv
<1> QED BY <1>2, <1>3 DEF Post

LEMMA DispatchStep ==
    ASSUME IInv, Dispatch
    PROVE  IInv' /\ NoNewEvents
<1>1. scheduled \in Seq(Task) /\ scheduled # << >>
  BY DEF Dispatch, IInv, TypeOK
<1>2. PICK task \in Task : task = Head(scheduled)
  BY <1>1
<1>3. scheduled' \in Seq(Task)
  BY <1>1 DEF Dispatch
<1>4. CASE UNCHANGED << events, stack, ret >>
  BY <1>3, <1>4, QueueStep, UnchangedEvents DEF Dispatch, IInv, TypeOK, storage
<1>5. CASE EventCall(task.to, task.what, Pop)
  <2>1. stack # << >> /\ Top.fn = "run_one"
    BY DEF Dispatch, RunOneAt, TopIs
  <2>2. PICK n \in Nat : n = Len(stack) /\ stack \in Seq(Frame)
    BY DEF IInv, TypeOK
  <2>3. /\ Pop \in Seq(Frame) /\ Len(Pop) = n - 1
        /\ \A i \in 1 .. n - 1 : Pop[i] = stack[i]
        /\ stack[n].fn = "run_one"
    BY <2>1, <2>2, PopStack DEF IInv, Top
  <2>4. Calls \subseteq 1 .. n - 1 /\ \A i \in Calls : Pop[i] = stack[i]
    BY <2>2, <2>3 DEF Calls, IsCall
  <2>5. {i \in 1 .. Len(Pop) : Pop[i].fn = "call"} = Calls
    BY <2>2, <2>3, <2>4 DEF Calls, IsCall
  <2>6. task.to \in Handle /\ task.what \in MsgType \cup {"idle"}
    BY DEF Task
  <2>7. /\ events' \in RecyclerOf(Holder) /\ RecyclerOK(events') /\ NoNewEvents
        /\ stack' \in Seq(Frame) /\ ret' \in Result
        /\ StolenIffCalled'
    BY <1>5, <2>3, <2>4, <2>5, <2>6, EventCallStep
  <2>8. TypeOK'
    BY <1>3, <2>7 DEF Dispatch, IInv, TypeOK
  <2> QED BY <2>7, <2>8, GenerationsKept DEF Dispatch, IInv
<1> QED BY <1>2, <1>4, <1>5 DEF Dispatch

\* The callback returns: its event is unlocked, or goes.
LEMMA ReturnStep ==
    ASSUME IInv, NEW resp \in {"true", "false", "err"}, Return(resp)
    PROVE  IInv' /\ NoNewEvents
<1>1. CASE ret' = "panic" /\ UNCHANGED << events, want_idle, stack >>
  BY <1>1, QueueStep, UnchangedEvents DEF Return, IInv, TypeOK, storage, Result
<1>2. CASE stack' = Pop /\ ret' \in Result /\ want_idle' \in Seq(Handle)
           /\ (events' = SetStolen(Top.h, FALSE) \/ events' = Release(events, Top.h.id))
  <2>1. TopIs("call")
    BY DEF Return, InCallback
  <2>2. PICK h \in Handle : /\ h = Top.h /\ Valid(events, h.id)
                            /\ At(events, h.id).gen = h.gen
    BY <2>1, CallTop DEF IInv
  <2>3. /\ events' \in RecyclerOf(Holder) /\ RecyclerOK(events') /\ NoNewEvents
        /\ \A id : id # h.id =>
               /\ Valid(events', id) <=> Valid(events, id)
               /\ Valid(events, id) => At(events', id) = At(events, id)
        /\ Valid(events', h.id) => ~At(events', h.id).stolen
    <3>1. CASE events' = SetStolen(Top.h, FALSE)
      <4>1. PICK b \in BOOLEAN : b = FALSE
        OBVIOUS
      <4>2. Alive(h) /\ events' = SetStolen(h, b)
        BY <2>2, <3>1, <4>1 DEF Alive
      <4>3. /\ SetStolen(h, b) \in RecyclerOf(Holder) /\ RecyclerOK(SetStolen(h, b))
            /\ \A id : Valid(SetStolen(h, b), id) <=> Valid(events, id)
            /\ At(SetStolen(h, b), h.id).gen = h.gen
            /\ At(SetStolen(h, b), h.id).stolen = b
            /\ \A id : Valid(events, id) /\ id # h.id =>
                   At(SetStolen(h, b), id) = At(events, id)
        BY <4>2, SetStolenFacts DEF IInv
      <4>4. NoNewEvents
        BY <2>2, <4>2, <4>3 DEF NoNewEvents
      <4> QED BY <4>1, <4>2, <4>3, <4>4, Zenon
    <3>2. CASE events' = Release(events, Top.h.id)
      <4>1. PICK after : after = events' /\ after = Release(events, h.id)
        BY <2>2, <3>2
      <4>2. events \in RecyclerOf(Holder) /\ RecyclerOK(events)
        BY DEF IInv, TypeOK
      <4>3. /\ after \in RecyclerOf(Holder) /\ RecyclerOK(after)
            /\ \A id : Valid(after, id) <=> Valid(events, id) /\ id # h.id
            /\ \A id : Valid(events, id) /\ id # h.id => At(after, id) = At(events, id)
        BY <2>2, <4>1, <4>2, ReleaseFacts
      <4> QED BY <4>1, <4>3 DEF NoNewEvents
    <3> QED BY <1>2, <3>1, <3>2
  <2>4. StolenIffCalled' /\ stack' \in Seq(Frame)
    BY <1>2, <2>1, <2>2, <2>3, LeaveStep DEF IInv
  <2>5. TypeOK'
    BY <1>2, <2>3, <2>4 DEF Return, IInv, TypeOK
  <2> QED BY <2>3, <2>4, <2>5, GenerationsKept DEF Return, IInv
<1>3. RemoveKey(want_idle, Top.h) \in Seq(Handle) /\ want_idle \in Seq(Handle)
  BY RemoveKeyType DEF IInv, TypeOK
<1> QED BY <1>1, <1>2, <1>3 DEF Return, Kill, Result, Errors

LEMMA ExpectMessageStep ==
    ASSUME IInv, NEW tp \in MsgType, ExpectMessage(tp)
    PROVE  IInv' /\ NoNewEvents
<1>1. TopIs("call")
  BY DEF ExpectMessage, InCallback
<1>2. PICK h \in Handle : /\ h = Top.h /\ Valid(events, h.id)
                          /\ At(events, h.id).gen = h.gen /\ Alive(h)
  BY <1>1, CallTop DEF IInv, Alive
<1>3. PICK after : after = AddExpected(h, tp) /\ after = events'
  BY <1>2 DEF ExpectMessage
<1>4. /\ after \in RecyclerOf(Holder) /\ RecyclerOK(after)
      /\ \A id : Valid(after, id) <=> Valid(events, id)
      /\ At(after, h.id).gen = h.gen
      /\ At(after, h.id).stolen = At(events, h.id).stolen
      /\ \A id : Valid(events, id) /\ id # h.id => At(after, id) = At(events, id)
  <2>1. TypeOK /\ RecyclerOK(events)
    BY DEF IInv
  <2>2. /\ AddExpected(h, tp) \in RecyclerOf(Holder) /\ RecyclerOK(AddExpected(h, tp))
        /\ \A id : Valid(AddExpected(h, tp), id) <=> Valid(events, id)
        /\ At(AddExpected(h, tp), h.id).gen = h.gen
        /\ At(AddExpected(h, tp), h.id).stolen = At(events, h.id).stolen
        /\ \A id : Valid(events, id) /\ id # h.id =>
               At(AddExpected(h, tp), id) = At(events, id)
    BY <2>1, <1>2, AddExpectedFacts, Zenon
  <2> QED BY <2>2, <1>3, Zenon
<1>5. \A id : Valid(events, id) => /\ Valid(after, id)
                                   /\ At(after, id).gen = At(events, id).gen
                                   /\ At(after, id).stolen = At(events, id).stolen
  BY <1>2, <1>4, Zenon
<1>6. stack' = stack /\ Calls' = Calls
  BY DEF ExpectMessage, Calls, IsCall
<1>7. \A i \in Calls : Alive(stack[i].h)' /\ Stolen(stack[i].h)'
  <2> SUFFICES ASSUME NEW i \in Calls PROVE Alive(stack[i].h)' /\ Stolen(stack[i].h)'
    OBVIOUS
  <2>1. PICK g : g = stack[i].h /\ g = stack'[i].h
    BY <1>6
  <2>2. Valid(events, g.id) /\ At(events, g.id).gen = g.gen /\ At(events, g.id).stolen
    BY <2>1 DEF IInv, StolenIffCalled, Alive, Stolen
  <2> QED BY <2>1, <2>2, <1>3, <1>5, Zenon DEF Alive, Stolen
<1>8. ASSUME NEW id \in Used(events'), At(events', id).stolen
      PROVE  \E i \in Calls : stack[i].h = [id |-> id, gen |-> At(events', id).gen]
  <2>1. Valid(events, id) /\ id \in Used(events)
    BY <1>3, <1>4, UsedIsValid
  <2>2. At(events, id).stolen
    BY <2>1, <1>3, <1>5, <1>8, Zenon
  <2>3. At(events', id).gen = At(events, id).gen
    BY <2>1, <1>3, <1>5
  <2> QED BY <2>1, <2>2, <2>3 DEF IInv, StolenIffCalled
<1>9. \A i, j \in Calls : stack[i].h = stack[j].h => i = j
  BY DEF IInv, StolenIffCalled
<1>10. StolenIffCalled'
  BY <1>6, <1>7, <1>8, <1>9 DEF StolenIffCalled
<1>11. TypeOK'
  BY <1>3, <1>4 DEF ExpectMessage, IInv, TypeOK, queues, Result
<1>12. NoNewEvents
  BY <1>3, <1>4, <1>5 DEF NoNewEvents
<1> QED BY <1>3, <1>4, <1>10, <1>11, <1>12, GenerationsKept DEF ExpectMessage, IInv

LEMMA InsertExactStep ==
    ASSUME IInv, InsertExact
    PROVE  /\ IInv' /\ generation' = generation + 1
           /\ \A id : Valid(events', id) =>
                  \/ At(events', id).gen = generation
                  \/ Valid(events, id) /\ At(events', id).gen = At(events, id).gen
<1>1. PICK h : h = [id |-> StoreIdx(events), gen |-> generation]
  OBVIOUS
<1>2. PICK holder : holder = [gen |-> generation, stolen |-> TRUE, expects |-> {}]
  OBVIOUS
<1>3. PICK b \in GrownBuffers :
          /\ buffer' = b
          /\ events' = Store(events, holder)
          /\ generation' = NextGeneration
          /\ issued' = issued \cup {h}
          /\ stack' = stack \o << [fn |-> "insert", h |-> h],
                                  [fn |-> "call", h |-> h, what |-> "init",
                                   ptr |-> b.addr] >>
  BY <1>1, <1>2, Zenon DEF InsertExact
<1>4. b \in [cap : Nat, addr : Nat] /\ b.addr \in Nat
  <2>1. buffer \in [cap : Nat, addr : Nat] /\ FirstCap \in Nat
    BY ConstantsOK DEF ConstantsOK, IInv, TypeOK
  <2>2. buffer.cap \in Nat /\ buffer.addr \in Nat
    BY <2>1
  <2>3. CASE events.free = << >> /\ Len(events.data) = buffer.cap
    <3>1. PICK c : c = (IF buffer.cap = 0 THEN FirstCap ELSE 2 * buffer.cap)
      OBVIOUS
    <3>2. c \in Nat
      BY <2>1, <2>2, <3>1
    <3>3. b \in [cap : {c}, addr : {buffer.addr, buffer.addr + 1}]
      BY <1>3, <2>3, <3>1, Zenon DEF GrownBuffers
    <3> QED BY <2>2, <3>2, <3>3
  <2>4. CASE ~(events.free = << >> /\ Len(events.data) = buffer.cap)
    <3>1. b = buffer
      BY <1>3, <2>4, Zenon DEF GrownBuffers
    <3> QED BY <2>1, <2>2, <3>1
  <2> QED BY <2>3, <2>4
<1>5. StoreIdx(events) \in Nat /\ generation \in Nat /\ h \in Handle /\ h.gen = generation
  <2>1. StoreIdx(events) \in Nat
    BY HolderStoreIdx DEF IInv, TypeOK
  <2> QED BY <2>1, <1>1 DEF IInv, TypeOK, Handle
<1>6. PICK f \in CallFrame : /\ f = [fn |-> "call", h |-> h, what |-> "init", ptr |-> b.addr]
                             /\ f.h = h
  <2>1. "init" \in MsgType \cup {"idle", "init"}
    OBVIOUS
  <2>2. PICK a \in Nat : a = b.addr
    BY <1>4
  <2>3. [fn |-> "call", h |-> h, what |-> "init", ptr |-> a] \in CallFrame
    BY <1>5, <2>1 DEF CallFrame
  <2>4. PICK f \in CallFrame : f = [fn |-> "call", h |-> h, what |-> "init", ptr |-> a]
    BY <2>3
  <2>5. f.h = h
    BY <2>4
  <2> QED BY <2>2, <2>4, <2>5, Zenon
<1>7. /\ events' \in RecyclerOf(Holder) /\ RecyclerOK(events')
      /\ \A id : Valid(events', id) =>
             \/ id = h.id /\ At(events', id).gen = generation
             \/ Valid(events, id) /\ At(events', id).gen = At(events, id).gen
      /\ stack' \in Seq(Frame)
      /\ StolenIffCalled'
  <2>1. stack' = stack \o << [fn |-> "insert", h |-> h], f >>
    BY <1>3, <1>6
  <2> QED BY <1>1, <1>2, <1>3, <1>6, <2>1, InsertStep
<1>8. generation' = generation + 1 /\ issued' \subseteq Handle
  BY <1>3, <1>5 DEF NextGeneration, IInv, TypeOK
<1>9. TypeOK'
  BY <1>3, <1>4, <1>5, <1>7, <1>8 DEF InsertExact, IInv, TypeOK, queues, Result
<1>10. GenerationsPast'
  <2>1. \A id : Valid(events, id) => At(events, id).gen \in Nat /\ At(events, id).gen < generation
    <3> SUFFICES ASSUME NEW id, Valid(events, id)
                 PROVE  At(events, id).gen \in Nat /\ At(events, id).gen < generation
      OBVIOUS
    <3>1. At(events, id) \in Holder
      BY AtType DEF IInv, TypeOK
    <3>2. At(events, id).gen \in Nat
      BY <3>1 DEF Holder
    <3> QED BY <3>2 DEF IInv, GenerationsPast
  <2>2. \A id : Valid(events', id) => At(events', id).gen < generation'
    BY <2>1, <1>5, <1>7, <1>8
  <2>3. \A g \in issued : g.gen \in Nat /\ g.gen < generation
    BY DEF IInv, TypeOK, GenerationsPast, Handle
  <2>4. \A g \in issued' : g.gen < generation'
    BY <2>3, <1>3, <1>5, <1>8
  <2> QED BY <2>2, <2>4 DEF GenerationsPast
<1> QED BY <1>7, <1>8, <1>9, <1>10 DEF IInv

-----------------------------------------------------------------------------
(* The theorems.                                                           *)

LEMMA InitStep == Init => IInv
<1> SUFFICES ASSUME Init PROVE IInv
  OBVIOUS
<1>1. RecyclerOK(events) /\ \A id : ~Valid(events, id)
  BY EmptyFacts DEF Init
<1>2. events \in RecyclerOf(Holder)
  BY EmptyFacts DEF Init
<1>3. Calls = {}
  BY DEF Init, Calls
<1>4. StolenIffCalled
  BY <1>1, <1>3, UsedIsValid DEF StolenIffCalled
<1>5. GenerationsPast
  BY <1>1 DEF GenerationsPast, Init
<1>6. TypeOK
  <2>1. buffer \in [cap : Nat, addr : Nat] /\ generation \in Nat
    BY DEF Init
  <2>2. /\ scheduled \in Seq(Task) /\ want_idle \in Seq(Handle)
        /\ inbox \in Seq(Letter) /\ stack \in Seq(Frame)
    BY EmptySeq DEF Init
  <2>3. issued \subseteq Handle /\ channels \subseteq Handle /\ active \in BOOLEAN
    BY Zenon DEF Init
  <2>4. ret \in Result
    BY Zenon DEF Init, Result
  <2> QED BY <1>2, <2>1, <2>2, <2>3, <2>4 DEF TypeOK
<1> QED BY <1>1, <1>4, <1>5, <1>6 DEF IInv

LEMMA NextStep == IInv /\ [Next]_vars => IInv'
<1> SUFFICES ASSUME IInv, [Next]_vars PROVE IInv'
  OBVIOUS
<1>1. CASE UserCode
  BY <1>1, InsertExactStep, RunOneStep, RunStep, RunUntilEmptyStep, StopStep, WantIdleStep,
     ExpectMessageStep, RunUntilCompleteStep, MakeChannelStep, SendStep, PostStep, ReturnStep
     DEF UserCode
<1>2. CASE LoopCode
  BY <1>2, InsertDoneStep, GatherEmptyStep, PollStep, PollFailedStep, ReceiveStep, ReceiveDoneStep,
     GatherIdleStep, DispatchStep, UntilTurnStep, RunTurnStep, RunUntilEmptyDoneStep,
     PropagateStep DEF LoopCode
<1>3. CASE OtherThreads
  BY <1>3, ChannelSendStep DEF OtherThreads
<1>4. CASE UNCHANGED vars
  <2>1. TypeOK'
    BY <1>4 DEF vars, IInv, TypeOK
  <2>2. Calls' = Calls
    BY <1>4 DEF vars, Calls, IsCall
  <2> QED BY <1>4, <2>1, <2>2, NoEventStep DEF vars
<1> QED BY <1>1, <1>2, <1>3, <1>4 DEF Next

\* A step of the program lets no event appear but under a generation that was
\* not given out before.
LEMMA OnlyFresh ==
    ASSUME IInv, [Next]_vars
    PROVE  \A id : Valid(events', id) =>
               \/ At(events', id).gen = generation
               \/ Valid(events, id) /\ At(events', id).gen = At(events, id).gen
<1> DEFINE Goal == \A id : Valid(events', id) =>
                       \/ At(events', id).gen = generation
                       \/ Valid(events, id) /\ At(events', id).gen = At(events, id).gen
<1>1. NoNewEvents => Goal
  BY DEF NoNewEvents
<1>2. CASE events' = events
  BY <1>1, <1>2, UnchangedEvents
<1>3. CASE InsertExact
  BY <1>3, InsertExactStep
<1>4. CASE \E h \in issued, tp \in MsgType : Post(h, tp)
  BY <1>1, <1>4, PostStep
<1>5. CASE Dispatch
  BY <1>1, <1>5, DispatchStep
<1>6. CASE \E resp \in {"true", "false", "err"} : Return(resp)
  BY <1>1, <1>6, ReturnStep
<1>7. CASE \E tp \in MsgType : ExpectMessage(tp)
  BY <1>1, <1>7, ExpectMessageStep
<1>8. UserCode => \/ events' = events \/ InsertExact
                  \/ \E h \in issued, tp \in MsgType : Post(h, tp)
                  \/ \E resp \in {"true", "false", "err"} : Return(resp)
                  \/ \E tp \in MsgType : ExpectMessage(tp)
  BY DEF UserCode, RunOne, Run, RunBody, RunUntilEmpty, Stop, WantIdle, RunUntilComplete,
         MakeChannel, Send, storage
<1>9. LoopCode => events' = events \/ Dispatch
  BY DEF LoopCode, InsertDone, GatherEmpty, Poll, PollFailed, Receive, ReceiveDone, GatherIdle,
         UntilTurn, RunTurn, RunUntilEmptyDone, Propagate, storage
<1>10. OtherThreads \/ UNCHANGED vars => events' = events
  BY DEF OtherThreads, ChannelSend, vars, storage
<1> QED BY <1>2, <1>3, <1>4, <1>5, <1>6, <1>7, <1>8, <1>9, <1>10 DEF Next

\* The state of the dispatching core stays well formed: frames, tasks, holders
\* and results are always among those the code builds.
THEOREM TypeCorrect == Spec => []TypeOK
<1>1. IInv => TypeOK
  BY DEF IInv
<1> QED BY <1>1, InitStep, NextStep, PTL DEF Spec

\* However callbacks, nested loops, insertions and deaths interleave, an event
\* is locked exactly while one callback of it is on the stack: event_call finds
\* the event in place when the callback returns, and never enters it twice.
THEOREM StolenWhileCalled == Spec => []StolenIffCalled
<1>1. IInv => StolenIffCalled
  BY DEF IInv
<1> QED BY <1>1, InitStep, NextStep, PTL DEF Spec

\* A handle of a dead event never becomes valid again, however often its slot
\* is reused: event_alive compares a generation that nothing else has.
THEOREM HandlesStayDead == Spec => NoResurrection
<1>1. IInv /\ [Next]_vars => [\A h \in issued : ~Alive(h) => ~Alive(h)']_vars
  <2> SUFFICES ASSUME IInv, [Next]_vars, NEW h \in issued, ~Alive(h), Alive(h)'
               PROVE  FALSE
    OBVIOUS
  <2>1. h.gen \in Nat /\ h.gen < generation /\ generation \in Nat
    BY DEF IInv, TypeOK, GenerationsPast, Handle
  <2>2. Valid(events', h.id) /\ At(events', h.id).gen = h.gen
    BY DEF Alive
  <2>3. At(events', h.id).gen # generation
    BY <2>1, <2>2
  <2>4. Valid(events, h.id) /\ At(events, h.id).gen = h.gen
    BY <2>2, <2>3, OnlyFresh
  <2> QED BY <2>4 DEF Alive
<1> QED BY <1>1, InitStep, NextStep, PTL DEF Spec, NoResurrection

-----------------------------------------------------------------------------
(***************************************************************************)
(* Proofs about the waiting and running loops of EventLoop's call stack.   *)
(*                                                                         *)
(* Most steps keep the stack up to some frame and put frames on it that    *)
(* neither wait past their deadlock check nor are runs while the flag is   *)
(* cleared (StackAgrees).  The exceptions are the turn of a waiting loop   *)
(* that does its check, where StolenIffCalled tells that no callback below *)
(* is one of the event waited for, and stop, which every run notes.        *)
(***************************************************************************)

\* Loops on the stack behave as both properties say.
NestingOK == WaitNeverOnSelf /\ UnstoppedRunsGoOn

\* A frame that makes neither property false, when active is flag.
Harmless(f, flag) == /\ f.fn = "until" => ~f.checked
                     /\ f.fn = "run" => flag

\* s is the stack up to m, and harmless above.
StackAgrees(s, m, flag) ==
    /\ m \in 0 .. Len(stack) /\ m <= Len(s) /\ Len(s) \in Nat
    /\ \A i \in 1 .. m : s[i] = stack[i]
    /\ \A i \in 1 .. Len(s) : i > m => Harmless(s[i], flag)

-----------------------------------------------------------------------------
(* The shapes of stacks.                                                   *)

LEMMA AgreesSame ==
    ASSUME TypeOK, NEW flag
    PROVE  StackAgrees(stack, Len(stack), flag)
<1>1. PICK n \in Nat : n = Len(stack)
  BY DEF TypeOK
<1> QED BY <1>1 DEF StackAgrees

LEMMA AgreesPop ==
    ASSUME TypeOK, stack # << >>, NEW flag
    PROVE  StackAgrees(Pop, Len(stack) - 1, flag)
<1>1. PICK n \in Nat : n = Len(stack) /\ n > 0
  BY DEF TypeOK
<1>2. Len(Pop) = n - 1 /\ \A i \in 1 .. n - 1 : Pop[i] = stack[i]
  BY <1>1, PopStack
<1> QED BY <1>1, <1>2 DEF StackAgrees

LEMMA AgreesReplace ==
    ASSUME TypeOK, stack # << >>, NEW f \in Frame, NEW flag, Harmless(f, flag)
    PROVE  StackAgrees(ReplaceTop(f), Len(stack) - 1, flag)
<1>1. PICK n \in Nat : n = Len(stack) /\ n > 0
  BY DEF TypeOK
<1>2. PICK s : s = ReplaceTop(f)
  OBVIOUS
<1>3. Len(s) = n /\ \A i \in 1 .. n : s[i] = IF i = n THEN f ELSE stack[i]
  BY <1>1, <1>2, ReplaceStack
<1>4. StackAgrees(s, n - 1, flag)
  BY <1>1, <1>3 DEF StackAgrees
<1> QED BY <1>1, <1>2, <1>4

LEMMA AgreesPush ==
    ASSUME NEW S, NEW s \in Seq(S), NEW m, NEW flag, NEW f,
           StackAgrees(s, m, flag), Harmless(f, flag)
    PROVE  /\ StackAgrees(Append(s, f), m, flag)
           /\ Append(s, f) \in Seq(S \cup {f})
<1>1. PICK n \in Nat : n = Len(s)
  OBVIOUS
<1>2. PICK t : t = Append(s, f)
  OBVIOUS
<1>3. s \in Seq(S \cup {f})
  OBVIOUS
<1>4. /\ t \in Seq(S \cup {f}) /\ Len(t) = n + 1
      /\ \A i \in 1 .. n : t[i] = s[i]
      /\ t[n + 1] = f
  BY <1>1, <1>2, <1>3, AppendProperties
<1>5. m \in 0 .. n /\ m \in 0 .. Len(stack)
  BY <1>1 DEF StackAgrees
<1>6. \A i \in 1 .. m : t[i] = stack[i]
  BY <1>1, <1>4, <1>5 DEF StackAgrees
<1>7. \A i \in 1 .. n + 1 : i > m => Harmless(t[i], flag)
  <2> SUFFICES ASSUME NEW i \in 1 .. n + 1, i > m PROVE Harmless(t[i], flag)
    OBVIOUS
  <2>1. CASE i = n + 1
    BY <2>1, <1>4
  <2>2. CASE i \in 1 .. n
    BY <2>2, <1>1, <1>4 DEF StackAgrees
  <2> QED BY <2>1, <2>2
<1>8. StackAgrees(t, m, flag)
  BY <1>4, <1>5, <1>6, <1>7 DEF StackAgrees
<1> QED BY <1>2, <1>4, <1>8

\* A step to such a stack keeps both properties, unless it clears the flag.
LEMMA AgreesKeeps ==
    ASSUME TypeOK, NestingOK, NEW m, StackAgrees(stack', m, active'), active => active'
    PROVE  NestingOK'
<1>1. /\ m \in 0 .. Len(stack) /\ m <= Len(stack') /\ Len(stack') \in Nat
      /\ \A i \in 1 .. m : stack'[i] = stack[i]
      /\ \A i \in 1 .. Len(stack') : i > m => Harmless(stack'[i], active')
  BY DEF StackAgrees
<1>2. Len(stack) \in Nat
  BY DEF TypeOK
<1>3. WaitNeverOnSelf'
  <2> SUFFICES ASSUME NEW i \in 1 .. Len(stack'), stack'[i].fn = "until", stack'[i].checked,
                      NEW j \in Calls', j < i
               PROVE  stack'[j].h # stack'[i].h
    BY DEF WaitNeverOnSelf
  <2>1. i \in 1 .. m
    BY <1>1 DEF Harmless
  <2>2. j \in 1 .. m
    BY <2>1, <1>1, <1>2 DEF Calls
  <2>3. stack'[i] = stack[i] /\ stack'[j] = stack[j]
    BY <2>1, <2>2, <1>1
  <2>4. i \in 1 .. Len(stack) /\ j \in Calls
    BY <2>1, <2>2, <2>3, <1>1, <1>2 DEF Calls, IsCall
  <2> QED BY <2>3, <2>4 DEF NestingOK, WaitNeverOnSelf
<1>4. UnstoppedRunsGoOn'
  <2> SUFFICES ASSUME NEW i \in RunFrames', ~stack'[i].stopped PROVE active'
    BY DEF UnstoppedRunsGoOn
  <2>1. i \in 1 .. Len(stack') /\ stack'[i].fn = "run"
    BY DEF RunFrames
  <2>2. CASE i \in 1 .. m
    <3>1. i \in RunFrames /\ ~stack[i].stopped
      BY <2>1, <2>2, <1>1, <1>2 DEF RunFrames
    <3> QED BY <3>1 DEF NestingOK, UnstoppedRunsGoOn
  <2>3. CASE i > m
    BY <2>1, <2>3, <1>1 DEF Harmless
  <2> QED BY <2>1, <2>2, <2>3, <1>1, <1>2
<1> QED BY <1>3, <1>4 DEF NestingOK

-----------------------------------------------------------------------------
(* The operations.                                                         *)

LEMMA SameStack ==
    ASSUME TypeOK, NestingOK, stack' = stack, active' = active
    PROVE  NestingOK'
BY AgreesSame, AgreesKeeps

LEMMA PopNesting ==
    ASSUME TypeOK, NestingOK, stack # << >>, stack' = Pop, active' = active
    PROVE  NestingOK'
BY AgreesPop, AgreesKeeps

LEMMA PushNesting ==
    ASSUME TypeOK, NestingOK, NEW f, Harmless(f, active'),
           stack' = Append(stack, f), active => active'
    PROVE  NestingOK'
<1>1. stack \in Seq(Frame)
  BY DEF TypeOK
<1>2. StackAgrees(stack, Len(stack), active')
  BY AgreesSame
<1>3. StackAgrees(stack', Len(stack), active')
  BY <1>1, <1>2, AgreesPush
<1> QED BY <1>3, AgreesKeeps

\* Frames that are neither waits nor runs, and fresh waits, are harmless.
LEMMA HarmlessFrames ==
    ASSUME NEW flag
    PROVE  /\ \A at : Harmless([fn |-> "run_one", at |-> at], flag)
           /\ \A h : Harmless([fn |-> "until", h |-> h, checked |-> FALSE], flag)
           /\ \A h : Harmless([fn |-> "insert", h |-> h], flag)
           /\ \A h, what : Harmless(Called(h, what), flag)
           /\ \A h, what, ptr :
                  Harmless([fn |-> "call", h |-> h, what |-> what, ptr |-> ptr], flag)
           /\ Harmless([fn |-> "until_empty"], flag)
           /\ flag => Harmless([fn |-> "run", stopped |-> FALSE], flag)
BY DEF Harmless, Called

LEMMA GoToNesting ==
    ASSUME TypeOK, NestingOK, NEW here, RunOneAt(here),
           NEW at \in {"dispatch", "channel", "idle"}, GoTo(at), active' = active
    PROVE  NestingOK'
<1>1. PICK f \in Frame : f = [fn |-> "run_one", at |-> at]
  BY FrameTypes
<1>2. stack # << >> /\ stack' = ReplaceTop(f)
  BY <1>1 DEF RunOneAt, TopIs, GoTo
<1>3. Harmless(f, active')
  BY <1>1, HarmlessFrames
<1>4. StackAgrees(stack', Len(stack) - 1, active')
  BY <1>2, <1>3, AgreesReplace
<1> QED BY <1>4, AgreesKeeps

LEMMA EventCallNesting ==
    ASSUME TypeOK, NestingOK, NEW h, NEW what, NEW s \in Seq(Frame), NEW m,
           StackAgrees(s, m, active'), EventCall(h, what, s), active' = active
    PROVE  NestingOK'
<1>1. CASE stack' = s
  BY <1>1, AgreesKeeps
<1>2. CASE stack' = Append(s, Called(h, what))
  <2>1. Harmless(Called(h, what), active')
    BY HarmlessFrames
  <2>2. StackAgrees(stack', m, active')
    BY <1>2, <2>1, AgreesPush
  <2> QED BY <2>2, AgreesKeeps
<1> QED BY <1>1, <1>2 DEF EventCall

LEMMA PostNesting ==
    ASSUME TypeOK, NestingOK, NEW h, NEW tp, Post(h, tp)
    PROVE  NestingOK'
<1>1. CASE stack' = stack
  BY <1>1, SameStack DEF Post
<1>2. CASE EventCall(h, tp, stack)
  <2>1. stack \in Seq(Frame)
    BY DEF TypeOK
  <2>2. StackAgrees(stack, Len(stack), active')
    BY AgreesSame
  <2> QED BY <1>2, <2>1, <2>2, EventCallNesting DEF Post
<1> QED BY <1>1, <1>2 DEF Post

LEMMA DispatchNesting ==
    ASSUME TypeOK, NestingOK, Dispatch
    PROVE  NestingOK'
<1>1. PICK task : task = Head(scheduled)
  OBVIOUS
<1>2. CASE stack' = stack
  BY <1>2, SameStack DEF Dispatch
<1>3. CASE EventCall(task.to, task.what, Pop)
  <2>1. stack # << >>
    BY DEF Dispatch, RunOneAt, TopIs
  <2>2. Pop \in Seq(Frame) /\ StackAgrees(Pop, Len(stack) - 1, active')
    BY <2>1, PopStack, AgreesPop
  <2> QED BY <1>3, <2>2, EventCallNesting DEF Dispatch
<1> QED BY <1>1, <1>2, <1>3 DEF Dispatch

LEMMA InsertExactNesting ==
    ASSUME TypeOK, NestingOK, InsertExact
    PROVE  NestingOK'
<1>1. PICK h, b : stack' = stack \o << [fn |-> "insert", h |-> h],
                                       [fn |-> "call", h |-> h, what |-> "init",
                                        ptr |-> b.addr] >>
  BY Zenon DEF InsertExact
<1>2. PICK f, g : /\ f = [fn |-> "insert", h |-> h]
                  /\ g = [fn |-> "call", h |-> h, what |-> "init", ptr |-> b.addr]
  OBVIOUS
<1>3. Harmless(f, active') /\ Harmless(g, active')
  BY <1>2, HarmlessFrames
<1>4. stack \in Seq(Frame) /\ StackAgrees(stack, Len(stack), active')
  BY AgreesSame DEF TypeOK
<1>5. PICK s : s = Append(stack, f)
  OBVIOUS
<1>6. PICK S : S = Frame \cup {f}
  OBVIOUS
<1>7. s \in Seq(S) /\ StackAgrees(s, Len(stack), active')
  BY <1>3, <1>4, <1>5, <1>6, AgreesPush
<1>8. StackAgrees(Append(s, g), Len(stack), active')
  BY <1>3, <1>7, AgreesPush
<1>9. stack' = Append(s, g)
  <2>1. stack' = stack \o << f, g >>
    BY <1>1, <1>2
  <2>2. stack \o << f, g >> = Append(Append(stack, f), g)
    BY <1>4
  <2> QED BY <2>1, <2>2, <1>5
<1> QED BY <1>8, <1>9, AgreesKeeps DEF InsertExact

LEMMA RunUntilEmptyNesting ==
    ASSUME TypeOK, NestingOK, RunUntilEmpty
    PROVE  NestingOK'
<1>1. PICK e \in Frame : e = [fn |-> "until_empty"]
  BY FrameTypes
<1>2. PICK r : r = [fn |-> "run", stopped |-> FALSE]
  OBVIOUS
<1>3. active' = TRUE /\ Harmless(e, active') /\ Harmless(r, active')
  BY <1>1, <1>2, HarmlessFrames DEF RunUntilEmpty, RunBody
<1>4. stack \in Seq(Frame) /\ StackAgrees(stack, Len(stack), active')
  BY AgreesSame DEF TypeOK
<1>5. PICK s : s = Append(stack, e)
  OBVIOUS
<1>6. PICK S : S = Frame \cup {e}
  OBVIOUS
<1>7. s \in Seq(S) /\ StackAgrees(s, Len(stack), active')
  BY <1>3, <1>4, <1>5, <1>6, AgreesPush
<1>8. stack' = Append(s, r)
  BY <1>1, <1>2, <1>5 DEF RunUntilEmpty, RunBody, Push
<1>9. StackAgrees(stack', Len(stack), active')
  BY <1>3, <1>7, <1>8, AgreesPush
<1> QED BY <1>3, <1>9, AgreesKeeps

\* A turn of run_until_complete that passes its check: no callback below is one
\* of the event waited for, since such an event would be locked.
LEMMA CheckedWait ==
    ASSUME IInv, NestingOK, stack # << >>, Top.fn = "until", Alive(Top.h), ~WouldDeadLock(Top)
    PROVE  \A j \in Calls : stack[j].h # Top.h
<1>1. PICK n \in Nat : n = Len(stack) /\ n \in 1 .. n /\ Top = stack[n]
  BY PopStack DEF IInv, Top
<1>2. CASE ~Stolen(Top.h)
  BY <1>2 DEF IInv, StolenIffCalled
<1>3. CASE Top.checked
  <2> SUFFICES ASSUME NEW j \in Calls PROVE stack[j].h # Top.h
    OBVIOUS
  <2>1. j \in 1 .. n /\ stack[j].fn = "call"
    BY <1>1 DEF Calls, IsCall
  <2>2. j < n
    BY <2>1, <1>1
  <2>3. n \in 1 .. Len(stack) /\ stack[n].fn = "until" /\ stack[n].checked
    BY <1>1, <1>3
  <2>4. stack[j].h # stack[n].h
    BY <2>2, <2>3 DEF NestingOK, WaitNeverOnSelf
  <2> QED BY <2>4, <1>1
<1> QED BY <1>2, <1>3 DEF WouldDeadLock

LEMMA UntilTurnNesting ==
    ASSUME IInv, NestingOK, UntilTurn
    PROVE  NestingOK'
<1>1. TypeOK /\ stack # << >> /\ Top.fn = "until" /\ active' = active
  BY DEF UntilTurn, Continues, TopIs, queues, IInv
<1>2. CASE stack' = Pop
  BY <1>1, <1>2, PopNesting
<1>3. CASE Alive(Top.h) /\ ~WouldDeadLock(Top) /\ CallRunOne(ReplaceTop([Top EXCEPT !.checked = TRUE]))
  <2>1. PICK n \in Nat : n = Len(stack) /\ n \in 1 .. n /\ Top = stack[n] /\ Top \in UntilFrame
    BY <1>1, PopStack, FrameKinds DEF Top
  <2>2. PICK f : f = [Top EXCEPT !.checked = TRUE]
    OBVIOUS
  <2>3. f \in Frame /\ f.fn = "until" /\ f.h = Top.h
    BY <2>1, <2>2 DEF UntilFrame, Frame
  <2>4. PICK r \in Frame : r = [fn |-> "run_one", at |-> "dispatch"] /\ r.fn = "run_one"
    BY FrameTypes
  <2>5. PICK s : s = ReplaceTop(f)
    OBVIOUS
  <2>6. /\ s \in Seq(Frame) /\ Len(s) = n
        /\ \A i \in 1 .. n : s[i] = IF i = n THEN f ELSE stack[i]
    BY <1>1, <2>1, <2>3, <2>5, ReplaceStack
  <2>7. stack' = Append(s, r)
    BY <1>3, <2>2, <2>4, <2>5 DEF CallRunOne
  <2>8. /\ Len(stack') = n + 1 /\ stack'[n + 1] = r /\ stack'[n] = f
        /\ \A i \in 1 .. n : i # n => stack'[i] = stack[i]
    BY <2>1, <2>6, <2>7, PushStack
  <2>9. \A i \in 1 .. n + 1 : i \in 1 .. n - 1 \/ i = n \/ i = n + 1
    BY <2>1
  <2>10. Calls' \subseteq 1 .. n - 1 /\ \A i \in Calls' : i \in Calls /\ stack'[i] = stack[i]
    BY <2>1, <2>3, <2>4, <2>8, <2>9 DEF Calls, IsCall
  <2>11. WaitNeverOnSelf'
    <3> SUFFICES ASSUME NEW i \in 1 .. Len(stack'), stack'[i].fn = "until", stack'[i].checked,
                        NEW j \in Calls', j < i
                 PROVE  stack'[j].h # stack'[i].h
      BY DEF WaitNeverOnSelf
    <3>1. CASE i = n
      BY <3>1, <1>1, <1>3, <2>3, <2>8, <2>10, CheckedWait
    <3>2. CASE i \in 1 .. n - 1
      BY <3>2, <2>1, <2>8, <2>10 DEF NestingOK, WaitNeverOnSelf
    <3>3. CASE i = n + 1
      BY <3>3, <2>4, <2>8
    <3> QED BY <3>1, <3>2, <3>3, <2>8, <2>9
  <2>12. UnstoppedRunsGoOn'
    <3> SUFFICES ASSUME NEW i \in RunFrames', ~stack'[i].stopped PROVE active
      BY <1>1 DEF UnstoppedRunsGoOn
    <3>1. i \in 1 .. n + 1 /\ stack'[i].fn = "run"
      BY <2>8 DEF RunFrames
    <3>2. i # n /\ i # n + 1
      BY <3>1, <2>3, <2>4, <2>8
    <3>3. i \in 1 .. n /\ stack'[i] = stack[i]
      BY <3>1, <3>2, <2>8
    <3>4. i \in RunFrames /\ ~stack[i].stopped
      BY <3>1, <3>3, <2>1 DEF RunFrames
    <3> QED BY <3>4 DEF NestingOK, UnstoppedRunsGoOn
  <2> QED BY <2>11, <2>12 DEF NestingOK
<1> QED BY <1>2, <1>3 DEF UntilTurn

LEMMA RunTurnNesting ==
    ASSUME TypeOK, NestingOK, RunTurn
    PROVE  NestingOK'
<1>1. stack # << >> /\ active' = active
  BY DEF RunTurn, Continues, TopIs
<1>2. CASE CallRunOne(stack)
  <2>1. PICK f : f = [fn |-> "run_one", at |-> "dispatch"]
    OBVIOUS
  <2>2. Harmless(f, active') /\ stack' = Append(stack, f)
    BY <1>2, <2>1, HarmlessFrames DEF CallRunOne
  <2> QED BY <1>1, <2>2, PushNesting
<1>3. CASE stack' = Pop
  BY <1>1, <1>3, PopNesting
<1> QED BY <1>2, <1>3 DEF RunTurn

\* stop marks all runs, and touches neither waits nor calls.
LEMMA StopNesting ==
    ASSUME TypeOK, NestingOK, Stop
    PROVE  NestingOK'
<1>1. PICK n \in Nat : n = Len(stack) /\ stack \in Seq(Frame)
  BY DEF TypeOK
<1>2. PICK r \in Frame : r = [fn |-> "run", stopped |-> TRUE] /\ r.fn = "run" /\ r.stopped
  <2>1. [fn |-> "run", stopped |-> TRUE] \in Frame
    BY FrameTypes
  <2> QED BY <2>1
<1>3. stack' = [i \in 1 .. n |-> IF i \in RunFrames THEN r ELSE stack[i]]
  BY <1>1, <1>2 DEF Stop
<1>4. /\ Len(stack') = n
      /\ \A i \in 1 .. n : stack'[i] = IF i \in RunFrames THEN r ELSE stack[i]
  <2> HIDE DEF RunFrames
  <2> QED BY <1>3
<1>5. \A i \in 1 .. n : stack'[i].fn \in {"until", "call"} =>
          stack'[i] = stack[i]
  BY <1>2, <1>4
<1>6. WaitNeverOnSelf'
  <2> SUFFICES ASSUME NEW i \in 1 .. Len(stack'), stack'[i].fn = "until", stack'[i].checked,
                      NEW j \in Calls', j < i
               PROVE  stack'[j].h # stack'[i].h
    BY DEF WaitNeverOnSelf
  <2>1. i \in 1 .. n /\ j \in 1 .. n /\ stack'[j].fn = "call"
    BY <1>4 DEF Calls, IsCall
  <2>2. stack'[i] = stack[i] /\ stack'[j] = stack[j] /\ j \in Calls
    BY <2>1, <1>1, <1>5 DEF Calls, IsCall
  <2> QED BY <2>1, <2>2, <1>1 DEF NestingOK, WaitNeverOnSelf
<1>7. UnstoppedRunsGoOn'
  <2> SUFFICES ASSUME NEW i \in RunFrames' PROVE stack'[i].stopped
    BY DEF UnstoppedRunsGoOn
  <2>1. i \in 1 .. n /\ stack'[i].fn = "run"
    BY <1>4 DEF RunFrames
  <2>2. i \in RunFrames
    BY <2>1, <1>1, <1>4 DEF RunFrames
  <2> QED BY <2>1, <2>2, <1>2, <1>4
<1> QED BY <1>6, <1>7 DEF NestingOK

LEMMA ReturnNesting ==
    ASSUME TypeOK, NestingOK, NEW resp, Return(resp)
    PROVE  NestingOK'
<1>1. stack # << >> /\ active' = active /\ (stack' = stack \/ stack' = Pop)
  BY DEF Return, InCallback, TopIs
<1> QED BY <1>1, SameStack, PopNesting

\* The other steps push or pop one frame, or leave the stack alone.
LEMMA UserNesting ==
    ASSUME IInv, NestingOK, UserCode
    PROVE  NestingOK'
<1>1. TypeOK
  BY DEF IInv
<1>2. CASE InsertExact \/ RunUntilEmpty \/ Stop
  BY <1>1, <1>2, InsertExactNesting, RunUntilEmptyNesting, StopNesting
<1>3. CASE RunOne
  BY <1>1, <1>3, PushNesting, HarmlessFrames DEF RunOne, Push
<1>4. CASE Run
  BY <1>1, <1>4, PushNesting, HarmlessFrames DEF Run, RunBody
<1>5. CASE WantIdle \/ (\E tp \in MsgType : ExpectMessage(tp))
           \/ (\E h \in issued : MakeChannel(h))
           \/ (\E h \in issued, tp \in MsgType : Send(h, tp))
  <2>1. stack' = stack /\ active' = active
    BY <1>5 DEF WantIdle, ExpectMessage, MakeChannel, Send
  <2> QED BY <1>1, <2>1, SameStack
<1>6. ASSUME NEW h \in issued, RunUntilComplete(h)
      PROVE  NestingOK'
  BY <1>1, <1>6, PushNesting, HarmlessFrames DEF RunUntilComplete, Push
<1>7. CASE \E h \in issued, tp \in MsgType : Post(h, tp)
  BY <1>1, <1>7, PostNesting
<1>8. CASE \E resp \in {"true", "false", "err"} : Return(resp)
  BY <1>1, <1>8, ReturnNesting
<1> QED BY <1>2, <1>3, <1>4, <1>5, <1>6, <1>7, <1>8 DEF UserCode

LEMMA LoopNesting ==
    ASSUME IInv, NestingOK, LoopCode
    PROVE  NestingOK'
<1>1. TypeOK
  BY DEF IInv
<1>2. CASE Dispatch \/ UntilTurn \/ RunTurn
  BY <1>1, <1>2, DispatchNesting, UntilTurnNesting, RunTurnNesting
<1>3. CASE Poll \/ ReceiveDone \/ GatherIdle
  BY <1>1, <1>3, GoToNesting DEF Poll, ReceiveDone, GatherIdle
<1>4. CASE Receive
  BY <1>1, <1>4, SameStack DEF Receive
<1>5. CASE \/ InsertDone \/ GatherEmpty \/ PollFailed \/ RunUntilEmptyDone
           \/ Propagate("until") \/ Propagate("run")
  <2>1. stack # << >> /\ stack' = Pop /\ active' = active
    BY <1>5 DEF InsertDone, GatherEmpty, PollFailed, RunOneAt, RunUntilEmptyDone, Propagate, TopIs
  <2> QED BY <1>1, <2>1, PopNesting
<1> QED BY <1>2, <1>3, <1>4, <1>5 DEF LoopCode

LEMMA NestingStep == IInv /\ NestingOK /\ [Next]_vars => NestingOK'
<1> SUFFICES ASSUME IInv, NestingOK, [Next]_vars PROVE NestingOK'
  OBVIOUS
<1>1. CASE OtherThreads \/ UNCHANGED vars
  <2>1. stack' = stack /\ active' = active
    BY <1>1 DEF OtherThreads, ChannelSend, vars
  <2> QED BY <2>1, SameStack DEF IInv
<1> QED BY <1>1, UserNesting, LoopNesting DEF Next

LEMMA NestingInit == Init => NestingOK
BY DEF Init, NestingOK, WaitNeverOnSelf, UnstoppedRunsGoOn, RunFrames

-----------------------------------------------------------------------------
(* The theorems.                                                           *)

\* run_until_complete checks for a deadlock on its first turn only.  That is
\* enough: however deep loops and callbacks nest, no wait past that turn has a
\* callback of the event it waits for below it.
THEOREM OneCheckIsEnough == Spec => []WaitNeverOnSelf
<1>1. NestingOK => WaitNeverOnSelf
  BY DEF NestingOK
<1> QED BY <1>1, InitStep, NextStep, NestingInit, NestingStep, PTL DEF Spec

\* Although nested runs share one flag, a run that nobody stopped while it was on
\* the stack finds the flag set, and goes on.
THEOREM RunsGoOnUntilStopped == Spec => []UnstoppedRunsGoOn
<1>1. NestingOK => UnstoppedRunsGoOn
  BY DEF NestingOK
<1> QED BY <1>1, InitStep, NextStep, NestingInit, NestingStep, PTL DEF Spec

-----------------------------------------------------------------------------
(***************************************************************************)
(* Proofs about what is delivered to events in EventLoop: who waits to be  *)
(* idle, and which messages reach an event.                                *)
(*                                                                         *)
(* Both rest on what one step can do to the events: only the return of a   *)
(* callback removes one, nothing brings one back under an old generation,  *)
(* and a living event never expects fewer types than before.               *)
(***************************************************************************)

\* All events stay, under their generations, and expect at least what they did.
EventsStay ==
    \A id : Valid(events, id) =>
        /\ Valid(events', id)
        /\ At(events', id).gen = At(events, id).gen
        /\ At(events, id).expects \subseteq At(events', id).expects

\* The event on the top of the stack goes, and with it its wish to be idle.
EventGoes ==
    /\ TopIs("call")
    /\ events' = Release(events, Top.h.id)
    /\ want_idle' = RemoveKey(want_idle, Top.h)
    /\ UNCHANGED << scheduled, generation >>

\* Events that are there before and after a step expect at least what they did.
ExpectsGrow ==
    \A id : Valid(events, id) /\ Valid(events', id) =>
        At(events, id).expects \subseteq At(events', id).expects

-----------------------------------------------------------------------------
(* What steps do to events.                                                *)

LEMMA SameEventsStay == events' = events => EventsStay
BY DEF EventsStay

LEMMA LockStays ==
    ASSUME IInv, NEW h \in Handle, Alive(h), NEW b \in BOOLEAN, events' = SetStolen(h, b)
    PROVE  EventsStay
<1>1. PICK after : after = SetStolen(h, b) /\ after = events'
  OBVIOUS
<1>2. /\ \A id : Valid(after, id) <=> Valid(events, id)
      /\ At(after, h.id).gen = h.gen
      /\ At(after, h.id).expects = At(events, h.id).expects
      /\ \A id : Valid(events, id) /\ id # h.id => At(after, id) = At(events, id)
  BY <1>1, SetStolenFacts DEF IInv
<1> QED BY <1>1, <1>2 DEF EventsStay, Alive

LEMMA InsertStays ==
    ASSUME IInv, InsertExact
    PROVE  EventsStay
<1>1. PICK holder : holder = [gen |-> generation, stolen |-> TRUE, expects |-> {}]
  OBVIOUS
<1>2. events' = Store(events, holder)
  BY <1>1, Zenon DEF InsertExact
<1>3. PICK s \in BOOLEAN, none \in SUBSET MsgType : s = TRUE /\ none = {}
  OBVIOUS
<1>4. holder \in Holder
  BY <1>1, <1>3 DEF IInv, TypeOK, Holder
<1>5. PICK after : after = Store(events, holder) /\ after = events'
  BY <1>2
<1>6. /\ \A id : Valid(events, id) => Valid(after, id)
      /\ \A id : Valid(events, id) => At(after, id) = At(events, id)
  BY <1>4, <1>5, HolderStore DEF IInv, TypeOK
<1> QED BY <1>5, <1>6 DEF EventsStay

LEMMA ExpectStays ==
    ASSUME IInv, NEW tp \in MsgType, ExpectMessage(tp)
    PROVE  EventsStay
<1>1. TopIs("call")
  BY DEF ExpectMessage, InCallback
<1>2. PICK h \in Handle : h = Top.h /\ Alive(h)
  BY <1>1, CallTop DEF IInv, Alive
<1>3. PICK after : after = AddExpected(h, tp) /\ after = events'
  BY <1>2 DEF ExpectMessage
<1>4. /\ \A id : Valid(after, id) <=> Valid(events, id)
      /\ At(after, h.id).gen = h.gen
      /\ At(events, h.id).expects \subseteq At(after, h.id).expects
      /\ \A id : Valid(events, id) /\ id # h.id => At(after, id) = At(events, id)
  <2>1. TypeOK /\ RecyclerOK(events)
    BY DEF IInv
  <2>2. /\ \A id : Valid(AddExpected(h, tp), id) <=> Valid(events, id)
        /\ At(AddExpected(h, tp), h.id).gen = h.gen
        /\ At(events, h.id).expects \subseteq At(AddExpected(h, tp), h.id).expects
        /\ \A id : Valid(events, id) /\ id # h.id =>
               At(AddExpected(h, tp), id) = At(events, id)
    BY <2>1, <1>2, AddExpectedFacts, Zenon
  <2> QED BY <2>2, <1>3, Zenon
<1> QED BY <1>2, <1>3, <1>4 DEF EventsStay, Alive

LEMMA EventCallStays ==
    ASSUME IInv, NEW h \in Handle, NEW what, NEW s, EventCall(h, what, s)
    PROVE  EventsStay
<1>1. CASE events' = events
  BY <1>1, SameEventsStay
<1>2. CASE Alive(h) /\ events' = SetStolen(h, TRUE)
  <2>1. PICK b \in BOOLEAN : b = TRUE
    OBVIOUS
  <2> QED BY <1>2, <2>1, LockStays
<1> QED BY <1>1, <1>2 DEF EventCall

LEMMA PostStays ==
    ASSUME IInv, NEW h \in issued, NEW tp, Post(h, tp)
    PROVE  EventsStay
<1>1. h \in Handle
  BY DEF IInv, TypeOK
<1> QED BY <1>1, SameEventsStay, EventCallStays DEF Post

LEMMA DispatchStays ==
    ASSUME IInv, Dispatch
    PROVE  EventsStay
<1>1. scheduled \in Seq(Task) /\ scheduled # << >>
  BY DEF Dispatch, IInv, TypeOK
<1>2. PICK task \in Task : task = Head(scheduled)
  BY <1>1
<1>3. task.to \in Handle
  BY DEF Task
<1> QED BY <1>2, <1>3, SameEventsStay, EventCallStays DEF Dispatch

LEMMA ReturnStays ==
    ASSUME IInv, NEW resp \in {"true", "false", "err"}, Return(resp)
    PROVE  (EventsStay /\ want_idle' = want_idle) \/ EventGoes
<1>1. TopIs("call")
  BY DEF Return, InCallback
<1>2. PICK h \in Handle : h = Top.h /\ Alive(h)
  BY <1>1, CallTop DEF IInv, Alive
<1>3. CASE events' = events /\ want_idle' = want_idle
  BY <1>3, SameEventsStay
<1>4. CASE events' = SetStolen(Top.h, FALSE) /\ want_idle' = want_idle
  <2>1. PICK b \in BOOLEAN : b = FALSE
    OBVIOUS
  <2> QED BY <1>2, <1>4, <2>1, LockStays
<1>5. CASE Kill(Top.h)
  BY <1>1, <1>5 DEF EventGoes, Kill, Return
<1> QED BY <1>3, <1>4, <1>5 DEF Return

\* Every step lets all events stay but the return of a callback.
LEMMA StepsOnEvents ==
    ASSUME IInv, [Next]_vars
    PROVE  EventsStay \/ EventGoes
<1>1. CASE events' = events
  BY <1>1, SameEventsStay
<1>2. CASE \E h \in issued, tp \in MsgType : Post(h, tp)
  BY <1>2, PostStays
<1>3. UserCode => \/ events' = events \/ InsertExact
                  \/ \E h \in issued, tp \in MsgType : Post(h, tp)
                  \/ \E resp \in {"true", "false", "err"} : Return(resp)
                  \/ \E tp \in MsgType : ExpectMessage(tp)
  BY DEF UserCode, RunOne, Run, RunBody, RunUntilEmpty, Stop, WantIdle, RunUntilComplete,
         MakeChannel, Send, storage
<1>4. LoopCode => events' = events \/ Dispatch
  BY DEF LoopCode, InsertDone, GatherEmpty, Poll, PollFailed, Receive, ReceiveDone, GatherIdle,
         UntilTurn, RunTurn, RunUntilEmptyDone, Propagate, storage
<1>5. OtherThreads \/ UNCHANGED vars => events' = events
  BY DEF OtherThreads, ChannelSend, vars, storage
<1> QED BY <1>1, <1>2, <1>3, <1>4, <1>5, InsertStays, DispatchStays, ReturnStays, ExpectStays
        DEF Next

\* The event that goes is the called one; the others are not touched.
LEMMA GoesFacts ==
    ASSUME IInv, EventGoes
    PROVE  /\ Alive(Top.h) /\ Top.h \in Handle
           /\ \A id : Valid(events', id) <=> Valid(events, id) /\ id # Top.h.id
           /\ \A id : Valid(events, id) /\ id # Top.h.id => At(events', id) = At(events, id)
<1>1. PICK h \in Handle : h = Top.h /\ Valid(events, h.id) /\ At(events, h.id).gen = h.gen
  BY CallTop DEF EventGoes, IInv
<1>2. PICK after : after = events' /\ after = Release(events, h.id)
  BY <1>1 DEF EventGoes
<1>3. events \in RecyclerOf(Holder) /\ RecyclerOK(events)
  BY DEF IInv, TypeOK
<1>4. /\ \A id : Valid(after, id) <=> Valid(events, id) /\ id # h.id
      /\ \A id : Valid(events, id) /\ id # h.id => At(after, id) = At(events, id)
  BY <1>1, <1>2, <1>3, ReleaseFacts
<1> QED BY <1>1, <1>2, <1>4 DEF Alive

LEMMA ExpectsKept ==
    ASSUME IInv, [Next]_vars
    PROVE  ExpectsGrow
<1>1. CASE EventsStay
  BY <1>1 DEF EventsStay, ExpectsGrow
<1>2. CASE EventGoes
  BY <1>2, GoesFacts DEF ExpectsGrow
<1> QED BY <1>1, <1>2, StepsOnEvents
-----------------------------------------------------------------------------
(* Who waits to be idle.                                                   *)

\* Removing a key from a list without duplicates leaves exactly the others.
LEMMA RemoveKeyFacts ==
    ASSUME NEW S, NEW s \in Seq(S), NEW h,
           \A j, k \in 1 .. Len(s) : s[j] = s[k] => j = k
    PROVE  /\ \A j \in 1 .. Len(RemoveKey(s, h)) :
                  /\ RemoveKey(s, h)[j] # h
                  /\ \E k \in 1 .. Len(s) : RemoveKey(s, h)[j] = s[k]
           /\ \A j, k \in 1 .. Len(RemoveKey(s, h)) :
                  RemoveKey(s, h)[j] = RemoveKey(s, h)[k] => j = k
<1>1. CASE \E k \in 1 .. Len(s) : s[k] = h
  <2>1. PICK k \in 1 .. Len(s) : k = CHOOSE i \in 1 .. Len(s) : s[i] = h
    BY <1>1
  <2>2. s[k] = h
    BY <1>1, <2>1
  <2>3. PICK n \in Nat : n = Len(s) - 1
    BY <2>1
  <2>4. PICK t : t = RemoveKey(s, h) /\ t = [i \in 1 .. n |-> IF i < k THEN s[i] ELSE s[i + 1]]
    BY <1>1, <2>1, <2>3 DEF RemoveKey
  <2>5. Len(t) = n
    BY <2>3, <2>4
  <2>6. \A j \in 1 .. n : /\ t[j] # h
                          /\ \E i \in 1 .. Len(s) : t[j] = s[i]
    <3> SUFFICES ASSUME NEW j \in 1 .. n
                 PROVE  t[j] # h /\ \E i \in 1 .. Len(s) : t[j] = s[i]
      OBVIOUS
    <3>1. k \in Nat /\ Len(s) \in Nat /\ n + 1 = Len(s) /\ k <= Len(s) /\ j \in Nat
      BY <2>3
    <3>2. t[j] = IF j < k THEN s[j] ELSE s[j + 1]
      BY <2>4
    <3>3. PICK i \in 1 .. Len(s) : t[j] = s[i] /\ i # k
      <4>1. CASE j < k
        BY <3>1, <3>2, <4>1
      <4>2. CASE ~(j < k)
        BY <3>1, <3>2, <4>2
      <4> QED BY <4>1, <4>2
    <3>4. s[i] # h
      BY <2>2, <3>3
    <3> QED BY <3>3, <3>4
  <2>7. \A i, j \in 1 .. n : t[i] = t[j] => i = j
    BY <2>1, <2>3, <2>4
  <2> QED BY <2>4, <2>5, <2>6, <2>7
<1>2. CASE ~\E k \in 1 .. Len(s) : s[k] = h
  BY <1>2 DEF RemoveKey
<1> QED BY <1>1, <1>2

\* The list of waiters is left alone by all steps but three.
LEMMA StepsOnWaiters ==
    ASSUME IInv, [Next]_vars
    PROVE  \/ want_idle' = want_idle /\ EventsStay
           \/ WantIdle
           \/ GatherIdle
           \/ EventGoes
<1>1. CASE \E resp \in {"true", "false", "err"} : Return(resp)
  BY <1>1, ReturnStays
<1>2. UserCode => \/ want_idle' = want_idle \/ WantIdle
                  \/ \E resp \in {"true", "false", "err"} : Return(resp)
  BY DEF UserCode, InsertExact, RunOne, Run, RunBody, RunUntilEmpty, Stop, ExpectMessage,
         RunUntilComplete, MakeChannel, Send, Post, queues
<1>3. LoopCode => want_idle' = want_idle \/ GatherIdle
  BY DEF LoopCode, InsertDone, GatherEmpty, Poll, PollFailed, Receive, ReceiveDone, Dispatch,
         UntilTurn, RunTurn, RunUntilEmptyDone, Propagate, queues
<1>4. OtherThreads \/ UNCHANGED vars => want_idle' = want_idle
  BY DEF OtherThreads, ChannelSend, vars
<1> QED BY <1>1, <1>2, <1>3, <1>4, StepsOnEvents DEF Next

\* An event that stays keeps its handle alive.
LEMMA StayAlive ==
    ASSUME EventsStay, NEW h, Alive(h)
    PROVE  Alive(h)'
BY DEF EventsStay, Alive

LEMMA IdleStep ==
    ASSUME IInv, IdleWaitersAlive, [Next]_vars
    PROVE  IdleWaitersAlive'
<1>1. want_idle \in Seq(Handle)
  BY DEF IInv, TypeOK
<1>2. CASE want_idle' = want_idle /\ EventsStay
  <2>1. \A k \in 1 .. Len(want_idle) : Alive(want_idle[k])'
    BY <1>2, StayAlive DEF IdleWaitersAlive
  <2> QED BY <1>2, <2>1 DEF IdleWaitersAlive
<1>3. CASE WantIdle
  <2>1. TopIs("call")
    BY <1>3 DEF WantIdle, InCallback
  <2>2. PICK h \in Handle : h = Top.h /\ Alive(h)
    BY <2>1, CallTop DEF IInv, Alive
  <2>3. PICK t \in Seq(Handle) : t = RemoveKey(want_idle, h)
    BY <1>1, RemoveKeyType
  <2>4. /\ \A j \in 1 .. Len(t) : t[j] # h /\ \E k \in 1 .. Len(want_idle) : t[j] = want_idle[k]
        /\ \A j, k \in 1 .. Len(t) : t[j] = t[k] => j = k
    BY <1>1, <2>3, RemoveKeyFacts DEF IdleWaitersAlive
  <2>5. \A j \in 1 .. Len(t) : Alive(t[j])
    BY <2>4 DEF IdleWaitersAlive
  <2>6. want_idle' = Append(t, h) /\ events' = events
    BY <1>3, <2>2, <2>3 DEF WantIdle, storage
  <2>7. /\ Len(want_idle') = Len(t) + 1
        /\ \A j \in 1 .. Len(t) : want_idle'[j] = t[j]
        /\ want_idle'[Len(t) + 1] = h
    BY <2>3, <2>6
  <2>8. \A j \in 1 .. Len(want_idle') : Alive(want_idle'[j])
    BY <2>2, <2>5, <2>7
  <2>9. \A j, k \in 1 .. Len(want_idle') : want_idle'[j] = want_idle'[k] => j = k
    BY <2>4, <2>7
  <2> QED BY <2>6, <2>8, <2>9 DEF IdleWaitersAlive, Alive
<1>4. CASE GatherIdle
  <2>1. events' = events
    BY <1>4 DEF GatherIdle, storage
  <2>2. CASE want_idle' = want_idle
    BY <2>1, <2>2 DEF IdleWaitersAlive, Alive
  <2>3. CASE want_idle # << >> /\ want_idle' = Tail(want_idle)
    <3>1. /\ Len(want_idle') = Len(want_idle) - 1 /\ Len(want_idle) \in Nat
          /\ \A k \in 1 .. Len(want_idle) - 1 : want_idle'[k] = want_idle[k + 1]
      BY <1>1, <2>3
    <3>2. \A k \in 1 .. Len(want_idle') : Alive(want_idle'[k])
      BY <3>1 DEF IdleWaitersAlive
    <3>3. \A j, k \in 1 .. Len(want_idle') : want_idle'[j] = want_idle'[k] => j = k
      BY <3>1 DEF IdleWaitersAlive
    <3> QED BY <2>1, <3>2, <3>3 DEF IdleWaitersAlive, Alive
  <2> QED BY <1>4, <2>2, <2>3 DEF GatherIdle
<1>5. CASE EventGoes
  <2>1. PICK h \in Handle : h = Top.h /\ Alive(h)
    BY <1>5, GoesFacts
  <2>2. /\ \A id : Valid(events, id) /\ id # h.id => Valid(events', id)
        /\ \A id : Valid(events, id) /\ id # h.id => At(events', id) = At(events, id)
    BY <1>5, <2>1, GoesFacts
  <2>3. PICK t \in Seq(Handle) : t = RemoveKey(want_idle, h)
    BY <1>1, RemoveKeyType
  <2>4. /\ \A j \in 1 .. Len(t) : t[j] # h /\ \E k \in 1 .. Len(want_idle) : t[j] = want_idle[k]
        /\ \A j, k \in 1 .. Len(t) : t[j] = t[k] => j = k
    BY <1>1, <2>3, RemoveKeyFacts DEF IdleWaitersAlive
  <2>5. ASSUME NEW g \in Handle, g # h, Alive(g) PROVE Alive(g)'
    <3>1. g.id # h.id
      BY <2>1, <2>5 DEF Alive, Handle
    <3> QED BY <2>2, <2>5, <3>1 DEF Alive
  <2>6. \A j \in 1 .. Len(t) : Alive(t[j])'
    BY <2>3, <2>4, <2>5 DEF IdleWaitersAlive
  <2>7. want_idle' = t
    BY <1>5, <2>1, <2>3 DEF EventGoes
  <2> QED BY <2>4, <2>6, <2>7 DEF IdleWaitersAlive
<1> QED BY <1>2, <1>3, <1>4, <1>5, StepsOnWaiters

\* Nobody dead waits to be idle, and nobody waits twice: event_kill takes the
\* wish away with the event, and idle moves a key that is there.
THEOREM OnlyTheLivingWait == Spec => []IdleWaitersAlive
<1>1. Init => IdleWaitersAlive
  BY DEF Init, IdleWaitersAlive
<1>2. IInv /\ IdleWaitersAlive /\ [Next]_vars => IInv' /\ IdleWaitersAlive'
  BY NextStep, IdleStep
<1> QED BY <1>1, <1>2, InitStep, PTL DEF Spec
-----------------------------------------------------------------------------
(* Which messages reach an event.                                          *)

\* Every waiting message is for an event that was there before.
TasksPast ==
    \A k \in 1 .. Len(scheduled) :
        scheduled[k].what \in MsgType => scheduled[k].to.gen < generation

DeliveryOK == OnlyExpected /\ TasksPast

\* What is called after a step was called before it, is no message, or passes
\* the check of its type; and the same for what is scheduled.
CallsFrom ==
    \A i \in Calls' :
        \/ i \in Calls /\ stack'[i] = stack[i]
        \/ stack'[i].what \notin MsgType
        \/ MsgTypeCheck(stack'[i].h, stack'[i].what) = "Ok"

TasksFrom ==
    \A k \in 1 .. Len(scheduled') :
        \/ \E j \in 1 .. Len(scheduled) : scheduled'[k] = scheduled[j]
        \/ scheduled'[k].what \notin MsgType
        \/ MsgTypeCheck(scheduled'[k].to, scheduled'[k].what) = "Ok"

\* The check passes for a living event that expects the type.
LEMMA CheckFacts ==
    ASSUME NEW h, NEW tp
    PROVE  MsgTypeCheck(h, tp) = "Ok" <=> Alive(h) /\ tp \in At(events, h.id).expects
BY DEF MsgTypeCheck

LEMMA EventCallFrom ==
    ASSUME IInv, NEW h \in Handle, NEW what, NEW s \in Seq(Frame),
           Len(s) <= Len(stack), \A i \in 1 .. Len(s) : s[i] = stack[i],
           Alive(h) /\ what \in MsgType => MsgTypeCheck(h, what) = "Ok",
           EventCall(h, what, s)
    PROVE  CallsFrom
<1>1. PICK n \in Nat, m \in Nat : n = Len(s) /\ m = Len(stack) /\ n <= m
  BY DEF IInv, TypeOK
<1>2. CASE stack' = s
  BY <1>1, <1>2 DEF CallsFrom, Calls, IsCall
<1>3. CASE Alive(h) /\ stack' = Append(s, Called(h, what))
  <2>0. Called(h, what).h = h /\ Called(h, what).what = what
    BY DEF Called
  <2>1. PICK f : f = Called(h, what) /\ f.h = h /\ f.what = what
    BY <2>0
  <2>2. PICK S : S = Frame \cup {f}
    OBVIOUS
  <2>3. s \in Seq(S)
    BY <2>2
  <2>4. /\ Len(stack') = n + 1 /\ stack'[n + 1] = f
        /\ \A i \in 1 .. n : stack'[i] = s[i]
    BY <1>1, <1>3, <2>1, <2>2, <2>3, AppendProperties
  <2> SUFFICES ASSUME NEW i \in Calls'
               PROVE  \/ i \in Calls /\ stack'[i] = stack[i]
                      \/ stack'[i].what \notin MsgType
                      \/ MsgTypeCheck(stack'[i].h, stack'[i].what) = "Ok"
    BY DEF CallsFrom
  <2>5. i \in 1 .. n + 1 /\ stack'[i].fn = "call"
    BY <2>4 DEF Calls, IsCall
  <2>6. CASE i = n + 1
    BY <2>6, <2>4, <2>1, <1>3
  <2>7. CASE i \in 1 .. n
    BY <2>7, <2>4, <2>5, <1>1 DEF Calls, IsCall
  <2> QED BY <2>5, <2>6, <2>7
<1> QED BY <1>2, <1>3 DEF EventCall

LEMMA PostFrom ==
    ASSUME IInv, NEW h \in issued, NEW tp \in MsgType, Post(h, tp)
    PROVE  CallsFrom
<1>1. CASE stack' = stack
  BY <1>1 DEF CallsFrom, Calls, IsCall
<1>2. CASE MsgTypeCheck(h, tp) = "Ok" /\ EventCall(h, tp, stack)
  <2>1. h \in Handle /\ stack \in Seq(Frame) /\ Len(stack) <= Len(stack)
    BY DEF IInv, TypeOK
  <2> QED BY <1>2, <2>1, EventCallFrom
<1> QED BY <1>1, <1>2 DEF Post

LEMMA DispatchFrom ==
    ASSUME IInv, OnlyExpected, Dispatch
    PROVE  CallsFrom
<1>1. scheduled \in Seq(Task) /\ scheduled # << >>
  BY DEF Dispatch, IInv, TypeOK
<1>2. PICK task \in Task : task = Head(scheduled) /\ task = scheduled[1] /\ 1 \in 1 .. Len(scheduled)
  BY <1>1
<1>3. CASE stack' = stack
  BY <1>3 DEF CallsFrom, Calls, IsCall
<1>4. CASE EventCall(task.to, task.what, Pop)
  <2>1. stack # << >>
    BY DEF Dispatch, RunOneAt, TopIs
  <2>2. Pop \in Seq(Frame) /\ Len(Pop) <= Len(stack) /\ \A i \in 1 .. Len(Pop) : Pop[i] = stack[i]
    BY <2>1, PopStack DEF IInv, TypeOK
  <2>3. task.to \in Handle
    BY DEF Task
  <2>4. Alive(task.to) /\ task.what \in MsgType => MsgTypeCheck(task.to, task.what) = "Ok"
    BY <1>2, CheckFacts DEF OnlyExpected
  <2> QED BY <1>4, <2>2, <2>3, <2>4, EventCallFrom
<1> QED BY <1>2, <1>3, <1>4 DEF Dispatch

LEMMA PopFrom ==
    ASSUME IInv, stack # << >>, stack' = Pop
    PROVE  CallsFrom
<1>1. PICK n \in Nat : n = Len(stack)
  BY DEF IInv, TypeOK
<1>2. Len(stack') = n - 1 /\ \A i \in 1 .. n - 1 : stack'[i] = stack[i]
  BY <1>1, PopStack DEF IInv
<1> QED BY <1>1, <1>2 DEF CallsFrom, Calls, IsCall

LEMMA InsertFrom ==
    ASSUME IInv, InsertExact
    PROVE  CallsFrom
<1>1. PICK h, ptr : stack' = stack \o << [fn |-> "insert", h |-> h],
                                         [fn |-> "call", h |-> h, what |-> "init",
                                          ptr |-> ptr] >>
  BY Zenon DEF InsertExact
<1>2. PICK f, g : /\ f = [fn |-> "insert", h |-> h]
                  /\ g = [fn |-> "call", h |-> h, what |-> "init", ptr |-> ptr]
  OBVIOUS
<1>3. f.fn = "insert" /\ g.what = "init" /\ "init" \notin MsgType
  BY <1>2, ConstantsOK DEF ConstantsOK
<1>4. PICK n \in Nat : n = Len(stack) /\ stack \in Seq(Frame)
  BY DEF IInv, TypeOK
<1>5. stack' = stack \o << f, g >>
  BY <1>1, <1>2
<1>6. /\ Len(stack') = n + 2 /\ stack'[n + 1] = f /\ stack'[n + 2] = g
      /\ \A i \in 1 .. n : stack'[i] = stack[i]
  BY <1>4, <1>5
<1> SUFFICES ASSUME NEW i \in Calls'
             PROVE  \/ i \in Calls /\ stack'[i] = stack[i]
                    \/ stack'[i].what \notin MsgType
  BY DEF CallsFrom
<1>7. i \in 1 .. n + 2 /\ stack'[i].fn = "call"
  BY <1>6 DEF Calls, IsCall
<1>8. i \in 1 .. n \/ i = n + 1 \/ i = n + 2
  BY <1>7
<1> QED BY <1>3, <1>4, <1>6, <1>7, <1>8 DEF Calls, IsCall

LEMMA SameFrom ==
    ASSUME SameCalls
    PROVE  CallsFrom
BY DEF SameCalls, CallsFrom

\* Every call and every task after a step has a legal origin before it.
LEMMA StepsOnCalls ==
    ASSUME IInv, OnlyExpected, [Next]_vars
    PROVE  CallsFrom
<1>1. CASE UserCode
  <2>1. CASE RunOne \/ Run \/ RunUntilEmpty \/ Stop \/ WantIdle
             \/ (\E h \in issued : RunUntilComplete(h) \/ MakeChannel(h))
             \/ (\E h \in issued, tp \in MsgType : Send(h, tp))
    BY <2>1, RunOneStep, RunStep, RunUntilEmptyStep, StopStep, WantIdleStep,
       RunUntilCompleteStep, MakeChannelStep, SendStep, SameFrom
  <2>2. CASE \E tp \in MsgType : ExpectMessage(tp)
    BY <2>2 DEF ExpectMessage, CallsFrom, Calls, IsCall
  <2>3. CASE \E resp \in {"true", "false", "err"} : Return(resp)
    <3>1. stack # << >> /\ (stack' = stack \/ stack' = Pop)
      BY <2>3 DEF Return, InCallback, TopIs
    <3>2. stack' = stack => CallsFrom
      BY DEF CallsFrom, Calls, IsCall
    <3> QED BY <3>1, <3>2, PopFrom
  <2> QED BY <1>1, <2>1, <2>2, <2>3, InsertFrom, PostFrom DEF UserCode
<1>2. CASE LoopCode
  BY <1>2, InsertDoneStep, GatherEmptyStep, PollStep, PollFailedStep, ReceiveStep, ReceiveDoneStep,
     GatherIdleStep, DispatchFrom, UntilTurnStep, RunTurnStep, RunUntilEmptyDoneStep,
     PropagateStep, SameFrom DEF LoopCode
<1>3. CASE OtherThreads
  BY <1>3, ChannelSendStep, SameFrom DEF OtherThreads
<1>4. CASE UNCHANGED vars
  BY <1>4 DEF vars, CallsFrom, Calls, IsCall
<1> QED BY <1>1, <1>2, <1>3, <1>4 DEF Next

\* Putting one task more into the queue.
LEMMA AppendFrom ==
    ASSUME IInv, NEW task \in Task, scheduled' = Append(scheduled, task),
           MsgTypeCheck(task.to, task.what) = "Ok"
    PROVE  TasksFrom
<1>1. scheduled \in Seq(Task)
  BY DEF IInv, TypeOK
<1>2. PICK n \in Nat : n = Len(scheduled)
  BY <1>1
<1>3. /\ Len(scheduled') = n + 1 /\ scheduled'[n + 1] = task
      /\ \A k \in 1 .. n : scheduled'[k] = scheduled[k]
  BY <1>1, <1>2, AppendProperties
<1> SUFFICES ASSUME NEW k \in 1 .. n + 1
             PROVE  \/ \E j \in 1 .. n : scheduled'[k] = scheduled[j]
                    \/ MsgTypeCheck(scheduled'[k].to, scheduled'[k].what) = "Ok"
  BY <1>2, <1>3 DEF TasksFrom
<1>4. k \in 1 .. n \/ k = n + 1
  OBVIOUS
<1> QED BY <1>3, <1>4

LEMMA StepsOnTasks ==
    ASSUME IInv, [Next]_vars
    PROVE  TasksFrom
<1>1. scheduled \in Seq(Task) /\ inbox \in Seq(Letter)
  BY DEF IInv, TypeOK
<1>2. CASE scheduled' = scheduled
  BY <1>2 DEF TasksFrom
<1>3. ASSUME NEW h \in issued, NEW tp \in MsgType, Send(h, tp)
      PROVE  TasksFrom
  <2>1. CASE MsgTypeCheck(h, tp) = "Ok"
    <3>1. PICK task : task = [to |-> h, what |-> tp]
      OBVIOUS
    <3>2. task \in Task /\ task.to = h /\ task.what = tp
      BY <3>1 DEF IInv, TypeOK, Task
    <3>3. scheduled' = Append(scheduled, task)
      BY <1>3, <2>1, <3>1 DEF Send
    <3> QED BY <2>1, <3>2, <3>3, AppendFrom
  <2>2. CASE MsgTypeCheck(h, tp) # "Ok"
    BY <1>2, <1>3, <2>2 DEF Send
  <2> QED BY <2>1, <2>2
<1>4. CASE Receive
  <2>1. PICK letter \in Letter : letter = Head(inbox)
    BY <1>1, <1>4 DEF Receive
  <2>2. CASE Accepts(letter)
    <3>1. letter \in Task /\ MsgTypeCheck(letter.to, letter.what) = "Ok"
      BY <2>2 DEF Accepts, Letter, Task
    <3>2. scheduled' = Append(scheduled, letter)
      BY <1>4, <2>1, <2>2 DEF Receive
    <3> QED BY <3>1, <3>2, AppendFrom
  <2>3. CASE ~Accepts(letter)
    BY <1>2, <1>4, <2>1, <2>3 DEF Receive
  <2> QED BY <2>2, <2>3
<1>5. CASE GatherIdle
  <2>1. CASE \E h : scheduled' = << [to |-> h, what |-> "idle"] >>
    <3>1. \A k \in 1 .. Len(scheduled') : scheduled'[k].what = "idle"
      BY <2>1
    <3> QED BY <3>1, ConstantsOK DEF TasksFrom, ConstantsOK
  <2> QED BY <1>2, <1>5, <2>1 DEF GatherIdle
<1>6. CASE Dispatch
  <2>1. scheduled # << >> /\ scheduled' = Tail(scheduled)
    BY <1>6 DEF Dispatch
  <2>2. /\ Len(scheduled') = Len(scheduled) - 1
        /\ \A k \in 1 .. Len(scheduled) - 1 : /\ k + 1 \in 1 .. Len(scheduled)
                                              /\ scheduled'[k] = scheduled[k + 1]
    BY <1>1, <2>1
  <2> QED BY <2>2 DEF TasksFrom
<1>7. UserCode => \/ scheduled' = scheduled
                  \/ \E h \in issued, tp \in MsgType : Send(h, tp)
  BY DEF UserCode, InsertExact, RunOne, Run, RunBody, RunUntilEmpty, Stop, ExpectMessage,
         WantIdle, RunUntilComplete, MakeChannel, Post, Return, queues
<1>8. LoopCode => scheduled' = scheduled \/ Receive \/ GatherIdle \/ Dispatch
  BY DEF LoopCode, InsertDone, GatherEmpty, Poll, PollFailed, ReceiveDone,
         UntilTurn, RunTurn, RunUntilEmptyDone, Propagate, queues
<1>9. OtherThreads \/ UNCHANGED vars => scheduled' = scheduled
  BY DEF OtherThreads, ChannelSend, vars
<1> QED BY <1>2, <1>3, <1>4, <1>5, <1>6, <1>7, <1>8, <1>9 DEF Next

\* The counter of generations never goes back.
LEMMA GenerationGrows ==
    ASSUME IInv, [Next]_vars
    PROVE  generation' \in {generation, generation + 1}
<1>1. generation' = generation \/ InsertExact
  BY DEF Next, UserCode, RunOne, Run, RunBody, RunUntilEmpty, Stop, ExpectMessage,
         WantIdle, RunUntilComplete, MakeChannel, Post, Return, Send, LoopCode, InsertDone,
         GatherEmpty, Poll, PollFailed, Receive, ReceiveDone, GatherIdle, Dispatch, UntilTurn, RunTurn,
         RunUntilEmptyDone, Propagate, OtherThreads, ChannelSend, vars, storage
<1> QED BY <1>1, InsertExactStep

LEMMA DeliveryStep ==
    ASSUME IInv, DeliveryOK, [Next]_vars
    PROVE  DeliveryOK'
<1>1. IInv' /\ CallsFrom /\ TasksFrom /\ ExpectsGrow
  BY NextStep, StepsOnCalls, StepsOnTasks, ExpectsKept DEF DeliveryOK
<1>2. generation \in Nat /\ generation' \in Nat /\ generation <= generation'
  BY GenerationGrows DEF IInv, TypeOK
<1>3. scheduled \in Seq(Task) /\ scheduled' \in Seq(Task)
  BY <1>1 DEF IInv, TypeOK
<1>4. ASSUME NEW h \in Handle, NEW tp, Alive(h) => tp \in At(events, h.id).expects,
             h.gen < generation, Alive(h)'
      PROVE  tp \in At(events', h.id).expects
  <2>1. Valid(events', h.id) /\ At(events', h.id).gen = h.gen
    BY <1>4 DEF Alive
  <2>2. h.gen # generation
    BY <1>2, <1>4 DEF Handle
  <2>3. Valid(events, h.id) /\ At(events, h.id).gen = h.gen
    BY <2>1, <2>2, OnlyFresh
  <2> QED BY <1>1, <1>4, <2>1, <2>3 DEF Alive, ExpectsGrow
<1>5. ASSUME NEW h \in Handle, NEW tp, MsgTypeCheck(h, tp) = "Ok"
      PROVE  h.gen < generation /\ tp \in At(events, h.id).expects /\ Alive(h)
  BY <1>5, CheckFacts DEF Alive, IInv, GenerationsPast
<1>6. ASSUME NEW k \in 1 .. Len(scheduled'), scheduled'[k].what \in MsgType
      PROVE  /\ scheduled'[k].to.gen < generation'
             /\ Alive(scheduled[k].to)' =>
                    scheduled'[k].what \in At(events', scheduled'[k].to.id).expects
  <2>1. PICK task \in Task : task = scheduled'[k]
    BY <1>3
  <2>2. task.to \in Handle /\ task.what \in MsgType /\ task.to.gen \in Nat
    BY <2>1, <1>6 DEF Task, Handle
  <2>3. \/ \E j \in 1 .. Len(scheduled) : task = scheduled[j]
        \/ MsgTypeCheck(task.to, task.what) = "Ok"
    BY <2>1, <2>2, <1>1 DEF TasksFrom
  <2>4. /\ task.to.gen < generation
        /\ Alive(task.to) => task.what \in At(events, task.to.id).expects
    BY <2>2, <2>3, <1>5 DEF DeliveryOK, TasksPast, OnlyExpected
  <2>5. task.to.gen < generation'
    BY <2>2, <2>4, <1>2
  <2>6. Alive(task.to)' => task.what \in At(events', task.to.id).expects
    BY <2>2, <2>4, <1>4
  <2> QED BY <2>1, <2>5, <2>6 DEF Alive
<1>7. ASSUME NEW i \in Calls', stack'[i].what \in MsgType
      PROVE  stack'[i].what \in At(events', stack'[i].h.id).expects
  <2>1. PICK h : h = stack'[i].h /\ h \in Handle /\ Alive(h)'
    <3>1. stack'[i].h \in Handle /\ Alive(stack[i].h)'
      <4>1. TypeOK' /\ StolenIffCalled'
        BY <1>1 DEF IInv
      <4>2. stack'[i] \in Frame /\ stack'[i].fn = "call"
        BY <4>1 DEF Calls, IsCall, TypeOK
      <4>3. stack'[i] \in CallFrame
        BY <4>2, FrameKinds
      <4>4. stack'[i].h \in Handle
        BY <4>3 DEF CallFrame
      <4> QED BY <4>1, <4>4 DEF StolenIffCalled
    <3> QED BY <3>1 DEF Alive
  <2>2. CASE i \in Calls /\ stack'[i] = stack[i]
    <3>1. Alive(h) /\ stack[i].what \in At(events, h.id).expects
      BY <2>1, <2>2, <1>7 DEF DeliveryOK, OnlyExpected, IInv, StolenIffCalled
    <3>2. h.gen < generation
      BY <3>1 DEF Alive, IInv, GenerationsPast
    <3> QED BY <2>1, <2>2, <3>1, <3>2, <1>4
  <2>3. CASE MsgTypeCheck(h, stack'[i].what) = "Ok"
    BY <2>1, <2>3, <1>4, <1>5
  <2> QED BY <1>1, <1>7, <2>1, <2>2, <2>3 DEF CallsFrom
<1> QED BY <1>6, <1>7 DEF DeliveryOK, OnlyExpected, TasksPast

\* The type of a message is checked when it is sent or received, not when it is
\* dispatched.  Still no event is ever handed a message it did not ask for: in
\* between it can only expect more, or go, and its slot then has a new generation.
THEOREM OnlyExpectedArrives == Spec => []OnlyExpected
<1>1. Init => DeliveryOK
  BY DEF Init, DeliveryOK, OnlyExpected, TasksPast, Calls
<1>2. IInv /\ DeliveryOK /\ [Next]_vars => IInv' /\ DeliveryOK'
  BY NextStep, DeliveryStep
<1>3. DeliveryOK => OnlyExpected
  BY DEF DeliveryOK
<1> QED BY <1>1, <1>2, <1>3, InitStep, PTL DEF Spec
-----------------------------------------------------------------------------
(* Loops without events.                                                   *)

\* On a loop that counts no events no callback runs.
LEMMA EmptyCallsNobody ==
    ASSUME IInv, NoEvents
    PROVE  Calls = {}
<1>1. events \in RecyclerOf(Holder) /\ RecyclerOK(events)
  BY DEF IInv, TypeOK
<1>2. IsFiniteSet(Used(events)) /\ RecyclerLen(events) = Cardinality(Used(events))
  BY <1>1, LenIsCount
<1>3. Cardinality(Used(events)) = 0
  BY <1>2 DEF NoEvents, IsEmpty
<1>4. Used(events) = {}
  BY <1>2, <1>3, FS_EmptySet
<1>5. ASSUME NEW i \in Calls PROVE FALSE
  BY <1>4, UsedIsValid DEF IInv, StolenIffCalled, Alive
<1> QED BY <1>5

\* The only step that reports Empty is that of tasks_gather; the others hand the
\* report on without returning from a callback.
LEMMA EmptyFrom ==
    ASSUME IInv, [Next]_vars, ret' = "Empty"
    PROVE  GatherEmpty \/ (ret = "Empty" /\ Calls' = Calls)
<1>1. CASE UserCode
  <2>1. ASSUME NEW h, NEW what, NEW s, EventCall(h, what, s) PROVE ret' # "Empty"
    BY <2>1 DEF EventCall
  <2>2. ASSUME NEW h, NEW tp, Send(h, tp) \/ Post(h, tp) PROVE ret' # "Empty"
    BY <2>1, <2>2 DEF Send, Post, MsgTypeCheck
  <2>3. ASSUME NEW resp \in {"true", "false", "err"}, Return(resp) PROVE ret' # "Empty"
    BY <2>3 DEF Return
  <2> QED BY <1>1, <2>2, <2>3 DEF UserCode, InsertExact, RunOne, Run, RunBody, RunUntilEmpty,
             Stop, ExpectMessage, WantIdle, RunUntilComplete, MakeChannel
<1>2. CASE InsertDone \/ Propagate("until") \/ Propagate("run")
  BY <1>2, InsertDoneStep, PropagateStep DEF InsertDone, Propagate, SameCalls
<1>3. CASE RunUntilEmptyDone \/ UntilTurn \/ RunTurn
  BY <1>3 DEF RunUntilEmptyDone, UntilTurn, RunTurn, CallRunOne
<1>4. CASE Poll \/ PollFailed \/ Receive \/ ReceiveDone \/ GatherIdle
  BY <1>4, PollStep, ReceiveStep, ReceiveDoneStep, GatherIdleStep
     DEF Poll, PollFailed, Receive, ReceiveDone, GatherIdle, SameCalls
<1>5. CASE Dispatch
  BY <1>5 DEF Dispatch, EventCall, Calls, IsCall
<1>6. CASE OtherThreads \/ UNCHANGED vars
  BY <1>6 DEF OtherThreads, ChannelSend, vars, Calls, IsCall
<1> QED BY <1>1, <1>2, <1>3, <1>4, <1>5, <1>6 DEF Next, LoopCode

LEMMA EmptyStep ==
    ASSUME IInv, NestedNeverEmpty, [Next]_vars
    PROVE  NestedNeverEmpty'
<1>1. CASE GatherEmpty
  BY <1>1, EmptyCallsNobody, GatherEmptyStep DEF NestedNeverEmpty, GatherEmpty, SameCalls
<1>2. CASE ret = "Empty" /\ Calls' = Calls
  BY <1>2 DEF NestedNeverEmpty
<1> QED BY <1>1, <1>2, EmptyFrom DEF NestedNeverEmpty

\* A loop that runs inside a callback never finds itself empty: the event of that
\* callback has left its cell, but not the storage, whose count len is.
THEOREM NestedLoopsHaveEvents == Spec => []NestedNeverEmpty
<1>1. Init => NestedNeverEmpty
  BY DEF Init, NestedNeverEmpty
<1>2. IInv /\ NestedNeverEmpty /\ [Next]_vars => IInv' /\ NestedNeverEmpty'
  BY NextStep, EmptyStep
<1> QED BY <1>1, <1>2, InitStep, PTL DEF Spec
-----------------------------------------------------------------------------
(***************************************************************************)
(* The loop as its users see it, EventCalls: every step of the loop is one *)
(* of an event, a callback or a message, or nothing that a user can see.   *)
(***************************************************************************)

\* The handles of a storage of events.
LEMMA HandlesOf ==
    ASSUME NEW ev \in RecyclerOf(Holder)
    PROVE  \A h : h \in {[id |-> id, gen |-> At(ev, id).gen] : id \in Used(ev)}
               <=> h \in Handle /\ Valid(ev, h.id) /\ At(ev, h.id).gen = h.gen
<1> DEFINE S == {[id |-> id, gen |-> At(ev, id).gen] : id \in Used(ev)}
<1>1. ASSUME NEW h \in S
      PROVE  h \in Handle /\ Valid(ev, h.id) /\ At(ev, h.id).gen = h.gen
  <2>1. PICK id \in Used(ev) : h = [id |-> id, gen |-> At(ev, id).gen]
    OBVIOUS
  <2>2. Valid(ev, id)
    BY UsedIsValid
  <2>3. At(ev, id).gen \in Nat
    <3>1. At(ev, id) \in Holder
      BY <2>2, AtType
    <3> QED BY <3>1 DEF Holder
  <2>4. id \in Nat
    BY <2>1 DEF Used
  <2> QED BY <2>1, <2>2, <2>3, <2>4 DEF Handle
<1>2. ASSUME NEW h \in Handle, Valid(ev, h.id), At(ev, h.id).gen = h.gen
      PROVE  h \in S
  <2>1. h = [id |-> h.id, gen |-> h.gen]
    BY DEF Handle
  <2>2. h.id \in Used(ev)
    BY <1>2, UsedIsValid
  <2> QED BY <1>2, <2>1, <2>2
<1> QED BY <1>1, <1>2

LEMMA LivingIs ==
    ASSUME TypeOK
    PROVE  \A h : h \in Living <=> h \in Handle /\ Alive(h)
BY HandlesOf DEF TypeOK, Living, Alive

LEMMA LivingIsNext ==
    ASSUME TypeOK'
    PROVE  \A h : h \in Living' <=>
               h \in Handle /\ Valid(events', h.id) /\ At(events', h.id).gen = h.gen
<1>1. PICK ev \in RecyclerOf(Holder) : ev = events'
  BY DEF TypeOK
<1> QED BY <1>1, HandlesOf DEF Living

\* What is in the abstract variables.
LEMMA View ==
    /\ Promised!Live = Living
    /\ \A h \in Living : Accepting[h] = At(events, h.id).expects
    /\ \A h : h \in Promised!Busy <=> \E i \in Calls : stack[i].h = h
    /\ DOMAIN Running = Calls
    /\ \A i \in Calls : Running[i].event = stack[i].h
BY DEF Promised!Live, Accepting, Running, Promised!Busy

LEMMA SameRunning ==
    ASSUME SameCalls
    PROVE  Running' = Running
BY DEF SameCalls, Running

LEMMA SameAccepting ==
    ASSUME TypeOK, TypeOK',
           \A id : Valid(events', id) <=> Valid(events, id),
           \A id : Valid(events, id) => /\ At(events', id).gen = At(events, id).gen
                                        /\ At(events', id).expects = At(events, id).expects
    PROVE  Accepting' = Accepting
<1>1. Living' = Living
  BY LivingIs, LivingIsNext DEF Alive
<1>2. \A h \in Living : At(events', h.id).expects = At(events, h.id).expects
  BY LivingIs DEF Alive
<1> QED BY <1>1, <1>2 DEF Accepting

\* A new frame p, above all calls, is a callback that begins.
LEMMA EnterStep ==
    ASSUME NEW p, p \notin Calls, Calls' = Calls \cup {p},
           \A q \in Calls : q < p /\ stack'[q] = stack[q],
           NEW e, NEW why, stack'[p].h = e, stack'[p].what = why,
           \A q \in Calls : stack[q].h # e
    PROVE  Promised!Enter(e, why)
<1>1. e \notin Promised!Busy
  BY View
<1>2. DOMAIN Running' = Calls \cup {p}
  BY DEF Running
<1>3. Running'[p] = [event |-> e, why |-> why]
  BY DEF Running
<1>4. \A q \in Calls : Running'[q] = Running[q]
  BY DEF Running
<1> QED BY <1>1, <1>2, <1>3, <1>4, View DEF Promised!Enter

\* Calling an event: it is gone, or busy, or its callback begins.
LEMMA CallEnters ==
    ASSUME IInv, TypeOK', NEW h \in Handle, NEW what, NEW s \in Seq(Frame),
           Len(s) <= Len(stack), \A i \in 1 .. Len(s) : s[i] = stack[i],
           \A i \in Calls : i <= Len(s),
           EventCall(h, what, s)
    PROVE  /\ Accepting' = Accepting
           /\ \/ Running' = Running /\ (h \in Promised!Busy \/ h \notin Living)
              \/ Promised!Enter(h, what) /\ h \in Living
<1>1. PICK n \in Nat, m \in Nat : n = Len(s) /\ m = Len(stack) /\ n <= m
  <2>1. stack \in Seq(Frame)
    BY DEF IInv, TypeOK
  <2> QED BY <2>1
<1>2. CASE stack' = s /\ events' = events /\ (~Alive(h) \/ (Alive(h) /\ Stolen(h)))
  <2>1. SameCalls
    BY <1>1, <1>2 DEF SameCalls, Calls, IsCall
  <2>2. Accepting' = Accepting
    BY <1>2, SameAccepting DEF IInv
  <2>3. ~Alive(h) => h \notin Living
    BY LivingIs DEF IInv
  <2>4. Alive(h) /\ Stolen(h) => h \in Promised!Busy
    <3> SUFFICES ASSUME Alive(h), Stolen(h) PROVE h \in Promised!Busy
      OBVIOUS
    <3>1. h.id \in Used(events) /\ At(events, h.id).stolen
      BY UsedIsValid DEF Alive, Stolen
    <3>2. PICK i \in Calls : stack[i].h = [id |-> h.id, gen |-> At(events, h.id).gen]
      BY <3>1 DEF IInv, StolenIffCalled
    <3>3. stack[i].h = h
      BY <3>2 DEF Handle, Alive
    <3> QED BY <3>3, View
  <2> QED BY <1>2, <2>1, <2>2, <2>3, <2>4, SameRunning
<1>3. CASE /\ Alive(h) /\ ~Stolen(h)
           /\ events' = SetStolen(h, TRUE) /\ stack' = Append(s, Called(h, what))
  <2>0. /\ Called(h, what).h = h /\ Called(h, what).what = what
        /\ Called(h, what).fn = "call"
    BY DEF Called
  <2>1. PICK f : f = Called(h, what) /\ f.h = h /\ f.what = what /\ f.fn = "call"
    BY <2>0
  <2>2. PICK S : S = Frame \cup {f}
    OBVIOUS
  <2>3. s \in Seq(S)
    BY <2>2
  <2>4. /\ Len(stack') = n + 1 /\ stack'[n + 1] = f
        /\ \A i \in 1 .. n : stack'[i] = s[i]
    BY <1>1, <1>3, <2>1, <2>2, <2>3, AppendProperties
  <2>5. Calls' = Calls \cup {n + 1} /\ n + 1 \notin Calls
    BY <1>1, <2>1, <2>4 DEF Calls, IsCall
  <2>6. \A q \in Calls : q < n + 1 /\ stack'[q] = stack[q]
    BY <1>1, <2>4 DEF Calls
  <2>7. \A q \in Calls : stack[q].h # h
    BY <1>3 DEF IInv, StolenIffCalled
  <2>8. Promised!Enter(h, what)
    BY <2>1, <2>4, <2>5, <2>6, <2>7, EnterStep
  <2>9. Accepting' = Accepting
    <3>0. PICK b \in BOOLEAN : b = TRUE
      OBVIOUS
    <3>1. PICK after : after = SetStolen(h, b) /\ after = events'
      BY <1>3, <3>0
    <3>2. /\ \A id : Valid(after, id) <=> Valid(events, id)
          /\ At(after, h.id).gen = h.gen
          /\ At(after, h.id).expects = At(events, h.id).expects
          /\ \A id : Valid(events, id) /\ id # h.id => At(after, id) = At(events, id)
      <4>1. TypeOK /\ RecyclerOK(events) /\ Alive(h)
        BY <1>3 DEF IInv
      <4>2. /\ \A id : Valid(SetStolen(h, b), id) <=> Valid(events, id)
            /\ At(SetStolen(h, b), h.id).gen = h.gen
            /\ At(SetStolen(h, b), h.id).expects = At(events, h.id).expects
            /\ \A id : Valid(events, id) /\ id # h.id =>
                   At(SetStolen(h, b), id) = At(events, id)
        BY <4>1, SetStolenFacts
      <4> QED BY <3>1, <4>2, Zenon
    <3>3. \A id : Valid(events, id) => /\ At(after, id).gen = At(events, id).gen
                                       /\ At(after, id).expects = At(events, id).expects
      BY <1>3, <3>2 DEF Alive
    <3> QED BY <3>1, <3>2, <3>3, SameAccepting DEF IInv
  <2> QED BY <1>3, <2>8, <2>9, LivingIs DEF IInv
<1> QED BY <1>2, <1>3 DEF EventCall, IsBusy

-----------------------------------------------------------------------------
(* The steps.                                                              *)

\* A callback that runs is the innermost of the abstract callbacks.
LEMMA TopRuns ==
    ASSUME IInv, TopIs("call")
    PROVE  /\ Len(stack) \in Calls /\ stack[Len(stack)] = Top
           /\ Promised!Innermost(Len(stack))
           /\ Running[Len(stack)].event = Top.h
           /\ Top.h \in Living /\ Top.h \in Handle
<1>1. Len(stack) \in Calls /\ Top.h \in Handle /\ Alive(Top.h)
  BY CallTop DEF IInv, Alive
<1>2. stack[Len(stack)] = Top
  BY DEF Top
<1>3. Len(stack) \in Nat
  BY DEF IInv, TypeOK
<1>4. \A q \in Calls : q <= Len(stack)
  BY <1>3 DEF Calls
<1>5. Promised!Innermost(Len(stack))
  BY <1>1, <1>4, View DEF Promised!Innermost
<1> QED BY <1>1, <1>2, <1>5, View, LivingIs DEF IInv

\* A new event has a handle that nobody had.
LEMMA InsertIsPromised ==
    ASSUME IInv, TypeOK', InsertExact
    PROVE  Promised!Insert
<1>1. PICK h, holder, ptr :
          /\ h = [id |-> StoreIdx(events), gen |-> generation]
          /\ holder = [gen |-> generation, stolen |-> TRUE, expects |-> {}]
          /\ events' = Store(events, holder)
          /\ issued' = issued \cup {h}
          /\ stack' = stack \o << [fn |-> "insert", h |-> h],
                                  [fn |-> "call", h |-> h, what |-> "init", ptr |-> ptr] >>
  BY Zenon DEF InsertExact
<1>2. events \in RecyclerOf(Holder) /\ RecyclerOK(events) /\ generation \in Nat
  BY DEF IInv, TypeOK
<1>3. holder \in Holder /\ holder.gen = generation /\ holder.expects = {}
  <2>1. PICK s \in BOOLEAN, none \in SUBSET MsgType : s = TRUE /\ none = {}
    OBVIOUS
  <2> QED BY <1>1, <1>2, <2>1 DEF Holder
<1>4. PICK after : after = Store(events, holder) /\ after = events'
  BY <1>1
<1>5. /\ StoreIdx(events) \in Nat
      /\ ~Valid(events, StoreIdx(events))
      /\ \A id : Valid(after, id) <=> Valid(events, id) \/ id = StoreIdx(events)
      /\ At(after, StoreIdx(events)) = holder
      /\ \A id : Valid(events, id) => At(after, id) = At(events, id)
  BY <1>2, <1>3, <1>4, HolderStore
<1>6. h \in Handle /\ h.id = StoreIdx(events) /\ h.gen = generation
  BY <1>1, <1>2, <1>5 DEF Handle
<1>7. h \notin issued
  BY <1>2, <1>6 DEF IInv, GenerationsPast
<1>8. \A g : g \in Living' <=> g \in Living \/ g = h
  <2>1. \A g \in Handle : g.id = h.id /\ g.gen = h.gen => g = h
    BY <1>6 DEF Handle
  <2>2. \A g : g \in Living <=> g \in Handle /\ Valid(events, g.id) /\ At(events, g.id).gen = g.gen
    BY LivingIs DEF IInv, Alive
  <2>3. \A g : g \in Living' <=> g \in Handle /\ Valid(after, g.id) /\ At(after, g.id).gen = g.gen
    BY <1>4, LivingIsNext
  <2> QED BY <1>3, <1>5, <1>6, <2>1, <2>2, <2>3
<1>9. /\ Accepting'[h] = {}
      /\ \A g \in Living : Accepting'[g] = Accepting[g]
  <2>1. \A g \in Living' : Accepting'[g] = At(events', g.id).expects
    BY DEF Accepting
  <2>2. \A g \in Living : Valid(events, g.id)
    BY LivingIs DEF IInv, Alive
  <2> QED BY <1>3, <1>4, <1>5, <1>6, <1>8, <2>1, <2>2, View
<1>10. PICK f, g : /\ f = [fn |-> "insert", h |-> h]
                   /\ g = [fn |-> "call", h |-> h, what |-> "init", ptr |-> ptr]
  OBVIOUS
<1>11. f.fn = "insert" /\ g.fn = "call" /\ g.h = h /\ g.what = "init"
  BY <1>10
<1>12. PICK n \in Nat : n = Len(stack) /\ stack \in Seq(Frame)
  BY DEF IInv, TypeOK
<1>13. stack' = stack \o << f, g >>
  BY <1>1, <1>10
<1>14. /\ Len(stack') = n + 2 /\ stack'[n + 1] = f /\ stack'[n + 2] = g
       /\ \A i \in 1 .. n : stack'[i] = stack[i]
  BY <1>12, <1>13
<1>15. Calls' = Calls \cup {n + 2} /\ n + 2 \notin Calls
  BY <1>11, <1>12, <1>14 DEF Calls, IsCall
<1>16. \A q \in Calls : q < n + 2 /\ stack'[q] = stack[q]
  BY <1>12, <1>14 DEF Calls
<1>17. \A q \in Calls : stack[q].h # h
  BY <1>5, <1>6 DEF IInv, StolenIffCalled, Alive
<1>18. Promised!Enter(h, "init")
  BY <1>11, <1>14, <1>15, <1>16, <1>17, EnterStep
<1>19. UNCHANGED << scheduled, Waiting >>
  BY DEF InsertExact, queues, Waiting
<1>20. Promised!Live' = Living' /\ Promised!Live = Living
  BY DEF Promised!Live, Accepting
<1>21. Living' = Living \cup {h}
  BY <1>8
<1> QED BY <1>1, <1>7, <1>9, <1>18, <1>19, <1>20, <1>21 DEF Promised!Insert

\* Removing a key from a list keeps all others.
LEMMA RemoveKeyKeeps ==
    ASSUME NEW S, NEW s \in Seq(S), NEW h,
           \A j, k \in 1 .. Len(s) : s[j] = s[k] => j = k
    PROVE  \A k \in 1 .. Len(s) :
               s[k] # h => \E j \in 1 .. Len(RemoveKey(s, h)) : RemoveKey(s, h)[j] = s[k]
<1> SUFFICES ASSUME NEW k \in 1 .. Len(s), s[k] # h
             PROVE  \E j \in 1 .. Len(RemoveKey(s, h)) : RemoveKey(s, h)[j] = s[k]
  OBVIOUS
<1>1. CASE \E i \in 1 .. Len(s) : s[i] = h
  <2>1. PICK i \in 1 .. Len(s) : i = CHOOSE x \in 1 .. Len(s) : s[x] = h
    BY <1>1
  <2>2. s[i] = h
    BY <1>1, <2>1
  <2>3. PICK n \in Nat : n = Len(s) - 1
    BY <2>1
  <2>4. PICK t : t = RemoveKey(s, h) /\ t = [j \in 1 .. n |-> IF j < i THEN s[j] ELSE s[j + 1]]
    BY <1>1, <2>1, <2>3 DEF RemoveKey
  <2>5. Len(t) = n
    BY <2>3, <2>4
  <2>6. k # i
    BY <2>2
  <2>7. CASE k < i
    BY <2>3, <2>4, <2>5, <2>7
  <2>8. CASE k > i
    <3>1. k - 1 \in 1 .. n /\ ~(k - 1 < i) /\ k - 1 + 1 = k
      BY <2>3, <2>8
    <3> QED BY <2>4, <2>5, <3>1
  <2> QED BY <2>6, <2>7, <2>8
<1>2. CASE ~\E i \in 1 .. Len(s) : s[i] = h
  BY <1>2 DEF RemoveKey
<1> QED BY <1>1, <1>2

\* The waiters after a key was removed from their list.
LEMMA WaitersWithout ==
    ASSUME IInv, IdleWaitersAlive, NEW h, NEW t, t = RemoveKey(want_idle, h)
    PROVE  t \in Seq(Handle) /\ {t[j] : j \in 1 .. Len(t)} = Waiting \ {h}
<1>1. want_idle \in Seq(Handle)
  BY DEF IInv, TypeOK
<1>2. t \in Seq(Handle)
  BY <1>1, RemoveKeyType
<1>3. \A j, k \in 1 .. Len(want_idle) : want_idle[j] = want_idle[k] => j = k
  BY DEF IdleWaitersAlive
<1>4. \A j \in 1 .. Len(t) : t[j] # h /\ \E k \in 1 .. Len(want_idle) : t[j] = want_idle[k]
  BY <1>1, <1>3, RemoveKeyFacts
<1>5. \A k \in 1 .. Len(want_idle) : want_idle[k] # h => \E j \in 1 .. Len(t) : t[j] = want_idle[k]
  BY <1>1, <1>3, RemoveKeyKeeps
<1> QED BY <1>2, <1>4, <1>5 DEF Waiting

\* The end of a callback is the end of the innermost one.
LEMMA ReturnIsPromised ==
    ASSUME IInv, TypeOK', IdleWaitersAlive,
           NEW resp \in {"true", "false", "err"}, Return(resp)
    PROVE  Promised!Leave \/ UNCHANGED << issued, Accepting, scheduled, Waiting, Running >>
<1> DEFINE n == Len(stack)
<1>1. TopIs("call") /\ stack # << >>
  BY DEF Return, InCallback, TopIs
<1>2. PICK h \in Handle : /\ h = Top.h /\ Alive(h) /\ h \in Living
                          /\ Running[n].event = h
  BY <1>1, TopRuns, LivingIs DEF IInv
<1>3. n \in Calls /\ Promised!Innermost(n)
  BY <1>1, TopRuns
<1>4. UNCHANGED << issued, scheduled >>
  BY DEF Return
<1>5. CASE UNCHANGED << events, want_idle, stack >>
  <2>1. SameCalls
    BY <1>5 DEF SameCalls, Calls, IsCall
  <2>2. Accepting' = Accepting
    BY <1>5, SameAccepting DEF IInv
  <2>3. UNCHANGED Waiting
    BY <1>5 DEF Waiting
  <2> QED BY <1>4, <2>1, <2>2, <2>3, SameRunning
<1>6. ASSUME stack' = Pop
      PROVE  Running' = [q \in DOMAIN Running \ {n} |-> Running[q]]
  <2>1. PICK m \in Nat : m = n
    BY DEF IInv, TypeOK
  <2>2. Len(stack') = m - 1 /\ \A i \in 1 .. m - 1 : stack'[i] = stack[i]
    BY <1>1, <1>6, <2>1, PopStack DEF IInv
  <2>3. Calls' = Calls \ {n}
    BY <2>1, <2>2 DEF Calls, IsCall
  <2>4. \A q \in Calls' : stack'[q] = stack[q]
    BY <2>1, <2>2, <2>3 DEF Calls
  <2> QED BY <2>3, <2>4 DEF Running
<1>7. CASE stack' = Pop /\ events' = SetStolen(Top.h, FALSE) /\ UNCHANGED want_idle
  <2>0. PICK b \in BOOLEAN : b = FALSE
    OBVIOUS
  <2>1. PICK after : after = SetStolen(h, b) /\ after = events'
    BY <1>2, <1>7, <2>0
  <2>2. /\ \A id : Valid(after, id) <=> Valid(events, id)
        /\ At(after, h.id).gen = h.gen
        /\ At(after, h.id).expects = At(events, h.id).expects
        /\ \A id : Valid(events, id) /\ id # h.id => At(after, id) = At(events, id)
    <3>1. TypeOK /\ RecyclerOK(events) /\ Alive(h)
      BY <1>2 DEF IInv
    <3>2. /\ \A id : Valid(SetStolen(h, b), id) <=> Valid(events, id)
          /\ At(SetStolen(h, b), h.id).gen = h.gen
          /\ At(SetStolen(h, b), h.id).expects = At(events, h.id).expects
          /\ \A id : Valid(events, id) /\ id # h.id =>
                 At(SetStolen(h, b), id) = At(events, id)
      BY <3>1, SetStolenFacts
    <3> QED BY <2>1, <3>2, Zenon
  <2>3. \A id : Valid(events, id) => /\ At(after, id).gen = At(events, id).gen
                                     /\ At(after, id).expects = At(events, id).expects
    BY <1>2, <2>2 DEF Alive
  <2>4. Accepting' = Accepting
    BY <2>1, <2>2, <2>3, SameAccepting DEF IInv
  <2>5. UNCHANGED Waiting
    BY <1>7 DEF Waiting
  <2> QED BY <1>3, <1>4, <1>6, <1>7, <2>4, <2>5, View DEF Promised!Leave
<1>8. CASE stack' = Pop /\ Kill(Top.h)
  <2>1. EventGoes
    BY <1>1, <1>8 DEF EventGoes, Kill, Return
  <2>2. /\ \A id : Valid(events', id) <=> Valid(events, id) /\ id # h.id
        /\ \A id : Valid(events, id) /\ id # h.id => At(events', id) = At(events, id)
    BY <1>2, <2>1, GoesFacts
  <2>3. \A g : g \in Living' <=> g \in Living /\ g # h
    <3>1. \A g : g \in Living => g \in Handle /\ Valid(events, g.id)
                                 /\ At(events, g.id).gen = g.gen
      BY LivingIs DEF IInv, Alive
    <3>2. \A g \in Handle : Valid(events, g.id) /\ At(events, g.id).gen = g.gen => g \in Living
      BY LivingIs DEF IInv, Alive
    <3>3. \A g : g \in Living' <=> g \in Handle /\ Valid(events', g.id)
                                   /\ At(events', g.id).gen = g.gen
      BY LivingIsNext
    <3>4. \A g \in Living : g.id = h.id => g = h
      BY <1>2, <3>1 DEF Handle
    <3> QED BY <2>2, <3>1, <3>2, <3>3, <3>4
  <2>4. \A g \in Living' : Accepting[g] = At(events', g.id).expects
    <3> SUFFICES ASSUME NEW g \in Living' PROVE Accepting[g] = At(events', g.id).expects
      OBVIOUS
    <3>1. g \in Living /\ Valid(events', g.id)
      BY <2>3, LivingIsNext
    <3> QED BY <2>2, <3>1, View
  <2>5. Accepting' = [f \in Promised!Live \ {h} |-> Accepting[f]]
    <3>1. Living' = Promised!Live \ {h}
      BY <2>3, View
    <3> QED BY <2>4, <3>1 DEF Accepting
  <2>6. Waiting' = Waiting \ {h}
    <3>1. PICK t : t = RemoveKey(want_idle, h) /\ t = want_idle'
      BY <1>2, <2>1 DEF EventGoes
    <3>2. {t[j] : j \in 1 .. Len(t)} = Waiting \ {h}
      BY <3>1, WaitersWithout
    <3> QED BY <3>1, <3>2, Zenon DEF Waiting
  <2> QED BY <1>2, <1>3, <1>4, <1>6, <1>8, <2>5, <2>6, View DEF Promised!Leave
<1>9. \/ UNCHANGED << events, want_idle, stack >>
      \/ stack' = Pop /\ events' = SetStolen(Top.h, FALSE) /\ UNCHANGED want_idle
      \/ stack' = Pop /\ Kill(Top.h)
  BY DEF Return
<1> QED BY <1>5, <1>7, <1>8, <1>9

LEMMA ExpectIsPromised ==
    ASSUME IInv, TypeOK', NEW tp \in MsgType, ExpectMessage(tp)
    PROVE  Promised!Expect
<1>1. TopIs("call")
  BY DEF ExpectMessage, InCallback
<1>2. PICK h \in Handle : /\ h = Top.h /\ Alive(h) /\ h \in Living
                          /\ Running[Len(stack)].event = h
  BY <1>1, TopRuns, LivingIs DEF IInv
<1>3. Len(stack) \in Calls /\ Promised!Innermost(Len(stack))
  BY <1>1, TopRuns
<1>4. PICK after : after = AddExpected(h, tp) /\ after = events'
  BY <1>2 DEF ExpectMessage
<1>5. /\ \A id : Valid(after, id) <=> Valid(events, id)
      /\ At(after, h.id).gen = h.gen
      /\ At(events, h.id).expects \subseteq At(after, h.id).expects
      /\ \A id : Valid(events, id) /\ id # h.id => At(after, id) = At(events, id)
  <2>1. /\ \A id : Valid(AddExpected(h, tp), id) <=> Valid(events, id)
        /\ At(AddExpected(h, tp), h.id).gen = h.gen
        /\ At(events, h.id).expects \subseteq At(AddExpected(h, tp), h.id).expects
        /\ \A id : Valid(events, id) /\ id # h.id =>
               At(AddExpected(h, tp), id) = At(events, id)
    BY <1>2, AddExpectedFacts, Zenon DEF IInv
  <2> QED BY <2>1, <1>4, Zenon
<1>6. Living' = Living
  <2>1. \A id : Valid(events, id) => At(after, id).gen = At(events, id).gen
    BY <1>2, <1>5 DEF Alive
  <2>2. \A g : g \in Living <=> g \in Handle /\ Valid(events, g.id)
                                /\ At(events, g.id).gen = g.gen
    BY LivingIs DEF IInv, Alive
  <2>3. \A g : g \in Living' <=> g \in Handle /\ Valid(after, g.id)
                                 /\ At(after, g.id).gen = g.gen
    BY <1>4, LivingIsNext
  <2> QED BY <1>5, <2>1, <2>2, <2>3
<1>7. \A f \in Living : IF f = h THEN Accepting[f] \subseteq Accepting'[f]
                                 ELSE Accepting'[f] = Accepting[f]
  <2> SUFFICES ASSUME NEW f \in Living
               PROVE  IF f = h THEN Accepting[f] \subseteq Accepting'[f]
                               ELSE Accepting'[f] = Accepting[f]
    OBVIOUS
  <2>1. Accepting'[f] = At(after, f.id).expects
    BY <1>4, <1>6 DEF Accepting
  <2>2. f \in Handle /\ Valid(events, f.id) /\ At(events, f.id).gen = f.gen
    BY LivingIs DEF IInv, Alive
  <2>3. f # h => f.id # h.id
    BY <1>2, <2>2 DEF Handle, Alive
  <2> QED BY <1>5, <2>1, <2>2, <2>3, View
<1>8. Running' = Running /\ UNCHANGED << issued, scheduled, Waiting >>
  <2>1. SameCalls /\ UNCHANGED << issued, scheduled, Waiting >>
    BY DEF ExpectMessage, queues, SameCalls, Calls, IsCall, Waiting
  <2> QED BY <2>1, SameRunning
<1>9. Promised!Live' = Living' /\ Promised!Live = Living
  BY DEF Promised!Live, Accepting
<1> QED BY <1>2, <1>3, <1>6, <1>7, <1>8, <1>9, View DEF Promised!Expect

LEMMA WantIdleIsPromised ==
    ASSUME IInv, TypeOK', IdleWaitersAlive, WantIdle
    PROVE  Promised!WantIdle
<1>1. TopIs("call")
  BY DEF WantIdle, InCallback
<1>2. PICK h \in Handle : h = Top.h /\ Running[Len(stack)].event = h
  BY <1>1, TopRuns
<1>3. Len(stack) \in Calls /\ Promised!Innermost(Len(stack))
  BY <1>1, TopRuns
<1>4. Running' = Running /\ Accepting' = Accepting /\ UNCHANGED << issued, scheduled >>
  <2>1. SameCalls /\ events' = events /\ UNCHANGED << issued, scheduled >>
    BY DEF WantIdle, storage, SameCalls, Calls, IsCall
  <2> QED BY <2>1, SameRunning, SameAccepting DEF IInv
<1>5. Waiting' = Waiting \cup {h}
  <2>1. PICK t : t = RemoveKey(want_idle, h)
    OBVIOUS
  <2>2. t \in Seq(Handle) /\ {t[j] : j \in 1 .. Len(t)} = Waiting \ {h}
    BY <2>1, WaitersWithout
  <2>4. want_idle' = Append(t, h)
    BY <1>2, <2>1 DEF WantIdle
  <2>5. PICK n \in Nat : n = Len(t)
    BY <2>2
  <2>6. Len(want_idle') = n + 1 /\ want_idle'[n + 1] = h
        /\ \A j \in 1 .. n : want_idle'[j] = t[j]
    BY <2>2, <2>4, <2>5
  <2>7. Waiting' = {t[j] : j \in 1 .. n} \cup {h}
    BY <2>5, <2>6 DEF Waiting
  <2> QED BY <2>2, <2>5, <2>7
<1> QED BY <1>2, <1>3, <1>4, <1>5, View DEF Promised!WantIdle

\* The idle task is for one of those who wait, and takes it off the list.
LEMMA IdleIsPromised ==
    ASSUME IInv, IdleWaitersAlive, TypeOK', GatherIdle
    PROVE  Promised!Idle \/ UNCHANGED << issued, Accepting, scheduled, Waiting, Running >>
<1>1. Running' = Running /\ Accepting' = Accepting /\ issued' = issued
  <2>1. SameCalls
    BY GatherIdleStep
  <2>2. events' = events /\ issued' = issued
    BY DEF GatherIdle, storage
  <2> QED BY <2>1, <2>2, SameRunning, SameAccepting DEF IInv
<1>2. CASE UNCHANGED << scheduled, want_idle >>
  BY <1>1, <1>2 DEF Waiting
<1>3. CASE /\ scheduled = << >> /\ want_idle # << >>
           /\ scheduled' = << [to |-> Head(want_idle), what |-> "idle"] >>
           /\ want_idle' = Tail(want_idle)
  <2>1. want_idle \in Seq(Handle)
    BY DEF IInv, TypeOK
  <2>2. PICK e : e = Head(want_idle) /\ e = want_idle[1] /\ 1 \in 1 .. Len(want_idle)
    BY <1>3, <2>1
  <2>3. e \in Waiting
    BY <2>2 DEF Waiting
  <2>4. Waiting' = Waiting \ {e}
    <3>1. PICK n \in Nat : n = Len(want_idle)
      BY <2>1
    <3>2. Len(want_idle') = n - 1 /\ \A k \in 1 .. n - 1 : want_idle'[k] = want_idle[k + 1]
      BY <1>3, <2>1, <3>1
    <3>3. ASSUME NEW k \in 1 .. n - 1
          PROVE  want_idle'[k] \in Waiting /\ want_idle'[k] # e
      <4>1. k + 1 \in 1 .. n /\ k + 1 # 1
        OBVIOUS
      <4> QED BY <2>2, <3>1, <3>2, <4>1 DEF Waiting, IdleWaitersAlive
    <3>4. ASSUME NEW k \in 1 .. n, want_idle[k] # e
          PROVE  \E j \in 1 .. n - 1 : want_idle'[j] = want_idle[k]
      <4>1. k # 1
        BY <2>2, <3>4
      <4>2. k - 1 \in 1 .. n - 1 /\ k - 1 + 1 = k
        BY <4>1
      <4> QED BY <3>2, <4>2
    <3>5. Waiting' = {want_idle'[k] : k \in 1 .. n - 1}
      BY <3>2 DEF Waiting
    <3>6. Waiting = {want_idle[k] : k \in 1 .. n}
      BY <3>1 DEF Waiting
    <3> QED BY <3>3, <3>4, <3>5, <3>6
  <2> QED BY <1>1, <1>3, <2>2, <2>3, <2>4 DEF Promised!Idle
<1> QED BY <1>2, <1>3 DEF GatherIdle

\* A message that passes the check is one that a living event accepts.
LEMMA CheckedIsAccepted ==
    ASSUME IInv, NEW h \in Handle, NEW tp, MsgTypeCheck(h, tp) = "Ok"
    PROVE  h \in Promised!Live /\ tp \in Accepting[h]
<1>1. h \in Living
  BY CheckFacts, LivingIs DEF IInv
<1> QED BY <1>1, CheckFacts, View

LEMMA SendIsPromised ==
    ASSUME IInv, TypeOK', NEW h \in issued, NEW tp \in MsgType, Send(h, tp)
    PROVE  Promised!Accept \/ UNCHANGED << issued, Accepting, scheduled, Waiting, Running >>
<1>1. UNCHANGED << issued, Accepting, Waiting, Running >>
  <2>1. SameCalls
    BY SendStep
  <2>2. UNCHANGED << issued, events, want_idle >>
    BY DEF Send, storage
  <2> QED BY <2>1, <2>2, SameRunning, SameAccepting DEF IInv, Waiting
<1>2. CASE MsgTypeCheck(h, tp) = "Ok"
  <2>1. scheduled' = Append(scheduled, [to |-> h, what |-> tp])
    BY <1>2 DEF Send
  <2>2. h \in Handle
    BY DEF IInv, TypeOK
  <2> QED BY <1>1, <1>2, <2>1, <2>2, CheckedIsAccepted DEF Promised!Accept
<1>3. CASE MsgTypeCheck(h, tp) # "Ok"
  BY <1>1, <1>3 DEF Send
<1> QED BY <1>2, <1>3

LEMMA ReceiveIsPromised ==
    ASSUME IInv, TypeOK', Receive
    PROVE  Promised!Accept \/ UNCHANGED << issued, Accepting, scheduled, Waiting, Running >>
<1>1. UNCHANGED << issued, Accepting, Waiting, Running >>
  <2>1. SameCalls
    BY ReceiveStep
  <2>2. UNCHANGED << issued, events, want_idle >>
    BY DEF Receive, storage
  <2> QED BY <2>1, <2>2, SameRunning, SameAccepting DEF IInv, Waiting
<1>2. PICK letter \in Letter : letter = Head(inbox)
  BY DEF Receive, IInv, TypeOK
<1>3. CASE Accepts(letter)
  <2>1. /\ letter.to \in Handle /\ letter = [to |-> letter.to, what |-> letter.what]
        /\ MsgTypeCheck(letter.to, letter.what) = "Ok"
    BY <1>3 DEF Letter, Accepts
  <2>2. scheduled' = Append(scheduled, [to |-> letter.to, what |-> letter.what])
    BY <1>2, <1>3, <2>1 DEF Receive
  <2> QED BY <1>1, <2>1, <2>2, CheckedIsAccepted DEF Promised!Accept
<1>4. CASE ~Accepts(letter)
  BY <1>1, <1>2, <1>4 DEF Receive
<1> QED BY <1>3, <1>4

LEMMA PostIsPromised ==
    ASSUME IInv, TypeOK', NEW h \in issued, NEW tp \in MsgType, Post(h, tp)
    PROVE  Promised!Post \/ UNCHANGED << issued, Accepting, scheduled, Waiting, Running >>
<1>1. UNCHANGED << issued, scheduled, Waiting >>
  BY DEF Post, queues, Waiting
<1>2. CASE UNCHANGED << events, stack >>
  <2>1. SameCalls
    BY <1>2 DEF SameCalls, Calls, IsCall
  <2> QED BY <1>1, <1>2, <2>1, SameRunning, SameAccepting DEF IInv
<1>3. CASE MsgTypeCheck(h, tp) = "Ok" /\ EventCall(h, tp, stack)
  <2>1. h \in Handle /\ stack \in Seq(Frame)
    BY DEF IInv, TypeOK
  <2>2. Len(stack) <= Len(stack) /\ \A i \in Calls : i <= Len(stack)
    BY <2>1 DEF Calls
  <2>3. /\ Accepting' = Accepting
        /\ Running' = Running \/ Promised!Enter(h, tp)
    BY <1>3, <2>1, <2>2, CallEnters
  <2>4. h \in Promised!Live /\ tp \in Accepting[h]
    BY <1>3, <2>1, CheckedIsAccepted
  <2> QED BY <1>1, <2>3, <2>4 DEF Promised!Post
<1> QED BY <1>2, <1>3 DEF Post

\* What is popped from the queue is handed over, or its event is gone or busy.
LEMMA DispatchIsPromised ==
    ASSUME IInv, TypeOK', Dispatch
    PROVE  Promised!HandOver \/ Promised!Lose
<1>1. UNCHANGED << issued, Waiting >> /\ scheduled # << >> /\ scheduled' = Tail(scheduled)
  BY DEF Dispatch, Waiting
<1>2. PICK task \in Task : task = Head(scheduled)
  BY <1>1 DEF IInv, TypeOK
<1>3. task.to \in Handle
  BY DEF Task
<1>4. CASE ~Alive(task.to) /\ UNCHANGED << events, stack >>
  <2>1. SameCalls
    BY <1>4 DEF SameCalls, Calls, IsCall
  <2>2. Running' = Running /\ Accepting' = Accepting
    BY <1>4, <2>1, SameRunning, SameAccepting DEF IInv
  <2>3. task.to \notin Promised!Live
    BY <1>4, LivingIs, View DEF IInv
  <2> QED BY <1>1, <1>2, <2>2, <2>3 DEF Promised!Lose
<1>5. CASE EventCall(task.to, task.what, Pop)
  <2>1. stack # << >> /\ Top.fn = "run_one"
    BY DEF Dispatch, RunOneAt, TopIs
  <2>2. PICK m \in Nat : m = Len(stack) /\ stack[m].fn = "run_one"
    <3>1. stack \in Seq(Frame)
      BY DEF IInv, TypeOK
    <3>2. Len(stack) \in Nat
      BY <3>1, LenProperties
    <3> QED BY <2>1, <3>2 DEF Top
  <2>3. Pop \in Seq(Frame) /\ Len(Pop) = m - 1 /\ \A i \in 1 .. m - 1 : Pop[i] = stack[i]
    BY <2>1, <2>2, PopStack DEF IInv
  <2>4. Len(Pop) <= Len(stack) /\ \A i \in 1 .. Len(Pop) : Pop[i] = stack[i]
    BY <2>2, <2>3
  <2>5. \A i \in Calls : i <= Len(Pop)
    BY <2>2, <2>3 DEF Calls, IsCall
  <2>6. /\ Accepting' = Accepting
        /\ \/ Running' = Running /\ (task.to \in Promised!Busy \/ task.to \notin Living)
           \/ Promised!Enter(task.to, task.what) /\ task.to \in Living
    BY <1>3, <1>5, <2>3, <2>4, <2>5, CallEnters
  <2> QED BY <1>1, <1>2, <2>6, View DEF Promised!HandOver, Promised!Lose
<1> QED BY <1>2, <1>4, <1>5 DEF Dispatch

\* A step that changes nothing a user can see.
LEMMA Unseen ==
    ASSUME IInv, TypeOK', SameCalls, UNCHANGED << events, issued, scheduled, want_idle >>
    PROVE  UNCHANGED << issued, Accepting, scheduled, Waiting, Running >>
BY SameRunning, SameAccepting DEF IInv, Waiting

LEMMA PromisedInit == Init => Promised!Init
<1> SUFFICES ASSUME Init PROVE Promised!Init
  OBVIOUS
<1>1. Used(events) = {} /\ Calls = {} /\ want_idle = << >>
  BY DEF Init, EmptyRecycler, Used, Calls
<1>2. Living = {} /\ Waiting = {}
  BY <1>1 DEF Living, Waiting
<1>3. DOMAIN Running = {} /\ Promised!Live = {}
  BY <1>1, <1>2, View
<1> QED BY <1>2, <1>3 DEF Init, Promised!Init

LEMMA PromisedStep ==
    ASSUME IInv, IdleWaitersAlive, [Next]_vars
    PROVE  [Promised!Next]_<< issued, Accepting, scheduled, Waiting, Running >>
<1> DEFINE Seen == << issued, Accepting, scheduled, Waiting, Running >>
<1>1. TypeOK'
  BY NextStep DEF IInv
<1>2. CASE UserCode
  <2>1. CASE RunOne \/ Run \/ RunUntilEmpty \/ Stop
             \/ (\E h \in issued : RunUntilComplete(h) \/ MakeChannel(h))
    <3>1. SameCalls
      BY <2>1, RunOneStep, RunStep, RunUntilEmptyStep, StopStep,
         RunUntilCompleteStep, MakeChannelStep
    <3>2. UNCHANGED << events, issued, scheduled, want_idle >>
      BY <2>1 DEF RunOne, Run, RunBody, RunUntilEmpty, Stop, RunUntilComplete, MakeChannel,
                  storage, queues
    <3> QED BY <1>1, <3>1, <3>2, Unseen
  <2>2. CASE InsertExact
    BY <1>1, <2>2, InsertIsPromised DEF Promised!Next
  <2>3. CASE WantIdle
    BY <1>1, <2>3, WantIdleIsPromised DEF Promised!Next
  <2>4. CASE \E tp \in MsgType : ExpectMessage(tp)
    BY <1>1, <2>4, ExpectIsPromised DEF Promised!Next
  <2>5. CASE \E h \in issued, tp \in MsgType : Send(h, tp) \/ Post(h, tp)
    BY <1>1, <2>5, SendIsPromised, PostIsPromised DEF Promised!Next
  <2>6. CASE \E resp \in {"true", "false", "err"} : Return(resp)
    BY <1>1, <2>6, ReturnIsPromised DEF Promised!Next
  <2> QED BY <1>2, <2>1, <2>2, <2>3, <2>4, <2>5, <2>6 DEF UserCode
<1>3. CASE LoopCode
  <2>1. CASE \/ InsertDone \/ GatherEmpty \/ Poll \/ PollFailed \/ ReceiveDone \/ UntilTurn \/ RunTurn
             \/ RunUntilEmptyDone \/ Propagate("until") \/ Propagate("run")
    <3>1. SameCalls
      BY <2>1, InsertDoneStep, GatherEmptyStep, PollStep, PollFailedStep, ReceiveDoneStep, UntilTurnStep,
         RunTurnStep, RunUntilEmptyDoneStep, PropagateStep
    <3>2. UNCHANGED << events, issued, scheduled, want_idle >>
      BY <2>1 DEF InsertDone, GatherEmpty, Poll, PollFailed, ReceiveDone, UntilTurn, RunTurn,
                  RunUntilEmptyDone, Propagate, storage, queues
    <3> QED BY <1>1, <3>1, <3>2, Unseen
  <2>2. CASE Receive
    BY <1>1, <2>2, ReceiveIsPromised DEF Promised!Next
  <2>3. CASE GatherIdle
    BY <1>1, <2>3, IdleIsPromised DEF Promised!Next
  <2>4. CASE Dispatch
    BY <1>1, <2>4, DispatchIsPromised DEF Promised!Next
  <2> QED BY <1>3, <2>1, <2>2, <2>3, <2>4 DEF LoopCode
<1>4. CASE OtherThreads
  <2>1. SameCalls
    BY <1>4, ChannelSendStep DEF OtherThreads
  <2>2. UNCHANGED << events, issued, scheduled, want_idle >>
    BY <1>4 DEF OtherThreads, ChannelSend, storage
  <2> QED BY <1>1, <2>1, <2>2, Unseen
<1>5. CASE UNCHANGED vars
  <2>1. SameCalls /\ UNCHANGED << events, issued, scheduled, want_idle >>
    BY <1>5 DEF vars, SameCalls, Calls, IsCall
  <2> QED BY <1>1, <2>1, Unseen
<1> QED BY <1>2, <1>3, <1>4, <1>5 DEF Next

\* Whoever uses the loop sees what its documentation promises: events that are new
\* when they are inserted and gone when they are gone, callbacks of an event one at a
\* time, messages handed over in their order and lost only if the event is gone or
\* busy, and one idle callback for each wish, when nothing else waits.
THEOREM LoopIsAsPromised == Spec => IsAsPromised
<1>1. IInv /\ IdleWaitersAlive /\ [Next]_vars => IInv' /\ IdleWaitersAlive'
  BY NextStep, IdleStep
<1>2. Init => IInv /\ IdleWaitersAlive
  BY InitStep DEF Init, IdleWaitersAlive
<1>3. IInv /\ IdleWaitersAlive /\ [Next]_vars
          => [Promised!Next]_<< issued, Accepting, scheduled, Waiting, Running >>
  BY PromisedStep
<1> QED BY <1>1, <1>2, <1>3, PromisedInit, PTL
        DEF Spec, IsAsPromised, Promised!Spec, Promised!vars
=============================================================================
