---------------------------- MODULE SignalProofs ----------------------------
(***************************************************************************)
(* Proofs about SignalDispatch, for any sets of threads and signals and    *)
(* any number of signals raised: no wakeup is lost, and the broadcaster    *)
(* knows every loop that enabled a signal exactly once.                    *)
(***************************************************************************)
EXTENDS SignalDispatch, TLAPS, FiniteSetTheorems, SequenceTheorems

\* What the proofs need of the types, without the bounds on lengths.
Typed ==
    /\ mutex \in Thread \cup {Nobody}
    /\ registered \in [Sig -> Seq(Thread)]
    /\ flags \in [Thread -> SUBSET Sig]
    /\ woken \subseteq Thread /\ gone \subseteq Thread
    /\ enabled \in [Thread -> SUBSET Sig]
    /\ main \in [Thread -> Main]
    /\ handlers \in [Thread -> Seq(Handler)]
    /\ \A u \in Thread : \A i \in 1 .. Len(handlers[u]) :
         handlers[u][i].at = "wake" => handlers[u][i].todo # << >>

-----------------------------------------------------------------------------
(* The stacks of handlers.                                                 *)

LEMMA StackTop ==
    ASSUME Typed, NEW t \in Thread, NEW at, InHandler(t, at)
    PROVE  /\ Len(handlers[t]) \in Nat \ {0} /\ Len(handlers[t]) \in 1 .. Len(handlers[t])
           /\ Top(t) = handlers[t][Len(handlers[t])] /\ Top(t) \in Handler /\ Top(t).at = at
<1>1. handlers[t] \in Seq(Handler) /\ handlers[t] # << >>
  BY DEF Typed, InHandler
<1>2. Len(handlers[t]) \in Nat \ {0} /\ handlers[t][Len(handlers[t])] \in Handler
  BY <1>1
<1>3. Len(handlers[t]) \in 1 .. Len(handlers[t])
  BY <1>2
<1> QED
  BY <1>2, <1>3 DEF InHandler, Top

\* The handler on top is replaced ...
LEMMA TopSet ==
    ASSUME Typed, NEW t \in Thread, NEW at, InHandler(t, at), NEW h \in Handler, SetTop(t, h)
    PROVE  /\ handlers' \in [Thread -> Seq(Handler)]
           /\ \A u \in Thread : Len(handlers'[u]) = Len(handlers[u])
           /\ handlers'[t][Len(handlers[t])] = h
           /\ \A u \in Thread : \A i \in 1 .. Len(handlers[u]) :
                u # t \/ i # Len(handlers[t]) => handlers'[u][i] = handlers[u][i]
<1>1. handlers[t] \in Seq(Handler) /\ handlers \in [Thread -> Seq(Handler)]
  BY DEF Typed
<1>2. PICK n \in Nat : n = Len(handlers[t]) /\ n # 0
  BY StackTop
<1>3. handlers' = [handlers EXCEPT ![t] = [handlers[t] EXCEPT ![n] = h]]
  BY <1>1, <1>2 DEF SetTop
<1> DEFINE q == [handlers[t] EXCEPT ![n] = h]
<1>4. /\ q \in Seq(Handler) /\ Len(q) = n /\ q[n] = h
      /\ \A i \in 1 .. n : i # n => q[i] = handlers[t][i]
  BY <1>1, <1>2
<1> HIDE DEF q
<1>5. handlers' \in [Thread -> Seq(Handler)] /\ handlers'[t] = q
      /\ \A u \in Thread : u # t => handlers'[u] = handlers[u]
  BY <1>1, <1>3, <1>4 DEF q
<1> QED
  BY <1>2, <1>4, <1>5

\* ... or popped ...
LEMMA TopPopped ==
    ASSUME Typed, NEW t \in Thread, NEW at, InHandler(t, at), PopTop(t)
    PROVE  /\ handlers' \in [Thread -> Seq(Handler)]
           /\ Len(handlers'[t]) = Len(handlers[t]) - 1
           /\ \A u \in Thread : u # t => handlers'[u] = handlers[u]
           /\ \A i \in 1 .. Len(handlers[t]) - 1 : handlers'[t][i] = handlers[t][i]
<1>1. handlers[t] \in Seq(Handler) /\ handlers \in [Thread -> Seq(Handler)]
  BY DEF Typed
<1>2. PICK n \in Nat : n = Len(handlers[t]) /\ n # 0
  BY StackTop
<1>3. n \in Nat \ {0} /\ \A i \in 1 .. n - 1 : handlers[t][i] \in Handler
  BY <1>1, <1>2
<1> DEFINE q == SubSeq(handlers[t], 1, n - 1)
<1>4. /\ q \in Seq(Handler)
      /\ Len(q) = IF 1 <= n - 1 THEN n - 1 - 1 + 1 ELSE 0
      /\ \A i \in 1 .. n - 1 - 1 + 1 : q[i] = handlers[t][1 + i - 1]
  BY <1>3, SubSeqProperties
<1>5. handlers' = [handlers EXCEPT ![t] = q]
  BY <1>1, <1>2 DEF PopTop
<1> HIDE DEF q
<1>6. handlers' \in [Thread -> Seq(Handler)] /\ handlers'[t] = q
      /\ \A u \in Thread : u # t => handlers'[u] = handlers[u]
  BY <1>1, <1>4, <1>5
<1> QED
  BY <1>2, <1>3, <1>4, <1>6

\* ... or another comes on top.
LEMMA TopPushed ==
    ASSUME Typed, NEW t \in Thread, NEW h \in Handler,
           handlers' = [handlers EXCEPT ![t] = Append(@, h)]
    PROVE  /\ handlers' \in [Thread -> Seq(Handler)]
           /\ Len(handlers'[t]) = Len(handlers[t]) + 1 /\ Len(handlers[t]) \in Nat
           /\ handlers'[t][Len(handlers[t]) + 1] = h
           /\ \A u \in Thread : u # t => handlers'[u] = handlers[u]
           /\ \A i \in 1 .. Len(handlers[t]) : handlers'[t][i] = handlers[t][i]
<1>1. handlers[t] \in Seq(Handler) /\ handlers \in [Thread -> Seq(Handler)]
  BY DEF Typed
<1> DEFINE q == Append(handlers[t], h)
<1>2. /\ q \in Seq(Handler) /\ Len(q) = Len(handlers[t]) + 1 /\ Len(handlers[t]) \in Nat
      /\ q[Len(handlers[t]) + 1] = h
      /\ \A i \in 1 .. Len(handlers[t]) : q[i] = handlers[t][i]
  BY <1>1
<1>3. handlers' = [handlers EXCEPT ![t] = q]
  BY <1>1
<1> HIDE DEF q
<1> QED
  BY <1>1, <1>2, <1>3

-----------------------------------------------------------------------------
(* Types.                                                                  *)

\* What each step of a handler makes of the one on top.
Locked(t) == [Top(t) EXCEPT !.at = "flag", !.todo = registered[Top(t).sig]]
Flagged(t) == [Top(t) EXCEPT !.at = "wake"]
Woke(t) ==
    [Top(t) EXCEPT !.at = "flag", !.todo = Tail(@),
                   !.kept = IF Keeps(Head(Top(t).todo)) THEN Append(@, Head(Top(t).todo)) ELSE @]
Delivered(s) == [sig |-> s, at |-> "lock", todo |-> << >>, kept |-> << >>]

LEMMA LockedFacts ==
    ASSUME Typed, NEW t \in Thread, InHandler(t, "lock")
    PROVE  /\ Locked(t) \in Handler /\ Locked(t).sig = Top(t).sig /\ Locked(t).at = "flag"
           /\ Locked(t).todo = registered[Top(t).sig] /\ Locked(t).kept = Top(t).kept
           /\ Top(t).sig \in Sig
<1>1. Top(t) \in Handler
  BY StackTop
<1>2. registered \in [Sig -> Seq(Thread)]
  BY DEF Typed
<1> QED
  BY <1>1, <1>2 DEF Locked, Handler

LEMMA FlaggedFacts ==
    ASSUME Typed, NEW t \in Thread, InHandler(t, "flag"), Top(t).todo # << >>
    PROVE  /\ Flagged(t) \in Handler /\ Flagged(t).sig = Top(t).sig /\ Flagged(t).at = "wake"
           /\ Flagged(t).todo = Top(t).todo /\ Flagged(t).kept = Top(t).kept
           /\ Top(t).sig \in Sig /\ Top(t).todo \in Seq(Thread)
           /\ Head(Top(t).todo) \in Thread
<1>1. Top(t) \in Handler
  BY StackTop
<1>2. Top(t).todo \in Seq(Thread)
  BY <1>1 DEF Handler
<1>3. Head(Top(t).todo) \in Thread
  BY <1>2
<1> QED
  BY <1>1, <1>2, <1>3 DEF Flagged, Handler

LEMMA WokeFacts ==
    ASSUME Typed, NEW t \in Thread, InHandler(t, "wake")
    PROVE  LET n == Head(Top(t).todo)
           IN  /\ Woke(t) \in Handler /\ Woke(t).sig = Top(t).sig /\ Woke(t).at = "flag"
               /\ Woke(t).todo = Tail(Top(t).todo)
               /\ Woke(t).kept = IF n \notin gone THEN Append(Top(t).kept, n) ELSE Top(t).kept
               /\ n \in Thread /\ Top(t).todo # << >> /\ Top(t).sig \in Sig
               /\ Top(t).todo \in Seq(Thread) /\ Top(t).kept \in Seq(Thread)
<1> DEFINE n == Head(Top(t).todo)
<1>1. Top(t) \in Handler /\ Top(t).todo # << >>
  <2>1. PICK i \in 1 .. Len(handlers[t]) : Top(t) = handlers[t][i]
    BY StackTop
  <2>2. Top(t) \in Handler /\ Top(t).at = "wake"
    BY StackTop
  <2> QED
    BY <2>1, <2>2 DEF Typed
<1>2. Top(t).todo \in Seq(Thread) /\ Top(t).kept \in Seq(Thread) /\ Top(t).sig \in Sig
  BY <1>1 DEF Handler
<1>3. n \in Thread /\ Tail(Top(t).todo) \in Seq(Thread)
  BY <1>1, <1>2
<1> DEFINE k == IF n \notin gone THEN Append(Top(t).kept, n) ELSE Top(t).kept
<1>4. k \in Seq(Thread)
  BY <1>2, <1>3
<1>5. Woke(t) = [Top(t) EXCEPT !.at = "flag", !.todo = Tail(@), !.kept = k]
  BY DEF Woke, Keeps
<1> HIDE DEF n, k
<1>6. /\ Woke(t) \in Handler /\ Woke(t).sig = Top(t).sig /\ Woke(t).at = "flag"
      /\ Woke(t).todo = Tail(Top(t).todo) /\ Woke(t).kept = k
  BY <1>1, <1>3, <1>4, <1>5 DEF Handler
<1> QED
  BY <1>1, <1>2, <1>3, <1>6 DEF n, k

LEMMA DeliveredFacts ==
    ASSUME NEW s \in Sig
    PROVE  /\ Delivered(s) \in Handler /\ Delivered(s).at = "lock" /\ Delivered(s).sig = s
           /\ Delivered(s).todo = << >> /\ Delivered(s).kept = << >>
BY DEF Delivered, Handler

\* A step of a handler, all that a proof needs to know of it
LEMMA HandlerSteps ==
    ASSUME Typed, NEW t \in Thread, HandlerStep(t)
    PROVE  /\ UNCHANGED << setup, gone, enabled, main, kernel, owed >>
           /\ \/ /\ HandlerLock(t) /\ InHandler(t, "lock")
                 /\ \/ PopTop(t) /\ registered[Top(t).sig] = << >>
                       /\ UNCHANGED << mutex, registered, flags, woken >>
                    \/ /\ registered[Top(t).sig] # << >> /\ mutex = Nobody /\ mutex' = t
                       /\ SetTop(t, Locked(t))
                       /\ registered' = [registered EXCEPT ![Top(t).sig] = << >>]
                       /\ UNCHANGED << flags, woken >>
              \/ /\ HandlerFlag(t) /\ InHandler(t, "flag") /\ Top(t).todo # << >>
                 /\ SetTop(t, Flagged(t)) /\ UNCHANGED << mutex, registered, woken >>
              \/ /\ HandlerWake(t) /\ InHandler(t, "wake")
                 /\ SetTop(t, Woke(t)) /\ UNCHANGED << mutex, registered, flags >>
              \/ /\ HandlerDone(t) /\ InHandler(t, "flag") /\ PopTop(t)
                 /\ Top(t).todo = << >> /\ mutex' = Nobody
                 /\ registered' = [registered EXCEPT ![Top(t).sig] = Top(t).kept]
                 /\ UNCHANGED << flags, woken >>
<1>1. CASE HandlerLock(t)
  BY <1>1, Zenon DEF HandlerLock, Locked
<1>2. CASE HandlerFlag(t)
  BY <1>2, Zenon DEF HandlerFlag, Flagged
<1>3. CASE HandlerWake(t)
  BY <1>3, Zenon DEF HandlerWake, Woke
<1>4. CASE HandlerDone(t)
  BY <1>4, Zenon DEF HandlerDone
<1> QED
  BY <1>1, <1>2, <1>3, <1>4 DEF HandlerStep

LEMMA TypedInit == Init => Typed
<1> SUFFICES ASSUME Init PROVE Typed
  OBVIOUS
<1>1. handlers \in [Thread -> Seq(Handler)] /\ \A u \in Thread : Len(handlers[u]) = 0
  BY DEF Init
<1>2. main \in [Thread -> Main] /\ registered \in [Sig -> Seq(Thread)]
  BY DEF Init, Idle, Main
<1> QED
  BY <1>1, <1>2 DEF Init, Typed

\* A handler at "wake" has a notifier to wake.
WakesOne == \A u \in Thread : \A i \in 1 .. Len(handlers[u]) :
               handlers[u][i].at = "wake" => handlers[u][i].todo # << >>

LEMMA TypedHandler ==
    ASSUME Typed, NEW t \in Thread, HandlerStep(t)
    PROVE  Typed'
<1>1. UNCHANGED << setup, gone, enabled, main, kernel, owed >>
  BY HandlerSteps
<1>2. WakesOne
  BY DEF Typed, WakesOne
<1>3. ASSUME NEW at, InHandler(t, at), PopTop(t)
      PROVE  handlers' \in [Thread -> Seq(Handler)] /\ WakesOne'
  <2>1. /\ handlers' \in [Thread -> Seq(Handler)]
        /\ Len(handlers'[t]) = Len(handlers[t]) - 1
        /\ \A u \in Thread : u # t => handlers'[u] = handlers[u]
        /\ \A i \in 1 .. Len(handlers[t]) - 1 : handlers'[t][i] = handlers[t][i]
    BY <1>3, TopPopped
  <2>2. Len(handlers[t]) \in Nat \ {0}
    BY <1>3, StackTop
  <2> QED
    BY <1>2, <2>1, <2>2 DEF WakesOne
<1>4. ASSUME NEW at, InHandler(t, at), NEW h \in Handler, SetTop(t, h),
             h.at = "wake" => h.todo # << >>
      PROVE  handlers' \in [Thread -> Seq(Handler)] /\ WakesOne'
  <2>1. /\ handlers' \in [Thread -> Seq(Handler)]
        /\ \A u \in Thread : Len(handlers'[u]) = Len(handlers[u])
        /\ handlers'[t][Len(handlers[t])] = h
        /\ \A u \in Thread : \A i \in 1 .. Len(handlers[u]) :
             u # t \/ i # Len(handlers[t]) => handlers'[u][i] = handlers[u][i]
    BY <1>4, TopSet
  <2> QED
    BY <1>2, <1>4, <2>1 DEF WakesOne
<1>5. CASE HandlerLock(t)
  <2>1. InHandler(t, "lock")
    BY <1>5 DEF HandlerLock
  <2>2. handlers' \in [Thread -> Seq(Handler)] /\ WakesOne'
    <3>1. PopTop(t) \/ SetTop(t, Locked(t))
      BY <1>5, Zenon DEF HandlerLock, Locked
    <3> QED
      BY <1>3, <1>4, <2>1, <3>1, LockedFacts
  <2>3. /\ UNCHANGED << flags, woken >> /\ mutex' \in {mutex, t}
        /\ \/ registered' = registered
           \/ registered' = [registered EXCEPT ![Top(t).sig] = << >>]
    BY <1>5 DEF HandlerLock
  <2>4. registered' \in [Sig -> Seq(Thread)]
    <3>1. Top(t).sig \in Sig
      BY <2>1, LockedFacts
    <3>2. << >> \in Seq(Thread) /\ registered \in [Sig -> Seq(Thread)]
      BY DEF Typed
    <3> QED
      BY <2>3, <3>1, <3>2
  <2> QED
    BY <1>1, <2>2, <2>3, <2>4 DEF Typed, WakesOne
<1>6. CASE HandlerFlag(t)
  <2>1. InHandler(t, "flag") /\ Top(t).todo # << >> /\ SetTop(t, Flagged(t))
    BY <1>6, Zenon DEF HandlerFlag, Flagged
  <2>2. handlers' \in [Thread -> Seq(Handler)] /\ WakesOne'
    BY <1>4, <2>1, FlaggedFacts
  <2>3. flags' \in [Thread -> SUBSET Sig]
    BY <1>6, <2>1, FlaggedFacts DEF HandlerFlag, Typed
  <2>4. UNCHANGED << mutex, registered, woken >>
    BY <1>6 DEF HandlerFlag
  <2> QED
    BY <1>1, <2>2, <2>3, <2>4 DEF Typed, WakesOne
<1>7. CASE HandlerWake(t)
  <2>1. InHandler(t, "wake") /\ SetTop(t, Woke(t))
    BY <1>7, Zenon DEF HandlerWake, Woke
  <2>2. handlers' \in [Thread -> Seq(Handler)] /\ WakesOne'
    BY <1>4, <2>1, WokeFacts
  <2>3. woken' \subseteq Thread
    BY <1>7, <2>1, WokeFacts DEF HandlerWake, Typed
  <2>4. UNCHANGED << mutex, registered, flags >>
    BY <1>7 DEF HandlerWake
  <2> QED
    BY <1>1, <2>2, <2>3, <2>4 DEF Typed, WakesOne
<1>8. CASE HandlerDone(t)
  <2>1. InHandler(t, "flag") /\ PopTop(t)
    BY <1>8 DEF HandlerDone
  <2>2. handlers' \in [Thread -> Seq(Handler)] /\ WakesOne'
    BY <1>3, <2>1
  <2>3. Top(t).sig \in Sig /\ Top(t).kept \in Seq(Thread)
    BY <2>1, StackTop DEF Handler
  <2>4. /\ UNCHANGED << flags, woken >> /\ mutex' = Nobody
        /\ registered' = [registered EXCEPT ![Top(t).sig] = Top(t).kept]
    BY <1>8 DEF HandlerDone
  <2>5. registered' \in [Sig -> Seq(Thread)]
    BY <2>3, <2>4 DEF Typed
  <2> QED
    BY <1>1, <2>2, <2>4, <2>5 DEF Typed, WakesOne
<1> QED
  BY <1>5, <1>6, <1>7, <1>8 DEF HandlerStep

\* What a thread does below its handlers changes as MainTo says.
LEMMA MainSet ==
    ASSUME Typed, NEW t \in Thread, NEW at \in {"user", "lock", "locked", "poll", "scan"},
           NEW sigs \in SUBSET Sig, MainTo(t, at, sigs)
    PROVE  /\ main' \in [Thread -> Main]
           /\ main'[t].at = at /\ main'[t].sigs = sigs
           /\ \A u \in Thread : u # t => main'[u] = main[u]
<1>1. [at |-> at, sigs |-> sigs] \in Main
  BY DEF Main
<1>2. main \in [Thread -> Main] /\ main' = [main EXCEPT ![t] = [at |-> at, sigs |-> sigs]]
  BY DEF Typed, MainTo
<1> QED
  BY <1>1, <1>2

\* Which steps below the handlers there are, with what they do to main.
LEMMA MainSteps ==
    ASSUME Typed, NEW t \in Thread, LoopStep(t) \/ Drop(t) \/ \E s \in Sig : Enable(t, s)
    PROVE  /\ UNCHANGED << handlers, kernel >> /\ handlers[t] = << >> /\ t \notin gone
           /\ main' \in [Thread -> Main]
           /\ \A u \in Thread : u # t => main'[u] = main[u]
           /\ main[t].sigs \in SUBSET Sig
<1>1. main[t].sigs \in SUBSET Sig /\ main \in [Thread -> Main]
  BY DEF Typed, Main
<1>2. UNCHANGED << handlers, kernel >> /\ handlers[t] = << >> /\ t \notin gone
  BY DEF LoopStep, Drop, Enable, Register, Registered, Poll, Receive, ScanDone, ScanOne, MainAt
<1>3. CASE Drop(t)
  BY <1>1, <1>2, <1>3 DEF Drop
<1>4. CASE LoopStep(t) \/ \E s \in Sig : Enable(t, s)
  <2>1. PICK at \in {"user", "lock", "locked", "poll", "scan"}, sigs \in SUBSET Sig :
          MainTo(t, at, sigs)
    BY <1>1, <1>4 DEF LoopStep, Enable, Register, Registered, Poll, Receive, ScanDone, ScanOne
  <2> QED
    BY <1>1, <1>2, <2>1, MainSet
<1> QED
  BY <1>3, <1>4

LEMMA TypedMain ==
    ASSUME Typed, NEW t \in Thread, LoopStep(t) \/ Drop(t) \/ \E s \in Sig : Enable(t, s)
    PROVE  Typed'
<1>1. /\ UNCHANGED handlers /\ main' \in [Thread -> Main]
      /\ main[t].sigs \in SUBSET Sig
  BY MainSteps
<1>2. registered' \in [Sig -> Seq(Thread)]
  <2>1. \/ registered' = registered
        \/ registered' = [z \in Sig |-> IF z \in main[t].sigs THEN Append(registered[z], t)
                                                               ELSE registered[z]]
    BY DEF LoopStep, Drop, Enable, Register, Registered, Poll, Receive, ScanDone, ScanOne
  <2>2. \A z \in Sig : Append(registered[z], t) \in Seq(Thread) /\ registered[z] \in Seq(Thread)
    BY DEF Typed
  <2> QED
    BY <2>1, <2>2 DEF Typed
<1>3. enabled' \in [Thread -> SUBSET Sig]
  BY <1>1 DEF LoopStep, Drop, Enable, Register, Registered, Poll, Receive, ScanDone,
     ScanOne, Typed
<1>4. flags' \in [Thread -> SUBSET Sig]
  BY DEF LoopStep, Drop, Enable, Register, Registered, Poll, Receive, ScanDone, ScanOne, Typed
<1>5. woken' \subseteq Thread /\ gone' \subseteq Thread /\ mutex' \in Thread \cup {Nobody}
  BY DEF LoopStep, Drop, Enable, Register, Registered, Poll, Receive, ScanDone,
     ScanOne, Typed, AfterScan
<1> QED
  BY <1>1, <1>2, <1>3, <1>4, <1>5 DEF Typed

LEMMA TypedDeliver ==
    ASSUME Typed, NEW t \in Thread, NEW s \in Sig, Deliver(t, s)
    PROVE  Typed'
<1>1. handlers' = [handlers EXCEPT ![t] = Append(@, Delivered(s))]
  BY DEF Deliver, Delivered
<1>2. /\ handlers' \in [Thread -> Seq(Handler)]
      /\ Len(handlers'[t]) = Len(handlers[t]) + 1 /\ Len(handlers[t]) \in Nat
      /\ handlers'[t][Len(handlers[t]) + 1] = Delivered(s)
      /\ \A u \in Thread : u # t => handlers'[u] = handlers[u]
      /\ \A i \in 1 .. Len(handlers[t]) : handlers'[t][i] = handlers[t][i]
  BY <1>1, TopPushed, DeliveredFacts
<1>3. WakesOne'
  <2> SUFFICES ASSUME NEW u \in Thread, NEW i \in 1 .. Len(handlers'[u]),
                      handlers'[u][i].at = "wake"
               PROVE  handlers'[u][i].todo # << >>
    BY DEF WakesOne
  <2>1. handlers'[u][i] # Delivered(s)
    BY DeliveredFacts
  <2>2. i \in 1 .. Len(handlers[u]) /\ handlers'[u][i] = handlers[u][i]
    BY <1>2, <2>1
  <2> QED
    BY <2>2 DEF Typed
<1> QED
  BY <1>2, <1>3 DEF Typed, WakesOne, Deliver

LEMMA TypedStep ==
    ASSUME Typed, [Next]_vars
    PROVE  Typed'
<1>1. CASE UNCHANGED vars
  BY <1>1 DEF vars, Typed
<1>2. ASSUME NEW s \in Sig, Raise(s)
      PROVE  Typed'
  BY <1>2 DEF Raise, Typed
<1> QED
  BY <1>1, <1>2, TypedMain, TypedHandler, TypedDeliver DEF Next

-----------------------------------------------------------------------------
(* No lost wakeup.                                                         *)

\* Handler i of thread u has set the flag of n for s and has yet to wake n.
IsWaking(u, i, n, s) ==
    /\ handlers[u][i].sig = s /\ handlers[u][i].at = "wake"
    /\ Head(handlers[u][i].todo) = n
Waking(n, s) == \E u \in Thread : \E i \in 1 .. Len(handlers[u]) : IsWaking(u, i, n, s)

LEMMA WakingKept ==
    ASSUME Typed, NEW t \in Thread, NEW at, InHandler(t, at),
           PopTop(t) \/ \E h \in Handler : SetTop(t, h),
           NEW n, NEW s, Waking(n, s), ~IsWaking(t, Len(handlers[t]), n, s)
    PROVE  Waking(n, s)'
<1>1. PICK u \in Thread, i \in Int : i \in 1 .. Len(handlers[u]) /\ IsWaking(u, i, n, s)
  BY DEF Waking
<1>2. u # t \/ i # Len(handlers[t])
  BY <1>1
<1>3. Len(handlers[t]) \in Nat \ {0}
  BY StackTop
<1>4. CASE PopTop(t)
  <2>1. /\ Len(handlers'[t]) = Len(handlers[t]) - 1
        /\ \A v \in Thread : v # t => handlers'[v] = handlers[v]
        /\ \A j \in 1 .. Len(handlers[t]) - 1 : handlers'[t][j] = handlers[t][j]
    BY <1>4, TopPopped
  <2>2. i \in 1 .. Len(handlers'[u]) /\ handlers'[u][i] = handlers[u][i]
    BY <1>1, <1>2, <1>3, <2>1
  <2> QED
    BY <1>1, <2>2 DEF IsWaking, Waking
<1>5. ASSUME NEW h \in Handler, SetTop(t, h)
      PROVE  Waking(n, s)'
  <2>1. /\ \A v \in Thread : Len(handlers'[v]) = Len(handlers[v])
        /\ \A v \in Thread : \A j \in 1 .. Len(handlers[v]) :
             v # t \/ j # Len(handlers[t]) => handlers'[v][j] = handlers[v][j]
    BY <1>5, TopSet
  <2>2. i \in 1 .. Len(handlers'[u]) /\ handlers'[u][i] = handlers[u][i]
    BY <1>1, <1>2, <2>1
  <2> QED
    BY <1>1, <2>2 DEF IsWaking, Waking
<1> QED
  BY <1>4, <1>5

\* NoLostWakeup, in these terms
Noticed(n, s) ==
    \/ n \in woken
    \/ main[n].at = "scan" /\ s \in main[n].sigs
    \/ Waking(n, s)

LEMMA NoticedIsIt == NoLostWakeup <=> \A n \in Thread \ gone : \A s \in flags[n] : Noticed(n, s)
BY DEF NoLostWakeup, Noticed, Waking, IsWaking

LEMMA NoticedHandler ==
    ASSUME Typed, \A n \in Thread \ gone : \A s \in flags[n] : Noticed(n, s),
           NEW t \in Thread, HandlerStep(t),
           NEW n \in Thread \ gone, NEW s \in flags'[n]
    PROVE  Noticed(n, s)'
<1>1. UNCHANGED << gone, main >>
  BY HandlerSteps
<1>2. ASSUME NEW at, at # "wake", InHandler(t, at),
             PopTop(t) \/ \E h \in Handler : SetTop(t, h),
             s \in flags[n], woken' = woken
      PROVE  Noticed(n, s)'
  <2>1. ~IsWaking(t, Len(handlers[t]), n, s)
    BY <1>2 DEF IsWaking, InHandler
  <2> QED
    BY <1>1, <1>2, <2>1, WakingKept DEF Noticed
<1>3. CASE HandlerLock(t)
  <2>1. InHandler(t, "lock") /\ UNCHANGED << flags, woken >>
    BY <1>3 DEF HandlerLock
  <2>2. PopTop(t) \/ SetTop(t, Locked(t))
    BY <1>3, Zenon DEF HandlerLock, Locked
  <2> QED
    BY <1>2, <2>1, <2>2, LockedFacts
<1>4. CASE HandlerFlag(t)
  <2>1. InHandler(t, "flag") /\ Top(t).todo # << >> /\ woken' = woken
    BY <1>4 DEF HandlerFlag
  <2>2. SetTop(t, Flagged(t))
    BY <1>4, Zenon DEF HandlerFlag, Flagged
  <2>3. CASE s \in flags[n]
    BY <1>2, <2>1, <2>2, <2>3, FlaggedFacts
  <2>4. CASE s \notin flags[n]
    <3>1. flags' = [flags EXCEPT ![Head(Top(t).todo)] = @ \cup {Top(t).sig}]
      BY <1>4 DEF HandlerFlag
    <3>2. n = Head(Top(t).todo) /\ s = Top(t).sig
      BY <2>4, <3>1 DEF Typed
    <3>3. /\ Len(handlers'[t]) = Len(handlers[t])
          /\ handlers'[t][Len(handlers[t])] = Flagged(t)
          /\ Len(handlers[t]) \in 1 .. Len(handlers[t])
      BY <2>1, <2>2, FlaggedFacts, TopSet, StackTop
    <3>4. /\ Flagged(t).sig = s /\ Flagged(t).at = "wake" /\ Head(Flagged(t).todo) = n
      BY <2>1, <3>2, FlaggedFacts
    <3> QED
      BY <3>3, <3>4 DEF Noticed, Waking, IsWaking
  <2> QED
    BY <2>3, <2>4
<1>5. CASE HandlerWake(t)
  <2>1. /\ InHandler(t, "wake") /\ flags' = flags
        /\ woken' = IF Head(Top(t).todo) \in gone THEN woken ELSE woken \cup {Head(Top(t).todo)}
    BY <1>5 DEF HandlerWake
  <2>2. SetTop(t, Woke(t))
    BY <1>5, Zenon DEF HandlerWake, Woke
  <2>3. CASE n = Head(Top(t).todo)
    BY <2>1, <2>3 DEF Noticed
  <2>4. CASE n # Head(Top(t).todo)
    <3>1. ~IsWaking(t, Len(handlers[t]), n, s)
      BY <2>4 DEF IsWaking, Top
    <3> QED
      BY <1>1, <2>1, <2>2, <3>1, WakingKept, WokeFacts DEF Noticed
  <2> QED
    BY <2>3, <2>4
<1>6. CASE HandlerDone(t)
  <2>1. InHandler(t, "flag") /\ UNCHANGED << flags, woken >> /\ PopTop(t)
    BY <1>6 DEF HandlerDone
  <2> QED
    BY <1>2, <2>1
<1> QED
  BY <1>3, <1>4, <1>5, <1>6 DEF HandlerStep

LEMMA NoticedMain ==
    ASSUME Typed, \A n \in Thread \ gone : \A s \in flags[n] : Noticed(n, s),
           NEW t \in Thread, LoopStep(t) \/ Drop(t) \/ \E z \in Sig : Enable(t, z),
           NEW n \in Thread \ gone', NEW s \in flags'[n]
    PROVE  Noticed(n, s)'
<1>1. /\ UNCHANGED handlers /\ \A u \in Thread : u # t => main'[u] = main[u]
      /\ main[t].sigs \in SUBSET Sig
  BY MainSteps
<1>2. /\ gone \subseteq gone' /\ \A u \in Thread : u # t => flags'[u] = flags[u]
      /\ \A u \in woken : u # t => u \in woken'
  BY DEF LoopStep, Drop, Enable, Register, Registered, Poll, Receive, ScanDone, ScanOne, Typed,
     AfterScan
<1>3. CASE n # t
  <2>1. Noticed(n, s)
    BY <1>2, <1>3
  <2> QED
    BY <1>1, <1>2, <1>3, <2>1 DEF Noticed, Waking, IsWaking
<1>4. CASE n = t
  <2>1. CASE Receive(t)
    <3>1. MainTo(t, "scan", Sig) /\ flags' = flags
      BY <2>1 DEF Receive
    <3>2. main'[t].at = "scan" /\ main'[t].sigs = Sig
      BY <3>1, MainSet
    <3>3. s \in Sig
      BY <1>4, <3>1 DEF Typed
    <3> QED
      BY <1>4, <3>2, <3>3 DEF Noticed
  <2>2. ASSUME NEW z \in Sig, ScanOne(t, z)
        PROVE  Noticed(n, s)'
    <3>1. /\ MainTo(t, "scan", main[t].sigs \ {z}) /\ woken' = woken /\ main[t].at = "scan"
          /\ flags' = [flags EXCEPT ![t] = @ \ {z}] /\ gone' = gone
      BY <2>2 DEF ScanOne, MainAt
    <3>2. main'[t].at = "scan" /\ main'[t].sigs = main[t].sigs \ {z}
      BY <1>1, <3>1, MainSet
    <3>3. s \in flags[n] /\ s # z
      BY <1>4, <3>1 DEF Typed
    <3>4. Noticed(n, s)
      BY <3>1, <3>3
    <3> QED
      BY <1>1, <1>4, <3>1, <3>2, <3>3, <3>4 DEF Noticed, Waking, IsWaking
  <2>3. CASE Drop(t)
    BY <1>4, <2>3 DEF Drop
  <2>4. CASE \/ Register(t) \/ Registered(t) \/ Poll(t) \/ ScanDone(t)
             \/ \E z \in Sig : Enable(t, z)
    <3>1. /\ UNCHANGED << flags, gone, woken >>
          /\ main[t].at # "scan" \/ main[t].sigs = {}
      BY <2>4 DEF Register, Registered, Poll, ScanDone, Enable, MainAt, AfterScan
    <3>2. Noticed(n, s)
      BY <3>1
    <3> QED
      BY <1>1, <1>4, <3>1, <3>2 DEF Noticed, Waking, IsWaking
  <2> QED
    BY <2>1, <2>2, <2>3, <2>4 DEF LoopStep
<1> QED
  BY <1>3, <1>4

LEMMA NoticedDeliver ==
    ASSUME Typed, \A n \in Thread \ gone : \A s \in flags[n] : Noticed(n, s),
           NEW t \in Thread, NEW z \in Sig, Deliver(t, z),
           NEW n \in Thread \ gone', NEW s \in flags'[n]
    PROVE  Noticed(n, s)'
<1>1. /\ handlers' = [handlers EXCEPT ![t] = Append(@, Delivered(z))]
      /\ UNCHANGED << flags, woken, gone, main >>
  BY DEF Deliver, Delivered
<1>2. /\ Len(handlers'[t]) = Len(handlers[t]) + 1 /\ Len(handlers[t]) \in Nat
      /\ \A u \in Thread : u # t => handlers'[u] = handlers[u]
      /\ \A i \in 1 .. Len(handlers[t]) : handlers'[t][i] = handlers[t][i]
  BY <1>1, TopPushed, DeliveredFacts
<1>3. Waking(n, s) => Waking(n, s)'
  <2> SUFFICES ASSUME Waking(n, s) PROVE Waking(n, s)'
    OBVIOUS
  <2>1. PICK u \in Thread, i \in Int : i \in 1 .. Len(handlers[u]) /\ IsWaking(u, i, n, s)
    BY DEF Waking
  <2>2. i \in 1 .. Len(handlers'[u]) /\ handlers'[u][i] = handlers[u][i]
    BY <1>2, <2>1
  <2> QED
    BY <2>1, <2>2 DEF Waking, IsWaking
<1> QED
  BY <1>1, <1>3 DEF Noticed

\* However signals, handlers in any threads and the scans of the loops interleave, no
\* loop sleeps while one of its flags is set.
THEOREM WakeupsAreKept == Spec => []NoLostWakeup
<1>1. Init => NoLostWakeup
  BY DEF Init, NoLostWakeup
<1>2. Typed /\ NoLostWakeup /\ [Next]_vars => NoLostWakeup'
  <2> SUFFICES ASSUME Typed, NoLostWakeup, [Next]_vars,
                      NEW n \in Thread \ gone', NEW s \in flags'[n]
               PROVE  Noticed(n, s)'
    BY DEF NoLostWakeup, Noticed, Waking, IsWaking
  <2>1. \A m \in Thread \ gone : \A z \in flags[m] : Noticed(m, z)
    BY NoticedIsIt
  <2>2. CASE UNCHANGED vars \/ \E z \in Sig : Raise(z)
    <3>1. UNCHANGED << flags, woken, gone, main, handlers >>
      BY <2>2 DEF vars, Raise
    <3> QED
      BY <2>1, <3>1 DEF Noticed, Waking, IsWaking
  <2>3. ASSUME NEW t \in Thread, HandlerStep(t)
        PROVE  Noticed(n, s)'
    <3>1. gone' = gone
      BY <2>3, HandlerSteps
    <3> QED
      BY <2>1, <2>3, <3>1, NoticedHandler
  <2>4. ASSUME NEW t \in Thread, LoopStep(t) \/ Drop(t) \/ \E z \in Sig : Enable(t, z)
        PROVE  Noticed(n, s)'
    BY <2>1, <2>4, NoticedMain
  <2>5. ASSUME NEW t \in Thread, NEW z \in Sig, Deliver(t, z)
        PROVE  Noticed(n, s)'
    BY <2>1, <2>5, NoticedDeliver
  <2> QED
    BY <2>2, <2>3, <2>4, <2>5 DEF Next
<1> QED
  BY <1>1, <1>2, TypedInit, TypedStep, PTL DEF Spec

-----------------------------------------------------------------------------
(* Every loop is registered once.                                          *)

Once(q, n) == \E k \in 1 .. Len(q) : q[k] = n /\ \A l \in 1 .. Len(q) : q[l] = n => l = k
Never(q, n) == \A k \in 1 .. Len(q) : q[k] # n

LEMMA AppendOnce ==
    ASSUME NEW q \in Seq(Thread), NEW x \in Thread
    PROVE  /\ Never(q, x) => Once(Append(q, x), x)
           /\ \A n : n # x /\ Never(q, n) => Never(Append(q, x), n)
           /\ \A n : n # x /\ Once(q, n) => Once(Append(q, x), n)
<1>1. PICK m \in Nat : m = Len(q)
  OBVIOUS
<1> DEFINE r == Append(q, x)
<1>2. /\ Len(r) = m + 1 /\ r[m + 1] = x
      /\ \A i \in 1 .. m : r[i] = q[i]
  BY <1>1
<1>3. \A i \in 1 .. m + 1 : i \in 1 .. m \/ i = m + 1
  BY <1>1
<1> HIDE DEF r
<1>4. Never(q, x) => Once(r, x)
  BY <1>1, <1>2, <1>3 DEF Never, Once
<1>5. ASSUME NEW n, n # x, Once(q, n)
      PROVE  Once(r, n)
  <2>1. PICK k \in 1 .. m : q[k] = n /\ \A l \in 1 .. m : q[l] = n => l = k
    BY <1>1, <1>5 DEF Once
  <2>2. k \in 1 .. m + 1 /\ r[k] = n /\ \A l \in 1 .. m + 1 : r[l] = n => l = k
    BY <1>1, <1>2, <1>3, <1>5, <2>1
  <2> QED
    BY <1>2, <2>2 DEF Once
<1>6. \A n : n # x /\ Never(q, n) => Never(r, n)
  BY <1>1, <1>2, <1>3 DEF Never
<1> QED
  BY <1>4, <1>5, <1>6 DEF r

LEMMA TailOnce ==
    ASSUME NEW q \in Seq(Thread), q # << >>
    PROVE  /\ ~Never(q, Head(q))
           /\ Once(q, Head(q)) => Never(Tail(q), Head(q))
           /\ \A n : Never(q, n) => Never(Tail(q), n)
           /\ \A n : n # Head(q) /\ Once(q, n) => Once(Tail(q), n)
<1>1. PICK m \in Nat : m = Len(q) /\ m # 0
  OBVIOUS
<1> DEFINE r == Tail(q)
<1>2. /\ Len(r) = m - 1 /\ Head(q) = q[1] /\ 1 \in 1 .. m
      /\ \A i \in 1 .. m - 1 : r[i] = q[i + 1] /\ i + 1 \in 1 .. m
  BY <1>1
<1> HIDE DEF r
<1>3. ~Never(q, q[1])
  BY <1>1, <1>2 DEF Never
<1>4. ASSUME Once(q, q[1])
      PROVE  Never(r, q[1])
  <2>1. \A l \in 1 .. m : q[l] = q[1] => l = 1
    BY <1>1, <1>2, <1>4 DEF Once
  <2>2. \A i \in 1 .. m - 1 : r[i] # q[1]
    BY <1>1, <1>2, <2>1
  <2> QED
    BY <1>2, <2>2 DEF Never
<1>5. \A n : Never(q, n) => Never(r, n)
  BY <1>1, <1>2 DEF Never
<1>6. ASSUME NEW n, n # q[1], Once(q, n)
      PROVE  Once(r, n)
  <2>1. PICK k \in 1 .. m : q[k] = n /\ \A l \in 1 .. m : q[l] = n => l = k
    BY <1>1, <1>6 DEF Once
  <2>2. k # 1
    BY <1>6, <2>1
  <2>3. k - 1 \in 1 .. m - 1 /\ k - 1 + 1 = k
    BY <1>1, <2>1, <2>2
  <2>4. r[k - 1] = n
    BY <1>2, <2>1, <2>3
  <2>5. ASSUME NEW l \in 1 .. m - 1, r[l] = n
        PROVE  l = k - 1
    <3>1. l + 1 = k
      BY <1>2, <2>1, <2>5
    <3> QED
      BY <1>1, <2>1, <3>1
  <2> QED
    BY <1>2, <2>3, <2>4, <2>5 DEF Once
<1> QED
  BY <1>2, <1>3, <1>4, <1>5, <1>6 DEF r

LEMMA EmptyNever == \A n : Never(<< >>, n) /\ ~Once(<< >>, n)
BY DEF Never, Once

\* A handler that holds the mutex
Busy(u, i) == handlers[u][i].at # "lock"
NoneBusy(s) == \A u \in Thread : \A i \in 1 .. Len(handlers[u]) :
                  Busy(u, i) => handlers[u][i].sig # s

\* The mutex is held by one handler, or by one thread in register.
Exclusive ==
    /\ \A u \in Thread : \A i \in 1 .. Len(handlers[u]) : Busy(u, i) => mutex = u
    /\ \A u \in Thread : \A i, j \in 1 .. Len(handlers[u]) : Busy(u, i) /\ Busy(u, j) => i = j
    /\ \A u \in Thread : main[u].at = "locked" =>
         mutex = u /\ \A i \in 1 .. Len(handlers[u]) : ~Busy(u, i)

\* A handler that waits for the mutex has taken nothing out.
Fresh == \A u \in Thread : \A i \in 1 .. Len(handlers[u]) :
            ~Busy(u, i) => handlers[u][i].kept = << >>

\* register asks for signals that are not enabled.
Asking == \A n \in Thread : main[n].at \in {"lock", "locked"} => main[n].sigs \cap enabled[n] = {}

\* What the broadcaster has to know of loop n
Wanted(n, s) == s \in enabled[n] \/ (main[n].at = "locked" /\ s \in main[n].sigs)
Fits(q, n, s) == (Wanted(n, s) => Once(q, n)) /\ (~Wanted(n, s) => Never(q, n))

\* It is in the table, or while a handler goes through the notifiers, in one of the
\* handler's lists.
Listed == \A s \in Sig : NoneBusy(s) => \A n \in Thread \ gone : Fits(registered[s], n, s)
Parted(h, n) ==
    \/ Fits(h.todo, n, h.sig) /\ Never(h.kept, n)
    \/ Never(h.todo, n) /\ Fits(h.kept, n, h.sig)
Taken == \A u \in Thread : \A i \in 1 .. Len(handlers[u]) :
            Busy(u, i) => \A n \in Thread \ gone : Parted(handlers[u][i], n)

Book == Exclusive /\ Fresh /\ Asking /\ Listed /\ Taken

LEMMA BookInit == Init => Book
<1> SUFFICES ASSUME Init PROVE Book
  OBVIOUS
<1>1. \A u \in Thread : handlers[u] = << >> /\ main[u].at = "user"
  BY DEF Init, Idle
<1>2. Exclusive /\ Fresh /\ Asking /\ Taken
  BY <1>1 DEF Exclusive, Fresh, Asking, Taken
<1>3. \A n \in Thread, s \in Sig : ~Wanted(n, s) /\ registered[s] = << >>
  BY <1>1 DEF Init, Wanted
<1>4. Listed
  BY <1>3, EmptyNever DEF Listed, Fits
<1> QED
  BY <1>2, <1>4 DEF Book

\* While nobody holds the mutex, all is in the table.
LEMMA FreeMutex ==
    ASSUME Book, mutex = Nobody
    PROVE  /\ \A u \in Thread : \A i \in 1 .. Len(handlers[u]) : ~Busy(u, i)
           /\ \A u \in Thread : main[u].at # "locked"
           /\ \A s \in Sig : \A n \in Thread \ gone : Fits(registered[s], n, s)
<1>1. \A u \in Thread : u # Nobody
  BY NobodyIsNoThread
<1>2. /\ \A u \in Thread : \A i \in 1 .. Len(handlers[u]) : ~Busy(u, i)
      /\ \A u \in Thread : main[u].at # "locked"
  BY <1>1 DEF Book, Exclusive
<1>3. \A s \in Sig : NoneBusy(s)
  BY <1>2 DEF NoneBusy
<1> QED
  BY <1>2, <1>3 DEF Book, Listed

LEMMA BookIsEnough == Book => EveryLoopRegistered
<1> SUFFICES ASSUME Book, mutex = Nobody, NEW s \in Sig, NEW t \in Thread \ gone,
                    s \in enabled[t]
             PROVE  Cardinality({k \in 1 .. Len(registered[s]) : registered[s][k] = t}) = 1
  BY DEF EveryLoopRegistered
<1>1. Once(registered[s], t)
  BY FreeMutex DEF Fits, Wanted
<1>2. PICK k \in 1 .. Len(registered[s]) :
        {l \in 1 .. Len(registered[s]) : registered[s][l] = t} = {k}
  BY <1>1 DEF Once
<1> QED
  BY <1>2, FS_Singleton

\* A handler that waits for the mutex ends without it, or takes it.
LEMMA BookLock ==
    ASSUME Typed, Book, NEW t \in Thread, HandlerLock(t)
    PROVE  Book'
<1>1. /\ InHandler(t, "lock") /\ mutex = Nobody
      /\ UNCHANGED << setup, gone, enabled, main >>
  BY DEF HandlerLock
<1>2. PICK m \in Nat \ {0} : m = Len(handlers[t]) /\ m \in 1 .. m
  BY <1>1, StackTop
<1>3. /\ \A u \in Thread : \A i \in 1 .. Len(handlers[u]) :
            handlers[u][i].at = "lock" /\ handlers[u][i].kept = << >>
      /\ \A u \in Thread : main[u].at # "locked"
      /\ \A s \in Sig : \A n \in Thread \ gone : Fits(registered[s], n, s)
  BY <1>1, FreeMutex DEF Book, Fresh, Busy
<1>4. Asking'
  BY <1>1 DEF Book, Asking
<1>5. CASE registered[Top(t).sig] = << >>
  <2>1. PopTop(t) /\ UNCHANGED << mutex, registered >>
    BY <1>5 DEF HandlerLock
  <2>2. /\ Len(handlers'[t]) = m - 1
        /\ \A u \in Thread : u # t => handlers'[u] = handlers[u]
        /\ \A i \in 1 .. m - 1 : handlers'[t][i] = handlers[t][i]
    BY <1>1, <1>2, <2>1, TopPopped
  <2>3. \A u \in Thread : \A i \in 1 .. Len(handlers'[u]) :
            handlers'[u][i].at = "lock" /\ handlers'[u][i].kept = << >>
    BY <1>2, <1>3, <2>2
  <2>4. Exclusive' /\ Fresh' /\ Taken'
    BY <1>1, <1>3, <2>3 DEF Exclusive, Fresh, Taken, Busy
  <2>5. Listed'
    BY <1>1, <1>3, <2>1 DEF Listed, Fits, Wanted
  <2> QED
    BY <1>4, <2>4, <2>5 DEF Book
<1>6. CASE registered[Top(t).sig] # << >>
  <2>1. /\ mutex' = t /\ registered' = [registered EXCEPT ![Top(t).sig] = << >>]
    BY <1>6 DEF HandlerLock
  <2>2. SetTop(t, Locked(t))
    BY <1>6, Zenon DEF HandlerLock, Locked
  <2>3. PICK h \in Handler : h = Locked(t)
    BY <1>1, LockedFacts
  <2>4. /\ h.at = "flag" /\ h.sig = Top(t).sig /\ h.todo = registered[h.sig] /\ h.kept = << >>
        /\ h.sig \in Sig
    <3>1. Top(t) = handlers[t][m]
      BY <1>1, <1>2, StackTop
    <3> QED
      BY <1>1, <1>2, <1>3, <2>3, <3>1, LockedFacts
  <2>5. /\ \A u \in Thread : Len(handlers'[u]) = Len(handlers[u])
        /\ handlers'[t][m] = h
        /\ \A u \in Thread : \A i \in 1 .. Len(handlers[u]) :
             u # t \/ i # m => handlers'[u][i] = handlers[u][i]
    BY <1>1, <1>2, <2>2, <2>3, TopSet
  <2>6. \A u \in Thread : \A i \in 1 .. Len(handlers'[u]) :
            \/ u = t /\ i = m /\ handlers'[u][i] = h
            \/ handlers'[u][i].at = "lock" /\ handlers'[u][i].kept = << >>
    BY <1>3, <2>5
  <2>7. Exclusive' /\ Fresh'
    BY <1>1, <1>3, <2>1, <2>4, <2>6 DEF Exclusive, Fresh, Busy
  <2>8. Taken'
    <3>1. \A n \in Thread \ gone : Parted(h, n)
      BY <1>3, <2>4, EmptyNever DEF Parted
    <3>2. \A n \in Thread \ gone : Parted(h, n)'
      BY <1>1, <3>1 DEF Parted, Fits, Wanted
    <3> QED
      BY <1>1, <2>6, <3>2 DEF Taken, Busy
  <2>9. Listed'
    <3> SUFFICES ASSUME NEW s \in Sig, NoneBusy(s)', NEW n \in Thread \ gone'
                 PROVE  Fits(registered[s], n, s)'
      BY DEF Listed
    <3>1. m \in 1 .. Len(handlers'[t])
      BY <1>2, <2>5
    <3>2. s # h.sig
      BY <2>4, <2>5, <3>1 DEF NoneBusy, Busy
    <3>3. registered'[s] = registered[s]
      BY <2>1, <2>4, <3>2 DEF Typed
    <3>4. Fits(registered[s], n, s)
      BY <1>1, <1>3
    <3> QED
      BY <1>1, <3>3, <3>4 DEF Fits, Wanted
  <2> QED
    BY <1>4, <2>7, <2>8, <2>9 DEF Book
<1> QED
  BY <1>5, <1>6

\* A handler that holds the mutex, before the next notifier or after it: the lists may
\* change, as long as they say the same.
LEMMA BookOn ==
    ASSUME Typed, Book, NEW t \in Thread, NEW at, InHandler(t, at), at # "lock",
           NEW h \in Handler, h.at # "lock", h.sig = Top(t).sig, SetTop(t, h),
           \A n \in Thread \ gone : Parted(Top(t), n) => Parted(h, n),
           UNCHANGED << mutex, registered, gone, enabled, main >>
    PROVE  Book'
<1>1. PICK m \in Nat \ {0} : m = Len(handlers[t]) /\ m \in 1 .. m
  BY StackTop
<1>2. /\ \A u \in Thread : Len(handlers'[u]) = Len(handlers[u])
      /\ handlers'[t][m] = h
      /\ \A u \in Thread : \A i \in 1 .. Len(handlers[u]) :
           u # t \/ i # m => handlers'[u][i] = handlers[u][i]
  BY <1>1, TopSet
<1>3. handlers[t][m] = Top(t) /\ Top(t).at # "lock"
  BY <1>1, StackTop
<1>4. \A u \in Thread : \A i \in 1 .. Len(handlers[u]) :
        /\ handlers'[u][i].at = "lock" <=> handlers[u][i].at = "lock"
        /\ handlers'[u][i].sig = handlers[u][i].sig
        /\ handlers[u][i].at = "lock" => handlers'[u][i] = handlers[u][i]
  BY <1>2, <1>3
<1>5. Exclusive' /\ Fresh' /\ Asking'
  <2>1. \A u \in Thread : \A i \in 1 .. Len(handlers'[u]) :
          i \in 1 .. Len(handlers[u]) /\ (Busy(u, i)' <=> Busy(u, i))
    BY <1>2, <1>4 DEF Busy
  <2>2. \A u \in Thread : Len(handlers'[u]) = Len(handlers[u])
    BY <1>2
  <2>3. Exclusive'
    BY <2>1, <2>2 DEF Book, Exclusive
  <2>4. Fresh'
    BY <2>1, <1>4 DEF Book, Fresh, Busy
  <2>5. Asking'
    BY DEF Book, Asking
  <2> QED
    BY <2>3, <2>4, <2>5
<1>6. Listed'
  <2>1. \A s : NoneBusy(s)' => NoneBusy(s)
    BY <1>2, <1>4 DEF NoneBusy, Busy
  <2> QED
    BY <2>1 DEF Book, Listed, Fits, Wanted
<1>7. Taken'
  <2> SUFFICES ASSUME NEW u \in Thread, NEW i \in 1 .. Len(handlers[u]), Busy(u, i)',
                      NEW n \in Thread \ gone
               PROVE  Parted(handlers[u][i], n)'
    BY <1>2 DEF Taken
  <2>1. Parted(handlers[u][i], n)
    BY <1>4 DEF Book, Taken, Busy
  <2>2. Parted(handlers'[u][i], n)
    BY <1>2, <1>3, <2>1
  <2> QED
    BY <2>2 DEF Parted, Fits, Wanted
<1> QED
  BY <1>5, <1>6, <1>7 DEF Book

LEMMA BookFlag ==
    ASSUME Typed, Book, NEW t \in Thread, HandlerFlag(t)
    PROVE  Book'
<1>1. /\ InHandler(t, "flag") /\ Top(t).todo # << >>
      /\ UNCHANGED << mutex, registered, gone, enabled, main >>
  BY DEF HandlerFlag
<1>2. SetTop(t, Flagged(t))
  BY Zenon DEF HandlerFlag, Flagged
<1>3. PICK h \in Handler : h = Flagged(t)
  BY <1>1, FlaggedFacts
<1>4. h.at = "wake" /\ h.sig = Top(t).sig /\ h.todo = Top(t).todo /\ h.kept = Top(t).kept
  BY <1>1, <1>3, FlaggedFacts
<1>5. \A n \in Thread \ gone : Parted(Top(t), n) => Parted(h, n)
  BY <1>4 DEF Parted
<1> QED
  BY <1>1, <1>2, <1>3, <1>4, <1>5, BookOn

LEMMA BookWake ==
    ASSUME Typed, Book, NEW t \in Thread, HandlerWake(t)
    PROVE  Book'
<1>1. InHandler(t, "wake") /\ UNCHANGED << mutex, registered, gone, enabled, main >>
  BY DEF HandlerWake
<1>2. SetTop(t, Woke(t))
  BY Zenon DEF HandlerWake, Woke
<1>3. PICK h \in Handler : h = Woke(t)
  BY <1>1, WokeFacts
<1>4. PICK q \in Seq(Thread), k \in Seq(Thread), x \in Thread :
        /\ q = Top(t).todo /\ k = Top(t).kept /\ q # << >> /\ x = Head(q)
        /\ h.at = "flag" /\ h.sig = Top(t).sig /\ h.todo = Tail(q)
        /\ h.kept = IF x \notin gone THEN Append(k, x) ELSE k
  BY <1>1, <1>3, WokeFacts
<1>5. ASSUME NEW n \in Thread \ gone, Parted(Top(t), n)
      PROVE  Parted(h, n)
  <2>1. CASE n = x
    <3>1. ~Never(q, n)
      BY <1>4, <2>1, TailOnce
    <3>2. Wanted(n, h.sig) /\ Once(q, n) /\ Never(k, n)
      BY <1>4, <1>5, <3>1 DEF Parted, Fits
    <3>3. Never(Tail(q), n) /\ Once(Append(k, x), n)
      BY <1>4, <2>1, <3>2, TailOnce, AppendOnce
    <3> QED
      BY <1>4, <2>1, <3>2, <3>3 DEF Parted, Fits
  <2>2. CASE n # x
    <3>1. /\ Never(q, n) => Never(h.todo, n)
          /\ Once(q, n) => Once(h.todo, n)
          /\ Never(k, n) => Never(h.kept, n)
          /\ Once(k, n) => Once(h.kept, n)
      BY <1>4, <2>2, TailOnce, AppendOnce
    <3> QED
      BY <1>4, <1>5, <3>1 DEF Parted, Fits
  <2> QED
    BY <2>1, <2>2
<1> QED
  BY <1>1, <1>2, <1>3, <1>4, <1>5, BookOn

LEMMA BookDone ==
    ASSUME Typed, Book, NEW t \in Thread, HandlerDone(t)
    PROVE  Book'
<1>1. /\ InHandler(t, "flag") /\ Top(t).todo = << >> /\ mutex' = Nobody /\ PopTop(t)
      /\ registered' = [registered EXCEPT ![Top(t).sig] = Top(t).kept]
      /\ UNCHANGED << gone, enabled, main >>
  BY DEF HandlerDone
<1>2. PICK m \in Nat \ {0} : m = Len(handlers[t]) /\ m \in 1 .. m
  BY <1>1, StackTop
<1>3. PICK h \in Handler : h = Top(t) /\ handlers[t][m] = h /\ h.at = "flag"
  BY <1>1, <1>2, StackTop
<1>4. /\ Len(handlers'[t]) = m - 1
      /\ \A u \in Thread : u # t => handlers'[u] = handlers[u]
      /\ \A i \in 1 .. m - 1 : handlers'[t][i] = handlers[t][i]
  BY <1>1, <1>2, TopPopped
<1>5. Busy(t, m) /\ mutex = t
  BY <1>2, <1>3 DEF Busy, Book, Exclusive
<1>6. \A u \in Thread : \A i \in 1 .. Len(handlers[u]) : Busy(u, i) => u = t /\ i = m
  BY <1>2, <1>5 DEF Book, Exclusive
<1>7. \A u \in Thread : main[u].at # "locked"
  BY <1>2, <1>5 DEF Book, Exclusive
<1>8. \A u \in Thread : \A i \in 1 .. Len(handlers'[u]) :
        /\ i \in 1 .. Len(handlers[u]) /\ handlers'[u][i] = handlers[u][i]
        /\ ~Busy(u, i)
  <2> SUFFICES ASSUME NEW u \in Thread, NEW i \in 1 .. Len(handlers'[u])
               PROVE  /\ i \in 1 .. Len(handlers[u]) /\ handlers'[u][i] = handlers[u][i]
                      /\ ~Busy(u, i)
    OBVIOUS
  <2>1. CASE u = t
    <3>1. i \in 1 .. m - 1 /\ i \in 1 .. m /\ i # m
      BY <1>2, <1>4, <2>1
    <3> QED
      BY <1>2, <1>4, <1>6, <2>1, <3>1
  <2>2. CASE u # t
    BY <1>4, <1>6, <2>2
  <2> QED
    BY <2>1, <2>2
<1>9. Exclusive' /\ Fresh' /\ Asking' /\ Taken'
  BY <1>1, <1>7, <1>8 DEF Book, Exclusive, Fresh, Asking, Taken, Busy
<1>10. Listed'
  <2> SUFFICES ASSUME NEW s \in Sig, NEW n \in Thread \ gone
               PROVE  Fits(registered[s], n, s)'
    BY <1>1 DEF Listed
  <2>1. Fits(registered'[s], n, s)
    <3>1. CASE s = h.sig
      <4>1. Parted(h, n) /\ h.todo = << >>
        BY <1>1, <1>2, <1>3, <1>5 DEF Book, Taken
      <4>2. registered'[s] = h.kept
        BY <1>1, <1>3, <3>1 DEF Typed
      <4> QED
        BY <3>1, <4>1, <4>2, EmptyNever DEF Parted, Fits
    <3>2. CASE s # h.sig
      <4>1. NoneBusy(s)
        BY <1>3, <1>6, <3>2 DEF NoneBusy
      <4>2. registered'[s] = registered[s]
        BY <1>1, <1>3, <3>2 DEF Typed
      <4> QED
        BY <4>1, <4>2 DEF Book, Listed
    <3> QED
      BY <3>1, <3>2
  <2> QED
    BY <1>1, <2>1 DEF Fits, Wanted
<1> QED
  BY <1>9, <1>10 DEF Book

\* register: the table gets the loop, which it did not have.
LEMMA BookRegister ==
    ASSUME Typed, Book, NEW t \in Thread, Register(t)
    PROVE  Book'
<1>1. /\ UNCHANGED << handlers, gone, enabled >> /\ handlers[t] = << >> /\ t \notin gone
      /\ main[t].at = "lock" /\ mutex = Nobody /\ mutex' = t
  BY DEF Register, MainAt
<1>2. /\ \A u \in Thread : \A i \in 1 .. Len(handlers[u]) : ~Busy(u, i)
      /\ \A u \in Thread : main[u].at # "locked"
      /\ \A s \in Sig : \A n \in Thread \ gone : Fits(registered[s], n, s)
  BY <1>1, FreeMutex
<1>3. main[t].sigs \in SUBSET Sig
  BY DEF Typed, Main
<1>4. /\ main'[t].at = "locked" /\ main'[t].sigs = main[t].sigs
      /\ \A u \in Thread : u # t => main'[u] = main[u]
  BY <1>3, MainSet DEF Register
<1>5. /\ \A s \in main[t].sigs : registered'[s] = Append(registered[s], t)
      /\ \A s \in Sig : s \notin main[t].sigs => registered'[s] = registered[s]
  BY <1>3 DEF Register
<1>6. Exclusive' /\ Fresh' /\ Asking' /\ Taken'
  BY <1>1, <1>2, <1>4 DEF Book, Exclusive, Fresh, Asking, Taken, Busy
<1>7. Listed'
  <2> SUFFICES ASSUME NEW s \in Sig, NEW n \in Thread \ gone
               PROVE  Fits(registered[s], n, s)'
    BY <1>1 DEF Listed
  <2>1. Fits(registered[s], n, s) /\ registered[s] \in Seq(Thread)
    BY <1>2 DEF Typed
  <2>2. CASE s \notin main[t].sigs
    <3>1. registered'[s] = registered[s] /\ (Wanted(n, s)' <=> Wanted(n, s))
      BY <1>1, <1>2, <1>4, <1>5, <2>2 DEF Wanted
    <3> QED
      BY <2>1, <3>1 DEF Fits
  <2>3. CASE s \in main[t].sigs
    <3>1. registered'[s] = Append(registered[s], t)
      BY <1>5, <2>3
    <3>2. CASE n = t
      <4>1. ~Wanted(t, s) /\ Wanted(t, s)'
        BY <1>1, <1>2, <1>4, <2>3 DEF Book, Asking, Wanted
      <4>2. Once(registered'[s], t)
        BY <2>1, <3>1, <3>2, <4>1, AppendOnce DEF Fits
      <4> QED
        BY <3>2, <4>1, <4>2 DEF Fits
    <3>3. CASE n # t
      <4>1. Wanted(n, s)' <=> Wanted(n, s)
        BY <1>1, <1>4, <3>3 DEF Wanted
      <4>2. /\ Once(registered[s], n) => Once(registered'[s], n)
            /\ Never(registered[s], n) => Never(registered'[s], n)
        BY <2>1, <3>1, <3>3, AppendOnce
      <4> QED
        BY <2>1, <4>1, <4>2 DEF Fits
    <3> QED
      BY <3>2, <3>3
  <2> QED
    BY <2>2, <2>3
<1> QED
  BY <1>6, <1>7 DEF Book

LEMMA BookRegistered ==
    ASSUME Typed, Book, NEW t \in Thread, Registered(t)
    PROVE  Book'
<1>1. /\ UNCHANGED << handlers, gone, registered >> /\ main[t].at = "locked"
      /\ mutex' = Nobody /\ enabled' = [enabled EXCEPT ![t] = @ \cup main[t].sigs]
  BY DEF Registered, MainAt
<1>2. main'[t].at = "user" /\ \A u \in Thread : u # t => main'[u] = main[u]
  BY MainSet DEF Registered
<1>3. mutex = t /\ \A u \in Thread : main[u].at = "locked" => u = t
  BY <1>1 DEF Book, Exclusive
<1>4. \A u \in Thread : \A i \in 1 .. Len(handlers[u]) : ~Busy(u, i)
  BY <1>1, <1>3 DEF Book, Exclusive
<1>5. /\ enabled'[t] = enabled[t] \cup main[t].sigs
      /\ \A u \in Thread : u # t => enabled'[u] = enabled[u]
  BY <1>1 DEF Typed
<1>6. \A n \in Thread, s \in Sig : Wanted(n, s)' <=> Wanted(n, s)
  BY <1>1, <1>2, <1>3, <1>5 DEF Wanted
<1>7. Exclusive' /\ Fresh' /\ Asking' /\ Taken'
  BY <1>1, <1>2, <1>3, <1>4, <1>5 DEF Book, Exclusive, Fresh, Asking, Taken, Busy
<1>8. Listed'
  <2>1. \A s \in Sig : NoneBusy(s)
    BY <1>4 DEF NoneBusy
  <2>2. \A s \in Sig : \A n \in Thread \ gone : Fits(registered[s], n, s)
    BY <2>1 DEF Book, Listed
  <2> QED
    BY <1>1, <1>6, <2>2 DEF Listed, Fits
<1> QED
  BY <1>7, <1>8 DEF Book

\* What the broadcaster does not see leaves the book as it is.
LEMMA BookKept ==
    ASSUME Typed, Book, UNCHANGED << handlers, mutex, registered, enabled >>,
           gone \subseteq gone', Asking',
           \A u \in Thread : main'[u] = main[u] \/ (main[u].at # "locked" /\ main'[u].at # "locked")
    PROVE  Book'
<1>1. \A n \in Thread : \A s : Wanted(n, s)' <=> Wanted(n, s)
  BY DEF Wanted
<1>2. \A u \in Thread : main'[u].at = "locked" => main[u].at = "locked"
  OBVIOUS
<1>3. Exclusive' /\ Fresh'
  BY <1>2 DEF Book, Exclusive, Fresh, Busy
<1>4. Listed'
  BY <1>1 DEF Book, Listed, NoneBusy, Busy, Fits
<1>5. Taken'
  <2> SUFFICES ASSUME NEW u \in Thread, NEW i \in 1 .. Len(handlers[u]), Busy(u, i),
                      NEW n \in Thread \ gone
               PROVE  Parted(handlers[u][i], n)'
    BY DEF Taken, Busy
  <2>1. Parted(handlers[u][i], n)
    BY DEF Book, Taken
  <2> QED
    BY <1>1, <2>1 DEF Parted, Fits
<1> QED
  BY <1>3, <1>4, <1>5 DEF Book

LEMMA BookMain ==
    ASSUME Typed, Book, NEW t \in Thread,
           \/ Poll(t) \/ Receive(t) \/ ScanDone(t) \/ Drop(t)
           \/ \E s \in Sig : ScanOne(t, s) \/ Enable(t, s)
    PROVE  Book'
<1>1. UNCHANGED << handlers, mutex, registered, enabled >> /\ gone \subseteq gone'
      /\ main[t].at \in {"user", "poll", "scan"}
  BY DEF Poll, Receive, ScanDone, Drop, ScanOne, Enable, MainAt
<1>2. \A u \in Thread : u # t => main'[u] = main[u]
  BY MainSteps DEF LoopStep
<1>3. \/ main' = main
      \/ main'[t].at \in {"user", "poll", "scan"}
      \/ main'[t].at = "lock" /\ main'[t].sigs \cap enabled[t] = {}
  <2>1. CASE Drop(t)
    BY <2>1 DEF Drop
  <2>2. CASE Poll(t) \/ Receive(t) \/ ScanDone(t) \/ \E s \in Sig : ScanOne(t, s)
    <3>1. main[t].sigs \in SUBSET Sig
      BY DEF Typed, Main
    <3>2. PICK at \in {"user", "poll", "scan"}, sigs \in SUBSET Sig : MainTo(t, at, sigs)
      BY <2>2, <3>1 DEF Poll, Receive, ScanDone, ScanOne
    <3> QED
      BY <3>2, MainSet
  <2>3. ASSUME NEW s \in Sig, Enable(t, s)
        PROVE  main'[t].at = "lock" /\ main'[t].sigs \cap enabled[t] = {}
    <3>1. MainTo(t, "lock", {s}) /\ s \notin enabled[t] /\ {s} \in SUBSET Sig
      BY <2>3 DEF Enable
    <3>2. main'[t].at = "lock" /\ main'[t].sigs = {s}
      BY <3>1, MainSet
    <3> QED
      BY <3>1, <3>2
  <2> QED
    BY <2>1, <2>2, <2>3
<1>4. Asking'
  BY <1>1, <1>2, <1>3 DEF Book, Asking
<1> QED
  BY <1>1, <1>2, <1>3, <1>4, BookKept

LEMMA BookDeliver ==
    ASSUME Typed, Book, NEW t \in Thread, NEW s \in Sig, Deliver(t, s)
    PROVE  Book'
<1>1. /\ handlers' = [handlers EXCEPT ![t] = Append(@, Delivered(s))]
      /\ UNCHANGED << mutex, registered, gone, enabled, main >>
      /\ main[t].at # "locked"
  BY DEF Deliver, Delivered, Blocks, MaskedAt
<1>2. PICK h \in Handler : h = Delivered(s) /\ h.at = "lock" /\ h.kept = << >>
  BY DeliveredFacts
<1>3. /\ Len(handlers'[t]) = Len(handlers[t]) + 1 /\ Len(handlers[t]) \in Nat
      /\ handlers'[t][Len(handlers[t]) + 1] = h
      /\ \A u \in Thread : u # t => handlers'[u] = handlers[u]
      /\ \A i \in 1 .. Len(handlers[t]) : handlers'[t][i] = handlers[t][i]
  BY <1>1, <1>2, TopPushed
<1>4. /\ \A u \in Thread : \A i \in 1 .. Len(handlers'[u]) :
            \/ i \in 1 .. Len(handlers[u]) /\ handlers'[u][i] = handlers[u][i]
            \/ handlers'[u][i] = h
      /\ \A u \in Thread : \A i \in 1 .. Len(handlers[u]) :
            i \in 1 .. Len(handlers'[u]) /\ handlers'[u][i] = handlers[u][i]
  <2> DEFINE l == Len(handlers[t])
  <2>1. /\ \A i \in 1 .. l + 1 :
             \/ i \in 1 .. l /\ handlers'[t][i] = handlers[t][i]
             \/ handlers'[t][i] = h
        /\ \A i \in 1 .. l : i \in 1 .. l + 1 /\ handlers'[t][i] = handlers[t][i]
    BY <1>3
  <2>2. Len(handlers'[t]) = l + 1 /\ \A u \in Thread : u # t => handlers'[u] = handlers[u]
    BY <1>3
  <2> QED
    BY <2>1, <2>2
<1>5. Exclusive'
  BY <1>1, <1>2, <1>4 DEF Book, Exclusive, Busy
<1>6. Fresh' /\ Asking'
  BY <1>1, <1>2, <1>4 DEF Book, Fresh, Asking, Busy
<1>7. Listed'
  <2>1. \A z : NoneBusy(z)' => NoneBusy(z)
    BY <1>4 DEF NoneBusy, Busy
  <2> QED
    BY <1>1, <2>1 DEF Book, Listed, Fits, Wanted
<1>8. Taken'
  <2> SUFFICES ASSUME NEW u \in Thread, NEW i \in 1 .. Len(handlers'[u]), Busy(u, i)',
                      NEW n \in Thread \ gone
               PROVE  Parted(handlers[u][i], n)'
    BY <1>1 DEF Taken
  <2>1. i \in 1 .. Len(handlers[u]) /\ handlers'[u][i] = handlers[u][i]
    BY <1>2, <1>4 DEF Busy
  <2>2. Parted(handlers[u][i], n)
    BY <2>1 DEF Book, Taken, Busy
  <2> QED
    BY <1>1, <2>1, <2>2 DEF Parted, Fits, Wanted
<1> QED
  BY <1>5, <1>6, <1>7, <1>8 DEF Book

LEMMA BookStep ==
    ASSUME Typed, Book, [Next]_vars
    PROVE  Book'
<1>1. CASE UNCHANGED vars \/ \E s \in Sig : Raise(s)
  <2>1. UNCHANGED << handlers, mutex, registered, enabled, gone, main >>
    BY <1>1 DEF vars, Raise
  <2>2. Asking'
    BY <2>1 DEF Book, Asking
  <2> QED
    BY <2>1, <2>2, BookKept
<1>2. ASSUME NEW t \in Thread, HandlerStep(t)
      PROVE  Book'
  BY <1>2, BookLock, BookFlag, BookWake, BookDone DEF HandlerStep
<1>3. ASSUME NEW t \in Thread, LoopStep(t) \/ Drop(t) \/ \E s \in Sig : Enable(t, s)
      PROVE  Book'
  BY <1>3, BookRegister, BookRegistered, BookMain DEF LoopStep
<1> QED
  BY <1>1, <1>2, <1>3, BookDeliver DEF Next

\* Outside of a running handler the broadcaster knows each loop that enabled a signal,
\* once, although handlers take the notifiers out and put back what is left.
THEOREM LoopsStayRegistered == Spec => []EveryLoopRegistered
BY BookInit, BookStep, BookIsEnough, TypedInit, TypedStep, PTL DEF Spec

-----------------------------------------------------------------------------
(* The bounds of the types: no list of notifiers is longer than there are  *)
(* threads, those of loops that are gone included, and no stack of handlers *)
(* is higher than there are signals.                                       *)

Apart(q) == \A i, j \in 1 .. Len(q) : q[i] = q[j] => i = j
Disjoint(p, q) == \A i \in 1 .. Len(p), j \in 1 .. Len(q) : p[i] # q[j]

\* Each notifier is in the table once, or in one of the lists of a handler.
ListsApart(h) == Apart(h.todo) /\ Apart(h.kept) /\ Disjoint(h.todo, h.kept)
Single ==
    /\ \A s \in Sig : Apart(registered[s])
    /\ \A u \in Thread : \A i \in 1 .. Len(handlers[u]) : ListsApart(handlers[u][i])

\* A handler blocks its own signal.
StackApart == \A u \in Thread : \A i, j \in 1 .. Len(handlers[u]) :
                 handlers[u][i].sig = handlers[u][j].sig => i = j

Others ==
    /\ setup \subseteq Sig /\ pending \subseteq Sig
    /\ raised \in 0 .. MaxRaised
    /\ owed \in [Thread -> SUBSET Sig]

\* A function without a value twice has no more places than there are values.
LEMMA NoMorePlaces ==
    ASSUME NEW T, IsFiniteSet(T), NEW n \in Nat, NEW f \in [1 .. n -> T],
           \A i, j \in 1 .. n : f[i] = f[j] => i = j
    PROVE  n <= Cardinality(T)
<1>1. f \in Injection(1 .. n, T)
  BY DEF Injection, IsInjective
<1>2. Cardinality(1 .. n) <= Cardinality(T)
  BY <1>1, FS_Injection
<1>3. 0 \in Int /\ 1 \in Int /\ n \in Int
  OBVIOUS
<1>4. Cardinality(1 .. n) = IF 1 > n THEN 0 ELSE n - 1 + 1
  BY <1>3, FS_Interval
<1> QED BY <1>2, <1>4

LEMMA ApartLen ==
    ASSUME NEW T, IsFiniteSet(T), NEW q \in Seq(T), Apart(q)
    PROVE  Len(q) <= Cardinality(T)
<1>1. PICK n \in Nat : n = Len(q) /\ q \in [1 .. n -> T]
  OBVIOUS
<1> QED BY <1>1, NoMorePlaces DEF Apart

LEMMA ApartLonger ==
    ASSUME NEW q \in Seq(Thread), NEW x \in Thread, Apart(q), Never(q, x)
    PROVE  Apart(Append(q, x))
<1> DEFINE r == Append(q, x)
<1>1. PICK m \in Nat : m = Len(q) /\ Len(r) = m + 1 /\ r[m + 1] = x /\ \A i \in 1 .. m : r[i] = q[i]
  OBVIOUS
<1>2. \A i \in 1 .. m + 1 : i \in 1 .. m \/ i = m + 1
  BY <1>1
<1> HIDE DEF r
<1>3. Apart(r)
  BY <1>1, <1>2 DEF Apart, Never
<1> QED BY <1>3 DEF r

\* The next notifier is woken, and kept or dropped.
LEMMA ApartWoken ==
    ASSUME NEW p \in Seq(Thread), NEW q \in Seq(Thread), p # << >>,
           Apart(p), Apart(q), Disjoint(p, q)
    PROVE  /\ Apart(Tail(p)) /\ Disjoint(Tail(p), q)
           /\ Apart(Append(q, Head(p))) /\ Disjoint(Tail(p), Append(q, Head(p)))
<1> DEFINE r == Tail(p)
           k == Append(q, Head(p))
<1>1. PICK n \in Nat : n # 0 /\ n = Len(p) /\ Len(r) = n - 1 /\ Head(p) = p[1]
                       /\ \A i \in 1 .. n - 1 : r[i] = p[i + 1]
  OBVIOUS
<1>2. Head(p) \in Thread
  OBVIOUS
<1>3. PICK m \in Nat : m = Len(q) /\ Len(k) = m + 1 /\ k[m + 1] = Head(p)
                       /\ \A i \in 1 .. m : k[i] = q[i]
  BY <1>2
<1> HIDE DEF r, k
<1>4. \A i \in 1 .. n - 1 : i + 1 \in 1 .. n /\ i + 1 # 1 /\ 1 \in 1 .. n
  BY <1>1
<1>5. Apart(r)
  <2> SUFFICES ASSUME NEW i \in 1 .. n - 1, NEW j \in 1 .. n - 1, r[i] = r[j] PROVE i = j
    BY <1>1 DEF Apart
  <2>1. i + 1 = j + 1
    BY <1>1, <1>4 DEF Apart
  <2> QED BY <2>1
<1>6. Disjoint(r, q)
  BY <1>1, <1>4 DEF Disjoint
<1>7. Never(q, Head(p))
  <2>1. 1 \in 1 .. n
    BY <1>1
  <2> QED BY <1>1, <2>1 DEF Disjoint, Never
<1>8. Apart(k)
  BY <1>2, <1>7, ApartLonger DEF k
<1>9. Disjoint(r, k)
  <2>1. \A j \in 1 .. m + 1 : j \in 1 .. m \/ j = m + 1
    BY <1>3
  <2>2. \A i \in 1 .. n - 1 : r[i] # Head(p)
    BY <1>1, <1>4 DEF Apart
  <2> QED BY <1>1, <1>3, <1>6, <2>1, <2>2 DEF Disjoint
<1> QED BY <1>5, <1>6, <1>8, <1>9 DEF r, k

LEMMA BoundsInit == Init => Single /\ StackApart /\ Others
<1> SUFFICES ASSUME Init PROVE Single /\ StackApart /\ Others
  OBVIOUS
<1>1. Apart(<< >>)
  BY DEF Apart
<1>2. \A u \in Thread : handlers[u] = << >> /\ Len(handlers[u]) = 0
  BY DEF Init
<1> QED BY <1>1, <1>2, SignalConstants DEF Init, Single, StackApart, Others

LEMMA BoundsHandler ==
    ASSUME Typed, Book, Single, StackApart, NEW t \in Thread, HandlerStep(t)
    PROVE  Single' /\ StackApart'
<1>0. /\ \A s \in Sig : registered[s] \in Seq(Thread) /\ Apart(registered[s])
      /\ \A u \in Thread : \A i \in 1 .. Len(handlers[u]) : ListsApart(handlers[u][i])
  BY DEF Typed, Single
<1>1. ASSUME NEW at, InHandler(t, at), NEW h \in Handler, SetTop(t, h), h.sig = Top(t).sig,
             ListsApart(h), \A s \in Sig : Apart(registered'[s])
      PROVE  Single' /\ StackApart'
  <2>1. /\ \A u \in Thread : Len(handlers'[u]) = Len(handlers[u])
        /\ handlers'[t][Len(handlers[t])] = h
        /\ \A u \in Thread : \A i \in 1 .. Len(handlers[u]) :
             u # t \/ i # Len(handlers[t]) => handlers'[u][i] = handlers[u][i]
    BY <1>1, TopSet
  <2>2. Top(t) = handlers[t][Len(handlers[t])]
    BY DEF Top
  <2>3. \A u \in Thread : \A i \in 1 .. Len(handlers[u]) :
          handlers'[u][i].sig = handlers[u][i].sig /\ ListsApart(handlers'[u][i])
    BY <1>0, <1>1, <2>1, <2>2
  <2>4. Single'
    BY <1>1, <2>1, <2>3 DEF Single
  <2>5. StackApart'
    BY <2>1, <2>3 DEF StackApart
  <2> QED BY <2>4, <2>5
<1>2. ASSUME NEW at, InHandler(t, at), PopTop(t), \A s \in Sig : Apart(registered'[s])
      PROVE  Single' /\ StackApart'
  <2>1. /\ Len(handlers'[t]) = Len(handlers[t]) - 1
        /\ \A u \in Thread : u # t => handlers'[u] = handlers[u]
        /\ \A i \in 1 .. Len(handlers[t]) - 1 : handlers'[t][i] = handlers[t][i]
        /\ Len(handlers[t]) \in Nat \ {0}
    BY <1>2, TopPopped, StackTop
  <2>2. \A u \in Thread : \A i \in 1 .. Len(handlers'[u]) :
          i \in 1 .. Len(handlers[u]) /\ handlers'[u][i] = handlers[u][i]
    BY <2>1
  <2>3. Single'
    BY <1>0, <1>2, <2>2 DEF Single
  <2>4. StackApart'
    BY <2>2 DEF StackApart
  <2> QED BY <2>3, <2>4
<1>3. ASSUME NEW at, InHandler(t, at) PROVE Top(t).sig \in Sig /\ ListsApart(Top(t)) /\ Top(t) \in Handler
  BY <1>0, <1>3, StackTop DEF Handler
<1>4. CASE HandlerLock(t)
  <2>1. InHandler(t, "lock")
    BY <1>4 DEF HandlerLock
  <2>2. Locked(t) \in Handler /\ Locked(t).sig = Top(t).sig /\ Top(t).sig \in Sig
        /\ Locked(t).todo = registered[Top(t).sig] /\ Locked(t).kept = Top(t).kept
    BY <2>1, LockedFacts
  <2>3. Top(t).kept = << >>
    <3>1. Len(handlers[t]) \in 1 .. Len(handlers[t]) /\ Top(t) = handlers[t][Len(handlers[t])]
          /\ Top(t).at = "lock"
      BY <2>1, StackTop
    <3> QED BY <3>1 DEF Book, Fresh, Busy
  <2>4. ListsApart(Locked(t))
    <3>1. Apart(registered[Top(t).sig])
      BY <1>0, <2>2
    <3>2. Apart(<< >>) /\ \A p : Disjoint(p, << >>)
      BY DEF Apart, Disjoint
    <3> QED BY <2>2, <2>3, <3>1, <3>2 DEF ListsApart
  <2>5. \A s \in Sig : Apart(registered'[s])
    <3>1. Apart(<< >>)
      BY DEF Apart
    <3>2. registered' = registered \/ registered' = [registered EXCEPT ![Top(t).sig] = << >>]
      BY <1>4 DEF HandlerLock
    <3>3. \A s \in Sig : registered'[s] = registered[s] \/ registered'[s] = << >>
      BY <3>2 DEF Typed
    <3> QED BY <1>0, <3>1, <3>3
  <2>6. PopTop(t) \/ SetTop(t, Locked(t))
    BY <1>4, Zenon DEF HandlerLock, Locked
  <2> QED BY <1>1, <1>2, <2>1, <2>2, <2>4, <2>5, <2>6
<1>5. CASE HandlerFlag(t)
  <2>1. InHandler(t, "flag") /\ Top(t).todo # << >> /\ SetTop(t, Flagged(t))
    BY <1>5, Zenon DEF HandlerFlag, Flagged
  <2>2. Flagged(t) \in Handler /\ Flagged(t).sig = Top(t).sig /\ ListsApart(Flagged(t))
    BY <1>3, <2>1, FlaggedFacts DEF ListsApart
  <2>3. registered' = registered
    BY <1>5 DEF HandlerFlag
  <2> QED BY <1>0, <1>1, <2>1, <2>2, <2>3
<1>6. CASE HandlerWake(t)
  <2>1. InHandler(t, "wake") /\ SetTop(t, Woke(t)) /\ registered' = registered
    BY <1>6, Zenon DEF HandlerWake, Woke
  <2>2. Woke(t) \in Handler /\ Woke(t).sig = Top(t).sig
    BY <2>1, WokeFacts
  <2>3. PICK p \in Seq(Thread), q \in Seq(Thread) :
          /\ p # << >> /\ p = Top(t).todo /\ q = Top(t).kept
          /\ Woke(t).todo = Tail(p)
          /\ Woke(t).kept = Append(q, Head(p)) \/ Woke(t).kept = q
    BY <2>1, WokeFacts
  <2>4. Apart(p) /\ Apart(q) /\ Disjoint(p, q)
    BY <1>3, <2>1, <2>3 DEF ListsApart
  <2>5. /\ Apart(Tail(p)) /\ Disjoint(Tail(p), q)
        /\ Apart(Append(q, Head(p))) /\ Disjoint(Tail(p), Append(q, Head(p)))
    BY <2>3, <2>4, ApartWoken
  <2>6. ListsApart(Woke(t))
    BY <2>3, <2>4, <2>5 DEF ListsApart
  <2> QED BY <1>0, <1>1, <2>1, <2>2, <2>6
<1>7. CASE HandlerDone(t)
  <2>1. InHandler(t, "flag") /\ PopTop(t)
        /\ registered' = [registered EXCEPT ![Top(t).sig] = Top(t).kept]
    BY <1>7 DEF HandlerDone
  <2>2. \A s \in Sig : registered'[s] = registered[s] \/ registered'[s] = Top(t).kept
    BY <2>1 DEF Typed
  <2>3. Apart(Top(t).kept)
    BY <1>3, <2>1 DEF ListsApart
  <2> QED BY <1>0, <1>2, <2>1, <2>2, <2>3
<1> QED BY <1>4, <1>5, <1>6, <1>7 DEF HandlerStep

LEMMA BoundsMain ==
    ASSUME Typed, Book, Single, StackApart, NEW t \in Thread,
           LoopStep(t) \/ Drop(t) \/ \E s \in Sig : Enable(t, s)
    PROVE  Single' /\ StackApart'
<1>1. handlers' = handlers
  BY MainSteps
<1>2. StackApart'
  BY <1>1 DEF StackApart
<1>3. ASSUME NEW s \in Sig PROVE Apart(registered'[s])
  <2>1. registered[s] \in Seq(Thread) /\ Apart(registered[s])
    BY DEF Typed, Single
  <2>2. CASE Register(t)
    <3>1. main[t].at = "lock" /\ mutex = Nobody /\ t \notin gone
      BY <2>2 DEF Register, MainAt
    <3>2. registered'[s] = IF s \in main[t].sigs THEN Append(registered[s], t) ELSE registered[s]
      BY <2>2 DEF Register
    <3>3. CASE s \in main[t].sigs
      <4>1. ~Wanted(t, s)
        BY <3>1, <3>3 DEF Book, Asking, Wanted
      <4>2. Never(registered[s], t)
        BY <3>1, <4>1, FreeMutex DEF Fits
      <4> QED BY <2>1, <3>2, <3>3, <4>2, ApartLonger
    <3> QED BY <2>1, <3>2, <3>3
  <2>3. CASE ~Register(t)
    <3>1. registered' = registered
      BY <2>3 DEF LoopStep, Drop, Enable, Registered, Poll, Receive, ScanDone, ScanOne
    <3> QED BY <2>1, <3>1
  <2> QED BY <2>2, <2>3
<1> QED BY <1>1, <1>2, <1>3 DEF Single

LEMMA BoundsDeliver ==
    ASSUME Typed, Single, StackApart, NEW t \in Thread, NEW s \in Sig, Deliver(t, s)
    PROVE  Single' /\ StackApart'
<1>1. handlers' = [handlers EXCEPT ![t] = Append(@, Delivered(s))] /\ registered' = registered
  BY DEF Deliver, Delivered
<1>2. /\ Len(handlers'[t]) = Len(handlers[t]) + 1 /\ Len(handlers[t]) \in Nat
      /\ handlers'[t][Len(handlers[t]) + 1] = Delivered(s)
      /\ \A u \in Thread : u # t => handlers'[u] = handlers[u]
      /\ \A i \in 1 .. Len(handlers[t]) : handlers'[t][i] = handlers[t][i]
  BY <1>1, TopPushed, DeliveredFacts
<1>3. \A i \in 1 .. Len(handlers[t]) : handlers[t][i].sig # s
  BY DEF Deliver, Blocks
<1>4. \A i \in 1 .. Len(handlers'[t]) : i \in 1 .. Len(handlers[t]) \/ i = Len(handlers[t]) + 1
  BY <1>2
<1>5. ListsApart(Delivered(s)) /\ Delivered(s).sig = s
  BY DeliveredFacts DEF ListsApart, Apart, Disjoint
<1>6. Single'
  <2> SUFFICES ASSUME NEW u \in Thread, NEW i \in 1 .. Len(handlers'[u])
               PROVE  ListsApart(handlers'[u][i])
    BY <1>1 DEF Single
  <2>1. CASE u = t
    BY <1>2, <1>4, <1>5, <2>1 DEF Single
  <2>2. CASE u # t
    BY <1>2, <2>2 DEF Single
  <2> QED BY <2>1, <2>2
<1>7. StackApart'
  <2> SUFFICES ASSUME NEW u \in Thread, NEW i \in 1 .. Len(handlers'[u]),
                      NEW j \in 1 .. Len(handlers'[u]), handlers'[u][i].sig = handlers'[u][j].sig
               PROVE  i = j
    BY DEF StackApart
  <2>1. CASE u = t
    <3>1. \A k \in 1 .. Len(handlers[t]) : handlers'[t][k].sig = handlers[t][k].sig /\ handlers'[t][k].sig # s
      BY <1>2, <1>3
    <3>2. handlers'[t][Len(handlers[t]) + 1].sig = s
      BY <1>2, <1>5
    <3>3. handlers'[t][i].sig = handlers'[t][j].sig
      BY <2>1
    <3>4. /\ i \in 1 .. Len(handlers[t]) \/ i = Len(handlers[t]) + 1
          /\ j \in 1 .. Len(handlers[t]) \/ j = Len(handlers[t]) + 1
      BY <1>4, <2>1
    <3>5. CASE i \in 1 .. Len(handlers[t]) /\ j \in 1 .. Len(handlers[t])
      BY <3>1, <3>3, <3>5 DEF StackApart
    <3> QED BY <3>1, <3>2, <3>3, <3>4, <3>5
  <2>2. CASE u # t
    BY <1>2, <2>2 DEF StackApart
  <2> QED BY <2>1, <2>2
<1> QED BY <1>6, <1>7

LEMMA OthersStep ==
    ASSUME Typed, Others, [Next]_vars
    PROVE  Others'
<1>1. ASSUME NEW s \in Sig, Raise(s) PROVE Others'
  <2>1. raised' \in 0 .. MaxRaised
    BY <1>1, SignalConstants DEF Raise, Others
  <2>2. owed' \in [Thread -> SUBSET Sig] /\ pending' \subseteq Sig /\ setup' = setup
    BY <1>1 DEF Raise, Others
  <2> QED BY <2>1, <2>2 DEF Others
<1>2. ASSUME NEW t \in Thread, LoopStep(t) \/ Drop(t) PROVE Others'
  <2>1. main[t].sigs \in SUBSET Sig
    BY DEF Typed, Main
  <2>2. setup' \subseteq Sig /\ UNCHANGED kernel
    BY <1>2, <2>1 DEF Others, LoopStep, Drop, Register, Registered, Poll, Receive, ScanDone, ScanOne
  <2>3. owed' \in [Thread -> SUBSET Sig]
    BY <1>2 DEF Others, LoopStep, Drop, Register, Registered, Poll, Receive, ScanDone, ScanOne
  <2> QED BY <2>2, <2>3 DEF Others, kernel
<1>3. ASSUME NEW t \in Thread, HandlerStep(t) \/ \E s \in Sig : Enable(t, s) PROVE Others'
  <2>1. UNCHANGED << setup, kernel, owed >>
    BY <1>3, HandlerSteps DEF Enable
  <2> QED BY <2>1 DEF Others, kernel
<1>4. ASSUME NEW t \in Thread, NEW s \in Sig, Deliver(t, s) PROVE Others'
  BY <1>4 DEF Deliver, Others
<1>5. ASSUME UNCHANGED vars PROVE Others'
  BY <1>5 DEF vars, Others
<1> QED BY <1>1, <1>2, <1>3, <1>4, <1>5 DEF Next

LEMMA BoundsStep ==
    ASSUME Typed, Book, Single, StackApart, [Next]_vars
    PROVE  Single' /\ StackApart'
<1>1. CASE UNCHANGED vars \/ \E s \in Sig : Raise(s)
  <2>1. UNCHANGED << handlers, registered >>
    BY <1>1 DEF vars, Raise
  <2> QED BY <2>1 DEF Single, StackApart
<1> QED BY <1>1, BoundsHandler, BoundsMain, BoundsDeliver DEF Next

\* The state of the broadcast is well formed: no signal has more notifiers than there
\* are threads, although those of dropped loops stay, and no thread has more handlers
\* on its stack than there are signals.
THEOREM SignalTypeCorrect == Spec => []TypeOK
<1>1. Typed /\ Single /\ StackApart /\ Others => TypeOK
  <2> SUFFICES ASSUME Typed, Single, StackApart, Others PROVE TypeOK
    OBVIOUS
  <2>1. ASSUME NEW s \in Sig PROVE Len(registered[s]) <= Cardinality(Thread)
    <3>1. registered[s] \in Seq(Thread) /\ Apart(registered[s])
      BY DEF Typed, Single
    <3> QED BY <3>1, ApartLen, SignalConstants
  <2>2. ASSUME NEW t \in Thread PROVE Len(handlers[t]) <= Cardinality(Sig)
    <3>1. PICK n \in Nat : n = Len(handlers[t]) /\ \A i \in 1 .. n : handlers[t][i] \in Handler
      BY DEF Typed
    <3> DEFINE f == [i \in 1 .. n |-> handlers[t][i].sig]
    <3>2. f \in [1 .. n -> Sig]
      BY <3>1 DEF Handler
    <3>3. \A i, j \in 1 .. n : f[i] = f[j] => i = j
      BY <3>1 DEF StackApart
    <3> HIDE DEF f
    <3> QED BY <3>1, <3>2, <3>3, NoMorePlaces, SignalConstants
  <2> QED BY <2>1, <2>2 DEF Typed, Others, TypeOK
<1> QED BY <1>1, TypedInit, TypedStep, BookInit, BookStep, BoundsInit, BoundsStep, OthersStep,
           SignalConstants, PTL DEF Spec
=============================================================================
