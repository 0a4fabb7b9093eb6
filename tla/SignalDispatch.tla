--------------------------- MODULE SignalDispatch ---------------------------
(***************************************************************************)
(* Unix signals: the process-wide broadcast of src/signal_dispatch.rs and  *)
(* the part of src/core.rs that enables signals and collects them.         *)
(*                                                                         *)
(* Every thread runs a loop of its own.  A signal handler runs in some     *)
(* thread that does not block the signal, on top of whatever that thread   *)
(* was doing, another handler included.  The broadcaster is shared by all  *)
(* threads under one mutex; a loop has a flag for each signal and a wakeup *)
(* channel that holds one message.                                         *)
(***************************************************************************)
EXTENDS Integers, Sequences, FiniteSets

CONSTANTS
  Thread,      (* the threads, and the loops they run                      *)
  Sig,         (* signals                                                  *)
  MaxRaised    (* bound: how many signals are ever raised                  *)

ASSUME SignalConstants ==
    MaxRaised \in Nat /\ IsFiniteSet(Thread) /\ IsFiniteSet(Sig)

Nobody == "nobody"
ASSUME NobodyIsNoThread == Nobody \notin Thread

VARIABLES
  mutex,       (* the thread that holds the mutex of the broadcaster       *)
  registered,  (* the notifiers of each signal, named after their loops    *)
  setup,       (* signals whose handler is installed                       *)
  flags,       (* the signals flagged for each loop                        *)
  woken,       (* loops whose wakeup channel is full                       *)
  gone,        (* loops that were dropped                                  *)
  enabled,     (* signals_enabled of each loop                             *)
  main,        (* what each thread does below its handlers                 *)
  handlers,    (* the handlers on the stack of each thread                 *)
  pending,     (* signals raised and not yet handled by any thread         *)
  raised,      (* how many signals were raised                             *)
  owed         (* history: signals each loop has to hear of                *)

vars == << mutex, registered, setup, flags, woken, gone, enabled, main, handlers,
           pending, raised, owed >>
kernel == << pending, raised >>

\* In register: about to lock ("lock") or with the mutex ("locked"), all signals
\* blocked; in the poll; or going through the flags ("scan") that are left.
Main == [at : {"user", "lock", "locked", "poll", "scan"}, sigs : SUBSET Sig]
\* A handler waits for the mutex, or goes through the notifiers left to do.
Handler == [sig : Sig, at : {"lock", "flag", "wake"}, todo : Seq(Thread), kept : Seq(Thread)]

TypeOK ==
    /\ mutex \in Thread \cup {Nobody}
    /\ registered \in [Sig -> Seq(Thread)]
    /\ \A s \in Sig : Len(registered[s]) <= Cardinality(Thread)
    /\ setup \subseteq Sig
    /\ flags \in [Thread -> SUBSET Sig]
    /\ woken \subseteq Thread /\ gone \subseteq Thread
    /\ enabled \in [Thread -> SUBSET Sig]
    /\ main \in [Thread -> Main]
    /\ handlers \in [Thread -> Seq(Handler)]
    /\ \A t \in Thread : Len(handlers[t]) <= Cardinality(Sig)
    /\ pending \subseteq Sig
    /\ raised \in 0 .. MaxRaised
    /\ owed \in [Thread -> SUBSET Sig]

Idle == [at |-> "user", sigs |-> {}]

Init ==
    /\ mutex = Nobody
    /\ registered = [s \in Sig |-> << >>] /\ setup = {}
    /\ flags = [t \in Thread |-> {}] /\ woken = {} /\ gone = {}
    /\ enabled = [t \in Thread |-> {}]
    /\ main = [t \in Thread |-> Idle]
    /\ handlers = [t \in Thread |-> << >>]
    /\ pending = {} /\ raised = 0
    /\ owed = [t \in Thread |-> {}]

-----------------------------------------------------------------------------
(* The kernel (external).                                                  *)

\* A signal is raised for the process.  Equal signals that wait are one.
Raise(s) ==
    /\ s \in setup /\ raised < MaxRaised
    /\ pending' = pending \cup {s}
    /\ raised' = raised + 1
    /\ owed' = [t \in Thread |-> IF s \in enabled[t] /\ t \notin gone
                                 THEN owed[t] \cup {s} ELSE owed[t]]
    /\ UNCHANGED << mutex, registered, setup, flags, woken, gone, enabled, main, handlers >>

\* register blocks all signals, and a handler its own one (sigaction's mask is
\* empty), in the thread they run in.
MaskedAt_Nothing(t) == FALSE
MaskedAt(t) == main[t].at \in {"lock", "locked"}
Blocks(t, s) == \/ MaskedAt(t)
                \/ \E i \in 1 .. Len(handlers[t]) : handlers[t][i].sig = s

Deliver(t, s) ==
    /\ s \in pending /\ ~Blocks(t, s)
    /\ pending' = pending \ {s}
    /\ handlers' = [handlers EXCEPT ![t] =
                      Append(@, [sig |-> s, at |-> "lock", todo |-> << >>, kept |-> << >>])]
    /\ UNCHANGED << mutex, registered, setup, flags, woken, gone, enabled, main, raised, owed >>

-----------------------------------------------------------------------------
(* The signal handler.                                                     *)

InHandler(t, at) == handlers[t] # << >> /\ handlers[t][Len(handlers[t])].at = at
Top(t) == handlers[t][Len(handlers[t])]
SetTop(t, h) == handlers' = [handlers EXCEPT ![t][Len(handlers[t])] = h]
PopTop(t) == handlers' = [handlers EXCEPT ![t] = SubSeq(@, 1, Len(@) - 1)]

\* handler: lock the mutex, and dispatch takes the notifiers out.  Without any,
\* it is done.
HandlerLock(t) ==
    /\ InHandler(t, "lock") /\ mutex = Nobody
    /\ LET s == Top(t).sig
       IN  IF registered[s] = << >>
           THEN PopTop(t) /\ UNCHANGED << mutex, registered >>
           ELSE /\ mutex' = t
                /\ SetTop(t, [Top(t) EXCEPT !.at = "flag", !.todo = registered[s]])
                /\ registered' = [registered EXCEPT ![s] = << >>]
    /\ UNCHANGED << setup, flags, woken, gone, enabled, main, kernel, owed >>

\* dispatch, the next notifier: first its flag ...
HandlerFlag(t) ==
    /\ InHandler(t, "flag") /\ Top(t).todo # << >>
    /\ flags' = [flags EXCEPT ![Head(Top(t).todo)] = @ \cup {Top(t).sig}]
    /\ SetTop(t, [Top(t) EXCEPT !.at = "wake"])
    /\ UNCHANGED << mutex, registered, setup, woken, gone, enabled, main, kernel, owed >>

\* ... then its wakeup.  The notifier of a loop that is gone is dropped.
Keeps_Unfilled(n) == n \notin gone /\ n \notin woken
Keeps(n) == n \notin gone
HandlerWake(t) ==
    /\ InHandler(t, "wake")
    /\ LET n == Head(Top(t).todo)
       IN  /\ woken' = IF n \in gone THEN woken ELSE woken \cup {n}
           /\ SetTop(t, [Top(t) EXCEPT !.at = "flag", !.todo = Tail(@),
                                       !.kept = IF Keeps(n) THEN Append(@, n) ELSE @])
    /\ UNCHANGED << mutex, registered, setup, flags, gone, enabled, main, kernel, owed >>

\* The notifiers that are left go back, and the mutex is unlocked.
HandlerDone(t) ==
    /\ InHandler(t, "flag") /\ Top(t).todo = << >>
    /\ registered' = [registered EXCEPT ![Top(t).sig] = Top(t).kept]
    /\ mutex' = Nobody
    /\ PopTop(t)
    /\ UNCHANGED << setup, flags, woken, gone, enabled, main, kernel, owed >>

-----------------------------------------------------------------------------
(* The thread below its handlers.                                          *)

MainAt(t, at) == handlers[t] = << >> /\ main[t].at = at /\ t \notin gone
MainTo(t, at, sigs) == main' = [main EXCEPT ![t] = [at |-> at, sigs |-> sigs]]

\* signal_enable, and register up to the lock
Enable_Again(t, s) ==
    /\ MainAt(t, "user")
    /\ MainTo(t, "lock", {s})
    /\ UNCHANGED << mutex, registered, setup, flags, woken, gone, enabled, handlers, kernel, owed >>
Enable(t, s) ==
    /\ MainAt(t, "user") /\ s \notin enabled[t]
    /\ MainTo(t, "lock", {s})
    /\ UNCHANGED << mutex, registered, setup, flags, woken, gone, enabled, handlers, kernel, owed >>

\* SignalDispatch::register, under the mutex
Register(t) ==
    /\ MainAt(t, "lock") /\ mutex = Nobody
    /\ mutex' = t
    /\ setup' = setup \cup main[t].sigs
    /\ registered' = [s \in Sig |-> IF s \in main[t].sigs THEN Append(registered[s], t)
                                                          ELSE registered[s]]
    /\ MainTo(t, "locked", main[t].sigs)
    /\ UNCHANGED << flags, woken, gone, enabled, handlers, kernel, owed >>

\* The mutex is unlocked, the old mask is restored, signal_enable returns.
Registered(t) ==
    /\ MainAt(t, "locked")
    /\ mutex' = Nobody
    /\ enabled' = [enabled EXCEPT ![t] = @ \cup main[t].sigs]
    /\ MainTo(t, "user", {})
    /\ UNCHANGED << registered, setup, flags, woken, gone, handlers, kernel, owed >>

\* tasks_gather: the poll
Poll(t) ==
    /\ MainAt(t, "user")
    /\ MainTo(t, "poll", {})
    /\ UNCHANGED << mutex, registered, setup, flags, woken, gone, enabled, handlers, kernel, owed >>

\* tasks_gather_io, the SIGNAL_TOK arm: first the wakeup is taken ...
Receive(t) ==
    /\ MainAt(t, "poll") /\ t \in woken
    /\ woken' = woken \ {t}
    /\ MainTo(t, "scan", Sig)
    /\ UNCHANGED << mutex, registered, setup, flags, gone, enabled, handlers, kernel, owed >>

\* ... then the flags are taken, one by one, and their recipients get tasks.
ScanOne(t, s) ==
    /\ MainAt(t, "scan") /\ s \in main[t].sigs
    /\ MainTo(t, "scan", main[t].sigs \ {s})
    /\ flags' = [flags EXCEPT ![t] = @ \ {s}]
    /\ owed' = IF s \in flags[t] THEN [owed EXCEPT ![t] = @ \ {s}] ELSE owed
    /\ UNCHANGED << mutex, registered, setup, woken, gone, enabled, handlers, kernel >>

AfterScan_Drains(t) == woken' = woken \ {t}
AfterScan(t) == UNCHANGED woken
ScanDone(t) ==
    /\ MainAt(t, "scan") /\ main[t].sigs = {}
    /\ MainTo(t, "user", {})
    /\ AfterScan(t)
    /\ UNCHANGED << mutex, registered, setup, flags, gone, enabled, handlers, kernel, owed >>

\* The loop is dropped, with the receiver of its wakeup channel.
Drop(t) ==
    /\ MainAt(t, "user")
    /\ gone' = gone \cup {t}
    /\ woken' = woken \ {t}
    /\ UNCHANGED << mutex, registered, setup, flags, enabled, main, handlers, kernel, owed >>

-----------------------------------------------------------------------------
HandlerStep(t) == HandlerLock(t) \/ HandlerFlag(t) \/ HandlerWake(t) \/ HandlerDone(t)
LoopStep(t) == \/ Register(t) \/ Registered(t)
               \/ Poll(t) \/ Receive(t) \/ ScanDone(t)
               \/ \E s \in Sig : ScanOne(t, s)

Next ==
    \/ \E s \in Sig : Raise(s)
    \/ \E t \in Thread : HandlerStep(t) \/ LoopStep(t) \/ Drop(t)
    \/ \E t \in Thread, s \in Sig : Deliver(t, s) \/ Enable(t, s)

Spec == Init /\ [][Next]_vars

\* The kernel delivers what some thread does not block, no thread is kept from
\* running, and the owners of the loops keep running them.  (Weak fairness is
\* enough for the mutex, for only so many handlers and registrations ask for it.)
Fairness ==
    /\ \A s \in Sig : WF_vars(\E t \in Thread : Deliver(t, s))
    /\ \A t \in Thread : WF_vars(HandlerStep(t)) /\ WF_vars(LoopStep(t))
FairSpec == Spec /\ Fairness

-----------------------------------------------------------------------------
(* Properties.                                                             *)

\* No loop sleeps on a flag: while a flag is set, the wakeup is there, or the
\* handler that set the flag has yet to send it, or the loop has yet to look at
\* the flag.
NoLostWakeup ==
    \A t \in Thread \ gone : \A s \in flags[t] :
        \/ t \in woken
        \/ main[t].at = "scan" /\ s \in main[t].sigs
        \/ \E u \in Thread : \E i \in 1 .. Len(handlers[u]) :
              LET h == handlers[u][i]
              IN  h.sig = s /\ h.at = "wake" /\ Head(h.todo) = t

\* The broadcaster knows, outside of a running handler, each loop that enabled a
\* signal: once, as long as it lives.
EveryLoopRegistered ==
    mutex = Nobody =>
        \A s \in Sig, t \in Thread \ gone :
            s \in enabled[t] => Cardinality({k \in 1 .. Len(registered[s]) : registered[s][k] = t}) = 1

\* Signals are blocked while the mutex is held: no thread waits in a handler for
\* the mutex it holds itself.
NoSelfDeadlock == \A t \in Thread : InHandler(t, "lock") => mutex # t

\* A loop that enabled a signal hears of it, at least once, after it was raised.
SignalsHeard ==
    \A t \in Thread, s \in Sig : s \in owed[t] ~> s \notin owed[t] \/ t \in gone
=============================================================================
