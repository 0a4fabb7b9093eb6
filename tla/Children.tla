------------------------------ MODULE Children ------------------------------
(***************************************************************************)
(* Child processes and the recipients of signals, from src/core.rs: who    *)
(* tracks which child, and how an exit gets from the kernel through        *)
(* SIGCHLD and waitpid to the callback.                                    *)
(*                                                                         *)
(* A process is told apart from others that have its pid before or after   *)
(* it; the code knows only the pid.  Events and the call stack are those   *)
(* of Timers.  The way of a signal from the kernel to the flag of the loop *)
(* is one step here (it is the subject of SignalDispatch).                 *)
(***************************************************************************)
EXTENDS Integers, Sequences, FiniteSets

CONSTANTS
  Process,     (* the processes ever started                               *)
  Pid,         (* their ids                                                *)
  Sig,         (* the numbers of signals                                   *)
  SIGCHLD,
  MaxEvents,   (* bound: events ever inserted                              *)
  MaxDepth     (* bound: nested callbacks                                  *)

Nobody == -1
ASSUME ChildrenConstants ==
    /\ Sig \subseteq Nat /\ SIGCHLD \in Sig
    /\ MaxEvents \in Nat /\ MaxDepth \in Nat

VARIABLES
  status,      (* kernel: what became of each process ...                  *)
  pid,         (* ... and its id                                           *)
  pending,     (* kernel: signals raised and not yet handled               *)
  enabled,     (* signals_enabled                                          *)
  flagged,     (* the flags of the notifier                                *)
  woken,       (* whether there is a wakeup in its channel                 *)
  recipients,  (* signal_recipients: events by signal                      *)
  children,    (* the events that track a child, by pid                    *)
  tracks,      (* the living events and the children of each, by pid       *)
  born,        (* how many events were inserted so far                     *)
  scheduled,   (* tasks ready to be dispatched                             *)
  calls,       (* events whose callbacks run, the innermost last           *)
  pc,          (* in user code, in a part of the loop, after a panic, or   *)
               (* after the loop was dropped                               *)
  scan,        (* the signals whose flags the scan has not reached         *)
  asker,       (* history: the event that asked for a process ...          *)
  heard,       (* ... processes that ended after SIGCHLD was enabled ...   *)
  missed,      (* ... that others reaped, or that were asked for too late, *)
  settled      (* ... and those whose Child task was handed over           *)

kernel == << status, pid, pending >>
signals == << enabled, flagged, woken, recipients >>
tables == << children, tracks >>
history == << asker, heard, missed, settled >>
vars == << kernel, signals, tables, born, scheduled, calls, pc, scan, history >>

Event == Nat
\* about is history, the process that ended; other tasks are all alike.
ChildTask == [to : Event, what : {"child"}, pid : Pid, about : Process]
SignalTask == [to : Event, what : {"signal"}, sig : Sig]
OtherTask == [to : Event, what : {"other"}]
Task == ChildTask \cup SignalTask \cup OtherTask

Live == DOMAIN tracks
Called == {calls[i] : i \in 1 .. Len(calls)}
Top == calls[Len(calls)]
Zombies == {c \in Process : status[c] = "zombie"}
Present == {c \in Process : status[c] \in {"running", "zombie"}}

TypeOK ==
    /\ status \in [Process -> {"unborn", "running", "zombie", "reaped"}]
    /\ pid \in [Process -> Pid]
    /\ pending \subseteq Sig /\ enabled \subseteq Sig /\ flagged \subseteq Sig
    /\ woken \in BOOLEAN
    /\ recipients \in [Sig -> SUBSET Event]
    /\ DOMAIN children \subseteq Pid /\ \A p \in DOMAIN children : children[p] \in Event
    /\ Live \subseteq 0 .. born - 1 /\ \A e \in Live : tracks[e] \subseteq Pid
    /\ born \in Nat
    /\ scheduled \in Seq(Task)
    /\ calls \in Seq(Event)
    /\ pc \in {"user", "run_one", "poll", "scan", "reap", "panic", "gone"}
    /\ scan \subseteq Sig
    /\ asker \in [Process -> Event \cup {Nobody}]
    /\ heard \subseteq Process /\ missed \subseteq Process /\ settled \subseteq Process

Init ==
    /\ status = [c \in Process |-> "unborn"] /\ pid \in [Process -> Pid]
    /\ pending = {} /\ enabled = {} /\ flagged = {} /\ woken = FALSE
    /\ recipients = [s \in Sig |-> {}]
    /\ children = << >> /\ tracks = << >> /\ born = 0
    /\ scheduled = << >> /\ calls = << >> /\ pc = "user" /\ scan = {}
    /\ asker = [c \in Process |-> Nobody]
    /\ heard = {} /\ missed = {} /\ settled = {}

-----------------------------------------------------------------------------
(* The kernel, and other code of the process (external).                   *)

\* fork.  A pid is not given out while a process has it, a zombie included.
Fork(c) ==
    /\ status[c] = "unborn" /\ pid[c] \notin {pid[d] : d \in Present}
    /\ status' = [status EXCEPT ![c] = "running"]

\* An exit raises SIGCHLD, which is ignored until a handler is installed.
Exit(c) ==
    /\ status[c] = "running"
    /\ status' = [status EXCEPT ![c] = "zombie"]
    /\ IF SIGCHLD \in enabled
       THEN pending' = pending \cup {SIGCHLD} /\ heard' = heard \cup {c}
       ELSE UNCHANGED << pending, heard >>
    /\ UNCHANGED << pid, signals, tables, born, scheduled, calls, pc, scan,
                    asker, missed, settled >>

\* waitpid, called by anything else: by a loop of another thread, for one
ReapedByOther(c) ==
    /\ status[c] = "zombie"
    /\ status' = [status EXCEPT ![c] = "reaped"]
    /\ missed' = missed \cup {c}
    /\ UNCHANGED << pid, pending, signals, tables, born, scheduled, calls, pc, scan,
                    asker, heard, settled >>

Raise(s) ==
    /\ s \in enabled \ pending /\ s # SIGCHLD
    /\ pending' = pending \cup {s}
    /\ UNCHANGED << status, pid, signals, tables, born, scheduled, calls, pc, scan, history >>

\* The handler runs in some thread.
Deliver(s) ==
    /\ s \in pending
    /\ pending' = pending \ {s}
    /\ flagged' = flagged \cup {s} /\ woken' = TRUE
    /\ UNCHANGED << status, pid, enabled, recipients, tables, born, scheduled, calls, pc,
                    scan, history >>

-----------------------------------------------------------------------------
(* User code                                                               *)

InCallback == pc = "user" /\ calls # << >>

With(f, k, v) == [x \in DOMAIN f \cup {k} |-> IF x = k THEN v ELSE f[x]]
Without(f, K) == [x \in DOMAIN f \ K |-> f[x]]

\* insert_exact, up to init
NextGeneration_Same == born
NextGeneration == born + 1
Insert ==
    /\ pc = "user" /\ born < MaxEvents /\ Len(calls) < MaxDepth
    /\ tracks' = With(tracks, born, {})
    /\ born' = NextGeneration
    /\ calls' = Append(calls, born)
    /\ UNCHANGED << kernel, signals, children, scheduled, pc, scan, history >>

Spawn(c) ==
    /\ pc = "user"
    /\ Fork(c)
    /\ UNCHANGED << pid, pending, signals, tables, born, scheduled, calls, pc, scan, history >>

SignalEnable(s) ==
    /\ pc = "user" /\ s \notin enabled
    /\ enabled' = enabled \cup {s}
    /\ UNCHANGED << kernel, flagged, woken, recipients, tables, born, scheduled, calls, pc,
                    scan, history >>

\* Scope::signal
Signal(s) ==
    /\ InCallback /\ Top \notin recipients[s]
    /\ enabled' = enabled \cup {s}
    /\ recipients' = [recipients EXCEPT ![s] = @ \cup {Top}]
    /\ UNCHANGED << kernel, flagged, woken, tables, born, scheduled, calls, pc, scan, history >>

\* Scope::child, once for a process that this one started.  The code asserts that
\* the pid is not tracked.
Child(c) ==
    /\ InCallback /\ status[c] # "unborn" /\ asker[c] = Nobody
    /\ enabled' = enabled \cup {SIGCHLD}
    /\ missed' = IF status[c] = "reaped" THEN missed \cup {c} ELSE missed
    /\ IF pid[c] \in DOMAIN children
       THEN pc' = "panic" /\ UNCHANGED << tables, asker >>
       ELSE /\ children' = With(children, pid[c], Top)
            /\ tracks' = [tracks EXCEPT ![Top] = @ \cup {pid[c]}]
            /\ asker' = [asker EXCEPT ![c] = Top]
            /\ UNCHANGED pc
    /\ UNCHANGED << kernel, flagged, woken, recipients, born, scheduled, calls, scan,
                    heard, settled >>

\* event_kill, of the event being called
Forgotten_Nothing == {}
Forgotten == tracks[Top]
Silenced_Nobody == {}
Silenced == {Top}
Kill ==
    /\ tracks' = Without(tracks, {Top})
    /\ children' = Without(children, Forgotten)
    /\ recipients' = [s \in Sig |-> recipients[s] \ Silenced]

\* event_call, from the callback's return on
Return(keep) ==
    /\ InCallback
    /\ calls' = SubSeq(calls, 1, Len(calls) - 1)
    /\ IF keep THEN UNCHANGED << tables, recipients >> ELSE Kill
    /\ UNCHANGED << kernel, enabled, flagged, woken, born, scheduled, pc, scan, history >>

RunOne ==
    /\ pc = "user" /\ Len(calls) < MaxDepth
    /\ pc' = "run_one"
    /\ UNCHANGED << kernel, signals, tables, born, scheduled, calls, scan, history >>

DropLoop ==
    /\ pc = "user" /\ calls = << >>
    /\ tracks' = << >> /\ children' = << >> /\ recipients' = [s \in Sig |-> {}]
    /\ scheduled' = << >>
    /\ pc' = "gone"
    /\ UNCHANGED << kernel, enabled, flagged, woken, born, calls, scan, history >>

-----------------------------------------------------------------------------
(* run_one                                                                 *)

Skip ==
    /\ pc = "run_one" /\ scheduled # << >> /\ Head(scheduled).to \notin Live
    /\ scheduled' = Tail(scheduled)
    /\ UNCHANGED << kernel, signals, tables, born, calls, pc, scan, history >>

Dispatch ==
    /\ pc = "run_one" /\ scheduled # << >> /\ Head(scheduled).to \in Live
    /\ scheduled' = Tail(scheduled)
    /\ calls' = IF Head(scheduled).to \in Called THEN calls    \* Err(Busy)
                ELSE Append(calls, Head(scheduled).to)
    /\ settled' = IF Head(scheduled).what = "child"
                  THEN settled \cup {Head(scheduled).about} ELSE settled
    /\ pc' = "user"
    /\ UNCHANGED << kernel, signals, tables, born, scan, asker, heard, missed >>

-----------------------------------------------------------------------------
(* tasks_gather                                                            *)

GatherEmpty ==
    /\ pc = "run_one" /\ scheduled = << >> /\ Live = {}
    /\ pc' = "user"                                            \* Err(Empty)
    /\ UNCHANGED << kernel, signals, tables, born, scheduled, calls, scan, history >>

Gather ==
    /\ pc = "run_one" /\ scheduled = << >> /\ Live # {}
    /\ pc' = "poll"
    /\ UNCHANGED << kernel, signals, tables, born, scheduled, calls, scan, history >>

\* The poll ends with EINTR, or with another error, which run_one returns, or because
\* something else happened, which may have brought a task.
PollOther ==
    /\ pc = "poll"
    /\ \/ UNCHANGED scheduled /\ pc' \in {"run_one", "user"}
       \/ /\ ~woken /\ \E e \in Live : scheduled' = << [to |-> e, what |-> "other"] >>
          /\ pc' = "run_one"
    /\ UNCHANGED << kernel, signals, tables, born, calls, scan, history >>

\* The poll ends and there is a wakeup, which is taken first.
PollSignal ==
    /\ pc = "poll" /\ woken
    /\ woken' = FALSE
    /\ pc' = "scan" /\ scan' = Sig
    /\ \E others \in {<< >>} \cup {<< [to |-> e, what |-> "other"] >> : e \in Live} :
         scheduled' = others
    /\ UNCHANGED << kernel, enabled, flagged, recipients, tables, born, calls, history >>

\* The flags are taken one by one.  That of SIGCHLD is followed by waitpid ...
Lowest(s) == s \in scan /\ \A t \in scan : s <= t
\* The tasks for the recipients of a signal, in an order the hash set may give
Broadcast(s) ==
    {q \in [1 .. Cardinality(recipients[s]) ->
               {[to |-> e, what |-> "signal", sig |-> s] : e \in recipients[s]}] :
        \A i, j \in DOMAIN q : i # j => q[i] # q[j]}

Scan(s) ==
    /\ pc = "scan" /\ Lowest(s)
    /\ flagged' = flagged \ {s}
    /\ IF s \in flagged /\ s = SIGCHLD
       THEN pc' = "reap" /\ UNCHANGED << scan, scheduled >>
       ELSE /\ scan' = scan \ {s}
            /\ IF s \in flagged THEN \E q \in Broadcast(s) : scheduled' = scheduled \o q
                                ELSE UNCHANGED scheduled
            /\ UNCHANGED pc
    /\ UNCHANGED << kernel, enabled, woken, recipients, tables, born, calls, history >>

\* ... children_gather, for as long as there are zombies.  One that nobody tracks
\* is thrown away.  The code asserts that the event knows of its child ...
Collected_Left(c) == status
Collected(c) == [status EXCEPT ![c] = "reaped"]
Untracked_Kept(p) == children
Untracked(p) == Without(children, {p})
Reap(c) ==
    /\ pc = "reap" /\ status[c] = "zombie"
    /\ status' = Collected(c)
    /\ LET p == pid[c]
       IN  \/ p \notin DOMAIN children /\ UNCHANGED << tables, scheduled, pc >>
           \/ /\ p \in DOMAIN children
              /\ children' = Untracked(p)
              /\ LET e == children[p]
                 IN  \/ /\ e \in Live /\ p \in tracks[e]
                        /\ tracks' = [tracks EXCEPT ![e] = @ \ {p}]
                        /\ scheduled' = Append(scheduled, [to |-> e, what |-> "child",
                                                           pid |-> p, about |-> c])
                        /\ UNCHANGED pc
                     \/ /\ ~(e \in Live /\ p \in tracks[e])
                        /\ pc' = "panic" /\ UNCHANGED << tracks, scheduled >>
    /\ UNCHANGED << pid, pending, signals, born, calls, scan, history >>

\* ... and then the recipients of SIGCHLD get their tasks.
NoneLeft_Unasked == TRUE
NoneLeft == Zombies = {}
ReapDone ==
    /\ pc = "reap" /\ NoneLeft
    /\ pc' = "scan" /\ scan' = scan \ {SIGCHLD}
    /\ \E q \in Broadcast(SIGCHLD) : scheduled' = scheduled \o q
    /\ UNCHANGED << kernel, signals, tables, born, calls, history >>

ScanDone ==
    /\ pc = "scan" /\ scan = {}
    /\ pc' = "run_one"
    /\ UNCHANGED << kernel, signals, tables, born, scheduled, calls, scan, history >>

-----------------------------------------------------------------------------
Outside ==
    \/ \E c \in Process : Exit(c) \/ ReapedByOther(c)
    \/ \E s \in Sig : Raise(s) \/ Deliver(s)

UserCode ==
    \/ Insert \/ RunOne \/ DropLoop
    \/ \E c \in Process : Spawn(c) \/ Child(c)
    \/ \E s \in Sig : SignalEnable(s) \/ Signal(s)
    \/ \E keep \in BOOLEAN : Return(keep)

LoopCode ==
    \/ Skip \/ Dispatch \/ GatherEmpty \/ Gather
    \/ \E s \in Sig : Scan(s)
    \/ \E c \in Process : Reap(c)
    \/ ReapDone \/ ScanDone

Next == Outside \/ UserCode \/ LoopCode \/ PollOther \/ PollSignal

Spec == Init /\ [][Next]_vars

\* Signals are delivered, the code of the loop runs on, callbacks return, the owner
\* keeps running the loop, and not every poll is interrupted before it sees a wakeup.
Fairness ==
    /\ \A s \in Sig : WF_vars(Deliver(s))
    /\ WF_vars(LoopCode)
    /\ SF_vars(PollSignal)
    /\ WF_vars(\E keep \in BOOLEAN : Return(keep))
    /\ WF_vars(calls = << >> /\ RunOne)
FairSpec == Spec /\ Fairness

-----------------------------------------------------------------------------
(* Properties.                                                             *)

\* The table of the loop and those of its events say the same, so that the
\* assertion of children_gather holds; and no dead event gets signals.
TablesAgree ==
    /\ \A p \in DOMAIN children : children[p] \in Live /\ p \in tracks[children[p]]
    /\ \A e \in Live : \A p \in tracks[e] : p \in DOMAIN children /\ children[p] = e
    /\ \A s \in Sig : recipients[s] \subseteq Live

\* A pid in the table is that of a process that was asked for, that its event did
\* ask for, and that waits or runs: it cannot be given to another process in the
\* meantime.  So tracking a process never panics, unless something else in the
\* program reaped one that was tracked, or one was tracked that was reaped before.
EntriesCurrent ==
    missed = {} =>
        /\ \A p \in DOMAIN children :
             \E c \in Present : pid[c] = p /\ asker[c] = children[p]
        /\ pc # "panic"

\* An exit is reported to who asked for this process, once, after it was reaped,
\* whoever had its pid before or has it now.
ReportsAreRight ==
    missed = {} =>
        \A k \in DOMAIN scheduled : scheduled[k].what = "child" =>
            LET c == scheduled[k].about
            IN  /\ asker[c] = scheduled[k].to /\ status[c] = "reaped" /\ c \notin settled
                /\ \A l \in DOMAIN scheduled :
                     scheduled[l].what = "child" /\ scheduled[l].about = c => l = k

\* No zombie is forgotten: if SIGCHLD was enabled when it ended, then another
\* SIGCHLD is on its way, or the flag is set and the loop is woken or has yet to
\* reach it, or the loop is calling waitpid.
NoSleepingZombie ==
    Zombies \cap heard # {} =>
        \/ SIGCHLD \in pending
        \/ SIGCHLD \in flagged /\ (woken \/ (pc = "scan" /\ SIGCHLD \in scan))
        \/ pc \in {"reap", "panic"}

\* A tracked process that ended after SIGCHLD was enabled gets reported (to an event
\* that may be Busy), unless its event dies.
Awaited(c) == /\ c \in heard \ (missed \cup settled)
              /\ asker[c] \in Live
ExitsReported == \A c \in Process : Awaited(c) ~> ~Awaited(c) \/ pc = "panic"
=============================================================================
