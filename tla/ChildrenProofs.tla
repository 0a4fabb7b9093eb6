--------------------------- MODULE ChildrenProofs ---------------------------
(***************************************************************************)
(* Proofs about Children, for any numbers of processes, ids, signals,      *)
(* events and nested callbacks; that Pargs is one of the programs that     *)
(* Children speaks of; and what is true of Pargs alone.                    *)
(***************************************************************************)
EXTENDS Pargs, TLAPS, FiniteSetTheorems, SequenceTheorems

\* Events whose callbacks run live, and each is entered once.
StackLives ==
    /\ \A i \in 1 .. Len(calls) : calls[i] \in Live
    /\ \A i, j \in 1 .. Len(calls) : calls[i] = calls[j] => i = j

\* Processes of which SIGCHLD told ended.
HeardEnded == \A c \in heard : status[c] \in {"zombie", "reaped"}

Sound == TypeOK /\ TablesAgree /\ StackLives /\ HeardEnded

-----------------------------------------------------------------------------
(* Lemmas about the data.                                                  *)

LEMMA Shorter ==
    ASSUME NEW S, NEW q \in Seq(S), q # << >>
    PROVE  /\ q[Len(q)] \in S /\ Len(q) \in Nat \ {0}
           /\ SubSeq(q, 1, Len(q) - 1) \in Seq(S)
           /\ Len(SubSeq(q, 1, Len(q) - 1)) = Len(q) - 1
           /\ \A i \in 1 .. Len(q) - 1 : SubSeq(q, 1, Len(q) - 1)[i] = q[i]
<1>1. PICK n \in Nat : n = Len(q)
  OBVIOUS
<1>2. n \in Nat \ {0} /\ \A i \in 1 .. n : q[i] \in S
  BY <1>1
<1>3. \A i \in 1 .. n - 1 : q[i] \in S
  BY <1>2
<1>4. /\ SubSeq(q, 1, n - 1) \in Seq(S)
      /\ Len(SubSeq(q, 1, n - 1)) = IF 1 <= n - 1 THEN n - 1 - 1 + 1 ELSE 0
      /\ \A i \in 1 .. n - 1 - 1 + 1 : SubSeq(q, 1, n - 1)[i] = q[1 + i - 1]
  BY <1>2, <1>3, SubSeqProperties
<1> QED
  BY <1>1, <1>2, <1>4

LEMMA Longer ==
    ASSUME NEW S, NEW q \in Seq(S), NEW x \in S
    PROVE  /\ Append(q, x) \in Seq(S)
           /\ Len(Append(q, x)) = Len(q) + 1 /\ Len(q) \in Nat
           /\ \A i \in 1 .. Len(q) : Append(q, x)[i] = q[i]
           /\ Append(q, x)[Len(q) + 1] = x
OBVIOUS

LEMMA Rest ==
    ASSUME NEW S, NEW q \in Seq(S), q # << >>
    PROVE  /\ Head(q) \in S /\ Head(q) = q[1] /\ Tail(q) \in Seq(S)
           /\ Len(Tail(q)) = Len(q) - 1 /\ Len(q) \in Nat \ {0}
           /\ \A i \in 1 .. Len(q) - 1 : Tail(q)[i] = q[i + 1]
OBVIOUS

LEMMA Joined ==
    ASSUME NEW S, NEW q \in Seq(S), NEW r \in Seq(S)
    PROVE  /\ q \o r \in Seq(S)
           /\ Len(q \o r) = Len(q) + Len(r)
           /\ \A i \in 1 .. Len(q) : (q \o r)[i] = q[i]
           /\ \A i \in Len(q) + 1 .. Len(q) + Len(r) : (q \o r)[i] = r[i - Len(q)]
OBVIOUS

LEMMA TasksAreTasks ==
    /\ \A e \in Event : [to |-> e, what |-> "other"] \in Task
    /\ \A e \in Event : << [to |-> e, what |-> "other"] >> \in Seq(Task)
    /\ \A e \in Event, p \in Pid, c \in Process :
         [to |-> e, what |-> "child", pid |-> p, about |-> c] \in Task
    /\ \A e \in Event, s \in Sig : [to |-> e, what |-> "signal", sig |-> s] \in Task
BY DEF Task, ChildTask, SignalTask, OtherTask

\* The tasks of a broadcast are as many as there are recipients, of which there are
\* finitely many, all of them for the signal.
LEMMA BroadcastIsTasks ==
    ASSUME TypeOK, TablesAgree, NEW s \in Sig, NEW q \in Broadcast(s)
    PROVE  /\ q \in Seq(Task)
           /\ \A i \in DOMAIN q : q[i].what = "signal"
<1> DEFINE R == recipients[s]
<1>1. R \subseteq 0 .. born - 1 /\ born \in Nat
  BY DEF TypeOK, TablesAgree
<1>2. IsFiniteSet(0 .. born - 1)
  <2>1. 0 \in Int /\ born - 1 \in Int
    BY <1>1
  <2> QED
    BY <2>1, FS_Interval
<1>3. Cardinality(R) \in Nat
  BY <1>1, <1>2, FS_Subset, FS_CardinalityType
<1>4. {[to |-> e, what |-> "signal", sig |-> s] : e \in R} \subseteq Task
  BY <1>1, TasksAreTasks DEF Event
<1>5. q \in [1 .. Cardinality(R) -> {[to |-> e, what |-> "signal", sig |-> s] : e \in R}]
  BY DEF Broadcast
<1>6. q \in [1 .. Cardinality(R) -> Task]
  BY <1>4, <1>5
<1> QED
  BY <1>3, <1>5, <1>6

-----------------------------------------------------------------------------
(* What changes nothing that TablesAgree or StackLives is about leaves them. *)

LEMMA TablesKept ==
    ASSUME TablesAgree, UNCHANGED << tables, recipients >>
    PROVE  TablesAgree'
BY DEF TablesAgree, tables, Live

LEMMA StackKept ==
    ASSUME StackLives, UNCHANGED << tracks, calls >>
    PROVE  StackLives'
BY DEF StackLives, Live

LEMMA HeardKept ==
    ASSUME HeardEnded, UNCHANGED << heard, status >>
    PROVE  HeardEnded'
BY DEF HeardEnded

LEMMA TopLives ==
    ASSUME Sound, calls # << >>
    PROVE  /\ Top \in Live /\ Top \in Event /\ Top = calls[Len(calls)]
           /\ Len(calls) \in Nat \ {0}
<1>1. calls \in Seq(Event) /\ StackLives
  BY DEF Sound, TypeOK
<1>2. Len(calls) \in Nat \ {0} /\ calls[Len(calls)] \in Event
  BY <1>1, Shorter
<1> QED
  BY <1>1, <1>2 DEF StackLives, Top

LEMMA SoundInit == Init => Sound
<1> SUFFICES ASSUME Init PROVE Sound
  OBVIOUS
<1>1. TypeOK
  <2>1. scheduled \in Seq(Task) /\ calls \in Seq(Event)
    BY DEF Init
  <2>2. DOMAIN children = {} /\ Live = {}
    BY DEF Init, Live
  <2>3. asker \in [Process -> Event \cup {Nobody}] /\ recipients \in [Sig -> SUBSET Event]
    BY DEF Init
  <2>4. /\ status \in [Process -> {"unborn", "running", "zombie", "reaped"}]
        /\ pid \in [Process -> Pid] /\ born \in Nat
    BY DEF Init
  <2> QED
    BY <2>1, <2>2, <2>3, <2>4 DEF Init, TypeOK
<1>2. TablesAgree /\ StackLives /\ HeardEnded
  BY DEF Init, TablesAgree, StackLives, HeardEnded, Live
<1> QED
  BY <1>1, <1>2 DEF Sound

\* The kernel and other code
LEMMA SoundOutside ==
    ASSUME Sound, Outside
    PROVE  Sound'
<1> USE DEF Sound
<1>1. UNCHANGED << signals, tables >> \/ UNCHANGED << enabled, recipients, tables >>
  BY DEF Outside, Exit, ReapedByOther, Raise, Deliver, signals
<1>2. UNCHANGED << recipients, tables, calls, born >>
  BY <1>1 DEF signals, Outside, Exit, ReapedByOther, Raise, Deliver
<1>3. TablesAgree' /\ StackLives'
  BY <1>2, TablesKept, StackKept DEF tables
<1>4. ASSUME NEW c \in Process, Exit(c)
      PROVE  TypeOK' /\ HeardEnded'
  BY <1>4, ChildrenConstants DEF Exit, TypeOK, HeardEnded, signals, tables, Live
<1>5. ASSUME NEW c \in Process, ReapedByOther(c)
      PROVE  TypeOK' /\ HeardEnded'
  BY <1>5 DEF ReapedByOther, TypeOK, HeardEnded, signals, tables, Live
<1>6. ASSUME NEW s \in Sig, Raise(s)
      PROVE  TypeOK' /\ HeardEnded'
  BY <1>6 DEF Raise, TypeOK, HeardEnded, signals, tables, Live, history
<1>7. ASSUME NEW s \in Sig, Deliver(s)
      PROVE  TypeOK' /\ HeardEnded'
  BY <1>7 DEF Deliver, TypeOK, HeardEnded, tables, Live, history
<1> QED
  BY <1>3, <1>4, <1>5, <1>6, <1>7 DEF Outside

\* User code
LEMMA SoundInsert ==
    ASSUME Sound, Insert
    PROVE  Sound'
<1>1. TypeOK /\ TablesAgree /\ StackLives /\ HeardEnded
  BY DEF Sound
<1>2. born \in Nat /\ calls \in Seq(Event) /\ born \notin Live /\ born' = born + 1
  BY <1>1 DEF TypeOK, Insert, NextGeneration
<1>3. Live' = Live \cup {born} /\ tracks'[born] = {} /\ \A e \in Live : tracks'[e] = tracks[e]
  BY <1>2 DEF Insert, Live, With
<1>4. /\ calls' \in Seq(Event) /\ Len(calls') = Len(calls) + 1 /\ Len(calls) \in Nat
      /\ \A i \in 1 .. Len(calls) : calls'[i] = calls[i]
      /\ calls'[Len(calls) + 1] = born
  BY <1>2, Longer DEF Insert, Event
<1>5. TypeOK'
  <2> DEFINE n == born
  <2>1. n \in Nat /\ Live \subseteq 0 .. n - 1 /\ \A e \in Live : tracks[e] \subseteq Pid
    BY <1>1 DEF TypeOK
  <2>2. Live' = Live \cup {n} /\ tracks'[n] = {} /\ \A e \in Live : tracks'[e] = tracks[e]
    BY <1>3
  <2>3. born' = n + 1
    BY <1>2
  <2> HIDE DEF n
  <2>4. Live' \subseteq 0 .. (n + 1) - 1 /\ \A e \in Live' : tracks'[e] \subseteq Pid
    BY <2>1, <2>2
  <2>5. Live' \subseteq 0 .. born' - 1
    BY <2>3, <2>4
  <2> QED
    BY <1>1, <1>2, <1>4, <2>4, <2>5 DEF TypeOK, Insert, kernel, signals, history
<1>6. TablesAgree'
  BY <1>1, <1>2, <1>3 DEF TablesAgree, Insert, signals
<1>7. StackLives'
  BY <1>1, <1>2, <1>3, <1>4 DEF StackLives
<1>8. HeardEnded'
  BY <1>1, HeardKept DEF Insert, kernel, history
<1> QED
  BY <1>5, <1>6, <1>7, <1>8 DEF Sound

LEMMA SoundSpawn ==
    ASSUME Sound, NEW c \in Process, Spawn(c)
    PROVE  Sound'
<1>1. TypeOK /\ TablesAgree /\ StackLives /\ HeardEnded
  BY DEF Sound
<1>2. TypeOK'
  BY <1>1 DEF TypeOK, Spawn, Fork, signals, tables, history, Live
<1>3. TablesAgree' /\ StackLives'
  BY <1>1, TablesKept, StackKept DEF Spawn, signals, tables
<1>4. HeardEnded'
  BY <1>1 DEF HeardEnded, Spawn, Fork, history, TypeOK
<1> QED
  BY <1>2, <1>3, <1>4 DEF Sound

LEMMA SoundEnable ==
    ASSUME Sound, NEW s \in Sig, SignalEnable(s)
    PROVE  Sound'
<1>1. TypeOK /\ TablesAgree /\ StackLives /\ HeardEnded
  BY DEF Sound
<1>2. TypeOK'
  BY <1>1 DEF TypeOK, SignalEnable, kernel, tables, history, Live
<1>3. TablesAgree' /\ StackLives' /\ HeardEnded'
  BY <1>1, TablesKept, StackKept, HeardKept DEF SignalEnable, kernel, tables, history
<1> QED
  BY <1>2, <1>3 DEF Sound

LEMMA SoundSignal ==
    ASSUME Sound, NEW s \in Sig, Signal(s)
    PROVE  Sound'
<1>1. TypeOK /\ TablesAgree /\ StackLives /\ HeardEnded
  BY DEF Sound
<1>2. Top \in Live /\ Top \in Event
  BY TopLives DEF Signal, InCallback
<1>3. TypeOK'
  BY <1>1, <1>2 DEF TypeOK, Signal, kernel, tables, history, Live
<1>4. TablesAgree'
  BY <1>1, <1>2 DEF TablesAgree, TypeOK, Signal, tables, Live
<1>5. StackLives' /\ HeardEnded'
  BY <1>1, StackKept, HeardKept DEF Signal, kernel, tables, history
<1> QED
  BY <1>3, <1>4, <1>5 DEF Sound

LEMMA SoundChild ==
    ASSUME Sound, NEW c \in Process, Child(c)
    PROVE  Sound'
<1>1. TypeOK /\ TablesAgree /\ StackLives /\ HeardEnded
  BY DEF Sound
<1>2. Top \in Live /\ Top \in Event
  BY TopLives DEF Child, InCallback
<1>3. missed' \subseteq Process /\ enabled' \subseteq Sig /\ pid[c] \in Pid
  BY <1>1, ChildrenConstants DEF Child, TypeOK
<1>4. UNCHANGED << kernel, flagged, woken, recipients, born, scheduled, calls, scan,
                   heard, settled >>
  BY DEF Child
<1>5. HeardEnded'
  BY <1>1, <1>4, HeardKept DEF kernel
<1>6. CASE pid[c] \in DOMAIN children
  <2>1. UNCHANGED << tables, asker >> /\ pc' = "panic"
    BY <1>6 DEF Child
  <2>2. TypeOK'
    BY <1>1, <1>3, <1>4, <2>1 DEF TypeOK, kernel, tables, Live
  <2>3. TablesAgree' /\ StackLives'
    BY <1>1, <1>4, <2>1, TablesKept, StackKept DEF tables
  <2> QED
    BY <1>5, <2>2, <2>3 DEF Sound
<1>7. CASE pid[c] \notin DOMAIN children
  <2>1. /\ children' = With(children, pid[c], Top)
        /\ tracks' = [tracks EXCEPT ![Top] = @ \cup {pid[c]}]
        /\ asker' = [asker EXCEPT ![c] = Top] /\ pc' = pc
    BY <1>7 DEF Child
  <2>2. /\ DOMAIN children' = DOMAIN children \cup {pid[c]} /\ children'[pid[c]] = Top
        /\ \A p \in DOMAIN children : children'[p] = children[p]
    BY <1>7, <2>1 DEF With
  <2>3. /\ Live' = Live /\ tracks'[Top] = tracks[Top] \cup {pid[c]}
        /\ \A e \in Live : e # Top => tracks'[e] = tracks[e]
    BY <1>2, <2>1 DEF Live
  <2>4. TypeOK'
    <3>1. DOMAIN children' \subseteq Pid /\ \A p \in DOMAIN children' : children'[p] \in Event
      BY <1>1, <1>2, <1>3, <2>2 DEF TypeOK
    <3>2. Live' \subseteq 0 .. born' - 1 /\ \A e \in Live' : tracks'[e] \subseteq Pid
      BY <1>1, <1>3, <1>4, <2>3 DEF TypeOK
    <3>3. asker' \in [Process -> Event \cup {Nobody}]
      BY <1>1, <1>2, <2>1 DEF TypeOK
    <3> QED
      BY <1>1, <1>3, <1>4, <2>1, <3>1, <3>2, <3>3 DEF TypeOK, kernel
  <2>5. TablesAgree'
    BY <1>1, <1>2, <1>4, <1>7, <2>2, <2>3 DEF TablesAgree
  <2>6. StackLives'
    BY <1>1, <1>4, <2>3 DEF StackLives
  <2> QED
    BY <1>5, <2>4, <2>5, <2>6 DEF Sound
<1> QED
  BY <1>6, <1>7

LEMMA SoundReturn ==
    ASSUME Sound, NEW keep \in BOOLEAN, Return(keep)
    PROVE  Sound'
<1>1. TypeOK /\ TablesAgree /\ StackLives /\ HeardEnded
  BY DEF Sound
<1>2. Top \in Live /\ Top = calls[Len(calls)] /\ Len(calls) \in Nat \ {0}
  BY TopLives DEF Return, InCallback
<1>3. /\ calls' \in Seq(Event) /\ Len(calls') = Len(calls) - 1
      /\ \A i \in 1 .. Len(calls) - 1 : calls'[i] = calls[i]
  BY <1>1, Shorter DEF Return, InCallback, TypeOK
<1>4. UNCHANGED << kernel, enabled, flagged, woken, born, scheduled, pc, scan, history >>
  BY DEF Return
<1>5. HeardEnded'
  BY <1>1, <1>4, HeardKept DEF kernel, history
<1>6. CASE keep
  <2>1. UNCHANGED << tables, recipients >>
    BY <1>6 DEF Return
  <2>2. TypeOK'
    BY <1>1, <1>3, <1>4, <2>1 DEF TypeOK, kernel, tables, history, Live
  <2>3. TablesAgree'
    BY <1>1, <2>1, TablesKept
  <2>4. StackLives'
    BY <1>1, <1>2, <1>3, <2>1 DEF StackLives, tables, Live
  <2> QED
    BY <1>5, <2>2, <2>3, <2>4 DEF Sound
<1>7. CASE ~keep
  <2>1. Kill
    BY <1>7 DEF Return
  <2>2. Live' = Live \ {Top} /\ \A e \in Live' : tracks'[e] = tracks[e]
    BY <2>1 DEF Kill, Live, Without
  <2>3. /\ DOMAIN children' = DOMAIN children \ tracks[Top]
        /\ \A p \in DOMAIN children' : children'[p] = children[p]
    BY <2>1 DEF Kill, Forgotten, Without
  <2>4. /\ recipients' \in [Sig -> SUBSET Event]
        /\ \A s \in Sig : recipients'[s] = recipients[s] \ {Top}
    BY <1>1, <2>1 DEF Kill, Silenced, TypeOK
  <2>5. TypeOK'
    <3>1. DOMAIN children' \subseteq Pid /\ \A p \in DOMAIN children' : children'[p] \in Event
      BY <1>1, <2>3 DEF TypeOK
    <3>2. Live' \subseteq 0 .. born' - 1 /\ \A e \in Live' : tracks'[e] \subseteq Pid
      BY <1>1, <1>4, <2>2 DEF TypeOK
    <3> QED
      BY <1>1, <1>3, <1>4, <2>4, <3>1, <3>2 DEF TypeOK, kernel, history
  <2>6. TablesAgree'
    BY <1>1, <1>2, <2>2, <2>3, <2>4 DEF TablesAgree
  <2>7. StackLives'
    BY <1>1, <1>2, <1>3, <2>2 DEF StackLives
  <2> QED
    BY <1>5, <2>5, <2>6, <2>7 DEF Sound
<1> QED
  BY <1>6, <1>7

LEMMA SoundDrop ==
    ASSUME Sound, DropLoop
    PROVE  Sound'
<1>1. TypeOK /\ TablesAgree /\ StackLives /\ HeardEnded
  BY DEF Sound
<1>2. Live' = {} /\ DOMAIN children' = {} /\ scheduled' \in Seq(Task)
  BY DEF DropLoop, Live
<1>3. recipients' \in [Sig -> SUBSET Event] /\ \A s \in Sig : recipients'[s] = {}
  BY DEF DropLoop
<1>4. TypeOK'
  BY <1>1, <1>2, <1>3 DEF TypeOK, DropLoop, kernel, history
<1>5. TablesAgree'
  BY <1>2, <1>3 DEF TablesAgree
<1>6. StackLives' /\ HeardEnded'
  BY <1>1, HeardKept DEF StackLives, DropLoop, kernel, history
<1> QED
  BY <1>4, <1>5, <1>6 DEF Sound

LEMMA SoundRunOne ==
    ASSUME Sound, RunOne \/ GatherEmpty \/ Gather \/ ScanDone
    PROVE  Sound'
<1>1. TypeOK /\ TablesAgree /\ StackLives /\ HeardEnded
  BY DEF Sound
<1>2. /\ UNCHANGED << kernel, signals, tables, born, scheduled, calls, scan, history >>
      /\ pc' \in {"user", "run_one", "poll"}
  BY DEF RunOne, GatherEmpty, Gather, ScanDone
<1>3. TypeOK'
  BY <1>1, <1>2 DEF TypeOK, kernel, signals, tables, history, Live
<1>4. TablesAgree' /\ StackLives' /\ HeardEnded'
  BY <1>1, <1>2, TablesKept, StackKept, HeardKept DEF kernel, signals, tables, history
<1> QED
  BY <1>3, <1>4 DEF Sound

\* The loop
LEMMA SoundSkip ==
    ASSUME Sound, Skip
    PROVE  Sound'
<1>1. TypeOK /\ TablesAgree /\ StackLives /\ HeardEnded
  BY DEF Sound
<1>2. scheduled' \in Seq(Task)
  BY <1>1, Rest DEF Skip, TypeOK
<1>3. TypeOK'
  BY <1>1, <1>2 DEF TypeOK, Skip, kernel, signals, tables, history, Live
<1>4. TablesAgree' /\ StackLives' /\ HeardEnded'
  BY <1>1, TablesKept, StackKept, HeardKept DEF Skip, kernel, signals, tables, history
<1> QED
  BY <1>3, <1>4 DEF Sound

\* What a task is depends on its field what.
LEMMA TaskKinds ==
    ASSUME NEW task \in Task
    PROVE  /\ task.to \in Event
           /\ task.what = "child" => task.about \in Process
BY DEF Task, ChildTask, SignalTask, OtherTask

LEMMA SoundDispatch ==
    ASSUME Sound, Dispatch
    PROVE  Sound'
<1>1. TypeOK /\ TablesAgree /\ StackLives /\ HeardEnded
  BY DEF Sound
<1>2. scheduled' \in Seq(Task) /\ Head(scheduled) \in Task
  BY <1>1, Rest DEF Dispatch, TypeOK
<1>3. Head(scheduled).to \in Event /\ Head(scheduled).to \in Live
  BY <1>2, TaskKinds DEF Dispatch
<1>4. settled' \subseteq Process
  BY <1>1, <1>2, TaskKinds DEF Dispatch, TypeOK
<1>5. calls \in Seq(Event)
  BY <1>1 DEF TypeOK
<1>6. calls' \in Seq(Event) /\ StackLives'
  <2>1. CASE Head(scheduled).to \in Called
    BY <1>1, <1>5, <2>1 DEF Dispatch, StackLives, tables, Live
  <2>2. CASE Head(scheduled).to \notin Called
    <3> DEFINE e == Head(scheduled).to
    <3>1. /\ calls' \in Seq(Event) /\ Len(calls') = Len(calls) + 1 /\ Len(calls) \in Nat
          /\ \A i \in 1 .. Len(calls) : calls'[i] = calls[i]
          /\ calls'[Len(calls) + 1] = e
      BY <1>3, <1>5, <2>2, Longer DEF Dispatch
    <3>2. Live' = Live /\ e \in Live /\ \A i \in 1 .. Len(calls) : calls[i] # e
      BY <1>3, <2>2 DEF Dispatch, tables, Live, Called
    <3> HIDE DEF e
    <3> QED
      BY <1>1, <3>1, <3>2 DEF StackLives
  <2> QED
    BY <2>1, <2>2
<1>7. TypeOK'
  BY <1>1, <1>2, <1>4, <1>6 DEF TypeOK, Dispatch, kernel, signals, tables, Live
<1>8. TablesAgree' /\ HeardEnded'
  BY <1>1, TablesKept, HeardKept DEF Dispatch, kernel, signals, tables
<1> QED
  BY <1>6, <1>7, <1>8 DEF Sound

LEMMA SoundPoll ==
    ASSUME Sound, PollOther \/ PollSignal
    PROVE  Sound'
<1>1. TypeOK /\ TablesAgree /\ StackLives /\ HeardEnded
  BY DEF Sound
<1>2. scheduled' \in Seq(Task)
  <2>1. \A e \in Live : e \in Event
    BY <1>1 DEF TypeOK, Event
  <2>2. << >> \in Seq(Task)
    OBVIOUS
  <2> QED
    BY <1>1, <2>1, <2>2, TasksAreTasks DEF PollOther, PollSignal, TypeOK
<1>3. /\ UNCHANGED << kernel, enabled, flagged, recipients, tables, born, calls, history >>
      /\ woken' \in BOOLEAN /\ scan' \subseteq Sig /\ pc' \in {"run_one", "scan", "user"}
  BY <1>1 DEF PollOther, PollSignal, signals, TypeOK
<1>4. TypeOK'
  BY <1>1, <1>2, <1>3 DEF TypeOK, kernel, tables, history, Live
<1>5. TablesAgree' /\ StackLives' /\ HeardEnded'
  BY <1>1, <1>3, TablesKept, StackKept, HeardKept DEF kernel, tables, history
<1> QED
  BY <1>4, <1>5 DEF Sound

LEMMA SoundScan ==
    ASSUME Sound, (\E s \in Sig : Scan(s)) \/ ReapDone
    PROVE  Sound'
<1>1. TypeOK /\ TablesAgree /\ StackLives /\ HeardEnded
  BY DEF Sound
<1>2. scheduled \in Seq(Task) /\ SIGCHLD \in Sig
  BY <1>1, ChildrenConstants DEF TypeOK
<1>3. \A s \in Sig : \A q \in Broadcast(s) : scheduled \o q \in Seq(Task)
  BY <1>1, <1>2, BroadcastIsTasks, Joined
<1>4. scheduled' \in Seq(Task)
  BY <1>2, <1>3 DEF Scan, ReapDone
<1>5. /\ UNCHANGED << kernel, enabled, woken, recipients, tables, born, calls, history >>
      /\ flagged' \subseteq Sig /\ scan' \subseteq Sig /\ pc' \in {"scan", "reap"}
  BY <1>1 DEF Scan, ReapDone, signals, TypeOK
<1>6. TypeOK'
  BY <1>1, <1>4, <1>5 DEF TypeOK, kernel, tables, history, Live
<1>7. TablesAgree' /\ StackLives' /\ HeardEnded'
  BY <1>1, <1>5, TablesKept, StackKept, HeardKept DEF kernel, tables, history
<1> QED
  BY <1>6, <1>7 DEF Sound

\* A child that is tracked is one its event knows of: the assertion holds.
LEMMA ReapCases ==
    ASSUME Sound, NEW c \in Process, Reap(c)
    PROVE  \/ pid[c] \notin DOMAIN children /\ UNCHANGED << tables, scheduled, pc >>
           \/ /\ pid[c] \in DOMAIN children
              /\ children[pid[c]] \in Live /\ children[pid[c]] \in Event
              /\ pid[c] \in tracks[children[pid[c]]]
              /\ DOMAIN children' = DOMAIN children \ {pid[c]}
              /\ \A p \in DOMAIN children' : children'[p] = children[p]
              /\ tracks' = [tracks EXCEPT ![children[pid[c]]] = @ \ {pid[c]}]
              /\ scheduled' = Append(scheduled,
                    [to |-> children[pid[c]], what |-> "child", pid |-> pid[c], about |-> c])
              /\ UNCHANGED pc
<1>1. TypeOK /\ TablesAgree
  BY DEF Sound
<1>2. CASE pid[c] \notin DOMAIN children
  BY <1>2 DEF Reap
<1>3. CASE pid[c] \in DOMAIN children
  <2>1. /\ children[pid[c]] \in Live /\ pid[c] \in tracks[children[pid[c]]]
        /\ children[pid[c]] \in Event
    BY <1>1, <1>3 DEF TablesAgree, TypeOK
  <2>2. /\ children' = Without(children, {pid[c]})
        /\ tracks' = [tracks EXCEPT ![children[pid[c]]] = @ \ {pid[c]}]
        /\ scheduled' = Append(scheduled,
              [to |-> children[pid[c]], what |-> "child", pid |-> pid[c], about |-> c])
        /\ UNCHANGED pc
    BY <1>3, <2>1 DEF Reap, Untracked
  <2>3. /\ DOMAIN children' = DOMAIN children \ {pid[c]}
        /\ \A p \in DOMAIN children' : children'[p] = children[p]
    BY <2>2 DEF Without
  <2> QED
    BY <1>3, <2>1, <2>2, <2>3
<1> QED
  BY <1>2, <1>3

LEMMA SoundReap ==
    ASSUME Sound, NEW c \in Process, Reap(c)
    PROVE  Sound'
<1>1. TypeOK /\ TablesAgree /\ StackLives /\ HeardEnded
  BY DEF Sound
<1>2. /\ UNCHANGED << pid, pending, signals, born, calls, scan, history >>
      /\ status' = [status EXCEPT ![c] = "reaped"] /\ pid[c] \in Pid
  BY <1>1 DEF Reap, Collected, TypeOK
<1>3. HeardEnded'
  BY <1>1, <1>2 DEF HeardEnded, history, TypeOK
<1>4. status' \in [Process -> {"unborn", "running", "zombie", "reaped"}]
  BY <1>1, <1>2 DEF TypeOK
<1>5. CASE pid[c] \notin DOMAIN children
  <2>1. UNCHANGED << tables, scheduled, pc >>
    BY <1>5, ReapCases
  <2>2. TypeOK'
    BY <1>1, <1>2, <1>4, <2>1 DEF TypeOK, signals, tables, history, Live
  <2>3. TablesAgree' /\ StackLives'
    BY <1>1, <1>2, <2>1, TablesKept, StackKept DEF signals, tables
  <2> QED
    BY <1>3, <2>2, <2>3 DEF Sound
<1>6. CASE pid[c] \in DOMAIN children
  <2>1. PICK e \in Event, p \in Pid : e = children[pid[c]] /\ p = pid[c]
    BY <1>2, <1>6, ReapCases
  <2>2. /\ p \in DOMAIN children /\ e = children[p] /\ e \in Live /\ p \in tracks[e]
        /\ DOMAIN children' = DOMAIN children \ {p}
        /\ \A x \in DOMAIN children' : children'[x] = children[x]
        /\ tracks' = [tracks EXCEPT ![e] = @ \ {p}]
        /\ scheduled' = Append(scheduled, [to |-> e, what |-> "child", pid |-> p, about |-> c])
        /\ UNCHANGED pc
    BY <1>6, <2>1, ReapCases
  <2>3. /\ Live' = Live /\ tracks'[e] = tracks[e] \ {p}
        /\ \A f \in Live : f # e => tracks'[f] = tracks[f]
    BY <2>2 DEF Live
  <2>4. TypeOK'
    <3>1. scheduled' \in Seq(Task)
      BY <1>1, <2>2, TasksAreTasks, Longer DEF TypeOK
    <3>2. DOMAIN children' \subseteq Pid /\ \A x \in DOMAIN children' : children'[x] \in Event
      BY <1>1, <2>2 DEF TypeOK
    <3>3. Live' \subseteq 0 .. born' - 1 /\ \A f \in Live' : tracks'[f] \subseteq Pid
      BY <1>1, <1>2, <2>3 DEF TypeOK
    <3> QED
      BY <1>1, <1>2, <1>4, <2>2, <3>1, <3>2, <3>3 DEF TypeOK, signals, history
  <2>5. TablesAgree'
    BY <1>1, <1>2, <2>2, <2>3 DEF TablesAgree, signals
  <2>6. StackLives'
    BY <1>1, <1>2, <2>3 DEF StackLives
  <2> QED
    BY <1>3, <2>4, <2>5, <2>6 DEF Sound
<1> QED
  BY <1>5, <1>6

LEMMA SoundStep ==
    ASSUME Sound, [Next]_vars
    PROVE  Sound'
<1>1. CASE Outside
  BY <1>1, SoundOutside
<1>2. CASE UserCode
  BY <1>2, SoundInsert, SoundRunOne, SoundDrop, SoundSpawn, SoundChild, SoundEnable,
     SoundSignal, SoundReturn DEF UserCode
<1>3. CASE LoopCode
  BY <1>3, SoundSkip, SoundDispatch, SoundRunOne, SoundScan, SoundReap DEF LoopCode
<1>4. CASE PollOther \/ PollSignal
  BY <1>4, SoundPoll
<1>5. CASE UNCHANGED vars
  <2>1. UNCHANGED << kernel, signals, tables, born, scheduled, calls, pc, scan, history >>
    BY <1>5 DEF vars
  <2> QED
    BY <2>1 DEF Sound, TypeOK, TablesAgree, StackLives, HeardEnded, kernel, signals, tables,
       history, Live
<1> QED
  BY <1>1, <1>2, <1>3, <1>4, <1>5 DEF Next

\* The state of children and signals is well formed for any constants.
THEOREM ChildrenTypeCorrect == Spec => []TypeOK
<1>1. Sound => TypeOK
  BY DEF Sound
<1> QED
  BY <1>1, SoundInit, SoundStep, PTL DEF Spec

\* The table of the loop and the sets of its events say the same, whatever is killed,
\* reaped or tracked again: the assertion of children_gather holds.
THEOREM ChildTablesAgree == Spec => []TablesAgree
<1>1. Sound => TablesAgree
  BY DEF Sound
<1> QED
  BY <1>1, SoundInit, SoundStep, PTL DEF Spec

-----------------------------------------------------------------------------
(* No sleeping zombie.                                                     *)

LEMMA ZombiesOutside ==
    ASSUME Sound, NoSleepingZombie, Outside
    PROVE  NoSleepingZombie'
<1>1. TypeOK /\ HeardEnded
  BY DEF Sound
<1>2. ASSUME NEW c \in Process, Exit(c)
      PROVE  NoSleepingZombie'
  <2>1. UNCHANGED << flagged, woken, pc, scan >> /\ status' = [status EXCEPT ![c] = "zombie"]
    BY <1>2 DEF Exit, signals
  <2>2. CASE SIGCHLD \in enabled
    BY <1>2, <2>2 DEF Exit, NoSleepingZombie
  <2>3. CASE SIGCHLD \notin enabled
    <3>1. UNCHANGED << pending, heard >> /\ c \notin heard
      BY <1>1, <1>2, <2>3 DEF Exit, HeardEnded
    <3>2. (Zombies \cap heard)' = Zombies \cap heard
      BY <1>1, <2>1, <3>1 DEF Zombies, TypeOK
    <3> QED
      BY <2>1, <3>1, <3>2 DEF NoSleepingZombie
  <2> QED
    BY <2>2, <2>3
<1>3. ASSUME NEW c \in Process, ReapedByOther(c)
      PROVE  NoSleepingZombie'
  <2>1. UNCHANGED << pending, flagged, woken, pc, scan, heard >> /\ status' = [status EXCEPT ![c] = "reaped"]
    BY <1>3 DEF ReapedByOther, signals
  <2>2. (Zombies \cap heard)' \subseteq Zombies \cap heard
    BY <1>1, <2>1 DEF Zombies, TypeOK
  <2> QED
    BY <2>1, <2>2 DEF NoSleepingZombie
<1>4. ASSUME NEW s \in Sig, Raise(s)
      PROVE  NoSleepingZombie'
  BY <1>4 DEF Raise, NoSleepingZombie, Zombies, signals, history
<1>5. ASSUME NEW s \in Sig, Deliver(s)
      PROVE  NoSleepingZombie'
  BY <1>5 DEF Deliver, NoSleepingZombie, Zombies, history
<1> QED
  BY <1>2, <1>3, <1>4, <1>5 DEF Outside

LEMMA ZombiesUser ==
    ASSUME Sound, NoSleepingZombie, UserCode
    PROVE  NoSleepingZombie'
<1>1. TypeOK /\ HeardEnded
  BY DEF Sound
<1>2. pc = "user" /\ UNCHANGED << pending, flagged, woken, scan, heard >>
  BY DEF UserCode, Insert, RunOne, DropLoop, Spawn, Child, SignalEnable, Signal, Return,
     InCallback, kernel, signals, history
<1>3. (Zombies \cap heard)' \subseteq Zombies \cap heard
  <2>1. status' = status \/ \E c \in Process : status' = [status EXCEPT ![c] = "running"]
    BY DEF UserCode, Insert, RunOne, DropLoop, Spawn, Fork, Child, SignalEnable, Signal, Return,
       kernel
  <2> QED
    BY <1>1, <1>2, <2>1 DEF Zombies, TypeOK
<1> QED
  BY <1>2, <1>3 DEF NoSleepingZombie

LEMMA ZombiesLoop ==
    ASSUME Sound, NoSleepingZombie, LoopCode \/ PollOther \/ PollSignal
    PROVE  NoSleepingZombie'
<1>1. TypeOK /\ HeardEnded
  BY DEF Sound
<1>2. CASE Skip \/ Dispatch \/ GatherEmpty \/ Gather \/ PollOther
  <2>1. UNCHANGED << status, pending, flagged, woken, heard >> /\ pc \in {"run_one", "poll"}
    BY <1>2 DEF Skip, Dispatch, GatherEmpty, Gather, PollOther, kernel, signals, history
  <2> QED
    BY <2>1 DEF NoSleepingZombie, Zombies
<1>3. CASE PollSignal
  BY <1>3, ChildrenConstants DEF PollSignal, NoSleepingZombie, Zombies, kernel, history
<1>4. ASSUME NEW s \in Sig, Scan(s)
      PROVE  NoSleepingZombie'
  <2>1. /\ UNCHANGED << status, pending, woken, heard >> /\ pc = "scan"
        /\ flagged' = flagged \ {s}
    BY <1>4 DEF Scan, kernel, history
  <2>2. CASE s = SIGCHLD /\ s \in flagged
    BY <1>4, <2>2 DEF Scan, NoSleepingZombie
  <2>3. CASE s = SIGCHLD /\ s \notin flagged
    BY <2>1, <2>3 DEF NoSleepingZombie, Zombies
  <2>4. CASE s # SIGCHLD
    <3>1. scan' = scan \ {s} /\ pc' = "scan"
      BY <1>4, <2>4 DEF Scan
    <3> QED
      BY <2>1, <2>4, <3>1 DEF NoSleepingZombie, Zombies
  <2> QED
    BY <2>2, <2>3, <2>4
<1>5. ASSUME NEW c \in Process, Reap(c)
      PROVE  NoSleepingZombie'
  <2>1. pc' \in {"reap", "panic"}
    BY <1>5 DEF Reap
  <2> QED
    BY <2>1 DEF NoSleepingZombie
<1>6. CASE ReapDone
  <2>1. Zombies' = {}
    BY <1>6 DEF ReapDone, NoneLeft, Zombies, kernel
  <2> QED
    BY <2>1 DEF NoSleepingZombie
<1>7. CASE ScanDone
  BY <1>7 DEF ScanDone, NoSleepingZombie, Zombies, kernel, signals, history
<1> QED
  BY <1>2, <1>3, <1>4, <1>5, <1>6, <1>7 DEF LoopCode

\* No zombie is forgotten, however many children end while SIGCHLD waits, while its
\* flag is set, or while waitpid is being called.
THEOREM ZombiesAreNoticed == Spec => []NoSleepingZombie
<1>1. Init => NoSleepingZombie
  BY DEF Init, NoSleepingZombie, Zombies
<1>2. Sound /\ NoSleepingZombie /\ [Next]_vars => NoSleepingZombie'
  <2> SUFFICES ASSUME Sound, NoSleepingZombie, [Next]_vars
               PROVE  NoSleepingZombie'
    OBVIOUS
  <2>1. CASE UNCHANGED vars
    BY <2>1 DEF vars, kernel, signals, history, NoSleepingZombie, Zombies
  <2> QED
    BY <2>1, ZombiesOutside, ZombiesUser, ZombiesLoop DEF Next
<1> QED
  BY <1>1, <1>2, SoundInit, SoundStep, PTL DEF Spec

-----------------------------------------------------------------------------
(* Entries are current.                                                    *)

\* No two processes have one pid at a time.
PidsDistinct == \A c, d \in Present : pid[c] = pid[d] => c = d

Current == PidsDistinct /\ EntriesCurrent

LEMMA CurrentKept ==
    ASSUME Current, UNCHANGED << pid, asker, missed >>, Present' = Present,
           DOMAIN children' \subseteq DOMAIN children,
           \A p \in DOMAIN children' : children'[p] = children[p],
           pc' = "panic" => pc = "panic"
    PROVE  Current'
BY DEF Current, PidsDistinct, EntriesCurrent

LEMMA CurrentInit == Init => Current
BY DEF Init, Current, PidsDistinct, EntriesCurrent, Present

LEMMA CurrentOutside ==
    ASSUME Sound, Current, Outside
    PROVE  Current'
<1>1. TypeOK
  BY DEF Sound
<1>2. ASSUME NEW c \in Process, Exit(c)
      PROVE  Current'
  <2>1. Present' = Present
    BY <1>1, <1>2 DEF Exit, Present, TypeOK
  <2> QED
    BY <1>2, <2>1, CurrentKept DEF Exit, signals, tables
<1>3. ASSUME NEW c \in Process, ReapedByOther(c)
      PROVE  Current'
  <2>1. Present' \subseteq Present /\ pid' = pid /\ missed' # {}
    BY <1>1, <1>3 DEF ReapedByOther, Present, TypeOK
  <2> QED
    BY <2>1 DEF Current, PidsDistinct, EntriesCurrent
<1>4. CASE \E s \in Sig : Raise(s) \/ Deliver(s)
  <2>1. UNCHANGED << status, pid, children, asker, missed, pc >>
    BY <1>4 DEF Raise, Deliver, signals, tables, history
  <2> QED
    BY <2>1, CurrentKept DEF Present
<1> QED
  BY <1>2, <1>3, <1>4 DEF Outside

LEMMA CurrentChild ==
    ASSUME Sound, Current, NEW c \in Process, Child(c)
    PROVE  Current'
<1>1. TypeOK /\ PidsDistinct /\ EntriesCurrent
  BY DEF Sound, Current
<1>2. /\ UNCHANGED << status, pid >> /\ Present' = Present
      /\ missed \subseteq missed'
      /\ status[c] = "reaped" => missed' # {}
      /\ status[c] # "unborn" /\ asker[c] = Nobody /\ pc = "user"
  BY DEF Child, kernel, Present, InCallback
<1>3. PidsDistinct'
  BY <1>1, <1>2 DEF PidsDistinct
<1>4. ASSUME missed' = {}
      PROVE  /\ \A p \in DOMAIN children' :
                   \E d \in Present' : pid'[d] = p /\ asker'[d] = children'[p]
             /\ pc' # "panic"
  <2>1. /\ c \in Present
        /\ \A p \in DOMAIN children :
              \E d \in Present : pid[d] = p /\ asker[d] = children[p]
    <3>1. missed = {} /\ status[c] # "reaped"
      BY <1>2, <1>4
    <3>2. c \in Present
      BY <1>1, <1>2, <3>1 DEF Present, TypeOK
    <3> QED
      BY <1>1, <3>1, <3>2 DEF EntriesCurrent
  <2>2. \A p \in DOMAIN children : children[p] # Nobody
    BY <1>1 DEF TypeOK, Event, Nobody
  <2>3. pid[c] \notin DOMAIN children
    BY <1>1, <1>2, <2>1, <2>2 DEF PidsDistinct
  <2>4. /\ children' = With(children, pid[c], Top) /\ pc' = pc
        /\ asker' = [asker EXCEPT ![c] = Top]
    BY <2>3 DEF Child
  <2>5. /\ DOMAIN children' = DOMAIN children \cup {pid[c]} /\ children'[pid[c]] = Top
        /\ \A p \in DOMAIN children : children'[p] = children[p]
    BY <2>3, <2>4 DEF With
  <2>6. asker'[c] = Top /\ \A d \in Process : asker[d] # Nobody => asker'[d] = asker[d]
    BY <1>1, <1>2, <2>4 DEF TypeOK
  <2>7. Present \subseteq Process
    BY DEF Present
  <2> QED
    BY <1>2, <2>1, <2>2, <2>4, <2>5, <2>6, <2>7
<1> QED
  BY <1>3, <1>4 DEF Current, EntriesCurrent

LEMMA CurrentUser ==
    ASSUME Sound, Current, UserCode
    PROVE  Current'
<1>1. TypeOK
  BY DEF Sound
<1>2. CASE Insert \/ RunOne \/ \E s \in Sig : SignalEnable(s) \/ Signal(s)
  <2>1. UNCHANGED << status, pid, children, asker, missed >> /\ pc' \in {"user", "run_one"}
    BY <1>2 DEF Insert, RunOne, SignalEnable, Signal, InCallback, kernel, tables, history
  <2> QED
    BY <2>1, CurrentKept DEF Present
<1>3. CASE DropLoop \/ \E keep \in BOOLEAN : Return(keep)
  <2>1. /\ UNCHANGED << status, pid, asker, missed >> /\ pc' \in {"user", "gone"}
        /\ DOMAIN children' \subseteq DOMAIN children
        /\ \A p \in DOMAIN children' : children'[p] = children[p]
    BY <1>3 DEF DropLoop, Return, InCallback, Kill, Without, kernel, tables, history
  <2> QED
    BY <2>1, CurrentKept DEF Present
<1>4. ASSUME NEW c \in Process, Spawn(c)
      PROVE  Current'
  <2>1. /\ UNCHANGED << pid, children, asker, missed, pc >>
        /\ status' = [status EXCEPT ![c] = "running"]
        /\ \A d \in Present : pid[c] # pid[d]
    BY <1>4 DEF Spawn, Fork, tables, history
  <2>2. Present' = Present \cup {c}
    BY <1>1, <2>1 DEF Present, TypeOK
  <2> QED
    BY <2>1, <2>2 DEF Current, PidsDistinct, EntriesCurrent
<1> QED
  BY <1>2, <1>3, <1>4, CurrentChild DEF UserCode

\* What is reaped is the process the entry is for, if there is an entry.
LEMMA CurrentReap ==
    ASSUME Sound, Current, NEW c \in Process, Reap(c)
    PROVE  Current'
<1>1. TypeOK /\ PidsDistinct /\ EntriesCurrent
  BY DEF Sound, Current
<1>2. /\ UNCHANGED << pid, asker, missed >> /\ c \in Present
      /\ Present' = Present \ {c}
  BY <1>1 DEF Reap, Collected, Present, TypeOK, history
<1>3. /\ pc' = pc /\ pid[c] \notin DOMAIN children'
      /\ DOMAIN children' \subseteq DOMAIN children
      /\ \A p \in DOMAIN children' : children'[p] = children[p]
  BY ReapCases DEF tables
<1>4. PidsDistinct'
  BY <1>1, <1>2 DEF PidsDistinct
<1>5. EntriesCurrent'
  BY <1>1, <1>2, <1>3 DEF EntriesCurrent
<1> QED
  BY <1>4, <1>5 DEF Current

LEMMA CurrentLoop ==
    ASSUME Sound, Current, LoopCode \/ PollOther \/ PollSignal
    PROVE  Current'
<1>1. CASE \/ Skip \/ Dispatch \/ GatherEmpty \/ Gather \/ ReapDone \/ ScanDone
           \/ PollOther \/ PollSignal \/ \E s \in Sig : Scan(s)
  <2>1. UNCHANGED << status, pid, children, asker, missed >> /\ pc' # "panic"
    BY <1>1 DEF Skip, Dispatch, GatherEmpty, Gather, ReapDone, ScanDone, PollOther, PollSignal,
       Scan, kernel, tables, history
  <2> QED
    BY <2>1, CurrentKept DEF Present
<1> QED
  BY <1>1, CurrentReap DEF LoopCode

LEMMA CurrentStep ==
    ASSUME Sound, Current, [Next]_vars
    PROVE  Current'
<1>1. CASE UNCHANGED vars
  BY <1>1, CurrentKept DEF vars, kernel, tables, history, Present
<1> QED
  BY <1>1, CurrentOutside, CurrentUser, CurrentLoop DEF Next

\* While nobody else calls waitpid, and nothing is tracked that was reaped before, a
\* tracked pid is that of the process it was tracked for, and tracking does not panic.
THEOREM TrackedPidsAreCurrent == Spec => []EntriesCurrent
<1>1. Current => EntriesCurrent
  BY DEF Current
<1> QED
  BY <1>1, SoundInit, SoundStep, CurrentInit, CurrentStep, PTL DEF Spec

-----------------------------------------------------------------------------
(* Reports are right.                                                      *)

\* A process that was reported was reaped.
SettledReaped == missed = {} => \A c \in settled : status[c] = "reaped"

Right == SettledReaped /\ ReportsAreRight

\* Reports stay right when the queue loses its first task or gets others.
LEMMA RightKept ==
    ASSUME Sound, Right, NEW d \in {0, 1},
           UNCHANGED << missed, settled >>,
           \A k \in DOMAIN scheduled' : scheduled'[k].what = "child" =>
               k + d \in DOMAIN scheduled /\ scheduled'[k] = scheduled[k + d],
           \A c \in Process : asker[c] # Nobody => asker'[c] = asker[c],
           \A c \in Process : status[c] = "reaped" => status'[c] = "reaped",
           DOMAIN scheduled' \subseteq Nat
    PROVE  Right'
<1>1. TypeOK
  BY DEF Sound
<1>2. SettledReaped'
  BY <1>1 DEF Right, SettledReaped, TypeOK
<1>3. \A k \in DOMAIN scheduled : /\ scheduled[k].to # Nobody
                                  /\ scheduled[k].what = "child" => scheduled[k].about \in Process
  <2>1. \A k \in DOMAIN scheduled : scheduled[k] \in Task
    BY <1>1 DEF TypeOK
  <2> QED
    BY <2>1, TaskKinds DEF Event, Nobody
<1>4. ASSUME missed' = {}, NEW k \in DOMAIN scheduled', scheduled'[k].what = "child",
             NEW c, c = scheduled'[k].about
      PROVE  /\ asker'[c] = scheduled'[k].to /\ status'[c] = "reaped" /\ c \notin settled'
             /\ \A l \in DOMAIN scheduled' :
                  scheduled'[l].what = "child" /\ scheduled'[l].about = c => l = k
  <2>1. k + d \in DOMAIN scheduled /\ scheduled'[k] = scheduled[k + d] /\ missed = {}
    BY <1>4
  <2>2. /\ asker[c] = scheduled[k + d].to /\ status[c] = "reaped" /\ c \notin settled
        /\ \A l \in DOMAIN scheduled :
             scheduled[l].what = "child" /\ scheduled[l].about = c => l = k + d
    BY <1>4, <2>1 DEF Right, ReportsAreRight
  <2>3. c \in Process /\ asker[c] # Nobody
    BY <1>3, <1>4, <2>1, <2>2
  <2>4. ASSUME NEW l \in DOMAIN scheduled', scheduled'[l].what = "child",
               scheduled'[l].about = c
        PROVE  l = k
    <3>1. l + d \in DOMAIN scheduled /\ scheduled'[l] = scheduled[l + d]
      BY <2>4
    <3>2. l + d = k + d /\ l \in Nat /\ k \in Nat
      BY <2>2, <2>4, <3>1
    <3> QED
      BY <3>2
  <2> QED
    BY <2>1, <2>2, <2>3, <2>4
<1> QED
  BY <1>2, <1>4 DEF Right, ReportsAreRight

\* Tasks that are no reports, added or alone, leave the reports right.
LEMMA RightSame ==
    ASSUME Sound, Right, UNCHANGED << missed, settled, asker >>,
           \A c \in Process : status[c] = "reaped" => status'[c] = "reaped",
           \/ scheduled' = scheduled
           \/ scheduled' = << >>
           \/ \E e \in Live : scheduled' = << [to |-> e, what |-> "other"] >>
           \/ \E s \in Sig : \E q \in Broadcast(s) : scheduled' = scheduled \o q
    PROVE  Right'
<1>1. TypeOK /\ TablesAgree
  BY DEF Sound
<1>2. \A k \in DOMAIN scheduled' : scheduled'[k].what = "child" =>
          k \in DOMAIN scheduled /\ scheduled'[k] = scheduled[k]
  <2>1. ASSUME NEW s \in Sig, NEW q \in Broadcast(s), scheduled' = scheduled \o q,
               NEW k \in DOMAIN scheduled', scheduled'[k].what = "child"
        PROVE  k \in DOMAIN scheduled /\ scheduled'[k] = scheduled[k]
    <3>1. q \in Seq(Task) /\ scheduled \in Seq(Task) /\ \A i \in DOMAIN q : q[i].what = "signal"
      BY <1>1, BroadcastIsTasks DEF TypeOK
    <3>2. PICK m \in Nat, n \in Nat : m = Len(scheduled) /\ n = Len(q)
      BY <3>1
    <3>3. /\ DOMAIN scheduled' = 1 .. m + n /\ DOMAIN scheduled = 1 .. m /\ DOMAIN q = 1 .. n
          /\ \A i \in 1 .. m : scheduled'[i] = scheduled[i]
          /\ \A i \in m + 1 .. m + n : scheduled'[i] = q[i - m]
      BY <2>1, <3>1, <3>2
    <3>4. CASE k \in 1 .. m
      BY <3>3, <3>4
    <3>5. CASE k \in m + 1 .. m + n
      <4>1. k - m \in 1 .. n
        BY <3>2, <3>5
      <4> QED
        BY <2>1, <3>1, <3>3, <3>5, <4>1
    <3>6. k \in 1 .. m \/ k \in m + 1 .. m + n
      BY <3>2, <3>3
    <3> QED
      BY <3>4, <3>5, <3>6
  <2>2. ASSUME NEW e \in Live, scheduled' = << [to |-> e, what |-> "other"] >>,
               NEW k \in DOMAIN scheduled', scheduled'[k].what = "child"
        PROVE  FALSE
    BY <2>2
  <2>3. ASSUME scheduled' = << >>, NEW k \in DOMAIN scheduled'
        PROVE  FALSE
    BY <2>3
  <2> QED
    BY <2>1, <2>2, <2>3
<1>3. DOMAIN scheduled' \subseteq Nat
  <2>1. scheduled' \in Seq(Task)
    <3>1. scheduled \in Seq(Task) /\ << >> \in Seq(Task) /\ \A e \in Live : e \in Event
      BY <1>1 DEF TypeOK, Event
    <3>2. \A s \in Sig : \A q \in Broadcast(s) : scheduled \o q \in Seq(Task)
      BY <1>1, <3>1, BroadcastIsTasks, Joined
    <3> QED
      BY <3>1, <3>2, TasksAreTasks
  <2> QED
    BY <2>1
<1>4. \A k \in DOMAIN scheduled' : scheduled'[k].what = "child" =>
          k + 0 \in DOMAIN scheduled /\ scheduled'[k] = scheduled[k + 0]
  <2>1. \A k \in DOMAIN scheduled' : k + 0 = k
    BY <1>3
  <2> QED
    BY <1>2, <2>1
<1> QED
  BY <1>3, <1>4, RightKept

LEMMA RightInit == Init => Right
BY DEF Init, Right, SettledReaped, ReportsAreRight

LEMMA RightOutside ==
    ASSUME Sound, Right, Outside
    PROVE  Right'
<1>1. TypeOK
  BY DEF Sound
<1>2. ASSUME NEW c \in Process, Exit(c)
      PROVE  Right'
  <2>1. /\ UNCHANGED << missed, settled, asker, scheduled >>
        /\ \A d \in Process : status[d] = "reaped" => status'[d] = "reaped"
    BY <1>1, <1>2 DEF Exit, TypeOK
  <2> QED
    BY <2>1, RightSame
<1>3. ASSUME NEW c \in Process, ReapedByOther(c)
      PROVE  Right'
  <2>1. missed' # {}
    BY <1>3 DEF ReapedByOther
  <2> QED
    BY <2>1 DEF Right, SettledReaped, ReportsAreRight
<1>4. CASE \E s \in Sig : Raise(s) \/ Deliver(s)
  <2>1. UNCHANGED << missed, settled, asker, scheduled, status >>
    BY <1>4 DEF Raise, Deliver, history
  <2> QED
    BY <2>1, RightSame
<1> QED
  BY <1>2, <1>3, <1>4 DEF Outside

LEMMA RightUser ==
    ASSUME Sound, Right, UserCode
    PROVE  Right'
<1>1. TypeOK
  BY DEF Sound
<1>2. CASE \/ Insert \/ RunOne \/ DropLoop \/ \E s \in Sig : SignalEnable(s) \/ Signal(s)
           \/ \E keep \in BOOLEAN : Return(keep)
  <2>1. UNCHANGED << status, asker, missed, settled >> /\ scheduled' \in {scheduled, << >>}
    BY <1>2 DEF Insert, RunOne, DropLoop, SignalEnable, Signal, Return, kernel, history
  <2> QED
    BY <2>1, RightSame
<1>3. ASSUME NEW c \in Process, Spawn(c)
      PROVE  Right'
  <2>1. /\ UNCHANGED << missed, settled, asker, scheduled >>
        /\ \A d \in Process : status[d] = "reaped" => status'[d] = "reaped"
    BY <1>1, <1>3 DEF Spawn, Fork, TypeOK, history
  <2> QED
    BY <2>1, RightSame
<1>4. ASSUME NEW c \in Process, Child(c)
      PROVE  Right'
  <2>1. /\ UNCHANGED << settled, scheduled, status >> /\ missed \subseteq missed'
        /\ asker[c] = Nobody
        /\ asker' = asker \/ asker' = [asker EXCEPT ![c] = Top]
    BY <1>4 DEF Child, kernel
  <2>2. \A d \in Process : asker[d] # Nobody => asker'[d] = asker[d]
    BY <1>1, <2>1 DEF TypeOK
  <2>3. CASE missed' = missed
    <3>1. DOMAIN scheduled \subseteq Nat /\ \A k \in DOMAIN scheduled : k + 0 = k
      BY <1>1 DEF TypeOK
    <3>2. \A k \in DOMAIN scheduled' : scheduled'[k].what = "child" =>
              k + 0 \in DOMAIN scheduled /\ scheduled'[k] = scheduled[k + 0]
      BY <2>1, <3>1
    <3> QED
      BY <2>1, <2>2, <2>3, <3>1, <3>2, RightKept
  <2>4. CASE missed' # missed
    BY <2>1, <2>4 DEF Right, SettledReaped, ReportsAreRight
  <2> QED
    BY <2>3, <2>4
<1> QED
  BY <1>2, <1>3, <1>4 DEF UserCode

\* The task of a child that was reaped is the first report of it.
LEMMA RightReap ==
    ASSUME Sound, Current, Right, NEW c \in Process, Reap(c)
    PROVE  Right'
<1>1. TypeOK /\ PidsDistinct /\ EntriesCurrent
  BY DEF Sound, Current
<1>2. /\ UNCHANGED << missed, settled, asker >> /\ status[c] = "zombie"
      /\ status'[c] = "reaped"
      /\ \A d \in Process : status[d] = "reaped" => status'[d] = "reaped"
  BY <1>1 DEF Reap, Collected, TypeOK, history
<1>3. CASE scheduled' = scheduled
  BY <1>2, <1>3, RightSame
<1>4. CASE scheduled' # scheduled
  <2>1. PICK e \in Event, p \in Pid : e = children[pid[c]] /\ p = pid[c]
    BY <1>1, <1>4, ReapCases DEF TypeOK
  <2>2. p \in DOMAIN children
        /\ scheduled' = Append(scheduled, [to |-> e, what |-> "child", pid |-> p, about |-> c])
    BY <1>4, <2>1, ReapCases
  <2> DEFINE task == [to |-> e, what |-> "child", pid |-> p, about |-> c]
  <2>3. PICK n \in Nat : n = Len(scheduled)
    BY <1>1 DEF TypeOK
  <2>4. /\ DOMAIN scheduled = 1 .. n /\ DOMAIN scheduled' = 1 .. n + 1
        /\ \A k \in 1 .. n : scheduled'[k] = scheduled[k]
        /\ scheduled'[n + 1] = task
    <3>1. task \in Task /\ scheduled \in Seq(Task)
      BY <1>1, TasksAreTasks DEF TypeOK
    <3> HIDE DEF task
    <3> QED
      BY <2>2, <2>3, <3>1, Longer DEF task
  <2>5. SettledReaped'
    BY <1>1, <1>2 DEF Right, SettledReaped, TypeOK
  <2>6. ASSUME missed = {}
        PROVE  /\ asker[c] = e /\ c \notin settled
               /\ \A k \in 1 .. n : scheduled[k].what = "child" => scheduled[k].about # c
    <3>1. \E d \in Present : pid[d] = p /\ asker[d] = e
      BY <1>1, <2>1, <2>2, <2>6 DEF EntriesCurrent
    <3>2. c \in Present
      BY <1>2 DEF Present
    <3>3. asker[c] = e
      BY <1>1, <2>1, <3>1, <3>2 DEF PidsDistinct
    <3> QED
      BY <1>2, <2>4, <2>6, <3>3 DEF Right, SettledReaped, ReportsAreRight
  <2>7. ASSUME missed' = {}, NEW k \in DOMAIN scheduled', scheduled'[k].what = "child",
               NEW d, d = scheduled'[k].about
        PROVE  /\ asker'[d] = scheduled'[k].to /\ status'[d] = "reaped" /\ d \notin settled'
               /\ \A l \in DOMAIN scheduled' :
                    scheduled'[l].what = "child" /\ scheduled'[l].about = d => l = k
    <3>1. missed = {} /\ task.to = e /\ task.about = c /\ task.what = "child"
      BY <1>2, <2>7
    <3>2. \A l \in DOMAIN scheduled' : l \in 1 .. n \/ l = n + 1
      BY <2>3, <2>4
    <3> HIDE DEF task
    <3>3. CASE k = n + 1
      <4>1. d = c /\ scheduled'[k].to = e
        BY <2>4, <2>7, <3>1, <3>3
      <4> QED
        BY <1>2, <2>4, <2>6, <3>1, <3>2, <3>3, <4>1
    <3>4. CASE k \in 1 .. n
      <4>1. scheduled[k].what = "child" /\ scheduled[k].about = d /\ scheduled'[k] = scheduled[k]
        BY <2>4, <2>7, <3>4
      <4>2. /\ asker[d] = scheduled[k].to /\ status[d] = "reaped" /\ d \notin settled
            /\ \A l \in 1 .. n : scheduled[l].what = "child" /\ scheduled[l].about = d => l = k
        BY <2>4, <3>1, <3>4, <4>1 DEF Right, ReportsAreRight
      <4>3. d \in Process /\ d # c
        BY <1>1, <1>2, <2>4, <2>6, <3>1, <3>4, <4>1, TaskKinds DEF TypeOK
      <4> QED
        BY <1>2, <2>4, <3>1, <3>2, <3>4, <4>1, <4>2, <4>3
    <3> QED
      BY <3>2, <3>3, <3>4
  <2> QED
    BY <2>5, <2>7 DEF Right, ReportsAreRight
<1> QED
  BY <1>3, <1>4

\* The first task goes, and a child it is about is settled.
LEMMA RightTail ==
    ASSUME Sound, Right, Skip \/ Dispatch
    PROVE  Right'
<1>1. TypeOK
  BY DEF Sound
<1>2. UNCHANGED << missed, asker, status >> /\ scheduled # << >> /\ scheduled' = Tail(scheduled)
  BY DEF Skip, Dispatch, kernel, history
<1>3. PICK n \in Nat : n = Len(scheduled)
  BY <1>1 DEF TypeOK
<1>4. /\ n # 0 /\ DOMAIN scheduled = 1 .. n /\ DOMAIN scheduled' = 1 .. n - 1
      /\ \A k \in 1 .. n - 1 : scheduled'[k] = scheduled[k + 1]
      /\ Head(scheduled) = scheduled[1]
  BY <1>1, <1>2, <1>3, Rest DEF TypeOK
<1>5. \A k \in 1 .. n - 1 : k + 1 \in 1 .. n /\ k + 1 # 1
  BY <1>3
<1>6. CASE settled' = settled
  <2>1. \A k \in DOMAIN scheduled' : scheduled'[k].what = "child" =>
            k + 1 \in DOMAIN scheduled /\ scheduled'[k] = scheduled[k + 1]
    BY <1>4, <1>5
  <2>2. DOMAIN scheduled' \subseteq Nat
    BY <1>3, <1>4
  <2> QED
    BY <1>2, <1>6, <2>1, <2>2, RightKept
<1>7. CASE settled' # settled
  <2>1. scheduled[1].what = "child" /\ settled' = settled \cup {scheduled[1].about}
    BY <1>4, <1>7 DEF Skip, Dispatch, history
  <2>2. 1 \in DOMAIN scheduled
    BY <1>3, <1>4
  <2>3. SettledReaped'
    BY <1>2, <2>1, <2>2 DEF Right, SettledReaped, ReportsAreRight
  <2>4. ASSUME missed' = {}, NEW k \in DOMAIN scheduled', scheduled'[k].what = "child",
               NEW c, c = scheduled'[k].about
        PROVE  /\ asker'[c] = scheduled'[k].to /\ status'[c] = "reaped" /\ c \notin settled'
               /\ \A l \in DOMAIN scheduled' :
                    scheduled'[l].what = "child" /\ scheduled'[l].about = c => l = k
    <3>1. k + 1 \in DOMAIN scheduled /\ k + 1 # 1 /\ scheduled'[k] = scheduled[k + 1]
      BY <1>4, <1>5
    <3>2. /\ asker[c] = scheduled[k + 1].to /\ status[c] = "reaped" /\ c \notin settled
          /\ \A l \in DOMAIN scheduled :
               scheduled[l].what = "child" /\ scheduled[l].about = c => l = k + 1
      BY <1>2, <2>4, <3>1 DEF Right, ReportsAreRight
    <3>3. c # scheduled[1].about
      BY <2>1, <2>2, <3>1, <3>2
    <3>4. ASSUME NEW l \in DOMAIN scheduled', scheduled'[l].what = "child",
                 scheduled'[l].about = c
          PROVE  l = k
      <4>1. l + 1 \in DOMAIN scheduled /\ scheduled'[l] = scheduled[l + 1]
        BY <1>4, <1>5
      <4>2. l + 1 = k + 1
        BY <3>2, <3>4, <4>1
      <4> QED
        BY <1>3, <1>4, <4>2
    <3> QED
      BY <1>2, <2>1, <3>1, <3>2, <3>3, <3>4
  <2> QED
    BY <2>3, <2>4 DEF Right, ReportsAreRight
<1> QED
  BY <1>6, <1>7

LEMMA RightLoop ==
    ASSUME Sound, Current, Right, LoopCode \/ PollOther \/ PollSignal
    PROVE  Right'
<1>1. CASE \/ GatherEmpty \/ Gather \/ ReapDone \/ ScanDone
           \/ PollOther \/ PollSignal \/ \E s \in Sig : Scan(s)
  <2>1. UNCHANGED << status, missed, settled, asker >>
    BY <1>1 DEF GatherEmpty, Gather, ReapDone, ScanDone, PollOther, PollSignal, Scan, kernel,
       history
  <2>2. \/ scheduled' = scheduled
        \/ scheduled' = << >>
        \/ \E e \in Live : scheduled' = << [to |-> e, what |-> "other"] >>
        \/ \E s \in Sig : \E q \in Broadcast(s) : scheduled' = scheduled \o q
    BY <1>1, ChildrenConstants DEF GatherEmpty, Gather, ReapDone, ScanDone, PollOther, PollSignal,
       Scan
  <2> QED
    BY <2>1, <2>2, RightSame
<1> QED
  BY <1>1, RightReap, RightTail DEF LoopCode

LEMMA RightStep ==
    ASSUME Sound, Current, Right, [Next]_vars
    PROVE  Right'
<1>1. CASE UNCHANGED vars
  BY <1>1, RightSame DEF vars, kernel, history
<1> QED
  BY <1>1, RightOutside, RightUser, RightLoop DEF Next

\* An exit goes to the event that asked for this very process, once, after it was
\* reaped, whoever else has its pid.
THEOREM ExitsGoToWhoAsked == Spec => []ReportsAreRight
<1>1. Right => ReportsAreRight
  BY DEF Right
<1> QED
  BY <1>1, SoundInit, SoundStep, CurrentInit, CurrentStep, RightInit, RightStep, PTL DEF Spec

-----------------------------------------------------------------------------
(* Pargs is one of the programs.                                           *)

LEMMA ProgramSteps == ProgramNext => [Next]_vars
<1> SUFFICES ASSUME ProgramNext PROVE [Next]_vars
  OBVIOUS
<1>1. CASE Next
  BY <1>1
<1>2. CASE PargsCode
  <2>1. CASE InsertRunner \/ RunLoop \/ Finish \/ RunnerReturns \/ RunnerFails
             \/ \E c \in Process : Start(c) \/ Track(c)
    <3>1. Insert \/ RunOne \/ DropLoop \/ Return(FALSE) \/ Return(Answer)
          \/ \E c \in Process : Spawn(c) \/ Child(c)
      BY <2>1 DEF InsertRunner, RunLoop, Finish, RunnerReturns, RunnerFails, Start, Track
    <3>2. Answer \in BOOLEAN /\ FALSE \in BOOLEAN
      BY DEF Answer
    <3> QED
      BY <3>1, <3>2 DEF Next, UserCode
  <2>2. CASE Callback \/ Empty \/ Loop \/ LoopFails
    BY <2>2 DEF Callback, Empty, Loop, LoopFails, Next, LoopCode
  <2>3. CASE TakeCommand \/ NoCommand \/ CommandFails
    BY <2>3 DEF TakeCommand, NoCommand, CommandFails
  <2> QED
    BY <1>2, <2>1, <2>2, <2>3 DEF PargsCode
<1>3. CASE (\E c \in Process : Exit(c)) \/ \E s \in Sig : Deliver(s)
  BY <1>3 DEF Next, Outside
<1> QED
  BY <1>1, <1>2, <1>3 DEF ProgramNext, PargsNext

\* Every step of examples/pargs.rs is a step of some program that uses the loop, or
\* none that the loop sees.
THEOREM PargsIsAProgram == ProgramSpec => Spec
<1>1. PargsInit => Init
  BY DEF PargsInit
<1>2. [ProgramNext]_allVars => [Next]_vars
  BY ProgramSteps DEF allVars, vars
<1> QED
  BY <1>1, <1>2, PTL DEF ProgramSpec, Spec

\* So what was proved holds while pargs runs.
THEOREM ProgramsAreServed ==
    ProgramSpec => [](TablesAgree /\ NoSleepingZombie /\ EntriesCurrent /\ ReportsAreRight)
BY PargsIsAProgram, ChildTablesAgree, ZombiesAreNoticed, TrackedPidsAreCurrent,
   ExitsGoToWhoAsked, PTL

-----------------------------------------------------------------------------
(* The work of pargs.  Its own steps keep more than Children promises: one *)
(* callback at a time, each Runner with one child, and as many Runners as  *)
(* there are jobs.                                                         *)

Base == Sound /\ Current /\ Right

Owned(c) == asker[c] # Nobody
Waits(c, e) == c \notin settled /\ asker[c] = e

\* A process that is started and not tracked yet
Fresh(c) == status[c] # "unborn" /\ asker[c] = Nobody

\* The Runner being called, until it has its next command
Idle(e) == calls # << >> /\ step # "keep" /\ e = Top

Depths ==
    /\ step \in {"main", "loop", "empty", "success", "failed"} => calls = << >>
    /\ step \in {"child", "run", "spawned", "keep", "leave"} => calls # << >>
    /\ Len(calls) <= 1

Reports(q) == \A k \in DOMAIN q : q[k].what = "child"
Quiet == missed = {} /\ (\A s \in Sig : recipients[s] = {}) /\ Reports(scheduled)

Askers == \A c \in Process : Owned(c) => asker[c] \in 0 .. born - 1 /\ status[c] # "unborn"

FreshOne ==
    /\ \A c \in Process : Fresh(c) => step = "spawned" /\ c \in Present
    /\ \A c, d \in Process : Fresh(c) /\ Fresh(d) => c = d

Single ==
    \A c, d \in Process :
        Owned(c) /\ c \notin settled /\ d \notin settled /\ asker[c] = asker[d] => c = d

Holders ==
    /\ \A e \in Live : IF Idle(e) THEN \A c \in Process : ~Waits(c, e)
                                  ELSE e \in holds /\ \E c \in Process : Waits(c, e)
    /\ step = "child" => Top \in holds

DeadDone == step # "failed" =>
    \A c \in Process : Owned(c) /\ c \notin settled => asker[c] \in Live

Quit ==
    /\ born <= jobs
    /\ step \notin {"failing", "failed"} => \A e \in 0 .. born - 1 : e \in Live \/ lines = 0
    /\ step = "leave" => lines = 0
    /\ step \in {"loop", "empty", "success"} => born >= jobs
    /\ step \in {"empty", "success"} => Live = {}

Working ==
    /\ Depths /\ Quiet /\ Askers /\ FreshOne
    /\ Single /\ Holders /\ DeadDone /\ Quit

OwnTypes ==
    /\ jobs \in 0 .. MaxEvents
    /\ lines \in 0 .. Cardinality(Process)
    /\ step \in Steps /\ holds \subseteq Event /\ errors \in BOOLEAN

LEMMA OneCall ==
    ASSUME calls = << >>, NEW e \in Event, calls' = Append(calls, e)
    PROVE  calls' # << >> /\ Len(calls') <= 1 /\ Top' = e /\ calls' \in Seq(Event)
BY DEF Top, Event

LEMMA LastReturn ==
    ASSUME Sound, Depths, calls # << >>, calls' = SubSeq(calls, 1, Len(calls) - 1)
    PROVE  calls' = << >>
<1>1. calls \in Seq(Event) /\ Len(calls) <= 1
  BY DEF Sound, TypeOK, Depths
<1>2. Len(calls) \in Nat \ {0} /\ calls' \in Seq(Event) /\ Len(calls') = Len(calls) - 1
  BY <1>1, Shorter
<1>3. Len(calls') = 0
  BY <1>1, <1>2
<1> QED
  BY <1>2, <1>3, EmptySeq

\* While nobody is waiting for signals, a broadcast is empty.
LEMMA NoBroadcast ==
    ASSUME Sound, Quiet, NEW s \in Sig, NEW q \in Broadcast(s)
    PROVE  q = << >>
<1>1. q \in Seq(Task) /\ recipients[s] = {}
  BY BroadcastIsTasks DEF Sound, Quiet
<1>2. Cardinality(recipients[s]) = 0
  BY <1>1, FS_EmptySet
<1>3. DOMAIN q = 1 .. Cardinality(recipients[s])
  BY DEF Broadcast
<1>4. DOMAIN q = 1 .. 0
  BY <1>2, <1>3
<1> QED
  BY <1>1, <1>4

\* Steps of the loop, of children and of signals, which leave the Runners alone
LEMMA WorkKept ==
    ASSUME Base, Working, UNCHANGED << own, jobs, calls, born, recipients, missed, asker, settled >>,
           Live' = Live, Reports(scheduled)',
           \A c \in Process : status'[c] = "unborn" <=> status[c] = "unborn",
           \A c \in Process : Fresh(c) => c \in Present'
    PROVE  Working'
<1> USE DEF Working
<1>1. UNCHANGED << step, holds, lines, Top >>
  BY DEF own, Top
<1>2. Depths' /\ Quiet'
  BY <1>1 DEF Depths, Quiet
<1>3. Askers' /\ Single'
  BY DEF Askers, Single, Owned
<1>4. FreshOne'
  BY <1>1 DEF FreshOne, Fresh
<1>5. Holders'
  BY <1>1 DEF Holders, Idle, Waits
<1>6. DeadDone' /\ Quit'
  BY <1>1 DEF DeadDone, Quit, Owned
<1> QED
  BY <1>2, <1>3, <1>4, <1>5, <1>6

LEMMA WorkOutside ==
    ASSUME Base, Working, UNCHANGED << own, jobs >>,
           (\E c \in Process : Exit(c)) \/ \E s \in Sig : Deliver(s)
    PROVE  Working'
<1>1. TypeOK
  BY DEF Base, Sound
<1>2. ASSUME NEW c \in Process, Exit(c)
      PROVE  Working'
  <2>1. /\ UNCHANGED << calls, born, recipients, missed, asker, settled, scheduled >>
        /\ Live' = Live /\ status' = [status EXCEPT ![c] = "zombie"] /\ status[c] = "running"
    BY <1>2 DEF Exit, signals, tables, Live
  <2>2. \A d \in Process : status'[d] = "unborn" <=> status[d] = "unborn"
    BY <1>1, <2>1 DEF TypeOK
  <2>3. \A d \in Process : Fresh(d) => d \in Present'
    BY <1>1, <2>1 DEF TypeOK, Working, FreshOne, Present
  <2>4. Reports(scheduled)'
    BY <2>1 DEF Working, Quiet, Reports
  <2> QED
    BY <2>1, <2>2, <2>3, <2>4, WorkKept
<1>3. ASSUME NEW s \in Sig, Deliver(s)
      PROVE  Working'
  <2>1. /\ UNCHANGED << status, calls, born, recipients, missed, asker, settled, scheduled >>
        /\ Live' = Live
    BY <1>3 DEF Deliver, tables, history, Live
  <2>2. Reports(scheduled)' /\ \A d \in Process : Fresh(d) => d \in Present'
    BY <2>1 DEF Working, Quiet, Reports, FreshOne, Present
  <2> QED
    BY <2>1, <2>2, WorkKept
<1> QED
  BY <1>2, <1>3

LEMMA WorkLoop ==
    ASSUME Base, Working, UNCHANGED << own, jobs >>, Loop
    PROVE  Working'
<1>1. /\ TypeOK /\ scheduled \in Seq(Task) /\ Reports(scheduled) /\ step = "loop"
      /\ \A c \in Process : ~Fresh(c)
  BY DEF Base, Sound, TypeOK, Working, Quiet, FreshOne, Loop
<1>2. CASE Skip
  <2>1. /\ UNCHANGED << status, calls, born, recipients, missed, asker, settled >>
        /\ Live' = Live /\ scheduled' = Tail(scheduled) /\ scheduled # << >>
    BY <1>2 DEF Skip, kernel, signals, tables, history, Live
  <2>2. Reports(scheduled)'
    <3>1. PICK n \in Nat : n = Len(scheduled)
      BY <1>1
    <3>2. /\ DOMAIN scheduled = 1 .. n /\ DOMAIN scheduled' = 1 .. n - 1
          /\ \A k \in 1 .. n - 1 : scheduled'[k] = scheduled[k + 1]
      BY <1>1, <2>1, <3>1, Rest
    <3>3. \A k \in 1 .. n - 1 : k + 1 \in 1 .. n
      BY <3>1
    <3> QED
      BY <1>1, <3>2, <3>3 DEF Reports
  <2> QED
    BY <1>1, <2>1, <2>2, WorkKept
<1>3. CASE \/ Gather \/ ScanDone \/ ReapDone \/ \E s \in Sig : Scan(s)
           \/ PollOther /\ scheduled' = scheduled /\ pc' = "run_one"
           \/ PollSignal /\ scheduled' = << >>
  <2>1. /\ UNCHANGED << status, calls, born, recipients, missed, asker, settled >>
        /\ Live' = Live
    BY <1>3 DEF Gather, ScanDone, PollOther, PollSignal, ReapDone, Scan, kernel, signals,
       tables, history, Live
  <2>2. \A s \in Sig : \A q \in Broadcast(s) : scheduled \o q = scheduled
    <3>1. \A s \in Sig : \A q \in Broadcast(s) : q = << >>
      BY NoBroadcast DEF Base, Working
    <3>2. scheduled \o << >> = scheduled
      BY <1>1
    <3> QED
      BY <3>1, <3>2
  <2>3. scheduled' = scheduled \/ scheduled' = << >>
    BY <1>3, <2>2, ChildrenConstants DEF Gather, ScanDone, ReapDone, Scan
  <2>4. Reports(scheduled)'
    BY <1>1, <2>3 DEF Reports
  <2> QED
    BY <1>1, <2>1, <2>4, WorkKept
<1>4. ASSUME NEW c \in Process, Reap(c)
      PROVE  Working'
  <2>1. /\ UNCHANGED << calls, born, recipients, missed, asker, settled >>
        /\ status' = [status EXCEPT ![c] = "reaped"] /\ status[c] = "zombie"
    BY <1>4 DEF Reap, Collected, signals, history
  <2>2. \A d \in Process : status'[d] = "unborn" <=> status[d] = "unborn"
    BY <1>1, <2>1 DEF TypeOK
  <2>3. Live' = Live
    BY <1>4, ReapCases DEF Base, tables, Live
  <2>4. Reports(scheduled)'
    <3>1. CASE scheduled' = scheduled
      BY <1>1, <3>1 DEF Reports
    <3>2. CASE scheduled' # scheduled
      <4>1. PICK task \in Task : task.what = "child" /\ scheduled' = Append(scheduled, task)
        <5>1. children[pid[c]] \in Event /\ pid[c] \in Pid
          BY <1>1, <1>4, <3>2, ReapCases DEF TypeOK, Base
        <5>2. [to |-> children[pid[c]], what |-> "child", pid |-> pid[c], about |-> c] \in Task
          BY <5>1, TasksAreTasks
        <5> QED
          BY <1>4, <3>2, <5>2, ReapCases DEF Base
      <4>2. PICK n \in Nat : n = Len(scheduled)
        BY <1>1
      <4>3. /\ DOMAIN scheduled = 1 .. n /\ DOMAIN scheduled' = 1 .. n + 1
            /\ \A k \in 1 .. n : scheduled'[k] = scheduled[k]
            /\ scheduled'[n + 1] = task
        BY <1>1, <4>1, <4>2, Longer
      <4>4. \A k \in 1 .. n + 1 : k \in 1 .. n \/ k = n + 1
        BY <4>2
      <4> QED
        BY <1>1, <4>1, <4>3, <4>4 DEF Reports
    <3> QED
      BY <3>1, <3>2
  <2> QED
    BY <1>1, <2>1, <2>2, <2>3, <2>4, WorkKept
<1> QED
  BY <1>2, <1>3, <1>4 DEF Loop

LEMMA WorkInsert ==
    ASSUME Base, Working, OwnTypes, InsertRunner, UNCHANGED jobs
    PROVE  Working'
<1>1. /\ Depths /\ Quiet /\ Askers /\ FreshOne /\ Single /\ Holders /\ DeadDone /\ Quit
      /\ TypeOK
  BY DEF Working, Base, Sound
<1>2. /\ UNCHANGED << lines, holds, status, recipients, scheduled, missed, asker, settled >>
      /\ step = "main" /\ step' = "run" /\ calls = << >> /\ Present' = Present
  BY <1>1 DEF InsertRunner, Insert, Goto, Same, kernel, signals, history, Depths, Present
<1>3. PICK n \in Nat : n = born
  BY <1>1 DEF TypeOK
<1>4. /\ born' = n + 1 /\ n + 1 <= jobs /\ calls' = Append(calls, n) /\ n \in Event
      /\ Live' = Live \cup {n}
  BY <1>3 DEF InsertRunner, Insert, NextGeneration, Missing, With, Live, OwnTypes, Event
<1>5. /\ calls' # << >> /\ Len(calls') <= 1 /\ Top' = n
      /\ \A e \in Live : e # n
      /\ \A c \in Process : asker[c] # n
      /\ \A e \in 0 .. n : e \in 0 .. n - 1 \/ e = n
  BY <1>1, <1>2, <1>3, <1>4, OneCall DEF Askers, Owned, TypeOK, Nobody
<1>6. Depths' /\ Quiet'
  BY <1>1, <1>2, <1>5 DEF Depths, Quiet, Reports
<1>7. Askers' /\ Single'
  BY <1>1, <1>2, <1>3, <1>4 DEF Askers, Single, Owned
<1>8. FreshOne'
  BY <1>1, <1>2 DEF FreshOne, Fresh
<1>9. Holders'
  BY <1>1, <1>2, <1>4, <1>5 DEF Holders, Idle, Waits
<1>10. DeadDone'
  BY <1>1, <1>2, <1>4 DEF DeadDone, Owned
<1>11. Quit'
  BY <1>1, <1>2, <1>3, <1>4, <1>5 DEF Quit
<1> QED
  BY <1>6, <1>7, <1>8, <1>9, <1>10, <1>11 DEF Working

\* Leaving main for the loop, the loop for main, and the end
LEMMA WorkTurn ==
    ASSUME Base, Working, OwnTypes, RunLoop \/ Empty \/ LoopFails \/ Finish, UNCHANGED jobs
    PROVE  Working'
<1>1. /\ Depths /\ Quiet /\ Askers /\ FreshOne /\ Single /\ Holders /\ DeadDone /\ Quit
      /\ TypeOK
  BY DEF Working, Base, Sound
<1>2. /\ UNCHANGED << lines, holds, status, born, calls, missed, asker, settled >>
      /\ Present' = Present /\ calls = << >> /\ step # "spawned" /\ step' # "spawned"
      /\ \A s \in Sig : recipients'[s] = {}
      /\ scheduled' = scheduled \/ scheduled' = << >>
      /\ step' \in {"loop", "empty", "failing", "success", "failed"}
  BY <1>1 DEF RunLoop, RunOne, Empty, GatherEmpty, LoopFails, PollOther, Finish, DropLoop,
     Goto, Same, kernel, signals,
     history, Depths, Quiet, Present
<1>3. Depths' /\ Quiet' /\ Askers' /\ Single' /\ FreshOne'
  BY <1>1, <1>2 DEF Depths, Quiet, Reports, Askers, Single, FreshOne, Fresh, Owned
<1>4. CASE RunLoop
  <2>1. Live' = Live /\ step = "main" /\ step' = "loop" /\ born >= jobs
    BY <1>1, <1>4 DEF RunLoop, RunOne, Goto, tables, Live, Missing, OwnTypes, TypeOK
  <2> QED
    BY <1>1, <1>2, <1>3, <2>1 DEF Working, Holders, Idle, Waits, DeadDone, Owned, Quit
<1>5. CASE Empty
  <2>1. Live' = {} /\ Live = {} /\ step = "loop" /\ step' = "empty"
    BY <1>5 DEF Empty, GatherEmpty, Goto, tables, Live
  <2> QED
    BY <1>1, <1>2, <1>3, <2>1 DEF Working, Holders, Idle, Waits, DeadDone, Owned, Quit
<1>6. CASE LoopFails
  <2>1. Live' = Live /\ step = "loop" /\ step' = "failing"
    BY <1>6 DEF LoopFails, PollOther, Goto, tables, Live
  <2> QED
    BY <1>1, <1>2, <1>3, <2>1 DEF Working, Holders, Idle, Waits, DeadDone, Owned, Quit
<1>7. CASE Finish
  <2>1. /\ Live' = {} /\ step \in {"empty", "failing"} /\ step' \in {"success", "failed"}
        /\ step = "failing" => step' = "failed"
        /\ step = "empty" => Live = {}
    BY <1>1, <1>7 DEF Finish, DropLoop, Goto, Live, Quit
  <2>2. Holders'
    BY <2>1 DEF Holders
  <2>3. DeadDone' /\ Quit'
    BY <1>1, <1>2, <2>1 DEF DeadDone, Owned, Quit
  <2> QED
    BY <1>3, <2>2, <2>3 DEF Working
<1> QED
  BY <1>4, <1>5, <1>6, <1>7

\* What is dispatched is the exit of the one child of its event.
LEMMA WorkCallback ==
    ASSUME Base, Working, OwnTypes, Callback, UNCHANGED jobs
    PROVE  Working'
<1>1. /\ Depths /\ Quiet /\ Askers /\ FreshOne /\ Single /\ Holders /\ DeadDone /\ Quit
      /\ TypeOK /\ scheduled \in Seq(Task) /\ ReportsAreRight
  BY DEF Working, Base, Sound, Right, TypeOK
<1>2. /\ UNCHANGED << lines, holds, status, born, recipients, missed, asker >>
      /\ Live' = Live /\ Present' = Present /\ calls = << >>
      /\ step = "loop" /\ step' = "child"
      /\ scheduled # << >> /\ scheduled' = Tail(scheduled) /\ Head(scheduled).to \in Live
  BY <1>1 DEF Callback, Dispatch, Goto, Same, kernel, signals, tables, Depths, Present, Live
<1>3. PICK e \in Event, c \in Process, n \in Nat :
          /\ n = Len(scheduled) /\ e = Head(scheduled).to /\ c = Head(scheduled).about
          /\ Head(scheduled).what = "child" /\ asker[c] = e /\ c \notin settled
  <2>1. Head(scheduled) \in Task /\ Head(scheduled) = scheduled[1] /\ 1 \in DOMAIN scheduled
        /\ Len(scheduled) \in Nat
    BY <1>1, <1>2, Rest
  <2>2. /\ scheduled[1].what = "child" /\ scheduled[1].about \in Process
        /\ scheduled[1].to \in Event
    BY <1>1, <2>1, TaskKinds DEF Quiet, Reports
  <2>3. /\ asker[scheduled[1].about] = scheduled[1].to
        /\ scheduled[1].about \notin settled
    BY <1>1, <2>1, <2>2 DEF ReportsAreRight, Quiet
  <2> QED
    BY <2>1, <2>2, <2>3
<1>4. /\ settled' = settled \cup {c} /\ e \in Live /\ calls' = Append(calls, e)
  BY <1>2, <1>3 DEF Callback, Dispatch, Called
<1>5. calls' # << >> /\ Len(calls') <= 1 /\ Top' = e
  BY <1>2, <1>4, OneCall
<1>6. \A d \in Process : Waits(d, e) => d = c
  BY <1>1, <1>3 DEF Single, Waits, Owned, Event, Nobody
<1>7. Reports(scheduled)'
  <2>1. /\ DOMAIN scheduled = 1 .. n /\ DOMAIN scheduled' = 1 .. n - 1
        /\ \A k \in 1 .. n - 1 : scheduled'[k] = scheduled[k + 1]
    BY <1>1, <1>2, <1>3, Rest
  <2>2. \A k \in 1 .. n - 1 : k + 1 \in 1 .. n
    BY <1>3
  <2> QED
    BY <1>1, <2>1, <2>2 DEF Quiet, Reports
<1>8. Depths' /\ Quiet'
  BY <1>1, <1>2, <1>5, <1>7 DEF Depths, Quiet
<1>9. Askers' /\ Single' /\ FreshOne'
  BY <1>1, <1>2, <1>4 DEF Askers, Single, FreshOne, Fresh, Owned
<1>10. Holders'
  <2>1. e \in holds
    BY <1>1, <1>2, <1>4 DEF Holders, Idle
  <2>2. \A d \in Process : ~Waits(d, e)'
    BY <1>2, <1>4, <1>6 DEF Waits
  <2>3. ASSUME NEW f \in Live, f # e
        PROVE  f \in holds /\ \E d \in Process : Waits(d, f)'
    <3>1. f \in holds /\ \E d \in Process : Waits(d, f)
      BY <1>1, <1>2, <2>3 DEF Holders, Idle
    <3> QED
      BY <1>2, <1>3, <1>4, <2>3, <3>1 DEF Waits
  <2> QED
    BY <1>2, <1>5, <2>1, <2>2, <2>3 DEF Holders, Idle, Waits
<1>11. DeadDone' /\ Quit'
  BY <1>1, <1>2, <1>4 DEF DeadDone, Owned, Quit
<1> QED
  BY <1>8, <1>9, <1>10, <1>11 DEF Working

\* A Runner takes its command, or finds that there is none, or none that starts.
LEMMA WorkCommand ==
    ASSUME Base, Working, OwnTypes, TakeCommand \/ NoCommand \/ CommandFails, UNCHANGED jobs
    PROVE  Working'
<1>1. /\ Depths /\ Quiet /\ Askers /\ FreshOne /\ Single /\ Holders /\ DeadDone /\ Quit
  BY DEF Working
<1>2. /\ UNCHANGED << status, born, calls, recipients, scheduled, missed, asker, settled >>
      /\ Live' = Live /\ Present' = Present /\ Top' = Top /\ calls # << >>
      /\ step \in {"child", "run"} /\ step' \in {"run", "leave", "failing"}
  BY <1>1 DEF TakeCommand, NoCommand, CommandFails, Goto, Depths, vars, kernel, signals, tables,
     history, Present, Live, Top
<1>3. /\ holds \subseteq holds' \cup {Top}
      /\ lines' = lines \/ (lines > 0 /\ step' = "failing")
      /\ step' = "leave" => lines' = 0
  BY DEF TakeCommand, NoCommand, CommandFails, Goto, Same
<1>4. Depths' /\ Quiet' /\ Askers' /\ Single' /\ FreshOne'
  BY <1>1, <1>2 DEF Depths, Quiet, Reports, Askers, Single, FreshOne, Fresh, Owned
<1>5. Holders'
  BY <1>1, <1>2, <1>3 DEF Holders, Idle, Waits
<1>6. DeadDone' /\ Quit'
  BY <1>1, <1>2, <1>3 DEF DeadDone, Owned, Quit
<1> QED
  BY <1>4, <1>5, <1>6 DEF Working

LEMMA WorkStart ==
    ASSUME Base, Working, OwnTypes, NEW c \in Process, Start(c), UNCHANGED jobs
    PROVE  Working'
<1>1. /\ Depths /\ Quiet /\ Askers /\ FreshOne /\ Single /\ Holders /\ DeadDone /\ Quit
      /\ TypeOK
  BY DEF Working, Base, Sound
<1>2. /\ UNCHANGED << holds, born, calls, recipients, scheduled, missed, asker, settled >>
      /\ Live' = Live /\ Top' = Top /\ calls # << >>
      /\ step = "run" /\ step' = "spawned" /\ lines > 0
      /\ status' = [status EXCEPT ![c] = "running"] /\ status[c] = "unborn"
  BY <1>1 DEF Start, Spawn, Fork, Goto, Depths, signals, tables, history, Live, Top
<1>3. /\ status'[c] = "running" /\ \A d \in Process : d # c => status'[d] = status[d]
      /\ asker[c] = Nobody /\ \A d \in Process : ~Fresh(d)
  BY <1>1, <1>2 DEF TypeOK, Askers, Owned, FreshOne
<1>4. Depths' /\ Quiet' /\ Askers' /\ Single'
  BY <1>1, <1>2, <1>3 DEF Depths, Quiet, Reports, Askers, Single, Owned
<1>5. FreshOne'
  <2>1. \A d \in Process : Fresh(d)' => d = c
    BY <1>2, <1>3 DEF Fresh
  <2> QED
    BY <1>2, <1>3, <2>1 DEF FreshOne, Present
<1>6. Holders'
  BY <1>1, <1>2 DEF Holders, Idle, Waits
<1>7. DeadDone' /\ Quit'
  BY <1>1, <1>2 DEF DeadDone, Owned, Quit, OwnTypes
<1> QED
  BY <1>4, <1>5, <1>6, <1>7 DEF Working

\* Tracking a child that was just started does not panic, and gives it to the Runner.
LEMMA WorkTrack ==
    ASSUME Base, Working, OwnTypes, NEW c \in Process, Track(c), UNCHANGED jobs
    PROVE  Working'
<1>1. /\ Depths /\ Quiet /\ Askers /\ FreshOne /\ Single /\ Holders /\ DeadDone /\ Quit
      /\ TypeOK
  BY DEF Working, Base, Sound
<1>2. /\ UNCHANGED << lines, status, born, calls, recipients, scheduled, settled >>
      /\ Present' = Present /\ Top' = Top /\ calls # << >>
      /\ step = "spawned" /\ step' = "keep" /\ holds' = holds \cup {Top}
      /\ Fresh(c) /\ c \in Present
  BY <1>1 DEF Track, Child, Goto, Fresh, FreshOne, InCallback, kernel, Present, Top
<1>3. missed' = {} /\ status[c] # "reaped" /\ status[c] # "unborn"
  BY <1>1, <1>2 DEF Track, Child, Quiet, Present
<1>4. Current'
  <2>1. Next
    BY DEF Track, Next, UserCode
  <2> QED
    BY <2>1, CurrentStep DEF Base
<1>5. pc' # "panic"
  BY <1>3, <1>4 DEF Current, EntriesCurrent
<1>6. /\ asker' = [asker EXCEPT ![c] = Top]
      /\ tracks' = [tracks EXCEPT ![Top] = @ \cup {pid[c]}]
  BY <1>5 DEF Track, Child
<1>7. Top \in Live /\ Top \in Event /\ Top # Nobody /\ Top \in 0 .. born - 1
  BY <1>1, <1>2, TopLives DEF Base, TypeOK, Event, Nobody
<1>8. Live' = Live /\ asker'[c] = Top /\ \A d \in Process : d # c => asker'[d] = asker[d]
  BY <1>1, <1>6 DEF Live, TypeOK
<1>9. \A d \in Process : ~Waits(d, Top)
  BY <1>1, <1>2, <1>7 DEF Holders, Idle
<1>10. c \notin settled
  BY <1>1, <1>3 DEF Base, Right, SettledReaped, Quiet
<1>11. Depths' /\ Quiet'
  BY <1>1, <1>2, <1>3 DEF Depths, Quiet, Reports
<1>12. Askers'
  BY <1>1, <1>2, <1>3, <1>7, <1>8 DEF Askers, Owned
<1>13. FreshOne'
  <2>1. \A d \in Process : ~Fresh(d)'
    BY <1>1, <1>2, <1>7, <1>8 DEF FreshOne, Fresh
  <2> QED
    BY <2>1 DEF FreshOne
<1>14. Single'
  BY <1>1, <1>2, <1>8, <1>9 DEF Single, Owned, Waits
<1>15. Holders'
  <2>1. Top \in holds' /\ Waits(c, Top)'
    BY <1>2, <1>8, <1>10 DEF Waits
  <2>2. ASSUME NEW e \in Live, e # Top
        PROVE  e \in holds' /\ \E d \in Process : Waits(d, e)'
    <3>1. e \in holds /\ \E d \in Process : Waits(d, e)
      BY <1>1, <2>2 DEF Holders, Idle
    <3>2. e # Nobody
      BY <1>1 DEF TypeOK, Nobody
    <3> QED
      BY <1>2, <1>8, <3>1, <3>2 DEF Waits, Fresh
  <2> QED
    BY <1>2, <1>8, <2>1, <2>2 DEF Holders, Idle, Waits
<1>16. DeadDone'
  BY <1>1, <1>2, <1>7, <1>8 DEF DeadDone, Owned
<1>17. Quit'
  BY <1>1, <1>2, <1>8 DEF Quit
<1> QED
  BY <1>11, <1>12, <1>13, <1>14, <1>15, <1>16, <1>17 DEF Working

\* A Runner is left alone with its child, or goes with none.
LEMMA WorkReturn ==
    ASSUME Base, Working, OwnTypes, RunnerReturns \/ RunnerFails, UNCHANGED jobs
    PROVE  Working'
<1>1. /\ Depths /\ Quiet /\ Askers /\ FreshOne /\ Single /\ Holders /\ DeadDone /\ Quit
      /\ TypeOK
  BY DEF Working, Base, Sound
<1>2. /\ UNCHANGED << lines, holds, status, born, scheduled, missed, asker, settled >>
      /\ Present' = Present /\ calls # << >>
      /\ calls' = SubSeq(calls, 1, Len(calls) - 1)
      /\ step \in {"keep", "leave", "failing"}
      /\ step' = IF step = "failing" THEN "failing" ELSE "main"
  BY DEF RunnerReturns, RunnerFails, Return, InCallback, Goto, Same, kernel, history, own, Present
<1>3. calls' = << >> /\ Top \in Live
  BY <1>1, <1>2, LastReturn, TopLives DEF Base
<1>4. \A s \in Sig : recipients'[s] = {}
  BY <1>1 DEF RunnerReturns, RunnerFails, Return, Kill, Quiet
<1>5. Depths' /\ Quiet' /\ Askers' /\ Single' /\ FreshOne'
  BY <1>1, <1>2, <1>3, <1>4 DEF Depths, Quiet, Reports, Askers, Single, FreshOne, Fresh, Owned
<1>6. CASE step = "keep"
  <2>1. Live' = Live
    BY <1>6 DEF RunnerReturns, RunnerFails, Return, Answer, tables, Live
  <2>2. Holders'
    BY <1>1, <1>2, <1>3, <1>6, <2>1 DEF Holders, Idle, Waits
  <2>3. DeadDone' /\ Quit'
    BY <1>1, <1>2, <1>6, <2>1 DEF DeadDone, Owned, Quit
  <2> QED
    BY <1>5, <2>2, <2>3 DEF Working
<1>7. CASE step # "keep"
  <2>1. Live' = Live \ {Top}
    BY <1>2, <1>7 DEF RunnerReturns, RunnerFails, Return, Answer, Kill, Without, Live
  <2>2. \A c \in Process : ~Waits(c, Top)
    BY <1>1, <1>2, <1>3, <1>7 DEF Holders, Idle
  <2>3. Holders'
    BY <1>1, <1>2, <1>3, <1>7, <2>1 DEF Holders, Idle, Waits
  <2>4. DeadDone'
    BY <1>1, <1>2, <1>7, <2>1, <2>2 DEF DeadDone, Owned, Waits
  <2>5. Quit'
    BY <1>1, <1>2, <1>7, <2>1 DEF Quit
  <2> QED
    BY <1>5, <2>3, <2>4, <2>5 DEF Working
<1> QED
  BY <1>6, <1>7

LEMMA WorkStep ==
    ASSUME Base, Working, OwnTypes, PargsNext, UNCHANGED jobs
    PROVE  Working'
<1>1. CASE (\E c \in Process : Exit(c) /\ UNCHANGED own) \/ \E s \in Sig : Deliver(s) /\ UNCHANGED own
  BY <1>1, WorkOutside
<1>2. CASE PargsCode
  <2>1. CASE Loop
    <3>1. UNCHANGED own
      BY <2>1 DEF Loop
    <3> QED
      BY <2>1, <3>1, WorkLoop
  <2> QED
    BY <1>2, <2>1, WorkInsert, WorkTurn, WorkCallback, WorkCommand, WorkStart, WorkTrack,
       WorkReturn DEF PargsCode
<1> QED
  BY <1>1, <1>2 DEF PargsNext

-----------------------------------------------------------------------------
(* Its state, and what follows from the above.                             *)

LEMMA OwnStep ==
    ASSUME Sound, OwnTypes, PargsNext, UNCHANGED jobs
    PROVE  OwnTypes'
<1>1. Cardinality(Process) \in Nat
  BY PargsConstants, FS_CardinalityType
<1>2. calls # << >> => Top \in Event
  BY TopLives
<1>3. CASE UNCHANGED own
  BY <1>3 DEF own, OwnTypes
<1>4. CASE InsertRunner \/ RunLoop \/ Callback \/ Empty \/ LoopFails \/ Finish \/ NoCommand \/ RunnerReturns
  BY <1>4 DEF InsertRunner, RunLoop, Callback, Empty, LoopFails, Finish, NoCommand, RunnerReturns, Goto,
     Same, OwnTypes, Steps
<1>5. CASE TakeCommand \/ CommandFails \/ \E c \in Process : Start(c)
  BY <1>1, <1>5 DEF TakeCommand, CommandFails, Start, Goto, OwnTypes, Steps
<1>6. CASE \E c \in Process : Track(c)
  BY <1>2, <1>6 DEF Track, Child, InCallback, Goto, OwnTypes, Steps
<1> QED
  BY <1>3, <1>4, <1>5, <1>6 DEF PargsNext, PargsCode, Loop, RunnerFails

\* The invariant of the program, which any program is spared
ProgramInv ==
    /\ Base /\ OwnTypes /\ program \in {"pargs", "any"}
    /\ IF Any THEN step = "main" ELSE Working

LEMMA ProgramInit == PargsInit => ProgramInv
<1> SUFFICES ASSUME PargsInit PROVE ProgramInv
  OBVIOUS
<1>1. Init /\ step = "main" /\ program \in {"pargs", "any"} /\ jobs \in Nat
  BY ChildrenConstants DEF PargsInit
<1>2. Base
  BY <1>1, SoundInit, CurrentInit, RightInit DEF Base
<1>3. OwnTypes
  <2>1. Cardinality(Process) \in Nat
    BY PargsConstants, FS_CardinalityType
  <2>2. jobs \in 0 .. MaxEvents /\ lines \in 0 .. Cardinality(Process)
    BY <2>1, ChildrenConstants DEF PargsInit
  <2>3. step \in Steps /\ holds \subseteq Event
    BY DEF PargsInit, Steps
  <2>4. errors \in BOOLEAN
    BY DEF PargsInit
  <2> QED
    BY <2>2, <2>3, <2>4 DEF OwnTypes
<1>4. Working
  <2>1. /\ calls = << >> /\ missed = {} /\ scheduled = << >> /\ born = 0 /\ Live = {}
        /\ \A s \in Sig : recipients[s] = {}
        /\ \A c \in Process : asker[c] = Nobody /\ status[c] = "unborn"
    BY <1>1 DEF Init, Live
  <2>2. Depths /\ Quiet /\ Askers /\ FreshOne
    BY <1>1, <2>1 DEF Depths, Quiet, Reports, Askers, FreshOne, Fresh, Owned
  <2>3. Single /\ Holders /\ DeadDone /\ Quit
    BY <1>1, <2>1 DEF Single, Holders, DeadDone, Quit, Owned
  <2> QED
    BY <2>2, <2>3 DEF Working
<1> QED
  BY <1>1, <1>2, <1>3, <1>4 DEF ProgramInv

LEMMA ProgramStep == ProgramInv /\ [ProgramNext]_allVars => ProgramInv'
<1> SUFFICES ASSUME ProgramInv, [ProgramNext]_allVars PROVE ProgramInv'
  OBVIOUS
<1>1. /\ Base /\ OwnTypes /\ program \in {"pargs", "any"}
      /\ (Any => step = "main") /\ (~Any => Working)
  BY DEF ProgramInv
<1>2. [Next]_vars
  BY ProgramSteps DEF allVars
<1>3. Base'
  BY <1>1, <1>2, SoundStep, CurrentStep, RightStep DEF Base
<1>4. UNCHANGED << program, jobs >>
  BY DEF ProgramNext, allVars
<1>5. CASE Any
  <2>1. UNCHANGED own
    BY <1>5 DEF ProgramNext, Any, allVars
  <2> QED
    BY <1>1, <1>3, <1>4, <1>5, <2>1 DEF ProgramInv, OwnTypes, own, Any
<1>6. CASE ~Any /\ PargsNext
  BY <1>1, <1>3, <1>4, <1>6, WorkStep, OwnStep DEF ProgramInv, Any, Base
<1>7. CASE ~Any /\ UNCHANGED allVars
  <2>1. /\ UNCHANGED << own, calls, born, recipients, missed, asker, settled, status, scheduled >>
        /\ Live' = Live
    BY <1>7 DEF allVars, vars, kernel, signals, tables, history, Live
  <2>2. Reports(scheduled)' /\ \A c \in Process : Fresh(c) => c \in Present'
    BY <1>1, <1>7, <2>1 DEF Working, Quiet, Reports, FreshOne, Present
  <2>3. Working'
    BY <1>1, <1>4, <1>7, <2>1, <2>2, WorkKept
  <2> QED
    BY <1>1, <1>3, <1>4, <1>7, <2>1, <2>3 DEF ProgramInv, OwnTypes, own, Any
<1> QED
  BY <1>4, <1>5, <1>6, <1>7 DEF ProgramNext, Any

\* The state of pargs is well formed, whatever the number of jobs and of commands.
THEOREM PargsTypeCorrect == ProgramSpec => []PargsTypeOK
<1>1. ProgramInv => PargsTypeOK
  BY DEF ProgramInv, Base, Sound, OwnTypes, PargsTypeOK
<1> QED
  BY <1>1, ProgramInit, ProgramStep, PTL DEF ProgramSpec

\* There are no more commands at a time than Runners.
LEMMA FewPresent ==
    ASSUME Base, Working, jobs \in Nat
    PROVE  Cardinality(Present) <= jobs
<1>1. /\ Depths /\ Quiet /\ Askers /\ FreshOne /\ Single /\ Holders /\ Quit
      /\ TypeOK /\ SettledReaped
  BY DEF Working, Base, Sound, Right
<1>2. \A c \in Present : c \in Process /\ c \notin settled /\ status[c] # "unborn"
  BY <1>1 DEF Present, SettledReaped, Quiet
<1> DEFINE Owner == [c \in Present |-> IF Owned(c) THEN asker[c] ELSE Top]
<1>3. \A c \in Present : ~Owned(c) =>
          /\ Fresh(c) /\ Top \in 0 .. born - 1 /\ \A d \in Process : ~Waits(d, Top)
  <2> SUFFICES ASSUME NEW c \in Present, ~Owned(c)
               PROVE  /\ Fresh(c) /\ Top \in 0 .. born - 1 /\ \A d \in Process : ~Waits(d, Top)
    OBVIOUS
  <2>1. Fresh(c) /\ step = "spawned" /\ calls # << >>
    BY <1>1, <1>2 DEF Fresh, Owned, FreshOne, Depths
  <2>2. Top \in Live
    BY <2>1, TopLives DEF Base
  <2> QED
    BY <1>1, <2>1, <2>2 DEF TypeOK, Holders, Idle
<1>4. Owner \in [Present -> 0 .. born - 1]
  BY <1>1, <1>2, <1>3 DEF Askers
<1>5. \A c, d \in Present : Owner[c] = Owner[d] => c = d
  BY <1>1, <1>2, <1>3 DEF FreshOne, Single, Waits
<1>6. born \in Nat /\ born <= jobs
  BY <1>1 DEF TypeOK, Quit
<1>7. IsFiniteSet(0 .. born - 1) /\ Cardinality(0 .. born - 1) = born
  <2>1. 0 \in Int /\ born - 1 \in Int
    BY <1>6
  <2>2. IsFiniteSet(0 .. born - 1) /\ Cardinality(0 .. born - 1) =
            (IF 0 > born - 1 THEN 0 ELSE born - 1 - 0 + 1)
    BY <2>1, FS_Interval
  <2> QED
    BY <1>6, <2>2
<1> HIDE DEF Owner
<1>8. Owner \in Injection(Present, 0 .. born - 1)
  BY <1>4, <1>5 DEF Injection, IsInjective
<1>9. IsFiniteSet(Present) /\ Cardinality(Present) <= Cardinality(0 .. born - 1)
  BY <1>7, <1>8, FS_Injection
<1>10. Cardinality(Present) \in Nat
  BY <1>9, FS_CardinalityType
<1> QED
  BY <1>6, <1>7, <1>9, <1>10

\* A Runner that is not being called has one child it was not told of and the command
\* of it, whichever children end and in whatever order, and children are never more
\* than jobs.
THEOREM RunnersHaveOneCommand == ProgramSpec => []RunnersBusy
<1>1. ProgramInv => RunnersBusy
  <2> SUFFICES ASSUME ProgramInv, ~Any PROVE RunnersBusy
    BY DEF RunnersBusy
  <2>1. Base /\ Working /\ jobs \in Nat /\ TypeOK
    BY ChildrenConstants DEF ProgramInv, OwnTypes, Base, Sound
  <2>2. Cardinality(Present) <= jobs
    BY <2>1, FewPresent
  <2>3. step = "child" => Top \in holds
    BY <2>1 DEF Working, Holders
  <2>4. ASSUME NEW e \in Live \ Called
        PROVE  e \in holds /\ Cardinality({c \in Process \ settled : asker[c] = e}) = 1
    <3>1. ~Idle(e)
      <4>1. calls # << >> => Top \in Called
        <5>1. calls # << >> => Len(calls) \in 1 .. Len(calls)
          BY <2>1, Shorter DEF TypeOK
        <5> QED
          BY <5>1 DEF Called, Top
      <4> QED
        BY <2>4, <4>1 DEF Idle
    <3>2. PICK c \in Process : Waits(c, e)
      BY <2>1, <3>1 DEF Working, Holders
    <3>3. e \in holds /\ e # Nobody
      BY <2>1, <3>1 DEF Working, Holders, TypeOK, Nobody
    <3>4. {d \in Process \ settled : asker[d] = e} = {c}
      BY <2>1, <3>2, <3>3 DEF Working, Single, Waits, Owned
    <3>5. Cardinality({c}) = 1
      BY FS_Singleton
    <3>6. Cardinality({d \in Process \ settled : asker[d] = e}) = 1
      BY <3>4, <3>5, Zenon
    <3> QED
      BY <3>3, <3>6
  <2> QED
    BY <2>2, <2>3, <2>4 DEF RunnersBusy
<1> QED
  BY <1>1, ProgramInit, ProgramStep, PTL DEF ProgramSpec

\* When pargs says that it succeeded, it read all the commands, and all that it started
\* ended and were reported to it.
THEOREM SuccessIsDone == ProgramSpec => []SuccessMeansDone
<1>1. ProgramInv => SuccessMeansDone
  <2> SUFFICES ASSUME ProgramInv, step = "success", jobs > 0
               PROVE  /\ lines = 0
                      /\ \A c \in Process :
                           status[c] # "unborn" => status[c] = "reaped" /\ c \in settled
    BY DEF SuccessMeansDone
  <2>1. /\ Base /\ Working /\ TypeOK /\ jobs \in Nat
        /\ Quiet /\ FreshOne /\ DeadDone /\ Quit /\ SettledReaped
    BY ChildrenConstants DEF ProgramInv, OwnTypes, Base, Sound, Right, Working
  <2>2. Live = {} /\ born >= jobs /\ born \in Nat
    BY <2>1 DEF Quit, TypeOK
  <2>3. lines = 0
    <3>1. 0 \in 0 .. born - 1
      BY <2>1, <2>2
    <3> QED
      BY <2>1, <2>2, <3>1 DEF Quit
  <2>4. \A c \in Process : status[c] # "unborn" => c \in settled
    BY <2>1, <2>2 DEF FreshOne, Fresh, DeadDone, Owned
  <2> QED
    BY <2>1, <2>3, <2>4 DEF SettledReaped, Quiet
<1> QED
  BY <1>1, ProgramInit, ProgramStep, PTL DEF ProgramSpec

=============================================================================
