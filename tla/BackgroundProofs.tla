-------------------------- MODULE BackgroundProofs --------------------------
(***************************************************************************)
(* Proofs about Background, for any tasks, threads, values, events and     *)
(* frames: that the results of each task reach its event as ResultStreams  *)
(* says.  The invariant tells what of them is under way, in the channel or *)
(* in the queue: the values that were not handed over yet, in their order, *)
(* and behind them the answer, once it was sent.                           *)
(***************************************************************************)
EXTENDS Background, TLAPS

\* The tasks in a queue.
In(s) == {s[i] : i \in 1 .. Len(s)}
UnderWay == In(scheduled) \cup In(inbox)

\* Task a may be before task b: of one job, values come in order and before the answer.
Precedes(a, b) ==
    IsResult(a) /\ a.job = b.job => IsItem(a) /\ (IsItem(b) => a.item < b.item)
Sorted(s) == \A i, k \in 1 .. Len(s) : i < k => Precedes(s[i], s[k])
Lines ==
    /\ Sorted(scheduled) /\ Sorted(inbox)
    /\ \A a \in In(scheduled), b \in In(inbox) : Precedes(a, b)

\* The thread of job j sent its answer, or will not send any.
Answered(j) == at[j] \in {"sent", "over"} \/ (at[j] = "leaving" /\ j \in complete)

\* What a result under way says is still to be told.
ItemFits(l) == kind[l.job] = "iter" /\ l.item \in Len(given[l.job]) + 1 .. items[l.job]
AnswerFits(l) ==
    /\ l.data \in Streams!Final(kind[l.job])
    /\ Answered(l.job)
    /\ l.data = "error" => items[l.job] = 0
Fits(l) ==
    /\ answers[l.job] = << >>
    /\ IsItem(l) => ItemFits(l)
    /\ ~IsItem(l) => AnswerFits(l)
Letters == \A l \in UnderWay : IsResult(l) => Fits(l)

\* Queue s has value n of job j.
Carries(s, j, n) == \E l \in In(s) : IsResult(l) /\ l.job = j /\ IsItem(l) /\ l.item = n

Life(j) ==
    /\ kind[j] = "none" <=> at[j] = "none"
    /\ at[j] \in {"none", "queued", "function", "sent"} => j \notin complete
    /\ at[j] \in {"none", "queued", "function"} \/ kind[j] = "one" => items[j] = 0
    /\ at[j] = "iterator" => kind[j] = "iter"
    /\ at[j] \in {"sent", "leaving"} => kind[j] = "one"

Handed(j) ==
    /\ Len(given[j]) <= items[j]
    /\ ~Answered(j) => answers[j] = << >>
    /\ ~gone => \A n \in Len(given[j]) + 1 .. items[j] :
                    Carries(scheduled, j, n) \/ Carries(inbox, j, n)

\* A job waits once, to be started.
WaitsOnce ==
    /\ \A i \in 1 .. Len(waiting) : at[waiting[i]] = "queued"
    /\ \A i, k \in 1 .. Len(waiting) : waiting[i] = waiting[k] => i = k

Control ==
    /\ gone => pc = "user" /\ scheduled = << >> /\ inbox = << >>
    /\ pc = "poll" => scheduled = << >>

IInv ==
    /\ TypeOK
    /\ Lines
    /\ Letters
    /\ \A j \in Job : Life(j)
    /\ \A j \in Job : Handed(j)
    /\ WaitsOnce
    /\ Control

\* A result under way is addressed to the event that asked for it.
Addressed == \A l \in UnderWay : IsResult(l) => l.to = requestor[l.job]

-----------------------------------------------------------------------------
(* Queues.                                                                 *)

LEMMA Longer ==
    ASSUME NEW S, NEW s \in Seq(S), NEW x \in S
    PROVE  /\ Append(s, x) \in Seq(S)
           /\ Len(Append(s, x)) = Len(s) + 1 /\ Len(s) \in Nat
           /\ \A i \in 1 .. Len(s) : Append(s, x)[i] = s[i]
           /\ Append(s, x)[Len(s) + 1] = x
OBVIOUS

LEMMA Rest ==
    ASSUME NEW S, NEW s \in Seq(S), s # << >>
    PROVE  /\ Tail(s) \in Seq(S) /\ Len(s) \in Nat \ {0} /\ Len(Tail(s)) = Len(s) - 1
           /\ \A i \in 1 .. Len(Tail(s)) : Tail(s)[i] = s[i + 1]
           /\ Head(s) = s[1] /\ s[1] \in S
OBVIOUS

LEMMA Shorter ==
    ASSUME NEW S, NEW s \in Seq(S), s # << >>
    PROVE  SubSeq(s, 1, Len(s) - 1) \in Seq(S) /\ s[Len(s)] \in S
<1>1. Len(s) \in Nat \ {0}
  OBVIOUS
<1>2. PICK n \in Nat : n + 1 = Len(s)
  BY <1>1
<1>3. SubSeq(s, 1, n) = [i \in 1 .. n |-> s[i]]
  BY <1>2
<1>4. SubSeq(s, 1, n) \in Seq(S)
  BY <1>2, <1>3
<1>5. n = Len(s) - 1 /\ Len(s) \in 1 .. Len(s)
  BY <1>2
<1> QED BY <1>4, <1>5

\* What is in a queue has the type of its elements.
LEMMA InType ==
    ASSUME NEW S, NEW s \in Seq(S)
    PROVE  \A x \in In(s) : x \in S
BY DEF In

LEMMA InEmpty == In(<< >>) = {}
BY DEF In

LEMMA InLonger ==
    ASSUME NEW S, NEW s \in Seq(S), NEW x \in S
    PROVE  \A y : y \in In(Append(s, x)) <=> y \in In(s) \/ y = x
<1> DEFINE t == Append(s, x)
<1>1. /\ Len(t) = Len(s) + 1 /\ Len(s) \in Nat
      /\ \A i \in 1 .. Len(s) : t[i] = s[i]
      /\ t[Len(s) + 1] = x
  BY Longer
<1> HIDE DEF t
<1>2. ASSUME NEW y, y \in In(t) PROVE y \in In(s) \/ y = x
  <2>1. PICK i \in 1 .. Len(t) : t[i] = y
    BY <1>2 DEF In
  <2>2. i \in 1 .. Len(s) \/ i = Len(s) + 1
    BY <1>1
  <2> QED BY <1>1, <2>1, <2>2 DEF In
<1>3. ASSUME NEW y, y \in In(s) \/ y = x PROVE y \in In(t)
  <2>1. /\ \A i \in 1 .. Len(s) : i \in 1 .. Len(t)
        /\ Len(s) + 1 \in 1 .. Len(t)
    BY <1>1
  <2> QED BY <1>1, <1>3, <2>1 DEF In
<1>4. \A y : y \in In(t) <=> y \in In(s) \/ y = x
  BY <1>2, <1>3
<1> QED BY <1>4 DEF t

LEMMA InRest ==
    ASSUME NEW S, NEW s \in Seq(S), s # << >>
    PROVE  \A y : y \in In(s) <=> y \in In(Tail(s)) \/ y = Head(s)
<1> DEFINE t == Tail(s)
           h == Head(s)
<1>1. /\ Len(s) \in Nat \ {0} /\ Len(t) = Len(s) - 1
      /\ \A i \in 1 .. Len(t) : t[i] = s[i + 1]
      /\ h = s[1]
  BY Rest
<1> HIDE DEF t, h
<1>2. ASSUME NEW y, y \in In(s) PROVE y \in In(t) \/ y = h
  <2>1. PICK i \in 1 .. Len(s) : s[i] = y
    BY <1>2 DEF In
  <2>2. CASE i = 1
    BY <1>1, <2>1, <2>2
  <2>3. CASE i # 1
    <3>1. i - 1 \in 1 .. Len(t) /\ (i - 1) + 1 = i
      BY <1>1, <2>3
    <3>2. t[i - 1] = y
      BY <1>1, <2>1, <3>1
    <3> QED BY <3>1, <3>2 DEF In
  <2> QED BY <2>2, <2>3
<1>3. ASSUME NEW y, y \in In(t) PROVE y \in In(s)
  <2>1. PICK i \in 1 .. Len(t) : t[i] = y
    BY <1>3 DEF In
  <2>2. i + 1 \in 1 .. Len(s) /\ s[i + 1] = y
    BY <1>1, <2>1
  <2> QED BY <2>2 DEF In
<1>4. h \in In(s)
  <2>1. 1 \in 1 .. Len(s)
    BY <1>1
  <2> QED BY <1>1, <2>1 DEF In
<1>5. \A y : y \in In(s) <=> y \in In(t) \/ y = h
  BY <1>2, <1>3, <1>4
<1> QED BY <1>5 DEF t, h

LEMMA SortedLonger ==
    ASSUME NEW S, NEW s \in Seq(S), NEW x \in S, Sorted(s),
           \A a \in In(s) : Precedes(a, x)
    PROVE  Sorted(Append(s, x))
<1> DEFINE t == Append(s, x)
<1>1. /\ Len(t) = Len(s) + 1 /\ Len(s) \in Nat
      /\ \A i \in 1 .. Len(s) : t[i] = s[i]
      /\ t[Len(s) + 1] = x
  BY Longer
<1> HIDE DEF t
<1>2. ASSUME NEW i \in 1 .. Len(t), NEW k \in 1 .. Len(t), i < k
      PROVE  Precedes(t[i], t[k])
  <2>1. i \in 1 .. Len(s) /\ (k \in 1 .. Len(s) \/ k = Len(s) + 1)
    BY <1>1, <1>2
  <2>2. s[i] \in In(s) /\ t[i] = s[i]
    BY <1>1, <2>1 DEF In
  <2>3. CASE k \in 1 .. Len(s)
    <3>1. Precedes(s[i], s[k])
      BY <1>2, <2>1, <2>3 DEF Sorted
    <3> QED BY <1>1, <2>2, <2>3, <3>1
  <2>4. CASE k = Len(s) + 1
    BY <1>1, <2>2, <2>4
  <2> QED BY <2>1, <2>3, <2>4
<1>3. Sorted(t)
  BY <1>2 DEF Sorted
<1> QED BY <1>3 DEF t

LEMMA SortedRest ==
    ASSUME NEW S, NEW s \in Seq(S), s # << >>, Sorted(s)
    PROVE  Sorted(Tail(s)) /\ \A b \in In(Tail(s)) : Precedes(Head(s), b)
<1> DEFINE t == Tail(s)
           h == Head(s)
<1>1. /\ Len(s) \in Nat \ {0} /\ Len(t) = Len(s) - 1
      /\ \A i \in 1 .. Len(t) : t[i] = s[i + 1]
      /\ h = s[1]
  BY Rest
<1> HIDE DEF t, h
<1>2. ASSUME NEW i \in 1 .. Len(t), NEW k \in 1 .. Len(t), i < k
      PROVE  Precedes(t[i], t[k])
  <2>1. i + 1 \in 1 .. Len(s) /\ k + 1 \in 1 .. Len(s) /\ i + 1 < k + 1
    BY <1>1, <1>2
  <2>2. Precedes(s[i + 1], s[k + 1])
    BY <2>1 DEF Sorted
  <2> QED BY <1>1, <2>2
<1>3. ASSUME NEW b \in In(t) PROVE Precedes(h, b)
  <2>1. PICK i \in 1 .. Len(t) : t[i] = b
    BY DEF In
  <2>2. 1 \in 1 .. Len(s) /\ i + 1 \in 1 .. Len(s) /\ 1 < i + 1
    BY <1>1
  <2>3. Precedes(s[1], s[i + 1])
    BY <2>2 DEF Sorted
  <2> QED BY <1>1, <2>1, <2>3
<1>4. Sorted(t) /\ \A b \in In(t) : Precedes(h, b)
  BY <1>2, <1>3 DEF Sorted
<1> QED BY <1>4 DEF t, h

LEMMA SortedEmpty == Sorted(<< >>)
BY DEF Sorted

-----------------------------------------------------------------------------
(* Types.                                                                  *)

LEMMA TaskFacts ==
    ASSUME NEW task \in Task
    PROVE  /\ task.to \in Event
           /\ IsResult(task) =>
                task \in Letter /\ task.job \in Job /\ task.data \in Data /\ task.item \in Nat
BY DEF Task, Letter, IsResult, NoJob

LEMMA LetterFacts ==
    ASSUME NEW l \in Letter
    PROVE  l \in Task /\ IsResult(l) /\ l.job \in Job /\ l.data \in Data /\ l.item \in Nat
BY BackgroundConstants DEF Task, Letter, IsResult, NoJob

LEMMA OtherTaskFacts ==
    ASSUME NEW e \in Event
    PROVE  OtherTask(e) \in Task /\ ~IsResult(OtherTask(e))
BY DEF Task, OtherTask, IsResult, NoJob

\* Tasks that are not results may be in the queue when the poll ends.
LEMMA OthersFacts ==
    ASSUME NEW s \in Others, live \subseteq Event
    PROVE  s \in Seq(Task) /\ Sorted(s) /\ \A x \in In(s) : ~IsResult(x)
<1>1. CASE s = << >>
  BY <1>1, InEmpty, SortedEmpty
<1>2. ASSUME NEW e \in live, s = << OtherTask(e) >> PROVE s \in Seq(Task) /\ Sorted(s) /\ \A x \in In(s) : ~IsResult(x)
  <2> DEFINE o == OtherTask(e)
  <2>1. o \in Task /\ ~IsResult(o)
    BY OtherTaskFacts
  <2> HIDE DEF o
  <2>2. << o >> \in Seq(Task) /\ Len(<< o >>) = 1 /\ << o >>[1] = o
    BY <2>1
  <2>3. Sorted(<< o >>)
    BY <2>2 DEF Sorted
  <2>4. \A x \in In(<< o >>) : x = o
    BY <2>2 DEF In
  <2> QED BY <1>2, <2>1, <2>2, <2>3, <2>4 DEF o
<1> QED BY <1>1, <1>2 DEF Others

LEMMA PostType ==
    ASSUME TypeOK, NEW j \in Job, NEW data \in Data, NEW item \in Nat, Post(j, data, item)
    PROVE  inbox' \in Seq(Letter)
<1> DEFINE l == [to |-> requestor[j], job |-> j, data |-> data, item |-> item]
<1>1. l \in Letter
  BY DEF TypeOK, Letter
<1>2. inbox' = inbox \/ inbox' = Append(inbox, l)
  BY DEF Post
<1>3. inbox \in Seq(Letter)
  BY DEF TypeOK
<1> HIDE DEF l
<1> QED BY <1>1, <1>2, <1>3, Longer

\* A task leaves the queue: its event gets it, or it is lost.
Takes == Take /\ \E n \in Nat, a \in Outcome : Record(Head(scheduled), n, a)

LEMMA LoopTakes ==
    ASSUME TypeOK, Skip \/ Busy \/ Dispatch
    PROVE  Takes
<1> DEFINE h == Head(scheduled)
<1>1. Take /\ h \in Task
  BY Rest DEF Skip, Busy, Dispatch, Take, TypeOK
<1>2. HandOver(h) \/ Lose(h)
  BY DEF Skip, Busy, Dispatch
<1> HIDE DEF h
<1>3. NoValue \in Nat /\ "lost" \in Outcome
  BY DEF NoValue, Outcome
<1>4. CASE Lose(h)
  BY <1>1, <1>3, <1>4 DEF Lose, Takes, h
<1>5. CASE HandOver(h) /\ IsResult(h) /\ IsItem(h)
  <2>1. h.item \in Nat
    BY <1>1, <1>5, TaskFacts
  <2>2. Record(h, h.item, "lost")
    BY <1>5 DEF HandOver, Record
  <2> QED BY <1>1, <1>3, <2>1, <2>2 DEF Takes, h
<1>6. CASE HandOver(h) /\ IsResult(h) /\ ~IsItem(h)
  <2>1. h.data \in Outcome
    BY <1>1, <1>6, TaskFacts DEF Outcome, IsItem
  <2>2. Record(h, NoValue, h.data)
    BY <1>6 DEF HandOver, Record
  <2> QED BY <1>1, <1>3, <2>1, <2>2 DEF Takes, h
<1>7. CASE HandOver(h) /\ ~IsResult(h)
  <2>1. Record(h, NoValue, "lost")
    BY <1>7 DEF HandOver, Record
  <2> QED BY <1>1, <1>3, <2>1 DEF Takes, h
<1> QED BY <1>2, <1>4, <1>5, <1>6, <1>7

LEMMA TakeType ==
    ASSUME TypeOK, Takes
    PROVE  /\ scheduled' \in Seq(Task)
           /\ given' \in [Job -> Seq(Nat)] /\ answers' \in [Job -> Seq(Outcome)]
           /\ Head(scheduled).to \in Event
<1> DEFINE h == Head(scheduled)
<1>1. scheduled \in Seq(Task) /\ scheduled # << >>
  BY DEF TypeOK, Takes, Take
<1>2. h \in Task /\ Tail(scheduled) \in Seq(Task)
  BY <1>1, Rest
<1>3. scheduled' = Tail(scheduled) /\ \E n \in Nat, a \in Outcome : Record(h, n, a)
  BY DEF Takes, Take
<1>9. PICK n \in Nat, a \in Outcome : Record(h, n, a)
  BY <1>3
<1> HIDE DEF h
<1>4. given \in [Job -> Seq(Nat)] /\ answers \in [Job -> Seq(Outcome)]
  BY DEF TypeOK
<1>5. given' \in [Job -> Seq(Nat)]
  <2>1. CASE IsResult(h) /\ IsItem(h) /\ given' = [given EXCEPT ![h.job] = Append(@, n)]
    BY <1>2, <1>4, <2>1, TaskFacts, Longer
  <2> QED BY <1>9, <1>4, <2>1 DEF Record, handed
<1>6. answers' \in [Job -> Seq(Outcome)]
  <2>1. CASE IsResult(h) /\ ~IsItem(h) /\ answers' = [answers EXCEPT ![h.job] = Append(@, a)]
    BY <1>2, <1>4, <2>1, TaskFacts, Longer
  <2> QED BY <1>9, <1>4, <2>1 DEF Record, handed
<1> QED BY <1>2, <1>3, <1>5, <1>6, TaskFacts DEF h

LEMMA StepType ==
    ASSUME TypeOK, NEW j \in Job,
           NEW to \in {"none", "queued", "function", "iterator", "sent", "leaving", "over", "silent"},
           Step(j, to)
    PROVE  at' \in [Job -> {"none", "queued", "function", "iterator", "sent", "leaving", "over", "silent"}]
BY DEF TypeOK, Step

LEMMA UserTypes == TypeOK /\ UserCode => TypeOK'
<1> SUFFICES ASSUME TypeOK, UserCode PROVE TypeOK'
  OBVIOUS
<1> USE BackgroundConstants
<1>1. ASSUME Insert PROVE TypeOK'
  <2>1. born \in Nat /\ calls \in Seq(Event) /\ live \subseteq 0 .. born - 1
    BY DEF TypeOK
  <2>2. born' \in Nat /\ live' \subseteq 0 .. born' - 1 /\ calls' \in Seq(Event)
    BY <1>1, <2>1, Longer DEF Insert, Event
  <2> QED BY <1>1, <2>2 DEF TypeOK, Insert, pool, jobs, handed
<1>2. ASSUME NEW j \in Job, NEW k \in Kind, Submit(j, k) PROVE TypeOK'
  <2>1. Top \in Event /\ calls # << >>
    <3>1. calls \in Seq(Event) /\ calls # << >>
      BY <1>2 DEF TypeOK, Submit, InCallback
    <3> QED BY <3>1, Shorter DEF Top
  <2>2. kind' \in [Job -> Kind \cup {"none"}] /\ requestor' \in [Job -> Event]
    BY <1>2, <2>1 DEF TypeOK, Submit
  <2>3. at' \in [Job -> {"none", "queued", "function", "iterator", "sent", "leaving", "over", "silent"}]
    BY <1>2 DEF TypeOK, Submit
  <2>4. waiting' \in Seq(Job) /\ threads' \in 0 .. MaxThreads
    BY <1>2 DEF TypeOK, Submit, PoolFor
  <2> QED BY <1>2, <2>2, <2>3, <2>4 DEF TypeOK, Submit, loop, handed
<1>3. ASSUME NEW n \in 1 .. MaxThreads, PoolThreadCountSet(n) PROVE TypeOK'
  BY <1>3 DEF TypeOK, PoolThreadCountSet, jobs, loop, handed
<1>4. ASSUME NEW keep \in BOOLEAN, Return(keep) PROVE TypeOK'
  <2>1. calls' \in Seq(Event)
    <3>1. calls \in Seq(Event) /\ calls # << >>
      BY <1>4 DEF TypeOK, Return, InCallback
    <3> QED BY <1>4, <3>1, Shorter DEF Return
  <2>2. live' \subseteq live
    BY <1>4 DEF Return
  <2> QED BY <1>4, <2>1, <2>2 DEF TypeOK, Return, pool, jobs, handed
<1>5. ASSUME RunOne PROVE TypeOK'
  BY <1>5 DEF TypeOK, RunOne, pool, jobs, handed
<1>6. ASSUME DropLoop PROVE TypeOK'
  BY <1>6 DEF TypeOK, DropLoop, pool, jobs, handed
<1> QED BY <1>1, <1>2, <1>3, <1>4, <1>5, <1>6 DEF UserCode

LEMMA ThreadTypes ==
    ASSUME TypeOK, NEW j \in Job, Thread(j)
    PROVE  TypeOK'
<1>1. ASSUME Start(j) PROVE TypeOK'
  <2>1. waiting' \in Seq(Job)
    BY <1>1, Rest DEF TypeOK, Start
  <2> QED BY <1>1, <2>1, StepType DEF TypeOK, Start, loop, handed
<1>2. ASSUME SendResult(j) PROVE TypeOK'
  <2>1. inbox' \in Seq(Letter)
    BY <1>2, PostType DEF SendResult, Data
  <2> QED BY <1>2, <2>1, StepType DEF TypeOK, SendResult, pool, loop, handed
<1>3. ASSUME Complete(j) PROVE TypeOK'
  BY <1>3, StepType DEF TypeOK, Complete, SetComplete, pool, loop, handed
<1>4. ASSUME Panic(j) PROVE TypeOK'
  BY <1>4, StepType DEF TypeOK, Panic, pool, loop, handed
<1>5. ASSUME Leave(j) PROVE TypeOK'
  <2>1. inbox' \in Seq(Letter)
    BY <1>5, PostType DEF Leave, DropWrapper, Data, TypeOK
  <2> QED BY <1>5, <2>1, StepType DEF TypeOK, Leave, pool, loop, handed
<1>6. ASSUME MakeIterator(j) PROVE TypeOK'
  <2>1. inbox' \in Seq(Letter)
    BY <1>6, PostType DEF MakeIterator, Data, TypeOK
  <2>2. at' \in [Job -> {"none", "queued", "function", "iterator", "sent", "leaving", "over", "silent"}]
    BY <1>6, StepType DEF MakeIterator
  <2> QED BY <1>6, <2>1, <2>2 DEF TypeOK, MakeIterator, pool, loop, handed
<1>7. ASSUME SendItem(j) PROVE TypeOK'
  <2>1. items[j] + 1 \in Nat /\ items' \in [Job -> Nat]
    BY <1>7 DEF TypeOK, SendItem
  <2>2. inbox' \in Seq(Letter)
    BY <1>7, <2>1, PostType DEF SendItem, Data
  <2> QED BY <1>7, <2>1, <2>2 DEF TypeOK, SendItem, pool, loop, handed
<1>8. ASSUME SendEnd(j) PROVE TypeOK'
  <2>1. inbox' \in Seq(Letter)
    BY <1>8, PostType DEF SendEnd, Data
  <2> QED BY <1>8, <2>1, StepType DEF TypeOK, SendEnd, pool, loop, handed
<1>9. ASSUME PanicIter(j) PROVE TypeOK'
  BY <1>9, StepType DEF TypeOK, PanicIter, pool, loop, handed
<1> QED BY <1>1, <1>2, <1>3, <1>4, <1>5, <1>6, <1>7, <1>8, <1>9 DEF Thread

LEMMA LoopTypes == TypeOK /\ (LoopCode \/ PollOther \/ PollChannel) => TypeOK'
<1> SUFFICES ASSUME TypeOK, LoopCode \/ PollOther \/ PollChannel PROVE TypeOK'
  OBVIOUS
<1>1. ASSUME Skip \/ Busy PROVE TypeOK'
  <2>1. Takes /\ Take
    BY <1>1, LoopTakes DEF Skip, Busy
  <2> QED BY <1>1, <2>1, TakeType DEF TypeOK, Skip, Busy, Take, pool, jobs
<1>2. ASSUME Dispatch PROVE TypeOK'
  <2>1. Takes /\ Take
    BY <1>2, LoopTakes DEF Dispatch
  <2>2. calls' \in Seq(Event)
    BY <1>2, <2>1, TakeType DEF TypeOK, Dispatch
  <2> QED BY <1>2, <2>1, <2>2, TakeType DEF TypeOK, Dispatch, Take, pool, jobs
<1>3. ASSUME Gather PROVE TypeOK'
  BY <1>3 DEF TypeOK, Gather, pool, jobs, handed
<1>4. ASSUME Receive PROVE TypeOK'
  <2>1. inbox' \in Seq(Letter) /\ scheduled' \in Seq(Task)
    <3>1. inbox \in Seq(Letter) /\ scheduled \in Seq(Task)
      BY DEF TypeOK
    <3>2. CASE inbox # << >>
      <4>1. Head(inbox) \in Task /\ Tail(inbox) \in Seq(Letter)
        BY <3>1, <3>2, Rest, LetterFacts
      <4> QED BY <1>4, <3>1, <3>2, <4>1, Longer DEF Receive, Passed
    <3> QED BY <1>4, <3>1, <3>2 DEF Receive
  <2>2. pc' \in {"user", "run_one", "poll", "receive"}
    BY <1>4 DEF TypeOK, Receive
  <2> QED BY <1>4, <2>1, <2>2 DEF TypeOK, Receive, pool, jobs, handed
<1>5. ASSUME PollOther \/ PollChannel PROVE TypeOK'
  <2>1. live \subseteq Event /\ (scheduled' \in Others \/ scheduled' = scheduled)
    BY <1>5 DEF TypeOK, Event, PollOther, PollChannel
  <2>2. scheduled' \in Seq(Task)
    BY <2>1, OthersFacts DEF TypeOK
  <2> QED BY <1>5, <2>2 DEF TypeOK, PollOther, PollChannel, pool, jobs, handed
<1> QED BY <1>1, <1>2, <1>3, <1>4, <1>5 DEF LoopCode

-----------------------------------------------------------------------------
(* The invariant, by what a step does to the queues.                       *)

Told == Lines /\ Letters /\ \A j \in Job : Handed(j)

LEMMA FitsFacts ==
    ASSUME TypeOK, NEW l \in UnderWay, IsResult(l)
    PROVE  l \in Letter /\ l.job \in Job /\ l.item \in Nat
<1>1. scheduled \in Seq(Task) /\ inbox \in Seq(Letter)
  BY DEF TypeOK
<1>2. l \in Task
  BY <1>1, InType, LetterFacts DEF UnderWay
<1> QED BY <1>2, TaskFacts

\* Neither queue changes, and no job sent its answer.
LEMMA SilentStep ==
    ASSUME TypeOK, Told,
           UNCHANGED << scheduled, inbox, given, answers, items, gone >>,
           \A j \in Job : Answered(j)' <=> Answered(j),
           \A j \in Job : kind[j] # "none" => kind'[j] = kind[j],
           \A j \in Job : kind[j] = "none" => ~Answered(j)
    PROVE  Told'
<1>1. Lines'
  BY DEF Told, Lines
<1>2. Letters'
  <2> SUFFICES ASSUME NEW l \in UnderWay, IsResult(l) PROVE Fits(l)'
    BY DEF Letters, UnderWay
  <2>1. l.job \in Job /\ Fits(l)
    BY FitsFacts DEF Told, Letters
  <2>2. kind[l.job] # "none"
    BY <2>1 DEF Fits, ItemFits, AnswerFits
  <2>3. kind'[l.job] = kind[l.job] /\ (Answered(l.job)' <=> Answered(l.job))
    BY <2>1, <2>2
  <2>4. ItemFits(l) => ItemFits(l)'
    BY <2>3 DEF ItemFits
  <2>5. AnswerFits(l) => AnswerFits(l)'
    BY <2>3 DEF AnswerFits
  <2> QED BY <2>1, <2>4, <2>5 DEF Fits
<1>3. ASSUME NEW j \in Job PROVE Handed(j)'
  <2>1. Handed(j) /\ (Answered(j)' <=> Answered(j))
    BY DEF Told
  <2>2. \A n : /\ Carries(scheduled', j, n) <=> Carries(scheduled, j, n)
               /\ Carries(inbox', j, n) <=> Carries(inbox, j, n)
    OBVIOUS
  <2> QED BY <2>1, <2>2 DEF Handed
<1> QED BY <1>1, <1>2, <1>3 DEF Told

\* What a letter to be sent says.
NextItem(j, data, item) ==
    /\ data = "item" /\ kind[j] = "iter" /\ item = items[j] + 1
    /\ items' = [items EXCEPT ![j] = @ + 1]
    /\ UNCHANGED at
FinalAnswer(j, data) ==
    /\ data \in Streams!Final(kind[j])
    /\ Answered(j)'
    /\ data = "error" => items[j] = 0
    /\ \E to : Step(j, to)
    /\ UNCHANGED items

LEMMA FinalIsNoItem == \A k : "item" \notin Streams!Final(k)
BY DEF Streams!Final

\* A job that has not sent its answer sends a letter.
LEMMA PostStep ==
    ASSUME TypeOK, Told, Control, NEW j \in Job, NEW data \in Data, NEW item \in Nat,
           Post(j, data, item), ~Answered(j),
           NextItem(j, data, item) \/ FinalAnswer(j, data),
           UNCHANGED << scheduled, given, answers, complete, kind, gone >>
    PROVE  Told'
<1>0. PICK l \in Letter :
        /\ l.job = j /\ l.data = data /\ l.item = item
        /\ gone => inbox' = inbox
        /\ ~gone => inbox' = Append(inbox, l)
  <2> DEFINE m == [to |-> requestor[j], job |-> j, data |-> data, item |-> item]
  <2>1. m \in Letter /\ m.job = j /\ m.data = data /\ m.item = item
    BY DEF TypeOK, Letter
  <2> QED BY <2>1 DEF Post
<1>1. IsResult(l) /\ (IsItem(l) <=> data = "item")
  BY <1>0, LetterFacts DEF IsItem
<1>2. gone => inbox' = inbox /\ In(scheduled) = {} /\ In(inbox) = {}
  BY <1>0, InEmpty DEF Control
<1>3. ~gone => inbox' = Append(inbox, l)
  BY <1>0
<1>4. inbox \in Seq(Letter) /\ items[j] \in Nat /\ items \in [Job -> Nat]
  BY DEF TypeOK
<1>5. ~gone => \A y : y \in In(inbox') <=> y \in In(inbox) \/ y = l
  BY <1>3, <1>4, InLonger
<1>6. /\ \A i \in Job : i # j => (Answered(i)' <=> Answered(i)) /\ items'[i] = items[i]
      /\ items'[j] = items[j] \/ (items'[j] = items[j] + 1 /\ data = "item")
  BY <1>4 DEF TypeOK, NextItem, FinalAnswer, Step, Answered
<1>7. ASSUME NEW a \in UnderWay PROVE Precedes(a, l)
  <2> SUFFICES ASSUME IsResult(a), a.job = j PROVE IsItem(a) /\ (IsItem(l) => a.item < l.item)
    BY <1>0, <1>1 DEF Precedes
  <2>1. Fits(a) /\ a.item \in Nat
    BY FitsFacts DEF Told, Letters
  <2>2. ~AnswerFits(a)
    BY DEF AnswerFits
  <2>3. IsItem(a) /\ a.item <= items[j]
    <3>1. IsItem(a) /\ ItemFits(a)
      BY <2>1, <2>2 DEF Fits
    <3>2. Len(given[j]) \in Nat
      BY DEF TypeOK
    <3> QED BY <1>4, <3>1, <3>2 DEF ItemFits
  <2>4. IsItem(l) => l.item = items[j] + 1
    BY <1>0, <1>1, FinalIsNoItem DEF NextItem, FinalAnswer
  <2> QED BY <1>4, <2>1, <2>3, <2>4
<1>8. Lines'
  <2>1. CASE gone
    BY <1>2, <2>1 DEF Told, Lines
  <2>2. CASE ~gone
    <3>1. Sorted(inbox')
      BY <1>0, <1>3, <1>4, <1>7, <2>2, SortedLonger DEF UnderWay, Told, Lines
    <3>2. \A a \in In(scheduled), b \in In(inbox') : Precedes(a, b)
      BY <1>5, <1>7, <2>2 DEF UnderWay, Told, Lines
    <3> QED BY <3>1, <3>2 DEF Told, Lines
  <2> QED BY <2>1, <2>2
<1>9. ASSUME NEW a \in UnderWay, IsResult(a) PROVE Fits(a)'
  <2>1. Fits(a) /\ a.job \in Job /\ a.item \in Nat
    BY <1>9, FitsFacts DEF Told, Letters
  <2>2. CASE a.job # j
    <3>1. (Answered(a.job)' <=> Answered(a.job)) /\ items'[a.job] = items[a.job]
      BY <1>6, <2>1, <2>2
    <3>2. (ItemFits(a) => ItemFits(a)') /\ (AnswerFits(a) => AnswerFits(a)')
      BY <3>1 DEF ItemFits, AnswerFits
    <3> QED BY <2>1, <3>2 DEF Fits
  <2>3. CASE a.job = j
    <3>1. IsItem(a) /\ ItemFits(a)
      BY <2>1, <2>3 DEF Fits, AnswerFits
    <3>2. ItemFits(a)'
      <4>1. Len(given[j]) \in Nat
        BY DEF TypeOK
      <4>2. \A n \in Nat : n \in Len(given[j]) + 1 .. items[j] => n \in Len(given[j]) + 1 .. items'[j]
        BY <1>4, <1>6, <4>1
      <4> QED BY <2>1, <2>3, <3>1, <4>2 DEF ItemFits
    <3> QED BY <2>1, <3>1, <3>2 DEF Fits
  <2> QED BY <2>2, <2>3
<1>10. Fits(l)'
  <2>1. answers[j] = << >> /\ Len(given[j]) <= items[j] /\ Len(given[j]) \in Nat
    BY DEF Told, Handed, TypeOK
  <2>2. CASE NextItem(j, data, item)
    <3>1. items'[j] = item /\ item \in Len(given[j]) + 1 .. items'[j]
      BY <1>4, <2>1, <2>2 DEF NextItem
    <3>2. IsItem(l) /\ ItemFits(l)'
      BY <1>0, <1>1, <2>2, <3>1 DEF NextItem, ItemFits
    <3> QED BY <1>0, <2>1, <3>2 DEF Fits
  <2>3. CASE FinalAnswer(j, data)
    <3>1. ~IsItem(l) /\ AnswerFits(l)'
      BY <1>0, <1>1, <2>3, FinalIsNoItem DEF FinalAnswer, AnswerFits
    <3> QED BY <1>0, <2>1, <3>1 DEF Fits
  <2> QED BY <2>2, <2>3
<1>11. Letters'
  <2> SUFFICES ASSUME NEW a \in UnderWay', IsResult(a) PROVE Fits(a)'
    BY DEF Letters
  <2>1. a \in UnderWay \/ a = l
    BY <1>2, <1>5 DEF UnderWay
  <2> QED BY <1>9, <1>10, <2>1
<1>12. ASSUME NEW i \in Job PROVE Handed(i)'
  <2>1. Handed(i) /\ Len(given[i]) \in Nat /\ items[i] \in Nat
    BY DEF Told, TypeOK
  <2>2. items'[i] \in Nat /\ items[i] <= items'[i] /\ (Answered(i) => Answered(i)')
    BY <1>4, <1>6, <2>1
  <2>3. ASSUME ~gone, NEW n \in Len(given[i]) + 1 .. items'[i]
        PROVE  Carries(scheduled, i, n) \/ Carries(inbox', i, n)
    <3>1. Carries(inbox, i, n) => Carries(inbox', i, n)
      BY <1>5, <2>3 DEF Carries
    <3>2. CASE n \in Len(given[i]) + 1 .. items[i]
      BY <2>1, <2>3, <3>1, <3>2 DEF Handed
    <3>3. CASE n \notin Len(given[i]) + 1 .. items[i]
      <4>1. i = j /\ n = items[j] + 1 /\ data = "item"
        BY <1>6, <2>1, <2>3, <3>3
      <4>2. item = n
        BY <4>1, FinalIsNoItem DEF NextItem, FinalAnswer
      <4>3. l \in In(inbox')
        BY <1>5, <2>3
      <4> QED BY <1>0, <1>1, <4>1, <4>2, <4>3 DEF Carries
    <3> QED BY <3>2, <3>3
  <2>4. Len(given[i]) <= items'[i]
    BY <2>1, <2>2 DEF Handed
  <2> QED BY <2>1, <2>2, <2>3, <2>4 DEF Handed
<1> QED BY <1>8, <1>11, <1>12 DEF Told

\* What run_one takes from the queue is what has to be handed over next.
LEMMA TakeIsNext ==
    ASSUME TypeOK, Told, Control, \A j \in Job : kind[j] = "none" => ~Answered(j),
           Take, IsResult(Head(scheduled))
    PROVE  LET h == Head(scheduled)
           IN  /\ h.job \in Job /\ kind[h.job] # "none" /\ answers[h.job] = << >>
               /\ IsItem(h) => kind[h.job] = "iter" /\ h.item = Len(given[h.job]) + 1
               /\ ~IsItem(h) => /\ h.data \in Streams!Final(kind[h.job])
                                /\ h.data = "error" => given[h.job] = << >>
<1> DEFINE h == Head(scheduled)
<1>1. /\ scheduled \in Seq(Task) /\ scheduled # << >> /\ ~gone
      /\ \A y : y \in In(scheduled) <=> y \in In(Tail(scheduled)) \/ y = h
      /\ \A b \in In(Tail(scheduled)) \cup In(inbox) : Precedes(h, b)
  <2>1. scheduled \in Seq(Task) /\ scheduled # << >> /\ ~gone
    BY DEF TypeOK, Take, Control
  <2>2. \A y : y \in In(scheduled) <=> y \in In(Tail(scheduled)) \/ y = h
    BY <2>1, InRest
  <2>3. \A b \in In(Tail(scheduled)) : Precedes(h, b)
    BY <2>1, SortedRest DEF Told, Lines
  <2> HIDE DEF h
  <2> QED BY <2>1, <2>2, <2>3 DEF Told, Lines
<1>2. IsResult(h)
  OBVIOUS
<1> HIDE DEF h
<1>3. h \in UnderWay
  BY <1>1 DEF UnderWay
<1>4. Fits(h) /\ h.job \in Job /\ h.item \in Nat
  BY <1>2, <1>3, FitsFacts DEF Told, Letters
<1>5. /\ given[h.job] \in Seq(Nat) /\ Len(given[h.job]) \in Nat /\ items[h.job] \in Nat
      /\ Len(given[h.job]) <= items[h.job]
  BY <1>4 DEF TypeOK, Told, Handed
<1>6. kind[h.job] # "none"
  BY <1>4 DEF Fits, ItemFits, AnswerFits
<1>7. ASSUME IsItem(h) PROVE kind[h.job] = "iter" /\ h.item = Len(given[h.job]) + 1
  <2> DEFINE n == Len(given[h.job]) + 1
  <2>1. kind[h.job] = "iter" /\ h.item \in n .. items[h.job] /\ n \in Nat
    BY <1>4, <1>5, <1>7 DEF Fits, ItemFits
  <2>2. n \in n .. items[h.job]
    BY <1>5, <2>1
  <2>3. Carries(scheduled, h.job, n) \/ Carries(inbox, h.job, n)
    BY <1>1, <1>4, <2>2 DEF Told, Handed
  <2> HIDE DEF n
  <2>4. PICK l \in UnderWay : IsResult(l) /\ l.job = h.job /\ IsItem(l) /\ l.item = n
    BY <2>3 DEF Carries, UnderWay
  <2>5. CASE l = h
    BY <2>1, <2>4, <2>5 DEF n
  <2>6. CASE l # h
    <3>1. Precedes(h, l)
      BY <1>1, <2>4, <2>6 DEF UnderWay
    <3>2. h.item < n
      BY <1>2, <2>4, <3>1 DEF Precedes
    <3> QED BY <1>4, <1>5, <2>1, <3>2
  <2> QED BY <2>5, <2>6
<1>8. ASSUME ~IsItem(h)
      PROVE  h.data \in Streams!Final(kind[h.job]) /\ (h.data = "error" => given[h.job] = << >>)
  <2>1. AnswerFits(h)
    BY <1>4, <1>8 DEF Fits
  <2>2. items[h.job] = 0 => given[h.job] = << >>
    BY <1>5
  <2> QED BY <2>1, <2>2 DEF AnswerFits
<1>9. answers[h.job] = << >>
  BY <1>4 DEF Fits
<1> QED BY <1>4, <1>6, <1>7, <1>8, <1>9 DEF h

LEMMA TakeStep ==
    ASSUME TypeOK, Told, Control, \A j \in Job : kind[j] = "none" => ~Answered(j), Takes
    PROVE  Told'
<1>0. PICK h \in Task : h = Head(scheduled)
  BY Rest DEF TypeOK, Takes, Take
<1>1. /\ scheduled \in Seq(Task) /\ scheduled # << >> /\ ~gone
      /\ scheduled' = Tail(scheduled)
      /\ UNCHANGED << kind, at, complete, items, inbox, gone >>
  BY DEF TypeOK, Takes, Take, Control, jobs
<1>12. PICK m \in Nat, o \in Outcome : Record(h, m, o)
  BY <1>0 DEF Takes
<1>2. /\ \A y : y \in In(scheduled) <=> y \in In(scheduled') \/ y = h
      /\ Sorted(scheduled') /\ \A b \in In(scheduled') : Precedes(h, b)
  BY <1>0, <1>1, InRest, SortedRest DEF Told, Lines
<1>3. /\ h \in UnderWay
      /\ \A b \in UnderWay' : b \in UnderWay /\ Precedes(h, b)
  BY <1>1, <1>2 DEF UnderWay, Told, Lines
<1>4. Lines'
  BY <1>1, <1>2 DEF Told, Lines
<1>5. IsResult(h) =>
        /\ h.job \in Job /\ answers[h.job] = << >> /\ Fits(h)
        /\ IsItem(h) => h.item = Len(given[h.job]) + 1
  BY <1>0, <1>3, TakeIsNext DEF Takes, Told, Letters
<1>6. \A j \in Job : /\ given[j] \in Seq(Nat) /\ Len(given[j]) \in Nat /\ items[j] \in Nat
                     /\ Answered(j)' <=> Answered(j)
  BY <1>1 DEF TypeOK, Answered
<1>7. \A j \in Job :
        \/ given'[j] = given[j]
        \/ /\ IsResult(h) /\ IsItem(h) /\ h.job = j
           /\ Len(given'[j]) = Len(given[j]) + 1
  <2>1. CASE given' = [given EXCEPT ![h.job] = Append(@, m)] /\ IsResult(h) /\ IsItem(h)
    <3>1. h.job \in Job /\ given \in [Job -> Seq(Nat)]
      BY <1>5, <2>1 DEF TypeOK
    <3>2. PICK g \in Seq(Nat) : g = given[h.job]
      BY <3>1
    <3>3. \A j \in Job : given'[j] = IF j = h.job THEN Append(g, m) ELSE given[j]
      BY <2>1, <3>1, <3>2
    <3>4. Len(Append(g, m)) = Len(g) + 1
      BY Longer
    <3> QED BY <2>1, <3>1, <3>2, <3>3, <3>4
  <2> QED BY <1>12, <2>1 DEF Record, handed
<1>8. \A j \in Job : answers'[j] = answers[j] \/ (IsResult(h) /\ ~IsItem(h) /\ h.job = j)
  BY <1>12 DEF TypeOK, Record, handed
<1>9. ASSUME NEW l \in UnderWay', IsResult(l) PROVE Fits(l)'
  <2>1. l \in UnderWay /\ Precedes(h, l)
    BY <1>3
  <2>2. Fits(l) /\ l.job \in Job /\ l.item \in Nat
    BY <1>9, <2>1, FitsFacts DEF Told, Letters
  <2>3. answers'[l.job] = << >>
    BY <1>8, <2>1, <2>2 DEF Fits, Precedes
  <2>4. CASE IsItem(l)
    <3>1. ItemFits(l)
      BY <2>2, <2>4 DEF Fits
    <3>2. l.item \in Len(given'[l.job]) + 1 .. items[l.job]
      <4>1. CASE given'[l.job] = given[l.job]
        BY <3>1, <4>1 DEF ItemFits
      <4>2. CASE IsResult(h) /\ IsItem(h) /\ h.job = l.job /\ Len(given'[l.job]) = Len(given[l.job]) + 1
        <5>1. h.item < l.item /\ h.item = Len(given[l.job]) + 1
          BY <1>5, <2>1, <2>4, <4>2 DEF Precedes
        <5> QED BY <1>6, <2>2, <3>1, <4>2, <5>1 DEF ItemFits
      <4> QED BY <1>7, <2>2, <4>1, <4>2
    <3>3. ItemFits(l)'
      BY <1>1, <3>1, <3>2 DEF ItemFits
    <3> QED BY <2>3, <2>4, <3>3 DEF Fits
  <2>5. CASE ~IsItem(l)
    <3>1. AnswerFits(l)'
      BY <1>1, <1>6, <2>2, <2>5 DEF Fits, AnswerFits
    <3> QED BY <2>3, <2>5, <3>1 DEF Fits
  <2> QED BY <2>4, <2>5
<1>10. ASSUME NEW j \in Job PROVE Handed(j)'
  <2>1. Handed(j) /\ Len(given[j]) \in Nat /\ items[j] \in Nat
    BY <1>6 DEF Told
  <2>2. Len(given'[j]) \in Nat /\ Len(given[j]) <= Len(given'[j]) /\ Len(given'[j]) <= items[j]
    <3>1. CASE given'[j] = given[j]
      BY <2>1, <3>1 DEF Handed
    <3>2. CASE IsResult(h) /\ IsItem(h) /\ h.job = j /\ Len(given'[j]) = Len(given[j]) + 1
      <4>1. Len(given[j]) + 1 \in Len(given[j]) + 1 .. items[j]
        BY <1>5, <3>2 DEF Fits, ItemFits
      <4> QED BY <2>1, <3>2, <4>1
    <3> QED BY <1>7, <3>1, <3>2
  <2>3. ~Answered(j) => answers'[j] = << >>
    <3>1. IsResult(h) /\ ~IsItem(h) => Answered(h.job)
      BY <1>5 DEF Fits, AnswerFits
    <3> QED BY <1>8, <2>1, <3>1 DEF Handed
  <2>4. ASSUME NEW n \in Len(given'[j]) + 1 .. items[j]
        PROVE  Carries(scheduled', j, n) \/ Carries(inbox, j, n)
    <3>1. n \in Len(given[j]) + 1 .. items[j] /\ n \in Nat
      BY <2>1, <2>2
    <3>2. Carries(scheduled, j, n) \/ Carries(inbox, j, n)
      BY <1>1, <2>1, <3>1 DEF Handed
    <3>3. ~(IsResult(h) /\ h.job = j /\ IsItem(h) /\ h.item = n)
      <4> SUFFICES ASSUME IsResult(h), h.job = j, IsItem(h), h.item = n PROVE FALSE
        OBVIOUS
      <4>1. n = Len(given[j]) + 1
        BY <1>5
      <4>2. given' = [given EXCEPT ![j] = Append(@, m)]
        BY <1>12 DEF Record
      <4>3. Len(given'[j]) = Len(given[j]) + 1
        BY <1>6, <3>1, <4>2, Longer DEF TypeOK
      <4> QED BY <2>1, <2>4, <4>1, <4>3
    <3>4. Carries(scheduled, j, n) => Carries(scheduled', j, n)
      BY <1>2, <3>3 DEF Carries
    <3> QED BY <3>2, <3>4
  <2>5. /\ Len(given'[j]) <= items'[j]
        /\ ~Answered(j)' => answers'[j] = << >>
        /\ \A n \in Len(given'[j]) + 1 .. items'[j] : Carries(scheduled', j, n) \/ Carries(inbox', j, n)
    BY <1>1, <1>6, <2>2, <2>3, <2>4
  <2> QED BY <2>5 DEF Handed
<1>11. Letters'
  BY <1>9 DEF Letters
<1> QED BY <1>4, <1>10, <1>11 DEF Told

\* A letter moves from the channel to the end of the queue.
LEMMA ReceiveStep ==
    ASSUME TypeOK, Told, Receive
    PROVE  Told'
<1>1. UNCHANGED << kind, at, complete, items, gone, given, answers >>
  BY DEF Receive, jobs, handed
<1>2. \A j \in Job : Answered(j)' <=> Answered(j)
  BY <1>1 DEF Answered
<1>3. CASE inbox = << >>
  <2>1. UNCHANGED << scheduled, inbox >>
    BY <1>3 DEF Receive
  <2>2. Lines' /\ UnderWay' = UnderWay
    BY <2>1 DEF Told, Lines, UnderWay
  <2>3. Letters'
    <3> SUFFICES ASSUME NEW l \in UnderWay, IsResult(l) PROVE Fits(l)'
      BY <2>2 DEF Letters
    <3>1. Fits(l) /\ l.job \in Job
      BY FitsFacts DEF Told, Letters
    <3> QED BY <1>1, <1>2, <3>1 DEF Fits, ItemFits, AnswerFits
  <2>4. \A j \in Job : Handed(j)'
    BY <1>1, <1>2, <2>1 DEF Told, Handed, Carries
  <2> QED BY <2>2, <2>3, <2>4 DEF Told
<1>4. CASE inbox # << >>
  <2>1. PICK h \in Letter : h = Head(inbox)
    BY <1>4, Rest DEF TypeOK
  <2>2. /\ inbox \in Seq(Letter) /\ scheduled \in Seq(Task) /\ h \in Task
        /\ scheduled' = Append(scheduled, h) /\ inbox' = Tail(inbox)
    BY <1>4, <2>1, LetterFacts DEF TypeOK, Receive, Passed
  <2>3. /\ \A y : y \in In(inbox) <=> y \in In(inbox') \/ y = h
        /\ Sorted(inbox') /\ \A b \in In(inbox') : Precedes(h, b)
    BY <1>4, <2>1, <2>2, InRest, SortedRest DEF Told, Lines
  <2>4. \A y : y \in In(scheduled') <=> y \in In(scheduled) \/ y = h
    BY <2>2, InLonger
  <2>5. \A a \in In(scheduled) : Precedes(a, h)
    BY <2>3 DEF Told, Lines
  <2>6. Sorted(scheduled')
    BY <2>2, <2>5, SortedLonger DEF Told, Lines
  <2>7. Lines'
    <3>1. \A a \in In(scheduled'), b \in In(inbox') : Precedes(a, b)
      BY <2>3, <2>4 DEF Told, Lines
    <3> QED BY <2>3, <2>6, <3>1 DEF Lines
  <2>8. \A y : y \in UnderWay' <=> y \in UnderWay
    BY <2>3, <2>4 DEF UnderWay
  <2>9. Letters'
    <3> SUFFICES ASSUME NEW l \in UnderWay, IsResult(l) PROVE Fits(l)'
      BY <2>8 DEF Letters
    <3>1. Fits(l) /\ l.job \in Job
      BY FitsFacts DEF Told, Letters
    <3> QED BY <1>1, <1>2, <3>1 DEF Fits, ItemFits, AnswerFits
  <2>10. ASSUME NEW j \in Job PROVE Handed(j)'
    <3>1. ASSUME NEW n PROVE Carries(scheduled, j, n) \/ Carries(inbox, j, n)
                             => Carries(scheduled', j, n) \/ Carries(inbox', j, n)
      BY <2>3, <2>4 DEF Carries
    <3>2. Handed(j)
      BY DEF Told
    <3> QED BY <1>1, <1>2, <3>1, <3>2 DEF Handed
  <2> QED BY <2>7, <2>9, <2>10 DEF Told
<1> QED BY <1>3, <1>4

\* The poll ends: the queue was empty, and no result gets into it.
LEMMA PollStep ==
    ASSUME TypeOK, Told, Control, PollOther \/ PollChannel
    PROVE  Told'
<1>1. /\ UNCHANGED << kind, at, complete, items, inbox, gone, given, answers >>
      /\ scheduled = << >>
  BY DEF PollOther, PollChannel, jobs, handed, Control
<1>2. Sorted(scheduled') /\ \A x \in In(scheduled') : ~IsResult(x)
  <2>1. live \subseteq Event /\ (scheduled' \in Others \/ scheduled' = << >>)
    BY <1>1 DEF TypeOK, Event, PollOther, PollChannel
  <2> QED BY <2>1, OthersFacts, SortedEmpty, InEmpty
<1>3. Lines'
  BY <1>1, <1>2 DEF Told, Lines, Precedes
<1>4. \A j \in Job : Answered(j)' <=> Answered(j)
  BY <1>1 DEF Answered
<1>5. Letters'
  <2> SUFFICES ASSUME NEW l \in UnderWay', IsResult(l) PROVE Fits(l)'
    BY DEF Letters
  <2>1. l \in UnderWay
    BY <1>1, <1>2 DEF UnderWay
  <2>2. Fits(l) /\ l.job \in Job
    BY <2>1, FitsFacts DEF Told, Letters
  <2> QED BY <1>1, <1>4, <2>2 DEF Fits, ItemFits, AnswerFits
<1>6. ASSUME NEW j \in Job PROVE Handed(j)'
  <2>1. \A n : ~Carries(scheduled, j, n)
    BY <1>1, InEmpty DEF Carries
  <2> QED BY <1>1, <1>4, <2>1 DEF Told, Handed
<1> QED BY <1>3, <1>5, <1>6 DEF Told

-----------------------------------------------------------------------------
(* The invariant, action by action.                                        *)

LEMMA NoneUnanswered ==
    ASSUME NEW j \in Job, Life(j), kind[j] = "none"
    PROVE  ~Answered(j)
BY DEF Life, Answered

LEMMA InitInv == Init => IInv
<1> SUFFICES ASSUME Init PROVE IInv
  OBVIOUS
<1>1. TypeOK
  <2>1. << >> \in Seq(Job) /\ << >> \in Seq(Letter) /\ << >> \in Seq(Task) /\ << >> \in Seq(Event)
    OBVIOUS
  <2>2. << >> \in Seq(Nat) /\ << >> \in Seq(Outcome)
    OBVIOUS
  <2>3. threads \in 0 .. MaxThreads
    BY BackgroundConstants DEF Init
  <2>4. kind \in [Job -> Kind \cup {"none"}] /\ requestor \in [Job -> Event] /\ items \in [Job -> Nat]
    BY DEF Init, Event
  <2>5. at \in [Job -> {"none", "queued", "function", "iterator", "sent", "leaving", "over", "silent"}]
    BY DEF Init
  <2>6. given \in [Job -> Seq(Nat)] /\ answers \in [Job -> Seq(Outcome)]
    BY <2>2 DEF Init
  <2> QED BY <2>1, <2>3, <2>4, <2>5, <2>6 DEF Init, TypeOK
<1>2. Lines /\ Letters
  BY InEmpty, SortedEmpty DEF Init, Lines, Letters, UnderWay
<1>3. ASSUME NEW j \in Job PROVE Life(j) /\ Handed(j)
  BY DEF Init, Life, Handed, Carries
<1>4. WaitsOnce /\ Control
  BY DEF Init, WaitsOnce, Control
<1> QED BY <1>1, <1>2, <1>3, <1>4 DEF IInv

\* A step of user code that is not a submission changes no job and no letter, unless
\* it drops the loop.
LEMMA UserInv ==
    ASSUME IInv, UserCode
    PROVE  IInv'
<1>1. TypeOK' /\ TypeOK
  BY UserTypes DEF IInv
<1>2. Told /\ \A j \in Job : kind[j] = "none" => ~Answered(j)
  BY NoneUnanswered DEF IInv, Told
<1>3. ASSUME UNCHANGED << waiting, jobs, inbox, gone, scheduled, handed >>, InUser, pc' # "poll"
      PROVE  IInv'
  <2>1. UNCHANGED << kind, requestor, at, complete, items, given, answers >>
    BY <1>3 DEF jobs, handed
  <2>2. \A j \in Job : Answered(j)' <=> Answered(j)
    BY <2>1 DEF Answered
  <2>3. Told'
    BY <1>1, <1>2, <1>3, <2>1, <2>2, SilentStep
  <2>4. \A j \in Job : Life(j)'
    BY <2>1 DEF IInv, Life
  <2>5. WaitsOnce' /\ Control'
    BY <1>3, <2>1 DEF IInv, WaitsOnce, Control, InUser
  <2> QED BY <1>1, <2>3, <2>4, <2>5 DEF IInv, Told
<1>4. ASSUME NEW j \in Job, NEW k \in Kind, Submit(j, k) PROVE IInv'
  <2>1. /\ UNCHANGED << complete, items, inbox, gone, scheduled, pc, given, answers >>
        /\ kind' = [kind EXCEPT ![j] = k] /\ at' = [at EXCEPT ![j] = "queued"]
        /\ waiting' = Append(waiting, j) /\ waiting \in Seq(Job)
        /\ kind[j] = "none"
    BY <1>1, <1>4 DEF Submit, loop, handed, TypeOK
  <2>2. Life(j) /\ at[j] = "none" /\ items[j] = 0
    BY <2>1 DEF IInv, Life
  <2>3. \A i \in Job : i # j => kind'[i] = kind[i] /\ at'[i] = at[i]
    BY <1>1, <2>1 DEF TypeOK
  <2>4. kind'[j] = k /\ at'[j] = "queued" /\ k # "none"
    BY <1>1, <2>1 DEF TypeOK, Kind
  <2>5. \A i \in Job : Answered(i)' <=> Answered(i)
    BY <2>1, <2>2, <2>3, <2>4 DEF Answered
  <2>6. Told'
    BY <1>1, <1>2, <2>1, <2>3, <2>5, SilentStep
  <2>7. ASSUME NEW i \in Job PROVE Life(i)'
    <3>1. CASE i = j
      BY <2>1, <2>2, <2>4, <3>1 DEF Life
    <3>2. CASE i # j
      BY <2>1, <2>3, <3>2 DEF IInv, Life
    <3> QED BY <3>1, <3>2
  <2>8. WaitsOnce'
    <3>1. /\ Len(waiting') = Len(waiting) + 1 /\ Len(waiting) \in Nat
          /\ \A i \in 1 .. Len(waiting) : waiting'[i] = waiting[i] /\ waiting[i] \in Job
          /\ waiting'[Len(waiting) + 1] = j
      BY <2>1, Longer
    <3>2. \A i \in 1 .. Len(waiting) : waiting[i] # j /\ at[waiting[i]] = "queued"
      BY <2>2 DEF IInv, WaitsOnce
    <3>3. \A i \in 1 .. Len(waiting') : i \in 1 .. Len(waiting) \/ i = Len(waiting) + 1
      BY <3>1
    <3>4. \A i \in 1 .. Len(waiting') : at'[waiting'[i]] = "queued"
      BY <2>3, <2>4, <3>1, <3>2, <3>3
    <3>5. \A i, m \in 1 .. Len(waiting') : waiting'[i] = waiting'[m] => i = m
      BY <3>1, <3>2, <3>3 DEF IInv, WaitsOnce
    <3> QED BY <3>4, <3>5 DEF WaitsOnce
  <2>9. Control'
    BY <2>1 DEF IInv, Control
  <2> QED BY <1>1, <2>6, <2>7, <2>8, <2>9 DEF IInv, Told
<1>5. ASSUME DropLoop PROVE IInv'
  <2>1. UNCHANGED << waiting, kind, at, complete, items, given, answers, pc >>
        /\ gone' /\ inbox' = << >> /\ scheduled' = << >> /\ pc = "user"
    BY <1>5 DEF DropLoop, pool, jobs, handed, InUser
  <2>2. Lines' /\ Letters'
    BY <2>1, InEmpty, SortedEmpty DEF Lines, Letters, UnderWay
  <2>3. ASSUME NEW j \in Job PROVE Life(j)' /\ Handed(j)'
    <3>1. Life(j)'
      BY <2>1 DEF IInv, Life
    <3>2. Answered(j)' <=> Answered(j)
      BY <2>1 DEF Answered
    <3> QED BY <2>1, <3>1, <3>2 DEF IInv, Handed
  <2>4. WaitsOnce' /\ Control'
    BY <2>1 DEF IInv, WaitsOnce, Control
  <2> QED BY <1>1, <2>2, <2>3, <2>4 DEF IInv
<1>6. ASSUME Insert PROVE IInv'
  BY <1>3, <1>6 DEF Insert, InUser, pool
<1>7. ASSUME NEW n \in 1 .. MaxThreads, PoolThreadCountSet(n) PROVE IInv'
  BY <1>3, <1>7 DEF PoolThreadCountSet, InUser, loop
<1>8. ASSUME NEW keep \in BOOLEAN, Return(keep) PROVE IInv'
  BY <1>3, <1>8 DEF Return, InCallback, InUser, pool
<1>9. ASSUME RunOne PROVE IInv'
  BY <1>3, <1>9 DEF RunOne, InUser, pool
<1> QED BY <1>4, <1>5, <1>6, <1>7, <1>8, <1>9 DEF UserCode

\* What no step of a thread touches.
Kept == UNCHANGED << kind, requestor, gone, scheduled, pc, given, answers >>

\* One job moves on, without a letter or with one.
LEMMA JobMoves ==
    ASSUME IInv, TypeOK', Kept, NEW j \in Job, at[j] # "queued", UNCHANGED waiting,
           \A i \in Job : i # j => /\ at'[i] = at[i] /\ items'[i] = items[i]
                                   /\ i \in complete' <=> i \in complete,
           Life(j)', inbox' = << >> \/ ~gone, Told'
    PROVE  IInv'
<1>1. ASSUME NEW i \in Job PROVE Life(i)'
  <2>1. CASE i # j
    <3>1. Life(i)
      BY DEF IInv
    <3>2. at'[i] = at[i] /\ items'[i] = items[i] /\ (i \in complete' <=> i \in complete)
      BY <2>1
    <3> QED BY <3>1, <3>2 DEF Life, Kept
  <2> QED BY <2>1
<1>2. WaitsOnce'
  <2>1. waiting \in Seq(Job)
    BY DEF IInv, TypeOK
  <2>2. \A i \in 1 .. Len(waiting) : waiting[i] \in Job
    BY <2>1
  <2> QED BY <2>2 DEF IInv, WaitsOnce
<1>3. Control'
  BY DEF IInv, Control, Kept
<1> QED BY <1>1, <1>2, <1>3 DEF IInv, Told

LEMMA ThreadInv ==
    ASSUME IInv, NEW j \in Job, Thread(j)
    PROVE  IInv'
<1>1. TypeOK' /\ TypeOK
  BY ThreadTypes DEF IInv
<1>2. Told /\ Control /\ \A i \in Job : kind[i] = "none" => ~Answered(i)
  BY NoneUnanswered DEF IInv, Told
<1>3. Life(j)
  BY DEF IInv
<1>4. ASSUME NEW to, Step(j, to)
      PROVE  at'[j] = to /\ \A i \in Job : i # j => at'[i] = at[i]
  BY <1>1, <1>4 DEF TypeOK, Step
<1>5. gone => inbox = << >>
  BY <1>2 DEF Control
<1>6. \A data, item : Post(j, data, item) => inbox' = << >> \/ ~gone
  BY <1>5 DEF Post
<1>7. ASSUME Start(j) PROVE IInv'
  <2>1. Kept /\ UNCHANGED << complete, items, inbox >>
    BY <1>7 DEF Start, Kept, loop, handed
  <2>2. /\ waiting \in Seq(Job) /\ waiting # << >> /\ Head(waiting) = j
        /\ waiting' = Tail(waiting) /\ Step(j, "function")
    BY <1>1, <1>7 DEF Start, TypeOK
  <2>3. /\ Len(waiting) \in Nat \ {0} /\ Len(waiting') = Len(waiting) - 1
        /\ \A i \in 1 .. Len(waiting') : waiting'[i] = waiting[i + 1]
        /\ waiting[1] = j
    BY <2>2, Rest
  <2>4. at[j] = "queued"
    <3>1. 1 \in 1 .. Len(waiting)
      BY <2>3
    <3> QED BY <2>3, <3>1 DEF IInv, WaitsOnce
  <2>5. at'[j] = "function" /\ \A i \in Job : i # j => at'[i] = at[i]
    BY <1>4, <2>2
  <2>6. \A i \in Job : Answered(i)' <=> Answered(i)
    BY <2>1, <2>4, <2>5 DEF Answered
  <2>7. Told'
    BY <1>1, <1>2, <2>1, <2>6, SilentStep DEF Kept
  <2>8. ASSUME NEW i \in Job PROVE Life(i)'
    <3>1. CASE i = j
      BY <1>3, <2>1, <2>4, <2>5, <3>1 DEF Life, Kept
    <3>2. CASE i # j
      <4>1. Life(i) /\ at'[i] = at[i]
        BY <2>5, <3>2 DEF IInv
      <4> QED BY <2>1, <4>1 DEF Life, Kept
    <3> QED BY <3>1, <3>2
  <2>9. WaitsOnce'
    <3>1. ASSUME NEW i \in 1 .. Len(waiting')
          PROVE  /\ i + 1 \in 1 .. Len(waiting) /\ i + 1 # 1
                 /\ waiting'[i] = waiting[i + 1] /\ waiting[i + 1] \in Job
      BY <2>2, <2>3
    <3>2. \A i \in 1 .. Len(waiting) : i # 1 => waiting[i] # j /\ at[waiting[i]] = "queued"
      <4>1. 1 \in 1 .. Len(waiting)
        BY <2>3
      <4> QED BY <2>3, <4>1 DEF IInv, WaitsOnce
    <3>3. \A i \in 1 .. Len(waiting') : at'[waiting'[i]] = "queued"
      BY <2>5, <3>1, <3>2
    <3>4. \A i, m \in 1 .. Len(waiting') : waiting'[i] = waiting'[m] => i = m
      <4>1. ASSUME NEW i \in 1 .. Len(waiting'), NEW m \in 1 .. Len(waiting'), waiting'[i] = waiting'[m]
            PROVE  i = m
        <5>1. i + 1 = m + 1
          BY <3>1, <4>1 DEF IInv, WaitsOnce
        <5> QED BY <5>1
      <4> QED BY <4>1
    <3> QED BY <3>3, <3>4 DEF WaitsOnce
  <2>10. Control'
    BY <1>2, <2>1 DEF Control, Kept
  <2> QED BY <1>1, <2>7, <2>8, <2>9, <2>10 DEF IInv, Told
<1>8. ASSUME SendResult(j) PROVE IInv'
  <2>1. PICK data \in {"value", "error"} : Post(j, data, 0)
    BY <1>8 DEF SendResult
  <2>2. /\ Kept /\ UNCHANGED << waiting, complete, items >>
        /\ Step(j, "sent") /\ at[j] = "function" /\ kind[j] = "one"
    BY <1>8 DEF SendResult, Kept, pool, loop, handed
  <2>3. at'[j] = "sent" /\ \A i \in Job : i # j => at'[i] = at[i]
    BY <1>4, <2>2
  <2>4. ~Answered(j) /\ data \in Data /\ 0 \in Nat /\ items[j] = 0
    BY <1>3, <2>2 DEF Answered, Data, Life
  <2>5. FinalAnswer(j, data)
    BY <2>2, <2>3, <2>4 DEF FinalAnswer, Answered, Streams!Final
  <2>6. Told'
    BY <1>1, <1>2, <2>1, <2>2, <2>4, <2>5, PostStep DEF Kept
  <2>7. Life(j)'
    BY <1>3, <2>2, <2>3 DEF Life, Kept
  <2> QED BY <1>1, <1>6, <2>1, <2>2, <2>3, <2>6, <2>7, JobMoves
<1>9. ASSUME Complete(j) PROVE IInv'
  <2>1. /\ Kept /\ UNCHANGED << waiting, inbox, items >> /\ at[j] = "sent"
        /\ Step(j, "leaving") /\ complete' = complete \cup {j}
    BY <1>9 DEF Complete, SetComplete, Kept, pool, loop, handed
  <2>2. at'[j] = "leaving" /\ \A i \in Job : i # j => at'[i] = at[i]
    BY <1>4, <2>1
  <2>3. \A i \in Job : Answered(i)' <=> Answered(i)
    BY <2>1, <2>2 DEF Answered
  <2>4. Told'
    BY <1>1, <1>2, <2>1, <2>3, SilentStep DEF Kept
  <2>5. Life(j)'
    BY <1>3, <2>1, <2>2 DEF Life, Kept
  <2> QED BY <1>1, <1>5, <2>1, <2>2, <2>4, <2>5, JobMoves
<1>10. ASSUME Panic(j) \/ PanicIter(j) PROVE IInv'
  <2>1. /\ Kept /\ UNCHANGED << waiting, complete, inbox, items >>
        /\ \/ at[j] = "function" /\ kind[j] = "one" /\ Step(j, "leaving")
           \/ at[j] \in {"function", "iterator"} /\ kind[j] = "iter" /\ Step(j, "silent")
    BY <1>10 DEF Panic, PanicIter, Kept, pool, loop, handed
  <2>2. /\ \/ at[j] = "function" /\ kind[j] = "one" /\ at'[j] = "leaving"
           \/ at[j] \in {"function", "iterator"} /\ kind[j] = "iter" /\ at'[j] = "silent"
        /\ \A i \in Job : i # j => at'[i] = at[i]
    BY <1>4, <2>1
  <2>3. \A i \in Job : Answered(i)' <=> Answered(i)
    BY <1>3, <2>1, <2>2 DEF Answered, Life
  <2>4. Told'
    BY <1>1, <1>2, <2>1, <2>3, SilentStep DEF Kept
  <2>5. Life(j)'
    BY <1>3, <2>1, <2>2 DEF Life, Kept
  <2> QED BY <1>1, <1>5, <2>1, <2>2, <2>4, <2>5, JobMoves
<1>11. ASSUME Leave(j) PROVE IInv'
  <2>1. /\ Kept /\ UNCHANGED << waiting, complete, items >>
        /\ Step(j, "over") /\ at[j] = "leaving" /\ DropWrapper(j)
    BY <1>11 DEF Leave, Kept, pool, loop, handed
  <2>2. at'[j] = "over" /\ \A i \in Job : i # j => at'[i] = at[i]
    BY <1>4, <2>1
  <2>3. kind[j] = "one" /\ Life(j)'
    BY <1>3, <2>1, <2>2 DEF Life, Kept
  <2>4. CASE j \in complete
    <3>1. UNCHANGED inbox /\ \A i \in Job : Answered(i)' <=> Answered(i)
      BY <2>1, <2>2, <2>4 DEF Answered, DropWrapper
    <3>2. Told'
      BY <1>1, <1>2, <2>1, <3>1, SilentStep DEF Kept
    <3> QED BY <1>1, <1>5, <2>1, <2>2, <2>3, <3>1, <3>2, JobMoves
  <2>5. CASE j \notin complete
    <3>1. Post(j, "panicked", 0) /\ ~Answered(j) /\ "panicked" \in Data /\ 0 \in Nat
      BY <2>1, <2>5 DEF DropWrapper, Answered, Data
    <3>2. FinalAnswer(j, "panicked")
      BY <2>1, <2>2, <2>3 DEF FinalAnswer, Answered, Streams!Final
    <3>3. Told'
      BY <1>1, <1>2, <2>1, <3>1, <3>2, PostStep DEF Kept
    <3> QED BY <1>1, <1>6, <2>1, <2>2, <2>3, <3>1, <3>3, JobMoves
  <2> QED BY <2>4, <2>5
<1>12. ASSUME MakeIterator(j) PROVE IInv'
  <2>1. /\ Kept /\ UNCHANGED << waiting, complete, items >>
        /\ at[j] = "function" /\ kind[j] = "iter"
        /\ \/ Step(j, "iterator") /\ UNCHANGED inbox
           \/ Step(j, "over") /\ Post(j, "error", 0)
    BY <1>12 DEF MakeIterator, Kept, pool, loop, handed
  <2>2. items[j] = 0 /\ j \notin complete /\ ~Answered(j)
    BY <1>3, <2>1 DEF Life, Answered
  <2>3. CASE Step(j, "iterator") /\ UNCHANGED inbox
    <3>1. at'[j] = "iterator" /\ \A i \in Job : i # j => at'[i] = at[i]
      BY <1>4, <2>3
    <3>2. \A i \in Job : Answered(i)' <=> Answered(i)
      BY <2>1, <2>2, <3>1 DEF Answered
    <3>3. Told'
      BY <1>1, <1>2, <2>1, <2>3, <3>2, SilentStep DEF Kept
    <3>4. Life(j)'
      BY <1>3, <2>1, <2>2, <3>1 DEF Life, Kept
    <3> QED BY <1>1, <1>5, <2>1, <2>3, <3>1, <3>3, <3>4, JobMoves
  <2>4. CASE Step(j, "over") /\ Post(j, "error", 0)
    <3>1. at'[j] = "over" /\ \A i \in Job : i # j => at'[i] = at[i]
      BY <1>4, <2>4
    <3>2. FinalAnswer(j, "error") /\ "error" \in Data /\ 0 \in Nat
      BY <2>1, <2>2, <2>4, <3>1 DEF FinalAnswer, Answered, Streams!Final, Data
    <3>3. Told'
      BY <1>1, <1>2, <2>1, <2>2, <2>4, <3>2, PostStep DEF Kept
    <3>4. Life(j)'
      BY <1>3, <2>1, <2>2, <3>1 DEF Life, Kept
    <3> QED BY <1>1, <1>6, <2>1, <2>4, <3>1, <3>3, <3>4, JobMoves
  <2> QED BY <2>1, <2>3, <2>4
<1>13. ASSUME SendItem(j) PROVE IInv'
  <2>1. /\ Kept /\ UNCHANGED << waiting, complete, at >> /\ at[j] = "iterator"
        /\ Post(j, "item", items[j] + 1) /\ items' = [items EXCEPT ![j] = @ + 1]
    BY <1>13 DEF SendItem, Kept, pool, loop, handed
  <2>2. kind[j] = "iter" /\ ~Answered(j) /\ items[j] + 1 \in Nat /\ "item" \in Data
    BY <1>1, <1>3, <2>1 DEF Life, Answered, Data, TypeOK
  <2>3. NextItem(j, "item", items[j] + 1)
    BY <2>1, <2>2 DEF NextItem
  <2>4. Told'
    BY <1>1, <1>2, <2>1, <2>2, <2>3, PostStep DEF Kept
  <2>5. Life(j)'
    BY <1>3, <2>1, <2>2 DEF Life, Kept
  <2>6. \A i \in Job : i # j => items'[i] = items[i]
    BY <1>1, <2>1 DEF TypeOK
  <2> QED BY <1>1, <1>6, <2>1, <2>4, <2>5, <2>6, JobMoves
<1>14. ASSUME SendEnd(j) PROVE IInv'
  <2>1. /\ Kept /\ UNCHANGED << waiting, complete, items >> /\ at[j] = "iterator"
        /\ Post(j, "end", 0) /\ Step(j, "over")
    BY <1>14 DEF SendEnd, Kept, pool, loop, handed
  <2>2. at'[j] = "over" /\ \A i \in Job : i # j => at'[i] = at[i]
    BY <1>4, <2>1
  <2>3. kind[j] = "iter" /\ ~Answered(j) /\ 0 \in Nat /\ "end" \in Data
    BY <1>3, <2>1 DEF Life, Answered, Data
  <2>4. FinalAnswer(j, "end")
    BY <2>1, <2>2, <2>3 DEF FinalAnswer, Answered, Streams!Final
  <2>5. Told'
    BY <1>1, <1>2, <2>1, <2>3, <2>4, PostStep DEF Kept
  <2>6. Life(j)'
    BY <1>3, <2>1, <2>2, <2>3 DEF Life, Kept
  <2> QED BY <1>1, <1>6, <2>1, <2>2, <2>5, <2>6, JobMoves
<1> QED BY <1>7, <1>8, <1>9, <1>10, <1>11, <1>12, <1>13, <1>14 DEF Thread

LEMMA LoopInv ==
    ASSUME IInv, LoopCode \/ PollOther \/ PollChannel
    PROVE  IInv'
<1>1. TypeOK' /\ TypeOK
  BY LoopTypes DEF IInv
<1>2. Told /\ Control /\ \A i \in Job : kind[i] = "none" => ~Answered(i)
  BY NoneUnanswered DEF IInv, Told
<1>3. UNCHANGED << waiting, kind, at, complete, items, gone >>
  BY DEF LoopCode, Skip, Busy, Dispatch, Take, Gather, Receive, PollOther, PollChannel, pool, jobs
<1>4. Told'
  <2>1. CASE Skip \/ Busy \/ Dispatch
    <3>1. Takes
      BY <1>1, <2>1, LoopTakes
    <3> QED BY <1>1, <1>2, <3>1, TakeStep
  <2>2. CASE Gather
    <3>1. UNCHANGED << scheduled, inbox, given, answers >>
      BY <2>2 DEF Gather, handed
    <3>2. \A j \in Job : Answered(j)' <=> Answered(j)
      BY <1>3 DEF Answered
    <3> QED BY <1>1, <1>2, <1>3, <3>1, <3>2, SilentStep
  <2>3. CASE Receive
    BY <1>1, <1>2, <2>3, ReceiveStep
  <2>4. CASE PollOther \/ PollChannel
    BY <1>1, <1>2, <2>4, PollStep
  <2> QED BY <2>1, <2>2, <2>3, <2>4 DEF LoopCode
<1>5. \A j \in Job : Life(j)'
  BY <1>3 DEF IInv, Life
<1>6. WaitsOnce'
  BY <1>3 DEF IInv, WaitsOnce
<1>7. Control'
  <2>1. ~gone
    BY <1>2 DEF Control, LoopCode, Skip, Busy, Dispatch, Take, Gather, Receive, PollOther, PollChannel
  <2>2. pc' = "poll" => scheduled' = << >>
    BY DEF LoopCode, Skip, Busy, Dispatch, Take, Gather, Receive, PollOther, PollChannel
  <2> QED BY <1>3, <2>1, <2>2 DEF Control
<1> QED BY <1>1, <1>4, <1>5, <1>6, <1>7 DEF IInv, Told

LEMMA StutterInv ==
    ASSUME IInv, UNCHANGED vars
    PROVE  IInv'
<1>1. /\ UNCHANGED << threads, waiting, kind, requestor, at, complete, items, inbox, gone >>
      /\ UNCHANGED << live, born, scheduled, calls, pc, given, answers >>
  BY DEF vars, pool, jobs, loop, handed
<1>2. TypeOK'
  BY <1>1 DEF IInv, TypeOK
<1>3. Told /\ \A j \in Job : kind[j] = "none" => ~Answered(j)
  BY NoneUnanswered DEF IInv, Told
<1>4. Told'
  <2>1. \A j \in Job : Answered(j)' <=> Answered(j)
    BY <1>1 DEF Answered
  <2> QED BY <1>1, <1>3, <2>1, SilentStep DEF IInv
<1>5. \A j \in Job : Life(j)'
  BY <1>1 DEF IInv, Life
<1>6. WaitsOnce' /\ Control'
  BY <1>1 DEF IInv, WaitsOnce, Control
<1> QED BY <1>2, <1>4, <1>5, <1>6 DEF IInv, Told

LEMMA InvStep == IInv /\ [Next]_vars => IInv'
BY UserInv, ThreadInv, LoopInv, StutterInv DEF Next

-----------------------------------------------------------------------------
(* Who is to get a result.                                                 *)

LEMMA InitAddressed == Init => Addressed
BY InEmpty DEF Init, Addressed, UnderWay

LEMMA ThreadAddressed ==
    ASSUME TypeOK, Addressed, NEW j \in Job, Thread(j)
    PROVE  Addressed'
<1>1. UNCHANGED << scheduled, requestor >>
  BY DEF Thread, Start, SendResult, Complete, Panic, Leave, MakeIterator, SendItem,
         SendEnd, PanicIter, loop
<1>2. UNCHANGED inbox \/ \E data \in Data, item \in Nat : Post(j, data, item)
  <2>1. items[j] + 1 \in Nat /\ {"value", "error", "panicked", "item", "end"} \subseteq Data
    BY DEF TypeOK, Data
  <2> QED BY <2>1 DEF Thread, Start, SendResult, Complete, Panic, Leave, DropWrapper,
                      MakeIterator, SendItem, SendEnd, PanicIter
<1>3. CASE UNCHANGED inbox
  BY <1>1, <1>3 DEF Addressed, UnderWay
<1>4. ASSUME NEW data \in Data, NEW item \in Nat, Post(j, data, item) PROVE Addressed'
  <2> DEFINE l == [to |-> requestor[j], job |-> j, data |-> data, item |-> item]
  <2>1. l \in Letter /\ l.to = requestor[l.job] /\ inbox \in Seq(Letter)
    BY DEF TypeOK, Letter
  <2>2. inbox' = inbox \/ inbox' = Append(inbox, l)
    BY <1>4 DEF Post
  <2> HIDE DEF l
  <2>3. \A y \in UnderWay' : y \in UnderWay \/ y = l
    BY <1>1, <2>1, <2>2, InLonger DEF UnderWay
  <2> QED BY <1>1, <2>1, <2>3 DEF Addressed
<1> QED BY <1>2, <1>3, <1>4

LEMMA LoopAddressed ==
    ASSUME TypeOK, Control, Addressed, LoopCode \/ PollOther \/ PollChannel
    PROVE  Addressed'
<1>1. /\ UNCHANGED requestor
      /\ scheduled \in Seq(Task) /\ inbox \in Seq(Letter)
  BY DEF LoopCode, Skip, Busy, Dispatch, Take, Gather, Receive, PollOther, PollChannel, jobs, TypeOK
<1>2. \A l \in UnderWay' : IsResult(l) => l \in UnderWay
  <2>1. CASE Skip \/ Busy \/ Dispatch
    <3>1. scheduled # << >> /\ scheduled' = Tail(scheduled) /\ inbox' = inbox
      BY <2>1 DEF Skip, Busy, Dispatch, Take
    <3> QED BY <1>1, <3>1, InRest DEF UnderWay
  <2>2. CASE Gather
    BY <2>2 DEF Gather, UnderWay
  <2>3. CASE Receive
    <3>1. CASE inbox # << >>
      <4>1. /\ scheduled' = Append(scheduled, Head(inbox)) /\ inbox' = Tail(inbox)
            /\ Head(inbox) \in Task
        BY <1>1, <2>3, <3>1, Rest, LetterFacts DEF Receive, Passed
      <4>2. /\ \A y : y \in In(inbox) <=> y \in In(inbox') \/ y = Head(inbox)
            /\ \A y : y \in In(scheduled') <=> y \in In(scheduled) \/ y = Head(inbox)
        BY <1>1, <3>1, <4>1, InRest, InLonger
      <4> QED BY <4>2 DEF UnderWay
    <3>2. CASE inbox = << >>
      BY <2>3, <3>2 DEF Receive, UnderWay
    <3> QED BY <3>1, <3>2
  <2>4. CASE PollOther \/ PollChannel
    <3>1. live \subseteq Event /\ (scheduled' \in Others \/ scheduled' = scheduled) /\ inbox' = inbox
      BY <2>4 DEF TypeOK, Event, PollOther, PollChannel
    <3> QED BY <3>1, OthersFacts DEF UnderWay
  <2> QED BY <2>1, <2>2, <2>3, <2>4 DEF LoopCode
<1> QED BY <1>1, <1>2 DEF Addressed

LEMMA UserAddressed ==
    ASSUME TypeOK, Letters, Addressed, UserCode,
           \A j \in Job : kind[j] = "none" => ~Answered(j)
    PROVE  Addressed'
<1>1. ASSUME NEW j \in Job, NEW k \in Kind, Submit(j, k) PROVE Addressed'
  <2>1. UNCHANGED << scheduled, inbox >> /\ kind[j] = "none"
    BY <1>1 DEF Submit, loop
  <2>2. ASSUME NEW l \in UnderWay, IsResult(l) PROVE l.to = requestor'[l.job]
    <3>1. l.job \in Job /\ Fits(l)
      BY <2>2, FitsFacts DEF Letters
    <3>2. l.job # j
      BY <2>1, <3>1 DEF Fits, ItemFits, AnswerFits
    <3>3. requestor'[l.job] = requestor[l.job]
      BY <1>1, <3>1, <3>2 DEF Submit, TypeOK
    <3> QED BY <2>2, <3>3 DEF Addressed
  <2> QED BY <2>1, <2>2 DEF Addressed, UnderWay
<1>2. ASSUME DropLoop PROVE Addressed'
  BY <1>2, InEmpty DEF DropLoop, Addressed, UnderWay
<1>3. ASSUME \/ Insert \/ RunOne
             \/ \E n \in 1 .. MaxThreads : PoolThreadCountSet(n)
             \/ \E keep \in BOOLEAN : Return(keep)
      PROVE  Addressed'
  BY <1>3 DEF Insert, RunOne, PoolThreadCountSet, Return, jobs, loop, Addressed, UnderWay
<1> QED BY <1>1, <1>2, <1>3 DEF UserCode

LEMMA AddressedStep == IInv /\ Addressed /\ [Next]_vars => Addressed'
<1>1. UNCHANGED vars /\ Addressed => Addressed'
  BY DEF vars, jobs, loop, Addressed, UnderWay
<1> QED BY <1>1, ThreadAddressed, LoopAddressed, UserAddressed, NoneUnanswered DEF IInv, Next

-----------------------------------------------------------------------------
(* The theorems.                                                           *)

\* The state of background tasks is well formed: threads never outnumber the pool's
\* bound, and what is under way is a letter of a task that was submitted.
THEOREM BackgroundTypeCorrect == Spec => []TypeOK
<1>1. IInv => TypeOK
  BY DEF IInv
<1> QED BY InitInv, InvStep, <1>1, PTL DEF Spec

\* An event that is pushed on the stack or popped is the one that could not be called
\* meanwhile.
LEMMA NobodyCalled == Init => Callable = {}
BY DEF Init, Callable

LEMMA CalledLonger ==
    ASSUME TypeOK, NEW e \in Event, calls' = Append(calls, e), live' = live
    PROVE  Callable' = Callable \ {e}
<1>1. calls \in Seq(Event)
  BY DEF TypeOK
<1>2. \A y : y \in In(calls') <=> y \in In(calls) \/ y = e
  BY <1>1, InLonger
<1>3. Called = In(calls) /\ Called' = In(calls')
  BY DEF Called, In
<1> QED BY <1>2, <1>3 DEF Callable

LEMMA TopIsCalled ==
    ASSUME TypeOK, calls # << >>
    PROVE  Top \notin Callable
<1>1. calls \in Seq(Event) /\ Len(calls) \in 1 .. Len(calls)
  BY DEF TypeOK
<1> QED BY <1>1 DEF Top, Callable, Called

LEMMA StreamsInit == Init => Streams!Init
<1> SUFFICES ASSUME Init PROVE Streams!Init
  OBVIOUS
<1>1. DOMAIN requestor = Job
  BY DEF Init
<1> QED BY <1>1, NobodyCalled DEF Init, Streams!Init

\* The turn of the task at the head of the queue is that of its result in the stream,
\* which reaches its event just if it can be called.
LEMMA TakeIsTurn ==
    ASSUME TypeOK, Skip \/ Busy \/ Dispatch, IsResult(Head(scheduled)),
           Head(scheduled).job \in Job, requestor[Head(scheduled).job] = Head(scheduled).to
    PROVE  LET h == Head(scheduled)
           IN  \/ HandOver(h) /\ Streams!Reaches(h.job)
               \/ Lose(h) /\ Streams!Misses(h.job)
<1> DEFINE h == Head(scheduled)
<1>1. live' = live /\ Head(scheduled).to \in Event
  BY LoopTakes, TakeType DEF Skip, Busy, Dispatch, Take
<1>2. CASE Skip \/ Busy
  <2>1. Lose(h) /\ calls' = calls
    BY <1>2 DEF Skip, Busy
  <2>2. h.to \notin Callable
    BY <1>2 DEF Skip, Busy, Callable
  <2>3. UNCHANGED Callable
    BY <1>1, <2>1 DEF Callable, Called
  <2> QED BY <2>1, <2>2, <2>3 DEF Streams!Misses
<1>3. CASE Dispatch
  <2>1. HandOver(h) /\ h.to \in Callable /\ calls' = Append(calls, h.to)
    BY <1>3 DEF Dispatch
  <2>2. Callable' = Callable \ {h.to}
    BY <1>1, <2>1, CalledLonger
  <2> QED BY <2>1, <2>2 DEF Streams!Reaches
<1> QED BY <1>2, <1>3

\* What becomes of a task is a step of the stream of its job.
LEMMA StreamsStep == IInv /\ Addressed /\ [Next]_vars => [Streams!Next]_(Streams!vars)
<1> SUFFICES ASSUME IInv, Addressed, [Next]_vars PROVE Streams!Next
  OBVIOUS
<1>0. TypeOK
  BY DEF IInv
<1>1. ASSUME NEW j \in Job, NEW k \in Kind, Submit(j, k) PROVE Streams!Next
  <2>1. requestor' = [requestor EXCEPT ![j] = Top] /\ calls # << >> /\ requestor \in [Job -> Event]
    BY <1>0, <1>1 DEF Submit, InCallback, TypeOK
  <2>2. requestor'[j] = Top /\ requestor'[j] \notin Callable
    BY <1>0, <2>1, TopIsCalled
  <2>3. UNCHANGED Callable
    BY <1>1 DEF Submit, loop, Callable, Called
  <2>4. Streams!Submit(j, k)
    BY <1>1, <2>1, <2>2, <2>3 DEF Submit, Streams!Submit, handed
  <2> QED BY <2>4 DEF Streams!Next, Streams!Kind, Kind
<1>2. ASSUME Skip \/ Busy \/ Dispatch PROVE Streams!Next
  <2> DEFINE h == Head(scheduled)
  <2>1. Take /\ (HandOver(h) \/ Lose(h))
    BY <1>2 DEF Skip, Busy, Dispatch
  <2>2. UNCHANGED << kind, requestor >>
    BY <2>1 DEF Take, jobs
  <2>3. IsResult(h) =>
          /\ h.job \in Job /\ kind[h.job] # "none" /\ answers[h.job] = << >>
          /\ IsItem(h) => kind[h.job] = "iter" /\ h.item = Len(given[h.job]) + 1
          /\ ~IsItem(h) => /\ h.data \in Streams!Final(kind[h.job])
                           /\ h.data = "error" => given[h.job] = << >>
    BY <2>1, NoneUnanswered, TakeIsNext DEF IInv, Told
  <2>4. IsResult(h) => \/ HandOver(h) /\ Streams!Reaches(h.job)
                       \/ Lose(h) /\ Streams!Misses(h.job)
    <3>1. IsResult(h) => requestor[h.job] = h.to
      <4>1. h \in In(scheduled)
        BY <1>0, <2>1, InRest DEF Take, TypeOK
      <4> QED BY <4>1 DEF Addressed, UnderWay
    <3> QED BY <1>0, <1>2, <2>3, <3>1, TakeIsTurn
  <2> HIDE DEF h
  <2>5. CASE ~IsResult(h)
    BY <2>1, <2>2, <2>5 DEF HandOver, Lose, Record, handed, Streams!Next, Streams!Events
  <2>6. CASE IsResult(h) /\ IsItem(h)
    <3>1. Streams!Item(h.job)
      <4>1. CASE HandOver(h) /\ Streams!Reaches(h.job)
        BY <2>2, <2>3, <2>6, <4>1 DEF HandOver, Record, Streams!Item
      <4>2. CASE Lose(h) /\ Streams!Misses(h.job)
        BY <2>2, <2>3, <2>6, <4>2 DEF Lose, Record, Streams!Item, NoValue, Streams!NoValue
      <4> QED BY <2>4, <2>6, <4>1, <4>2
    <3> QED BY <2>3, <2>6, <3>1 DEF Streams!Next
  <2>7. CASE IsResult(h) /\ ~IsItem(h)
    <3>1. h.data \in Streams!Final("one") \cup Streams!Final("iter")
      BY <2>3, <2>7 DEF Streams!Final
    <3>2. \A a : Append(<< >>, a) = << a >>
      OBVIOUS
    <3>3. Streams!Answer(h.job, h.data)
      <4>1. CASE HandOver(h) /\ Streams!Reaches(h.job)
        <5>1. answers' = [answers EXCEPT ![h.job] = << h.data >>] /\ UNCHANGED given
          BY <2>3, <2>7, <3>2, <4>1 DEF HandOver, Record
        <5> QED BY <2>2, <2>3, <2>7, <4>1, <5>1 DEF Streams!Answer
      <4>2. CASE Lose(h) /\ Streams!Misses(h.job)
        <5>1. answers' = [answers EXCEPT ![h.job] = << "lost" >>] /\ UNCHANGED given
          BY <2>3, <2>7, <3>2, <4>2 DEF Lose, Record
        <5> QED BY <2>2, <2>3, <2>7, <4>2, <5>1 DEF Streams!Answer
      <4> QED BY <2>4, <2>7, <4>1, <4>2
    <3> QED BY <2>3, <2>7, <3>1, <3>3 DEF Streams!Next
  <2> QED BY <2>5, <2>6, <2>7
<1>3. ASSUME \/ Insert \/ RunOne \/ DropLoop
             \/ \E n \in 1 .. MaxThreads : PoolThreadCountSet(n)
             \/ \E keep \in BOOLEAN : Return(keep)
             \/ Gather \/ Receive \/ PollOther \/ PollChannel
      PROVE  UNCHANGED << kind, requestor, given, answers >>
  BY <1>3 DEF Insert, RunOne, DropLoop, PoolThreadCountSet, Return, Gather, Receive,
              PollOther, PollChannel, jobs, handed
<1>4. ASSUME NEW j \in Job, Thread(j) PROVE UNCHANGED << kind, requestor, given, answers >>
  BY <1>4 DEF Thread, Start, SendResult, Complete, Panic, Leave, MakeIterator, SendItem,
              SendEnd, PanicIter, handed
<1>5. ASSUME UNCHANGED vars PROVE UNCHANGED << kind, requestor, given, answers >>
  BY <1>5 DEF vars, jobs, handed
<1>6. UNCHANGED << kind, requestor, given, answers >> => Streams!Next
  BY DEF Streams!Next, Streams!Events
<1> QED BY <1>1, <1>2, <1>3, <1>4, <1>5, <1>6 DEF Next, UserCode, LoopCode

\* Each task is answered at most once, by its result or by the news of its panic, and
\* the values of an iterator come before it, each once and in order; what a callback
\* misses of this is just what its turn came for while its event was dead or busy.
\* That is so whatever the threads, nested callbacks and the death of the requestor or
\* the loop do between sending and handing over.
THEOREM ResultsAreStreams == Spec => IsResultStreams
<1> QED BY InitInv, InvStep, InitAddressed, AddressedStep, StreamsInit, StreamsStep, PTL
        DEF Spec, IsResultStreams, Streams!Spec, Streams!vars
=============================================================================
