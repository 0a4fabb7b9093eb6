---------------------------- MODULE TimersProofs ----------------------------
(***************************************************************************)
(* Proofs about Timers, for any number of events, timeouts and instants    *)
(* and any limits of the pruning.                                          *)
(*                                                                         *)
(* The counters are compared with sets of ids: those of the timeouts of    *)
(* some events, wherever these wait (IdsIn).  StatsExact is inductive once *)
(* it is known that each id is in use once and that called events live     *)
(* (Book).                                                                 *)
(***************************************************************************)
EXTENDS Timers, TLAPS, FiniteSetTheorems, SequenceTheorems

\* The places of a queue with a timeout.
Timeouts(q) == {k \in 1 .. Len(q) : q[k].id # NoTimeout}

\* No id is in heap h and queue q twice.
Once(h, q) ==
    /\ \A t, u \in h : t.id = u.id => t = u
    /\ \A j, k \in Timeouts(q) : q[j].id = q[k].id => j = k
    /\ \A t \in h : \A k \in Timeouts(q) : t.id # q[k].id

\* Ids below g are in use, and for events below b.
InBounds(h, q, g, b) ==
    /\ \A t \in h : t.id \in 0 .. g - 1 /\ t.to \in 0 .. b - 1
    /\ \A k \in Timeouts(q) : q[k].id \in 0 .. g - 1 /\ q[k].to \in 0 .. b - 1

\* Timeout id of event e is in h or q.
Owns(h, q, id, e) == \/ \E t \in h : t.id = id /\ t.to = e
                     \/ \E k \in Timeouts(q) : q[k].id = id /\ q[k].to = e

\* The ids of the timeouts that events in E have in h and q.
Of(h, E) == {t \in h : t.to \in E}
IdsIn(h, q, E) ==
    {t.id : t \in Of(h, E)} \cup {q[k].id : k \in {j \in Timeouts(q) : q[j].to \in E}}

\* TypeOK but for two numbers that only StatsExact tells to be natural.
Typed ==
    /\ clock \in Instant /\ now \in Instant
    /\ heap \subseteq TimeoutHolder
    /\ timeout_generation \in Nat /\ born \in Nat
    /\ timeouts_inserted \in Nat /\ timeouts_fired \in Nat /\ timeouts_dead \in Int
    /\ scheduled \in Seq(Task)
    /\ calls \in Seq(Event)
    /\ pc \in {"user", "run_one", "poll"}

\* Called events live, and none is called twice.
StackLives ==
    /\ \A i \in 1 .. Len(calls) : calls[i] \in Live
    /\ \A i, j \in 1 .. Len(calls) : calls[i] = calls[j] => i = j

Book ==
    /\ IsFiniteSet(heap)
    /\ Once(heap, scheduled)
    /\ InBounds(heap, scheduled, timeout_generation, born)
    /\ Live \subseteq 0 .. born - 1
    /\ StackLives
    /\ pc = "poll" => scheduled = << >>

\* StatsExact, as a statement of its variables.
Exact(h, q, inserted, fired, dead, count, b) ==
    LET removed == inserted - Cardinality(h) - fired - Cardinality(Timeouts(q))
    IN  /\ removed >= 0
        /\ dead - removed = Cardinality(IdsIn(h, q, (0 .. b - 1) \ DOMAIN count))
        /\ \A e \in DOMAIN count : count[e] = Cardinality(IdsIn(h, q, {e}))

IInv == Typed /\ Book /\ StatsExact

-----------------------------------------------------------------------------
(* Queues.                                                                 *)

LEMMA Longer ==
    ASSUME NEW S, NEW s \in Seq(S), NEW x \in S
    PROVE  /\ Append(s, x) \in Seq(S)
           /\ Len(Append(s, x)) = Len(s) + 1 /\ Len(s) \in Nat
           /\ \A i \in 1 .. Len(s) : Append(s, x)[i] = s[i]
           /\ Append(s, x)[Len(s) + 1] = x
OBVIOUS

LEMMA Rest ==
    ASSUME NEW S, NEW s \in Seq(S), s # << >>
    PROVE  /\ Tail(s) \in Seq(S) /\ Len(s) \in Nat \ {0} /\ Len(Tail(s)) = Len(s) - 1
           /\ \A i \in 1 .. Len(Tail(s)) : Tail(s)[i] = s[i + 1]
           /\ Head(s) = s[1] /\ s[1] \in S
OBVIOUS

LEMMA Shorter ==
    ASSUME NEW S, NEW s \in Seq(S), s # << >>
    PROVE  /\ SubSeq(s, 1, Len(s) - 1) \in Seq(S)
           /\ Len(SubSeq(s, 1, Len(s) - 1)) = Len(s) - 1 /\ Len(s) \in Nat \ {0}
           /\ \A i \in 1 .. Len(s) - 1 : SubSeq(s, 1, Len(s) - 1)[i] = s[i]
           /\ s[Len(s)] \in S
<1>1. Len(s) \in Nat \ {0}
  OBVIOUS
<1>2. PICK n \in Nat : n + 1 = Len(s)
  BY <1>1
<1>3. SubSeq(s, 1, n) = [i \in 1 .. n |-> s[i]] /\ Len(SubSeq(s, 1, n)) = n
  BY <1>2
<1>4. SubSeq(s, 1, n) \in Seq(S)
  BY <1>2, <1>3
<1>5. n = Len(s) - 1 /\ Len(s) \in 1 .. Len(s)
  BY <1>2
<1> QED BY <1>1, <1>3, <1>4, <1>5

\* A timeout's id is a number; other tasks have none.
LEMMA TimeoutIds ==
    ASSUME NEW q \in Seq(Task)
    PROVE  /\ \A k \in 1 .. Len(q) : q[k].to \in Event /\ q[k].id \in Nat \cup {NoTimeout}
           /\ \A k \in Timeouts(q) : k \in 1 .. Len(q) /\ q[k].id \in Nat
           /\ IsFiniteSet(Timeouts(q)) /\ Cardinality(Timeouts(q)) \in Nat
<1>1. ASSUME NEW k \in 1 .. Len(q)
      PROVE  q[k].to \in Event /\ q[k].id \in Nat \cup {NoTimeout}
  <2>1. q[k] \in Task
    OBVIOUS
  <2> QED BY <2>1 DEF Task
<1>2. Len(q) \in Nat
  OBVIOUS
<1>3. IsFiniteSet(1 .. Len(q))
  BY <1>2, FS_Interval
<1>4. IsFiniteSet(Timeouts(q))
  BY <1>3, FS_Subset DEF Timeouts
<1> QED BY <1>1, <1>4, FS_CardinalityType DEF Timeouts

\* The timeouts of a queue whose head is taken are one place further on.
LEMMA TailTimeouts ==
    ASSUME NEW q \in Seq(Task), q # << >>
    PROVE  /\ \A k \in Timeouts(Tail(q)) : k + 1 \in Timeouts(q) /\ Tail(q)[k] = q[k + 1]
           /\ \A k \in Timeouts(q) : k # 1 => k - 1 \in Timeouts(Tail(q))
           /\ 1 \in Timeouts(q) <=> Head(q).id # NoTimeout
           /\ Cardinality(Timeouts(Tail(q))) =
                  IF Head(q).id = NoTimeout THEN Cardinality(Timeouts(q))
                  ELSE Cardinality(Timeouts(q)) - 1
<1> DEFINE R == Timeouts(q) \ {1}
           f == [k \in R |-> k - 1]
<1>1. /\ Len(q) \in Nat \ {0} /\ Len(Tail(q)) = Len(q) - 1 /\ Head(q) = q[1]
      /\ \A i \in 1 .. Len(Tail(q)) : Tail(q)[i] = q[i + 1]
  BY Rest
<1>2. \A k \in Timeouts(Tail(q)) : k \in Nat /\ k + 1 \in R /\ Tail(q)[k] = q[k + 1]
  BY <1>1 DEF Timeouts
<1>3. \A k \in R : k \in Nat /\ k - 1 \in Timeouts(Tail(q))
  <2> TAKE k \in R
  <2>1. k \in 2 .. Len(q) /\ q[k].id # NoTimeout
    BY <1>1 DEF Timeouts
  <2>2. k - 1 \in 1 .. Len(Tail(q)) /\ (k - 1) + 1 = k
    BY <1>1, <2>1
  <2> QED BY <1>1, <2>1, <2>2 DEF Timeouts
<1>4. 1 \in Timeouts(q) <=> Head(q).id # NoTimeout
  BY <1>1 DEF Timeouts
<1>5. f \in Bijection(R, Timeouts(Tail(q)))
  <2>1. f \in [R -> Timeouts(Tail(q))]
    BY <1>3
  <2>2. \A j, k \in R : f[j] = f[k] => j = k
    BY <1>3
  <2>3. \A k \in Timeouts(Tail(q)) : k + 1 \in R /\ f[k + 1] = k
    BY <1>2
  <2> QED BY <2>1, <2>2, <2>3 DEF Bijection, Injection, Surjection, IsInjective
<1>6. IsFiniteSet(R)
      /\ Cardinality(R) = IF 1 \in Timeouts(q) THEN Cardinality(Timeouts(q)) - 1
                          ELSE Cardinality(Timeouts(q))
  BY TimeoutIds, FS_RemoveElement
<1>7. Cardinality(Timeouts(Tail(q))) = Cardinality(R)
  BY <1>5, <1>6, FS_Bijection DEF ExistsBijection
<1> QED BY <1>2, <1>3, <1>4, <1>6, <1>7

-----------------------------------------------------------------------------
(* The ids of the timeouts of some events.                                 *)

LEMMA IdsHeld ==
    ASSUME NEW h, NEW q, NEW E, NEW id
    PROVE  id \in IdsIn(h, q, E) <=>
              \/ \E t \in h : t.to \in E /\ t.id = id
              \/ \E k \in Timeouts(q) : q[k].to \in E /\ q[k].id = id
BY DEF IdsIn, Of

LEMMA IdsFinite ==
    ASSUME NEW h, NEW q, NEW g \in Nat, NEW b, InBounds(h, q, g, b), NEW E
    PROVE  /\ IdsIn(h, q, E) \subseteq 0 .. g - 1
           /\ IsFiniteSet(IdsIn(h, q, E)) /\ Cardinality(IdsIn(h, q, E)) \in Nat
<1>1. IdsIn(h, q, E) \subseteq 0 .. g - 1
  BY IdsHeld DEF InBounds
<1>2. IsFiniteSet(0 .. g - 1)
  BY FS_Interval
<1>3. IsFiniteSet(IdsIn(h, q, E))
  BY <1>1, <1>2, FS_Subset
<1> QED BY <1>1, <1>3, FS_CardinalityType

\* PendingOf and PendingDead are ids of this kind.
LEMMA OwnedIds ==
    ASSUME NEW h, NEW q, NEW g, NEW b, InBounds(h, q, g, b)
    PROVE  /\ \A id, e : Owns(h, q, id, e) => id \in 0 .. g - 1 /\ e \in 0 .. b - 1
           /\ \A id, E : id \in IdsIn(h, q, E) <=> \E e \in E : Owns(h, q, id, e)
<1>1. ASSUME NEW id, NEW e, Owns(h, q, id, e) PROVE id \in 0 .. g - 1 /\ e \in 0 .. b - 1
  BY <1>1 DEF Owns, InBounds
<1>2. ASSUME NEW id, NEW E PROVE id \in IdsIn(h, q, E) <=> \E e \in E : Owns(h, q, id, e)
  BY IdsHeld DEF Owns
<1> QED BY <1>1, <1>2

LEMMA PendingIds ==
    ASSUME NEW h, NEW q, NEW g, NEW b, InBounds(h, q, g, b)
    PROVE  /\ \A e : {id \in 0 .. g - 1 : Owns(h, q, id, e)} = IdsIn(h, q, {e})
           /\ \A L : {id \in 0 .. g - 1 : \E e \in 0 .. b - 1 : Owns(h, q, id, e) /\ ~(e \in L)}
                   = IdsIn(h, q, (0 .. b - 1) \ L)
<1>1. ASSUME NEW e PROVE {id \in 0 .. g - 1 : Owns(h, q, id, e)} = IdsIn(h, q, {e})
  BY OwnedIds
<1>2. ASSUME NEW L
      PROVE  {id \in 0 .. g - 1 : \E e \in 0 .. b - 1 : Owns(h, q, id, e) /\ ~(e \in L)}
             = IdsIn(h, q, (0 .. b - 1) \ L)
  BY OwnedIds
<1> QED BY <1>1, <1>2

\* StatsExact, seen so.
LEMMA StatsAreExact ==
    ASSUME InBounds(heap, scheduled, timeout_generation, born)
    PROVE  /\ StatsExact <=> Exact(heap, scheduled, timeouts_inserted, timeouts_fired,
                                   timeouts_dead, timeouts, born)
           /\ \A e : PendingOf(e) = IdsIn(heap, scheduled, {e})
<1>1. QueuedTimeouts = Timeouts(scheduled)
  BY DEF QueuedTimeouts, Timeouts
<1>2. \A id, e : Owner(id, e) <=> Owns(heap, scheduled, id, e)
  BY <1>1 DEF Owner, Owns
<1>3. ASSUME NEW e PROVE PendingOf(e) = IdsIn(heap, scheduled, {e})
  <2>1. PendingOf(e) = {id \in 0 .. timeout_generation - 1 : Owns(heap, scheduled, id, e)}
    BY <1>2 DEF PendingOf
  <2> QED BY <2>1, PendingIds
<1>4. PendingDead = IdsIn(heap, scheduled, (0 .. born - 1) \ Live)
  <2>1. PendingDead = {id \in 0 .. timeout_generation - 1 : \E e \in 0 .. born - 1 :
                          Owns(heap, scheduled, id, e) /\ ~(e \in Live)}
    BY <1>2 DEF PendingDead, Alive
  <2> QED BY <2>1, PendingIds
<1> QED BY <1>1, <1>3, <1>4 DEF StatsExact, Exact, HandledDead, Live

LEMMA StatsAreExactNext ==
    ASSUME InBounds(heap', scheduled', timeout_generation', born')
    PROVE  /\ StatsExact' <=> Exact(heap', scheduled', timeouts_inserted', timeouts_fired',
                                    timeouts_dead', timeouts', born')
           /\ \A e : (PendingOf(e))' = IdsIn(heap', scheduled', {e})
<1>1. QueuedTimeouts' = Timeouts(scheduled')
  BY DEF QueuedTimeouts, Timeouts
<1>2. \A id, e : (Owner(id, e))' <=> Owns(heap', scheduled', id, e)
  BY <1>1 DEF Owner, Owns
<1>3. ASSUME NEW e PROVE (PendingOf(e))' = IdsIn(heap', scheduled', {e})
  <2>1. (PendingOf(e))' = {id \in 0 .. timeout_generation' - 1 : Owns(heap', scheduled', id, e)}
    BY <1>2 DEF PendingOf
  <2> QED BY <2>1, PendingIds
<1>4. PendingDead' = IdsIn(heap', scheduled', (0 .. born' - 1) \ DOMAIN timeouts')
  <2>1. PendingDead' = {id \in 0 .. timeout_generation' - 1 : \E e \in 0 .. born' - 1 :
                           Owns(heap', scheduled', id, e) /\ ~(e \in DOMAIN timeouts')}
    BY <1>2 DEF PendingDead, Alive, Live
  <2> QED BY <2>1, PendingIds
<1> QED BY <1>1, <1>3, <1>4 DEF StatsExact, Exact, HandledDead, Live

\* Different events have different timeouts.
Parted(both, E, F) == \A x : (x \in both <=> x \in E \/ x \in F) /\ ~(x \in E /\ x \in F)

LEMMA IdsSplit ==
    ASSUME NEW h, NEW q, NEW g \in Nat, NEW b, InBounds(h, q, g, b), Once(h, q),
           NEW E, NEW F, NEW both, Parted(both, E, F)
    PROVE  Cardinality(IdsIn(h, q, both)) =
               Cardinality(IdsIn(h, q, E)) + Cardinality(IdsIn(h, q, F))
<1>1. PICK ids, e, f : ids = IdsIn(h, q, both) /\ e = IdsIn(h, q, E) /\ f = IdsIn(h, q, F)
  OBVIOUS
<1>2. \A id : /\ id \in ids <=> id \in e \/ id \in f
              /\ ~(id \in e /\ id \in f)
  <2> TAKE id
  <2>1. id \in ids <=> id \in e \/ id \in f
    BY <1>1, IdsHeld DEF Parted
  <2>2. ASSUME id \in e, id \in f PROVE FALSE
    BY <1>1, <2>2, IdsHeld DEF Parted, Once
  <2> QED BY <2>1, <2>2
<1>3. ids = e \cup f /\ e \cap f = {}
  BY <1>2
<1>4. /\ IsFiniteSet(e) /\ IsFiniteSet(f)
      /\ Cardinality(e) \in Nat /\ Cardinality(f) \in Nat
  BY <1>1, IdsFinite
<1>5. Cardinality(e \cup f) = Cardinality(e) + Cardinality(f) - Cardinality(e \cap f)
  BY <1>4, FS_Union
<1>6. Cardinality(e \cap f) = 0
  BY <1>3, FS_EmptySet
<1>7. Cardinality(ids) = Cardinality(e \cup f)
  BY <1>3, Zenon
<1> QED BY <1>1, <1>4, <1>5, <1>6, <1>7

\* The head of the queue goes.
LEMMA IdsTail ==
    ASSUME NEW h, NEW q \in Seq(Task), q # << >>, Once(h, q), NEW E
    PROVE  IF Head(q).id # NoTimeout /\ Head(q).to \in E
           THEN /\ Head(q).id \in IdsIn(h, q, E)
                /\ IdsIn(h, Tail(q), E) = IdsIn(h, q, E) \ {Head(q).id}
           ELSE IdsIn(h, Tail(q), E) = IdsIn(h, q, E)
<1>0. PICK p : p = Tail(q)
  OBVIOUS
<1>1. /\ Head(q) = q[1]
      /\ \A k \in Timeouts(q) : k \in Nat
      /\ \A k \in Timeouts(p) : k \in Nat \ {0}
  BY <1>0, Rest DEF Timeouts
<1>2. /\ \A k \in Timeouts(p) : k + 1 \in Timeouts(q) /\ p[k] = q[k + 1]
      /\ \A k \in Timeouts(q) : k # 1 => k - 1 \in Timeouts(p)
      /\ 1 \in Timeouts(q) <=> Head(q).id # NoTimeout
  BY <1>0, TailTimeouts
<1>3. ASSUME NEW id
      PROVE  id \in IdsIn(h, p, E) <=>
                \/ \E t \in h : t.to \in E /\ t.id = id
                \/ \E k \in Timeouts(q) : k # 1 /\ q[k].to \in E /\ q[k].id = id
  <2>1. ASSUME NEW k \in Timeouts(p), p[k].to \in E, p[k].id = id
        PROVE  \E j \in Timeouts(q) : j # 1 /\ q[j].to \in E /\ q[j].id = id
    <3>1. k + 1 \in Timeouts(q) /\ k + 1 # 1 /\ q[k + 1] = p[k]
      BY <1>1, <1>2
    <3> QED BY <2>1, <3>1
  <2>2. ASSUME NEW k \in Timeouts(q), k # 1, q[k].to \in E, q[k].id = id
        PROVE  \E j \in Timeouts(p) : p[j].to \in E /\ p[j].id = id
    <3>1. k - 1 \in Timeouts(p) /\ (k - 1) + 1 = k
      BY <1>1, <1>2, <2>2
    <3>2. p[k - 1] = q[k]
      BY <1>2, <3>1
    <3> QED BY <2>2, <3>1, <3>2
  <2>3. id \in IdsIn(h, p, E) <=>
          \/ \E t \in h : t.to \in E /\ t.id = id
          \/ \E k \in Timeouts(p) : p[k].to \in E /\ p[k].id = id
    BY IdsHeld
  <2> QED BY <2>1, <2>2, <2>3
<1>4. ASSUME NEW id
      PROVE  id \in IdsIn(h, q, E) <=>
                \/ \E t \in h : t.to \in E /\ t.id = id
                \/ \E k \in Timeouts(q) : q[k].to \in E /\ q[k].id = id
  BY IdsHeld
<1>5. CASE 1 \in Timeouts(q) /\ q[1].to \in E
  <2>1. \A id : id \in IdsIn(h, p, E) <=> id \in IdsIn(h, q, E) /\ id # q[1].id
    BY <1>3, <1>4, <1>5 DEF Once
  <2>2. q[1].id \in IdsIn(h, q, E)
    BY <1>4, <1>5
  <2>3. IdsIn(h, p, E) = IdsIn(h, q, E) \ {q[1].id}
    BY <2>1
  <2> QED BY <1>0, <1>1, <1>2, <1>5, <2>2, <2>3
<1>6. CASE ~(1 \in Timeouts(q) /\ q[1].to \in E)
  <2>1. \A id : id \in IdsIn(h, p, E) <=> id \in IdsIn(h, q, E)
    BY <1>3, <1>4, <1>6
  <2>2. IdsIn(h, p, E) = IdsIn(h, q, E)
    BY <2>1
  <2> QED BY <1>0, <1>1, <1>2, <1>6, <2>2
<1> QED BY <1>5, <1>6

LEMMA QueueTaken ==
    ASSUME NEW h, NEW q \in Seq(Task), q # << >>, Once(h, q),
           NEW g \in Nat, NEW b, InBounds(h, q, g, b), NEW p \in {Tail(q)}
    PROVE  /\ p \in Seq(Task) /\ Head(q) \in Task
           /\ Once(h, p) /\ InBounds(h, p, g, b)
           /\ Head(q).id # NoTimeout => Head(q).to \in 0 .. b - 1
           /\ \A E : Cardinality(IdsIn(h, p, E)) =
                     IF Head(q).id # NoTimeout /\ Head(q).to \in E
                     THEN Cardinality(IdsIn(h, q, E)) - 1 ELSE Cardinality(IdsIn(h, q, E))
<1>0. p = Tail(q)
  OBVIOUS
<1>1. p \in Seq(Task) /\ Head(q) \in Task /\ Head(q) = q[1]
  BY Rest
<1>2. /\ \A k \in Timeouts(p) : k \in Nat /\ k + 1 \in Timeouts(q) /\ p[k] = q[k + 1]
      /\ 1 \in Timeouts(q) <=> Head(q).id # NoTimeout
  BY <1>0, <1>1, TailTimeouts DEF Timeouts
<1>3. ASSUME NEW j \in Timeouts(p), NEW k \in Timeouts(p), p[j].id = p[k].id
      PROVE  j = k
  <2>1. /\ j + 1 \in Timeouts(q) /\ k + 1 \in Timeouts(q)
        /\ q[j + 1].id = q[k + 1].id /\ j \in Nat /\ k \in Nat
    BY <1>2, <1>3
  <2>2. j + 1 = k + 1
    BY <2>1 DEF Once
  <2> QED BY <2>1, <2>2
<1>4. Once(h, p)
  <2>1. ASSUME NEW u \in h, NEW k \in Timeouts(p) PROVE u.id # p[k].id
    <3>1. k + 1 \in Timeouts(q) /\ p[k] = q[k + 1]
      BY <1>2
    <3> QED BY <3>1 DEF Once
  <2> QED BY <1>3, <2>1 DEF Once
<1>5. InBounds(h, p, g, b)
  BY <1>2 DEF InBounds
<1>6. Head(q).id # NoTimeout => Head(q).to \in 0 .. b - 1
  BY <1>1, <1>2 DEF InBounds
<1>7. ASSUME NEW E
      PROVE  Cardinality(IdsIn(h, p, E)) =
                IF Head(q).id # NoTimeout /\ Head(q).to \in E
                THEN Cardinality(IdsIn(h, q, E)) - 1 ELSE Cardinality(IdsIn(h, q, E))
  <2>1. IsFiniteSet(IdsIn(h, q, E))
    BY IdsFinite
  <2>2. CASE Head(q).id # NoTimeout /\ Head(q).to \in E
    <3>1. Cardinality(IdsIn(h, p, E)) = Cardinality(IdsIn(h, q, E) \ {Head(q).id})
      BY <1>0, <2>2, IdsTail, Zenon
    <3>2. Head(q).id \in IdsIn(h, q, E)
      BY <2>2, IdsTail
    <3>3. Cardinality(IdsIn(h, q, E) \ {Head(q).id}) = Cardinality(IdsIn(h, q, E)) - 1
      BY <2>1, <3>2, FS_RemoveElement
    <3> QED BY <2>2, <3>1, <3>3
  <2>3. CASE ~(Head(q).id # NoTimeout /\ Head(q).to \in E)
    <3>1. Cardinality(IdsIn(h, p, E)) = Cardinality(IdsIn(h, q, E))
      BY <1>0, <2>3, IdsTail, Zenon
    <3> QED BY <2>3, <3>1
  <2> QED BY <2>2, <2>3
<1> QED BY <1>1, <1>4, <1>5, <1>6, <1>7

\* A task that is no timeout comes.
LEMMA QueueSend ==
    ASSUME NEW q \in Seq(Task), NEW e \in Event, NEW p, p = Append(q, OtherTask(e))
    PROVE  /\ p \in Seq(Task) /\ Timeouts(p) = Timeouts(q)
           /\ \A k \in Timeouts(q) : p[k] = q[k]
<1>1. OtherTask(e) \in Task /\ OtherTask(e).id = NoTimeout
  BY DEF OtherTask, Task, NoTimeout
<1>2. /\ p \in Seq(Task) /\ Len(p) = Len(q) + 1 /\ Len(q) \in Nat
      /\ \A k \in 1 .. Len(q) : p[k] = q[k]
      /\ p[Len(q) + 1].id = NoTimeout
  BY <1>1, Longer
<1> QED BY <1>2 DEF Timeouts

\* Queues with the same timeouts are alike.
LEMMA SameTimeouts ==
    ASSUME NEW p, NEW q, Timeouts(p) = Timeouts(q), \A k \in Timeouts(q) : p[k] = q[k], NEW h
    PROVE  /\ Once(h, q) => Once(h, p)
           /\ \A g, b : InBounds(h, q, g, b) => InBounds(h, p, g, b)
           /\ \A E : IdsIn(h, p, E) = IdsIn(h, q, E)
<1>1. ASSUME NEW E PROVE IdsIn(h, p, E) = IdsIn(h, q, E)
  <2>1. \A k \in Timeouts(q) : p[k].id = q[k].id /\ p[k].to = q[k].to
    OBVIOUS
  <2>2. \A id : /\ id \in IdsIn(h, p, E) => id \in IdsIn(h, q, E)
                /\ id \in IdsIn(h, q, E) => id \in IdsIn(h, p, E)
    <3> TAKE id
    <3>1. id \in IdsIn(h, p, E) <=>
              \/ \E t \in h : t.to \in E /\ t.id = id
              \/ \E k \in Timeouts(q) : p[k].to \in E /\ p[k].id = id
      BY IdsHeld
    <3>2. id \in IdsIn(h, q, E) <=>
              \/ \E t \in h : t.to \in E /\ t.id = id
              \/ \E k \in Timeouts(q) : q[k].to \in E /\ q[k].id = id
      BY IdsHeld
    <3> QED BY <2>1, <3>1, <3>2
  <2> QED BY <2>2
<1> QED BY <1>1 DEF Once, InBounds

\* With an empty queue there are as many ids as timeouts in the heap.
LEMMA IdsOfHeap ==
    ASSUME NEW h, IsFiniteSet(h), Once(h, << >>), NEW E
    PROVE  /\ IsFiniteSet(Of(h, E))
           /\ Cardinality(IdsIn(h, << >>, E)) = Cardinality(Of(h, E))
<1> DEFINE f == [t \in Of(h, E) |-> t.id]
<1>1. IsFiniteSet(Of(h, E))
  BY FS_Subset DEF Of
<1>2. Timeouts(<< >>) = {}
  BY DEF Timeouts
<1>3. \A id : id \in IdsIn(h, << >>, E) <=> \E t \in Of(h, E) : t.id = id
  BY <1>2, IdsHeld DEF Of
<1>4. f \in Bijection(Of(h, E), IdsIn(h, << >>, E))
  <2>1. f \in [Of(h, E) -> IdsIn(h, << >>, E)]
    BY <1>3
  <2>2. \A t, u \in Of(h, E) : f[t] = f[u] => t = u
    BY DEF Once, Of
  <2>3. \A id \in IdsIn(h, << >>, E) : \E t \in Of(h, E) : f[t] = id
    BY <1>3
  <2> QED BY <2>1, <2>2, <2>3 DEF Bijection, Injection, Surjection, IsInjective
<1> QED BY <1>1, <1>4, FS_Bijection DEF ExistsBijection

\* Timeouts taken in order are all taken, each once.
LEMMA OrderTakesAll ==
    ASSUME NEW ts, IsFiniteSet(ts), NEW s \in InOrder(ts)
    PROVE  /\ DOMAIN s = 1 .. Cardinality(ts) /\ Cardinality(ts) \in Nat
           /\ \A i \in 1 .. Cardinality(ts) : s[i] \in ts
           /\ \A i, j \in 1 .. Cardinality(ts) : s[i] = s[j] => i = j
           /\ \A t \in ts : \E i \in 1 .. Cardinality(ts) : s[i] = t
<1>1. PICK n \in Nat : n = Cardinality(ts)
  BY FS_CardinalityType
<1>2. s \in [1 .. n -> ts] /\ \A i, j \in 1 .. n : i < j => s[i] # s[j]
  BY <1>1 DEF InOrder
<1>3. \A i, j \in 1 .. n : s[i] = s[j] => i = j
  BY <1>2
<1>4. IsFiniteSet(1 .. n) /\ Cardinality(1 .. n) = n
  <2>1. /\ IsFiniteSet(1 .. n)
        /\ Cardinality(1 .. n) = IF 1 > n THEN 0 ELSE n - 1 + 1
    BY FS_Interval
  <2> QED BY <2>1
<1>5. s \in Injection(1 .. n, ts)
  BY <1>2, <1>3 DEF Injection, IsInjective
<1>6. s \in Surjection(1 .. n, ts)
  BY <1>1, <1>4, <1>5, FS_Injection
<1> QED BY <1>1, <1>2, <1>3, <1>6 DEF Surjection

\* Queue q has the timeouts in due, by the tasks others and then those of s.
Carries(q, due) ==
    /\ \A k \in Timeouts(q) : \E t \in due : q[k].id = t.id /\ q[k].to = t.to
    /\ \A t \in due : \E k \in Timeouts(q) : q[k].id = t.id /\ q[k].to = t.to
IsQueue(q, others, s) == q = others \o [i \in DOMAIN s |-> TaskOf(s[i])]

\* Due timeouts become the queue's timeouts.
LEMMA DueInQueue ==
    ASSUME NEW due, IsFiniteSet(due), due \subseteq TimeoutHolder, NEW s \in InOrder(due),
           NEW others \in Seq(Task), Timeouts(others) = {},
           NEW q, IsQueue(q, others, s)
    PROVE  /\ q \in Seq(Task) /\ Cardinality(Timeouts(q)) = Cardinality(due)
           /\ Carries(q, due)
           /\ Once(due, << >>) => \A j, k \in Timeouts(q) : q[j].id = q[k].id => j = k
<1>1. PICK n \in Nat : n = Cardinality(due)
  BY FS_CardinalityType
<1>2. /\ DOMAIN s = 1 .. n
      /\ \A i \in 1 .. n : s[i] \in due
      /\ \A i, j \in 1 .. n : s[i] = s[j] => i = j
      /\ \A t \in due : \E i \in 1 .. n : s[i] = t
  BY <1>1, OrderTakesAll
<1>3. PICK tasks : tasks = [i \in 1 .. n |-> TaskOf(s[i])]
  OBVIOUS
<1>4. \A i \in 1 .. n : /\ tasks[i] \in Task /\ tasks[i].id # NoTimeout
                        /\ tasks[i].id = s[i].id /\ tasks[i].to = s[i].to
  <2> TAKE i \in 1 .. n
  <2>1. s[i] \in TimeoutHolder
    BY <1>2
  <2>2. s[i].id \in Nat /\ s[i].to \in Event
    BY <2>1 DEF TimeoutHolder
  <2>3. tasks[i] = [to |-> s[i].to, id |-> s[i].id]
    BY <1>3 DEF TaskOf
  <2> QED BY <2>2, <2>3 DEF Task, NoTimeout
<1>5. tasks \in Seq(Task) /\ Len(tasks) = n
  BY <1>3, <1>4
<1>6. PICK m \in Nat : m = Len(others)
  OBVIOUS
<1>7. /\ q \in Seq(Task) /\ Len(q) = m + n
      /\ \A k \in 1 .. m : q[k] = others[k]
      /\ \A k \in m + 1 .. m + n : q[k] = tasks[k - m]
  BY <1>2, <1>3, <1>5, <1>6 DEF IsQueue
<1>8. Timeouts(q) = m + 1 .. m + n
  <2>1. \A k \in 1 .. m : k \notin Timeouts(q)
    BY <1>6, <1>7 DEF Timeouts
  <2>2. \A k \in m + 1 .. m + n : k \in Timeouts(q)
    <3> TAKE k \in m + 1 .. m + n
    <3>1. k - m \in 1 .. n /\ k \in 1 .. m + n
      OBVIOUS
    <3> QED BY <1>4, <1>7, <3>1 DEF Timeouts
  <2>3. \A k \in Timeouts(q) : k \in 1 .. m \/ k \in m + 1 .. m + n
    BY <1>7 DEF Timeouts
  <2>4. \A k : k \in Timeouts(q) <=> k \in m + 1 .. m + n
    BY <2>1, <2>2, <2>3, Zenon
  <2> QED BY <2>4
<1>9. Cardinality(Timeouts(q)) = n
  <2>1. Cardinality(m + 1 .. m + n) = IF m + 1 > m + n THEN 0 ELSE m + n - (m + 1) + 1
    BY FS_Interval
  <2> QED BY <1>8, <2>1
<1>10. \A k \in Timeouts(q) : /\ k - m \in 1 .. n
                              /\ q[k].id = s[k - m].id /\ q[k].to = s[k - m].to
  <2> TAKE k \in Timeouts(q)
  <2>1. k \in m + 1 .. m + n /\ k - m \in 1 .. n
    BY <1>8
  <2> QED BY <1>4, <1>7, <2>1
<1>11. \A i \in 1 .. n : /\ i + m \in Timeouts(q)
                         /\ q[i + m].id = s[i].id /\ q[i + m].to = s[i].to
  <2> TAKE i \in 1 .. n
  <2>1. i + m \in m + 1 .. m + n /\ (i + m) - m = i
    OBVIOUS
  <2> QED BY <1>8, <1>10, <2>1
<1>12. \A k \in Timeouts(q) : \E t \in due : q[k].id = t.id /\ q[k].to = t.to
  BY <1>2, <1>10
<1>13. \A t \in due : \E k \in Timeouts(q) : q[k].id = t.id /\ q[k].to = t.to
  <2> TAKE t \in due
  <2>1. PICK i \in 1 .. n : s[i] = t
    BY <1>2
  <2>2. i + m \in Timeouts(q) /\ q[i + m].id = t.id /\ q[i + m].to = t.to
    BY <1>11, <2>1
  <2> QED BY <2>2
<1>14. ASSUME Once(due, << >>), NEW j \in Timeouts(q), NEW k \in Timeouts(q), q[j].id = q[k].id
       PROVE  j = k
  <2>1. s[j - m] \in due /\ s[k - m] \in due /\ s[j - m].id = s[k - m].id
    BY <1>2, <1>10, <1>14
  <2>2. s[j - m] = s[k - m]
    BY <1>14, <2>1 DEF Once
  <2>3. j - m \in 1 .. n /\ k - m \in 1 .. n
    BY <1>10
  <2>4. j - m = k - m
    BY <1>2, <2>2, <2>3
  <2>5. j \in m + 1 .. m + n /\ k \in m + 1 .. m + n
    BY <1>8
  <2> QED BY <2>4, <2>5
<1> QED BY <1>1, <1>7, <1>9, <1>12, <1>13, <1>14 DEF Carries

\* ... and it is only their place that changes.
LEMMA IdsMoved ==
    ASSUME NEW c, NEW due \in SUBSET c, NEW q, NEW E, Carries(q, due)
    PROVE  Cardinality(IdsIn(c \ due, q, E)) = Cardinality(IdsIn(c, << >>, E))
<1>1. Timeouts(<< >>) = {}
  BY DEF Timeouts
<1>2. ASSUME NEW id, id \in IdsIn(c \ due, q, E) PROVE id \in IdsIn(c, << >>, E)
  BY <1>2, IdsHeld DEF Carries
<1>3. ASSUME NEW id, id \in IdsIn(c, << >>, E) PROVE id \in IdsIn(c \ due, q, E)
  <2>1. PICK t \in c : t.to \in E /\ t.id = id
    BY <1>1, <1>3, IdsHeld
  <2>2. CASE t \in due
    BY <2>1, <2>2, IdsHeld DEF Carries
  <2>3. CASE t \notin due
    BY <2>1, <2>3, IdsHeld
  <2> QED BY <2>2, <2>3
<1>4. IdsIn(c \ due, q, E) = IdsIn(c, << >>, E)
  BY <1>2, <1>3
<1> QED BY <1>4, Zenon

-----------------------------------------------------------------------------
(* The operations.                                                         *)

\* StatsExact of the next state, and of this one.
ExactNext == Exact(heap', scheduled', timeouts_inserted', timeouts_fired', timeouts_dead',
                   timeouts', born')
ExactNow == Exact(heap, scheduled, timeouts_inserted, timeouts_fired, timeouts_dead,
                  timeouts, born)

LEMMA InvParts == IInv => ExactNow
BY StatsAreExact DEF IInv, Book, ExactNow

LEMMA InvFromParts == Typed' /\ Book' /\ ExactNext => IInv'
BY StatsAreExactNext DEF IInv, Book, ExactNext

\* The numbers TypeOK asks for.
LEMMA InvTypes == IInv => TypeOK
<1> SUFFICES ASSUME IInv PROVE TypeOK
  OBVIOUS
<1>1. Typed /\ Book /\ ExactNow
  BY InvParts DEF IInv
<1>2. \A E : Cardinality(IdsIn(heap, scheduled, E)) \in Nat
  BY <1>1, IdsFinite DEF Typed, Book
<1>3. \A e \in Live : timeouts[e] \in Nat
  BY <1>1, <1>2 DEF ExactNow, Exact, Live
<1>4. /\ Cardinality(heap) \in Nat /\ Cardinality(Timeouts(scheduled)) \in Nat
      /\ timeouts_inserted \in Nat /\ timeouts_fired \in Nat
  BY <1>1, TimeoutIds, FS_CardinalityType DEF Typed, Book
<1>5. PICK removed \in Int :
          /\ removed = timeouts_inserted - Cardinality(heap) - timeouts_fired
                       - Cardinality(Timeouts(scheduled))
          /\ removed >= 0
          /\ timeouts_dead - removed =
                 Cardinality(IdsIn(heap, scheduled, (0 .. born - 1) \ DOMAIN timeouts))
  BY <1>1, <1>4 DEF ExactNow, Exact
<1>6. timeouts_dead \in Nat
  <2>1. timeouts_dead \in Int
    BY <1>1 DEF Typed
  <2> QED BY <1>2, <1>5, <2>1
<1>7. Live \subseteq Event
  BY <1>1 DEF Typed, Book, Event
<1> QED BY <1>1, <1>3, <1>6, <1>7 DEF TypeOK, Typed

\* Called events live, so the one on the top does.
LEMMA TopLives ==
    ASSUME IInv, calls # << >>
    PROVE  /\ Top \in Live /\ Top \in 0 .. born - 1 /\ born \in Nat
           /\ Len(calls) \in Nat \ {0}
           /\ \A i \in 1 .. Len(calls) : calls[i] = Top => i = Len(calls)
<1>1. Len(calls) \in Nat \ {0} /\ Len(calls) \in 1 .. Len(calls)
  BY DEF IInv, Typed
<1> QED BY <1>1 DEF IInv, Typed, Book, StackLives, Top

\* Steps that leave events and timeouts alone.
LEMMA InvKept ==
    ASSUME IInv, clock' \in Nat,
           UNCHANGED << now, heap, timeout_generation, stats, timeouts, born, scheduled, calls >>,
           pc' \in {"user", "run_one", "poll"}, pc' = "poll" => scheduled = << >>
    PROVE  IInv'
<1>1. Typed'
  BY DEF IInv, Typed, stats, Instant
<1>2. Book'
  BY DEF IInv, Book, StackLives, Live
<1>3. ExactNext
  BY InvParts DEF ExactNow, ExactNext, stats
<1> QED BY <1>1, <1>2, <1>3, InvFromParts

LEMMA InvOthers ==
    ASSUME IInv, RunOne \/ GatherEmpty \/ Interrupted \/ Tick
    PROVE  IInv'
<1>1. /\ UNCHANGED << now, heap, timeout_generation, stats, timeouts, born, scheduled, calls >>
      /\ pc' \in {"user", "run_one", "poll"}
      /\ pc' = "poll" => scheduled = << >>
  BY DEF RunOne, GatherEmpty, Interrupted, Tick, IInv, Typed, Book
<1>2. clock' \in Nat
  BY DEF RunOne, GatherEmpty, Interrupted, Tick, IInv, Typed, Instant
<1> QED BY <1>1, <1>2, InvKept

\* The new event has no timeouts.
LEMMA InvInsert == ASSUME IInv, Insert PROVE IInv'
<1>1. /\ born \in Nat /\ born' = born + 1
      /\ timeouts' = [e \in Live \cup {born} |-> IF e = born THEN 0 ELSE timeouts[e]]
      /\ calls' = Append(calls, born) /\ calls \in Seq(Event)
      /\ UNCHANGED << clock, now, heap, timeout_generation, timeouts_inserted, timeouts_fired,
                      timeouts_dead, scheduled, pc >>
  BY DEF IInv, Typed, Insert, stats
<1>2. /\ Live' = Live \cup {born} /\ Live \subseteq 0 .. born - 1 /\ born \notin Live
      /\ 0 .. born' - 1 = (0 .. born - 1) \cup {born}
  BY <1>1 DEF IInv, Book, Live
<1>3. /\ calls' \in Seq(Event) /\ Len(calls') = Len(calls) + 1 /\ Len(calls) \in Nat
      /\ \A i \in 1 .. Len(calls) : calls'[i] = calls[i]
      /\ calls'[Len(calls) + 1] = born
  BY <1>1, Longer DEF Event
<1>4. Typed'
  BY <1>1, <1>3 DEF IInv, Typed
<1>5. StackLives'
  <2>1. \A i \in 1 .. Len(calls') : i \in 1 .. Len(calls) \/ i = Len(calls) + 1
    BY <1>3
  <2> QED BY <1>2, <1>3, <2>1 DEF IInv, Book, StackLives
<1>6. InBounds(heap', scheduled', timeout_generation', born')
  <2>1. \A e : e \in 0 .. born - 1 => e \in 0 .. born' - 1
    BY <1>2
  <2> QED BY <1>1, <2>1 DEF IInv, Book, InBounds
<1>7. Book'
  BY <1>1, <1>2, <1>5, <1>6 DEF IInv, Book
<1>8. ExactNext
  <2>1. ExactNow
    BY InvParts
  <2>2. (0 .. born' - 1) \ DOMAIN timeouts' = (0 .. born - 1) \ DOMAIN timeouts
    BY <1>2 DEF Live
  <2>3. Cardinality(IdsIn(heap, scheduled, {born})) = 0
    <3>1. IdsIn(heap, scheduled, {born}) = {}
      BY <1>1, OwnedIds DEF IInv, Book
    <3> QED BY <3>1, FS_EmptySet
  <2>4. \A e \in DOMAIN timeouts' : timeouts'[e] = Cardinality(IdsIn(heap', scheduled', {e}))
    BY <1>1, <1>2, <2>1, <2>3 DEF ExactNow, Exact, Live
  <2> QED BY <1>1, <2>1, <2>2, <2>4 DEF ExactNow, ExactNext, Exact
<1> QED BY <1>4, <1>7, <1>8, InvFromParts

\* A timeout more, waiting and in the counters.
LEMMA InvTimeoutAt == ASSUME IInv, NEW when \in 0 .. MaxTime, TimeoutAt(when) PROVE IInv'
<1> DEFINE t == [id |-> timeout_generation, to |-> Top, when |-> when]
<1>1. /\ timeout_generation \in Nat /\ timeout_generation' = timeout_generation + 1
      /\ timeouts' = [timeouts EXCEPT ![Top] = @ + 1]
      /\ timeouts_inserted \in Nat /\ timeouts_inserted' = timeouts_inserted + 1
      /\ heap' = heap \cup {t} /\ calls # << >>
      /\ UNCHANGED << clock, now, timeouts_fired, timeouts_dead, born, scheduled, calls, pc >>
  BY DEF IInv, Typed, TimeoutAt, InCallback
<1>2. Top \in Live /\ Top \in 0 .. born - 1 /\ Top \in Nat /\ Live' = Live
  BY <1>1, TopLives DEF Live
<1>3. t \in TimeoutHolder /\ t.id = timeout_generation /\ t.to = Top
  BY <1>1, <1>2, TimersConstants DEF TimeoutHolder, Event, Instant
<1>4. InBounds(heap, scheduled, timeout_generation, born) /\ Once(heap, scheduled)
      /\ IsFiniteSet(heap)
  BY DEF IInv, Book
<1> HIDE DEF t
<1>5. t \notin heap
  BY <1>1, <1>3, <1>4 DEF InBounds
<1>6. Typed'
  BY <1>1, <1>3 DEF IInv, Typed
<1>7. InBounds(heap', scheduled', timeout_generation', born')
  <2>1. \A id : id \in 0 .. timeout_generation - 1 => id \in 0 .. timeout_generation' - 1
    BY <1>1
  <2>2. timeout_generation \in 0 .. timeout_generation' - 1
    BY <1>1
  <2> QED BY <1>1, <1>2, <1>3, <1>4, <2>1, <2>2 DEF InBounds
<1>8. Once(heap', scheduled')
  <2>1. timeout_generation \notin 0 .. timeout_generation - 1
    BY <1>1
  <2>2. /\ \A u \in heap : u.id # t.id
        /\ \A k \in Timeouts(scheduled) : scheduled[k].id # t.id
    BY <1>3, <1>4, <2>1 DEF InBounds
  <2> QED BY <1>1, <1>4, <2>2 DEF Once
<1>9. IsFiniteSet(heap') /\ Cardinality(heap') = Cardinality(heap) + 1
      /\ Cardinality(heap) \in Nat
  BY <1>1, <1>4, <1>5, FS_AddElement, FS_CardinalityType
<1>10. Book'
  BY <1>1, <1>2, <1>7, <1>8, <1>9 DEF IInv, Book, StackLives
<1>11. ExactNext
  <2>1. ExactNow
    BY InvParts
  <2>2. \A E : IdsIn(heap', scheduled', E) =
                 IF Top \in E THEN IdsIn(heap, scheduled, E) \cup {timeout_generation}
                 ELSE IdsIn(heap, scheduled, E)
    <3> TAKE E
    <3>1. \A id : id \in IdsIn(heap', scheduled', E) <=>
                 id \in IdsIn(heap, scheduled, E) \/ (Top \in E /\ id = timeout_generation)
      BY <1>1, <1>3, IdsHeld
    <3> QED BY <3>1
  <2>3. \A E : /\ IsFiniteSet(IdsIn(heap, scheduled, E))
               /\ timeout_generation \notin IdsIn(heap, scheduled, E)
    <3>1. timeout_generation \notin 0 .. timeout_generation - 1
      BY <1>1
    <3> QED BY <1>1, <1>4, <3>1, IdsFinite
  <2>4. ASSUME NEW e \in Live
        PROVE  timeouts'[e] = Cardinality(IdsIn(heap', scheduled', {e}))
    <3>1. timeouts[e] = Cardinality(IdsIn(heap, scheduled, {e}))
      BY <2>1 DEF ExactNow, Exact, Live
    <3>2. CASE e = Top
      <4>1. Cardinality(IdsIn(heap', scheduled', {e})) = Cardinality(IdsIn(heap, scheduled, {e})) + 1
        BY <2>2, <2>3, <3>2, FS_AddElement
      <4>2. timeouts'[e] = timeouts[e] + 1
        BY <1>1, <1>2, <3>2 DEF Live
      <4> QED BY <3>1, <4>1, <4>2
    <3>3. CASE e # Top
      <4>1. timeouts'[e] = timeouts[e]
        BY <1>1, <3>3 DEF Live
      <4> QED BY <2>2, <3>1, <3>3, <4>1
    <3> QED BY <3>2, <3>3
  <2>5. DOMAIN timeouts' = DOMAIN timeouts
    BY <1>1
  <2>6. IdsIn(heap', scheduled', (0 .. born' - 1) \ DOMAIN timeouts')
        = IdsIn(heap, scheduled, (0 .. born - 1) \ DOMAIN timeouts)
    BY <1>1, <1>2, <2>2, <2>5 DEF Live
  <2>7. timeouts_inserted' - Cardinality(heap') - timeouts_fired' - Cardinality(Timeouts(scheduled'))
        = timeouts_inserted - Cardinality(heap) - timeouts_fired - Cardinality(Timeouts(scheduled))
    <3>1. timeouts_fired \in Nat /\ Cardinality(Timeouts(scheduled)) \in Nat
      BY TimeoutIds DEF IInv, Typed
    <3> QED BY <1>1, <1>9, <3>1
  <2> QED BY <1>1, <2>1, <2>4, <2>5, <2>6, <2>7 DEF ExactNow, ExactNext, Exact, Live
<1> QED BY <1>6, <1>10, <1>11, InvFromParts

\* Another task is no timeout.
LEMMA InvSend == ASSUME IInv, NEW e \in Live, Send(e) PROVE IInv'
<1>1. /\ scheduled \in Seq(Task) /\ e \in Event /\ pc = "user"
      /\ scheduled' = Append(scheduled, OtherTask(e))
      /\ UNCHANGED << clock, now, heap, timeout_generation, stats, timeouts, born, calls, pc >>
  BY DEF IInv, Typed, Book, Send, Event
<1>2. /\ scheduled' \in Seq(Task) /\ Timeouts(scheduled') = Timeouts(scheduled)
      /\ \A k \in Timeouts(scheduled) : scheduled'[k] = scheduled[k]
  BY <1>1, QueueSend
<1>3. /\ Once(heap, scheduled') /\ InBounds(heap, scheduled', timeout_generation, born)
      /\ \A E : IdsIn(heap, scheduled', E) = IdsIn(heap, scheduled, E)
  BY <1>2, SameTimeouts DEF IInv, Book
<1>4. Typed'
  BY <1>1, <1>2 DEF IInv, Typed, stats
<1>5. Book'
  BY <1>1, <1>3 DEF IInv, Book, StackLives, Live
<1>6. ExactNext
  BY <1>1, <1>2, <1>3, InvParts DEF ExactNow, ExactNext, Exact, stats
<1> QED BY <1>4, <1>5, <1>6, InvFromParts

\* The callback returns.  If its event dies, its timeouts are counted as dead.
LEMMA InvReturn == ASSUME IInv, NEW keep \in BOOLEAN, Return(keep) PROVE IInv'
<1>1. /\ calls # << >> /\ calls \in Seq(Event) /\ calls' = SubSeq(calls, 1, Len(calls) - 1)
      /\ UNCHANGED << clock, now, heap, timeout_generation, timeouts_inserted, timeouts_fired,
                      born, scheduled, pc >>
      /\ timeouts_dead \in Int
  BY DEF IInv, Typed, Return, InCallback
<1>2. /\ calls' \in Seq(Event) /\ Len(calls) \in Nat \ {0} /\ Len(calls') = Len(calls) - 1
      /\ \A i \in 1 .. Len(calls') : i \in 1 .. Len(calls) /\ i # Len(calls) /\ calls'[i] = calls[i]
  BY <1>1, Shorter
<1>3. Top \in Live /\ \A i \in 1 .. Len(calls) : calls[i] = Top => i = Len(calls)
  BY <1>1, TopLives
<1>4. ExactNow /\ Once(heap, scheduled) /\ InBounds(heap, scheduled, timeout_generation, born)
  BY InvParts DEF IInv, Book
<1>5. CASE keep
  <2>1. UNCHANGED << timeouts, timeouts_dead >>
    BY <1>5 DEF Return
  <2>2. Typed'
    BY <1>1, <1>2, <2>1 DEF IInv, Typed
  <2>3. Book'
    BY <1>1, <1>2, <2>1 DEF IInv, Book, StackLives, Live
  <2>4. ExactNext
    BY <1>1, <1>4, <2>1 DEF ExactNow, ExactNext
  <2> QED BY <2>2, <2>3, <2>4, InvFromParts
<1>6. CASE ~keep
  <2>1. /\ timeouts_dead' = timeouts_dead + timeouts[Top]
        /\ timeouts' = [e \in Live \ {Top} |-> timeouts[e]]
    BY <1>6 DEF Return, Kill, KillCounts
  <2>2. Live' = Live \ {Top}
    BY <2>1 DEF Live
  <2>3. timeouts[Top] = Cardinality(IdsIn(heap, scheduled, {Top}))
    BY <1>3, <1>4 DEF ExactNow, Exact, Live
  <2>4. \A E : IsFiniteSet(IdsIn(heap, scheduled, E)) /\ Cardinality(IdsIn(heap, scheduled, E)) \in Nat
    BY <1>4, IdsFinite DEF IInv, Typed
  <2>5. Typed'
    <3>1. timeouts_dead' \in Int
      BY <1>1, <2>1, <2>3, <2>4
    <3> QED BY <1>1, <1>2, <3>1 DEF IInv, Typed
  <2>6. StackLives'
    <3>1. \A i \in 1 .. Len(calls') : calls'[i] \in Live'
      BY <1>2, <1>3, <2>2 DEF IInv, Book, StackLives
    <3>2. \A i, j \in 1 .. Len(calls') : calls'[i] = calls'[j] => i = j
      BY <1>2 DEF IInv, Book, StackLives
    <3> QED BY <3>1, <3>2 DEF StackLives
  <2>7. Book'
    BY <1>1, <2>2, <2>6 DEF IInv, Book
  <2>8. ExactNext
    <3> DEFINE dead == (0 .. born - 1) \ DOMAIN timeouts
               removed == timeouts_inserted - Cardinality(heap) - timeouts_fired
                          - Cardinality(Timeouts(scheduled))
    <3>1. removed \in Int
      <4>1. Cardinality(heap) \in Nat /\ Cardinality(Timeouts(scheduled)) \in Nat
            /\ timeouts_inserted \in Nat /\ timeouts_fired \in Nat
        BY TimeoutIds, FS_CardinalityType DEF IInv, Typed, Book
      <4> QED BY <4>1
    <3>2. Parted((0 .. born - 1) \ DOMAIN timeouts', dead, {Top})
      BY <1>3, <2>1 DEF IInv, Book, Live, Parted
    <3> HIDE DEF dead
    <3>3. Cardinality(IdsIn(heap, scheduled, (0 .. born - 1) \ DOMAIN timeouts'))
          = Cardinality(IdsIn(heap, scheduled, dead)) + Cardinality(IdsIn(heap, scheduled, {Top}))
      BY <1>1, <1>4, <3>2, IdsSplit DEF IInv, Typed
    <3>4. removed >= 0 /\ timeouts_dead - removed = Cardinality(IdsIn(heap, scheduled, dead))
      BY <1>4 DEF ExactNow, Exact, dead
    <3>5. timeouts_dead' - removed = Cardinality(IdsIn(heap, scheduled, (0 .. born - 1) \ DOMAIN timeouts'))
      <4> HIDE DEF removed
      <4> QED BY <1>1, <2>1, <2>3, <2>4, <3>1, <3>2, <3>3, <3>4
    <3>6. \A e \in DOMAIN timeouts' : timeouts'[e] = Cardinality(IdsIn(heap, scheduled, {e}))
      BY <1>4, <2>1 DEF ExactNow, Exact, Live
    <3> QED BY <1>1, <3>2, <3>4, <3>5, <3>6 DEF ExactNext, Exact
  <2> QED BY <2>5, <2>7, <2>8, InvFromParts
<1> QED BY <1>5, <1>6

\* A task that is for nobody goes, and if it is a timeout, so does a dead one.
LEMMA InvSkip == ASSUME IInv, Skip PROVE IInv'
<1>1. /\ scheduled \in Seq(Task) /\ scheduled # << >> /\ Head(scheduled).to \notin Live
      /\ scheduled' = Tail(scheduled) /\ pc = "run_one"
      /\ UNCHANGED << clock, now, heap, timeout_generation, stats, timeouts, born, calls, pc >>
      /\ timeout_generation \in Nat
  BY DEF IInv, Typed, Skip, Alive
<1>2. ExactNow /\ Once(heap, scheduled) /\ InBounds(heap, scheduled, timeout_generation, born)
  BY InvParts DEF IInv, Book
<1>3. /\ scheduled' \in Seq(Task) /\ Head(scheduled) \in Task
      /\ Once(heap, scheduled') /\ InBounds(heap, scheduled', timeout_generation, born)
      /\ Head(scheduled).id # NoTimeout => Head(scheduled).to \in 0 .. born - 1
      /\ \A E : Cardinality(IdsIn(heap, scheduled', E)) =
                IF Head(scheduled).id # NoTimeout /\ Head(scheduled).to \in E
                THEN Cardinality(IdsIn(heap, scheduled, E)) - 1
                ELSE Cardinality(IdsIn(heap, scheduled, E))
  BY <1>1, <1>2, QueueTaken
<1>4. Typed'
  BY <1>1, <1>3 DEF IInv, Typed, stats
<1>5. Book'
  BY <1>1, <1>3 DEF IInv, Book, StackLives, Live
<1>6. ExactNext
  <2> DEFINE dead == (0 .. born - 1) \ DOMAIN timeouts
  <2>1. Cardinality(Timeouts(scheduled')) =
            IF Head(scheduled).id = NoTimeout THEN Cardinality(Timeouts(scheduled))
            ELSE Cardinality(Timeouts(scheduled)) - 1
    BY <1>1, TailTimeouts
  <2>2. Cardinality(IdsIn(heap, scheduled', dead)) =
            IF Head(scheduled).id = NoTimeout THEN Cardinality(IdsIn(heap, scheduled, dead))
            ELSE Cardinality(IdsIn(heap, scheduled, dead)) - 1
    BY <1>1, <1>3 DEF Live
  <2>3. \A e \in DOMAIN timeouts : timeouts[e] = Cardinality(IdsIn(heap, scheduled', {e}))
    <3> TAKE e \in DOMAIN timeouts
    <3>1. Head(scheduled).to \notin {e}
      BY <1>1 DEF Live
    <3> QED BY <1>2, <1>3, <3>1 DEF ExactNow, Exact
  <2>4. /\ Cardinality(heap) \in Nat /\ Cardinality(Timeouts(scheduled)) \in Nat
        /\ timeouts_inserted \in Nat /\ timeouts_fired \in Nat /\ timeouts_dead \in Int
        /\ Cardinality(IdsIn(heap, scheduled, dead)) \in Nat
    BY <1>1, <1>2, TimeoutIds, IdsFinite, FS_CardinalityType DEF IInv, Typed, Book
  <2> DEFINE removed == timeouts_inserted - Cardinality(heap) - timeouts_fired
                        - Cardinality(Timeouts(scheduled))
             then == timeouts_inserted - Cardinality(heap) - timeouts_fired
                     - Cardinality(Timeouts(scheduled'))
  <2>5. removed >= 0 /\ timeouts_dead - removed = Cardinality(IdsIn(heap, scheduled, dead))
    BY <1>2 DEF ExactNow, Exact
  <2>6. then >= 0 /\ timeouts_dead - then = Cardinality(IdsIn(heap, scheduled', dead))
    <3> HIDE DEF dead
    <3> QED BY <2>1, <2>2, <2>4, <2>5
  <2> QED BY <1>1, <2>3, <2>6 DEF ExactNext, Exact, stats
<1> QED BY <1>4, <1>5, <1>6, InvFromParts

\* A timeout that is dispatched leaves the queue and its event's count.
LEMMA InvDispatch == ASSUME IInv, Dispatch PROVE IInv'
<1> DEFINE task == Head(scheduled)
<1>1. /\ scheduled \in Seq(Task) /\ scheduled # << >> /\ task.to \in Live
      /\ scheduled' = Tail(scheduled) /\ pc = "run_one" /\ pc' = "user"
      /\ CountFired(task) /\ calls \in Seq(Event)
      /\ calls' = IF task.to \in Called THEN calls ELSE Append(calls, task.to)
      /\ UNCHANGED << clock, now, heap, timeout_generation, timeouts_inserted, timeouts_dead, born >>
      /\ timeout_generation \in Nat /\ timeouts_fired \in Nat
  BY DEF IInv, Typed, Dispatch, Alive
<1>2. ExactNow /\ Once(heap, scheduled) /\ InBounds(heap, scheduled, timeout_generation, born)
  BY InvParts DEF IInv, Book
<1>3. /\ scheduled' \in Seq(Task) /\ task \in Task
      /\ Once(heap, scheduled') /\ InBounds(heap, scheduled', timeout_generation, born)
      /\ \A E : Cardinality(IdsIn(heap, scheduled', E)) =
                IF task.id # NoTimeout /\ task.to \in E
                THEN Cardinality(IdsIn(heap, scheduled, E)) - 1
                ELSE Cardinality(IdsIn(heap, scheduled, E))
  BY <1>1, <1>2, QueueTaken
<1>4. /\ timeouts_fired' = IF task.id = NoTimeout THEN timeouts_fired ELSE timeouts_fired + 1
      /\ timeouts' = IF task.id = NoTimeout THEN timeouts
                     ELSE [timeouts EXCEPT ![task.to] = @ - 1]
  BY <1>1 DEF CountFired
<1>5. DOMAIN timeouts' = DOMAIN timeouts /\ Live' = Live
  BY <1>4 DEF Live
<1>6. task.to \in Event
  BY <1>3 DEF Task
<1> HIDE DEF task
<1>7. Typed'
  <2>1. calls' \in Seq(Event)
    BY <1>1, <1>6, Longer
  <2> QED BY <1>1, <1>3, <1>4, <2>1 DEF IInv, Typed
<1>8. StackLives'
  <2>1. CASE task.to \in Called
    BY <1>1, <1>5, <2>1 DEF IInv, Book, StackLives
  <2>2. CASE task.to \notin Called
    <3>1. /\ Len(calls') = Len(calls) + 1 /\ Len(calls) \in Nat
          /\ \A i \in 1 .. Len(calls) : calls'[i] = calls[i] /\ calls[i] # task.to
          /\ calls'[Len(calls) + 1] = task.to
      BY <1>1, <1>6, <2>2, Longer DEF Called
    <3>2. \A i \in 1 .. Len(calls') : i \in 1 .. Len(calls) \/ i = Len(calls) + 1
      BY <3>1
    <3> QED BY <1>1, <1>5, <3>1, <3>2 DEF IInv, Book, StackLives
  <2> QED BY <2>1, <2>2
<1>9. Book'
  BY <1>1, <1>3, <1>5, <1>8 DEF IInv, Book
<1>10. ExactNext
  <2> DEFINE dead == (0 .. born - 1) \ DOMAIN timeouts
  <2>1. Cardinality(Timeouts(scheduled')) =
            IF task.id = NoTimeout THEN Cardinality(Timeouts(scheduled))
            ELSE Cardinality(Timeouts(scheduled)) - 1
    BY <1>1, TailTimeouts DEF task
  <2>2. Cardinality(IdsIn(heap, scheduled', dead)) = Cardinality(IdsIn(heap, scheduled, dead))
    BY <1>1, <1>3 DEF Live
  <2>3. \A e \in DOMAIN timeouts' : timeouts'[e] = Cardinality(IdsIn(heap, scheduled', {e}))
    <3> TAKE e \in DOMAIN timeouts'
    <3>1. timeouts[e] = Cardinality(IdsIn(heap, scheduled, {e}))
      BY <1>2, <1>5 DEF ExactNow, Exact
    <3>2. CASE task.id # NoTimeout /\ task.to = e
      <4>1. Cardinality(IdsIn(heap, scheduled', {e})) = Cardinality(IdsIn(heap, scheduled, {e})) - 1
        BY <1>3, <3>2
      <4>2. timeouts'[e] = timeouts[e] - 1
        BY <1>4, <1>5, <3>2
      <4> QED BY <3>1, <4>1, <4>2
    <3>3. CASE ~(task.id # NoTimeout /\ task.to = e)
      <4>1. Cardinality(IdsIn(heap, scheduled', {e})) = Cardinality(IdsIn(heap, scheduled, {e}))
        BY <1>3, <3>3
      <4>2. timeouts'[e] = timeouts[e]
        BY <1>4, <1>5, <3>3
      <4> QED BY <3>1, <4>1, <4>2
    <3> QED BY <3>2, <3>3
  <2>4. /\ Cardinality(heap) \in Nat /\ Cardinality(Timeouts(scheduled)) \in Nat
        /\ timeouts_inserted \in Nat
    BY <1>1, TimeoutIds, FS_CardinalityType DEF IInv, Typed, Book
  <2>5. timeouts_inserted - Cardinality(heap) - timeouts_fired' - Cardinality(Timeouts(scheduled'))
        = timeouts_inserted - Cardinality(heap) - timeouts_fired - Cardinality(Timeouts(scheduled))
    BY <1>1, <1>4, <2>1, <2>4
  <2> QED BY <1>1, <1>2, <1>5, <2>2, <2>3, <2>5 DEF ExactNow, ExactNext, Exact
<1> QED BY <1>7, <1>9, <1>10, InvFromParts

\* A heap with less in it, and an empty queue.
LEMMA LessHeap ==
    ASSUME NEW h, IsFiniteSet(h), Once(h, << >>), NEW g, NEW b, InBounds(h, << >>, g, b),
           NEW less \in SUBSET h
    PROVE  IsFiniteSet(less) /\ Once(less, << >>) /\ InBounds(less, << >>, g, b)
BY FS_Subset DEF Once, InBounds

\* Between the emptied queue and the end of the poll the heap has all the timeouts.
LEMMA HeapHasAll ==
    ASSUME IInv, scheduled = << >>
    PROVE  /\ IsFiniteSet(heap) /\ Cardinality(heap) \in Nat
           /\ Once(heap, << >>) /\ InBounds(heap, << >>, timeout_generation, born)
           /\ IsFiniteSet(Dead(heap)) /\ Cardinality(Dead(heap)) \in Nat
           /\ HandledDead >= 0 /\ HandledDead \in Int
           /\ StillDead = Cardinality(Dead(heap))
           /\ \A e \in Live : timeouts[e] = Cardinality(Of(heap, {e}))
<1>1. ExactNow /\ IsFiniteSet(heap) /\ Once(heap, << >>)
      /\ InBounds(heap, << >>, timeout_generation, born)
  BY InvParts DEF IInv, Book
<1>2. Timeouts(<< >>) = {} /\ Cardinality(Timeouts(<< >>)) = 0
  <2>1. Timeouts(<< >>) = {}
    BY DEF Timeouts
  <2> QED BY <2>1, FS_EmptySet
<1>3. Cardinality(heap) \in Nat /\ timeouts_inserted \in Nat /\ timeouts_fired \in Nat
      /\ timeouts_dead \in Int
  BY <1>1, FS_CardinalityType DEF IInv, Typed
<1>4. Of(heap, (0 .. born - 1) \ Live) = Dead(heap)
  BY <1>1 DEF InBounds, Of, Dead, Alive
<1>5. IsFiniteSet(Dead(heap)) /\ Cardinality(Dead(heap)) \in Nat
  BY <1>1, FS_Subset, FS_CardinalityType DEF Dead
<1>6. Cardinality(IdsIn(heap, << >>, (0 .. born - 1) \ Live)) = Cardinality(Dead(heap))
  <2>1. Cardinality(IdsIn(heap, << >>, (0 .. born - 1) \ Live))
        = Cardinality(Of(heap, (0 .. born - 1) \ Live))
    BY <1>1, IdsOfHeap
  <2> QED BY <1>4, <2>1, Zenon
<1>7. HandledDead = timeouts_inserted - Cardinality(heap) - timeouts_fired
                    - Cardinality(Timeouts(scheduled))
  BY <1>2, <1>3 DEF HandledDead
<1>8. /\ HandledDead >= 0
      /\ timeouts_dead - HandledDead = Cardinality(IdsIn(heap, scheduled, (0 .. born - 1) \ Live))
  BY <1>1, <1>7 DEF ExactNow, Exact, Live
<1>9. HandledDead \in Int
  BY <1>3 DEF HandledDead
<1>10. StillDead = Cardinality(Dead(heap))
  BY <1>6, <1>8 DEF StillDead
<1>11. ASSUME NEW e \in Live PROVE timeouts[e] = Cardinality(Of(heap, {e}))
  <2>1. timeouts[e] = Cardinality(IdsIn(heap, << >>, {e}))
    BY <1>1 DEF ExactNow, Exact, Live
  <2> QED BY <1>1, <2>1, IdsOfHeap
<1> QED BY <1>1, <1>3, <1>5, <1>8, <1>9, <1>10, <1>11

\* timeout_min drops dead timeouts only.
LEMMA InvGather == ASSUME IInv, Gather PROVE IInv'
<1>1. PICK d \in SUBSET Dead(heap) : heap' = heap \ d
  BY DEF Gather, DeadHeads
<1>2. /\ scheduled = << >> /\ scheduled' = << >> /\ pc' = "poll"
      /\ UNCHANGED << clock, now, timeout_generation, stats, timeouts, born, calls >>
  BY DEF Gather
<1>3. /\ IsFiniteSet(heap) /\ Cardinality(heap) \in Nat
      /\ Once(heap, << >>) /\ InBounds(heap, << >>, timeout_generation, born)
      /\ IsFiniteSet(Dead(heap)) /\ Cardinality(Dead(heap)) \in Nat
      /\ HandledDead >= 0 /\ HandledDead \in Int
      /\ StillDead = Cardinality(Dead(heap))
      /\ \A e \in Live : timeouts[e] = Cardinality(Of(heap, {e}))
  BY <1>2, HeapHasAll
<1>4. d \subseteq heap /\ d \cap heap = d /\ heap \cap d = d /\ Dead(heap) \cap d = d
      /\ heap' \in SUBSET heap
  BY <1>1 DEF Dead
<1>5. IsFiniteSet(heap') /\ Once(heap', << >>) /\ InBounds(heap', << >>, timeout_generation, born)
  BY <1>3, <1>4, LessHeap
<1>6. Typed'
  BY <1>2, <1>4 DEF IInv, Typed, stats
<1>7. Book'
  BY <1>2, <1>5 DEF IInv, Book, StackLives, Live
<1>8. IsFiniteSet(d) /\ Cardinality(d) \in Nat
  BY <1>3, <1>4, FS_Subset, FS_CardinalityType
<1>9. Cardinality(heap') = Cardinality(heap) - Cardinality(d)
  <2>1. Cardinality(heap \ d) = Cardinality(heap) - Cardinality(heap \cap d)
    BY <1>3, FS_Difference
  <2>2. Cardinality(heap') = Cardinality(heap \ d) /\ Cardinality(heap \cap d) = Cardinality(d)
    BY <1>1, <1>4, Zenon
  <2> QED BY <2>1, <2>2
<1>10. Cardinality(Of(heap', (0 .. born - 1) \ Live)) = Cardinality(Dead(heap)) - Cardinality(d)
  <2>1. Of(heap', (0 .. born - 1) \ Live) = Dead(heap) \ d
    BY <1>1, <1>3 DEF InBounds, Of, Dead, Alive
  <2>2. Cardinality(Dead(heap) \ d) = Cardinality(Dead(heap)) - Cardinality(Dead(heap) \cap d)
    BY <1>3, FS_Difference
  <2>3. /\ Cardinality(Of(heap', (0 .. born - 1) \ Live)) = Cardinality(Dead(heap) \ d)
        /\ Cardinality(Dead(heap) \cap d) = Cardinality(d)
    BY <1>4, <2>1, Zenon
  <2> QED BY <2>2, <2>3
<1>11. \A e \in Live : Cardinality(Of(heap', {e})) = Cardinality(Of(heap, {e}))
  <2> TAKE e \in Live
  <2>1. Of(heap', {e}) = Of(heap, {e})
    BY <1>1 DEF Of, Dead, Alive
  <2> QED BY <2>1, Zenon
<1>12. \A E : Cardinality(IdsIn(heap', << >>, E)) = Cardinality(Of(heap', E))
  BY <1>5, IdsOfHeap
<1>13. ExactNext
  <2>1. Cardinality(Timeouts(<< >>)) = 0
    <3>1. Timeouts(<< >>) = {}
      BY DEF Timeouts
    <3> QED BY <3>1, FS_EmptySet
  <2>2. timeouts_inserted \in Nat /\ timeouts_fired \in Nat /\ timeouts_dead \in Int
    BY DEF IInv, Typed
  <2>3. timeouts_inserted - Cardinality(heap') - timeouts_fired - Cardinality(Timeouts(<< >>))
        = HandledDead + Cardinality(d)
    BY <1>3, <1>8, <1>9, <2>1, <2>2 DEF HandledDead
  <2>4. timeouts_dead - (HandledDead + Cardinality(d))
        = Cardinality(IdsIn(heap', << >>, (0 .. born - 1) \ DOMAIN timeouts))
    BY <1>3, <1>8, <1>10, <1>12, <2>2 DEF StillDead, Live
  <2>5. \A e \in DOMAIN timeouts : timeouts[e] = Cardinality(IdsIn(heap', << >>, {e}))
    BY <1>3, <1>11, <1>12 DEF Live
  <2>6. HandledDead + Cardinality(d) >= 0
    BY <1>3, <1>8
  <2> QED BY <1>2, <2>3, <2>4, <2>5, <2>6 DEF ExactNext, Exact, stats
<1> QED BY <1>6, <1>7, <1>13, InvFromParts

\* What timers_cleanup leaves.
LEMMA CleanedFacts ==
    ASSUME IInv, scheduled = << >>
    PROVE  /\ Cleaned \in SUBSET heap /\ IsFiniteSet(Cleaned)
           /\ Once(Cleaned, << >>) /\ InBounds(Cleaned, << >>, timeout_generation, born)
           /\ \A e \in Live : Of(Cleaned, {e}) = Of(heap, {e})
           /\ Dead(Cleaned) = IF TooManyDead THEN {} ELSE Dead(heap)
           /\ Of(Cleaned, (0 .. born - 1) \ Live) = Dead(Cleaned)
<1>1. /\ IsFiniteSet(heap) /\ Once(heap, << >>)
      /\ InBounds(heap, << >>, timeout_generation, born)
  BY HeapHasAll
<1>2. Cleaned \in SUBSET heap
  BY DEF Cleaned, Pruned
<1>3. /\ IsFiniteSet(Cleaned) /\ Once(Cleaned, << >>)
      /\ InBounds(Cleaned, << >>, timeout_generation, born)
  BY <1>1, <1>2, LessHeap
<1>4. \A e \in Live : Of(Cleaned, {e}) = Of(heap, {e})
  BY DEF Cleaned, Pruned, Of, Dead, Alive
<1>5. Dead(Cleaned) = IF TooManyDead THEN {} ELSE Dead(heap)
  BY DEF Cleaned, Pruned, Dead
<1>6. Of(Cleaned, (0 .. born - 1) \ Live) = Dead(Cleaned)
  BY <1>3 DEF InBounds, Of, Dead, Alive
<1> QED BY <1>2, <1>3, <1>4, <1>5, <1>6

\* What a poll brings, without the details of the other tasks.
LEMMA PollBrings ==
    ASSUME IInv, PollReturned
    PROVE  \E others \in Seq(Task), due \in SUBSET Cleaned :
              /\ Timeouts(others) = {} /\ heap' = Cleaned \ due
              /\ due = {t \in Cleaned : IsDue(t)}
              /\ \E s \in InOrder(due) : IsQueue(scheduled', others, s)
<1>1. Live \subseteq Nat
  BY DEF IInv, Book
<1>2. ASSUME NEW others, others \in {<< >>} \cup {<< OtherTask(e) >> : e \in Live}
      PROVE  others \in Seq(Task) /\ Timeouts(others) = {}
  <2>1. CASE others = << >>
    BY <2>1 DEF Timeouts
  <2>2. ASSUME NEW e \in Live, others = << OtherTask(e) >>
        PROVE  others \in Seq(Task) /\ Timeouts(others) = {}
    <3>1. OtherTask(e) \in Task /\ OtherTask(e).id = NoTimeout
      BY <1>1 DEF OtherTask, Task, Event, NoTimeout
    <3> QED BY <2>2, <3>1 DEF Timeouts
  <2> QED BY <1>2, <2>1, <2>2
<1>3. PICK due : due = {t \in Cleaned : IsDue(t)}
  OBVIOUS
<1>4. due \in SUBSET Cleaned
  BY <1>3
<1>5. PICK others \in {<< >>} \cup {<< OtherTask(e) >> : e \in Live} :
         LET d == {t \in Cleaned : IsDue(t)}
         IN  /\ heap' = Cleaned \ d
             /\ \E s \in InOrder(d) :
                  scheduled' = others \o [i \in DOMAIN s |-> TaskOf(s[i])]
  BY DEF PollReturned
<1>6. others \in Seq(Task) /\ Timeouts(others) = {}
  BY <1>2
<1>7. /\ heap' = Cleaned \ due
      /\ \E s \in InOrder(due) : IsQueue(scheduled', others, s)
  BY <1>3, <1>5, Zenon DEF IsQueue
<1> QED BY <1>3, <1>4, <1>6, <1>7, Zenon

\* The counters start anew from what the heap holds after the cleaning.
LEMMA InvPollReturned == ASSUME IInv, PollReturned PROVE IInv'
<1>1. /\ pc = "poll" /\ now' = clock /\ CleanCounters /\ pc' = "run_one"
      /\ UNCHANGED << clock, timeout_generation, timeouts, born, calls >>
      /\ scheduled = << >>
  BY DEF PollReturned, IInv, Book
<1>2. PICK others \in Seq(Task), due \in SUBSET Cleaned :
         /\ Timeouts(others) = {} /\ heap' = Cleaned \ due
         /\ \E s \in InOrder(due) : IsQueue(scheduled', others, s)
  BY PollBrings
<1>3. PICK s \in InOrder(due) : IsQueue(scheduled', others, s)
  BY <1>2
<1>4. heap' = Cleaned \ due /\ due \in SUBSET Cleaned
  BY <1>2
<1>5. /\ Cleaned \in SUBSET heap /\ IsFiniteSet(Cleaned)
      /\ Once(Cleaned, << >>) /\ InBounds(Cleaned, << >>, timeout_generation, born)
      /\ \A e \in Live : Of(Cleaned, {e}) = Of(heap, {e})
      /\ Dead(Cleaned) = IF TooManyDead THEN {} ELSE Dead(heap)
      /\ Of(Cleaned, (0 .. born - 1) \ Live) = Dead(Cleaned)
  BY <1>1, CleanedFacts
<1>6. /\ heap' = Cleaned \ due /\ due \in SUBSET Cleaned
      /\ heap' \in SUBSET Cleaned /\ Cleaned \cap due = due
  BY <1>4
<1>7. /\ IsFiniteSet(due) /\ Once(due, << >>)
      /\ IsFiniteSet(heap') /\ Once(heap', << >>)
      /\ InBounds(heap', << >>, timeout_generation, born)
      /\ InBounds(due, << >>, timeout_generation, born)
  BY <1>5, <1>6, LessHeap
<1>8. heap \subseteq TimeoutHolder /\ due \subseteq TimeoutHolder /\ heap' \subseteq TimeoutHolder
      /\ clock \in Instant
  BY <1>5, <1>6 DEF IInv, Typed
<1>9. others \in Seq(Task) /\ Timeouts(others) = {}
  BY <1>2
<1>10. /\ scheduled' \in Seq(Task) /\ Cardinality(Timeouts(scheduled')) = Cardinality(due)
       /\ Carries(scheduled', due)
       /\ \A j, k \in Timeouts(scheduled') : scheduled'[j].id = scheduled'[k].id => j = k
  BY <1>3, <1>7, <1>8, <1>9, DueInQueue
<1>11. Cardinality(Cleaned) \in Nat /\ Cardinality(due) \in Nat
       /\ Cardinality(heap') = Cardinality(Cleaned) - Cardinality(due)
  <2>1. Cardinality(Cleaned \ due) = Cardinality(Cleaned) - Cardinality(Cleaned \cap due)
    BY <1>5, FS_Difference
  <2>2. Cardinality(heap') = Cardinality(Cleaned \ due) /\ Cardinality(Cleaned \cap due) = Cardinality(due)
    BY <1>6, Zenon
  <2> QED BY <1>5, <1>7, <2>1, <2>2, FS_CardinalityType
<1>12. StillDead = Cardinality(Dead(heap)) /\ Cardinality(Dead(heap)) \in Nat
       /\ \A e \in Live : timeouts[e] = Cardinality(Of(heap, {e}))
  BY <1>1, HeapHasAll
<1>13. Typed'
  <2>1. timeouts_inserted' \in Nat /\ timeouts_fired' \in Nat /\ timeouts_dead' \in Int
    BY <1>1, <1>11, <1>12 DEF CleanCounters
  <2> QED BY <1>1, <1>8, <1>10, <2>1 DEF IInv, Typed
<1>14. Book'
  <2>1. Once(heap', scheduled')
    <3>1. ASSUME NEW u \in heap', NEW k \in Timeouts(scheduled') PROVE u.id # scheduled'[k].id
      <4>1. PICK t \in due : scheduled'[k].id = t.id
        BY <1>10 DEF Carries
      <4>2. u \in Cleaned /\ t \in Cleaned /\ u # t
        BY <1>6
      <4> QED BY <1>5, <4>1, <4>2 DEF Once
    <3> QED BY <1>7, <1>10, <3>1 DEF Once
  <2>2. InBounds(heap', scheduled', timeout_generation', born')
    <3>1. ASSUME NEW k \in Timeouts(scheduled')
          PROVE  scheduled'[k].id \in 0 .. timeout_generation - 1 /\ scheduled'[k].to \in 0 .. born - 1
      <4>1. PICK t \in due : scheduled'[k].id = t.id /\ scheduled'[k].to = t.to
        BY <1>10 DEF Carries
      <4> QED BY <1>7, <4>1 DEF InBounds
    <3> QED BY <1>1, <1>7, <3>1 DEF InBounds
  <2> QED BY <1>1, <1>7, <2>1, <2>2 DEF IInv, Book, StackLives, Live
<1>15. \A E : Cardinality(IdsIn(heap', scheduled', E)) = Cardinality(Of(Cleaned, E))
  <2> TAKE E
  <2>1. Cardinality(IdsIn(Cleaned \ due, scheduled', E)) = Cardinality(IdsIn(Cleaned, << >>, E))
    BY <1>6, <1>10, IdsMoved
  <2>2. Cardinality(IdsIn(Cleaned, << >>, E)) = Cardinality(Of(Cleaned, E))
    BY <1>5, IdsOfHeap
  <2>3. Cardinality(IdsIn(heap', scheduled', E)) = Cardinality(IdsIn(Cleaned \ due, scheduled', E))
    BY <1>6, Zenon
  <2> QED BY <2>1, <2>2, <2>3
<1>16. ExactNext
  <2>1. timeouts_inserted' - Cardinality(heap') - timeouts_fired' - Cardinality(Timeouts(scheduled')) = 0
    BY <1>1, <1>10, <1>11 DEF CleanCounters
  <2>2. timeouts_dead' = Cardinality(Dead(Cleaned))
    <3>1. CASE TooManyDead
      <4>1. Dead(Cleaned) = {}
        BY <1>5, <3>1
      <4> QED BY <1>1, <3>1, <4>1, FS_EmptySet DEF CleanCounters
    <3>2. CASE ~TooManyDead
      <4>1. Dead(Cleaned) = Dead(heap)
        BY <1>5, <3>2
      <4>2. Cardinality(Dead(Cleaned)) = Cardinality(Dead(heap))
        BY <4>1, Zenon
      <4> QED BY <1>1, <1>12, <3>2, <4>2 DEF CleanCounters
    <3> QED BY <3>1, <3>2
  <2>3. Cardinality(IdsIn(heap', scheduled', (0 .. born - 1) \ Live)) = Cardinality(Dead(Cleaned))
    <3>1. Cardinality(Of(Cleaned, (0 .. born - 1) \ Live)) = Cardinality(Dead(Cleaned))
      BY <1>5, Zenon
    <3> QED BY <1>15, <3>1
  <2>4. timeouts_dead' \in Int
    BY <1>13 DEF Typed
  <2>5. \A e \in Live : timeouts[e] = Cardinality(IdsIn(heap', scheduled', {e}))
    <3> TAKE e \in Live
    <3>1. Cardinality(Of(Cleaned, {e})) = Cardinality(Of(heap, {e}))
      BY <1>5, Zenon
    <3> QED BY <1>12, <1>15, <3>1
  <2>6. timeouts' = timeouts /\ born' = born
    BY <1>1
  <2>7. timeouts_dead' - 0 = timeouts_dead'
    <3>1. \A n \in Int : n - 0 = n
      OBVIOUS
    <3> QED BY <2>4, <3>1
  <2> QED BY <2>1, <2>2, <2>3, <2>5, <2>6, <2>7 DEF ExactNext, Exact, Live
<1> QED BY <1>13, <1>14, <1>16, InvFromParts

-----------------------------------------------------------------------------
(* The theorems.                                                           *)

LEMMA InvInit == Init => IInv
<1> SUFFICES ASSUME Init PROVE IInv
  OBVIOUS
<1>1. /\ heap = {} /\ scheduled = << >> /\ calls = << >> /\ born = 0 /\ timeout_generation = 0
      /\ timeouts_inserted = 0 /\ timeouts_fired = 0 /\ timeouts_dead = 0
      /\ Live = {} /\ DOMAIN timeouts = {}
  BY DEF Init, Live
<1>2. Timeouts(scheduled) = {}
  BY <1>1 DEF Timeouts
<1>3. Typed
  BY <1>1 DEF Init, Typed, Instant
<1>4. InBounds(heap, scheduled, timeout_generation, born)
  BY <1>1, <1>2 DEF InBounds
<1>5. Book
  BY <1>1, <1>2, <1>4, FS_EmptySet DEF Init, Book, Once, StackLives
<1>6. \A E : IdsIn(heap, scheduled, E) = {}
  BY <1>1, <1>2, IdsHeld
<1>7. /\ Cardinality(heap) = 0 /\ Cardinality(Timeouts(scheduled)) = 0
      /\ \A E : Cardinality(IdsIn(heap, scheduled, E)) = 0
  BY <1>1, <1>2, <1>6, FS_EmptySet
<1>8. Exact(heap, scheduled, timeouts_inserted, timeouts_fired, timeouts_dead, timeouts, born)
  BY <1>1, <1>7 DEF Exact
<1> QED BY <1>3, <1>4, <1>5, <1>8, StatsAreExact DEF IInv

LEMMA InvStep == IInv /\ [Next]_vars => IInv'
<1> SUFFICES ASSUME IInv, [Next]_vars PROVE IInv'
  OBVIOUS
<1>1. CASE Insert
  BY <1>1, InvInsert
<1>2. ASSUME NEW when \in 0 .. MaxTime, TimeoutAt(when) PROVE IInv'
  BY <1>2, InvTimeoutAt
<1>3. ASSUME NEW e \in Live, Send(e) PROVE IInv'
  BY <1>3, InvSend
<1>4. ASSUME NEW keep \in BOOLEAN, Return(keep) PROVE IInv'
  BY <1>4, InvReturn
<1>5. CASE Skip
  BY <1>5, InvSkip
<1>6. CASE Dispatch
  BY <1>6, InvDispatch
<1>7. CASE Gather
  BY <1>7, InvGather
<1>8. CASE PollReturned
  BY <1>8, InvPollReturned
<1>9. CASE RunOne \/ GatherEmpty \/ Interrupted \/ Tick
  BY <1>9, InvOthers
<1>10. CASE UNCHANGED vars
  <2>1. UNCHANGED << now, heap, timeout_generation, stats, timeouts, born, scheduled, calls >>
        /\ clock' = clock /\ pc' = pc
    BY <1>10 DEF vars
  <2>2. clock' \in Nat /\ pc' \in {"user", "run_one", "poll"}
    BY <2>1 DEF IInv, Typed, Instant
  <2>3. pc' = "poll" => scheduled = << >>
    BY <2>1 DEF IInv, Book
  <2> QED BY <2>1, <2>2, <2>3, InvKept
<1> QED BY <1>1, <1>2, <1>3, <1>4, <1>5, <1>6, <1>7, <1>8, <1>9, <1>10
        DEF Next, UserCode, LoopCode

LEMMA Invariance == Spec => []IInv
BY InvInit, InvStep, PTL DEF Spec

\* Types: no counter of timeouts and no event's count gets below zero.
THEOREM TimersTypeCorrect == Spec => []TypeOK
BY Invariance, InvTypes, PTL

\* The loop's three counters tell exactly how many dead timeouts wait, and each
\* event's count how many it has itself, whatever was inserted, called, killed,
\* dropped and pruned in which order.
THEOREM CountersAreExact == Spec => []StatsExact
<1>1. IInv => StatsExact
  BY DEF IInv
<1> QED BY <1>1, Invariance, PTL

\* timers_cleanup does what it is for.
LEMMA CleanupBounds ==
    ASSUME IInv, PollReturned
    PROVE  \/ Cardinality(Dead(Cleaned)) <= DeadLimit
           \/ Cardinality(Dead(Cleaned)) <= DeadRatio * Cardinality(Cleaned \ Dead(Cleaned))
<1>1. scheduled = << >>
  BY DEF PollReturned, IInv, Book
<1>2. /\ IsFiniteSet(heap) /\ Cardinality(heap) \in Nat
      /\ Cardinality(Dead(heap)) \in Nat
      /\ StillDead = Cardinality(Dead(heap))
  BY <1>1, HeapHasAll
<1>3. Dead(Cleaned) = IF TooManyDead THEN {} ELSE Dead(heap)
  BY <1>1, CleanedFacts
<1>4. CASE TooManyDead
  <2>1. Cardinality(Dead(Cleaned)) = 0
    BY <1>3, <1>4, FS_EmptySet
  <2> QED BY <2>1, TimersConstants
<1>5. CASE ~TooManyDead
  <2>1. Dead(Cleaned) = Dead(heap) /\ Cleaned \ Dead(Cleaned) = heap \ Dead(heap)
        /\ heap \cap Dead(heap) = Dead(heap)
    BY <1>3, <1>5 DEF Cleaned, Dead
  <2>2. Cardinality(heap \ Dead(heap)) = Cardinality(heap) - Cardinality(heap \cap Dead(heap))
    BY <1>2, FS_Difference
  <2>3. /\ Cardinality(Dead(Cleaned)) = Cardinality(Dead(heap))
        /\ Cardinality(Cleaned \ Dead(Cleaned)) = Cardinality(heap \ Dead(heap))
        /\ Cardinality(heap \cap Dead(heap)) = Cardinality(Dead(heap))
    BY <2>1, Zenon
  <2>4. PICK d, a \in Int : /\ d = Cardinality(Dead(Cleaned)) /\ d = StillDead
                            /\ a = Cardinality(Cleaned \ Dead(Cleaned)) /\ a = StillAlive
    BY <1>2, <2>2, <2>3 DEF StillAlive
  <2>5. ~(d > DeadLimit /\ a * DeadRatio < d)
    BY <1>5, <2>4 DEF TooManyDead
  <2>6. d <= DeadLimit \/ d <= DeadRatio * a
    BY <2>4, <2>5, TimersConstants
  <2> QED BY <2>4, <2>6
<1> QED BY <1>4, <1>5

\* After the clean-up dead timeouts are few, in number or for the living ones.
THEOREM GarbageStaysBounded == Spec => GarbageBounded
<1>1. IInv /\ [Next]_vars =>
         [PollReturned =>
             \/ Cardinality(Dead(Cleaned)) <= DeadLimit
             \/ Cardinality(Dead(Cleaned)) <= DeadRatio * Cardinality(Cleaned \ Dead(Cleaned))]_vars
  BY CleanupBounds
<1> QED BY <1>1, Invariance, PTL DEF Spec, GarbageBounded

\* Where timeout id of event e may go in one step.
Kept(e, id) ==
    \/ id \in IdsIn(heap', scheduled', {e})
    \/ calls' = Append(calls, e)
    \/ ~Alive(e)'
    \/ e \in Called /\ pc = "run_one" /\ Head(scheduled) = [to |-> e, id |-> id]

\* The heap and the queue may only grow.
LEMMA KeptByUser ==
    ASSUME IInv, NEW e \in Live, NEW id \in IdsIn(heap, scheduled, {e}),
           \/ Insert \/ RunOne \/ GatherEmpty \/ Interrupted \/ Tick \/ UNCHANGED vars
           \/ \E when \in 0 .. MaxTime : TimeoutAt(when)
           \/ \E f \in Live : Send(f)
           \/ \E keep \in BOOLEAN : Return(keep)
    PROVE  Kept(e, id)
<1>1. ASSUME UNCHANGED << heap, scheduled >> PROVE Kept(e, id)
  BY <1>1 DEF Kept
<1>2. ASSUME NEW when, TimeoutAt(when) PROVE Kept(e, id)
  <2>1. heap \subseteq heap' /\ scheduled' = scheduled
    BY <1>2 DEF TimeoutAt
  <2>2. id \in IdsIn(heap', scheduled', {e})
    BY <2>1, IdsHeld
  <2> QED BY <2>2 DEF Kept
<1>3. ASSUME NEW f \in Live, Send(f) PROVE Kept(e, id)
  <2>1. scheduled \in Seq(Task) /\ f \in Event /\ scheduled' = Append(scheduled, OtherTask(f))
        /\ heap' = heap
    BY <1>3 DEF Send, IInv, Typed, Book, Event
  <2>2. Timeouts(scheduled') = Timeouts(scheduled)
        /\ \A k \in Timeouts(scheduled) : scheduled'[k] = scheduled[k]
    BY <2>1, QueueSend
  <2>3. IdsIn(heap, scheduled', {e}) = IdsIn(heap, scheduled, {e})
    BY <2>2, SameTimeouts
  <2> QED BY <2>1, <2>3 DEF Kept
<1> QED BY <1>1, <1>2, <1>3 DEF Insert, RunOne, GatherEmpty, Interrupted, Tick, Return, vars

\* The head of the queue is the one that may get lost.
LEMMA KeptByDispatch ==
    ASSUME IInv, NEW e \in Live, NEW id \in IdsIn(heap, scheduled, {e}), Skip \/ Dispatch
    PROVE  Kept(e, id)
<1>1. /\ scheduled \in Seq(Task) /\ scheduled # << >> /\ scheduled' = Tail(scheduled)
      /\ pc = "run_one" /\ heap' = heap /\ Once(heap, scheduled)
  BY DEF IInv, Typed, Book, Skip, Dispatch
<1>2. CASE Head(scheduled).id = id /\ id # NoTimeout /\ Head(scheduled).to = e
  <2>1. Dispatch
    BY <1>2 DEF Skip, Alive
  <2>2. Head(scheduled) = [to |-> e, id |-> id]
    <3>1. Head(scheduled) \in Task
      BY <1>1, Rest
    <3> QED BY <1>2, <3>1 DEF Task
  <2>3. calls' = IF e \in Called THEN calls ELSE Append(calls, e)
    BY <1>2, <2>1 DEF Dispatch
  <2> QED BY <1>1, <2>2, <2>3 DEF Kept
<1>3. CASE ~(Head(scheduled).id = id /\ id # NoTimeout /\ Head(scheduled).to = e)
  <2>1. IF Head(scheduled).id # NoTimeout /\ Head(scheduled).to \in {e}
        THEN IdsIn(heap, Tail(scheduled), {e}) = IdsIn(heap, scheduled, {e}) \ {Head(scheduled).id}
        ELSE IdsIn(heap, Tail(scheduled), {e}) = IdsIn(heap, scheduled, {e})
    BY <1>1, IdsTail
  <2>2. id \in IdsIn(heap, Tail(scheduled), {e})
    BY <1>3, <2>1
  <2>3. id \in IdsIn(heap', scheduled', {e})
    BY <1>1, <2>2, Zenon
  <2> QED BY <2>3 DEF Kept
<1> QED BY <1>2, <1>3

\* Only dead timeouts leave the heap, or go to the queue.
LEMMA KeptByGather ==
    ASSUME IInv, NEW e \in Live, NEW id \in IdsIn(heap, scheduled, {e}), Gather \/ PollReturned
    PROVE  Kept(e, id)
<1>1. scheduled = << >>
  BY DEF Gather, PollReturned, IInv, Book
<1>2. PICK t \in heap : t.to = e /\ t.id = id
  <2>1. Timeouts(<< >>) = {}
    BY DEF Timeouts
  <2> QED BY <1>1, <2>1, IdsHeld
<1>3. CASE Gather
  <2>1. t \in heap'
    BY <1>2, <1>3 DEF Gather, DeadHeads, Dead, Alive
  <2>2. id \in IdsIn(heap', scheduled', {e})
    BY <1>2, <2>1, IdsHeld
  <2> QED BY <2>2 DEF Kept
<1>4. CASE PollReturned
  <2>1. PICK others \in Seq(Task), due \in SUBSET Cleaned :
           /\ Timeouts(others) = {} /\ heap' = Cleaned \ due
           /\ \E s \in InOrder(due) : IsQueue(scheduled', others, s)
    BY <1>4, PollBrings
  <2>2. PICK s \in InOrder(due) : IsQueue(scheduled', others, s)
    BY <2>1
  <2>3. Cleaned \in SUBSET heap /\ IsFiniteSet(Cleaned) /\ t \in Cleaned
    BY <1>1, <1>2, CleanedFacts DEF Cleaned, Pruned, Dead, Alive
  <2>4. IsFiniteSet(due) /\ due \subseteq TimeoutHolder
    BY <2>3, FS_Subset DEF IInv, Typed
  <2>5. Carries(scheduled', due)
    BY <2>1, <2>2, <2>4, DueInQueue
  <2>6. CASE t \in due
    <3>1. PICK k \in Timeouts(scheduled') : scheduled'[k].id = id /\ scheduled'[k].to = e
      BY <1>2, <2>5, <2>6 DEF Carries
    <3>2. id \in IdsIn(heap', scheduled', {e})
      BY <3>1, IdsHeld
    <3> QED BY <3>2 DEF Kept
  <2>7. CASE t \notin due
    <3>1. t \in heap'
      BY <2>1, <2>3, <2>7
    <3>2. id \in IdsIn(heap', scheduled', {e})
      BY <1>2, <3>1, IdsHeld
    <3> QED BY <3>2 DEF Kept
  <2> QED BY <2>6, <2>7
<1> QED BY <1>3, <1>4

LEMMA KeptStep ==
    ASSUME IInv, IInv', [Next]_vars, NEW e \in Live, NEW id \in PendingOf(e)
    PROVE  \/ id \in PendingOf(e)'
           \/ calls' = Append(calls, e)
           \/ ~Alive(e)'
           \/ e \in Called /\ pc = "run_one" /\ Head(scheduled) = [to |-> e, id |-> id]
<1>1. id \in IdsIn(heap, scheduled, {e})
  BY StatsAreExact DEF IInv, Book
<1>2. Kept(e, id)
  <2>1. \/ \/ Insert \/ RunOne \/ GatherEmpty \/ Interrupted \/ Tick \/ UNCHANGED vars
           \/ \E when \in 0 .. MaxTime : TimeoutAt(when)
           \/ \E f \in Live : Send(f)
           \/ \E keep \in BOOLEAN : Return(keep)
        \/ Skip \/ Dispatch
        \/ Gather \/ PollReturned
    BY DEF Next, UserCode, LoopCode
  <2> QED BY <1>1, <2>1, KeptByUser, KeptByDispatch, KeptByGather
<1>3. PendingOf(e)' = IdsIn(heap', scheduled', {e})
  BY StatsAreExactNext DEF IInv, Book
<1> QED BY <1>2, <1>3 DEF Kept

\* A timeout of a living event stays until its callback gets it, unless it comes
\* to the queue's head while a callback of that event runs.
THEOREM OnlyBusyLosesTimeouts == Spec => LiveTimeoutsKept
<1>1. IInv /\ IInv' /\ [Next]_vars =>
         [\A e \in Live : \A id \in PendingOf(e) :
             \/ id \in PendingOf(e)'
             \/ calls' = Append(calls, e)
             \/ ~Alive(e)'
             \/ e \in Called /\ pc = "run_one" /\ Head(scheduled) = [to |-> e, id |-> id]]_vars
  BY KeptStep
<1> QED BY <1>1, Invariance, PTL DEF Spec, LiveTimeoutsKept
=============================================================================
