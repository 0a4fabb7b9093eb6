--------------------------- MODULE ResultStreams ----------------------------
(***************************************************************************)
(* What src/core.rs promises of background tasks, in the documentation of  *)
(* background and background_iter: a task ends in one answer, its value,   *)
(* its error or the news that it panicked; an iterator gives its values    *)
(* first, each once and in order, and the answer is its end (or the error  *)
(* because of which there is no iterator, and then there are no values).   *)
(* Each of these is handed to a callback of the event that asked, or lost: *)
(* just if that event is gone, or busy with another callback of its own,   *)
(* when its turn comes.  What follows is handed over all the same.         *)
(***************************************************************************)
EXTENDS Naturals, Sequences

CONSTANT Job

Kind == {"one", "iter"}
Final(k) == IF k = "one" THEN {"value", "error", "panicked"} ELSE {"end", "error"}
NoValue == 0

VARIABLES
  kind,      (* what each job is, or "none" before it is submitted         *)
  asker,     (* the event that submitted it                                *)
  free,      (* the events that live and have no callback running          *)
  given,     (* what callbacks got as the values of each job: the numbers  *)
             (* of those handed over, NoValue in the place of a lost one   *)
  answers    (* and its answers, "lost" in the place of a lost one         *)

vars == << kind, asker, free, given, answers >>

Init ==
    /\ kind = [j \in Job |-> "none"] /\ DOMAIN asker = Job
    /\ free = {}
    /\ given = [j \in Job |-> << >>]
    /\ answers = [j \in Job |-> << >>]

\* A job is submitted by a callback of some event, which is not free during that.
Submit(j, k) ==
    /\ kind[j] = "none"
    /\ kind' = [kind EXCEPT ![j] = k]
    /\ asker' = [asker EXCEPT ![j] = asker'[j]] /\ asker'[j] \notin free
    /\ UNCHANGED << free, given, answers >>

\* The turn of a result comes: its event is called with it, or cannot be.
Reaches(j) == asker[j] \in free /\ free' = free \ {asker[j]}
Misses(j) == asker[j] \notin free /\ UNCHANGED free

Item(j) ==
    /\ kind[j] = "iter" /\ answers[j] = << >>
    /\ \/ Reaches(j) /\ given' = [given EXCEPT ![j] = Append(@, Len(@) + 1)]
       \/ Misses(j) /\ given' = [given EXCEPT ![j] = Append(@, NoValue)]
    /\ UNCHANGED << kind, asker, answers >>

Answer(j, a) ==
    /\ kind[j] # "none" /\ a \in Final(kind[j])
    /\ answers[j] = << >>
    /\ a = "error" => given[j] = << >>
    /\ \/ Reaches(j) /\ answers' = [answers EXCEPT ![j] = << a >>]
       \/ Misses(j) /\ answers' = [answers EXCEPT ![j] = << "lost" >>]
    /\ UNCHANGED << kind, asker, given >>

\* Events are inserted and die, and callbacks of them begin and end.
Events == UNCHANGED << kind, asker, given, answers >>

Next ==
    \/ Events
    \/ \E j \in Job :
        \/ \E k \in Kind : Submit(j, k)
        \/ Item(j)
        \/ \E a \in Final("one") \cup Final("iter") : Answer(j, a)

Spec == Init /\ [][Next]_vars
=============================================================================
