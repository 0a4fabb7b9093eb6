------------------------------- MODULE Pargs --------------------------------
(***************************************************************************)
(* The program examples/pargs.rs, which runs commands, a few at a time: a  *)
(* Runner starts one, asks the loop for its exit, and then starts the      *)
(* next.  It is one of the programs that Children speaks of: each of its   *)
(* steps is a step there, and its own state says which.  The other program *)
(* considered here is any program.                                         *)
(***************************************************************************)
EXTENDS Children

ASSUME PargsConstants ==
    Process \subseteq Nat /\ Pid \subseteq Nat /\ IsFiniteSet(Process)

VARIABLES
  program,     (* "pargs", or "any"                                        *)
  jobs,        (* the number on the command line                           *)
  lines,       (* the commands that were not read yet                      *)
  step,        (* where the program is                                     *)
  holds,       (* the Runners whose Option is Some command                 *)
  errors       (* the flag in the context                                  *)

own == << lines, step, holds, errors >>
allVars == << vars, program, jobs, own >>

Steps == {"main", "loop", "child", "run", "spawned", "keep", "leave",
          "empty", "failing", "success", "failed"}
PargsTypeOK ==
    /\ TypeOK
    /\ program \in {"pargs", "any"}
    /\ jobs \in 0 .. MaxEvents
    /\ lines \in 0 .. Cardinality(Process)
    /\ step \in Steps /\ holds \subseteq Event /\ errors \in BOOLEAN

\* Processes, and ids, are alike: one of the ways to number them stands for all.
Numbered ==
    /\ \A c, d \in Process : c <= d => pid[c] <= pid[d]
    /\ \A c \in Process, p \in Pid : p < pid[c] => \E d \in Process : pid[d] = p

\* Any program has no use for the state of this one.
PargsInit ==
    /\ Init /\ Numbered
    /\ \/ program = "pargs" /\ jobs \in 0 .. MaxEvents /\ lines \in 0 .. Cardinality(Process)
       \/ program = "any" /\ jobs = 0 /\ lines = 0
    /\ step = "main" /\ holds = {} /\ errors = FALSE

-----------------------------------------------------------------------------
(* run                                                                     *)

Goto(at) == step' = at
Same == UNCHANGED << lines, holds, errors >>

Missing == born < jobs
InsertRunner ==
    /\ step = "main" /\ Missing
    /\ Insert
    /\ Goto("run") /\ Same

\* run_until_empty, up to the error that says that there are no more events
RunLoop ==
    /\ step = "main" /\ ~Missing
    /\ RunOne
    /\ Goto("loop") /\ Same
Callback ==
    /\ step = "loop"
    /\ Dispatch
    /\ Goto("child") /\ Same
Empty ==
    /\ step = "loop"
    /\ GatherEmpty
    /\ Goto("empty") /\ Same

\* The rest of the loop, in which nothing but signals happens
Loop ==
    /\ step = "loop"
    /\ \/ Skip \/ Gather \/ ReapDone \/ ScanDone
       \/ \E s \in Sig : Scan(s)
       \/ \E c \in Process : Reap(c)
       \/ PollOther /\ scheduled' = scheduled /\ pc' = "run_one"
       \/ PollSignal /\ scheduled' = << >>
    /\ UNCHANGED own

LoopFails ==
    /\ step = "loop"
    /\ PollOther /\ pc' = "user"
    /\ Goto("failing") /\ Same

\* What run returns, and the loop goes.
Finish ==
    /\ step \in {"empty", "failing"}
    /\ DropLoop
    /\ Goto(IF step = "failing" \/ errors THEN "failed" ELSE "success") /\ Same

-----------------------------------------------------------------------------
(* Runner                                                                  *)

\* The beginning of Runner::child, which unwraps the command
TakeCommand ==
    /\ step = "child" /\ Top \in holds
    /\ holds' = holds \ {Top}
    /\ \E failed \in BOOLEAN : errors' = (errors \/ failed)
    /\ Goto("run")
    /\ UNCHANGED << vars, lines >>

\* Runner::run: there are no more commands ...
NoCommand ==
    /\ step = "run" /\ lines = 0
    /\ Goto("leave") /\ Same /\ UNCHANGED vars

\* ... or reading one or starting it fails ...
CommandFails ==
    /\ step = "run" /\ lines > 0
    /\ lines' = lines - 1
    /\ Goto("failing") /\ UNCHANGED << vars, holds, errors >>

\* ... or it starts ...
Start(c) ==
    /\ step = "run" /\ lines > 0
    /\ Spawn(c)
    /\ lines' = lines - 1
    /\ Goto("spawned") /\ UNCHANGED << holds, errors >>

\* ... and then it is tracked.
Track(c) ==
    /\ step = "spawned" /\ asker[c] = Nobody
    /\ Child(c)
    /\ holds' = holds \cup {Top}
    /\ Goto("keep") /\ UNCHANGED << lines, errors >>

\* The callback returns, to insert or to run_one.
Answer_Keep == TRUE
Answer_Leave == FALSE
Answer == step = "keep"
RunnerReturns ==
    /\ step \in {"keep", "leave"}
    /\ Return(Answer)
    /\ Goto("main") /\ Same

\* An error of it goes through insert, or run, to main.
RunnerFails ==
    /\ step = "failing"
    /\ Return(FALSE)
    /\ UNCHANGED own

-----------------------------------------------------------------------------
\* No other code of this program waits for children, and only they raise signals.
PargsCode ==
    \/ InsertRunner \/ RunLoop \/ Callback \/ Empty \/ Loop \/ LoopFails \/ Finish
    \/ TakeCommand \/ NoCommand \/ CommandFails \/ RunnerReturns \/ RunnerFails
    \/ \E c \in Process : Start(c) \/ Track(c)
PargsNext ==
    \/ PargsCode
    \/ \E c \in Process : Exit(c) /\ UNCHANGED own
    \/ \E s \in Sig : Deliver(s) /\ UNCHANGED own

ProgramNext ==
    /\ \/ program = "any" /\ Next /\ UNCHANGED own
       \/ program = "pargs" /\ PargsNext
    /\ UNCHANGED << program, jobs >>

ProgramSpec == PargsInit /\ [][ProgramNext]_allVars

\* As for any program, and the commands end.
Any == program = "any"
ProgramFairness ==
    /\ \A s \in Sig : WF_vars(Deliver(s))
    /\ WF_vars(LoopCode)
    /\ SF_vars(PollSignal)
    /\ WF_vars(Any /\ \E keep \in BOOLEAN : Return(keep))
    /\ WF_vars(Any /\ calls = << >> /\ RunOne)
    /\ WF_allVars(~Any /\ PargsCode /\ UNCHANGED << program, jobs >>)
    /\ \A c \in Process : WF_vars(~Any /\ Exit(c))
FairProgramSpec == ProgramSpec /\ ProgramFairness

-----------------------------------------------------------------------------
(* Properties.                                                             *)

\* A Runner that lives and is not being called has one command that was not reported
\* to it, so that the loop becomes empty when there are no more; and it holds it, so
\* that unwrap does not panic.  And there are never more commands at a time than asked for.
RunnersBusy == ~Any =>
    /\ \A e \in Live \ Called :
         e \in holds /\ Cardinality({c \in Process \ settled : asker[c] = e}) = 1
    /\ step = "child" => Top \in holds
    /\ Cardinality(Present) <= jobs

\* Success means that all commands were run and ended (with no jobs, none is run).
SuccessMeansDone == step = "success" /\ jobs > 0 =>
    /\ lines = 0
    /\ \A c \in Process : status[c] # "unborn" => status[c] = "reaped" /\ c \in settled

\* The program ends, unless all commands that are left ended before the first call of
\* Scope::child had enabled SIGCHLD.
Ended == step \in {"success", "failed"}
Stranded == Present # {} /\ Present \subseteq Zombies \ heard
PargsEnds == ~Any => <>(Ended \/ []Stranded)
=============================================================================
