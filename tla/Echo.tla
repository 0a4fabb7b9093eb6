-------------------------------- MODULE Echo --------------------------------
(***************************************************************************)
(* The echo server of examples/echo.rs: its three kinds of events in one   *)
(* loop, combined by the macro of src/adapt.rs, and the peers around it.   *)
(*                                                                         *)
(* The loop is as much of src/core.rs as this program uses: readiness and  *)
(* signals become tasks in one poll, which are dispatched before the next  *)
(* one, and no callback runs the loop.  Every connection has an IO of its  *)
(* own (the ids are the subject of IoTable).  The bytes that a peer sends  *)
(* are told apart by their numbers.  All that is known of a connection is  *)
(* forgotten when it is dropped, and a new one may take its place.         *)
(***************************************************************************)
EXTENDS Integers, Sequences, FiniteSets

CONSTANTS
  Conn,        (* the connections, as many as there may be at a time       *)
  BufSize,     (* the length of a connection's buffer, 1024 in the code    *)
  Limit,       (* connections accepted in one call, 128 in the code        *)
  MaxBytes     (* bound: bytes a peer sends                                *)

ASSUME EchoConstants ==
    /\ BufSize \in Nat \ {0} /\ Limit \in Nat \ {0}
    /\ MaxBytes \in Nat
    /\ {"listener", "shutdown"} \cap Conn = {}

VARIABLES
  peer,        (* whether each connection is made, and accepted, or closed *)
               (* because a call of the kernel for it failed               *)
  backlog,     (* kernel: those made and not accepted, oldest first        *)
  fate,        (* whether the peer goes on, stopped sending, or reset it   *)
  sent,        (* how many bytes the peer sent ...                         *)
  incoming,    (* ... and those the server has not read yet                *)
  echoed,      (* the bytes the server wrote                               *)
  buf, buf_pos, buf_size,    (* the fields of each Connection              *)
  interest,    (* what each connection waits for                           *)
  shutdown,    (* whether Shutdown lives                                   *)
  raised,      (* whether one of its signals came                          *)
  scheduled,   (* tasks ready to be dispatched                             *)
  round,       (* passes of the loop that accepts                          *)
  pc           (* where the program is                                     *)

wire == << peer, backlog, fate, sent, incoming, echoed >>
connection == << buf, buf_pos, buf_size, interest >>
vars == << wire, connection, shutdown, raised, scheduled, round, pc >>

\* combined!: each event is of one kind, whose callback a task goes to.
Variant(h) == IF h \in Conn THEN "C" ELSE IF h = "listener" THEN "L" ELSE "S"
Handle == Conn \cup {"listener", "shutdown"}
Ready == {"readable", "writable", "signal"}
Task == [to : Handle, ready : Ready]
IsTo(variant) == scheduled # << >> /\ Variant(Head(scheduled).to) = variant

Running == pc \in {"run", "accept"}
Open == {c \in Conn : peer[c] = "open"}

TypeOK ==
    /\ peer \in [Conn -> {"none", "queued", "open", "failed"}]
    /\ backlog \in Seq(Conn)
    /\ fate \in [Conn -> {"fine", "eof", "reset"}]
    /\ sent \in [Conn -> 0 .. MaxBytes]
    /\ incoming \in [Conn -> Seq(1 .. MaxBytes)]
    /\ echoed \in [Conn -> Seq(1 .. MaxBytes)]
    /\ buf \in [Conn -> [1 .. BufSize -> 0 .. MaxBytes]]
    /\ buf_pos \in [Conn -> 0 .. BufSize] /\ buf_size \in [Conn -> 0 .. BufSize]
    /\ interest \in [Conn -> {"readable", "writable"}]
    /\ shutdown \in BOOLEAN /\ raised \in BOOLEAN
    /\ scheduled \in Seq(Task)
    /\ round \in 0 .. Limit
    /\ pc \in {"start", "run", "accept", "stopped", "failed"}

EmptyBuffer == [k \in 1 .. BufSize |-> 0]

\* Shutdown is in the loop and the listener is not; the buffers are made with the
\* connections.
Init ==
    /\ peer = [c \in Conn |-> "none"] /\ backlog = << >>
    /\ fate = [c \in Conn |-> "fine"] /\ sent = [c \in Conn |-> 0]
    /\ incoming = [c \in Conn |-> << >>] /\ echoed = [c \in Conn |-> << >>]
    /\ buf = [c \in Conn |-> EmptyBuffer]
    /\ buf_pos = [c \in Conn |-> 0] /\ buf_size = [c \in Conn |-> 0]
    /\ interest = [c \in Conn |-> "readable"]
    /\ shutdown = TRUE /\ raised = FALSE
    /\ scheduled = << >> /\ round = 0 /\ pc = "start"

\* The kernel's and the server's part of a connection go; how tells why.
Forget(c, how) ==
    /\ peer' = [peer EXCEPT ![c] = how] /\ fate' = [fate EXCEPT ![c] = "fine"]
    /\ sent' = [sent EXCEPT ![c] = 0] /\ incoming' = [incoming EXCEPT ![c] = << >>]
    /\ echoed' = [echoed EXCEPT ![c] = << >>]
    /\ buf' = [buf EXCEPT ![c] = EmptyBuffer]
    /\ buf_pos' = [buf_pos EXCEPT ![c] = 0] /\ buf_size' = [buf_size EXCEPT ![c] = 0]
    /\ interest' = [interest EXCEPT ![c] = "readable"]

-----------------------------------------------------------------------------
(* The peers, the kernel and the user (external)                           *)

Connect(c) ==
    /\ peer[c] \in {"none", "failed"}
    /\ peer' = [peer EXCEPT ![c] = "queued"]
    /\ backlog' = Append(backlog, c)
    /\ UNCHANGED << fate, sent, incoming, echoed, connection, shutdown, raised,
                    scheduled, round, pc >>

\* A peer sends before it is accepted, too.
PeerSend(c) ==
    /\ peer[c] \in {"queued", "open"} /\ fate[c] = "fine" /\ sent[c] < MaxBytes
    /\ sent' = [sent EXCEPT ![c] = @ + 1]
    /\ incoming' = [incoming EXCEPT ![c] = Append(@, sent[c] + 1)]
    /\ UNCHANGED << peer, backlog, fate, echoed, connection, shutdown, raised,
                    scheduled, round, pc >>

\* After a reset, what was not read is lost.  (Errors of the server's own calls are in
\* Fail.)
PeerEnd(c, how) ==
    /\ peer[c] \in {"queued", "open"} /\ fate[c] # "reset" /\ fate[c] # how
    /\ fate' = [fate EXCEPT ![c] = how]
    /\ incoming' = IF how = "reset" THEN [incoming EXCEPT ![c] = << >>] ELSE incoming
    /\ UNCHANGED << peer, backlog, sent, echoed, connection, shutdown, raised,
                    scheduled, round, pc >>

\* One of SIGINT, SIGQUIT and SIGTERM.  That handlers of two signals may block each
\* other is a subject of SignalDispatch; here the signal gets to the loop.
RaiseSignal ==
    /\ ~raised
    /\ raised' = TRUE
    /\ UNCHANGED << wire, connection, shutdown, scheduled, round, pc >>

-----------------------------------------------------------------------------
(* run, and the loop                                                       *)

\* The last part of run's setup.  An error of bind goes to the handler that the loop
\* starts with, which gives it back.
Bind ==
    /\ pc = "start"
    /\ pc' \in {"run", "failed"}
    /\ UNCHANGED << wire, connection, shutdown, raised, scheduled, round >>

Ripe == {[to |-> c, ready |-> interest[c]] : c \in
            {d \in Open : \/ fate[d] = "reset"
                          \/ interest[d] = "readable" /\ (incoming[d] # << >> \/ fate[d] = "eof")
                          \/ interest[d] = "writable"}}
        \cup {[to |-> "listener", ready |-> "readable"] : x \in {y \in {1} : backlog # << >>}}
        \cup {[to |-> "shutdown", ready |-> "signal"] : x \in {y \in {1} : raised}}

\* The poll reports all that is ready, in any order.
Orders(S) == {q \in [1 .. Cardinality(S) -> S] : \A i, j \in DOMAIN q : i # j => q[i] # q[j]}
Poll ==
    /\ pc = "run" /\ scheduled = << >> /\ Ripe # {}
    /\ scheduled' \in Orders(Ripe)
    /\ raised' = FALSE
    /\ UNCHANGED << wire, connection, shutdown, round, pc >>

\* Errors of the poll other than EINTR end run.
PollFailed ==
    /\ pc = "run" /\ scheduled = << >>
    /\ pc' = "failed"
    /\ UNCHANGED << wire, connection, shutdown, raised, scheduled, round >>

Finish(task) == scheduled' = Tail(scheduled)

\* Shutdown::signal
Signal ==
    /\ pc = "run" /\ IsTo("S")
    /\ Finish(Head(scheduled))
    /\ shutdown' = FALSE /\ pc' = "stopped"
    /\ UNCHANGED << wire, connection, raised, round >>

-----------------------------------------------------------------------------
(* Listener::io                                                            *)

Listen ==
    /\ pc = "run" /\ IsTo("L")
    /\ pc' = "accept"
    /\ UNCHANGED << wire, connection, shutdown, raised, scheduled, round >>

InAccept_Once_More == pc = "accept" /\ round <= Limit
InAccept == pc = "accept" /\ round < Limit
NextRound_Endless == round
NextRound == round + 1

AcceptOpen ==
    /\ InAccept /\ backlog # << >>
    /\ backlog' = Tail(backlog)
    /\ peer' = [peer EXCEPT ![Head(backlog)] = "open"]
    /\ round' = NextRound
    /\ UNCHANGED << fate, sent, incoming, echoed, connection, shutdown, raised,
                    scheduled, pc >>

\* The init of the connection fails, as its stream is not registered: the error handler
\* drops it, and insert is fine.
AcceptDropped ==
    /\ InAccept /\ backlog # << >>
    /\ backlog' = Tail(backlog)
    /\ Forget(Head(backlog), "failed")
    /\ round' = NextRound
    /\ UNCHANGED << shutdown, raised, scheduled, pc >>

AcceptInterrupted ==
    /\ InAccept
    /\ round' = NextRound
    /\ UNCHANGED << wire, connection, shutdown, raised, scheduled, pc >>

\* There are no more, or there were enough for now.
AcceptDone ==
    /\ pc = "accept" /\ (round = Limit \/ backlog = << >>)
    /\ Finish(Head(scheduled))
    /\ pc' = "run" /\ round' = 0
    /\ UNCHANGED << wire, connection, shutdown, raised >>

\* Any other error kills the listener, and the handler gives it back to run.
AcceptFailed ==
    /\ InAccept
    /\ pc' = "failed"
    /\ Finish(Head(scheduled))
    /\ UNCHANGED << wire, connection, shutdown, raised, round >>

-----------------------------------------------------------------------------
(* Connection::io                                                          *)

Serves(c, ready) ==
    pc = "run" /\ scheduled # << >> /\ Head(scheduled) = [to |-> c, ready |-> ready]

\* io_update, by what the callback leaves in the buffer
Wish_Read(pos, size) == "readable"
Wish(pos, size) == IF pos = size THEN "readable" ELSE "writable"
Buffer(c, pos, size) ==
    /\ buf_pos' = [buf_pos EXCEPT ![c] = pos] /\ buf_size' = [buf_size EXCEPT ![c] = size]
    /\ interest' = [interest EXCEPT ![c] = Wish(pos, size)]

\* As much is read as there is room for; a packet boundary may make it less.
Read(c, n) ==
    /\ Serves(c, "readable") /\ fate[c] # "reset" /\ n <= Len(incoming[c])
    /\ Finish(Head(scheduled))
    /\ buf' = [buf EXCEPT ![c] = [k \in 1 .. BufSize |->
                  IF k <= n THEN incoming[c][k] ELSE @[k]]]
    /\ incoming' = [incoming EXCEPT ![c] = SubSeq(@, n + 1, Len(@))]
    /\ Buffer(c, 0, n)
    /\ UNCHANGED << peer, backlog, fate, sent, echoed, shutdown, raised, round, pc >>

\* WouldBlock or Interrupted
ReadAgain(c) ==
    /\ Serves(c, "readable")
    /\ Finish(Head(scheduled))
    /\ Buffer(c, 0, 0)
    /\ UNCHANGED << wire, buf, shutdown, raised, round, pc >>

Rest(c) == buf_size[c] - buf_pos[c]
Chunk_FromStart(c, n) == SubSeq(buf[c], 1, n)
Chunk(c, n) == SubSeq(buf[c], buf_pos[c] + 1, buf_pos[c] + n)
Write(c, n) ==
    /\ Serves(c, "writable") /\ fate[c] # "reset"
    /\ n <= Rest(c)
    /\ Finish(Head(scheduled))
    /\ echoed' = [echoed EXCEPT ![c] = @ \o Chunk(c, n)]
    /\ Buffer(c, buf_pos[c] + n, buf_size[c])
    /\ UNCHANGED << peer, backlog, fate, sent, incoming, buf, shutdown, raised, round, pc >>

\* WouldBlock or Interrupted; the peer may not read what it is sent.
WriteAgain(c) ==
    /\ Serves(c, "writable")
    /\ Finish(Head(scheduled))
    /\ Buffer(c, buf_pos[c], buf_size[c])
    /\ UNCHANGED << wire, buf, shutdown, raised, round, pc >>

\* The end of the stream is made an error, and that of a reset is passed on; the event
\* is killed, and its stream closed, and the error handler keeps the loop running.
AtEnd_Eof(c) == fate[c] = "eof"
AtEnd(c) == fate[c] = "eof" /\ incoming[c] = << >>
Drop(c) ==
    /\ \/ Serves(c, "readable") /\ (AtEnd(c) \/ fate[c] = "reset")
       \/ Serves(c, "writable") /\ fate[c] = "reset"
    /\ Finish(Head(scheduled))
    /\ Forget(c, "none")
    /\ UNCHANGED << backlog, shutdown, raised, round, pc >>

\* So it is, without any doing of the peer, if the read or the write has another error,
\* or if io_update has one after them: what was read and not written is gone.
Fail(c) ==
    /\ \E ready \in {"readable", "writable"} : Serves(c, ready)
    /\ Finish(Head(scheduled))
    /\ Forget(c, "failed")
    /\ UNCHANGED << backlog, shutdown, raised, round, pc >>

-----------------------------------------------------------------------------
\* What happens before the server runs and after it ended does not matter here.
Outside ==
    /\ Running
    /\ \/ \E c \in Conn : \/ Connect(c) \/ PeerSend(c)
                          \/ \E how \in {"eof", "reset"} : PeerEnd(c, how)
       \/ RaiseSignal

Serve(c) ==
    \/ \E n \in 1 .. BufSize : Read(c, n) \/ Write(c, n)
    \/ Drop(c)

Server ==
    \/ Bind \/ Poll \/ PollFailed \/ Signal \/ Listen \/ AcceptInterrupted \/ AcceptDone \/ AcceptFailed
    \/ AcceptOpen \/ AcceptDropped
    \/ \E c \in Conn : Serve(c) \/ ReadAgain(c) \/ WriteAgain(c) \/ Fail(c)

Next == Outside \/ Server

Spec == Init /\ [][Next]_vars

\* The server runs on, not every call of the kernel is interrupted, and peers read
\* what they are sent, so that not every write finds the kernel's buffer full.
Fairness ==
    /\ WF_vars(Server)
    /\ SF_vars(AcceptOpen \/ AcceptDropped)
    /\ \A c \in Conn : SF_vars(Serve(c))
FairSpec == Spec /\ Fairness

-----------------------------------------------------------------------------
(* Properties.                                                             *)

\* What a connection was sent is what it echoed, what is left in its buffer and what
\* it has not read yet, in this order (unless the peer's reset took the rest away).
Numbers(n) == [k \in 1 .. n |-> k]
Held(c) == SubSeq(buf[c], buf_pos[c] + 1, buf_size[c])
NothingLost == \A c \in Conn :
    LET known == echoed[c] \o Held(c) \o incoming[c]
    IN  IF fate[c] = "reset" THEN known = Numbers(Len(known))
        ELSE known = Numbers(sent[c])

\* The assertions of Connection::io hold: when a task reaches a connection, it lives,
\* still waits for what the poll reported, and its buffer is empty exactly if that is
\* to read.
TasksFit == Running =>
    \A k \in DOMAIN scheduled : LET c == scheduled[k].to IN c \in Conn =>
        /\ peer[c] = "open" /\ scheduled[k].ready = interest[c]
        /\ IF interest[c] = "readable" THEN buf_pos[c] = buf_size[c]
                                       ELSE buf_pos[c] < buf_size[c]

\* A connection that was served is closed only after everything was echoed, unless its
\* peer reset it or one of the server's own calls for it failed ("failed": then bytes
\* that were read may be lost).
ClosedAfterEcho ==
    [][\A c \in Conn : peer[c] = "open" /\ peer'[c] = "none" /\ fate[c] # "reset"
          => echoed[c] = Numbers(sent[c])]_vars

\* All that a peer sends (at most MaxBytes) is echoed, however many other connections
\* come, unless the server ends or the connection is reset or fails.
Owed(c) == /\ Len(echoed[c]) < sent[c]
           /\ peer[c] \in {"queued", "open"} /\ fate[c] # "reset" /\ Running
EverythingEchoed == \A c \in Conn : []<>~Owed(c)

\* A signal ends the server, however busy it is.
SignalStops == raised ~> ~Running
=============================================================================
