----------------------------- MODULE EchoProofs -----------------------------
(***************************************************************************)
(* Proofs about Echo: no byte is lost, repeated or reordered, tasks fit    *)
(* what their connections wait for, and a connection is closed only after  *)
(* all was echoed, for any numbers of connections and bytes, any length of *)
(* the buffers and any limit of the accepting loop.                        *)
(***************************************************************************)
EXTENDS Echo, FiniteSetTheorems, SequenceTheorems, TLAPS

\* Only a connection with nothing in its buffer waits to read.
Buffered(c) ==
    /\ buf_pos[c] <= buf_size[c]
    /\ interest[c] = IF buf_pos[c] = buf_size[c] THEN "readable" ELSE "writable"

\* What NothingLost says, byte by byte: the bytes echoed, those in the buffer and those
\* not read are numbered one after the other.
InOrder(c) ==
    /\ \A k \in 1 .. Len(echoed[c]) : echoed[c][k] = k
    /\ \A k \in 1 .. Rest(c) : buf[c][buf_pos[c] + k] = Len(echoed[c]) + k
    /\ \A k \in 1 .. Len(incoming[c]) : incoming[c][k] = Len(echoed[c]) + Rest(c) + k
    /\ fate[c] # "reset" => Len(echoed[c]) + Rest(c) + Len(incoming[c]) = sent[c]

Kept == \A c \in Conn : Buffered(c) /\ InOrder(c)

\* Connections in the backlog are in it once, and are not accepted yet.
Queued ==
    /\ \A i \in 1 .. Len(backlog) : peer[backlog[i]] = "queued"
    /\ \A i, j \in 1 .. Len(backlog) : backlog[i] = backlog[j] => i = j

\* One task for each event, and those of connections fit; the poll finds finitely many.
Fits ==
    /\ \A k \in 1 .. Len(scheduled) : scheduled[k].to \in Conn =>
         peer[scheduled[k].to] = "open" /\ scheduled[k].ready = interest[scheduled[k].to]
    /\ \A i, j \in 1 .. Len(scheduled) : scheduled[i].to = scheduled[j].to => i = j
    /\ pc = "accept" => scheduled # << >>
    /\ IsFiniteSet(Open)

IInv == TypeOK /\ Kept /\ Queued /\ Fits

-----------------------------------------------------------------------------
(* Lemmas about the data.                                                  *)

LEMMA Longer ==
    ASSUME NEW S, NEW s \in Seq(S), NEW x \in S
    PROVE  /\ Append(s, x) \in Seq(S)
           /\ Len(Append(s, x)) = Len(s) + 1 /\ Len(s) \in Nat
           /\ \A i \in 1 .. Len(s) : Append(s, x)[i] = s[i]
           /\ Append(s, x)[Len(s) + 1] = x
OBVIOUS

LEMMA Shorter ==
    ASSUME NEW S, NEW s \in Seq(S), s # << >>
    PROVE  /\ Tail(s) \in Seq(S) /\ Len(s) \in Nat \ {0} /\ Len(Tail(s)) = Len(s) - 1
           /\ \A i \in 1 .. Len(Tail(s)) : Tail(s)[i] = s[i + 1]
           /\ Head(s) = s[1] /\ s[1] \in S
OBVIOUS

\* What follows the first m elements of a sequence, up to the n-th.
LEMMA Cut ==
    ASSUME NEW S, NEW s \in Seq(S), NEW m \in Nat, NEW n \in Nat, m <= n, n <= Len(s)
    PROVE  /\ SubSeq(s, m + 1, n) \in Seq(S)
           /\ Len(SubSeq(s, m + 1, n)) = n - m
           /\ \A k \in 1 .. n - m : SubSeq(s, m + 1, n)[k] = s[m + k]
<1>1. Len(s) \in Nat /\ \A i \in 1 .. Len(s) : s[i] \in S
  OBVIOUS
<1>2. SubSeq(s, m + 1, n) = [k \in 1 .. n - m |-> s[m + k]]
  <2>1. 1 + n - (m + 1) = n - m
    OBVIOUS
  <2> QED BY <1>1, <2>1, SubSeqProperties
<1> QED BY <1>1, <1>2

LEMMA Joined ==
    ASSUME NEW S, NEW s \in Seq(S), NEW t \in Seq(S)
    PROVE  /\ s \o t \in Seq(S)
           /\ Len(s \o t) = Len(s) + Len(t) /\ Len(s) \in Nat /\ Len(t) \in Nat
           /\ \A k \in 1 .. Len(s) : (s \o t)[k] = s[k]
           /\ \A k \in 1 .. Len(t) : (s \o t)[Len(s) + k] = t[k]
OBVIOUS

LEMMA FunctionIsSeq ==
    ASSUME NEW S, NEW n \in Nat, NEW f \in [1 .. n -> S]
    PROVE  f \in Seq(S) /\ Len(f) = n
<1>1. f \in Seq(S)
  BY SeqDef
<1>2. DOMAIN f = 1 .. Len(f) /\ Len(f) \in Nat /\ DOMAIN f = 1 .. n
  BY <1>1, LenProperties
<1> QED BY <1>1, <1>2

LEMMA BufferIsSeq ==
    ASSUME TypeOK, NEW c \in Conn
    PROVE  buf[c] \in Seq(0 .. MaxBytes) /\ Len(buf[c]) = BufSize
<1>1. buf[c] \in [1 .. BufSize -> 0 .. MaxBytes] /\ BufSize \in Nat
  BY EchoConstants DEF TypeOK
<1> QED BY <1>1, FunctionIsSeq

\* What is known of a connection has its type.
LEMMA Fields ==
    ASSUME TypeOK, NEW c \in Conn
    PROVE  /\ echoed[c] \in Seq(1 .. MaxBytes) /\ Len(echoed[c]) \in Nat
           /\ incoming[c] \in Seq(1 .. MaxBytes) /\ Len(incoming[c]) \in Nat
           /\ buf_pos[c] \in Nat /\ buf_size[c] \in Nat
           /\ buf_pos[c] <= BufSize /\ buf_size[c] <= BufSize /\ BufSize \in Nat
           /\ sent[c] \in Nat
<1>1. /\ echoed[c] \in Seq(1 .. MaxBytes) /\ incoming[c] \in Seq(1 .. MaxBytes)
      /\ buf_pos[c] \in 0 .. BufSize /\ buf_size[c] \in 0 .. BufSize /\ sent[c] \in 0 .. MaxBytes
      /\ BufSize \in Nat /\ MaxBytes \in Nat
  BY EchoConstants DEF TypeOK
<1> QED BY <1>1

-----------------------------------------------------------------------------
(* The task of a callback, and those that wait behind it.                  *)

LEMMA Served ==
    ASSUME IInv, NEW c \in Conn, NEW ready, Serves(c, ready)
    PROVE  /\ scheduled # << >> /\ pc = "run" /\ Head(scheduled).to = c
           /\ peer[c] = "open" /\ interest[c] = ready
           /\ ready = "readable" => buf_pos[c] = buf_size[c]
           /\ ready = "writable" => buf_pos[c] < buf_size[c]
<1>1. /\ scheduled # << >> /\ pc = "run"
      /\ Head(scheduled).to = c /\ Head(scheduled).ready = ready
  BY DEF Serves
<1>2. scheduled[1] = Head(scheduled) /\ 1 \in 1 .. Len(scheduled)
  BY <1>1, Shorter DEF IInv, TypeOK
<1>3. peer[c] = "open" /\ interest[c] = ready
  BY <1>1, <1>2 DEF IInv, Fits
<1>4. Buffered(c) /\ buf_pos[c] \in Nat /\ buf_size[c] \in Nat
  BY Fields DEF IInv, Kept
<1> QED BY <1>1, <1>3, <1>4 DEF Buffered

\* At most one connection is opened in a step.
LEMMA OpenStaysFinite ==
    ASSUME IInv, NEW x, \A c \in Conn : c # x /\ peer'[c] = "open" => peer[c] = "open"
    PROVE  IsFiniteSet(Open')
<1>1. IsFiniteSet(Open \cup {x})
  BY FS_AddElement DEF IInv, Fits
<1>2. Open' \subseteq Open \cup {x}
  BY DEF Open
<1> QED BY <1>1, <1>2, FS_Subset

\* What waits still fits if its connections stay as they are.
LEMMA WaitingFits ==
    ASSUME IInv, scheduled' = scheduled, pc' = "accept" => scheduled # << >>, IsFiniteSet(Open'),
           \A c \in Conn : peer[c] = "open" => peer'[c] = "open" /\ interest'[c] = interest[c]
    PROVE  Fits'
BY DEF IInv, Fits

\* When the first task is done, its connection may change, as no other task is for it.
LEMMA FinishFits ==
    ASSUME IInv, scheduled # << >>, scheduled' = Tail(scheduled), pc' # "accept",
           IsFiniteSet(Open'),
           \A c \in Conn : c # Head(scheduled).to /\ peer[c] = "open"
                             => peer'[c] = "open" /\ interest'[c] = interest[c]
    PROVE  Fits'
<1>1. PICK q : q = Tail(scheduled)
  OBVIOUS
<1>2. /\ Len(scheduled) \in Nat \ {0} /\ Len(q) = Len(scheduled) - 1
      /\ \A k \in 1 .. Len(q) : q[k] = scheduled[k + 1]
      /\ Head(scheduled) = scheduled[1]
  BY <1>1, Shorter DEF IInv, TypeOK
<1>3. \A k \in 1 .. Len(q) : k + 1 \in 1 .. Len(scheduled) /\ k + 1 # 1 /\ 1 \in 1 .. Len(scheduled)
  BY <1>2
<1>4. /\ \A k \in 1 .. Len(scheduled) : scheduled[k].to \in Conn =>
           peer[scheduled[k].to] = "open" /\ scheduled[k].ready = interest[scheduled[k].to]
      /\ \A i, j \in 1 .. Len(scheduled) : scheduled[i].to = scheduled[j].to => i = j
  BY DEF IInv, Fits
<1>5. \A k \in 1 .. Len(q) : q[k].to \in Conn =>
        peer'[q[k].to] = "open" /\ q[k].ready = interest'[q[k].to]
  <2> SUFFICES ASSUME NEW k \in 1 .. Len(q), q[k].to \in Conn
               PROVE  peer'[q[k].to] = "open" /\ q[k].ready = interest'[q[k].to]
    OBVIOUS
  <2>1. k + 1 \in 1 .. Len(scheduled) /\ k + 1 # 1 /\ 1 \in 1 .. Len(scheduled)
    BY <1>3
  <2>2. q[k] = scheduled[k + 1]
    BY <1>2
  <2>3. scheduled[k + 1].to # scheduled[1].to
    BY <1>4, <2>1
  <2>4. peer[q[k].to] = "open" /\ q[k].ready = interest[q[k].to]
    BY <1>4, <2>1, <2>2
  <2>5. q[k].to # Head(scheduled).to
    BY <1>2, <2>2, <2>3
  <2> QED BY <2>4, <2>5
<1>6. \A i, j \in 1 .. Len(q) : q[i].to = q[j].to => i = j
  <2> SUFFICES ASSUME NEW i \in 1 .. Len(q), NEW j \in 1 .. Len(q), q[i].to = q[j].to
               PROVE  i = j
    OBVIOUS
  <2>1. i + 1 \in 1 .. Len(scheduled) /\ j + 1 \in 1 .. Len(scheduled)
    BY <1>3
  <2>2. q[i] = scheduled[i + 1] /\ q[j] = scheduled[j + 1]
    BY <1>2
  <2>3. scheduled[i + 1].to = scheduled[j + 1].to
    BY <2>2
  <2>4. i + 1 = j + 1
    BY <1>4, <2>1, <2>3
  <2>5. i \in Nat /\ j \in Nat
    BY <1>2
  <2> QED BY <2>4, <2>5
<1> QED BY <1>1, <1>5, <1>6 DEF Fits

-----------------------------------------------------------------------------
(* Bytes and buffers.                                                      *)

SameBytes(c) ==
    /\ echoed'[c] = echoed[c] /\ incoming'[c] = incoming[c] /\ sent'[c] = sent[c]
    /\ fate'[c] = fate[c] /\ interest'[c] = interest[c]
    /\ buf'[c] = buf[c] /\ buf_pos'[c] = buf_pos[c] /\ buf_size'[c] = buf_size[c]

LEMMA SameKept ==
    ASSUME NEW c, Buffered(c), InOrder(c), SameBytes(c)
    PROVE  Buffered(c)' /\ InOrder(c)'
BY DEF Buffered, InOrder, SameBytes, Rest

\* A connection that is forgotten can start anew.
LEMMA ForgetKept ==
    ASSUME TypeOK, NEW d \in Conn, NEW how, Forget(d, how)
    PROVE  /\ Buffered(d)' /\ InOrder(d)'
           /\ \A c \in Conn : c # d => SameBytes(c)
<1>1. /\ echoed'[d] = << >> /\ incoming'[d] = << >> /\ sent'[d] = 0
      /\ interest'[d] = "readable" /\ buf_pos'[d] = 0 /\ buf_size'[d] = 0
  BY DEF Forget, TypeOK
<1>2. \A c \in Conn : c # d => SameBytes(c)
  BY DEF Forget, TypeOK, SameBytes
<1> QED BY <1>1, <1>2 DEF Buffered, InOrder, Rest

\* The invariant of a connection, with its types.
LEMMA Known ==
    ASSUME IInv, NEW d \in Conn
    PROVE  /\ Len(echoed[d]) \in Nat /\ Len(incoming[d]) \in Nat /\ sent[d] \in Nat
           /\ buf_pos[d] \in Nat /\ buf_size[d] \in Nat
           /\ buf_pos[d] <= buf_size[d] /\ buf_size[d] <= BufSize /\ BufSize \in Nat
           /\ Rest(d) = buf_size[d] - buf_pos[d]
           /\ \A k \in 1 .. Len(echoed[d]) : echoed[d][k] = k
           /\ \A k \in 1 .. buf_size[d] - buf_pos[d] :
                buf[d][buf_pos[d] + k] = Len(echoed[d]) + k
           /\ \A k \in 1 .. Len(incoming[d]) :
                incoming[d][k] = Len(echoed[d]) + (buf_size[d] - buf_pos[d]) + k
           /\ fate[d] # "reset" =>
                Len(echoed[d]) + (buf_size[d] - buf_pos[d]) + Len(incoming[d]) = sent[d]
<1>1. Buffered(d) /\ InOrder(d)
  BY DEF IInv, Kept
<1>2. Rest(d) = buf_size[d] - buf_pos[d] /\ buf_pos[d] <= buf_size[d]
  BY <1>1 DEF Buffered, Rest
<1> QED BY <1>1, <1>2, Fields DEF InOrder, IInv

LEMMA SendKept ==
    ASSUME IInv, NEW d \in Conn, PeerSend(d)
    PROVE  /\ Buffered(d)' /\ InOrder(d)'
           /\ \A c \in Conn : c # d => SameBytes(c)
<1>1. /\ fate[d] = "fine" /\ sent'[d] = sent[d] + 1
      /\ incoming'[d] = Append(incoming[d], sent[d] + 1)
      /\ UNCHANGED << echoed, fate, interest, buf, buf_pos, buf_size >>
  BY DEF PeerSend, IInv, TypeOK, connection
<1>2. \A c \in Conn : c # d => SameBytes(c)
  BY DEF PeerSend, IInv, TypeOK, connection, SameBytes
<1>3. sent[d] + 1 \in 1 .. MaxBytes
  BY EchoConstants DEF PeerSend, IInv, TypeOK
<1>4. PICK q : q = incoming'[d]
  OBVIOUS
<1>5. PICK e, i, pos, size, s :
        /\ e = Len(echoed[d]) /\ i = Len(incoming[d]) /\ s = sent[d]
        /\ pos = buf_pos[d] /\ size = buf_size[d]
  OBVIOUS
<1>6. /\ Len(q) = i + 1
      /\ \A k \in 1 .. i : q[k] = incoming[d][k]
      /\ q[i + 1] = s + 1
  BY <1>1, <1>3, <1>4, <1>5, Longer, Fields DEF IInv
<1>7. /\ e \in Nat /\ i \in Nat /\ pos \in Nat /\ size \in Nat /\ s \in Nat /\ pos <= size
      /\ \A k \in 1 .. e : echoed[d][k] = k
      /\ \A k \in 1 .. size - pos : buf[d][pos + k] = e + k
      /\ \A k \in 1 .. i : incoming[d][k] = e + (size - pos) + k
      /\ e + (size - pos) + i = s
  BY <1>1, <1>5, Known
<1>8. \A k \in 1 .. i + 1 : q[k] = e + (size - pos) + k
  <2> SUFFICES ASSUME NEW k \in 1 .. i + 1 PROVE q[k] = e + (size - pos) + k
    OBVIOUS
  <2>1. CASE k = i + 1
    BY <1>6, <1>7, <2>1
  <2>2. CASE k # i + 1
    BY <1>6, <1>7, <2>2
  <2> QED BY <2>1, <2>2
<1>9. e + (size - pos) + (i + 1) = s + 1
  BY <1>7
<1>10. Buffered(d)'
  BY <1>1 DEF Buffered, IInv, Kept
<1> QED BY <1>1, <1>2, <1>4, <1>5, <1>6, <1>7, <1>8, <1>9, <1>10 DEF InOrder, Rest

LEMMA EndKept ==
    ASSUME IInv, NEW d \in Conn, NEW how \in {"eof", "reset"}, PeerEnd(d, how)
    PROVE  /\ Buffered(d)' /\ InOrder(d)'
           /\ \A c \in Conn : c # d => SameBytes(c)
<1>1. /\ fate[d] # "reset" /\ fate'[d] = how
      /\ incoming'[d] = IF how = "reset" THEN << >> ELSE incoming[d]
      /\ UNCHANGED << sent, echoed, interest, buf, buf_pos, buf_size >>
  BY DEF PeerEnd, IInv, TypeOK, connection
<1>2. \A c \in Conn : c # d => SameBytes(c)
  BY DEF PeerEnd, IInv, TypeOK, connection, SameBytes
<1>3. Buffered(d) /\ InOrder(d)
  BY DEF IInv, Kept
<1>4. Buffered(d)'
  BY <1>1, <1>3 DEF Buffered
<1>5. CASE how = "eof"
  BY <1>1, <1>2, <1>3, <1>4, <1>5 DEF InOrder, Rest
<1>6. CASE how = "reset"
  BY <1>1, <1>2, <1>3, <1>4, <1>6 DEF InOrder, Rest
<1> QED BY <1>5, <1>6

\* What is read follows what was echoed, as nothing else was in the buffer.
LEMMA ReadKept ==
    ASSUME IInv, NEW d \in Conn, NEW n \in 1 .. BufSize, Read(d, n)
    PROVE  /\ Buffered(d)' /\ InOrder(d)'
           /\ \A c \in Conn : c # d => SameBytes(c)
<1>1. /\ fate[d] # "reset" /\ n <= Len(incoming[d]) /\ Serves(d, "readable")
      /\ buf'[d] = [k \in 1 .. BufSize |-> IF k <= n THEN incoming[d][k] ELSE buf[d][k]]
      /\ incoming'[d] = SubSeq(incoming[d], n + 1, Len(incoming[d]))
      /\ buf_pos'[d] = 0 /\ buf_size'[d] = n /\ interest'[d] = Wish(0, n)
      /\ UNCHANGED << sent, echoed, fate >>
  BY DEF Read, Buffer, IInv, TypeOK
<1>2. \A c \in Conn : c # d => SameBytes(c)
  BY DEF Read, Buffer, IInv, TypeOK, SameBytes
<1>3. PICK e, i, pos, size, s :
        /\ e = Len(echoed[d]) /\ i = Len(incoming[d]) /\ s = sent[d]
        /\ pos = buf_pos[d] /\ size = buf_size[d]
  OBVIOUS
<1>4. /\ e \in Nat /\ i \in Nat /\ pos \in Nat /\ size \in Nat /\ s \in Nat /\ BufSize \in Nat
      /\ \A k \in 1 .. e : echoed[d][k] = k
      /\ \A k \in 1 .. i : incoming[d][k] = e + (size - pos) + k
      /\ e + (size - pos) + i = s
  BY <1>1, <1>3, Known
<1>5. size = pos /\ size - pos = 0 /\ n \in Nat /\ n # 0 /\ n <= i /\ n <= BufSize
  BY <1>1, <1>3, <1>4, Served
<1>6. /\ \A k \in 1 .. i : incoming[d][k] = e + k
      /\ e + i = s
  BY <1>4, <1>5
<1>7. PICK q : q = incoming'[d]
  OBVIOUS
<1>8. /\ Len(q) = i - n
      /\ \A k \in 1 .. i - n : q[k] = incoming[d][n + k]
  <2>1. PICK x : x = incoming[d]
    OBVIOUS
  <2>2. x \in Seq(1 .. MaxBytes) /\ i = Len(x) /\ q = SubSeq(x, n + 1, i)
    BY <1>1, <1>3, <1>7, <2>1, Fields DEF IInv
  <2>3. Len(q) = i - n /\ \A k \in 1 .. i - n : q[k] = x[n + k]
    BY <1>4, <1>5, <2>2, Cut
  <2> QED BY <2>1, <2>3
<1>9. \A k \in 1 .. i - n : q[k] = e + n + k
  <2> SUFFICES ASSUME NEW k \in 1 .. i - n PROVE q[k] = e + n + k
    OBVIOUS
  <2>1. n + k \in 1 .. i /\ e + (n + k) = e + n + k
    BY <1>4, <1>5
  <2> QED BY <1>6, <1>8, <2>1
<1>10. PICK b : b = buf'[d]
  OBVIOUS
<1>11. \A k \in 1 .. n : b[0 + k] = e + k
  <2> SUFFICES ASSUME NEW k \in 1 .. n PROVE b[0 + k] = e + k
    OBVIOUS
  <2>1. k \in 1 .. BufSize /\ k <= n /\ 0 + k = k /\ k \in 1 .. i
    BY <1>4, <1>5
  <2>2. b[k] = incoming[d][k]
    BY <1>1, <1>10, <2>1
  <2> QED BY <1>6, <2>1, <2>2
<1>12. e + n + (i - n) = s /\ n - 0 = n
  BY <1>4, <1>5, <1>6
<1>13. Buffered(d)'
  BY <1>1, <1>5 DEF Buffered, Wish
<1>14. Rest(d)' = n
  BY <1>1, <1>12 DEF Rest
<1> QED BY <1>1, <1>2, <1>3, <1>4, <1>7, <1>8, <1>9, <1>10, <1>11, <1>12, <1>13, <1>14 DEF InOrder

LEMMA ReadAgainKept ==
    ASSUME IInv, NEW d \in Conn, ReadAgain(d)
    PROVE  /\ Buffered(d)' /\ InOrder(d)'
           /\ \A c \in Conn : c # d => SameBytes(c)
<1>1. /\ Serves(d, "readable")
      /\ buf_pos'[d] = 0 /\ buf_size'[d] = 0 /\ interest'[d] = Wish(0, 0)
      /\ UNCHANGED << sent, echoed, fate, incoming, buf >>
  BY DEF ReadAgain, Buffer, IInv, TypeOK, wire
<1>2. \A c \in Conn : c # d => SameBytes(c)
  BY DEF ReadAgain, Buffer, IInv, TypeOK, wire, SameBytes
<1>3. InOrder(d)
  BY DEF IInv, Kept
<1>4. Rest(d) = 0
  BY <1>1, Fields, Served DEF IInv, Rest
<1>5. Rest(d)' = 0 /\ Buffered(d)'
  BY <1>1 DEF Rest, Buffered, Wish
<1>6. \A k : k \notin 1 .. 0
  OBVIOUS
<1>7. InOrder(d)'
  BY <1>1, <1>3, <1>4, <1>5, <1>6 DEF InOrder
<1> QED BY <1>2, <1>5, <1>7

\* What is written follows what was echoed, and what is left in the buffer follows it.
LEMMA WriteKept ==
    ASSUME IInv, NEW d \in Conn, NEW n \in 1 .. BufSize, Write(d, n)
    PROVE  /\ Buffered(d)' /\ InOrder(d)'
           /\ echoed'[d] \in Seq(1 .. MaxBytes) /\ buf_pos[d] + n \in 0 .. BufSize
           /\ \A c \in Conn : c # d => SameBytes(c)
<1>1. /\ fate[d] # "reset" /\ n <= Rest(d) /\ Serves(d, "writable")
      /\ echoed'[d] = echoed[d] \o Chunk(d, n)
      /\ buf_pos'[d] = buf_pos[d] + n /\ buf_size'[d] = buf_size[d]
      /\ interest'[d] = Wish(buf_pos[d] + n, buf_size[d])
      /\ UNCHANGED << sent, fate, incoming, buf >>
  BY DEF Write, Buffer, IInv, TypeOK
<1>2. \A c \in Conn : c # d => SameBytes(c)
  BY DEF Write, Buffer, IInv, TypeOK, SameBytes
<1>3. PICK e, i, pos, size, s :
        /\ e = Len(echoed[d]) /\ i = Len(incoming[d]) /\ s = sent[d]
        /\ pos = buf_pos[d] /\ size = buf_size[d]
  OBVIOUS
<1>4. /\ e \in Nat /\ i \in Nat /\ pos \in Nat /\ size \in Nat /\ s \in Nat
      /\ size <= BufSize /\ BufSize \in Nat /\ Rest(d) = size - pos
      /\ \A k \in 1 .. e : echoed[d][k] = k
      /\ \A k \in 1 .. size - pos : buf[d][pos + k] = e + k
      /\ \A k \in 1 .. i : incoming[d][k] = e + (size - pos) + k
      /\ e + (size - pos) + i = s
  BY <1>1, <1>3, Known
<1>5. n \in Nat /\ n # 0 /\ pos + n <= size /\ s <= MaxBytes /\ MaxBytes \in Nat
  <2>1. n \in Nat /\ n # 0
    BY <1>4
  <2>2. n <= size - pos
    BY <1>1, <1>4
  <2>3. s <= MaxBytes /\ MaxBytes \in Nat
    BY <1>3, EchoConstants DEF IInv, TypeOK
  <2> QED BY <1>4, <2>1, <2>2, <2>3
<1>6. PICK p : p = pos + n /\ p \in Nat /\ p <= size /\ p - pos = n /\ pos <= p
  BY <1>4, <1>5
<1>7. PICK chunk : chunk = Chunk(d, n)
  OBVIOUS
<1>8. /\ chunk \in Seq(0 .. MaxBytes) /\ Len(chunk) = n
      /\ \A k \in 1 .. n : chunk[k] = buf[d][pos + k]
  <2>1. PICK b : b = buf[d]
    OBVIOUS
  <2>2. b \in Seq(0 .. MaxBytes) /\ Len(b) = BufSize /\ chunk = SubSeq(b, pos + 1, p)
    BY <1>3, <1>6, <1>7, <2>1, BufferIsSeq DEF Chunk, IInv
  <2>3. p <= BufSize
    BY <1>4, <1>6
  <2>4. PICK T : T = 0 .. MaxBytes
    OBVIOUS
  <2>5. b \in Seq(T) /\ p <= Len(b)
    BY <2>2, <2>3, <2>4
  <2>6. /\ SubSeq(b, pos + 1, p) \in Seq(T)
        /\ Len(SubSeq(b, pos + 1, p)) = p - pos
        /\ \A k \in 1 .. p - pos : SubSeq(b, pos + 1, p)[k] = b[pos + k]
    BY <1>4, <1>6, <2>5, Cut
  <2> QED BY <1>6, <2>1, <2>2, <2>4, <2>6
<1>9. \A k \in 1 .. n : chunk[k] = e + k
  <2>1. \A k \in 1 .. n : k \in 1 .. size - pos
    BY <1>4, <1>5
  <2> QED BY <1>4, <1>8, <2>1
<1>10. chunk \in Seq(1 .. MaxBytes)
  <2>1. \A k \in 1 .. n : chunk[k] \in 1 .. MaxBytes
    <3> SUFFICES ASSUME NEW k \in 1 .. n PROVE chunk[k] \in 1 .. MaxBytes
      OBVIOUS
    <3>1. chunk[k] \in 0 .. MaxBytes
      BY <1>8, ElementOfSeq
    <3>2. chunk[k] = e + k /\ e + k # 0
      BY <1>4, <1>5, <1>9
    <3> QED BY <1>5, <3>1, <3>2
  <2>2. chunk \in [1 .. n -> 1 .. MaxBytes]
    BY <1>8, <2>1, LenProperties
  <2> QED BY <1>5, <2>2, FunctionIsSeq
<1>11. PICK after : after = echoed'[d]
  OBVIOUS
<1>12. /\ after \in Seq(1 .. MaxBytes) /\ Len(after) = e + n
       /\ \A k \in 1 .. e : after[k] = echoed[d][k]
       /\ \A k \in 1 .. n : after[e + k] = chunk[k]
  <2>1. PICK x : x = echoed[d]
    OBVIOUS
  <2>2. x \in Seq(1 .. MaxBytes) /\ e = Len(x) /\ after = x \o chunk
    BY <1>1, <1>3, <1>7, <1>11, <2>1, Fields DEF IInv
  <2>3. PICK T : T = 1 .. MaxBytes
    OBVIOUS
  <2>4. x \in Seq(T) /\ chunk \in Seq(T)
    BY <1>10, <2>2, <2>3
  <2>5. /\ after \in Seq(T) /\ Len(after) = Len(x) + Len(chunk)
        /\ \A k \in 1 .. Len(x) : after[k] = x[k]
        /\ \A k \in 1 .. Len(chunk) : after[Len(x) + k] = chunk[k]
    BY <2>2, <2>4, Joined
  <2> QED BY <1>8, <2>1, <2>2, <2>3, <2>5
<1>13. \A k \in 1 .. e + n : after[k] = k
  <2> SUFFICES ASSUME NEW k \in 1 .. e + n PROVE after[k] = k
    OBVIOUS
  <2>1. CASE k \in 1 .. e
    BY <1>4, <1>12, <2>1
  <2>2. CASE k \notin 1 .. e
    <3>1. PICK l \in 1 .. n : k = e + l
      <4>1. k - e \in 1 .. n /\ k = e + (k - e)
        BY <1>4, <1>5, <2>2
      <4> QED BY <4>1
    <3> QED BY <1>9, <1>12, <3>1
  <2> QED BY <2>1, <2>2
<1>14. PICK f : f = e + n /\ f \in Nat /\ f + (size - p) = e + (size - pos)
  BY <1>4, <1>5, <1>6
<1>15. \A k \in 1 .. size - p : buf[d][p + k] = f + k
  <2> SUFFICES ASSUME NEW k \in 1 .. size - p PROVE buf[d][p + k] = f + k
    OBVIOUS
  <2>1. n + k \in 1 .. size - pos /\ pos + (n + k) = p + k /\ e + (n + k) = f + k
    BY <1>4, <1>5, <1>6, <1>14
  <2>2. buf[d][pos + (n + k)] = e + (n + k)
    BY <1>4, <2>1
  <2> QED BY <2>1, <2>2
<1>16. Rest(d)' = size - p
  BY <1>1, <1>3, <1>6 DEF Rest
<1>17. Buffered(d)'
  BY <1>1, <1>3, <1>6 DEF Buffered, Wish
<1>18. InOrder(d)'
  <2>1. /\ incoming'[d] = incoming[d] /\ sent'[d] = s /\ fate'[d] = fate[d] /\ buf'[d] = buf[d]
        /\ buf_pos'[d] = p /\ Len(echoed'[d]) = f
    BY <1>1, <1>3, <1>6, <1>11, <1>12, <1>14
  <2> QED BY <1>3, <1>4, <1>11, <1>13, <1>14, <1>15, <1>16, <2>1 DEF InOrder
<1>19. buf_pos[d] + n \in 0 .. BufSize
  <2>1. buf_pos[d] + n = p
    BY <1>3, <1>6
  <2>2. p \in 0 .. BufSize
    <3>1. p <= BufSize
      BY <1>4, <1>6
    <3> QED BY <1>4, <1>6, <3>1
  <2> QED BY <2>1, <2>2
<1> QED BY <1>2, <1>11, <1>12, <1>17, <1>18, <1>19

LEMMA WriteAgainKept ==
    ASSUME IInv, NEW d \in Conn, WriteAgain(d)
    PROVE  \A c \in Conn : SameBytes(c)
<1>1. /\ Serves(d, "writable")
      /\ buf_pos'[d] = buf_pos[d] /\ buf_size'[d] = buf_size[d]
      /\ interest'[d] = Wish(buf_pos[d], buf_size[d])
      /\ UNCHANGED << sent, echoed, fate, incoming, buf >>
  BY DEF WriteAgain, Buffer, IInv, TypeOK, wire
<1>2. \A c \in Conn : c # d => SameBytes(c)
  BY DEF WriteAgain, Buffer, IInv, TypeOK, wire, SameBytes
<1>3. interest[d] = Wish(buf_pos[d], buf_size[d])
  BY DEF IInv, Kept, Buffered, Wish
<1> QED BY <1>1, <1>2, <1>3 DEF SameBytes

LEMMA KeptStep == IInv /\ [Next]_vars => Kept'
<1> SUFFICES ASSUME IInv, [Next]_vars, NEW c \in Conn PROVE Buffered(c)' /\ InOrder(c)'
  BY DEF Kept
<1>1. Buffered(c) /\ InOrder(c) /\ TypeOK
  BY DEF IInv, Kept
<1>2. ASSUME SameBytes(c) PROVE Buffered(c)' /\ InOrder(c)'
  BY <1>1, <1>2, SameKept
<1>3. CASE UNCHANGED << fate, sent, incoming, echoed, connection >>
  BY <1>2, <1>3 DEF SameBytes, connection
<1>4. ASSUME NEW d \in Conn, PeerSend(d) PROVE Buffered(c)' /\ InOrder(c)'
  BY <1>2, <1>4, SendKept
<1>5. ASSUME NEW d \in Conn, NEW how \in {"eof", "reset"}, PeerEnd(d, how)
      PROVE  Buffered(c)' /\ InOrder(c)'
  BY <1>2, <1>5, EndKept
<1>6. ASSUME NEW d \in Conn, NEW how, Forget(d, how) PROVE Buffered(c)' /\ InOrder(c)'
  BY <1>1, <1>2, <1>6, ForgetKept
<1>7. CASE AcceptDropped
  <2>1. Head(backlog) \in Conn
    BY <1>1, <1>7, Shorter DEF AcceptDropped, TypeOK
  <2> QED BY <1>6, <1>7, <2>1 DEF AcceptDropped
<1>8. ASSUME NEW d \in Conn, NEW n \in 1 .. BufSize, Read(d, n)
      PROVE  Buffered(c)' /\ InOrder(c)'
  BY <1>2, <1>8, ReadKept
<1>9. ASSUME NEW d \in Conn, NEW n \in 1 .. BufSize, Write(d, n)
      PROVE  Buffered(c)' /\ InOrder(c)'
  BY <1>2, <1>9, WriteKept
<1>10. ASSUME NEW d \in Conn, ReadAgain(d) PROVE Buffered(c)' /\ InOrder(c)'
  BY <1>2, <1>10, ReadAgainKept
<1>11. ASSUME NEW d \in Conn, WriteAgain(d) PROVE Buffered(c)' /\ InOrder(c)'
  BY <1>2, <1>11, WriteAgainKept
<1>12. ASSUME NEW d \in Conn, Drop(d) \/ Fail(d) PROVE Buffered(c)' /\ InOrder(c)'
  BY <1>6, <1>12 DEF Drop, Fail
<1>13. CASE \E d \in Conn : Connect(d)
  BY <1>3, <1>13 DEF Connect
<1>14. CASE RaiseSignal \/ UNCHANGED vars
  BY <1>3, <1>14 DEF RaiseSignal, wire, vars
<1>15. CASE Bind \/ Poll \/ PollFailed \/ Signal \/ Listen
  BY <1>3, <1>15 DEF Bind, Poll, PollFailed, Signal, Listen, wire
<1>16. CASE AcceptInterrupted \/ AcceptDone \/ AcceptFailed \/ AcceptOpen
  BY <1>3, <1>16 DEF AcceptInterrupted, AcceptDone, AcceptFailed, AcceptOpen, wire
<1>17. CASE Outside
  BY <1>4, <1>5, <1>13, <1>14, <1>17 DEF Outside
<1>18. CASE Server
  BY <1>7, <1>8, <1>9, <1>10, <1>11, <1>12, <1>15, <1>16, <1>18 DEF Server, Serve
<1> QED BY <1>14, <1>17, <1>18 DEF Next

-----------------------------------------------------------------------------
(* The backlog.                                                            *)

\* The first of the backlog is accepted, or dropped.
LEMMA AcceptQueued ==
    ASSUME IInv, backlog # << >>, backlog' = Tail(backlog),
           \A c \in Conn : c # Head(backlog) => peer'[c] = peer[c]
    PROVE  Queued'
<1>1. PICK q : q = Tail(backlog)
  OBVIOUS
<1>2. /\ Len(backlog) \in Nat \ {0} /\ Len(q) = Len(backlog) - 1
      /\ \A i \in 1 .. Len(q) : q[i] = backlog[i + 1]
      /\ Head(backlog) = backlog[1]
  BY <1>1, Shorter DEF IInv, TypeOK
<1>3. \A i \in 1 .. Len(q) : i + 1 \in 1 .. Len(backlog) /\ i + 1 # 1 /\ 1 \in 1 .. Len(backlog)
  BY <1>2
<1>4. \A i \in 1 .. Len(q) : q[i] \in Conn /\ q[i] # Head(backlog)
  <2> SUFFICES ASSUME NEW i \in 1 .. Len(q) PROVE q[i] \in Conn /\ q[i] # Head(backlog)
    OBVIOUS
  <2>1. backlog[i + 1] \in Conn
    BY <1>3, ElementOfSeq DEF IInv, TypeOK
  <2>2. backlog[i + 1] # backlog[1]
    BY <1>3 DEF IInv, Queued
  <2> QED BY <1>2, <2>1, <2>2
<1>5. \A i \in 1 .. Len(q) : peer'[q[i]] = "queued"
  BY <1>2, <1>3, <1>4 DEF IInv, Queued
<1>6. \A i, j \in 1 .. Len(q) : q[i] = q[j] => i = j
  <2> SUFFICES ASSUME NEW i \in 1 .. Len(q), NEW j \in 1 .. Len(q), q[i] = q[j]
               PROVE  i = j
    OBVIOUS
  <2>1. i + 1 = j + 1
    BY <1>2, <1>3 DEF IInv, Queued
  <2> QED BY <2>1, <1>2
<1> QED BY <1>1, <1>5, <1>6 DEF Queued

LEMMA HeadQueued ==
    ASSUME IInv, backlog # << >>
    PROVE  Head(backlog) \in Conn /\ peer[Head(backlog)] = "queued"
<1>1. Head(backlog) = backlog[1] /\ backlog[1] \in Conn /\ 1 \in 1 .. Len(backlog)
  BY Shorter DEF IInv, TypeOK
<1> QED BY <1>1 DEF IInv, Queued

\* The others of the backlog stay there.
LEMMA SameQueued ==
    ASSUME IInv, backlog' = backlog,
           \A c \in Conn : peer[c] = "queued" => peer'[c] = "queued"
    PROVE  Queued'
<1>1. \A i \in 1 .. Len(backlog) : backlog[i] \in Conn
  BY ElementOfSeq DEF IInv, TypeOK
<1> QED BY <1>1 DEF IInv, Queued

LEMMA QueuedStep == IInv /\ [Next]_vars => Queued'
<1> SUFFICES ASSUME IInv, [Next]_vars PROVE Queued'
  OBVIOUS
<1>1. ASSUME NEW d \in Conn, Connect(d) PROVE Queued'
  <2>1. /\ peer[d] # "queued" /\ backlog' = Append(backlog, d) /\ backlog \in Seq(Conn)
        /\ peer' = [peer EXCEPT ![d] = "queued"] /\ peer \in [Conn -> {"none", "queued", "open", "failed"}]
    BY <1>1 DEF Connect, IInv, TypeOK
  <2>2. PICK q, n : q = Append(backlog, d) /\ n = Len(backlog)
    OBVIOUS
  <2>3. /\ Len(q) = n + 1 /\ n \in Nat /\ q[n + 1] = d
        /\ \A i \in 1 .. n : q[i] = backlog[i]
    BY <2>1, <2>2, Longer
  <2>4. \A i \in 1 .. n : backlog[i] \in Conn /\ peer[backlog[i]] = "queued"
    BY <2>1, <2>2, ElementOfSeq DEF IInv, Queued
  <2>5. \A i \in 1 .. n : q[i] # d /\ peer'[q[i]] = "queued"
    BY <2>1, <2>3, <2>4
  <2>6. \A i \in 1 .. Len(q) : i \in 1 .. n \/ i = n + 1
    BY <2>3
  <2>7. \A i \in 1 .. Len(q) : peer'[q[i]] = "queued"
    BY <2>1, <2>3, <2>5, <2>6
  <2>8. \A i, j \in 1 .. Len(q) : q[i] = q[j] => i = j
    BY <2>2, <2>3, <2>5, <2>6 DEF IInv, Queued
  <2> QED BY <2>1, <2>2, <2>7, <2>8 DEF Queued
<1>2. CASE AcceptOpen
  <2>1. \A c \in Conn : c # Head(backlog) => peer'[c] = peer[c]
    BY <1>2, HeadQueued DEF AcceptOpen, IInv, TypeOK
  <2> QED BY <1>2, <2>1, AcceptQueued DEF AcceptOpen
<1>3. CASE AcceptDropped
  <2>1. \A c \in Conn : c # Head(backlog) => peer'[c] = peer[c]
    BY <1>3, HeadQueued DEF AcceptDropped, Forget, IInv, TypeOK
  <2> QED BY <1>3, <2>1, AcceptQueued DEF AcceptDropped
<1>4. ASSUME NEW d \in Conn, Drop(d) \/ Fail(d) PROVE Queued'
  <2>1. peer[d] = "open"
    BY <1>4, Served DEF Drop, Fail
  <2>2. backlog' = backlog /\ \A c \in Conn : peer[c] = "queued" => peer'[c] = "queued"
    BY <1>4, <2>1 DEF Drop, Fail, Forget, IInv, TypeOK
  <2> QED BY <2>2, SameQueued
<1>5. CASE UNCHANGED << peer, backlog >>
  BY <1>5, SameQueued
<1>6. ASSUME NEW d \in Conn, PeerSend(d) \/ \E how \in {"eof", "reset"} : PeerEnd(d, how)
      PROVE  Queued'
  BY <1>5, <1>6 DEF PeerSend, PeerEnd
<1>7. CASE RaiseSignal \/ UNCHANGED vars
  BY <1>5, <1>7 DEF RaiseSignal, wire, vars
<1>8. CASE \/ Bind \/ Poll \/ PollFailed \/ Signal \/ Listen
           \/ AcceptInterrupted \/ AcceptDone \/ AcceptFailed
  BY <1>5, <1>8 DEF Bind, Poll, PollFailed, Signal, Listen, AcceptInterrupted, AcceptDone, AcceptFailed, wire
<1>9. ASSUME NEW d \in Conn, NEW n \in 1 .. BufSize, Read(d, n) \/ Write(d, n)
      PROVE  Queued'
  BY <1>5, <1>9 DEF Read, Write
<1>10. ASSUME NEW d \in Conn, ReadAgain(d) \/ WriteAgain(d) PROVE Queued'
  BY <1>5, <1>10 DEF ReadAgain, WriteAgain, wire
<1>11. CASE Outside
  BY <1>1, <1>6, <1>7, <1>11 DEF Outside
<1>12. CASE Server
  BY <1>2, <1>3, <1>4, <1>8, <1>9, <1>10, <1>12 DEF Server, Serve
<1> QED BY <1>7, <1>11, <1>12 DEF Next

-----------------------------------------------------------------------------
(* The tasks.                                                              *)

\* What the poll reports is about an open connection and what it waits for, and there
\* is one of it for each event.
LEMMA RipeFacts ==
    ASSUME IInv
    PROVE  /\ Ripe \subseteq Task /\ IsFiniteSet(Ripe)
           /\ \A t \in Ripe : t.to \in Conn => peer[t.to] = "open" /\ t.ready = interest[t.to]
           /\ \A t, u \in Ripe : t.to = u.to => t = u
<1> DEFINE S == {d \in Open :
                   \/ fate[d] = "reset"
                   \/ interest[d] = "readable" /\ (incoming[d] # << >> \/ fate[d] = "eof")
                   \/ interest[d] = "writable"}
           OfConn == {[to |-> c, ready |-> interest[c]] : c \in S}
           l == [to |-> "listener", ready |-> "readable"]
           s == [to |-> "shutdown", ready |-> "signal"]
<1>1. Ripe \subseteq OfConn \cup {l} \cup {s}
  BY DEF Ripe
<1>2. S \subseteq Open /\ IsFiniteSet(Open) /\ \A c \in S : c \in Conn /\ peer[c] = "open"
  BY DEF IInv, Fits, Open
<1> HIDE DEF S
<1>3. IsFiniteSet(OfConn)
  <2>1. [c \in S |-> [to |-> c, ready |-> interest[c]]] \in Surjection(S, OfConn)
    BY DEF Surjection
  <2> QED BY <1>2, <2>1, FS_Subset, FS_Surjection
<1>4. \A c \in S : interest[c] \in Ready
  BY <1>2 DEF IInv, TypeOK, Ready
<1>5. OfConn \subseteq Task /\ l \in Task /\ s \in Task
  BY <1>2, <1>4 DEF Task, Handle, Ready
<1>6. \A t \in OfConn : t.to \in S /\ t.ready = interest[t.to] /\ t = [to |-> t.to, ready |-> interest[t.to]]
  OBVIOUS
<1>7. "listener" \notin Conn /\ "shutdown" \notin Conn /\ l.to = "listener" /\ s.to = "shutdown"
  BY EchoConstants
<1> HIDE DEF OfConn, l, s
<1>8. IsFiniteSet(OfConn \cup {l} \cup {s})
  BY <1>3, FS_AddElement
<1>9. \A t, u \in Ripe : t.to = u.to => t = u
  <2> SUFFICES ASSUME NEW t \in Ripe, NEW u \in Ripe, t.to = u.to PROVE t = u
    OBVIOUS
  <2>1. CASE t \in OfConn
    <3>1. u \in OfConn
      BY <1>1, <1>2, <1>6, <1>7, <2>1
    <3> QED BY <1>6, <2>1, <3>1
  <2>2. CASE t \notin OfConn
    <3>1. u \notin OfConn
      BY <1>1, <1>2, <1>6, <1>7, <2>2
    <3>2. (t = l \/ t = s) /\ (u = l \/ u = s)
      BY <1>1, <2>2, <3>1
    <3> QED BY <1>7, <3>2
  <2> QED BY <2>1, <2>2
<1>10. \A t \in Ripe : t.to \in Conn => peer[t.to] = "open" /\ t.ready = interest[t.to]
  BY <1>1, <1>2, <1>6, <1>7
<1> QED BY <1>1, <1>5, <1>8, <1>9, <1>10, FS_Subset

LEMMA PollFacts ==
    ASSUME IInv, Poll
    PROVE  /\ scheduled' \in Seq(Task)
           /\ \A k \in 1 .. Len(scheduled') : scheduled'[k] \in Ripe
           /\ \A i, j \in 1 .. Len(scheduled') : scheduled'[i].to = scheduled'[j].to => i = j
<1>1. PICK n, q : n = Cardinality(Ripe) /\ q = scheduled'
  OBVIOUS
<1>2. n \in Nat /\ Ripe \subseteq Task
  BY <1>1, RipeFacts, FS_CardinalityType
<1>3. q \in [1 .. n -> Ripe] /\ \A i, j \in DOMAIN q : i # j => q[i] # q[j]
  BY <1>1 DEF Poll, Orders
<1>4. q \in Seq(Ripe) /\ Len(q) = n
  BY <1>2, <1>3, FunctionIsSeq
<1>5. q \in Seq(Task)
  BY <1>2, <1>4, SeqMonotonic
<1>6. \A k \in 1 .. n : q[k] \in Ripe
  BY <1>3
<1>7. \A i, j \in 1 .. n : q[i].to = q[j].to => i = j
  BY <1>3, <1>6, RipeFacts
<1> QED BY <1>1, <1>4, <1>5, <1>6, <1>7

LEMMA ForgetOpen ==
    ASSUME TypeOK, NEW d \in Conn, NEW how, Forget(d, how)
    PROVE  /\ peer'[d] = how
           /\ \A c \in Conn : c # d => peer'[c] = peer[c] /\ interest'[c] = interest[c]
BY DEF Forget, TypeOK

LEMMA FitsStep == IInv /\ [Next]_vars => Fits'
<1> SUFFICES ASSUME IInv, [Next]_vars PROVE Fits'
  OBVIOUS
<1>1. CASE UNCHANGED << peer, interest, scheduled, pc >>
  BY <1>1, WaitingFits, OpenStaysFinite DEF IInv, Fits
<1>2. ASSUME NEW d \in Conn, Connect(d) PROVE Fits'
  <2>1. /\ scheduled' = scheduled /\ pc' = pc /\ interest' = interest
        /\ \A c \in Conn : peer'[c] = "open" <=> peer[c] = "open"
    BY <1>2 DEF Connect, connection, IInv, TypeOK
  <2> QED BY <2>1, WaitingFits, OpenStaysFinite DEF IInv, Fits
<1>3. ASSUME NEW d \in Conn, PeerSend(d) \/ \E how \in {"eof", "reset"} : PeerEnd(d, how)
      PROVE  Fits'
  BY <1>1, <1>3 DEF PeerSend, PeerEnd, connection
<1>4. CASE RaiseSignal \/ AcceptInterrupted \/ UNCHANGED vars
  BY <1>1, <1>4 DEF RaiseSignal, AcceptInterrupted, wire, connection, vars
<1>5. CASE Bind \/ Listen \/ PollFailed
  <2>1. /\ UNCHANGED << peer, interest, scheduled >> /\ (pc' = "accept" => scheduled # << >>)
    BY <1>5 DEF Bind, Listen, PollFailed, wire, connection, IsTo
  <2> QED BY <2>1, WaitingFits, OpenStaysFinite
<1>6. CASE Poll
  <2>1. UNCHANGED << peer, interest, pc >> /\ pc = "run"
    BY <1>6 DEF Poll, wire, connection
  <2>2. PICK q : q = scheduled'
    OBVIOUS
  <2>3. /\ \A k \in 1 .. Len(q) : q[k] \in Ripe
        /\ \A i, j \in 1 .. Len(q) : q[i].to = q[j].to => i = j
    BY <1>6, <2>2, PollFacts
  <2>4. \A k \in 1 .. Len(q) : q[k].to \in Conn =>
          peer[q[k].to] = "open" /\ q[k].ready = interest[q[k].to]
    BY <2>3, RipeFacts
  <2>5. IsFiniteSet(Open')
    BY <2>1, OpenStaysFinite
  <2> QED BY <2>1, <2>2, <2>3, <2>4, <2>5 DEF Fits
<1>7. CASE Signal \/ AcceptDone \/ AcceptFailed
  <2>1. UNCHANGED << peer, interest >> /\ scheduled # << >> /\ scheduled' = Tail(scheduled)
        /\ pc' # "accept"
    BY <1>7 DEF Signal, AcceptDone, AcceptFailed, InAccept, Finish, IsTo, wire, connection, IInv, Fits
  <2> QED BY <2>1, FinishFits, OpenStaysFinite
<1>8. CASE AcceptOpen
  <2>1. /\ scheduled' = scheduled /\ pc' = pc /\ interest' = interest
        /\ \A c \in Conn : c # Head(backlog) => peer'[c] = peer[c]
        /\ peer'[Head(backlog)] = "open"
    BY <1>8, HeadQueued DEF AcceptOpen, connection, IInv, TypeOK
  <2>2. IsFiniteSet(Open')
    BY <2>1, OpenStaysFinite
  <2>3. \A c \in Conn : peer[c] = "open" => peer'[c] = "open" /\ interest'[c] = interest[c]
    BY <2>1
  <2> QED BY <2>1, <2>2, <2>3, WaitingFits DEF IInv, Fits
<1>9. CASE AcceptDropped
  <2>1. Head(backlog) \in Conn /\ peer[Head(backlog)] = "queued" /\ Forget(Head(backlog), "failed")
    BY <1>9, HeadQueued DEF AcceptDropped
  <2>2. /\ peer'[Head(backlog)] = "failed"
        /\ \A c \in Conn : c # Head(backlog) => peer'[c] = peer[c] /\ interest'[c] = interest[c]
    BY <2>1, ForgetOpen DEF IInv
  <2>3. \A c \in Conn : peer[c] = "open" => peer'[c] = "open" /\ interest'[c] = interest[c]
    BY <2>1, <2>2
  <2>4. IsFiniteSet(Open')
    BY <2>2, OpenStaysFinite
  <2>5. scheduled' = scheduled /\ pc' = pc
    BY <1>9 DEF AcceptDropped
  <2> QED BY <2>3, <2>4, <2>5, WaitingFits DEF IInv, Fits
<1>10. ASSUME NEW d \in Conn, NEW ready, Serves(d, ready), scheduled' = Tail(scheduled), pc' = pc,
              peer' = peer, \A c \in Conn : c # d => interest'[c] = interest[c]
       PROVE  Fits'
  <2>1. scheduled # << >> /\ pc = "run" /\ Head(scheduled).to = d
    BY <1>10, Served
  <2>2. IsFiniteSet(Open')
    BY <1>10, OpenStaysFinite
  <2> QED BY <1>10, <2>1, <2>2, FinishFits
<1>11. ASSUME NEW d \in Conn, NEW n \in 1 .. BufSize, Read(d, n) PROVE Fits'
  BY <1>10, <1>11 DEF Read, Finish, Buffer, IInv, TypeOK
<1>12. ASSUME NEW d \in Conn, NEW n \in 1 .. BufSize, Write(d, n) PROVE Fits'
  BY <1>10, <1>12 DEF Write, Finish, Buffer, IInv, TypeOK
<1>13. ASSUME NEW d \in Conn, ReadAgain(d) PROVE Fits'
  BY <1>10, <1>13 DEF ReadAgain, Finish, Buffer, wire, IInv, TypeOK
<1>14. ASSUME NEW d \in Conn, WriteAgain(d) PROVE Fits'
  BY <1>10, <1>14 DEF WriteAgain, Finish, Buffer, wire, IInv, TypeOK
<1>15. ASSUME NEW d \in Conn, Drop(d) \/ Fail(d) PROVE Fits'
  <2>1. scheduled # << >> /\ pc = "run" /\ Head(scheduled).to = d
    BY <1>15, Served DEF Drop, Fail
  <2>2. /\ Forget(d, "none") \/ Forget(d, "failed")
        /\ scheduled' = Tail(scheduled) /\ pc' = pc
    BY <1>15 DEF Drop, Fail, Finish
  <2>3. /\ peer'[d] \in {"none", "failed"}
        /\ \A c \in Conn : c # d => peer'[c] = peer[c] /\ interest'[c] = interest[c]
    BY <2>2, ForgetOpen DEF IInv
  <2>4. IsFiniteSet(Open')
    BY <2>3, OpenStaysFinite
  <2> QED BY <2>1, <2>2, <2>3, <2>4, FinishFits
<1>16. CASE Outside
  BY <1>2, <1>3, <1>4, <1>16 DEF Outside
<1>17. CASE Server
  BY <1>4, <1>5, <1>6, <1>7, <1>8, <1>9, <1>11, <1>12, <1>13, <1>14, <1>15, <1>17 DEF Server, Serve
<1> QED BY <1>4, <1>16, <1>17 DEF Next

-----------------------------------------------------------------------------
(* Types.                                                                  *)

LEMMA BufferType ==
    ASSUME TypeOK, NEW c, NEW pos \in 0 .. BufSize, NEW size \in 0 .. BufSize, Buffer(c, pos, size)
    PROVE  /\ buf_pos' \in [Conn -> 0 .. BufSize] /\ buf_size' \in [Conn -> 0 .. BufSize]
           /\ interest' \in [Conn -> {"readable", "writable"}]
<1>1. Wish(pos, size) \in {"readable", "writable"}
  BY DEF Wish
<1> QED BY <1>1 DEF Buffer, TypeOK

LEMMA ForgetType ==
    ASSUME TypeOK, NEW c, NEW how \in {"none", "failed"}, Forget(c, how)
    PROVE  /\ peer' \in [Conn -> {"none", "queued", "open", "failed"}]
           /\ fate' \in [Conn -> {"fine", "eof", "reset"}]
           /\ sent' \in [Conn -> 0 .. MaxBytes]
           /\ incoming' \in [Conn -> Seq(1 .. MaxBytes)]
           /\ echoed' \in [Conn -> Seq(1 .. MaxBytes)]
           /\ buf' \in [Conn -> [1 .. BufSize -> 0 .. MaxBytes]]
           /\ buf_pos' \in [Conn -> 0 .. BufSize] /\ buf_size' \in [Conn -> 0 .. BufSize]
           /\ interest' \in [Conn -> {"readable", "writable"}]
<1>1. 0 \in 0 .. MaxBytes /\ 0 \in 0 .. BufSize
  BY EchoConstants
<1>2. EmptyBuffer \in [1 .. BufSize -> 0 .. MaxBytes]
  BY <1>1 DEF EmptyBuffer
<1>3. << >> \in Seq(1 .. MaxBytes)
  OBVIOUS
<1> QED BY <1>1, <1>2, <1>3 DEF Forget, TypeOK

\* The first task is done, or the first of the backlog is accepted.
LEMMA FinishType ==
    ASSUME TypeOK, scheduled # << >>
    PROVE  Tail(scheduled) \in Seq(Task)
BY Shorter DEF TypeOK

LEMMA AcceptType ==
    ASSUME TypeOK, InAccept, backlog # << >>
    PROVE  Tail(backlog) \in Seq(Conn) /\ round + 1 \in 0 .. Limit
<1>1. round \in 0 .. Limit /\ round < Limit /\ Limit \in Nat
  BY EchoConstants DEF InAccept, TypeOK
<1> QED BY <1>1, Shorter DEF TypeOK

LEMMA TypeStep == IInv /\ [Next]_vars => TypeOK'
<1> SUFFICES ASSUME IInv, [Next]_vars PROVE TypeOK'
  OBVIOUS
<1>0. TypeOK
  BY DEF IInv
<1>1. ASSUME NEW d \in Conn, Connect(d) PROVE TypeOK'
  <2>1. backlog' \in Seq(Conn)
    BY <1>0, <1>1, Longer DEF Connect, TypeOK
  <2> QED BY <1>0, <1>1, <2>1 DEF Connect, TypeOK, connection
<1>2. ASSUME NEW d \in Conn, PeerSend(d) PROVE TypeOK'
  <2>1. sent[d] + 1 \in 0 .. MaxBytes /\ sent[d] + 1 \in 1 .. MaxBytes
    BY <1>0, <1>2, EchoConstants DEF PeerSend, TypeOK
  <2>2. Append(incoming[d], sent[d] + 1) \in Seq(1 .. MaxBytes)
    BY <1>0, <2>1, Longer DEF TypeOK
  <2> QED BY <1>0, <1>2, <2>1, <2>2 DEF PeerSend, TypeOK, connection
<1>3. ASSUME NEW d \in Conn, NEW how \in {"eof", "reset"}, PeerEnd(d, how) PROVE TypeOK'
  <2>1. << >> \in Seq(1 .. MaxBytes)
    OBVIOUS
  <2> QED BY <1>0, <1>3, <2>1 DEF PeerEnd, TypeOK, connection
<1>4. CASE RaiseSignal \/ Bind \/ PollFailed \/ UNCHANGED vars
  BY <1>0, <1>4 DEF RaiseSignal, Bind, PollFailed, TypeOK, wire, connection, vars
<1>5. CASE Poll
  BY <1>0, <1>5, PollFacts DEF Poll, TypeOK, wire, connection
<1>6. CASE Signal \/ Listen
  BY <1>0, <1>6, FinishType DEF Signal, Listen, IsTo, Finish, TypeOK, wire, connection
<1>7. CASE AcceptOpen
  <2>1. Tail(backlog) \in Seq(Conn) /\ round + 1 \in 0 .. Limit
    BY <1>0, <1>7, AcceptType DEF AcceptOpen
  <2> QED BY <1>0, <1>7, <2>1 DEF AcceptOpen, NextRound, TypeOK, connection
<1>8. CASE AcceptDropped
  <2>1. Tail(backlog) \in Seq(Conn) /\ round + 1 \in 0 .. Limit
    BY <1>0, <1>8, AcceptType DEF AcceptDropped
  <2> QED BY <1>0, <1>8, <2>1, ForgetType DEF AcceptDropped, NextRound, TypeOK
<1>9. CASE AcceptInterrupted
  <2>1. round + 1 \in 0 .. Limit
    BY <1>0, <1>9, EchoConstants DEF AcceptInterrupted, InAccept, TypeOK
  <2> QED BY <1>0, <1>9, <2>1 DEF AcceptInterrupted, NextRound, TypeOK, wire, connection
<1>10. CASE AcceptDone \/ AcceptFailed
  <2>1. scheduled # << >> /\ 0 \in 0 .. Limit
    BY <1>10, EchoConstants DEF AcceptDone, AcceptFailed, InAccept, IInv, Fits
  <2> QED BY <1>0, <1>10, <2>1, FinishType DEF AcceptDone, AcceptFailed, Finish, TypeOK, wire, connection
<1>11. ASSUME NEW d \in Conn, NEW n \in 1 .. BufSize, Read(d, n) PROVE TypeOK'
  <2>1. 0 \in 0 .. BufSize /\ n \in 0 .. BufSize /\ n \in Nat /\ scheduled # << >>
    BY <1>11, EchoConstants DEF Read, Serves
  <2>2. \A k \in 1 .. n : incoming[d][k] \in 0 .. MaxBytes
    <3> SUFFICES ASSUME NEW k \in 1 .. n PROVE incoming[d][k] \in 0 .. MaxBytes
      OBVIOUS
    <3>1. incoming[d] \in Seq(1 .. MaxBytes) /\ k \in 1 .. Len(incoming[d])
      BY <1>0, <1>11, <2>1, Fields DEF Read
    <3>2. incoming[d][k] \in 1 .. MaxBytes /\ MaxBytes \in Nat
      BY <3>1, ElementOfSeq, EchoConstants
    <3> QED BY <3>2
  <2>3. [k \in 1 .. BufSize |-> IF k <= n THEN incoming[d][k] ELSE buf[d][k]]
          \in [1 .. BufSize -> 0 .. MaxBytes]
    <3>1. \A k \in 1 .. BufSize : k <= n => k \in 1 .. n
      BY <2>1
    <3> QED BY <1>0, <2>2, <3>1 DEF TypeOK
  <2>4. SubSeq(incoming[d], n + 1, Len(incoming[d])) \in Seq(1 .. MaxBytes)
    <3>1. PICK x, S : x = incoming[d] /\ S = 1 .. MaxBytes
      OBVIOUS
    <3>2. x \in Seq(S) /\ n <= Len(x) /\ Len(x) \in Nat
      BY <1>0, <1>11, <3>1, Fields DEF Read
    <3>3. SubSeq(x, n + 1, Len(x)) \in Seq(S)
      BY <2>1, <3>2, Cut
    <3> QED BY <3>1, <3>3
  <2>5. /\ scheduled' \in Seq(Task)
        /\ buf_pos' \in [Conn -> 0 .. BufSize] /\ buf_size' \in [Conn -> 0 .. BufSize]
        /\ interest' \in [Conn -> {"readable", "writable"}]
    BY <1>0, <1>11, <2>1, FinishType, BufferType DEF Read, Finish
  <2>6. buf' \in [Conn -> [1 .. BufSize -> 0 .. MaxBytes]]
        /\ incoming' \in [Conn -> Seq(1 .. MaxBytes)]
    BY <1>0, <1>11, <2>3, <2>4 DEF Read, TypeOK
  <2> QED BY <1>0, <1>11, <2>5, <2>6 DEF Read, TypeOK
<1>12. ASSUME NEW d \in Conn, NEW n \in 1 .. BufSize, Write(d, n) PROVE TypeOK'
  <2>1. scheduled # << >> /\ buf_size[d] \in 0 .. BufSize
    BY <1>0, <1>12 DEF Write, Serves, TypeOK
  <2>2. echoed'[d] \in Seq(1 .. MaxBytes) /\ buf_pos[d] + n \in 0 .. BufSize
    BY <1>12, WriteKept
  <2>3. /\ scheduled' \in Seq(Task)
        /\ buf_pos' \in [Conn -> 0 .. BufSize] /\ buf_size' \in [Conn -> 0 .. BufSize]
        /\ interest' \in [Conn -> {"readable", "writable"}]
    BY <1>0, <1>12, <2>1, <2>2, FinishType, BufferType DEF Write, Finish
  <2>4. echoed' \in [Conn -> Seq(1 .. MaxBytes)]
    BY <1>0, <1>12, <2>2 DEF Write, TypeOK
  <2> QED BY <1>0, <1>12, <2>3, <2>4 DEF Write, TypeOK
<1>13. ASSUME NEW d \in Conn, ReadAgain(d) \/ WriteAgain(d) PROVE TypeOK'
  <2>1. 0 \in 0 .. BufSize /\ buf_pos[d] \in 0 .. BufSize /\ buf_size[d] \in 0 .. BufSize
        /\ scheduled # << >>
    BY <1>0, <1>13, EchoConstants DEF ReadAgain, WriteAgain, Serves, TypeOK
  <2>2. /\ scheduled' \in Seq(Task)
        /\ buf_pos' \in [Conn -> 0 .. BufSize] /\ buf_size' \in [Conn -> 0 .. BufSize]
        /\ interest' \in [Conn -> {"readable", "writable"}]
    BY <1>0, <1>13, <2>1, FinishType, BufferType DEF ReadAgain, WriteAgain, Finish
  <2> QED BY <1>0, <1>13, <2>2 DEF ReadAgain, WriteAgain, TypeOK, wire
<1>14. ASSUME NEW d \in Conn, Drop(d) \/ Fail(d) PROVE TypeOK'
  <2>1. scheduled # << >> /\ (Forget(d, "none") \/ Forget(d, "failed"))
    BY <1>14 DEF Drop, Fail, Serves
  <2> QED BY <1>0, <1>14, <2>1, FinishType, ForgetType DEF Drop, Fail, Finish, TypeOK
<1>15. CASE Outside
  BY <1>1, <1>2, <1>3, <1>4, <1>15 DEF Outside
<1>16. CASE Server
  BY <1>4, <1>5, <1>6, <1>7, <1>8, <1>9, <1>10, <1>11, <1>12, <1>13, <1>14, <1>16 DEF Server, Serve
<1> QED BY <1>4, <1>15, <1>16 DEF Next

-----------------------------------------------------------------------------
(* Theorems.                                                               *)

LEMMA InitHolds == Init => IInv
<1> SUFFICES ASSUME Init PROVE IInv
  OBVIOUS
<1>1. TypeOK
  <2>1. 0 \in 0 .. MaxBytes /\ 0 \in 0 .. BufSize /\ 0 \in 0 .. Limit
    BY EchoConstants
  <2>2. EmptyBuffer \in [1 .. BufSize -> 0 .. MaxBytes]
    BY <2>1 DEF EmptyBuffer
  <2>3. << >> \in Seq(1 .. MaxBytes) /\ << >> \in Seq(Conn) /\ << >> \in Seq(Task)
    OBVIOUS
  <2> QED BY <2>1, <2>2, <2>3 DEF Init, TypeOK
<1>2. Kept
  BY DEF Init, Kept, Buffered, InOrder, Rest
<1>3. Queued
  BY DEF Init, Queued
<1>4. Open = {}
  BY DEF Init, Open
<1>5. Fits
  BY <1>4, FS_EmptySet DEF Init, Fits
<1> QED BY <1>1, <1>2, <1>3, <1>5 DEF IInv

LEMMA StepHolds == IInv /\ [Next]_vars => IInv'
BY TypeStep, KeptStep, QueuedStep, FitsStep DEF IInv

\* Byte by byte is as a whole.
LEMMA KnownIsNumbers ==
    ASSUME IInv, NEW c \in Conn
    PROVE  LET known == echoed[c] \o Held(c) \o incoming[c]
           IN  /\ known = Numbers(Len(known))
               /\ fate[c] # "reset" => Len(known) = sent[c]
<1>1. PICK T : T = 0 .. MaxBytes
  OBVIOUS
<1>2. 1 .. MaxBytes \subseteq T
  BY <1>1, EchoConstants
<1>3. PICK x, h, y, b, pos, size, s :
        /\ x = echoed[c] /\ h = Held(c) /\ y = incoming[c] /\ b = buf[c]
        /\ pos = buf_pos[c] /\ size = buf_size[c] /\ s = sent[c]
  OBVIOUS
<1>4. x \in Seq(T) /\ y \in Seq(T)
  <2>1. x \in Seq(1 .. MaxBytes) /\ y \in Seq(1 .. MaxBytes)
    BY <1>3, Fields DEF IInv
  <2> QED BY <1>2, <2>1, SeqMonotonic
<1>5. PICK e, i : e = Len(x) /\ i = Len(y)
  OBVIOUS
<1>6. /\ e \in Nat /\ i \in Nat /\ s \in Nat /\ pos \in Nat /\ size \in Nat
      /\ pos <= size /\ size <= BufSize /\ BufSize \in Nat
      /\ \A k \in 1 .. e : x[k] = k
      /\ \A k \in 1 .. size - pos : b[pos + k] = e + k
      /\ \A k \in 1 .. i : y[k] = e + (size - pos) + k
      /\ fate[c] # "reset" => e + (size - pos) + i = s
  BY <1>3, <1>5, Known
<1>7. PICK n : n = size - pos /\ n \in Nat
  BY <1>6
<1>8. h \in Seq(T) /\ Len(h) = n /\ \A k \in 1 .. n : h[k] = e + k
  <2>1. b \in Seq(T) /\ Len(b) = BufSize /\ h = SubSeq(b, pos + 1, size)
    BY <1>1, <1>3, BufferIsSeq DEF IInv, Held
  <2>2. /\ SubSeq(b, pos + 1, size) \in Seq(T)
        /\ Len(SubSeq(b, pos + 1, size)) = size - pos
        /\ \A k \in 1 .. size - pos : SubSeq(b, pos + 1, size)[k] = b[pos + k]
    BY <1>6, <2>1, Cut
  <2> QED BY <1>6, <1>7, <2>1, <2>2
<1>9. PICK u, known : u = x \o h /\ known = u \o y
  OBVIOUS
<1>10. /\ u \in Seq(T) /\ Len(u) = e + n
       /\ \A k \in 1 .. e : u[k] = x[k]
       /\ \A k \in 1 .. n : u[e + k] = h[k]
  <2>1. x \in Seq(T) /\ h \in Seq(T)
    BY <1>4, <1>8
  <2>2. /\ x \o h \in Seq(T) /\ Len(x \o h) = Len(x) + Len(h)
        /\ \A k \in 1 .. Len(x) : (x \o h)[k] = x[k]
        /\ \A k \in 1 .. Len(h) : (x \o h)[Len(x) + k] = h[k]
    BY <2>1, Joined
  <2> QED BY <1>5, <1>8, <1>9, <2>2
<1>11. /\ known \in Seq(T) /\ Len(known) = e + n + i
       /\ \A k \in 1 .. e + n : known[k] = u[k]
       /\ \A k \in 1 .. i : known[(e + n) + k] = y[k]
  <2>1. /\ known \in Seq(T) /\ Len(known) = Len(u) + Len(y)
        /\ \A k \in 1 .. Len(u) : known[k] = u[k]
        /\ \A k \in 1 .. Len(y) : known[Len(u) + k] = y[k]
    BY <1>4, <1>9, <1>10, Joined
  <2> QED BY <1>5, <1>10, <2>1
<1>12. \A k \in 1 .. e + n + i : known[k] = k
  <2> SUFFICES ASSUME NEW k \in 1 .. e + n + i PROVE known[k] = k
    OBVIOUS
  <2>1. CASE k \in 1 .. e
    <3>1. k \in 1 .. e + n
      BY <1>6, <1>7, <2>1
    <3> QED BY <1>6, <1>10, <1>11, <2>1, <3>1
  <2>2. CASE k \in e + 1 .. e + n
    <3>1. k - e \in 1 .. n /\ e + (k - e) = k /\ k \in 1 .. e + n
      BY <1>6, <1>7, <2>2
    <3> QED BY <1>8, <1>10, <1>11, <3>1
  <2>3. CASE k \in e + n + 1 .. e + n + i
    <3>1. k - (e + n) \in 1 .. i /\ (e + n) + (k - (e + n)) = k
      BY <1>6, <1>7, <2>3
    <3>2. y[k - (e + n)] = (e + n) + (k - (e + n))
      BY <1>6, <1>7, <3>1
    <3> QED BY <1>11, <3>1, <3>2
  <2> QED BY <1>6, <1>7, <2>1, <2>2, <2>3
<1>13. known = Numbers(Len(known))
  <2>1. known = [k \in 1 .. Len(known) |-> known[k]]
    BY <1>11, LenProperties
  <2>2. \A k \in 1 .. Len(known) : known[k] = k
    BY <1>11, <1>12
  <2> QED BY <2>1, <2>2 DEF Numbers
<1>14. fate[c] # "reset" => Len(known) = s
  BY <1>6, <1>7, <1>11
<1> QED BY <1>3, <1>9, <1>13, <1>14

\* The echo server's state keeps its types: its buffer holds only bytes that a peer sent,
\* and its accepting loop ends in time.
THEOREM EchoTypeCorrect == Spec => []TypeOK
<1>1. IInv => TypeOK
  BY DEF IInv
<1> QED BY <1>1, InitHolds, StepHolds, PTL DEF Spec

\* The assertions of Connection::io hold: a task reaches a living connection that still
\* waits for what the poll reported, with a buffer that is empty exactly if it reads.
THEOREM AssertionsHold == Spec => []TasksFit
<1>1. IInv => TasksFit
  <2> SUFFICES ASSUME IInv, NEW k \in DOMAIN scheduled, NEW c, c = scheduled[k].to, c \in Conn
               PROVE  /\ peer[c] = "open" /\ scheduled[k].ready = interest[c]
                      /\ IF interest[c] = "readable" THEN buf_pos[c] = buf_size[c]
                                                     ELSE buf_pos[c] < buf_size[c]
    BY DEF TasksFit
  <2>1. k \in 1 .. Len(scheduled)
    BY LenProperties DEF IInv, TypeOK
  <2>2. peer[c] = "open" /\ scheduled[k].ready = interest[c]
    BY <2>1 DEF IInv, Fits
  <2>3. Buffered(c) /\ buf_pos[c] \in Nat /\ buf_size[c] \in Nat
    BY Fields DEF IInv, Kept
  <2> QED BY <2>2, <2>3 DEF Buffered
<1> QED BY <1>1, InitHolds, StepHolds, PTL DEF Spec

\* What a peer sent is what was echoed, what is in the buffer and what was not read yet,
\* in this order: reading, partial writes and retries lose, repeat and swap no byte.
THEOREM EchoLosesNothing == Spec => []NothingLost
<1>1. IInv => NothingLost
  BY KnownIsNumbers DEF NothingLost
<1> QED BY <1>1, InitHolds, StepHolds, PTL DEF Spec

\* Only the end of the stream closes such a connection, as none in the backlog is open
\* and one whose calls fail is told apart.
LEMMA ClosedStep ==
    ASSUME IInv, [Next]_vars, NEW c \in Conn,
           peer[c] = "open", peer'[c] = "none", fate[c] # "reset"
    PROVE  echoed[c] = Numbers(sent[c])
<1>1. CASE Drop(c)
  <2>1. Serves(c, "readable") /\ fate[c] = "eof" /\ incoming[c] = << >>
    BY <1>1 DEF Drop, AtEnd
  <2>2. PICK x, e, pos, size : x = echoed[c] /\ e = Len(x) /\ pos = buf_pos[c] /\ size = buf_size[c]
    OBVIOUS
  <2>3. /\ e \in Nat /\ pos \in Nat /\ size \in Nat /\ sent[c] \in Nat
        /\ \A k \in 1 .. e : x[k] = k
        /\ e + (size - pos) + 0 = sent[c]
    BY <2>1, <2>2, Known
  <2>4. pos = size
    BY <2>1, <2>2, Served
  <2>5. e = sent[c]
    BY <2>3, <2>4
  <2>6. x = [k \in 1 .. e |-> x[k]]
    BY <2>2, Fields, LenProperties DEF IInv
  <2> QED BY <2>2, <2>3, <2>5, <2>6 DEF Numbers
<1>2. ASSUME NEW d \in Conn, Drop(d) PROVE d = c
  BY <1>2, ForgetOpen DEF Drop, IInv
<1>11. ASSUME NEW d \in Conn PROVE ~Fail(d)
  BY ForgetOpen DEF Fail, IInv
<1>3. ~AcceptDropped
  BY HeadQueued, ForgetOpen DEF AcceptDropped, IInv
<1>4. ~AcceptOpen
  BY HeadQueued DEF AcceptOpen, IInv, TypeOK
<1>5. peer' # peer
  OBVIOUS
<1>6. ASSUME NEW d \in Conn PROVE ~Connect(d)
  BY DEF Connect, IInv, TypeOK
<1>7. ~Outside
  BY <1>5, <1>6 DEF Outside, PeerSend, PeerEnd, RaiseSignal, wire
<1>8. Server
  BY <1>5, <1>7 DEF Next, vars, wire
<1>9. \E d \in Conn : Serve(d) \/ ReadAgain(d) \/ WriteAgain(d)
  BY <1>3, <1>4, <1>5, <1>8, <1>11 DEF Server, Bind, Poll, PollFailed, Signal, Listen, AcceptInterrupted, AcceptDone,
                                AcceptFailed, wire
<1>10. \E d \in Conn : Drop(d)
  BY <1>5, <1>9 DEF Serve, Read, Write, ReadAgain, WriteAgain, wire
<1> QED BY <1>1, <1>2, <1>10

\* A connection that its peer did not reset is closed only after all it sent was echoed,
\* unless a read, a write or the registration for it fails (which Fail keeps apart): no
\* shortage of a read or a write, no end of the stream and no task that comes late for
\* another one's place makes the server close it before.
THEOREM ClosesAfterAll == Spec => ClosedAfterEcho
<1>1. IInv /\ [Next]_vars =>
        [\A c \in Conn : peer[c] = "open" /\ peer'[c] = "none" /\ fate[c] # "reset"
           => echoed[c] = Numbers(sent[c])]_vars
  BY ClosedStep
<1> QED BY <1>1, InitHolds, StepHolds, PTL DEF Spec, ClosedAfterEcho

\* The server never waits for the wrong thing while it owes a connection bytes: the next
\* poll reports the connection, whatever reads and writes fell short before.
OwedIsReported ==
    \A c \in Conn : Owed(c) /\ peer[c] = "open" => \E task \in Ripe : task.to = c

\* No connection whose bytes are still owed sleeps: the safe half of EverythingEchoed,
\* of which the fairness of reads, writes and polls makes the rest.
THEOREM NoOwedConnectionSleeps == Spec => []OwedIsReported
<1>1. ASSUME IInv, NEW c \in Conn, Owed(c), peer[c] = "open" PROVE \E task \in Ripe : task.to = c
  <2>1. PICK e, i, pos, size, s :
          /\ e = Len(echoed[c]) /\ i = Len(incoming[c]) /\ s = sent[c]
          /\ pos = buf_pos[c] /\ size = buf_size[c]
    OBVIOUS
  <2>2. /\ e \in Nat /\ i \in Nat /\ s \in Nat /\ pos \in Nat /\ size \in Nat
        /\ e + (size - pos) + i = s /\ e < s
    BY <1>1, <2>1, Known DEF Owed
  <2>3. pos # size \/ i # 0
    BY <2>2
  <2>4. interest[c] = IF pos = size THEN "readable" ELSE "writable"
    BY <1>1, <2>1 DEF IInv, Kept, Buffered
  <2>5. i # 0 => incoming[c] # << >>
    BY <2>1
  <2>6. \/ interest[c] = "readable" /\ incoming[c] # << >>
        \/ interest[c] = "writable"
    BY <2>3, <2>4, <2>5
  <2>7. [to |-> c, ready |-> interest[c]] \in Ripe
    BY <1>1, <2>6 DEF Ripe, Open
  <2> QED BY <2>7
<1>2. IInv => OwedIsReported
  BY <1>1 DEF OwedIsReported
<1> QED BY <1>2, InitHolds, StepHolds, PTL DEF Spec
=============================================================================
