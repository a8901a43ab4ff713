--------------------------- MODULE SendFileProofs ---------------------------
(***************************************************************************)
(* Theorems about SendFile, for files of any length, any modulus of the    *)
(* block numbers and any rollover value: the transfer implements           *)
(* FileTransfer, over a network that loses, repeats and reorders packets.  *)
(***************************************************************************)
EXTENDS SendFile, TftpProofs, SequenceTheorems

-----------------------------------------------------------------------------
(* The inductive invariant.                                                 *)

\* Chunks that were acknowledged, and chunks that the client has.
Acked == woo.counted
Taken == Len(received)

Packets == [block : BlockNos, chunk : Int]
Nets == [data : SUBSET Packets, ack : SUBSET Packets, oack : BOOLEAN, error : BOOLEAN]

\* What the proofs need of the types; no bound is part of it.
TypeInv ==
    /\ pc \in {"oack", "oackwait", "read", "nak", "send", "wait", "gone"}
    /\ block \in BlockNos /\ cblock \in BlockNos
    /\ size \in Int /\ bfs \in [0 .. 1 -> Int]
    /\ current \in 0 .. 1 /\ nextone \in 0 .. 1 /\ fpos \in Nat
    /\ outcome \in {"running", "done", "abort", "timeout"}
    /\ woo \in [counted : Nat, ended : BOOLEAN]
    /\ net \in Nets
    /\ received \in Seq(Int)

\* Before the next DATA packet is made up.
Between == {"oack", "oackwait", "read", "nak"}

\* How far server and client have come: the client is ahead by the one chunk that is
\* on its way, never by more.
ProgressInv ==
    /\ pc \in Between => Taken = Acked /\ Acked < Chunks
    /\ pc \in {"oack", "oackwait"} => Acked = 0
    /\ pc \in {"send", "wait"} => size = Acked + 1 /\ size =< Chunks
    /\ pc # "gone" => outcome = "running"
    /\ Taken \in {Acked, Acked + 1} /\ Taken =< Chunks

\* The buffer that is not current is free, holds the chunk after k, or an error that
\* read returned; nextone is the one to fill next.
ReadAheadOf(k) ==
    \/ bfs[1 - current] = BF_FREE /\ nextone = 1 - current /\ fpos = k + 1
    \/ bfs[1 - current] = k + 1 /\ nextone = current /\ fpos = k + 2
    \/ bfs[1 - current] = BF_ERROR /\ nextone = current /\ fpos = k + 1

BufferInv ==
    /\ pc = "read" => /\ bfs[current] = (IF Acked = 0 THEN BF_ALLOC ELSE Acked)
                      /\ ReadAheadOf(Acked)
    /\ pc \in {"send", "wait"} => bfs[current] = Acked + 1 /\ ReadAheadOf(Acked + 1)

\* The client has the chunks of the file in order; both sides number them alike.
ClientInv ==
    /\ \A i \in 1 .. Taken : received[i] = i
    /\ Numbered(Taken, cblock)
    /\ Numbered(Acked + 1, block)

\* A DATA packet in flight carries the chunk of its number, at most MaxLag behind the one
\* that the server is about.
DataInv ==
    \A d \in net.data :
        /\ d.chunk \in 1 .. Acked + 1 /\ Numbered(d.chunk, d.block)
        /\ d.chunk + MaxLag >= Acked + 1
        /\ pc \in Between => d.chunk =< Acked

\* An ACK in flight is for a chunk that the client has.
AckInv ==
    \A a \in net.ack :
        /\ a.chunk \in 0 .. Taken /\ Numbered(a.chunk, a.block)
        /\ a.chunk + MaxLag >= Acked

SendInv == TypeInv /\ ProgressInv /\ BufferInv /\ ClientInv /\ DataInv /\ AckInv

-----------------------------------------------------------------------------
(* Lemmas about single steps.                                               *)

\* An ACK with the number of the current block is the ACK of the current chunk, however
\* late it is: the client has the chunk.
LEMMA AckIsCurrent ==
    ASSUME SendInv, NEW a \in net.ack, AckMatches(a)
    PROVE  Taken = Acked + 1
  <1>1. a.chunk \in Nat /\ Acked \in Nat /\ Taken \in Nat
    BY DEF SendInv, TypeInv, AckInv, Acked, Taken
  <1>2. Numbered(a.chunk, block) /\ Numbered(Acked + 1, block)
    BY DEF SendInv, AckInv, ClientInv, AckMatches
  <1>3. a.chunk =< Acked + 1 /\ Acked + 1 =< a.chunk + MaxLag + 1 /\ a.chunk =< Taken
        /\ Taken =< Acked + 1
    BY <1>1, PeriodIsLong DEF SendInv, AckInv, ProgressInv
  <1>4. a.chunk = Acked + 1
    BY <1>1, <1>2, <1>3, NumbersDiffer
  <1> QED BY <1>1, <1>3, <1>4

\* A DATA packet with the number that the client awaits carries the chunk it awaits.
LEMMA DataIsNext ==
    ASSUME SendInv, NEW d \in net.data, d.block = ClientNext(cblock)
    PROVE  d.chunk = Taken + 1 /\ Taken = Acked /\ Numbered(Taken + 1, d.block)
           /\ pc \notin Between
  <1>1. d.chunk \in Nat /\ Acked \in Nat /\ Taken \in Nat /\ cblock \in BlockNos
    BY DEF SendInv, TypeInv, DataInv, Acked, Taken
  <1>2. ClientNext(cblock) = NextBlock(cblock)
    BY <1>1, NextBlockWraps DEF ClientNext
  <1>3. Numbered(Taken + 1, d.block)
    BY <1>1, <1>2, NextNumber DEF SendInv, ClientInv
  <1>4. d.chunk =< Acked + 1 /\ Acked + 1 =< d.chunk + MaxLag /\ Numbered(d.chunk, d.block)
        /\ Taken \in {Acked, Acked + 1}
    BY <1>1, PeriodIsLong DEF SendInv, DataInv, ProgressInv
  <1>5. d.chunk = Taken + 1
    <2>1. d.chunk =< Taken + 1 /\ Taken + 1 =< d.chunk + MaxLag + 1
      BY <1>1, <1>4, PeriodIsLong
    <2> QED BY <1>1, <1>3, <1>4, <2>1, NumbersDiffer
  <1>6. pc \notin Between
    BY <1>1, <1>4, <1>5 DEF SendInv, DataInv
  <1> QED BY <1>1, <1>3, <1>4, <1>5, <1>6

\* Sending a packet and the death of old ones leave a network.
LEMMA NetTypes ==
    ASSUME net \in Nets
    PROVE  /\ \A p \in Packets : /\ [net EXCEPT !.data = @ \cup {p}] \in Nets
                                 /\ [net EXCEPT !.ack = @ \cup {p}] \in Nets
           /\ \A k : [net EXCEPT !.data = Alive(@, k), !.ack = Alive(@, k)] \in Nets
           /\ \A v \in BOOLEAN : /\ [net EXCEPT !.oack = v] \in Nets
                                 /\ [net EXCEPT !.error = v] \in Nets
  <1>1. net.data \subseteq Packets /\ net.ack \subseteq Packets
    BY DEF Nets
  <1>2. ASSUME NEW p \in Packets
        PROVE  net.data \cup {p} \subseteq Packets /\ net.ack \cup {p} \subseteq Packets
    BY <1>1
  <1>3. ASSUME NEW k
        PROVE  Alive(net.data, k) \subseteq Packets /\ Alive(net.ack, k) \subseteq Packets
    BY <1>1 DEF Alive
  <1> QED BY <1>2, <1>3 DEF Nets

\* Every step keeps the types.
LEMMA TypeStep == TypeInv /\ [Next]_vars => TypeInv'
  <1> SUFFICES ASSUME TypeInv, [Next]_vars PROVE TypeInv'
    OBVIOUS
  <1> USE DEF TypeInv
  <1>1. CASE UNCHANGED vars
    BY <1>1 DEF vars, buffers, client
  <1>2. CASE SendOack
    <2>1. net' \in Nets
      BY <1>2, NetTypes, (net.oack \/ ackbuf = "oack") \in BOOLEAN DEF SendOack
    <2> QED BY <1>2, <2>1 DEF SendOack, buffers, client
  <1>3. ASSUME NEW a \in net.ack, RecvOackAck(a) PROVE TypeInv'
    BY <1>3 DEF RecvOackAck, RInit, BF_ALLOC, BF_FREE, buffers, client
  <1>4. CASE RecvOtherOackAck \/ RecvOtherKind
    BY <1>4 DEF RecvOtherOackAck, RecvOtherKind, buffers, client
  <1>5. CASE ReadIt
    <2>1. PICK got \in ReadResults(fpos) :
            LET freed == [bfs EXCEPT ![current] = BF_FREE]
                r == IF freed[1 - current] = BF_FREE
                       THEN ReadAhead(freed, nextone, fpos, got)
                       ELSE [bfs |-> freed, nextone |-> nextone, fpos |-> fpos]
            IN  bfs' = r.bfs /\ nextone' = r.nextone /\ fpos' = r.fpos
                /\ current' = 1 - current /\ size' = r.bfs[1 - current]
      BY <1>5 DEF ReadIt
    <2>2. got \in Int
      BY DEF ReadResults, BF_ERROR
    <2>3. /\ bfs' \in [0 .. 1 -> Int] /\ nextone' \in 0 .. 1 /\ fpos' \in Nat
          /\ current' \in 0 .. 1 /\ size' \in Int
      BY <2>1, <2>2 DEF ReadAhead, BF_FREE
    <2> QED BY <1>5, <2>3 DEF ReadIt, client
  <1>6. CASE Nak \/ RecvError \/ IoError \/ GiveUp
    BY <1>6 DEF Nak, RecvError, IoError, GiveUp, End, buffers, client
  <1>7. CASE SendData
    <2>1. PICK got \in ReadResults(fpos) :
            LET r == ReadAhead(bfs, nextone, fpos, got)
            IN  bfs' = r.bfs /\ nextone' = r.nextone /\ fpos' = r.fpos
      BY <1>7 DEF SendData
    <2>2. got \in Int
      BY DEF ReadResults, BF_ERROR
    <2>3. bfs' \in [0 .. 1 -> Int] /\ nextone' \in 0 .. 1 /\ fpos' \in Nat
      BY <2>1, <2>2 DEF ReadAhead, BF_FREE
    <2>4. [block |-> block, chunk |-> bfs[current]] \in Packets
      BY DEF Packets
    <2>5. net' \in Nets
      BY <1>7, <2>4, NetTypes DEF SendData
    <2> QED BY <1>7, <2>3, <2>5 DEF SendData, client
  <1>8. ASSUME NEW a \in net.ack, RecvAck(a) PROVE TypeInv'
    <2>1. block' \in BlockNos
      BY <1>8, NextBlockType DEF RecvAck
    <2>2. net' \in Nets
      <3>1. CASE AckMatches(a)
        <4>1. net' = [net EXCEPT !.data = Alive(@, size + 1), !.ack = Alive(@, size + 1)]
          BY <1>8, <3>1 DEF RecvAck
        <4> QED BY <4>1, NetTypes
      <3>2. CASE ~AckMatches(a)
        BY <1>8, <3>2 DEF RecvAck
      <3> QED BY <3>1, <3>2
    <2>3. woo' \in [counted : Nat, ended : BOOLEAN]
      <3>1. CASE AckMatches(a)
        <4>1. PICK e \in BOOLEAN : woo' = [woo EXCEPT !.counted = @ + 1, !.ended = e]
          BY <1>8, <3>1, Zenon DEF RecvAck
        <4>2. [woo EXCEPT !.counted = @ + 1] \in [counted : Nat, ended : BOOLEAN]
          OBVIOUS
        <4>3. woo' = [[woo EXCEPT !.counted = @ + 1] EXCEPT !.ended = e]
          BY <4>1
        <4> QED BY <4>2, <4>3, Zenon
      <3>2. CASE ~AckMatches(a)
        BY <1>8, <3>2 DEF RecvAck
      <3> QED BY <3>1, <3>2
    <2> QED BY <1>8, <2>1, <2>2, <2>3 DEF RecvAck, buffers, client
  <1>9. CASE Elapse \/ Retransmit
    BY <1>9 DEF Elapse, Retransmit, buffers, client
  <1>10. CASE ClientOack
    <2>1. [block |-> 0, chunk |-> 0] \in Packets
      BY PeriodIsLong DEF Packets, BlockNos
    <2>2. net' \in Nets
      BY <1>10, <2>1, NetTypes DEF ClientOack
    <2> QED BY <1>10, <2>2 DEF ClientOack, server, client, buffers
  <1>11. ASSUME NEW d \in net.data, ClientTakes(d) PROVE TypeInv'
    <2>1. d.block \in BlockNos /\ d.chunk \in Int
      BY DEF Nets, Packets
    <2>2. [block |-> d.block, chunk |-> Len(received) + 1] \in Packets
      BY <2>1 DEF Packets
    <2>3. net' \in Nets
      BY <1>11, <2>2, NetTypes DEF ClientTakes
    <2> QED BY <1>11, <2>1, <2>3 DEF ClientTakes, server, buffers
  <1>12. ASSUME NEW d \in net.data, ClientRepeats(d) PROVE TypeInv'
    <2>1. [block |-> cblock, chunk |-> Len(received)] \in Packets
      BY DEF Packets
    <2>2. net' \in Nets
      BY <1>12, <2>1, NetTypes DEF ClientRepeats
    <2> QED BY <1>12, <2>2 DEF ClientRepeats, server, client, buffers
  <1>13. CASE ClientError
    <2>1. net' \in Nets
      BY <1>13, NetTypes DEF ClientError
    <2> QED BY <1>13, <2>1 DEF ClientError, server, client, buffers
  <1> QED
    BY <1>1, <1>2, <1>3, <1>4, <1>5, <1>6, <1>7, <1>8, <1>9, <1>10, <1>11, <1>12, <1>13
    DEF Next, ServerStep, ClientStep

-----------------------------------------------------------------------------
(* Steps keep the invariant, one lemma for each kind of step.               *)

\* Steps that change neither the file, nor the counts, nor the packets that matter:
\* they wait, send again, or end the transfer.
LEMMA QuietSteps ==
    ASSUME SendInv, TypeInv',
           \/ SendOack \/ RecvOtherOackAck \/ RecvOtherKind \/ Nak \/ RecvError \/ IoError
           \/ Elapse \/ Retransmit
           \/ GiveUp \/ ClientError \/ UNCHANGED vars
    PROVE  SendInv'
  <1> DEFINE Kept == /\ UNCHANGED <<block, size, bfs, current, nextone, fpos, cblock, received>>
                     /\ woo'.counted = woo.counted
                     /\ net'.data = net.data /\ net'.ack = net.ack
  <1>1. Kept
    BY DEF SendInv, TypeInv, Nets, SendOack, RecvOtherOackAck, RecvOtherKind, Nak, RecvError,
           IoError, Elapse, Retransmit, GiveUp, ClientError, End, vars, server, client, buffers
  <1>2. \/ pc' = pc /\ outcome' = outcome
        \/ pc \in {"oack", "oackwait"} /\ pc' \in {"oack", "oackwait"} /\ outcome' = outcome
        \/ pc = "wait" /\ pc' = "send" /\ outcome' = outcome
        \/ pc' = "gone"
    BY DEF SendOack, RecvOtherOackAck, RecvOtherKind, Nak, RecvError, IoError, Elapse,
           Retransmit, GiveUp, ClientError, End, vars, server
  <1> HIDE DEF Kept
  <1>3. Acked' = Acked /\ Taken' = Taken
    BY <1>1 DEF Kept, Acked, Taken
  <1>4. ProgressInv'
    BY <1>1, <1>2, <1>3 DEF Kept, SendInv, ProgressInv, Between
  <1>5. BufferInv'
    BY <1>1, <1>2, <1>3 DEF Kept, SendInv, BufferInv, ReadAheadOf
  <1>6. ClientInv'
    BY <1>1, <1>3 DEF Kept, SendInv, ClientInv
  <1>7. DataInv'
    BY <1>1, <1>2, <1>3 DEF Kept, SendInv, DataInv, Between
  <1>8. AckInv'
    BY <1>1, <1>3 DEF Kept, SendInv, AckInv
  <1> QED BY <1>4, <1>5, <1>6, <1>7, <1>8 DEF SendInv

\* The answer to the OACK: rw_init leaves the buffers as they are for the first chunk.
LEMMA OackAckStep ==
    ASSUME SendInv, TypeInv', NEW a \in net.ack, RecvOackAck(a)
    PROVE  SendInv'
  <1>1. /\ UNCHANGED <<block, size, cblock, received, woo, net, outcome>>
        /\ pc = "oackwait" /\ pc' = "read"
    BY DEF RecvOackAck, client
  <1>2. Acked' = Acked /\ Taken' = Taken
    BY <1>1 DEF Acked, Taken
  <1>3. Acked = 0
    BY <1>1 DEF SendInv, ProgressInv
  <1>4. ProgressInv'
    BY <1>1, <1>2 DEF SendInv, ProgressInv, Between
  <1>5. pc' = "read" => current' = 0 /\ nextone' = 1 /\ fpos' = 1
                        /\ bfs'[0] = BF_ALLOC /\ bfs'[1] = BF_FREE
    BY DEF RecvOackAck, RInit
  <1>6. BufferInv'
    BY <1>1, <1>2, <1>3, <1>5 DEF BufferInv, ReadAheadOf
  <1>7. ClientInv'
    BY <1>1, <1>2 DEF SendInv, ClientInv
  <1>8. DataInv'
    BY <1>1, <1>2 DEF SendInv, DataInv, Between
  <1>9. AckInv'
    BY <1>1, <1>2 DEF SendInv, AckInv
  <1> QED BY <1>4, <1>6, <1>7, <1>8, <1>9 DEF SendInv

\* readit hands over the next chunk, or the error that read_ahead met.
LEMMA ReadItStep ==
    ASSUME SendInv, TypeInv', ReadIt
    PROVE  SendInv'
  <1>1. /\ UNCHANGED <<block, cblock, received, woo, net, outcome>>
        /\ pc = "read" /\ pc' = IF size' = BF_ERROR THEN "nak" ELSE "send"
    BY DEF ReadIt, client
  <1>2. Acked' = Acked /\ Taken' = Taken /\ Acked \in Nat
    BY <1>1 DEF Acked, Taken, SendInv, TypeInv
  <1>3. PICK got \in ReadResults(fpos) :
          LET freed == [bfs EXCEPT ![current] = BF_FREE]
              r == IF freed[1 - current] = BF_FREE
                     THEN ReadAhead(freed, nextone, fpos, got)
                     ELSE [bfs |-> freed, nextone |-> nextone, fpos |-> fpos]
          IN  bfs' = r.bfs /\ nextone' = r.nextone /\ fpos' = r.fpos
              /\ current' = 1 - current /\ size' = r.bfs[1 - current]
    BY DEF ReadIt
  <1>4. bfs \in [0 .. 1 -> Int] /\ current \in 0 .. 1 /\ got \in {fpos, BF_ERROR}
        /\ ReadAheadOf(Acked)
    BY <1>1 DEF SendInv, TypeInv, BufferInv, ReadResults
  <1>5. /\ current' = 1 - current /\ size' = bfs'[current'] /\ bfs'[1 - current'] = BF_FREE
        /\ size' # BF_ERROR =>
             size' = Acked + 1 /\ nextone' = 1 - current' /\ fpos' = Acked + 2
    <2>1. CASE bfs[1 - current] = BF_FREE
      BY <2>1, <1>2, <1>3, <1>4 DEF ReadAhead, ReadAheadOf, BF_FREE, BF_ERROR
    <2>2. CASE bfs[1 - current] # BF_FREE
      BY <2>2, <1>2, <1>3, <1>4 DEF ReadAheadOf, BF_FREE, BF_ERROR
    <2> QED BY <2>1, <2>2
  <1>6. ProgressInv'
    BY <1>1, <1>2, <1>5, PeriodIsLong DEF SendInv, ProgressInv, Between
  <1>7. BufferInv'
    BY <1>1, <1>2, <1>5 DEF BufferInv, ReadAheadOf
  <1>8. ClientInv'
    BY <1>1, <1>2 DEF SendInv, ClientInv
  <1>9. DataInv'
    BY <1>1, <1>2 DEF SendInv, DataInv, Between
  <1>10. AckInv'
    BY <1>1, <1>2 DEF SendInv, AckInv
  <1> QED BY <1>6, <1>7, <1>8, <1>9, <1>10 DEF SendInv

\* Sending DATA, the first time or again: the packet is the one of the current chunk,
\* and read_ahead leaves its buffer alone.
LEMMA SendDataStep ==
    ASSUME SendInv, TypeInv', SendData
    PROVE  SendInv'
  <1>1. /\ UNCHANGED <<block, size, cblock, received, woo, outcome, current>>
        /\ pc = "send" /\ pc' = "wait"
        /\ net'.data = net.data \cup {[block |-> block, chunk |-> bfs[current]]}
        /\ net'.ack = net.ack
    BY DEF SendData, client, SendInv, TypeInv, Nets
  <1>2. Acked' = Acked /\ Taken' = Taken /\ Acked \in Nat
    BY <1>1 DEF Acked, Taken, SendInv, TypeInv
  <1>3. PICK got \in ReadResults(fpos) :
          LET r == ReadAhead(bfs, nextone, fpos, got)
          IN  bfs' = r.bfs /\ nextone' = r.nextone /\ fpos' = r.fpos
    BY DEF SendData
  <1>4. bfs \in [0 .. 1 -> Int] /\ current \in 0 .. 1 /\ got \in {fpos, BF_ERROR}
        /\ bfs[current] = Acked + 1 /\ ReadAheadOf(Acked + 1)
    BY <1>1 DEF SendInv, TypeInv, BufferInv, ReadResults
  <1>5. ProgressInv'
    BY <1>1, <1>2 DEF SendInv, ProgressInv, Between
  <1>6. BufferInv'
    <2>1. bfs'[current] = Acked + 1
      BY <1>2, <1>3, <1>4 DEF ReadAhead, ReadAheadOf, BF_FREE, BF_ERROR
    <2>2. ReadAheadOf(Acked + 1)'
      BY <1>1, <1>2, <1>3, <1>4 DEF ReadAhead, ReadAheadOf, BF_FREE, BF_ERROR
    <2> QED BY <1>1, <1>2, <2>1, <2>2 DEF BufferInv
  <1>7. ClientInv'
    BY <1>1, <1>2 DEF SendInv, ClientInv
  <1>8. DataInv'
    <2>1. Numbered(Acked + 1, block)
      BY DEF SendInv, ClientInv
    <2> QED BY <1>1, <1>2, <1>4, <2>1, PeriodIsLong DEF SendInv, DataInv, Between
  <1>9. AckInv'
    BY <1>1, <1>2 DEF SendInv, AckInv
  <1> QED BY <1>5, <1>6, <1>7, <1>8, <1>9 DEF SendInv

\* The ACK of the current block, or any other.
LEMMA RecvAckStep ==
    ASSUME SendInv, TypeInv', NEW a \in net.ack, RecvAck(a)
    PROVE  SendInv'
  <1>1. CASE ~AckMatches(a)
    <2>1. UNCHANGED <<pc, block, size, bfs, current, nextone, fpos, cblock, received, woo, net,
                      outcome>>
      BY <1>1 DEF RecvAck, buffers, client
    <2>2. Acked' = Acked /\ Taken' = Taken
      BY <2>1 DEF Acked, Taken
    <2> QED
      BY <2>1, <2>2 DEF SendInv, ProgressInv, BufferInv, ReadAheadOf, ClientInv, DataInv, AckInv
  <1>2. CASE AckMatches(a)
    <2>1. /\ UNCHANGED <<size, bfs, current, nextone, fpos, cblock, received>>
          /\ pc = "wait" /\ block' = NextBlock(block)
          /\ pc' = IF size < Chunks THEN "read" ELSE "gone"
          /\ outcome' = IF size < Chunks THEN outcome ELSE "done"
          /\ net' = [net EXCEPT !.data = Alive(@, size + 1), !.ack = Alive(@, size + 1)]
      BY <1>2 DEF RecvAck, buffers, client
    <2>2. Acked' = Acked + 1 /\ Taken' = Taken /\ Acked \in Nat
      <3>1. woo' = [woo EXCEPT !.counted = @ + 1, !.ended = size = Chunks]
        BY <1>2 DEF RecvAck
      <3>2. woo \in [counted : Nat, ended : BOOLEAN]
        BY DEF SendInv, TypeInv
      <3>3. woo'.counted = woo.counted + 1
        BY <3>1, <3>2
      <3> QED BY <2>1, <3>2, <3>3 DEF Acked, Taken
    <2>3. Taken = Acked + 1
      BY <1>2, AckIsCurrent
    <2>4. size = Acked + 1 /\ size =< Chunks /\ outcome = "running"
      BY <2>1 DEF SendInv, ProgressInv
    <2>5. /\ net'.data = Alive(net.data, size + 1)
          /\ net'.ack = Alive(net.ack, size + 1)
      BY <2>1 DEF SendInv, TypeInv, Nets
    <2>6. ProgressInv'
      BY <2>1, <2>2, <2>3, <2>4, PeriodIsLong DEF ProgressInv, Between
    <2>7. BufferInv'
      BY <2>1, <2>2 DEF SendInv, BufferInv, ReadAheadOf
    <2>8. ClientInv'
      <3>1. Numbered(Acked + 2, NextBlock(block))
        BY <2>2, NextNumber DEF SendInv, ClientInv
      <3> QED BY <2>1, <2>2, <3>1 DEF SendInv, ClientInv
    <2>9. DataInv'
      <3> SUFFICES ASSUME NEW d \in net'.data
                   PROVE  /\ d.chunk \in 1 .. Acked' + 1 /\ Numbered(d.chunk, d.block)
                          /\ d.chunk + MaxLag >= Acked' + 1
                          /\ d.chunk =< Acked'
        BY DEF DataInv
      <3>1. d \in net.data /\ d.chunk + MaxLag >= size + 1
        BY <2>5 DEF Alive
      <3> QED BY <2>2, <2>4, <3>1, PeriodIsLong DEF SendInv, DataInv
    <2>10. AckInv'
      <3> SUFFICES ASSUME NEW p \in net'.ack
                   PROVE  /\ p.chunk \in 0 .. Taken' /\ Numbered(p.chunk, p.block)
                          /\ p.chunk + MaxLag >= Acked'
        BY DEF AckInv
      <3>1. p \in net.ack /\ p.chunk + MaxLag >= size + 1
        BY <2>5 DEF Alive
      <3> QED BY <2>2, <2>4, <3>1, PeriodIsLong DEF SendInv, AckInv
    <2> QED BY <2>6, <2>7, <2>8, <2>9, <2>10 DEF SendInv
  <1> QED BY <1>1, <1>2

\* The client acknowledges the OACK or the last block again.
LEMMA ClientAcksStep ==
    ASSUME SendInv, TypeInv',
           ClientOack \/ \E d \in net.data : ClientRepeats(d)
    PROVE  SendInv'
  <1>1. UNCHANGED <<pc, block, size, bfs, current, nextone, fpos, cblock, received, woo, outcome>>
        /\ net'.data = net.data
    BY DEF ClientOack, ClientRepeats, server, client, buffers, SendInv, TypeInv, Nets
  <1>2. Acked' = Acked /\ Taken' = Taken /\ Acked \in Nat /\ Taken \in Nat
    BY <1>1 DEF Acked, Taken, SendInv, TypeInv
  <1>3. net'.ack = net.ack \cup {[block |-> cblock, chunk |-> Taken]}
    <2>1. CASE ClientOack
      <3>1. Taken = 0
        BY <2>1 DEF ClientOack, Taken
      <3>2. cblock = 0
        BY <3>1, FirstNumbers, OneNumber DEF SendInv, ClientInv
      <3> QED BY <2>1, <3>1, <3>2 DEF ClientOack, SendInv, TypeInv, Nets
    <2>2. CASE \E d \in net.data : ClientRepeats(d)
      BY <2>2 DEF ClientRepeats, Taken, SendInv, TypeInv, Nets
    <2> QED BY <2>1, <2>2
  <1>4. ProgressInv'
    BY <1>1, <1>2 DEF SendInv, ProgressInv
  <1>5. BufferInv'
    BY <1>1, <1>2 DEF SendInv, BufferInv, ReadAheadOf
  <1>6. ClientInv'
    BY <1>1, <1>2 DEF SendInv, ClientInv
  <1>7. DataInv'
    BY <1>1, <1>2 DEF SendInv, DataInv
  <1>8. AckInv'
    <2>1. Taken >= Acked /\ Numbered(Taken, cblock)
      BY <1>2 DEF SendInv, ProgressInv, ClientInv
    <2> QED BY <1>2, <1>3, <2>1, PeriodIsLong DEF SendInv, AckInv
  <1> QED BY <1>4, <1>5, <1>6, <1>7, <1>8 DEF SendInv

\* The client takes the block that it awaits.
LEMMA ClientTakesStep ==
    ASSUME SendInv, TypeInv', NEW d \in net.data, ClientTakes(d)
    PROVE  SendInv' /\ received' = Append(received, Taken + 1)
  <1>1. /\ UNCHANGED <<pc, block, size, bfs, current, nextone, fpos, woo, outcome>>
        /\ Len(received) < Chunks /\ d.block = ClientNext(cblock)
        /\ received' = Append(received, d.chunk) /\ cblock' = d.block
        /\ net'.data = net.data
        /\ net'.ack = net.ack \cup {[block |-> d.block, chunk |-> Len(received) + 1]}
    BY DEF ClientTakes, server, buffers, SendInv, TypeInv, Nets
  <1>2. received \in Seq(Int) /\ Acked \in Nat /\ Taken \in Nat /\ Acked' = Acked
    BY <1>1 DEF SendInv, TypeInv, Acked, Taken
  <1>3. d.chunk = Taken + 1 /\ Taken = Acked /\ Numbered(Taken + 1, d.block) /\ pc \notin Between
    BY <1>1, DataIsNext
  <1>4. Taken' = Taken + 1 /\ \A i \in 1 .. Taken' : received'[i] = IF i =< Taken THEN received[i]
                                                                   ELSE Taken + 1
    BY <1>1, <1>2, <1>3 DEF Taken
  <1>5. ProgressInv'
    BY <1>1, <1>2, <1>3, <1>4, PeriodIsLong DEF SendInv, ProgressInv, Taken, Between
  <1>6. BufferInv'
    BY <1>1, <1>2 DEF SendInv, BufferInv, ReadAheadOf
  <1>7. ClientInv'
    BY <1>1, <1>2, <1>3, <1>4 DEF SendInv, ClientInv
  <1>8. DataInv'
    BY <1>1, <1>2 DEF SendInv, DataInv
  <1>9. AckInv'
    BY <1>1, <1>2, <1>3, <1>4, PeriodIsLong DEF SendInv, AckInv, Taken
  <1> QED BY <1>1, <1>3, <1>5, <1>6, <1>7, <1>8, <1>9 DEF SendInv

LEMMA SendInvInit == Init => SendInv
  <1> SUFFICES ASSUME Init PROVE SendInv
    OBVIOUS
  <1>1. block = 1 /\ cblock = 0 /\ Acked = 0 /\ Taken = 0
    BY DEF Init, Acked, Taken
  <1>2. TypeInv
    BY PeriodIsLong DEF Init, TypeInv, BlockNos, Nets, BF_ALLOC, BF_FREE
  <1>3. ClientInv
    BY <1>1, FirstNumbers DEF ClientInv
  <1>4. ProgressInv /\ BufferInv
    BY <1>1, PeriodIsLong DEF Init, ProgressInv, BufferInv, ReadAheadOf, Between
  <1>5. DataInv /\ AckInv
    BY DEF Init, DataInv, AckInv
  <1> QED BY <1>2, <1>3, <1>4, <1>5 DEF SendInv

LEMMA SendInvStep == SendInv /\ [Next]_vars => SendInv'
  <1> SUFFICES ASSUME SendInv, [Next]_vars PROVE SendInv'
    OBVIOUS
  <1>1. TypeInv'
    BY TypeStep DEF SendInv
  <1> QED
    BY <1>1, QuietSteps, OackAckStep, ReadItStep, SendDataStep, RecvAckStep, ClientAcksStep,
       ClientTakesStep DEF Next, ServerStep, ClientStep

LEMMA SendInvHolds == Spec => []SendInv
  BY SendInvInit, SendInvStep, PTL DEF Spec

-----------------------------------------------------------------------------
(* Theorems.                                                                *)

\* Whatever read_ahead does meanwhile, the buffer that a retransmission sends from holds
\* the chunk that the first transmission sent (tftpsubs.c:126).
THEOREM ResentIntactHolds == Spec => []ResentIntact
  <1>1. SendInv => ResentIntact
    BY DEF SendInv, ProgressInv, BufferInv, ResentIntact, Acked
  <1> QED BY <1>1, SendInvHolds, PTL

\* Server and client agree on the number of the block on its way, for any length of the
\* file, past any number of wraps of the block number and for any rollover value.
THEOREM NumbersInStepHold == Spec => []NumbersInStep
  <1>1. SendInv => NumbersInStep
    <2> SUFFICES ASSUME SendInv, pc \in {"send", "wait"}
                 PROVE  block = IF Len(received) = woo.counted THEN ClientNext(cblock) ELSE cblock
      BY DEF NumbersInStep
    <2>1. Acked \in Nat /\ Taken \in Nat /\ cblock \in BlockNos /\ Taken \in {Acked, Acked + 1}
      BY DEF SendInv, TypeInv, ProgressInv, Acked, Taken
    <2>2. Numbered(Taken, cblock) /\ Numbered(Acked + 1, block)
      BY DEF SendInv, ClientInv
    <2>3. CASE Taken = Acked
      <3>1. Numbered(Acked + 1, ClientNext(cblock))
        BY <2>1, <2>2, <2>3, NextNumber, NextBlockWraps DEF ClientNext
      <3>2. block = ClientNext(cblock)
        BY <2>1, <2>2, <3>1, OneNumber
      <3> QED BY <2>3, <3>2 DEF Acked, Taken
    <2>4. CASE Taken = Acked + 1
      <3>1. block = cblock
        BY <2>1, <2>2, <2>4, OneNumber
      <3> QED BY <2>1, <2>4, <3>1 DEF Acked, Taken
    <2> QED BY <2>1, <2>3, <2>4
  <1> QED BY <1>1, SendInvHolds, PTL

\* A step of the transfer is a step of FileTransfer, or leaves its variables alone.
LEMMA TransferStep == SendInv /\ SendInv' /\ [Next]_vars => [Transfer!Next]_<<received, Verdict>>
  <1> SUFFICES ASSUME SendInv, SendInv', [Next]_vars
               PROVE  Transfer!Next \/ UNCHANGED <<received, Verdict>>
    OBVIOUS
  <1>1. CASE received' = received /\ outcome' = outcome
    BY <1>1 DEF Verdict
  <1>2. ASSUME NEW d \in net.data, ClientTakes(d) PROVE Transfer!Next
    <2>1. received' = Append(received, Len(received) + 1) /\ Len(received) < Chunks
          /\ outcome' = outcome
      BY <1>2, ClientTakesStep DEF SendInv, Taken, ClientTakes, server
    <2>2. Verdict' = Verdict
      BY <2>1 DEF Verdict
    <2> QED BY <2>1, <2>2 DEF Transfer!Next, Transfer!Deliver
  <1>3. CASE Nak \/ RecvError \/ IoError \/ GiveUp
    <2>1. outcome = "running" /\ outcome' \in {"abort", "timeout"} /\ received' = received
      BY <1>3 DEF Nak, RecvError, IoError, GiveUp, End, client, SendInv, ProgressInv
    <2>2. Verdict = "running" /\ Verdict' = "failed"
      BY <2>1 DEF Verdict
    <2> QED BY <2>1, <2>2 DEF Transfer!Next, Transfer!Fail
  <1>4. ASSUME NEW a \in net.ack, RecvAck(a), outcome' # outcome PROVE Transfer!Next
    <2>1. AckMatches(a) /\ pc = "wait" /\ outcome' = "done" /\ ~(size < Chunks)
          /\ received' = received
      BY <1>4 DEF RecvAck, client
    <2>2. outcome = "running" /\ Taken = Acked + 1 /\ size = Acked + 1 /\ size =< Chunks
      BY <2>1, AckIsCurrent DEF SendInv, ProgressInv
    <2>3. Len(received) = Chunks
      BY <2>1, <2>2, PeriodIsLong DEF Taken, SendInv, TypeInv
    <2>4. Verdict = "running" /\ Verdict' = "complete"
      BY <2>1, <2>2 DEF Verdict
    <2> QED BY <2>1, <2>3, <2>4 DEF Transfer!Next, Transfer!Complete
  <1>5. CASE UNCHANGED vars \/ SendOack \/ RecvOtherOackAck \/ RecvOtherKind \/ ReadIt
             \/ SendData \/ Elapse \/ Retransmit \/ ClientOack \/ ClientError
             \/ (\E d \in net.data : ClientRepeats(d)) \/ (\E a \in net.ack : RecvOackAck(a))
    <2>1. received' = received /\ outcome' = outcome
      BY <1>5 DEF vars, SendOack, RecvOtherOackAck, RecvOtherKind, ReadIt, SendData, Elapse,
                  Retransmit, ClientOack, ClientError, ClientRepeats, RecvOackAck, server, client
    <2> QED BY <1>1, <2>1
  <1>6. ASSUME NEW a \in net.ack, RecvAck(a), outcome' = outcome
        PROVE  UNCHANGED <<received, Verdict>>
    <2>1. received' = received
      BY <1>6 DEF RecvAck, client
    <2> QED BY <1>6, <2>1 DEF Verdict
  <1> QED BY <1>2, <1>3, <1>4, <1>5, <1>6 DEF Next, ServerStep, ClientStep

\* tftp_sendfile implements FileTransfer: however packets are lost, repeated and reordered,
\* the client gets every chunk once and in order, and the server takes the transfer for
\* complete (size == segsize fails, tftpd.c:1677) only when the client has the whole file.
THEOREM SendImplementsTransfer == Spec => ImplementsTransfer
  <1>1. Init => Transfer!Init
    BY DEF Init, Transfer!Init, Verdict
  <1> QED
    BY <1>1, TransferStep, SendInvHolds, PTL DEF Spec, ImplementsTransfer, Transfer!Spec

-----------------------------------------------------------------------------
(* The number of attempts, with TRIES as it is in the code.                 *)

\* The interval doubles with every attempt, from 1 on.
Interval(n) == CASE n = 0 -> 1 [] n = 1 -> 2 [] n = 2 -> 4 [] n = 3 -> 8 [] n = 4 -> 16
                 [] OTHER -> 32

AttemptsInv ==
    /\ sends \in 0 .. 6 /\ timeout \in Nat
    /\ pc = "send" => sends \in 0 .. 5 /\ timeout = Interval(sends)
    /\ pc = "wait" => sends \in 1 .. 6 /\ timeout = Interval(sends - 1)

\* timer gives up when the doubled interval reaches maxtimeout: with TRIES == 6 and
\* TIMEOUT_LIMIT == 63 (tftpd.c:81-82, 161-168), after six attempts to send a packet.
THEOREM AttemptsBounded ==
    ASSUME Tries = 6
    PROVE  Spec => []BoundedAttempts
  <1>1. MaxTimeout = 63
    BY DEF MaxTimeout
  <1>2. Init => AttemptsInv
    BY DEF Init, AttemptsInv
  <1>3. AttemptsInv /\ [Next]_vars => AttemptsInv'
    <2> SUFFICES ASSUME AttemptsInv, [Next]_vars PROVE AttemptsInv'
      OBVIOUS
    <2>1. CASE ReadIt
      BY <2>1 DEF ReadIt, AttemptsInv, Interval
    <2>2. CASE SendData
      BY <2>2 DEF SendData, AttemptsInv, Interval
    <2>3. CASE Retransmit
      <3>1. CASE pc = "wait"
        <4>1. sends \in 1 .. 6 /\ timeout = Interval(sends - 1) /\ 2 * timeout < 63
          BY <1>1, <2>3, <3>1 DEF Retransmit, AttemptsInv, GivesUp, Backoff
        <4>2. sends \in 1 .. 5 /\ 2 * timeout = Interval(sends)
          BY <4>1 DEF Interval
        <4> QED BY <2>3, <3>1, <4>2 DEF Retransmit, AttemptsInv, Backoff
      <3>2. CASE pc # "wait"
        BY <2>3, <3>2 DEF Retransmit, AttemptsInv, Backoff
      <3> QED BY <3>1, <3>2
    <2>4. ASSUME NEW a \in net.ack, RecvAck(a) PROVE AttemptsInv'
      BY <2>4 DEF RecvAck, AttemptsInv
    <2>5. CASE Nak \/ RecvError \/ IoError \/ GiveUp
      BY <2>5 DEF Nak, RecvError, IoError, GiveUp, End, AttemptsInv
    <2>6. CASE UNCHANGED vars \/ SendOack \/ RecvOtherOackAck \/ RecvOtherKind \/ Elapse
               \/ (\E a \in net.ack : RecvOackAck(a))
      BY <2>6 DEF vars, SendOack, RecvOtherOackAck, RecvOtherKind, Elapse, RecvOackAck, AttemptsInv
    <2>7. CASE ClientStep
      BY <2>7 DEF ClientStep, ClientOack, ClientTakes, ClientRepeats, ClientError, server,
                  AttemptsInv
    <2> QED
      BY <2>1, <2>2, <2>3, <2>4, <2>5, <2>6, <2>7 DEF Next, ServerStep
  <1>4. AttemptsInv => BoundedAttempts
    BY DEF AttemptsInv, BoundedAttempts
  <1> QED BY <1>2, <1>3, <1>4, PTL DEF Spec

=============================================================================
