--------------------------- MODULE RecvFileProofs ---------------------------
(***************************************************************************)
(* Theorems about RecvFile, for files of any length, any modulus of the    *)
(* block numbers and any rollover value: the upload implements             *)
(* FileTransfer as long as the disk takes what is written.                 *)
(***************************************************************************)
EXTENDS RecvFile, TftpProofs, SequenceTheorems

-----------------------------------------------------------------------------
(* The inductive invariant.                                                 *)

\* Chunks that the server has received.
Got == woo.counted

Packets == [block : BlockNos, chunk : Int]
Nets == [data : SUBSET Packets, ack : SUBSET Packets, error : BOOLEAN]
BufferSet == [0 .. 1 -> [state : {"alloc", "free", "full"}, chunk : Int]]

\* What the proofs need of the types; no bound is part of it.
TypeInv ==
    /\ pc \in {"ack", "send", "wait", "final", "lastack", "dally", "gone"}
    /\ block \in BlockNos /\ cblock \in BlockNos
    /\ oap \in BOOLEAN
    /\ ackbuf \in [kind : {"ack", "oack"}, block : BlockNos]
    /\ bfs \in BufferSet
    /\ current \in 0 .. 1 /\ nextone \in 0 .. 1
    /\ disk \in Seq(Int)
    /\ outcome \in {"running", "done", "abort", "timeout"}
    /\ woo \in [counted : Nat, ended : BOOLEAN]
    /\ net \in Nets
    /\ cidx \in Nat /\ cdone \in BOOLEAN

\* How far server and client have come: the client is ahead by the chunk on its way.
ProgressInv ==
    /\ pc \in {"ack", "send", "wait"} => Got < Chunks
    /\ pc \in {"final", "lastack", "dally"} => Got = Chunks
    /\ pc \notin {"dally", "gone"} => outcome = "running"
    /\ pc = "dally" => outcome = "done"
    /\ cidx \in {Got, Got + 1} /\ cidx =< Chunks

\* Both sides number the chunks alike; ackbuf acknowledges the last one received.
NumberInv ==
    /\ Numbered(cidx, cblock)
    /\ pc \in {"send", "wait"} => Numbered(Got + 1, block) /\ Numbered(Got, ackbuf.block)
    /\ pc \in {"ack", "final", "lastack", "dally"} => Numbered(Got, block)

\* Packets in flight carry the chunk of their number, and are not too old.
PacketInv ==
    /\ \A d \in net.data : /\ d.chunk \in 1 .. cidx /\ Numbered(d.chunk, d.block)
                           /\ d.chunk + MaxLag >= cidx
    /\ \A a \in net.ack : /\ a.chunk \in 0 .. Got /\ Numbered(a.chunk, a.block)
                          /\ a.chunk + MaxLag + 1 >= cidx

\* The first regular ACK is sent at the latest for chunk 1, and clears oap.
OackInv ==
    /\ oap => Got = 0 \/ (Got = 1 /\ pc \notin {"send", "wait"})
    /\ pc \in {"send", "wait"} /\ ackbuf.kind = "oack" => Got = 0

RecvInv == TypeInv /\ ProgressInv /\ NumberInv /\ PacketInv /\ OackInv

-----------------------------------------------------------------------------
(* Lemmas about single steps.                                               *)

\* A DATA packet with the number awaited carries the chunk awaited.
LEMMA DataIsNext ==
    ASSUME RecvInv, pc = "wait", NEW d \in net.data, DataMatches(d)
    PROVE  d.chunk = Got + 1 /\ cidx = Got + 1
  <1>1. d.chunk \in Nat /\ Got \in Nat /\ cidx \in Nat
    BY DEF RecvInv, TypeInv, PacketInv, Got
  <1>2. Numbered(d.chunk, block) /\ Numbered(Got + 1, block)
    BY DEF RecvInv, PacketInv, NumberInv, DataMatches
  <1>3. d.chunk =< cidx /\ cidx =< d.chunk + MaxLag /\ cidx \in {Got, Got + 1}
    BY <1>1, PeriodIsLong DEF RecvInv, PacketInv, ProgressInv
  <1>4. d.chunk =< Got + 1 /\ Got + 1 =< d.chunk + MaxLag + 1
    BY <1>1, <1>3, PeriodIsLong
  <1>5. d.chunk = Got + 1
    BY <1>1, <1>2, <1>4, NumbersDiffer
  <1> QED BY <1>1, <1>3, <1>5

\* An ACK with the number of the client's block is the ACK of its chunk: the server
\* has the chunk.
LEMMA AckIsCurrent ==
    ASSUME RecvInv, NEW a \in net.ack, a.block = cblock
    PROVE  a.chunk = cidx /\ Got = cidx
  <1>1. a.chunk \in Nat /\ Got \in Nat /\ cidx \in Nat
    BY DEF RecvInv, TypeInv, PacketInv, Got
  <1>2. Numbered(a.chunk, cblock) /\ Numbered(cidx, cblock)
    BY DEF RecvInv, PacketInv, NumberInv
  <1>3. a.chunk =< Got /\ cidx =< a.chunk + MaxLag + 1 /\ cidx \in {Got, Got + 1}
    BY <1>1, PeriodIsLong DEF RecvInv, PacketInv, ProgressInv
  <1>4. a.chunk = cidx
    BY <1>1, <1>2, <1>3, NumbersDiffer
  <1> QED BY <1>1, <1>3, <1>4

\* What write_behind leaves behind are buffers and a file.
LEMMA WriteBehindType ==
    ASSUME NEW bufs \in BufferSet, NEW n \in 0 .. 1, NEW f \in Seq(Int),
           NEW r \in WriteBehind(bufs, n, f)
    PROVE  r.bfs \in BufferSet /\ r.nextone \in 0 .. 1 /\ r.disk \in Seq(Int)
  <1>1. CASE bufs[n].state = "full"
    <2>1. PICK g \in Written(f, bufs[n].chunk) :
            r = [bfs |-> [bufs EXCEPT ![n].state = "free"], nextone |-> 1 - n, disk |-> g]
      BY <1>1 DEF WriteBehind
    <2>2. bufs[n].chunk \in Int
      BY DEF BufferSet
    <2>3. g \in Seq(Int)
      BY <2>2 DEF Written
    <2>4. [bufs EXCEPT ![n].state = "free"] \in BufferSet
      BY DEF BufferSet
    <2> QED BY <2>1, <2>3, <2>4
  <1>2. CASE bufs[n].state # "full"
    BY <1>2 DEF WriteBehind
  <1> QED BY <1>1, <1>2

LEMMA FlushType ==
    ASSUME TypeInv, Flush
    PROVE  bfs' \in BufferSet /\ nextone' \in 0 .. 1 /\ disk' \in Seq(Int)
  <1>1. PICK r \in WriteBehind(bfs, nextone, disk) :
          bfs' = r.bfs /\ nextone' = r.nextone /\ disk' = r.disk
    BY DEF Flush
  <1> QED BY <1>1, WriteBehindType DEF TypeInv

LEMMA WriteItType ==
    ASSUME TypeInv, NEW chunk \in Int, WriteIt(chunk)
    PROVE  bfs' \in BufferSet /\ nextone' \in 0 .. 1 /\ disk' \in Seq(Int) /\ current' \in 0 .. 1
  <1> DEFINE queued == [bfs EXCEPT ![current] = [state |-> "full", chunk |-> chunk]]
  <1>1. PICK r \in IF queued[1 - current].state = "free"
                     THEN {[bfs |-> queued, nextone |-> nextone, disk |-> disk]}
                     ELSE WriteBehind(queued, nextone, disk) :
          /\ bfs' = [r.bfs EXCEPT ![1 - current].state = "alloc"]
          /\ nextone' = r.nextone /\ disk' = r.disk
    BY DEF WriteIt
  <1>2. current' = 1 - current
    BY DEF WriteIt
  <1>3. queued \in BufferSet
    BY DEF TypeInv, BufferSet
  <1>4. r.bfs \in BufferSet /\ r.nextone \in 0 .. 1 /\ r.disk \in Seq(Int)
    <2> HIDE DEF queued
    <2>1. CASE queued[1 - current].state = "free"
      BY <1>1, <1>3, <2>1 DEF TypeInv
    <2>2. CASE queued[1 - current].state # "free"
      BY <1>1, <1>3, <2>2, WriteBehindType DEF TypeInv
    <2> QED BY <2>1, <2>2
  <1>5. [r.bfs EXCEPT ![1 - current].state = "alloc"] \in BufferSet
    <2>1. \A b \in BufferSet, i \in 0 .. 1 : [b EXCEPT ![i].state = "alloc"] \in BufferSet
      BY DEF BufferSet
    <2>2. 1 - current \in 0 .. 1
      BY DEF TypeInv
    <2> QED BY <1>4, <2>1, <2>2, Zenon
  <1> QED BY <1>1, <1>2, <1>4, <1>5 DEF TypeInv

\* Sending a packet and the death of old ones leave a network.
LEMMA NetTypes ==
    ASSUME net \in Nets
    PROVE  /\ \A p \in Packets : [net EXCEPT !.ack = @ \cup {p}] \in Nets
           /\ \A p \in Packets : \A k :
                [net EXCEPT !.data = Alive(@ \cup {p}, k), !.ack = Alive(@, k)] \in Nets
           /\ [net EXCEPT !.error = TRUE] \in Nets
  <1>1. net.data \subseteq Packets /\ net.ack \subseteq Packets
    BY DEF Nets
  <1>2. ASSUME NEW p \in Packets
        PROVE  net.ack \cup {p} \subseteq Packets
    BY <1>1
  <1>3. ASSUME NEW p \in Packets, NEW k
        PROVE  Alive(net.data \cup {p}, k) \subseteq Packets /\ Alive(net.ack, k) \subseteq Packets
    BY <1>1 DEF Alive
  <1> QED BY <1>2, <1>3 DEF Nets

\* Every step keeps the types.
LEMMA TypeStep == TypeInv /\ [Next]_vars => TypeInv'
  <1> SUFFICES ASSUME TypeInv, [Next]_vars PROVE TypeInv'
    OBVIOUS
  <1>1. \A b \in BlockNos : AckPacket(b) \in Packets
    BY DEF AckPacket, Packets, TypeInv
  <1>2. net \in Nets
    BY DEF TypeInv
  <1>3. CASE UNCHANGED vars
    BY <1>3 DEF TypeInv, vars, buffers, client
  <1>4. CASE NextAck
    <2>1. ackbuf' \in [kind : {"ack", "oack"}, block : BlockNos] /\ oap' \in BOOLEAN
      <3>1. CASE block = 0 /\ oap
        BY <1>4, <3>1 DEF NextAck, TypeInv
      <3>2. CASE ~(block = 0 /\ oap)
        <4>1. oap' = FALSE /\ ackbuf' = [kind |-> "ack", block |-> block]
          BY <1>4, <3>2, Zenon DEF NextAck, OapCleared
        <4> QED BY <4>1 DEF TypeInv
      <3> QED BY <3>1, <3>2
    <2>2. block' \in BlockNos
      BY <1>4, NextBlockType DEF NextAck, TypeInv
    <2> QED BY <1>4, <2>1, <2>2 DEF NextAck, TypeInv, buffers, client
  <1>5. CASE SendAck
    <2>1. ackbuf.block \in BlockNos
      BY DEF TypeInv
    <2>2. net' \in Nets
      BY <1>1, <1>2, <1>5, <2>1, NetTypes DEF SendAck
    <2>3. bfs' \in BufferSet /\ nextone' \in 0 .. 1 /\ disk' \in Seq(Int)
      BY <1>5, FlushType DEF SendAck
    <2> QED BY <1>5, <2>2, <2>3 DEF SendAck, TypeInv, client
  <1>6. ASSUME NEW d \in net.data, RecvData(d) PROVE TypeInv'
    <2>1. d.chunk \in Int
      BY DEF TypeInv, Nets, Packets
    <2>2. bfs' \in BufferSet /\ nextone' \in 0 .. 1 /\ disk' \in Seq(Int) /\ current' \in 0 .. 1
      BY <1>6, <2>1, WriteItType DEF RecvData
    <2>3. woo' \in [counted : Nat, ended : BOOLEAN]
      BY <1>6 DEF RecvData, TypeInv
    <2> QED BY <1>6, <2>2, <2>3 DEF RecvData, TypeInv, client
  <1>7. ASSUME NEW d \in net.data, RecvOtherData(d) PROVE TypeInv'
    <2>1. d.chunk \in Int
      BY DEF TypeInv, Nets, Packets
    <2>2. bfs' \in BufferSet
      BY <1>7, <2>1 DEF RecvOtherData, TypeInv, BufferSet
    <2> QED BY <1>7, <2>2 DEF RecvOtherData, TypeInv, client
  <1>8. CASE Finish
    <2>1. bfs' \in BufferSet /\ nextone' \in 0 .. 1 /\ disk' \in Seq(Int)
      BY <1>8, FlushType DEF Finish, FinalFlush
    <2>2. woo' \in [counted : Nat, ended : BOOLEAN]
      BY <1>8, Zenon DEF Finish, TypeInv
    <2> QED BY <1>8, <2>1, <2>2 DEF Finish, TypeInv, client
  <1>9. CASE SendFinalAck
    <2>1. net' \in Nets
      BY <1>1, <1>2, <1>9, NetTypes DEF SendFinalAck, TypeInv
    <2> QED BY <1>9, <2>1 DEF SendFinalAck, TypeInv, buffers, client
  <1>10. CASE DallyRecv
    <2>1. net' \in Nets
      BY <1>1, <1>2, <1>10, NetTypes DEF DallyRecv, TypeInv
    <2> QED BY <1>10, <2>1 DEF DallyRecv, TypeInv, buffers, client
  <1>11. CASE RecvError \/ IoError \/ GiveUp
    BY <1>11 DEF RecvError, IoError, GiveUp, Abandon, TypeInv, buffers, client
  <1>12. CASE Elapse \/ Retransmit
    BY <1>12 DEF Elapse, Retransmit, TypeInv, buffers, client
  <1>13. ASSUME NEW a \in net.ack, ClientAcked(a) PROVE TypeInv'
    <2>1. ClientNext(cblock) = NextBlock(cblock)
      BY NextBlockWraps DEF ClientNext, TypeInv
    <2>2. ClientNext(cblock) \in BlockNos
      BY <2>1, NextBlockType DEF TypeInv
    <2>3. [block |-> ClientNext(cblock), chunk |-> cidx + 1] \in Packets
      BY <2>2 DEF Packets, TypeInv
    <2>4. net' \in Nets
      <3>1. CASE cidx = Chunks
        BY <1>2, <1>13, <3>1 DEF ClientAcked
      <3>2. CASE cidx # Chunks
        <4>1. net' = [net EXCEPT
                 !.data = Alive(@ \cup {[block |-> ClientNext(cblock), chunk |-> cidx + 1]}, cidx + 1),
                 !.ack = Alive(@, cidx + 1)]
          BY <1>13, <3>2 DEF ClientAcked
        <4> QED BY <1>2, <2>3, <4>1, NetTypes
      <3> QED BY <3>1, <3>2
    <2>5. cidx' \in Nat /\ cblock' \in BlockNos
      BY <1>13, <2>2 DEF ClientAcked, TypeInv
    <2>6. cdone' \in BOOLEAN
      BY <1>13, Zenon DEF ClientAcked, TypeInv
    <2> QED BY <1>13, <2>4, <2>5, <2>6 DEF ClientAcked, TypeInv, server, buffers
  <1>14. CASE ClientError
    <2>1. net' \in Nets
      BY <1>2, <1>14, NetTypes DEF ClientError
    <2> QED BY <1>14, <2>1 DEF ClientError, TypeInv, server, client, buffers
  <1> QED
    BY <1>3, <1>4, <1>5, <1>6, <1>7, <1>8, <1>9, <1>10, <1>11, <1>12, <1>13, <1>14
    DEF Next, ServerStep, Rexmit, DallyData, DallyStray

-----------------------------------------------------------------------------
(* Steps keep the control part of the invariant, whatever the disk does.    *)

\* Steps that wait, write, send again or end the transfer.
LEMMA QuietSteps ==
    ASSUME RecvInv, TypeInv',
           \/ Rexmit \/ Finish \/ RecvError \/ IoError \/ GiveUp \/ Elapse \/ Retransmit
           \/ ClientError \/ UNCHANGED vars
    PROVE  RecvInv'
  <1>1. /\ UNCHANGED <<block, oap, ackbuf, cidx, cblock, cdone>>
        /\ woo'.counted = woo.counted /\ net'.data = net.data /\ net'.ack = net.ack
    BY DEF RecvInv, TypeInv, Nets, Rexmit, RecvOtherData, Finish, RecvError, IoError, GiveUp,
           Abandon, Elapse, Retransmit, ClientError, vars, server, client
  <1>2. \/ pc' = pc /\ outcome' = outcome
        \/ pc = "wait" /\ pc' = "send" /\ outcome' = outcome
        \/ pc = "final" /\ pc' = "lastack" /\ outcome' = outcome
        \/ pc' = "gone"
    BY DEF Rexmit, RecvOtherData, Finish, RecvError, IoError, GiveUp, Abandon, Elapse, Retransmit,
           ClientError, vars, server
  <1>3. Got' = Got
    BY <1>1 DEF Got
  <1>4. ProgressInv'
    BY <1>1, <1>2, <1>3 DEF RecvInv, ProgressInv
  <1>5. NumberInv'
    BY <1>1, <1>2, <1>3 DEF RecvInv, NumberInv
  <1>6. PacketInv'
    BY <1>1, <1>3 DEF RecvInv, PacketInv
  <1>7. OackInv'
    BY <1>1, <1>2, <1>3 DEF RecvInv, OackInv
  <1> QED BY <1>4, <1>5, <1>6, <1>7 DEF RecvInv

\* The head of the loop: block becomes the number of the chunk awaited, and the OACK is
\* chosen for block 0 of the first round only.
LEMMA NextAckStep ==
    ASSUME RecvInv, TypeInv', NextAck
    PROVE  RecvInv'
  <1>1. /\ UNCHANGED <<cidx, cblock, woo, net, outcome>>
        /\ pc = "ack" /\ pc' = "send" /\ block' = NextBlock(block)
    BY DEF NextAck, client
  <1>2. Got' = Got /\ Got \in Nat /\ Numbered(Got, block)
    BY <1>1 DEF Got, RecvInv, TypeInv, NumberInv
  <1>3. ackbuf'.block = block
    BY DEF NextAck
  <1>4. ProgressInv'
    BY <1>1, <1>2 DEF RecvInv, ProgressInv
  <1>5. NumberInv'
    <2>1. Numbered(Got + 1, block')
      BY <1>1, <1>2, NextNumber
    <2> QED BY <1>1, <1>2, <1>3, <2>1 DEF RecvInv, NumberInv
  <1>6. PacketInv'
    BY <1>1, <1>2 DEF RecvInv, PacketInv
  <1>7. OackInv'
    <2>1. CASE block = 0 /\ oap
      <3>1. Got # 1
        <4>1. Numbered(1, 1) /\ 1 # 0
          BY FirstNumbers
        <4> QED BY <1>2, <2>1, <4>1, OneNumber
      <3>2. Got = 0
        BY <2>1, <3>1 DEF RecvInv, OackInv
      <3> QED BY <1>2, <3>2 DEF OackInv
    <2>2. CASE ~(block = 0 /\ oap)
      <3>1. oap' = FALSE /\ ackbuf' = [kind |-> "ack", block |-> block]
        BY <2>2, Zenon DEF NextAck, OapCleared
      <3> QED BY <3>1 DEF OackInv
    <2> QED BY <2>1, <2>2
  <1> QED BY <1>4, <1>5, <1>6, <1>7 DEF RecvInv

\* The steps that send an ACK.
LEMMA AckSteps ==
    ASSUME RecvInv, TypeInv', SendAck \/ SendFinalAck \/ DallyRecv
    PROVE  RecvInv'
  <1>1. /\ UNCHANGED <<block, oap, cidx, cblock, woo>>
        /\ net'.data = net.data
        /\ \/ pc = "send" /\ pc' = "wait" /\ UNCHANGED <<ackbuf, outcome>>
           \/ pc = "lastack" /\ pc' = "dally" /\ outcome' = "done"
           \/ pc' = "gone"
    BY DEF SendAck, SendFinalAck, DallyRecv, client, RecvInv, TypeInv, Nets
  <1>2. Got' = Got /\ Got \in Nat
    BY <1>1 DEF Got, RecvInv, TypeInv
  <1>3. PICK b : /\ Numbered(Got, b)
                 /\ net' = [net EXCEPT !.ack = @ \cup {[block |-> b, chunk |-> Got]}]
    BY DEF SendAck, SendFinalAck, DallyRecv, AckPacket, Got, RecvInv, NumberInv
  <1>4. net'.ack = net.ack \cup {[block |-> b, chunk |-> Got]}
    BY <1>3 DEF RecvInv, TypeInv, Nets
  <1>5. ProgressInv'
    BY <1>1, <1>2 DEF RecvInv, ProgressInv
  <1>6. NumberInv'
    BY <1>1, <1>2 DEF RecvInv, NumberInv
  <1>7. PacketInv'
    <2>1. Got + MaxLag + 1 >= cidx
      BY <1>2, PeriodIsLong DEF RecvInv, ProgressInv
    <2> QED BY <1>1, <1>2, <1>3, <1>4, <2>1, PeriodIsLong DEF RecvInv, PacketInv
  <1>8. OackInv'
    BY <1>1, <1>2 DEF RecvInv, OackInv
  <1> QED BY <1>5, <1>6, <1>7, <1>8 DEF RecvInv

\* The block awaited arrives.
LEMMA RecvDataStep ==
    ASSUME RecvInv, TypeInv', NEW d \in net.data, RecvData(d)
    PROVE  RecvInv'
  <1>1. /\ UNCHANGED <<block, oap, ackbuf, cidx, cblock, net, outcome>>
        /\ pc = "wait" /\ pc' = IF d.chunk < Chunks THEN "ack" ELSE "final"
        /\ DataMatches(d)
    BY DEF RecvData, client
  <1>2. Got' = Got + 1 /\ Got \in Nat
    BY DEF RecvData, Got, RecvInv, TypeInv
  <1>3. d.chunk = Got + 1 /\ cidx = Got + 1
    BY <1>1, DataIsNext
  <1>4. ProgressInv'
    BY <1>1, <1>2, <1>3, PeriodIsLong DEF RecvInv, ProgressInv
  <1>5. NumberInv'
    BY <1>1, <1>2 DEF RecvInv, NumberInv
  <1>6. PacketInv'
    <2>1. \A a \in net.ack : a.chunk \in 0 .. Got + 1
      BY <1>2 DEF RecvInv, PacketInv
    <2> QED BY <1>1, <1>2, <2>1 DEF RecvInv, PacketInv
  <1>7. OackInv'
    BY <1>1, <1>2 DEF RecvInv, OackInv
  <1> QED BY <1>4, <1>5, <1>6, <1>7 DEF RecvInv

\* The client has the ACK of its chunk and sends the next one.
LEMMA ClientAckedStep ==
    ASSUME RecvInv, TypeInv', NEW a \in net.ack, ClientAcked(a)
    PROVE  RecvInv'
  <1>1. UNCHANGED <<pc, block, oap, ackbuf, woo, outcome>> /\ a.block = cblock
    BY DEF ClientAcked, server
  <1>2. Got' = Got /\ Got \in Nat /\ cidx \in Nat /\ cblock \in BlockNos
    BY <1>1 DEF Got, RecvInv, TypeInv
  <1>3. Got = cidx /\ a.chunk = cidx
    BY <1>1, AckIsCurrent
  <1>4. OackInv'
    BY <1>1, <1>2 DEF RecvInv, OackInv
  <1>5. CASE cidx = Chunks
    <2>1. UNCHANGED <<cidx, cblock, net>>
      BY <1>5 DEF ClientAcked
    <2> QED BY <1>1, <1>2, <1>4, <2>1 DEF RecvInv, ProgressInv, NumberInv, PacketInv
  <1>6. CASE cidx # Chunks
    <2>1. cidx' = cidx + 1 /\ cblock' = ClientNext(cblock)
      BY <1>6 DEF ClientAcked
    <2>2. Numbered(cidx + 1, cblock')
      BY <1>2, <2>1, NextNumber, NextBlockWraps DEF ClientNext, RecvInv, NumberInv
    <2>3. /\ net'.data = Alive(net.data \cup {[block |-> cblock', chunk |-> cidx + 1]}, cidx + 1)
          /\ net'.ack = Alive(net.ack, cidx + 1)
      BY <1>6 DEF ClientAcked, RecvInv, TypeInv, Nets
    <2>4. ProgressInv'
      BY <1>1, <1>2, <1>3, <1>6, <2>1, PeriodIsLong DEF RecvInv, ProgressInv
    <2>5. NumberInv'
      BY <1>1, <1>2, <2>1, <2>2 DEF RecvInv, NumberInv
    <2>6. PacketInv'
      <3>1. ASSUME NEW d \in net'.data
            PROVE  /\ d.chunk \in 1 .. cidx' /\ Numbered(d.chunk, d.block)
                   /\ d.chunk + MaxLag >= cidx'
        <4>1. d \in net.data \/ d = [block |-> cblock', chunk |-> cidx + 1]
          BY <2>3 DEF Alive
        <4>2. d.chunk + MaxLag >= cidx + 1
          BY <2>3 DEF Alive
        <4>3. d.chunk \in 1 .. cidx + 1 /\ Numbered(d.chunk, d.block)
          BY <1>2, <2>2, <4>1 DEF RecvInv, PacketInv
        <4> QED BY <2>1, <4>2, <4>3
      <3>2. ASSUME NEW p \in net'.ack
            PROVE  /\ p.chunk \in 0 .. Got' /\ Numbered(p.chunk, p.block)
                   /\ p.chunk + MaxLag + 1 >= cidx'
        <4>1. p \in net.ack /\ p.chunk + MaxLag >= cidx + 1
          BY <2>3 DEF Alive
        <4> QED BY <1>2, <2>1, <4>1, PeriodIsLong DEF RecvInv, PacketInv
      <3> QED BY <3>1, <3>2 DEF PacketInv
    <2> QED BY <1>4, <2>4, <2>5, <2>6 DEF RecvInv
  <1> QED BY <1>5, <1>6

LEMMA RecvInvInit == Init => RecvInv
  <1> SUFFICES ASSUME Init PROVE RecvInv
    OBVIOUS
  <1>1. block = 0 /\ cblock = 0 /\ Got = 0 /\ cidx = 0
    BY DEF Init, Got
  <1>2. TypeInv
    <2>1. 0 \in BlockNos
      BY PeriodIsLong DEF BlockNos
    <2>2. WInit \in BufferSet
      BY DEF WInit, BufferSet
    <2>3. net \in Nets /\ woo \in [counted : Nat, ended : BOOLEAN]
      BY DEF Init, Nets
    <2>4. oap \in BOOLEAN /\ cdone \in BOOLEAN
      BY Zenon DEF Init
    <2>5. ackbuf \in [kind : {"ack", "oack"}, block : BlockNos]
      BY <2>1 DEF Init
    <2>6. disk \in Seq(Int)
      BY DEF Init
    <2> QED BY <2>1, <2>2, <2>3, <2>4, <2>5, <2>6 DEF Init, TypeInv
  <1>3. ProgressInv /\ NumberInv
    BY <1>1, FirstNumbers, PeriodIsLong DEF Init, ProgressInv, NumberInv
  <1>4. PacketInv /\ OackInv
    BY <1>1 DEF Init, PacketInv, OackInv
  <1> QED BY <1>2, <1>3, <1>4 DEF RecvInv

LEMMA RecvInvStep == RecvInv /\ [Next]_vars => RecvInv'
  <1> SUFFICES ASSUME RecvInv, [Next]_vars PROVE RecvInv'
    OBVIOUS
  <1>1. TypeInv'
    BY TypeStep DEF RecvInv
  <1> QED
    BY <1>1, QuietSteps, NextAckStep, AckSteps, RecvDataStep, ClientAckedStep
    DEF Next, ServerStep, DallyData, DallyStray

LEMMA RecvInvHolds == Spec => []RecvInv
  BY RecvInvInit, RecvInvStep, PTL DEF Spec

-----------------------------------------------------------------------------
(* The buffers and the file, as long as the disk takes what is written.     *)

\* The chunk received last waits in the other buffer; all before it are in the file.
Pending ==
    /\ bfs[1 - current].state = "full" /\ bfs[1 - current].chunk = Got
    /\ nextone = 1 - current /\ Len(disk) + 1 = Got

\* Every chunk received is in the file.
Flushed ==
    bfs[1 - current].state = "free" /\ nextone = current /\ Len(disk) = Got

BufferInv ==
    /\ bfs[current].state = "alloc"
    /\ pc \in {"ack", "send"} => Pending \/ Flushed
    /\ pc = "final" => Pending
    /\ pc \in {"wait", "lastack", "dally"} => Flushed

\* The file holds the first chunks, in order; a final ACK means that it holds them all.
FileInv ==
    /\ Len(disk) =< Chunks /\ \A i \in 1 .. Len(disk) : disk[i] = i
    /\ \A a \in net.ack : a.chunk = Chunks => Len(disk) = Chunks
    /\ cdone => Len(disk) = Chunks

DiskInv == BufferInv /\ FileInv

\* What the write of a buffer does: it appends the chunk that waits, if one waits.
LEMMA FlushStep ==
    ASSUME DiskFull = FALSE, RecvInv, bfs[current].state = "alloc", Pending \/ Flushed, Flush
    PROVE  /\ bfs'[1 - current].state = "free" /\ bfs'[current].state = "alloc"
           /\ nextone' = current
           /\ \/ Pending /\ disk' = Append(disk, Got)
              \/ Flushed /\ disk' = disk
           /\ Len(disk') = Got
  <1>1. PICK r \in WriteBehind(bfs, nextone, disk) :
          bfs' = r.bfs /\ nextone' = r.nextone /\ disk' = r.disk
    BY DEF Flush
  <1>2. /\ bfs \in BufferSet /\ current \in 0 .. 1 /\ nextone \in 0 .. 1 /\ disk \in Seq(Int)
        /\ Got \in Nat
    BY DEF RecvInv, TypeInv, Got
  <1>3. CASE Pending
    <2>1. Written(disk, bfs[nextone].chunk) = {Append(disk, Got)}
      BY <1>3 DEF Written, Pending
    <2>2. r = [bfs |-> [bfs EXCEPT ![nextone].state = "free"], nextone |-> 1 - nextone,
               disk |-> Append(disk, Got)]
      BY <1>1, <1>3, <2>1 DEF WriteBehind, Pending
    <2>3. nextone = 1 - current /\ Len(disk) + 1 = Got
      BY <1>3 DEF Pending
    <2>4. /\ bfs' = [bfs EXCEPT ![1 - current].state = "free"] /\ nextone' = current
          /\ disk' = Append(disk, Got)
      BY <1>1, <1>2, <2>2, <2>3
    <2>5. bfs'[1 - current].state = "free" /\ bfs'[current].state = "alloc"
      BY <1>2, <2>4 DEF BufferSet
    <2>6. Len(disk') = Got
      BY <1>2, <2>3, <2>4
    <2> QED BY <1>3, <2>4, <2>5, <2>6
  <1>4. CASE Flushed
    <2>1. r = [bfs |-> bfs, nextone |-> nextone, disk |-> disk]
      BY <1>1, <1>4 DEF WriteBehind, Flushed
    <2> QED BY <1>1, <1>4, <2>1 DEF Flushed
  <1> QED BY <1>3, <1>4

\* The file keeps its order when the chunk that waits is appended.
LEMMA AppendKeepsOrder ==
    ASSUME RecvInv, FileInv, Pending, disk' = Append(disk, Got), Got =< Chunks
    PROVE  /\ Len(disk') =< Chunks /\ \A i \in 1 .. Len(disk') : disk'[i] = i
           /\ Len(disk) < Chunks /\ Got = Len(disk) + 1
  <1>1. disk \in Seq(Int) /\ Got \in Nat /\ Len(disk) + 1 = Got
    BY DEF RecvInv, TypeInv, Got, Pending
  <1>2. Len(disk') = Got /\ \A i \in 1 .. Got : disk'[i] = IF i =< Len(disk) THEN disk[i] ELSE Got
    BY <1>1
  <1> QED BY <1>1, <1>2, PeriodIsLong DEF FileInv

\* The block that arrives takes the place of the one that was written before.
LEMMA WriteItStep ==
    ASSUME RecvInv, bfs[current].state = "alloc", Flushed, NEW chunk \in Int, WriteIt(chunk),
           chunk = Got + 1, Got' = Got + 1
    PROVE  Pending' /\ bfs'[current'].state = "alloc" /\ disk' = disk
  <1> DEFINE queued == [bfs EXCEPT ![current] = [state |-> "full", chunk |-> chunk]]
  <1>1. bfs \in BufferSet /\ current \in 0 .. 1 /\ disk \in Seq(Int) /\ Got \in Nat
    BY DEF RecvInv, TypeInv, Got
  <1>2. queued[1 - current].state = "free"
    BY <1>1 DEF Flushed, BufferSet
  <1>3. /\ bfs' = [queued EXCEPT ![1 - current].state = "alloc"] /\ nextone' = nextone
        /\ disk' = disk /\ current' = 1 - current
    <2> HIDE DEF queued
    <2>1. PICK r \in {[bfs |-> queued, nextone |-> nextone, disk |-> disk]} :
            /\ bfs' = [r.bfs EXCEPT ![1 - current].state = "alloc"]
            /\ nextone' = r.nextone /\ disk' = r.disk
      BY <1>2 DEF WriteIt, queued
    <2> QED BY <2>1 DEF WriteIt
  <1>4. bfs'[1 - current].state = "alloc" /\ bfs'[current] = [state |-> "full", chunk |-> chunk]
    BY <1>1, <1>3 DEF BufferSet
  <1>5. 1 - current' = current
    BY <1>1, <1>3
  <1> QED BY <1>1, <1>3, <1>4, <1>5 DEF Pending, Flushed

LEMMA DiskInvInit == Init => DiskInv
  <1> SUFFICES ASSUME Init PROVE DiskInv
    OBVIOUS
  <1>1. /\ bfs[0].state = "alloc" /\ bfs[1].state = "free" /\ current = 0 /\ nextone = 0
        /\ pc = "ack"
    BY DEF Init, WInit
  <1>2. disk = << >> /\ Len(disk) = 0 /\ Got = 0 /\ net.ack = {} /\ ~cdone
    BY DEF Init, Got
  <1>3. BufferInv
    BY <1>1, <1>2 DEF BufferInv, Flushed
  <1>4. FileInv
    BY <1>2, PeriodIsLong DEF FileInv
  <1> QED BY <1>3, <1>4 DEF DiskInv

LEMMA DiskInvStep ==
    ASSUME DiskFull = FALSE
    PROVE  RecvInv /\ DiskInv /\ [Next]_vars => DiskInv'
  <1> SUFFICES ASSUME RecvInv, DiskInv, [Next]_vars PROVE DiskInv'
    OBVIOUS
  <1>1. /\ Got \in Nat /\ Got =< Chunks /\ disk \in Seq(Int) /\ Chunks \in Nat
        /\ net \in Nets /\ current \in 0 .. 1 /\ bfs \in BufferSet
    BY PeriodIsLong DEF RecvInv, TypeInv, ProgressInv, Got
  <1>2. CASE SendAck \/ Finish
    <2>1. Flush /\ UNCHANGED <<current, cdone>> /\ woo'.counted = woo.counted
          /\ \/ SendAck /\ pc = "send" /\ pc' = "wait"
             \/ pc = "final" /\ pc' = "lastack" /\ net' = net
      BY <1>2 DEF SendAck, Finish, FinalFlush, client, RecvInv, TypeInv
    <2>2. bfs[current].state = "alloc" /\ (Pending \/ Flushed)
      BY <2>1 DEF DiskInv, BufferInv
    <2>3. Got' = Got
      BY <2>1 DEF Got
    <2>4. /\ bfs'[1 - current].state = "free" /\ bfs'[current].state = "alloc"
          /\ nextone' = current /\ Len(disk') = Got
          /\ (Pending /\ disk' = Append(disk, Got)) \/ disk' = disk
      BY <2>1, <2>2, FlushStep
    <2>5. BufferInv'
      BY <2>1, <2>3, <2>4 DEF BufferInv, Flushed
    <2>6. Len(disk') =< Chunks /\ \A i \in 1 .. Len(disk') : disk'[i] = i
      BY <1>1, <2>4, AppendKeepsOrder DEF DiskInv, FileInv
    <2>7. Len(disk) = Chunks => Len(disk') = Chunks
      BY <1>1, <2>4, AppendKeepsOrder DEF DiskInv
    <2>8. \A a \in net'.ack : a.chunk = Chunks => Len(disk') = Chunks
      <3>1. CASE SendAck
        <4>1. net'.ack = net.ack \cup {[block |-> ackbuf.block, chunk |-> Got]}
          BY <1>1, <3>1 DEF SendAck, Nets, AckPacket, Got
        <4>2. Got # Chunks
          BY <1>1, <3>1 DEF SendAck, RecvInv, ProgressInv
        <4> QED BY <2>7, <4>1, <4>2 DEF DiskInv, FileInv
      <3>2. CASE net' = net
        BY <2>7, <3>2 DEF DiskInv, FileInv
      <3> QED BY <2>1, <3>1, <3>2
    <2> QED BY <2>1, <2>5, <2>6, <2>7, <2>8 DEF DiskInv, FileInv
  <1>3. ASSUME NEW d \in net.data, RecvData(d) PROVE DiskInv'
    <2>1. /\ pc = "wait" /\ pc' \in {"ack", "final"} /\ DataMatches(d) /\ WriteIt(d.chunk)
          /\ UNCHANGED <<net, cdone>>
      BY <1>3 DEF RecvData, client
    <2>2. Got' = Got + 1 /\ d.chunk = Got + 1
      BY <1>3, <2>1, DataIsNext DEF RecvData, Got, RecvInv, TypeInv
    <2>3. bfs[current].state = "alloc" /\ Flushed
      BY <2>1 DEF DiskInv, BufferInv
    <2>4. Pending' /\ bfs'[current'].state = "alloc" /\ disk' = disk
      BY <1>1, <2>1, <2>2, <2>3, WriteItStep
    <2> QED BY <2>1, <2>4 DEF DiskInv, BufferInv, FileInv
  <1>4. ASSUME NEW d \in net.data, RecvOtherData(d) PROVE DiskInv'
    <2>1. /\ pc = "wait" /\ pc' \in {"wait", "send"}
          /\ UNCHANGED <<current, nextone, disk, woo, net, cdone>>
          /\ bfs' = [bfs EXCEPT ![current].chunk = d.chunk]
      BY <1>4 DEF RecvOtherData, client
    <2>2. bfs'[current].state = bfs[current].state /\ bfs'[1 - current] = bfs[1 - current]
      BY <1>1, <2>1 DEF BufferSet
    <2>3. Got' = Got
      BY <2>1 DEF Got
    <2> QED BY <2>1, <2>2, <2>3 DEF DiskInv, BufferInv, FileInv, Pending, Flushed
  <1>5. CASE SendFinalAck \/ DallyRecv
    <2>1. /\ UNCHANGED <<bfs, current, nextone, disk, woo, cdone>>
          /\ pc \in {"lastack", "dally"} /\ pc' \in {"dally", "gone"}
          /\ net'.ack = net.ack \cup {[block |-> block, chunk |-> Got]}
      BY <1>1, <1>5 DEF SendFinalAck, DallyRecv, AckPacket, Got, Nets, buffers, client
    <2>2. Got' = Got
      BY <2>1 DEF Got
    <2>3. Flushed
      BY <2>1 DEF DiskInv, BufferInv
    <2>4. BufferInv'
      BY <2>1, <2>2 DEF DiskInv, BufferInv, Flushed
    <2>5. FileInv'
      BY <2>1, <2>3 DEF DiskInv, FileInv, Flushed
    <2> QED BY <2>4, <2>5 DEF DiskInv
  <1>6. ASSUME NEW a \in net.ack, ClientAcked(a) PROVE DiskInv'
    <2>1. UNCHANGED <<pc, bfs, current, nextone, disk, woo>>
      BY <1>6 DEF ClientAcked, server, buffers
    <2>2. a.chunk = cidx
      BY <1>6, AckIsCurrent DEF ClientAcked
    <2>3. Got' = Got
      BY <2>1 DEF Got
    <2>4. BufferInv'
      BY <2>1, <2>3 DEF DiskInv, BufferInv, Pending, Flushed
    <2>5. \A p \in net'.ack : p \in net.ack
      BY <1>1, <1>6 DEF ClientAcked, Alive, Nets
    <2>6. cdone' => Len(disk) = Chunks
      <3>1. CASE cidx = Chunks
        BY <2>2, <3>1 DEF DiskInv, FileInv
      <3>2. CASE cidx # Chunks
        <4>1. cdone' = cdone
          BY <1>6, <3>2 DEF ClientAcked
        <4> QED BY <4>1 DEF DiskInv, FileInv
      <3> QED BY <3>1, <3>2
    <2> QED BY <2>1, <2>4, <2>5, <2>6 DEF DiskInv, FileInv
  <1>7. CASE \/ NextAck \/ RecvError \/ IoError \/ GiveUp \/ Elapse \/ Retransmit \/ ClientError
             \/ UNCHANGED vars
    <2>1. UNCHANGED <<bfs, current, nextone, disk, woo, cdone>> /\ net'.ack = net.ack
      BY <1>1, <1>7 DEF NextAck, RecvError, IoError, GiveUp, Abandon, Elapse, Retransmit,
                        ClientError, vars, server, client, buffers, Nets
    <2>2. \/ pc' = pc \/ pc' = "gone"
          \/ pc = "ack" /\ pc' = "send"
          \/ pc = "wait" /\ pc' = "send"
      BY <1>7 DEF NextAck, RecvError, IoError, GiveUp, Abandon, Elapse, Retransmit, ClientError,
                  vars, server
    <2>3. Got' = Got
      BY <2>1 DEF Got
    <2> QED BY <2>1, <2>2, <2>3 DEF DiskInv, BufferInv, FileInv, Pending, Flushed
  <1> QED
    BY <1>2, <1>3, <1>4, <1>5, <1>6, <1>7 DEF Next, ServerStep, Rexmit, DallyData, DallyStray

LEMMA DiskInvHolds ==
    ASSUME DiskFull = FALSE
    PROVE  Spec => []DiskInv
  BY DiskInvInit, DiskInvStep, RecvInvHolds, PTL DEF Spec

-----------------------------------------------------------------------------
(* Theorems.                                                                *)

\* The OACK is sent before the first block only, although its number, 0, comes round
\* again in a long file (tftpd.c:1715-1717); the disk has no part in it.
THEOREM OackOnlyFirstHolds == Spec => []OackOnlyFirst
  <1>1. RecvInv => OackOnlyFirst
    BY DEF RecvInv, OackInv, OackOnlyFirst, Got
  <1> QED BY <1>1, RecvInvHolds, PTL

\* When the child waits for a block, every block that it has acknowledged is written:
\* two buffers are enough, however often an ACK is repeated (tftpsubs.c:168-170).
THEOREM WaitFlushedHolds ==
    ASSUME DiskFull = FALSE
    PROVE  Spec => []WaitFlushed
  <1>1. DiskInv => WaitFlushed
    BY DEF DiskInv, BufferInv, Flushed, WaitFlushed, Got
  <1> QED BY <1>1, DiskInvHolds, PTL

\* A client that has the final ACK finds its whole file on the server's disk, as long as
\* no write fails; the run with a full disk shows that this is needed.
THEOREM DoneOnDiskHolds ==
    ASSUME DiskFull = FALSE
    PROVE  Spec => []DoneOnDisk
  <1>1. DiskInv => DoneOnDisk
    BY DEF DiskInv, FileInv, DoneOnDisk
  <1> QED BY <1>1, DiskInvHolds, PTL

\* A step of the upload is a step of FileTransfer, or leaves its variables alone.
LEMMA TransferStep ==
    ASSUME DiskFull = FALSE
    PROVE  RecvInv /\ DiskInv /\ [Next]_vars => [Transfer!Next]_<<disk, Verdict>>
  <1> SUFFICES ASSUME RecvInv, DiskInv, [Next]_vars
               PROVE  Transfer!Next \/ UNCHANGED <<disk, Verdict>>
    OBVIOUS
  <1>1. Got =< Chunks
    BY PeriodIsLong DEF RecvInv, TypeInv, ProgressInv, Got
  <1>2. CASE SendAck \/ Finish
    <2>1. Flush /\ bfs[current].state = "alloc" /\ (Pending \/ Flushed) /\ outcome' = outcome
      BY <1>2 DEF SendAck, Finish, FinalFlush, DiskInv, BufferInv
    <2>2. Verdict' = Verdict
      BY <2>1 DEF Verdict
    <2>3. (Pending /\ disk' = Append(disk, Got)) \/ disk' = disk
      BY <2>1, FlushStep
    <2>4. CASE Pending /\ disk' = Append(disk, Got)
      <3>1. Len(disk) < Chunks /\ disk' = Append(disk, Len(disk) + 1)
        BY <1>1, <2>4, AppendKeepsOrder DEF DiskInv
      <3> QED BY <2>2, <3>1 DEF Transfer!Next, Transfer!Deliver
    <2> QED BY <2>2, <2>3, <2>4
  <1>3. ASSUME NEW d \in net.data, RecvData(d) PROVE UNCHANGED <<disk, Verdict>>
    <2>1. pc = "wait" /\ DataMatches(d) /\ WriteIt(d.chunk) /\ outcome' = outcome
      BY <1>3 DEF RecvData
    <2>2. Got' = Got + 1 /\ d.chunk = Got + 1 /\ d.chunk \in Int
      BY <1>3, <2>1, DataIsNext DEF RecvData, Got, RecvInv, TypeInv
    <2>3. disk' = disk
      BY <2>1, <2>2, WriteItStep DEF DiskInv, BufferInv
    <2> QED BY <2>1, <2>3 DEF Verdict
  <1>4. CASE SendFinalAck
    <2>1. outcome = "running" /\ outcome' = "done" /\ disk' = disk /\ Len(disk) = Chunks
      BY <1>4 DEF SendFinalAck, RecvInv, ProgressInv, DiskInv, BufferInv, Flushed
    <2>2. Verdict = "running" /\ Verdict' = "complete"
      BY <2>1 DEF Verdict
    <2> QED BY <2>1, <2>2 DEF Transfer!Next, Transfer!Complete
  <1>5. CASE RecvError \/ IoError \/ GiveUp
    <2>1. /\ disk' = disk
          /\ \/ outcome' = outcome
             \/ outcome = "running" /\ outcome' \in {"abort", "timeout"}
      BY <1>5 DEF RecvError, IoError, GiveUp, Abandon
    <2>2. CASE outcome' = outcome
      BY <2>1, <2>2 DEF Verdict
    <2>3. CASE outcome = "running" /\ outcome' \in {"abort", "timeout"}
      <3>1. Verdict = "running" /\ Verdict' = "failed"
        BY <2>3 DEF Verdict
      <3> QED BY <2>1, <3>1 DEF Transfer!Next, Transfer!Fail
    <2> QED BY <2>1, <2>2, <2>3
  <1>6. CASE UNCHANGED vars \/ NextAck \/ Rexmit \/ DallyRecv \/ Elapse \/ Retransmit \/ ClientError
             \/ (\E a \in net.ack : ClientAcked(a))
    <2>1. disk' = disk /\ outcome' = outcome
      BY <1>6 DEF vars, NextAck, Rexmit, RecvOtherData, DallyRecv, Elapse, Retransmit, ClientError,
                  ClientAcked, server
    <2> QED BY <2>1 DEF Verdict
  <1> QED
    BY <1>2, <1>3, <1>4, <1>5, <1>6 DEF Next, ServerStep, DallyData, DallyStray

\* tftp_recvfile implements FileTransfer as long as no write fails: however packets are
\* lost, repeated and reordered, the file grows by the chunks in order, each once, and the
\* final ACK (tftpd.c:1765-1774) leaves only when the whole file is written.
THEOREM RecvImplementsTransfer ==
    ASSUME DiskFull = FALSE
    PROVE  Spec => ImplementsTransfer
  <1>1. Init => Transfer!Init
    BY DEF Init, Transfer!Init, Verdict
  <1> QED
    BY <1>1, TransferStep, RecvInvHolds, DiskInvHolds, PTL
    DEF Spec, ImplementsTransfer, Transfer!Spec

=============================================================================
