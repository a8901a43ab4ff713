------------------------------ MODULE RecvFile ------------------------------
(***************************************************************************)
(* A child that serves a write request: tftp_recvfile, recv_time and timer *)
(* (tftpd.c), with the two write-behind buffers of tftpsubs.c, against a   *)
(* client and a network that loses, repeats and reorders packets.  Packets *)
(* are as in SendFile; an ACK carries the last chunk it acknowledges.      *)
(***************************************************************************)
EXTENDS Tftp, Integers, Sequences

CONSTANTS
    Stray,      \* bound: packets that the client sends to no purpose
    DiskFull    \* write may fail

VARIABLES
    pc,         \* where tftp_recvfile is
    block,      \* block: the number of the DATA packet awaited
    oap,        \* oap # NULL: the OACK is still to be sent
    ackbuf,     \* ackbuf: the packet that send_ack sends
    timeout, r_timeout,
    bfs,        \* bfs: state and content of the two buffers
    current, nextone,
    disk,       \* the chunks that are in the file
    outcome,    \* how the transfer ended
    woo,        \* what the slot was told: chunks counted and END
    net,        \* packets in flight: [data, ack, error]
    strays,     \* stray packets left
    cidx, cblock, \* client: the chunk it sends and its number
    cdone       \* client: it has the final ACK

buffers == <<bfs, current, nextone>>
client == <<cidx, cblock, cdone>>
vars == <<pc, block, oap, ackbuf, timeout, r_timeout, buffers, disk, outcome, woo,
          net, strays, client>>

-----------------------------------------------------------------------------
(* The write-behind buffers.                                                *)

\* rw_init(0)
WInit == [i \in 0 .. 1 |-> [state |-> IF i = 0 THEN "alloc" ELSE "free", chunk |-> 0]]

\* What write may do with a chunk: nobody looks at its result.
Written(file, chunk) == {Append(file, chunk)} \cup (IF DiskFull THEN {file} ELSE {})

\* Faulty variant: the turn does not pass to the other buffer.
WriteBehindStuck(bufs, n, file) ==
    IF bufs[n].state = "full"
      THEN {[bfs |-> [bufs EXCEPT ![n].state = "free"], nextone |-> n, disk |-> f] :
              f \in Written(file, bufs[n].chunk)}
      ELSE {[bfs |-> bufs, nextone |-> n, disk |-> file]}

\* write_behind on a table of buffers: what may become of it and of the file.
WriteBehind(bufs, n, file) ==
    IF bufs[n].state = "full"
      THEN {[bfs |-> [bufs EXCEPT ![n].state = "free"], nextone |-> 1 - n, disk |-> f] :
              f \in Written(file, bufs[n].chunk)}
      ELSE {[bfs |-> bufs, nextone |-> n, disk |-> file]}

Flush ==
    \E r \in WriteBehind(bfs, nextone, disk) :
        bfs' = r.bfs /\ nextone' = r.nextone /\ disk' = r.disk

\* writeit: queue the buffer just received and make room in the other one.
WriteIt(chunk) ==
    LET queued == [bfs EXCEPT ![current] = [state |-> "full", chunk |-> chunk]]
        other == 1 - current
    IN  /\ \E r \in IF queued[other].state = "free"
                      THEN {[bfs |-> queued, nextone |-> nextone, disk |-> disk]}
                      ELSE WriteBehind(queued, nextone, disk) :
             /\ bfs' = [r.bfs EXCEPT ![other].state = "alloc"]
             /\ nextone' = r.nextone /\ disk' = r.disk
        /\ current' = other

-----------------------------------------------------------------------------
(* The server.                                                              *)

\* Faulty variant: the options are kept for the next block 0.
OapKept == oap

\* A regular ACK means that the OACK has arrived.
OapCleared == FALSE

\* The head of the loop: choose the packet, count the block.
NextAck ==
    /\ pc = "ack"
    /\ IF block = 0 /\ oap
         THEN ackbuf' = [kind |-> "oack", block |-> 0] /\ UNCHANGED oap
         ELSE ackbuf' = [kind |-> "ack", block |-> block] /\ oap' = OapCleared
    /\ block' = NextBlock(block)
    /\ timeout' = 1
    /\ pc' = "send"
    /\ UNCHANGED <<r_timeout, buffers, disk, outcome, woo, net, strays, client>>

\* The packet in ackbuf as the client sees it.
AckPacket(b) == [block |-> b, chunk |-> woo.counted]

\* send_ack: the buffer just received is written after its ACK has left.
SendAck ==
    /\ pc = "send"
    /\ net' = [net EXCEPT !.ack = @ \cup {AckPacket(ackbuf.block)}]
    /\ r_timeout' = timeout
    /\ Flush
    /\ pc' = "wait"
    /\ UNCHANGED <<block, oap, ackbuf, timeout, current, outcome, woo, strays, client>>

\* Faulty variant: every DATA packet is taken for the one awaited.
DataMatchesAny(d) == TRUE

DataMatches(d) == d.block = block

\* dp_block == (block - 1), in int: no number comes before 0 or rollover_val.
RexmitAsked(d) == d.block = block - 1

RecvData(d) ==
    /\ pc = "wait" /\ d \in net.data /\ DataMatches(d)
    /\ WriteIt(d.chunk)
    /\ woo' = [woo EXCEPT !.counted = @ + 1]
    /\ pc' = IF d.chunk < Chunks THEN "ack" ELSE "final"
    /\ UNCHANGED <<block, oap, ackbuf, timeout, r_timeout, outcome, net,
                   strays, client>>

\* Another DATA packet lands in the receive buffer; the block before asks for its
\* ACK again, without a new timeout.
RecvOtherData(d) ==
    /\ pc = "wait" /\ d \in net.data /\ ~DataMatches(d)
    /\ bfs' = [bfs EXCEPT ![current].chunk = d.chunk]
    /\ pc' = IF RexmitAsked(d) THEN "send" ELSE "wait"
    /\ UNCHANGED <<block, oap, ackbuf, timeout, r_timeout, current, nextone, disk, outcome,
                   woo, net, strays, client>>

\* Faulty variant: the final ACK leaves before the last buffer is written.
FinalFlushSkipped == UNCHANGED <<bfs, nextone, disk>>

\* The last write_behind, before fclose.
FinalFlush == Flush

\* Write, close, tell the slot.
Finish ==
    /\ pc = "final"
    /\ FinalFlush
    /\ woo' = [woo EXCEPT !.ended = TRUE]
    /\ pc' = "lastack"
    /\ UNCHANGED <<block, oap, ackbuf, timeout, r_timeout, current, outcome, net, strays, client>>

\* The final ACK; whether send succeeds is not looked at.
SendFinalAck ==
    /\ pc = "lastack"
    /\ ackbuf' = [kind |-> "ack", block |-> block]
    /\ net' = [net EXCEPT !.ack = @ \cup {AckPacket(block)}]
    /\ outcome' = "done"
    /\ r_timeout' = timeout
    /\ pc' = "dally"
    /\ UNCHANGED <<block, oap, timeout, buffers, disk, woo, strays, client>>

\* Whatever arrives now, dp_opcode and dp_block are those of the last DATA packet.
DallyRecv ==
    /\ pc = "dally"
    /\ net' = [net EXCEPT !.ack = @ \cup {AckPacket(block)}]
    /\ pc' = "gone"
    /\ UNCHANGED <<block, oap, ackbuf, timeout, r_timeout, buffers, disk, outcome, woo,
                   client>>

DallyData == (\E d \in net.data : d.block = block) /\ DallyRecv /\ UNCHANGED strays

DallyStray == strays > 0 /\ DallyRecv /\ strays' = strays - 1

\* abort: no fclose, no END, no write of what is still buffered.
Abandon(how) ==
    /\ pc' = "gone"
    /\ outcome' = IF outcome = "running" THEN how ELSE outcome
    /\ UNCHANGED <<block, oap, ackbuf, timeout, r_timeout, buffers, disk, woo, net, strays, client>>

RecvError == pc = "wait" /\ net.error /\ Abandon("abort")

IoError == pc \in {"send", "wait", "dally"} /\ Abandon("abort")

\* Faulty variant: no timeout is set for the wait after the final ACK.
ElapseNotDallying ==
    /\ pc = "wait" /\ r_timeout > 0
    /\ r_timeout' = r_timeout - 1
    /\ UNCHANGED <<pc, block, oap, ackbuf, timeout, buffers, disk, outcome, woo, net, strays, client>>

Elapse ==
    /\ pc \in {"wait", "dally"} /\ r_timeout > 0
    /\ r_timeout' = r_timeout - 1
    /\ UNCHANGED <<pc, block, oap, ackbuf, timeout, buffers, disk, outcome, woo, net, strays, client>>

\* timer, with timeout_quit while the child dallies.
Retransmit ==
    /\ pc = "wait" /\ r_timeout = 0 /\ ~GivesUp(Backoff(timeout))
    /\ timeout' = Backoff(timeout)
    /\ pc' = "send"
    /\ UNCHANGED <<block, oap, ackbuf, r_timeout, buffers, disk, outcome, woo, net,
                   strays, client>>

GiveUp ==
    /\ pc \in {"wait", "dally"} /\ r_timeout = 0
    /\ GivesUp(Backoff(timeout)) \/ pc = "dally"
    /\ Abandon("timeout")

-----------------------------------------------------------------------------
(* The client (external): sends the next block when the last one is          *)
(* acknowledged, and ignores other ACKs.                                    *)

server == <<pc, block, oap, ackbuf, timeout, r_timeout, buffers, disk, outcome, woo,
            strays>>

\* The client's own rule for the block after b.
ClientNext(b) == IF b = BlockMod - 1 THEN Rollover ELSE b + 1

ClientAcked(a) ==
    /\ a \in net.ack /\ a.block = cblock /\ ~cdone
    /\ IF cidx = Chunks
         THEN cdone' = TRUE /\ UNCHANGED <<cidx, cblock, net>>
         ELSE /\ cidx' = cidx + 1
              /\ cblock' = ClientNext(cblock)
              /\ net' = [net EXCEPT
                    !.data = Alive(@ \cup {[block |-> ClientNext(cblock), chunk |-> cidx + 1]},
                                   cidx + 1),
                    !.ack = Alive(@, cidx + 1)]
              /\ UNCHANGED cdone
    /\ UNCHANGED server

ClientError ==
    /\ net' = [net EXCEPT !.error = TRUE]
    /\ UNCHANGED <<server, client>>

-----------------------------------------------------------------------------

Init ==
    /\ pc = "ack" /\ block = 0
    /\ oap \in BOOLEAN \* whether do_opt has put options in ackbuf
    /\ ackbuf = [kind |-> "oack", block |-> 0]
    /\ timeout = 1 /\ r_timeout = 0
    /\ bfs = WInit /\ current = 0 /\ nextone = 0
    /\ disk = << >>
    /\ outcome = "running" /\ woo = [counted |-> 0, ended |-> FALSE]
    /\ net = [data |-> {}, ack |-> {}, error |-> FALSE]
    /\ strays = Stray
    /\ cidx = 0 /\ cblock = 0 /\ cdone = FALSE

Rexmit == \E d \in net.data : RecvOtherData(d)

ServerStep ==
    \/ NextAck \/ SendAck
    \/ (\E d \in net.data : RecvData(d)) \/ Rexmit
    \/ Finish \/ SendFinalAck \/ DallyData \/ DallyStray
    \/ RecvError \/ IoError \/ Elapse \/ Retransmit \/ GiveUp

Next == ServerStep \/ (\E a \in net.ack : ClientAcked(a)) \/ ClientError

Spec == Init /\ [][Next]_vars

\* The child runs and its clock advances; nothing is asked of the client.
FairSpec ==
    /\ Spec
    /\ WF_vars(NextAck \/ SendAck \/ Finish \/ SendFinalAck)
    /\ WF_vars(Elapse) /\ WF_vars(Retransmit \/ GiveUp)

-----------------------------------------------------------------------------
(* Properties.                                                              *)

\* Every variable has its type.
TypeOK ==
    /\ pc \in {"ack", "send", "wait", "final", "lastack", "dally", "gone"}
    /\ block \in BlockNos /\ cblock \in BlockNos
    /\ oap \in BOOLEAN
    /\ ackbuf \in [kind : {"ack", "oack"}, block : BlockNos]
    /\ timeout \in 1 .. MaxTimeout /\ r_timeout \in 0 .. MaxTimeout
    /\ bfs \in [0 .. 1 -> [state : {"alloc", "free", "full"}, chunk : 0 .. Chunks]]
    /\ current \in 0 .. 1 /\ nextone \in 0 .. 1
    /\ disk \in Seq(1 .. Chunks)
    /\ outcome \in {"running", "done", "abort", "timeout"}
    /\ woo \in [counted : 0 .. Chunks, ended : BOOLEAN]
    /\ strays \in 0 .. Stray
    /\ cidx \in 0 .. Chunks /\ cdone \in BOOLEAN

\* The verdict of tftp_recvfile.
Verdict ==
    CASE outcome = "running" -> "running"
      [] outcome = "done" -> "complete"
      [] OTHER -> "failed"

Transfer == INSTANCE FileTransfer WITH received <- disk, status <- Verdict

\* The transfer implements FileTransfer: the file grows by the chunks in order,
\* each once, and the server ends with its final ACK only when it has them all.
ImplementsTransfer == Transfer!Spec

\* A client that has the final ACK finds its whole file on the server's disk,
\* in spite of the ACKs that leave before their block is written (tftpd.c:1725).
DoneOnDisk == cdone => Len(disk) = Chunks

\* When the child waits for a block, every block it has acknowledged is written
\* and the buffer it receives into holds nothing else (tftpsubs.c:168-170).
WaitFlushed ==
    pc = "wait" => Len(disk) = woo.counted /\ bfs[current].state = "alloc"

\* "we won't try to send another OACK when the block number wraps back to 0"
\* (tftpd.c:1715-1717).
OackOnlyFirst == pc \in {"send", "wait"} /\ ackbuf.kind = "oack" => woo.counted = 0

\* The child ends, unless the client repeats the block before the awaited one for ever.
TerminatesUnlessAsked ==
    <>[][~\E d \in net.data : RexmitAsked(d) /\ RecvOtherData(d)]_vars => <>(pc = "gone")

=============================================================================
