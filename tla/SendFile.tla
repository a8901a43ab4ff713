------------------------------ MODULE SendFile ------------------------------
(***************************************************************************)
(* A child that serves a read request: tftp_sendfile, recv_time and timer  *)
(* (tftpd.c), with the two read-ahead buffers of tftpsubs.c, against a     *)
(* client and a network that loses, repeats and reorders packets.          *)
(*                                                                         *)
(* A packet carries, besides its block number, the chunk that it is about, *)
(* for the properties and for its lifetime.  A packet stays in flight      *)
(* until it is MaxLag blocks old: never delivering it is a loss, delivering *)
(* it twice a duplication.                                                 *)
(***************************************************************************)
EXTENDS Tftp, Integers, Sequences

VARIABLES
    pc,         \* where tftp_sendfile is
    block,      \* block: the number of the DATA packet
    size,       \* size: the chunk that readit returned, Chunks is the short one
    timeout,    \* timeout: the current interval
    r_timeout,  \* r_timeout: what is left of it
    bfs,        \* bfs: the chunk in each buffer, or its state
    current, nextone,
    fpos,       \* the next chunk of the file
    ackbuf,     \* ackbuf: what is in it, the OACK at first
    outcome,    \* how the transfer ended
    woo,        \* what the slot was told: chunks counted and END
    sends,      \* attempts to send the current DATA packet
    net,        \* packets in flight: [data, ack, oack, error]
    cblock,     \* client: number of the last block it took
    received    \* client: chunks it has, in order

buffers == <<bfs, current, nextone, fpos>>
client == <<cblock, received>>
vars == <<pc, block, size, timeout, r_timeout, buffers, ackbuf, outcome, woo, sends,
          net, client>>

BF_ALLOC == -3
BF_FREE == -2
BF_ERROR == -1

-----------------------------------------------------------------------------
(* The read-ahead buffers.                                                  *)

\* Faulty variant: a buffer that is still in use is filled again.
ReadAheadAlways(bufs, n, pos, got) ==
    [bfs |-> [bufs EXCEPT ![n] = got], nextone |-> 1 - n,
     fpos |-> IF got = pos THEN pos + 1 ELSE pos]

\* read_ahead: fill buffer n, unless it is in use, with what read returns.
ReadAhead(bufs, n, pos, got) ==
    IF bufs[n] = BF_FREE
      THEN [bfs |-> [bufs EXCEPT ![n] = got], nextone |-> 1 - n,
            fpos |-> IF got = pos THEN pos + 1 ELSE pos]
      ELSE [bfs |-> bufs, nextone |-> n, fpos |-> pos]

\* What read may return at pos; past the end it is an empty chunk.
ReadResults(pos) == {pos, BF_ERROR}

\* rw_init(1)
RInit ==
    /\ bfs' = [i \in 0 .. 1 |-> IF i = 0 THEN BF_ALLOC ELSE BF_FREE]
    /\ current' = 0 /\ nextone' = 1 /\ fpos' = 1

-----------------------------------------------------------------------------
(* The server.                                                              *)

\* Leave the transfer loop; the slot hears of END except after exit(0).
End(how) ==
    /\ pc' = "gone" /\ outcome' = how
    /\ woo' = [woo EXCEPT !.ended = how # "timeout"]
    /\ UNCHANGED <<block, size, timeout, r_timeout, buffers, ackbuf, sends, client>>

\* oack: the packet sent is whatever ackbuf holds by now.
SendOack ==
    /\ pc = "oack"
    /\ net' = [net EXCEPT !.oack = @ \/ ackbuf = "oack"]
    /\ r_timeout' = timeout
    /\ pc' = "oackwait"
    /\ UNCHANGED <<block, size, timeout, buffers, ackbuf, outcome, woo, sends, client>>

\* ACK 0 starts the transfer.
RecvOackAck(a) ==
    /\ pc = "oackwait" /\ a \in net.ack /\ a.block = 0
    /\ ackbuf' = "ack"
    /\ pc' = "read" /\ RInit
    /\ UNCHANGED <<block, size, timeout, r_timeout, outcome, woo, sends, net, client>>

\* An ACK of any other block, from a client that does not keep to the protocol: goto oack,
\* which starts the interval again and counts nothing.
RecvOtherOackAck ==
    /\ pc = "oackwait"
    /\ ackbuf' = "stray"
    /\ pc' = "oack"
    /\ UNCHANGED <<block, size, timeout, r_timeout, buffers, outcome, woo, sends, net, client>>

\* A packet of another kind is overlooked, and what is left of the interval runs on.
RecvOtherKind ==
    /\ pc = "oackwait"
    /\ ackbuf' = "stray"
    /\ UNCHANGED <<pc, block, size, timeout, r_timeout, buffers, outcome, woo, sends, net,
                   client>>

\* readit, and the header of the new packet.
ReadIt ==
    /\ pc = "read"
    /\ \E got \in ReadResults(fpos) :
         LET freed == [bfs EXCEPT ![current] = BF_FREE]
             other == 1 - current
             r == IF freed[other] = BF_FREE
                    THEN ReadAhead(freed, nextone, fpos, got)
                    ELSE [bfs |-> freed, nextone |-> nextone, fpos |-> fpos]
         IN  /\ bfs' = r.bfs /\ nextone' = r.nextone /\ fpos' = r.fpos
             /\ current' = other
             /\ size' = r.bfs[other]
    /\ pc' = IF size' = BF_ERROR THEN "nak" ELSE "send"
    /\ timeout' = 1
    /\ sends' = 0
    /\ UNCHANGED <<block, r_timeout, ackbuf, outcome, woo, net, client>>

\* nak(errno + 100): the client is told, the loop is left.
Nak ==
    /\ pc = "nak"
    /\ End("abort")
    /\ UNCHANGED net

\* send DATA, then read ahead.
SendData ==
    /\ pc = "send"
    /\ net' = [net EXCEPT !.data = @ \cup {[block |-> block, chunk |-> bfs[current]]}]
    /\ r_timeout' = timeout
    /\ sends' = sends + 1
    /\ \E got \in ReadResults(fpos) :
         LET r == ReadAhead(bfs, nextone, fpos, got)
         IN  bfs' = r.bfs /\ nextone' = r.nextone /\ fpos' = r.fpos
    /\ pc' = "wait"
    /\ UNCHANGED <<block, size, timeout, current, ackbuf, outcome, woo, client>>

\* Faulty variant: an ACK of another block restarts the interval.
LeftAfterOtherAckRestarted == timeout

\* An ACK of another block leaves the interval as recv_time left it; the input
\* queue is left alone too, as synchnet's select looks at no descriptor.
LeftAfterOtherAck == r_timeout

\* Faulty variant: any ACK is taken for the one awaited.
AckMatchesAny(a) == TRUE

AckMatches(a) == a.block = block

RecvAck(a) ==
    /\ pc = "wait" /\ a \in net.ack
    /\ ackbuf' = "ack"
    /\ IF AckMatches(a)
         THEN /\ woo' = [woo EXCEPT !.counted = @ + 1, !.ended = size = Chunks]
              /\ block' = NextBlock(block)
              /\ pc' = IF size < Chunks THEN "read" ELSE "gone"
              /\ outcome' = IF size < Chunks THEN outcome ELSE "done"
              /\ net' = [net EXCEPT !.data = Alive(@, size + 1), !.ack = Alive(@, size + 1)]
              /\ UNCHANGED r_timeout
         ELSE /\ r_timeout' = LeftAfterOtherAck
              /\ UNCHANGED <<woo, block, pc, outcome, net>>
    /\ UNCHANGED <<size, timeout, buffers, sends, client>>

\* An ERROR packet ends the transfer.
RecvError ==
    /\ pc \in {"oackwait", "wait"} /\ net.error
    /\ End("abort")
    /\ UNCHANGED net

\* So does a failure of send or recv.
IoError ==
    /\ pc \in {"oack", "oackwait", "send", "wait"}
    /\ End("abort")
    /\ UNCHANGED net

\* select waits.
Elapse ==
    /\ pc \in {"oackwait", "wait"} /\ r_timeout > 0
    /\ r_timeout' = r_timeout - 1
    /\ UNCHANGED <<pc, block, size, timeout, buffers, ackbuf, outcome, woo, sends, net,
                   client>>

\* select returns 0: timer.
Retransmit ==
    /\ pc \in {"oackwait", "wait"} /\ r_timeout = 0
    /\ ~GivesUp(Backoff(timeout))
    /\ timeout' = Backoff(timeout)
    /\ pc' = IF pc = "wait" THEN "send" ELSE "oack"
    /\ UNCHANGED <<block, size, r_timeout, buffers, ackbuf, outcome, woo, sends, net,
                   client>>

GiveUp ==
    /\ pc \in {"oackwait", "wait"} /\ r_timeout = 0
    /\ GivesUp(Backoff(timeout))
    /\ End("timeout")
    /\ UNCHANGED net

-----------------------------------------------------------------------------
(* The client (external): takes blocks in order and acknowledges, again      *)
(* when a block comes twice.                                                *)

server == <<pc, block, size, timeout, r_timeout, buffers, ackbuf, outcome, woo, sends>>

\* The client's own rule for the block after b.
ClientNext(b) == IF b = BlockMod - 1 THEN Rollover ELSE b + 1

ClientOack ==
    /\ net.oack /\ received = << >>
    /\ net' = [net EXCEPT !.ack = @ \cup {[block |-> 0, chunk |-> 0]}]
    /\ UNCHANGED <<server, client>>

ClientTakes(d) ==
    /\ d \in net.data /\ Len(received) < Chunks /\ d.block = ClientNext(cblock)
    /\ received' = Append(received, d.chunk)
    /\ cblock' = d.block
    /\ net' = [net EXCEPT !.ack = @ \cup {[block |-> d.block, chunk |-> Len(received) + 1]}]
    /\ UNCHANGED server

ClientRepeats(d) ==
    /\ d \in net.data /\ received # << >> /\ d.block = cblock
    /\ net' = [net EXCEPT !.ack = @ \cup {[block |-> cblock, chunk |-> Len(received)]}]
    /\ UNCHANGED <<server, client>>

ClientError ==
    /\ net' = [net EXCEPT !.error = TRUE]
    /\ UNCHANGED <<server, client>>

-----------------------------------------------------------------------------

Init ==
    /\ pc \in {"oack", "read"} \* whether do_opt has put options in ackbuf
    /\ block = 1 /\ size = BF_ALLOC
    /\ timeout = 1 /\ r_timeout = 0
    /\ bfs = [i \in 0 .. 1 |-> IF i = 0 THEN BF_ALLOC ELSE BF_FREE]
    /\ current = 0 /\ nextone = 1 /\ fpos = 1
    /\ ackbuf = "oack"
    /\ outcome = "running" /\ woo = [counted |-> 0, ended |-> FALSE]
    /\ sends = 0
    /\ net = [data |-> {}, ack |-> {}, oack |-> FALSE, error |-> FALSE]
    /\ cblock = 0 /\ received = << >>

ServerStep ==
    \/ SendOack \/ (\E a \in net.ack : RecvOackAck(a)) \/ RecvOtherOackAck \/ RecvOtherKind
    \/ ReadIt \/ Nak \/ SendData
    \/ (\E a \in net.ack : RecvAck(a))
    \/ RecvError \/ IoError \/ Elapse \/ Retransmit \/ GiveUp

ClientStep ==
    \/ ClientOack
    \/ (\E d \in net.data : ClientTakes(d) \/ ClientRepeats(d))
    \/ ClientError

Next == ServerStep \/ ClientStep

Spec == Init /\ [][Next]_vars

\* The child runs and its clock advances; nothing is asked of the client.
Fairness ==
    /\ WF_vars(SendOack) /\ WF_vars(ReadIt \/ Nak \/ SendData)
    /\ WF_vars(Elapse) /\ WF_vars(Retransmit \/ GiveUp)

FairSpec == Spec /\ Fairness

-----------------------------------------------------------------------------
(* Properties.                                                              *)

\* Every variable has its type.
TypeOK ==
    /\ pc \in {"oack", "oackwait", "read", "nak", "send", "wait", "gone"}
    /\ block \in BlockNos /\ cblock \in BlockNos
    /\ size \in BF_ALLOC .. Chunks
    /\ timeout \in 1 .. MaxTimeout /\ r_timeout \in 0 .. MaxTimeout
    /\ bfs \in [0 .. 1 -> BF_ALLOC .. Chunks + 1]
    /\ current \in 0 .. 1 /\ nextone \in 0 .. 1 /\ fpos \in 1 .. Chunks + 2
    /\ ackbuf \in {"oack", "ack", "stray"}
    /\ outcome \in {"running", "done", "abort", "timeout"}
    /\ woo \in [counted : 0 .. Chunks, ended : BOOLEAN]
    /\ sends \in 0 .. Tries
    /\ received \in Seq(Nat)

\* The verdict of tftp_sendfile.
Verdict ==
    CASE outcome = "running" -> "running"
      [] outcome = "done" -> "complete"
      [] OTHER -> "failed"

Transfer == INSTANCE FileTransfer WITH received <- received, status <- Verdict

\* The transfer implements FileTransfer: chunks arrive in order, each once, and
\* tftp_sendfile leaves its loop at size # segsize only when all have arrived.
ImplementsTransfer == Transfer!Spec

\* "Number of attempts to send each packet" (tftpd.c:81), of each DATA packet: the OACK is
\* sent again for every ACK of another block, and nothing counts that.
BoundedAttempts == sends <= Tries

\* The buffer that dp points to holds the same chunk for as long as it may be
\* sent again, whatever read_ahead does meanwhile (tftpsubs.c:126).
ResentIntact ==
    pc \in {"send", "wait"} => bfs[current] = size /\ size = woo.counted + 1

\* Server and client number the blocks alike, also past 65535: the server sends
\* the block that the client awaits, or the one it has just taken.
NumbersInStep ==
    pc \in {"send", "wait"} =>
        block = IF Len(received) = woo.counted THEN ClientNext(cblock) ELSE cblock

\* The child ends, also when the client repeats old ACKs of DATA blocks for ever, unless
\* ACKs of another block than 0 keep coming while the OACK is out: each of them starts the
\* interval again (tftpd.c:1595, 1615-1620), so that timer never gives up.
TerminatesUnlessOackUndone == <>[][~RecvOtherOackAck]_vars => <>(pc = "gone")

=============================================================================
