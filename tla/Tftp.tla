------------------------------- MODULE Tftp -------------------------------
(***************************************************************************)
(* What tftp_sendfile and tftp_recvfile share (tftpd.c): block numbers and *)
(* the retransmission timer.                                               *)
(*                                                                         *)
(* A file is Chunks blocks long: chunks 1 .. Chunks - 1 fill a block and   *)
(* the last one is short, possibly empty.  Time is counted in units of     *)
(* rexmtval.                                                               *)
(***************************************************************************)
EXTENDS Naturals

CONSTANTS
    Chunks,     \* blocks in the file, the short one included
    BlockMod,   \* block numbers are u_short: 65536
    Rollover,   \* rollover_val: the number after BlockMod - 1
    Tries,      \* TRIES: attempts to send each packet
    MaxLag      \* bound: a packet this many blocks old is no longer delivered

\* A late packet dies before its block number comes round again.
ASSUME TftpAssumption ==
    /\ Chunks \in Nat \ {0}
    /\ BlockMod \in Nat /\ Rollover \in Nat /\ MaxLag \in Nat
    /\ Rollover + MaxLag + 1 < BlockMod
    /\ Tries \in Nat \ {0}

BlockNos == 0 .. BlockMod - 1

\* Faulty variant: the block number wraps to 0 whatever was negotiated.
NextBlockNoRollover(b) == (b + 1) % BlockMod

\* if (!++block) block = rollover_val;
NextBlock(b) == IF (b + 1) % BlockMod = 0 THEN Rollover ELSE b + 1

\* maxtimeout is TIMEOUT_LIMIT * rexmtval.
MaxTimeout == 2^Tries - 1

\* timer doubles timeout first ...
Backoff(t) == 2 * t

\* Faulty variant: the limit itself is still allowed, and so is one more try.
GivesUpLate(t) == t > MaxTimeout + 1

\* ... and exits when the result reaches the limit.
GivesUp(t) == t >= MaxTimeout

\* The packets of a set that can still be delivered when chunk k is on its way.
Alive(packets, k) == {p \in packets : p.chunk + MaxLag >= k}

=============================================================================
