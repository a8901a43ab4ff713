---------------------------- MODULE FileTransfer ----------------------------
(***************************************************************************)
(* What a transfer promises, in either direction: the receiver gets the    *)
(* chunks of the file in order, each once, and the server ends the         *)
(* transfer as complete only when the receiver has all of them.            *)
(***************************************************************************)
EXTENDS Naturals, Sequences

CONSTANT Chunks

VARIABLES
    received,   \* the chunks that the receiver has, in the order they came
    status      \* the server's verdict: "running", "complete" or "failed"

Init == received = << >> /\ status = "running"

\* Packets in flight may arrive after the server has given up.
Deliver ==
    /\ Len(received) < Chunks
    /\ received' = Append(received, Len(received) + 1)
    /\ UNCHANGED status

Complete ==
    /\ status = "running" /\ Len(received) = Chunks
    /\ status' = "complete"
    /\ UNCHANGED received

Fail ==
    /\ status = "running"
    /\ status' = "failed"
    /\ UNCHANGED received

Next == Deliver \/ Complete \/ Fail

Spec == Init /\ [][Next]_<<received, status>>

=============================================================================
