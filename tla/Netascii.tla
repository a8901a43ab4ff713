------------------------------ MODULE Netascii ------------------------------
(***************************************************************************)
(* The netascii conversions of read_ahead and write_behind (tftpsubs.c),   *)
(* one character at a time, over the blocks of a transfer.  What makes     *)
(* them hard is the border between two blocks: `newline' and `prevchar'    *)
(* carry half of an expansion from one call to the next.  Which of the two *)
(* buffers a block is in does not matter here, see SendFile and RecvFile.  *)
(***************************************************************************)
EXTENDS Naturals, Sequences, SequencesExt

CONSTANTS
    MaxBytes,   \* bound: characters of the file or of the stream
    SegSizes    \* values of segsize

ASSUME NetasciiAssumption ==
    /\ MaxBytes \in Nat
    /\ SegSizes \subseteq Nat \ {0}

LF == "lf"
CR == "cr"
NUL == "nul"
Bytes == {LF, CR, NUL, "a"}

VARIABLES
    cpc,        \* which loop runs, or that the transfer is over: "sent", "written"
    source,     \* the file that is read, or the stream of a client that writes
    seg,        \* segsize
    offset,     \* characters of the source that were taken
    newline,    \* newline: in the middle of an expansion
    prevchar,   \* prevchar
    buffer,     \* th_data: characters in the block that is being filled
    blocks,     \* blocks sent, or received and written
    disk        \* the file that is written

conversion == <<cpc, source, seg, offset, newline, prevchar, buffer, blocks, disk>>

-----------------------------------------------------------------------------
(* read_ahead: the file becomes blocks of netascii.                         *)

\* Faulty variant: every block begins with a fresh state.
CarriedNot == FALSE

\* The state of an expansion outlives the block.
Carried == newline

\* The second character of lf -> cr,lf and of cr -> cr,nul.
SecondHalf == IF prevchar = LF THEN LF ELSE NUL

\* One turn of the loop: finish an expansion, or take a character of the file.
Fill ==
    /\ cpc = "fill" /\ Len(buffer) < seg
    /\ \/ /\ newline
          /\ buffer' = Append(buffer, SecondHalf)
          /\ newline' = FALSE
          /\ UNCHANGED <<offset, prevchar>>
       \/ /\ ~newline /\ offset < Len(source)
          /\ offset' = offset + 1
          /\ LET c == source[offset + 1]
                 expanded == c \in {LF, CR}
             IN  /\ buffer' = Append(buffer, IF expanded THEN CR ELSE c)
                 /\ newline' = expanded
                 /\ prevchar' = IF expanded THEN c ELSE prevchar
    /\ UNCHANGED <<cpc, source, seg, blocks, disk>>

\* The loop ends, with a full block or at EOF; a block that is not full, maybe
\* empty, is the last one that tftp_sendfile asks for.
BlockFilled ==
    /\ cpc = "fill"
    /\ Len(buffer) = seg \/ (~newline /\ offset = Len(source))
    /\ blocks' = Append(blocks, buffer)
    /\ buffer' = <<>>
    /\ newline' = Carried
    /\ cpc' = IF Len(buffer) = seg THEN "fill" ELSE "sent"
    /\ UNCHANGED <<source, seg, offset, prevchar, disk>>

-----------------------------------------------------------------------------
(* write_behind: blocks of netascii become the file.                        *)

\* Faulty variant: the first character of a block never completes a cr.
AfterCrInBlock == prevchar = CR /\ buffer # <<>>

AfterCr == prevchar = CR

\* One turn of the loop: cr,lf becomes lf, which goes on top of the cr (fseek);
\* the nul of cr,nul is skipped; anything else is put.
Put ==
    /\ cpc = "put" /\ offset < Len(source) /\ Len(buffer) < seg
    /\ LET c == source[offset + 1]
       IN  /\ disk' = CASE AfterCr /\ c = LF -> Append(Front(disk), LF)
                        [] AfterCr /\ c = NUL -> disk
                        [] OTHER -> Append(disk, c)
           /\ prevchar' = c
           /\ buffer' = Append(buffer, c)
    /\ offset' = offset + 1
    /\ UNCHANGED <<cpc, source, seg, newline, blocks>>

\* The whole block is written; a block that is not full was the last one.
BlockPut ==
    /\ cpc = "put"
    /\ Len(buffer) = seg \/ offset = Len(source)
    /\ blocks' = Append(blocks, buffer)
    /\ buffer' = <<>>
    /\ cpc' = IF Len(buffer) = seg THEN "put" ELSE "written"
    /\ UNCHANGED <<source, seg, offset, newline, prevchar, disk>>

-----------------------------------------------------------------------------
\* rw_init, at the beginning of a transfer in either direction.
ConversionStart ==
    /\ newline = FALSE /\ prevchar = "none"
    /\ offset = 0 /\ buffer = <<>> /\ blocks = <<>> /\ disk = <<>>

ConversionInit ==
    /\ cpc \in {"fill", "put"}
    /\ source \in BoundedSeq(Bytes, MaxBytes)
    /\ seg \in SegSizes
    /\ ConversionStart

ConversionNext == Fill \/ BlockFilled \/ Put \/ BlockPut

-----------------------------------------------------------------------------
(* What the conversions should do, by position in the whole file.           *)

Encode(file) ==
    FlattenSeq([i \in 1 .. Len(file) |->
        CASE file[i] = LF -> <<CR, LF>>
          [] file[i] = CR -> <<CR, NUL>>
          [] OTHER -> <<file[i]>>])

\* A cr before a lf and a nul after a cr go.
Decode(stream) ==
    LET Goes(i) ==
            \/ stream[i] = CR /\ i < Len(stream) /\ stream[i + 1] = LF
            \/ stream[i] = NUL /\ i > 1 /\ stream[i - 1] = CR
    IN  FlattenSeq([i \in 1 .. Len(stream) |-> IF Goes(i) THEN <<>> ELSE <<stream[i]>>])

\* "conversions are lf -> cr,lf and cr -> cr,nul" (tftpsubs.c:115): wherever the
\* blocks begin and end, what is sent is at any time the beginning of the whole
\* file's netascii, each block but the last is full, and a client that converts
\* back has the file.
SentIsEncoded ==
    LET sent == FlattenSeq(blocks) \o buffer
    IN  /\ cpc = "fill" => IsPrefix(sent, Encode(source))
        /\ cpc = "sent" => sent = Encode(source) /\ Decode(sent) = source
        /\ \A i \in 1 .. Len(blocks) :
             Len(blocks[i]) = seg \/ (cpc \in {"sent", "written"} /\ i = Len(blocks))

\* "CR,NUL -> CR and CR,LF => LF", anything else alone (tftpsubs.c:176-179):
\* wherever the blocks of an upload begin and end, the file on disk is the whole
\* stream converted.
WrittenIsDecoded ==
    cpc \in {"put", "written"} => disk = Decode(SubSeq(source, 1, offset))

=============================================================================
