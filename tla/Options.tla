------------------------------ MODULE Options ------------------------------
(***************************************************************************)
(* The options of a request: the loop of tftp over the request's strings,  *)
(* do_opt and the functions of the table of options (tftpd.c).             *)
(*                                                                         *)
(* An option is a name and a number; a name or a value that do_opt skips   *)
(* is "other".  Times are counted in units of which Second make a second   *)
(* (1000000 in the code).                                                  *)
(***************************************************************************)
EXTENDS Naturals, Sequences, FiniteSetsExt

CONSTANTS
    MaxBlksize, \* max_blksize: MAX_SEGSIZE or option -B
    Second,
    FileSize,   \* st_size of the file that is read
    Values,     \* numbers that a client may send
    MaxOpts,    \* bound: options in a request
    AckRoom     \* options that fit in ackbuf

ASSUME OptionsAssumption ==
    /\ MaxBlksize \in 512 .. 65464
    /\ Second \in Nat /\ Second >= 100
    /\ FileSize \in Nat /\ Values \subseteq Nat
    /\ MaxOpts \in Nat /\ AckRoom \in Nat

VARIABLES
    pc,         \* where tftp is
    opcode,     \* tp_opcode
    convert,    \* pf->f_convert: mode netascii
    nbOpts,     \* options read so far
    blksize_set,
    segsize,
    rollover_val,
    timeout, rexmtval, maxtimeout,
    oack        \* the options in ackbuf

settings == <<blksize_set, segsize, rollover_val, timeout, rexmtval, maxtimeout>>
optionsVars == <<pc, opcode, convert, nbOpts, settings, oack>>

SEGSIZE == 512
TRIES == 6
TIMEOUT_LIMIT == 2^TRIES - 1
UINT16_MAX == 65535     \* rollover_val is a uint16_t

Names == {"blksize", "blksize2", "tsize", "timeout", "utimeout", "rollover"}

-----------------------------------------------------------------------------
(* The table of options: whether a value is taken, and what becomes of it.  *)

\* do_opt clears blksize_set before it looks at the option, whichever it is.
BlksizeSetSeen == FALSE

\* tsize_ok is set by validate_access: netascii has no size to tell.
TsizeOk == opcode = "WRQ" \/ ~convert

Accepts(o, v) ==
    CASE o \in {"blksize", "blksize2"} -> ~BlksizeSetSeen /\ v >= 8
      [] o = "rollover" -> v <= UINT16_MAX
      [] o = "tsize" -> TsizeOk
      [] o = "timeout" -> v >= 1 /\ v <= 255
      [] o = "utimeout" -> v >= Second \div 100 /\ v <= 255 * Second

\* Faulty variant: a size above the limit is taken as it is.
ClampNot(v) == v

Clamp(v) == IF v > MaxBlksize THEN MaxBlksize ELSE v

\* The greatest power of two that is not above n.
PowerBelow(n) == Max({2^i : i \in {j \in 0 .. 16 : 2^j <= n}})

\* A size above the limit becomes the limit, only others become a power of two.
ClampToPower(v) == IF v > MaxBlksize THEN MaxBlksize ELSE PowerBelow(v)

\* tsize: the file's size for a read, 0 for a write.
Tsize == IF opcode = "RRQ" THEN FileSize ELSE 0

Answer(o, v) ==
    CASE o = "blksize" -> Clamp(v)
      [] o = "blksize2" -> ClampToPower(v)
      [] o = "tsize" /\ v = 0 -> Tsize
      [] OTHER -> v

\* Faulty variant: the client is told what it asked for.
ToldAsked(a, v) == v

\* *vp = sz: the client is told what was set.
Told(a, v) == a

SetBlksize(sz) ==
    /\ segsize' = sz /\ blksize_set' = TRUE
    /\ UNCHANGED <<rollover_val, timeout, rexmtval, maxtimeout>>

\* Faulty variant: the limit stays where the default timeout put it.
NewMaxtimeoutKept(to) == maxtimeout

NewMaxtimeout(to) == to * TIMEOUT_LIMIT

SetTimeout(to) ==
    /\ timeout' = to /\ rexmtval' = to /\ maxtimeout' = NewMaxtimeout(to)
    /\ UNCHANGED <<segsize, rollover_val>>

\* What an accepted option sets; do_opt has cleared blksize_set before.
Apply(o, a) ==
    CASE o \in {"blksize", "blksize2"} -> SetBlksize(a)
      [] o = "rollover" ->
           /\ rollover_val' = a /\ blksize_set' = FALSE
           /\ UNCHANGED <<segsize, timeout, rexmtval, maxtimeout>>
      [] o = "tsize" ->
           /\ blksize_set' = FALSE
           /\ UNCHANGED <<segsize, rollover_val, timeout, rexmtval, maxtimeout>>
      [] o = "timeout" -> SetTimeout(a * Second) /\ blksize_set' = FALSE
      [] o = "utimeout" -> SetTimeout(a) /\ blksize_set' = FALSE

-----------------------------------------------------------------------------
(* The loop of tftp.                                                        *)

\* The name and the mode; the file has passed validate_access.
ReadMode ==
    /\ pc = "mode"
    /\ opcode' \in {"RRQ", "WRQ"}
    /\ convert' \in BOOLEAN
    /\ pc' = "options"
    /\ UNCHANGED <<nbOpts, settings, oack>>

\* "Missing mode", "Unknown mode", a name that is refused, and, here or later, a
\* string without its end: an ERROR packet, and exit.
BadRequest ==
    /\ pc \in {"mode", "options"}
    /\ pc' = "nak"
    /\ UNCHANGED <<opcode, convert, nbOpts, settings, oack>>

\* do_opt with an option of the table: refuse the request, or set the option and
\* add it to the OACK if there is room.
DoOpt(o, v) ==
    /\ pc = "options" /\ nbOpts < MaxOpts
    /\ nbOpts' = nbOpts + 1
    /\ LET a == Answer(o, v)
       IN  CASE ~Accepts(o, v) ->
                  /\ pc' = "nak"
                  /\ blksize_set' = FALSE
                  /\ UNCHANGED <<segsize, rollover_val, timeout, rexmtval, maxtimeout, oack>>
             [] Accepts(o, v) /\ Len(oack) >= AckRoom ->
                  /\ Apply(o, a)
                  /\ pc' = "nak"
                  /\ UNCHANGED oack
             [] OTHER ->
                  /\ Apply(o, a)
                  /\ oack' = Append(oack, [opt |-> o, val |-> Told(a, v)])
                  /\ UNCHANGED pc
    /\ UNCHANGED <<opcode, convert>>

\* An unknown name, an empty value or one that is no number is skipped.
SkipOpt ==
    /\ pc = "options" /\ nbOpts < MaxOpts
    /\ nbOpts' = nbOpts + 1
    /\ blksize_set' = FALSE
    /\ UNCHANGED <<pc, opcode, convert, segsize, rollover_val, timeout, rexmtval, maxtimeout, oack>>

\* The transfer begins, with an OACK if an option was taken.
Transfer ==
    /\ pc = "options"
    /\ pc' = IF oack # <<>> THEN "oack" ELSE "plain"
    /\ UNCHANGED <<opcode, convert, nbOpts, settings, oack>>

OptionsInit ==
    /\ pc = "mode" /\ opcode = "none" /\ convert = FALSE /\ nbOpts = 0
    /\ blksize_set = FALSE /\ segsize = SEGSIZE /\ rollover_val = 0
    /\ timeout = Second /\ rexmtval = Second /\ maxtimeout = Second * TIMEOUT_LIMIT
    /\ oack = <<>>

OptionsNext ==
    \/ ReadMode \/ BadRequest \/ SkipOpt \/ Transfer
    \/ \E o \in Names, v \in Values : DoOpt(o, v)


-----------------------------------------------------------------------------
(* Properties.                                                              *)

\* Types; whatever the options, a block fits in the buffers, which hold MAX_SEGSIZE
\* bytes, and holds at least 8 (set_blksize and set_blksize2, tftpd.c:1200-1245).
OptionsTypeOK ==
    /\ pc \in {"mode", "options", "nak", "oack", "plain"}
    /\ opcode \in {"none", "RRQ", "WRQ"} /\ convert \in BOOLEAN
    /\ nbOpts \in 0 .. MaxOpts
    /\ blksize_set \in BOOLEAN
    /\ segsize \in 8 .. MaxBlksize
    /\ rollover_val \in 0 .. UINT16_MAX
    /\ Len(oack) <= AckRoom

\* The value in the last answer to an option among the ones in set os.
LastTold(os) ==
    LET told == {i \in 1 .. Len(oack) : oack[i].opt \in os}
    IN  oack[Max(told)]

Answered(os) == \E i \in 1 .. Len(oack) : oack[i].opt \in os

\* The OACK tells the truth: of the options that set the same thing, the one that is
\* answered last is the one in force when the transfer begins (*vp, tftpd.c:1212,
\* 1242 and 1341-1351).
OackInForce ==
    pc = "oack" =>
        /\ Answered({"blksize", "blksize2"}) => LastTold({"blksize", "blksize2"}).val = segsize
        /\ Answered({"rollover"}) => LastTold({"rollover"}).val = rollover_val
        /\ Answered({"timeout", "utimeout"}) =>
             LET t == LastTold({"timeout", "utimeout"})
             IN  rexmtval = IF t.opt = "timeout" THEN t.val * Second ELSE t.val

\* Whatever timeout was asked for, timer gives up after TRIES attempts: the doubled
\* interval reaches maxtimeout at the last one and not before (tftpd.c:161-168, 1292-1306).
TriesKept ==
    pc \in {"oack", "plain"} =>
        /\ timeout = rexmtval
        /\ timeout * 2^TRIES >= maxtimeout
        /\ timeout * 2^(TRIES - 1) < maxtimeout

=============================================================================
