---------------------------- MODULE ServerProofs ----------------------------
(***************************************************************************)
(* Theorems about the parts of the server that MCServer puts side by side: *)
(* options (any values, any limits), the start, the search for a port (any *)
(* number of children, any range), and, through RequestProofs, the files.  *)
(***************************************************************************)
EXTENDS MCServer, RequestProofs, FiniteSetTheorems, WellFoundedInduction

-----------------------------------------------------------------------------
(* Least and greatest elements.                                             *)

\* A set of naturals that is not empty has a least element.
LEMMA LeastNatural ==
    ASSUME NEW T \in SUBSET Nat, T # {}
    PROVE  \E x \in T : \A y \in T : x =< y
  <1> DEFINE R == OpToRel(<, Nat)
  <1>1. \A x, y \in Nat : y < x => <<y, x>> \in R
    BY DEF OpToRel
  <1>2. IsWellFoundedOn(R, Nat)
    BY NatLessThanWellFounded
  <1> HIDE DEF R
  <1>3. PICK x \in T : \A y \in T : ~(<<y, x>> \in R)
    BY <1>2, WFMin
  <1>4. ASSUME NEW y \in T PROVE x =< y
    <2>1. x \in Nat /\ y \in Nat
      OBVIOUS
    <2>2. ~(y < x)
      BY <1>1, <1>3, <2>1
    <2> QED BY <2>1, <2>2
  <1> QED BY <1>4

\* Max finds the greatest of a bounded set.
LEMMA MaxOfBounded ==
    ASSUME NEW S \in SUBSET Int, NEW x \in S, x \in Nat, NEW n \in Nat, \A y \in S : y =< n
    PROVE  Max(S) \in S /\ \A y \in S : y =< Max(S)
  <1> DEFINE U == {m \in Nat : \A y \in S : y =< m}
  <1>1. PICK m \in U : \A u \in U : m =< u
    BY LeastNatural
  <1>2. m \in S
    <2> SUFFICES ASSUME m \notin S PROVE FALSE
      OBVIOUS
    <2>1. \A y \in S : y \in Int /\ y =< m /\ y # m
      BY <1>1
    <2>2. \A y \in S : y =< m - 1
      BY <1>1, <2>1
    <2>3. m - 1 \in Nat
      BY <1>1, <2>1
    <2> QED BY <1>1, <2>2, <2>3
  <1>3. \E z \in S : \A y \in S : z >= y
    BY <1>1, <1>2
  <1>4. Max(S) \in S /\ \A y \in S : Max(S) >= y
    BY <1>3, Zenon DEF Max
  <1> HIDE DEF Max
  <1> QED BY <1>4

-----------------------------------------------------------------------------
(* Options.                                                                 *)

\* set_blksize2: the loop that halves ends with a power of two, at most the size that was
\* asked for, and never below 8.
LEMMA PowerBelowBounds ==
    ASSUME NEW n \in Nat, n >= 8
    PROVE  PowerBelow(n) \in 8 .. n
  <1> DEFINE S == {2^i : i \in {j \in 0 .. 16 : 2^j <= n}}
  <1>1. \A i \in 0 .. 16 : 2^i \in Int
    OBVIOUS
  <1>2. S \in SUBSET Int /\ \A y \in S : y =< n
    BY <1>1
  <1>3. 8 \in S
    <2>1. 2^3 = 8
      OBVIOUS
    <2>2. 3 \in {j \in 0 .. 16 : 2^j <= n}
      BY <2>1
    <2>3. 2^3 \in S
      BY <2>2, Zenon
    <2> QED BY <2>1, <2>3
  <1> HIDE DEF S
  <1>4. Max(S) \in S /\ \A y \in S : y =< Max(S)
    BY <1>2, <1>3, MaxOfBounded
  <1>5. PowerBelow(n) = Max(S)
    BY DEF PowerBelow, S
  <1>6. Max(S) \in Int /\ Max(S) <= n /\ 8 <= Max(S)
    BY <1>2, <1>3, <1>4
  <1> QED BY <1>5, <1>6

\* The values that bound what follows.
Taken == [opt : Names, val : Nat]

SettingsInv ==
    /\ OptionsTypeOK
    /\ oack \in Seq(Taken)
    /\ timeout \in Nat /\ timeout > 0 /\ rexmtval = timeout
    /\ maxtimeout = timeout * TIMEOUT_LIMIT

\* The option of the OACK at i is the last one of its group, and val(i) is in force.
BlkOpts == {"blksize", "blksize2"}
RollOpts == {"rollover"}
TimeOpts == {"timeout", "utimeout"}

IsLast(i, os) ==
    /\ i \in 1 .. Len(oack) /\ oack[i].opt \in os
    /\ \A j \in 1 .. Len(oack) : oack[j].opt \in os => j =< i

BlkTold == Answered(BlkOpts) => \E i \in 1 .. Len(oack) : IsLast(i, BlkOpts) /\ oack[i].val = segsize

RollTold ==
    Answered(RollOpts) => \E i \in 1 .. Len(oack) : IsLast(i, RollOpts) /\ oack[i].val = rollover_val

Interval(t) == IF t.opt = "timeout" THEN t.val * Second ELSE t.val

TimeTold ==
    Answered(TimeOpts) => \E i \in 1 .. Len(oack) : IsLast(i, TimeOpts) /\ Interval(oack[i]) = rexmtval

\* An option that was applied but found no room in the OACK ends the request.
ToldInv == pc # "nak" => BlkTold /\ RollTold /\ TimeTold

OptionsInv == SettingsInv /\ ToldInv

LEMMA LimitIs63 == TIMEOUT_LIMIT = 63 /\ 2^TRIES = 64 /\ 2^(TRIES - 1) = 32
  BY DEF TIMEOUT_LIMIT, TRIES

LEMMA OptionsInvInit == OptionsInit => OptionsInv
  <1> SUFFICES ASSUME OptionsInit PROVE OptionsInv
    OBVIOUS
  <1>1. SettingsInv
    <2>1. OptionsTypeOK
      <3>1. convert \in BOOLEAN /\ blksize_set \in BOOLEAN
        BY DEF OptionsInit
      <3>2. segsize \in 8 .. MaxBlksize /\ rollover_val \in 0 .. UINT16_MAX
        BY OptionsAssumption, SMT DEF OptionsInit, SEGSIZE, UINT16_MAX
      <3>3. nbOpts \in 0 .. MaxOpts /\ Len(oack) <= AckRoom
        BY OptionsAssumption, SMT DEF OptionsInit
      <3> QED BY <3>1, <3>2, <3>3 DEF OptionsInit, OptionsTypeOK
    <2>2. oack \in Seq(Taken)
      BY DEF OptionsInit
    <2>3. timeout \in Nat /\ timeout > 0 /\ rexmtval = timeout /\ maxtimeout = timeout * TIMEOUT_LIMIT
      BY OptionsAssumption, SMT DEF OptionsInit
    <2> QED BY <2>1, <2>2, <2>3 DEF SettingsInv
  <1>2. ToldInv
    BY DEF OptionsInit, ToldInv, BlkTold, RollTold, TimeTold, Answered
  <1> QED BY <1>1, <1>2 DEF OptionsInv

\* What do_opt makes of an accepted option is a value that the server can work with.
LEMMA OptionNumbers ==
    ASSUME NEW v \in Values
    PROVE  /\ v \in Nat /\ FileSize \in Nat /\ MaxOpts \in Nat /\ AckRoom \in Nat
           /\ MaxBlksize \in Nat /\ MaxBlksize >= 512 /\ Second \in Nat /\ Second >= 100
  BY OptionsAssumption, SMT

LEMMA BlksizeAnswer ==
    ASSUME NEW v \in Values, NEW o \in BlkOpts, Accepts(o, v)
    PROVE  Answer(o, v) \in 8 .. MaxBlksize
  <1>1. v >= 8
    <2>1. CASE o = "blksize"
      BY <2>1, SMT DEF Accepts, BlksizeSetSeen
    <2>2. CASE o = "blksize2"
      BY <2>2, SMT DEF Accepts, BlksizeSetSeen
    <2> QED BY <2>1, <2>2 DEF BlkOpts
  <1>2. Clamp(v) \in 8 .. MaxBlksize
    BY <1>1, OptionNumbers, SMT DEF Clamp
  <1>3. ClampToPower(v) \in 8 .. MaxBlksize
    <2>1. PowerBelow(v) \in 8 .. v
      BY <1>1, OptionNumbers, PowerBelowBounds
    <2> QED BY <2>1, OptionNumbers, SMT DEF ClampToPower
  <1> QED BY <1>2, <1>3, SMT DEF Answer, BlkOpts

LEMMA RolloverAnswer ==
    ASSUME NEW v \in Values, Accepts("rollover", v)
    PROVE  Answer("rollover", v) \in 0 .. UINT16_MAX
  <1>1. v <= UINT16_MAX /\ Answer("rollover", v) = v
    BY SMT DEF Accepts, Answer, UINT16_MAX
  <1>2. v \in Nat /\ UINT16_MAX \in Nat
    BY OptionNumbers DEF UINT16_MAX
  <1> QED BY <1>1, <1>2

LEMMA TimeoutAnswer ==
    ASSUME NEW v \in Values, NEW o \in TimeOpts, Accepts(o, v)
    PROVE  LET to == Interval([opt |-> o, val |-> Answer(o, v)]) IN to \in Nat /\ to > 0
  <1>1. Answer(o, v) = v
    BY SMT DEF Answer, TimeOpts
  <1>2. CASE o = "timeout"
    <2>1. v >= 1
      BY <1>2, SMT DEF Accepts
    <2>2. v * Second \in Nat /\ v * Second > 0
      BY <2>1, OptionNumbers, SMT
    <2> QED BY <1>1, <1>2, <2>2, SMT DEF Interval
  <1>3. CASE o = "utimeout"
    <2>1. v >= Second \div 100
      BY <1>3, SMT DEF Accepts
    <2>2. Second \div 100 > 0 /\ Second \div 100 \in Nat
      BY OptionNumbers, SMT
    <2>3. v \in Nat /\ v > 0
      BY <2>1, <2>2, OptionNumbers, SMT
    <2> QED BY <1>1, <1>3, <2>3 DEF Interval
  <1> QED BY <1>2, <1>3 DEF TimeOpts

LEMMA AnswerIsNumber ==
    ASSUME NEW o \in Names, NEW v \in Values, Accepts(o, v)
    PROVE  Answer(o, v) \in Nat
  <1>1. CASE o \in BlkOpts
    BY <1>1, BlksizeAnswer, OptionNumbers, SMT
  <1>2. CASE o \notin BlkOpts
    <2>1. Answer(o, v) = v \/ Answer(o, v) = FileSize \/ Answer(o, v) = 0
      BY <1>2 DEF Answer, Tsize, BlkOpts
    <2> QED BY <2>1, OptionNumbers
  <1> QED BY <1>1, <1>2

\* What an accepted option leaves in the settings, and which of them it leaves alone.
LEMMA Applied ==
    ASSUME SettingsInv, NEW o \in Names, NEW v \in Values, Accepts(o, v), Apply(o, Answer(o, v))
    PROVE  /\ blksize_set' \in BOOLEAN
           /\ segsize' = IF o \in BlkOpts THEN Answer(o, v) ELSE segsize
           /\ rollover_val' = IF o \in RollOpts THEN Answer(o, v) ELSE rollover_val
           /\ rexmtval' = IF o \in TimeOpts THEN Interval([opt |-> o, val |-> Answer(o, v)])
                          ELSE rexmtval
           /\ timeout' = rexmtval' /\ maxtimeout' = timeout' * TIMEOUT_LIMIT
  <1> DEFINE a == Answer(o, v)
  <1> HIDE DEF a
  <1> SUFFICES /\ blksize_set' \in BOOLEAN
               /\ segsize' = IF o \in BlkOpts THEN a ELSE segsize
               /\ rollover_val' = IF o \in RollOpts THEN a ELSE rollover_val
               /\ rexmtval' = IF o \in TimeOpts THEN Interval([opt |-> o, val |-> a]) ELSE rexmtval
               /\ timeout' = rexmtval' /\ maxtimeout' = timeout' * TIMEOUT_LIMIT
    BY DEF a
  <1>1. Apply(o, a) /\ timeout = rexmtval /\ maxtimeout = timeout * TIMEOUT_LIMIT
    BY DEF a, SettingsInv
  <1> USE DEF BlkOpts, RollOpts, TimeOpts
  <1>2. CASE o = "blksize" \/ o = "blksize2"
    <2>1. SetBlksize(a)
      BY <1>1, <1>2 DEF Apply
    <2> QED BY <1>1, <1>2, <2>1 DEF SetBlksize
  <1>3. CASE o = "rollover"
    <2>1. /\ rollover_val' = a /\ blksize_set' = FALSE
          /\ UNCHANGED <<segsize, timeout, rexmtval, maxtimeout>>
      BY <1>1, <1>3 DEF Apply
    <2> QED BY <1>1, <1>3, <2>1
  <1>4. CASE o = "tsize"
    <2>1. blksize_set' = FALSE /\ UNCHANGED <<segsize, rollover_val, timeout, rexmtval, maxtimeout>>
      BY <1>1, <1>4 DEF Apply
    <2> QED BY <1>1, <1>4, <2>1
  <1>5. CASE o \in TimeOpts
    <2>1. SetTimeout(Interval([opt |-> o, val |-> a])) /\ blksize_set' = FALSE
      <3>1. CASE o = "timeout"
        BY <1>1, <3>1 DEF Apply, Interval
      <3>2. CASE o = "utimeout"
        BY <1>1, <3>2 DEF Apply, Interval
      <3> QED BY <1>5, <3>1, <3>2
    <2> QED BY <1>1, <1>5, <2>1 DEF SetTimeout, NewMaxtimeout
  <1> QED BY <1>2, <1>3, <1>4, <1>5 DEF Names

LEMMA AppliedTypes ==
    ASSUME SettingsInv, NEW o \in Names, NEW v \in Values, Accepts(o, v), Apply(o, Answer(o, v))
    PROVE  /\ blksize_set' \in BOOLEAN /\ segsize' \in 8 .. MaxBlksize
           /\ rollover_val' \in 0 .. UINT16_MAX
           /\ timeout' \in Nat /\ timeout' > 0 /\ rexmtval' = timeout'
           /\ maxtimeout' = timeout' * TIMEOUT_LIMIT
  <1>1. /\ blksize_set' \in BOOLEAN /\ rexmtval' = timeout' /\ maxtimeout' = timeout' * TIMEOUT_LIMIT
    BY Applied
  <1>2. segsize' \in 8 .. MaxBlksize
    BY Applied, BlksizeAnswer DEF SettingsInv, OptionsTypeOK
  <1>3. rollover_val' \in 0 .. UINT16_MAX
    BY Applied, RolloverAnswer DEF SettingsInv, OptionsTypeOK, RollOpts
  <1>4. rexmtval' \in Nat /\ rexmtval' > 0
    <2>1. CASE o \in TimeOpts
      BY <2>1, Applied, TimeoutAnswer
    <2>2. CASE o \notin TimeOpts
      BY <2>2, Applied DEF SettingsInv
    <2> QED BY <2>1, <2>2
  <1> QED BY <1>1, <1>2, <1>3, <1>4

\* The answer that is added last is the last one of its group.
LEMMA AppendLast ==
    ASSUME oack \in Seq(Taken), NEW e \in Taken, oack' = Append(oack, e), NEW os
    PROVE  /\ e.opt \in os => \E i \in 1 .. Len(oack') : IsLast(i, os)' /\ oack'[i] = e
           /\ e.opt \notin os =>
                /\ Answered(os)' => Answered(os)
                /\ \A i \in 1 .. Len(oack) :
                     IsLast(i, os) => i \in 1 .. Len(oack') /\ IsLast(i, os)' /\ oack'[i] = oack[i]
  <1>0. PICK n \in Nat : n = Len(oack) + 1
    OBVIOUS
  <1>1. /\ n \in Nat /\ n > 0 /\ Len(oack') = n /\ oack'[n] = e
        /\ \A i \in 1 .. Len(oack) : oack'[i] = oack[i]
        /\ \A i \in 1 .. n : i = n \/ i \in 1 .. Len(oack)
    BY <1>0
  <1>2. ASSUME e.opt \in os PROVE IsLast(n, os)'
    BY <1>1, <1>2 DEF IsLast
  <1>3. ASSUME e.opt \notin os, Answered(os)' PROVE Answered(os)
    BY <1>1, <1>3 DEF Answered
  <1>4. ASSUME e.opt \notin os, NEW i \in 1 .. Len(oack), IsLast(i, os)
        PROVE  i \in 1 .. Len(oack') /\ IsLast(i, os)' /\ oack'[i] = oack[i]
    <2>1. i \in 1 .. Len(oack') /\ oack'[i] = oack[i] /\ oack'[i].opt \in os
      BY <1>1, <1>4 DEF IsLast
    <2>2. ASSUME NEW j \in 1 .. Len(oack'), oack'[j].opt \in os PROVE j =< i
      <3>1. j \in 1 .. Len(oack) /\ oack'[j] = oack[j]
        BY <1>1, <1>4, <2>2
      <3> QED BY <1>4, <2>2, <3>1 DEF IsLast
    <2> QED BY <2>1, <2>2 DEF IsLast
  <1>5. n \in 1 .. Len(oack')
    BY <1>1
  <1>6. e.opt \in os => \E i \in 1 .. Len(oack') : IsLast(i, os)' /\ oack'[i] = e
    BY <1>1, <1>2, <1>5
  <1> QED BY <1>3, <1>4, <1>6

\* The OACK keeps telling the truth when do_opt adds an answer.
LEMMA ToldStep ==
    ASSUME OptionsInv, NEW o \in Names, NEW v \in Values, Accepts(o, v), Apply(o, Answer(o, v)),
           pc # "nak", oack' = Append(oack, [opt |-> o, val |-> Answer(o, v)])
    PROVE  BlkTold' /\ RollTold' /\ TimeTold'
  <1> DEFINE e == [opt |-> o, val |-> Answer(o, v)]
  <1>1. e \in Taken /\ e.opt = o /\ e.val = Answer(o, v)
    BY AnswerIsNumber DEF Taken
  <1>2. /\ segsize' = IF o \in BlkOpts THEN e.val ELSE segsize
        /\ rollover_val' = IF o \in RollOpts THEN e.val ELSE rollover_val
        /\ rexmtval' = IF o \in TimeOpts THEN Interval(e) ELSE rexmtval
    BY <1>1, Applied DEF OptionsInv
  <1> HIDE DEF e
  <1>3. oack \in Seq(Taken) /\ oack' = Append(oack, e) /\ BlkTold /\ RollTold /\ TimeTold
    BY DEF e, OptionsInv, SettingsInv, ToldInv
  <1>4. BlkTold'
    <2>1. CASE o \in BlkOpts
      BY <1>1, <1>2, <1>3, <2>1, AppendLast DEF BlkTold
    <2>2. CASE o \notin BlkOpts
      BY <1>1, <1>2, <1>3, <2>2, AppendLast DEF BlkTold
    <2> QED BY <2>1, <2>2
  <1>5. RollTold'
    <2>1. CASE o \in RollOpts
      BY <1>1, <1>2, <1>3, <2>1, AppendLast DEF RollTold
    <2>2. CASE o \notin RollOpts
      BY <1>1, <1>2, <1>3, <2>2, AppendLast DEF RollTold
    <2> QED BY <2>1, <2>2
  <1>6. TimeTold'
    <2>1. CASE o \in TimeOpts
      BY <1>1, <1>2, <1>3, <2>1, AppendLast DEF TimeTold
    <2>2. CASE o \notin TimeOpts
      BY <1>1, <1>2, <1>3, <2>2, AppendLast DEF TimeTold
    <2> QED BY <2>1, <2>2
  <1> QED BY <1>4, <1>5, <1>6

LEMMA OptionsStep ==
    ASSUME OptionsInv, OptionsNext
    PROVE  OptionsInv'
  <1>1. SettingsInv /\ OptionsTypeOK /\ oack \in Seq(Taken)
    BY DEF OptionsInv, SettingsInv
  \* Steps that leave the settings and the OACK as they are.
  <1>2. ASSUME UNCHANGED <<segsize, rollover_val, timeout, rexmtval, maxtimeout, oack>>,
               blksize_set' \in BOOLEAN, convert' \in BOOLEAN, opcode' \in {"none", "RRQ", "WRQ"},
               nbOpts' \in 0 .. MaxOpts,
               pc' \in {"mode", "options", "nak", "oack", "plain"}, pc = "nak" => pc' = "nak"
        PROVE  OptionsInv'
    <2>1. OptionsTypeOK'
      BY <1>1, <1>2, Zenon DEF OptionsTypeOK
    <2>2. SettingsInv'
      BY <1>1, <1>2, <2>1 DEF SettingsInv
    <2>3. ToldInv'
      BY <1>2 DEF OptionsInv, ToldInv, BlkTold, RollTold, TimeTold, Answered, IsLast
    <2> QED BY <2>2, <2>3 DEF OptionsInv
  <1>3. blksize_set \in BOOLEAN /\ convert \in BOOLEAN /\ opcode \in {"none", "RRQ", "WRQ"}
        /\ nbOpts \in 0 .. MaxOpts /\ MaxOpts \in Nat
    <2>1. MaxOpts \in Nat
      BY OptionsAssumption, SMT
    <2> QED BY <1>1, <2>1, Zenon DEF OptionsTypeOK
  <1>4. CASE ReadMode
    <2>1. UNCHANGED <<segsize, rollover_val, timeout, rexmtval, maxtimeout, oack, blksize_set, nbOpts>>
          /\ convert' \in BOOLEAN /\ opcode' \in {"none", "RRQ", "WRQ"} /\ pc = "mode" /\ pc' = "options"
      BY <1>4 DEF ReadMode, settings
    <2> QED BY <1>2, <1>3, <2>1
  <1>5. CASE BadRequest \/ Transfer
    <2>1. UNCHANGED <<segsize, rollover_val, timeout, rexmtval, maxtimeout, oack, blksize_set, nbOpts,
                      convert, opcode>>
          /\ pc # "nak" /\ pc' \in {"nak", "oack", "plain"}
      BY <1>5 DEF BadRequest, Transfer, settings
    <2> QED BY <1>2, <1>3, <2>1
  <1>6. CASE SkipOpt
    <2>1. UNCHANGED <<segsize, rollover_val, timeout, rexmtval, maxtimeout, oack, convert, opcode, pc>>
          /\ blksize_set' \in BOOLEAN /\ pc = "options" /\ nbOpts' = nbOpts + 1 /\ nbOpts < MaxOpts
      BY <1>6 DEF SkipOpt
    <2>2. nbOpts' \in 0 .. MaxOpts
      BY <1>3, <2>1
    <2> QED BY <1>2, <1>3, <2>1, <2>2
  <1>7. ASSUME NEW o \in Names, NEW v \in Values, DoOpt(o, v)
        PROVE  OptionsInv'
    <2>1. pc = "options" /\ nbOpts' = nbOpts + 1 /\ nbOpts < MaxOpts /\ UNCHANGED <<opcode, convert>>
      BY <1>7 DEF DoOpt
    <2>2. nbOpts' \in 0 .. MaxOpts
      BY <1>3, <2>1
    <2>3. CASE ~Accepts(o, v)
      <3>1. UNCHANGED <<segsize, rollover_val, timeout, rexmtval, maxtimeout, oack>>
            /\ blksize_set' \in BOOLEAN /\ pc' = "nak"
        BY <1>7, <2>3 DEF DoOpt
      <3> QED BY <1>2, <1>3, <2>1, <2>2, <3>1
    <2>4. CASE Accepts(o, v)
      <3>1. /\ Apply(o, Answer(o, v))
            /\ \/ Len(oack) >= AckRoom /\ pc' = "nak" /\ oack' = oack
               \/ /\ ~(Len(oack) >= AckRoom) /\ pc' = pc
                  /\ oack' = Append(oack, [opt |-> o, val |-> Answer(o, v)])
        BY <1>7, <2>4 DEF DoOpt, Told
      <3>2. [opt |-> o, val |-> Answer(o, v)] \in Taken
        BY <2>4, AnswerIsNumber DEF Taken
      <3>3. oack' \in Seq(Taken) /\ Len(oack') <= AckRoom
        <4>1. Len(oack) <= AckRoom /\ AckRoom \in Nat
          BY <1>1, OptionsAssumption DEF OptionsTypeOK
        <4> QED BY <1>1, <3>1, <3>2, <4>1
      <3>4. OptionsTypeOK'
        <4>1. blksize_set' \in BOOLEAN /\ segsize' \in 8 .. MaxBlksize /\ rollover_val' \in 0 .. UINT16_MAX
          BY <1>1, <2>4, <3>1, AppliedTypes
        <4>2. pc' \in {"mode", "options", "nak", "oack", "plain"} /\ opcode' = opcode /\ convert' = convert
          BY <2>1, <3>1
        <4> QED BY <1>3, <2>2, <3>3, <4>1, <4>2, Zenon DEF OptionsTypeOK
      <3>5. SettingsInv'
        BY <1>1, <2>4, <3>1, <3>3, <3>4, AppliedTypes DEF SettingsInv
      <3>6. ToldInv'
        <4>1. CASE pc' = "nak"
          BY <4>1 DEF ToldInv
        <4>2. CASE pc' # "nak"
          BY <2>1, <2>4, <3>1, <4>2, ToldStep DEF ToldInv
        <4> QED BY <4>1, <4>2
      <3> QED BY <3>5, <3>6 DEF OptionsInv
    <2> QED BY <2>3, <2>4
  <1> QED BY <1>4, <1>5, <1>6, <1>7 DEF OptionsNext

LEMMA OptionsInvHolds == OptionsInit /\ [][OptionsNext]_optionsVars => []OptionsInv
  <1>1. OptionsInv /\ UNCHANGED optionsVars => OptionsInv'
    BY DEF optionsVars, settings, OptionsInv, SettingsInv, OptionsTypeOK, ToldInv, BlkTold, RollTold,
           TimeTold, Answered, IsLast
  <1> QED BY <1>1, OptionsStep, OptionsInvInit, PTL

\* Types; whatever options a request carries and in whatever order, segsize stays between
\* 8 and the limit that the buffers were made for (tftpd.c:1200-1245).
THEOREM OptionsTypesHold ==
    OptionsInit /\ [][OptionsNext]_optionsVars => []OptionsTypeOK
  <1>1. OptionsInv => OptionsTypeOK
    BY DEF OptionsInv, SettingsInv
  <1> QED BY <1>1, OptionsInvHolds, PTL

\* The OACK that do_opt writes names, for every group of options that set the same thing,
\* last the one that is in force (tftpd.c:1341-1351).
THEOREM OackTellsTruth ==
    OptionsInit /\ [][OptionsNext]_optionsVars => []OackInForce
  <1>1. ASSUME SettingsInv, NEW os, NEW i \in 1 .. Len(oack), IsLast(i, os)
        PROVE  LastTold(os) = oack[i]
    <2> DEFINE told == {j \in 1 .. Len(oack) : oack[j].opt \in os}
    <2>1. Len(oack) \in Nat
      BY <1>1 DEF SettingsInv
    <2>2. told \in SUBSET Int /\ i \in told /\ i \in Nat /\ \A j \in told : j =< i
      BY <1>1, <2>1 DEF IsLast
    <2>3. LastTold(os) = oack[Max(told)]
      BY DEF LastTold
    <2> HIDE DEF told
    <2>4. Max(told) \in told /\ \A j \in told : j =< Max(told)
      BY <2>2, MaxOfBounded
    <2>5. Max(told) \in Int /\ Max(told) =< i /\ i =< Max(told)
      BY <2>2, <2>4
    <2>6. Max(told) = i
      BY <2>2, <2>5
    <2> QED BY <2>3, <2>6
  <1>2. OptionsInv => OackInForce
    <2> SUFFICES ASSUME OptionsInv, pc = "oack" PROVE OackInForce
      BY DEF OackInForce
    <2>1. SettingsInv /\ BlkTold /\ RollTold /\ TimeTold
      BY DEF OptionsInv, ToldInv
    <2>2. Answered(BlkOpts) => LastTold(BlkOpts).val = segsize
      BY <1>1, <2>1 DEF BlkTold
    <2>3. Answered(RollOpts) => LastTold(RollOpts).val = rollover_val
      BY <1>1, <2>1 DEF RollTold
    <2>4. Answered(TimeOpts) => rexmtval = Interval(LastTold(TimeOpts))
      BY <1>1, <2>1 DEF TimeTold
    <2> QED BY <2>2, <2>3, <2>4 DEF OackInForce, BlkOpts, RollOpts, TimeOpts, Interval
  <1> QED BY <1>2, OptionsInvHolds, PTL

\* Whatever interval timeout or utimeout set, the timer doubles it to the limit at the last
\* of its TRIES attempts and not before (tftpd.c:161-168, 1292-1306).
THEOREM TriesKeptHold ==
    OptionsInit /\ [][OptionsNext]_optionsVars => []TriesKept
  <1>1. OptionsInv => TriesKept
    BY LimitIs63 DEF OptionsInv, SettingsInv, TriesKept
  <1> QED BY <1>1, OptionsInvHolds, PTL

-----------------------------------------------------------------------------
(* The search for a port.                                                   *)

PortTypes ==
    /\ range \in Ranges
    /\ seek \in [Seekers -> {"start", "try", "bound", "full", "error", "gone"}]
    /\ firstport \in [Seekers -> Nat] /\ port \in [Seekers -> Nat]
    /\ tried \in [Seekers -> [RangePorts -> Nat]]

\* The ports from f on, round the end of the range, and before q.
Passed(f, q) == IF f =< q THEN f .. (q - 1) ELSE (f .. To) \cup (From .. (q - 1))

\* A child that is still looking has tried the ports that it passed, each once.
SearchRight(k) ==
    /\ seek[k] = "start" => \A p \in RangePorts : tried[k][p] = 0
    /\ seek[k] = "try" /\ InRange =>
         /\ port[k] \in RangePorts /\ firstport[k] \in RangePorts
         /\ \A p \in RangePorts : tried[k][p] = IF p \in Passed(firstport[k], port[k]) THEN 1 ELSE 0
    /\ seek[k] = "full" => \A p \in RangePorts : tried[k][p] = 1

PortsInv == PortTypes /\ \A k \in Seekers : SearchRight(k)

LEMMA RangeNumbers ==
    ASSUME PortTypes
    PROVE  /\ From \in Nat /\ To \in Nat /\ From =< To /\ RangePorts \subseteq Nat
           /\ InRange => RangePorts = From .. To
           /\ ~InRange => RangePorts = {}
  <1>1. From \in Nat /\ To \in Nat /\ From =< To
    BY PortBindAssumption, SMT DEF PortTypes, From, To
  <1> QED BY <1>1 DEF RangePorts

\* One more port is passed; with the last one the search has come round.
LEMMA PassedNext ==
    ASSUME PortTypes, InRange, NEW f \in RangePorts, NEW q \in RangePorts
    PROVE  /\ NextPort(q) \in RangePorts
           /\ q \notin Passed(f, q)
           /\ NextPort(q) # f => Passed(f, NextPort(q)) = Passed(f, q) \cup {q}
           /\ NextPort(q) = f => RangePorts = Passed(f, q) \cup {q}
  <1>1. /\ From \in Nat /\ To \in Nat /\ From =< To /\ RangePorts = From .. To
        /\ f \in From .. To /\ q \in From .. To
    BY RangeNumbers
  <1>2. NextPort(q) = IF q = To THEN From ELSE q + 1
    BY <1>1 DEF NextPort
  <1>3. NextPort(q) \in RangePorts
    BY <1>1, <1>2
  <1>4. q \notin Passed(f, q)
    BY <1>1 DEF Passed
  <1>5. ASSUME NextPort(q) # f PROVE Passed(f, NextPort(q)) = Passed(f, q) \cup {q}
    <2>1. CASE q = To
      BY <1>1, <1>2, <1>5, <2>1 DEF Passed
    <2>2. CASE q # To /\ f =< q
      BY <1>1, <1>2, <1>5, <2>2 DEF Passed
    <2>3. CASE q # To /\ ~(f =< q)
      BY <1>1, <1>2, <1>5, <2>3 DEF Passed
    <2> QED BY <2>1, <2>2, <2>3
  <1>6. ASSUME NextPort(q) = f PROVE RangePorts = Passed(f, q) \cup {q}
    <2>1. CASE q = To
      BY <1>1, <1>2, <1>6, <2>1 DEF Passed
    <2>2. CASE q # To
      BY <1>1, <1>2, <1>6, <2>2 DEF Passed
    <2> QED BY <2>1, <2>2
  <1> QED BY <1>3, <1>4, <1>5, <1>6

LEMMA PortsInvInit == PortsInit => PortsInv
  <1> SUFFICES ASSUME PortsInit PROVE PortsInv
    OBVIOUS
  <1>1. PortTypes
    BY DEF PortsInit, PortTypes
  <1>2. \A k \in Seekers : SearchRight(k)
    BY DEF PortsInit, SearchRight
  <1> QED BY <1>1, <1>2 DEF PortsInv

\* What a step does to one child: nothing, or one turn of its loop.
LEMMA SearchStep ==
    ASSUME PortsInv, PortsNext
    PROVE  PortsInv'
  <1>1. PortTypes /\ \A k \in Seekers : SearchRight(k)
    BY DEF PortsInv
  <1>2. range' = range /\ RangePorts' = RangePorts /\ InRange' = InRange
    BY DEF PortsNext, SeekStep, Start, BindSucceeds, BindInUse, BindFails, Unbind, StrangerActs,
           RangePorts, InRange, From, To
  <1>4. ASSUME NEW k \in Seekers, seek'[k] = seek[k], port'[k] = port[k],
               firstport'[k] = firstport[k], tried'[k] = tried[k]
        PROVE  SearchRight(k)'
    BY <1>1, <1>2, <1>4 DEF SearchRight, Passed, From, To
  <1>5. ASSUME NEW k \in Seekers, SeekStep(k) \/ Unbind(k)
        PROVE  PortTypes' /\ SearchRight(k)'
    <2>1. k \in DOMAIN seek /\ k \in DOMAIN port /\ k \in DOMAIN firstport /\ k \in DOMAIN tried
      BY <1>1 DEF PortTypes
    <2>2. CASE Start(k)
      <3>1. PICK p \in IF InRange THEN RangePorts ELSE {0} :
              /\ firstport' = [firstport EXCEPT ![k] = p] /\ port' = [port EXCEPT ![k] = p]
              /\ seek' = [seek EXCEPT ![k] = "try"] /\ tried' = tried /\ seek[k] = "start"
        BY <2>2 DEF Start
      <3>2. p \in Nat
        BY <1>1, <3>1, RangeNumbers
      <3>3. PortTypes'
        BY <1>1, <1>2, <3>1, <3>2 DEF PortTypes
      <3>4. Passed(p, p) = {}
        BY <3>2 DEF Passed
      <3>5. SearchRight(k)'
        BY <1>1, <1>2, <2>1, <3>1, <3>4 DEF SearchRight, Passed, From, To
      <3> QED BY <3>3, <3>5
    <2>3. CASE BindSucceeds(k) \/ BindFails(k) \/ Unbind(k)
      <3>1. \E to \in {"bound", "error", "gone"} :
              seek' = [seek EXCEPT ![k] = to] /\ UNCHANGED <<firstport, port, tried>>
        BY <2>3 DEF BindSucceeds, BindFails, Unbind
      <3> QED BY <1>1, <1>2, <2>1, <3>1 DEF PortTypes, SearchRight
    <2>4. CASE BindInUse(k)
      <3> DEFINE f == firstport[k]
                 q == port[k]
      <3>1. /\ seek[k] = "try" /\ InRange /\ firstport' = firstport
            /\ tried' = [tried EXCEPT ![k][q] = IF @ = Often THEN @ ELSE @ + 1]
            /\ port' = [port EXCEPT ![k] = NextPort(@)]
            /\ seek' = [seek EXCEPT ![k] = IF NextPort(q) = f THEN "full" ELSE "try"]
        BY <2>4 DEF BindInUse, RoundOver
      <3>2. /\ q \in RangePorts /\ f \in RangePorts
            /\ \A p \in RangePorts : tried[k][p] = IF p \in Passed(f, q) THEN 1 ELSE 0
        BY <1>1, <3>1 DEF SearchRight
      <3>3. NextPort(q) \in RangePorts /\ q \notin Passed(f, q) /\ RangePorts \subseteq Nat
        BY <1>1, <3>1, <3>2, PassedNext, RangeNumbers
      <3>4. tried[k] \in [RangePorts -> Nat] /\ tried[k][q] = 0
        BY <1>1, <3>2, <3>3 DEF PortTypes
      <3>5. tried' = [tried EXCEPT ![k] = [tried[k] EXCEPT ![q] = 1]]
        <4>1. tried' = [tried EXCEPT ![k][q] = IF tried[k][q] = Often THEN tried[k][q]
                                               ELSE tried[k][q] + 1]
          BY <3>1
        <4>2. (IF tried[k][q] = Often THEN tried[k][q] ELSE tried[k][q] + 1) = 1
          BY <3>4 DEF Often
        <4>3. tried' = [tried EXCEPT ![k][q] = 1]
          BY <4>1, <4>2, Zenon
        <4> QED BY <2>1, <4>3
      <3>6. tried'[k] = [tried[k] EXCEPT ![q] = 1]
        BY <2>1, <3>5
      <3>7. PortTypes'
        <4>1. [tried[k] EXCEPT ![q] = 1] \in [RangePorts -> Nat]
          BY <3>4
        <4>2. tried' \in [Seekers -> [RangePorts -> Nat]]
          BY <1>1, <3>5, <4>1, Zenon DEF PortTypes
        <4>3. port' \in [Seekers -> Nat] /\ NextPort(q) \in Nat
          BY <1>1, <3>1, <3>3 DEF PortTypes
        <4>4. seek' \in [Seekers -> {"start", "try", "bound", "full", "error", "gone"}]
          BY <1>1, <3>1 DEF PortTypes
        <4> QED BY <1>1, <1>2, <3>1, <4>2, <4>3, <4>4 DEF PortTypes
      <3>8. \A p \in RangePorts : tried'[k][p] = IF p \in Passed(f, q) \cup {q} THEN 1 ELSE 0
        BY <3>2, <3>4, <3>6
      <3>9. port'[k] = NextPort(q) /\ seek'[k] = IF NextPort(q) = f THEN "full" ELSE "try"
        BY <2>1, <3>1
      <3>10. SearchRight(k)'
        <4>1. CASE NextPort(q) = f
          <5>1. RangePorts = Passed(f, q) \cup {q}
            BY <1>1, <3>1, <3>2, <4>1, PassedNext
          <5> QED BY <1>2, <3>8, <3>9, <4>1, <5>1 DEF SearchRight
        <4>2. CASE NextPort(q) # f
          <5>1. Passed(f, NextPort(q)) = Passed(f, q) \cup {q}
            BY <1>1, <3>1, <3>2, <4>2, PassedNext
          <5>2. Passed(firstport[k], port[k])' = Passed(f, q) \cup {q}
            BY <1>2, <3>1, <3>9, <5>1 DEF Passed, From, To
          <5> QED BY <1>2, <3>1, <3>2, <3>3, <3>8, <3>9, <4>2, <5>2 DEF SearchRight
        <4> QED BY <4>1, <4>2
      <3> QED BY <3>7, <3>10
    <2> QED BY <1>5, <2>2, <2>3, <2>4 DEF SeekStep
  <1>6. ASSUME NEW k \in Seekers, SeekStep(k) \/ Unbind(k), NEW j \in Seekers, j # k
        PROVE  SearchRight(j)'
    <2>1. seek'[j] = seek[j] /\ port'[j] = port[j] /\ firstport'[j] = firstport[j] /\ tried'[j] = tried[j]
      BY <1>1, <1>6 DEF SeekStep, Start, BindSucceeds, BindInUse, BindFails, Unbind, PortTypes
    <2> QED BY <1>4, <2>1
  <1>7. ASSUME NEW p \in RangePorts, StrangerActs(p)
        PROVE  PortsInv'
    <2>1. UNCHANGED <<seek, firstport, port, tried>>
      BY <1>7 DEF StrangerActs
    <2>2. PortTypes'
      BY <1>1, <1>2, <2>1 DEF PortTypes
    <2> QED BY <1>4, <2>1, <2>2 DEF PortsInv
  <1> QED BY <1>5, <1>6, <1>7 DEF PortsNext, PortsInv

\* pick_port_bind gives up only after it has tried every port of the range once, whatever
\* the range and wherever it began (tftpsubs.c:281-299).
THEOREM SearchIsExhaustive ==
    PortsInit /\ [][PortsNext]_ports => []SearchExhaustive
  <1>1. PortsInv /\ UNCHANGED ports => PortsInv'
    BY DEF ports, PortsInv, PortTypes, SearchRight, Passed, RangePorts, InRange, From, To
  <1>2. PortsInv => SearchExhaustive
    BY DEF PortsInv, SearchRight, SearchExhaustive
  <1> QED BY <1>1, <1>2, PortsInvInit, SearchStep, PTL

-----------------------------------------------------------------------------
(* The start of the server.                                                 *)

\* Where main stands before the background, in the order of the code.
Early == {"options", "map", "inherit", "sockets", "address", "resolve", "port", "bind", "daemon"}

StartTypes ==
    /\ conf \in CommandLine
    /\ fd \in [Families -> {"none", "open", "bound"}]
    /\ bindaddr \in [Families -> {"any", "addr"}]
    /\ spc \in Early \cup {"pidfile", "ready", "exit"}
    /\ spc \in (Early \cup {"pidfile"}) \ {"options", "map", "inherit"} => Standalone
    /\ spc = "inherit" => ~Standalone

\* The directory that the map file is read in at first, and the one of the main loop.
StartDir == IF conf.secure THEN "served" ELSE "start"
RunDir == IF conf.mode = "daemon" /\ ~conf.secure THEN "root" ELSE StartDir

PathInv ==
    /\ spc = "options" => cwd = "start"
    /\ spc \in Early \ {"options"} => cwd = StartDir
    /\ spc \in {"pidfile", "ready"} => cwd = RunDir
    /\ spc \notin {"ready", "exit"} => mapsRead \subseteq {FileIn(conf.map, StartDir)} /\ pidAt = "none"
    /\ spc = "ready" =>
         /\ mapsRead \subseteq {FileIn(conf.map, StartDir), FileIn(conf.map, RunDir)}
         /\ pidAt \in {"none", cwd}

\* The families that the command line allows.
Asked(s) ==
    /\ conf.family \in {0, s}
    /\ conf.addr = "v4" => s = 4
    /\ conf.addr \in {"v6", "any6"} => s = 6

\* The sockets that are left: some of those asked for, all of them or IPv4 at least, with
\* the address that was asked for.
Left(state) ==
    /\ Asked(4) \/ Asked(6)
    /\ \A s \in Families : fd[s] = state => Asked(s) /\ bindaddr[s] = AddrAsked
    /\ fd[4] = state \/ \A s \in Families : Asked(s) => fd[s] = state
    /\ \A s \in Families : fd[s] \in {"none", state}

SocketInv ==
    /\ spc \in {"options", "map", "sockets", "address"} => ai_fam = conf.family
    /\ spc \in Early \ {"port", "bind", "daemon"} => \A s \in Families : bindaddr[s] = "any"
    /\ spc = "address" => \A s \in Families : fd[s] = IF conf.family \in {0, s} THEN "open" ELSE "none"
    /\ spc = "resolve" =>
         /\ Asked(4) \/ Asked(6)
         /\ \A s \in Families : fd[s] = IF Asked(s) THEN "open" ELSE "none"
    /\ spc \in {"port", "bind"} => Left("open")
    /\ spc \in {"daemon", "pidfile"} \/ (spc = "ready" /\ Standalone) => Left("bound")

\* main is past bind, and has its own sockets.
Running == spc \in {"daemon", "pidfile"} \/ (spc = "ready" /\ Standalone)

\* The port in bindaddr4 and bindaddr6 on the way, and IPV6_V6ONLY when -6 wants it.
PortInv ==
    /\ spc \in {"address", "resolve"} =>
         \A s \in Families : fd[s] = "open" => bindport[s] = IPPORT_TFTP
    /\ spc = "port" =>
         \A s \in Families :
            fd[s] = "open" => bindport[s] = IF NamesAddress THEN 0 ELSE IPPORT_TFTP
    /\ spc = "bind" => \A s \in Families : fd[s] = "open" => PortAsAsked(s)
    /\ Running => /\ \A s \in Families : fd[s] = "bound" => PortAsAsked(s)
                  /\ fd[6] = "bound" /\ conf.family = 6 => v6only \in {"set", "failed"}

\* What is known of the last datagram.
ReceivedInv ==
    /\ from \in Families \cup {0}
    /\ from # 0 => spc \in {"ready", "exit"}
    /\ AnswersFromAsked

StartupInv == StartTypes /\ PathInv /\ SocketInv /\ PortInv /\ ReceivedInv

\* Steps that leave the sockets alone.
LEMMA PortsLeft ==
    ASSUME PortInv, UNCHANGED <<conf, fd, bindport, v6only>>,
           \/ spc' = spc
           \/ Running /\ spc' \in {"pidfile", "ready"}
           \/ spc' \in {"options", "map", "inherit", "sockets", "exit"}
    PROVE  PortInv'
  <1>1. NamesAddress' = NamesAddress /\ Standalone' = Standalone /\ PortFound' = PortFound
    BY DEF NamesAddress, Standalone, PortFound
  <1>2. \A s : PortAsAsked(s)' = PortAsAsked(s)
    BY <1>1 DEF PortAsAsked
  <1>3. CASE spc' = spc
    BY <1>1, <1>2, <1>3 DEF PortInv, Running
  <1>4. CASE Running /\ spc' \in {"pidfile", "ready"}
    BY <1>1, <1>2, <1>4 DEF PortInv, Running
  <1>5. CASE spc' \in {"options", "map", "inherit", "sockets", "exit"}
    BY <1>5 DEF PortInv, Running
  <1> QED BY <1>3, <1>4, <1>5

LEMMA StartupInvInit == StartupInit => StartupInv
  <1> SUFFICES ASSUME StartupInit PROVE StartupInv
    OBVIOUS
  <1> USE DEF StartupInit, StartupStart
  <1>1. StartTypes
    BY DEF StartTypes, Early
  <1>2. PathInv
    BY DEF PathInv, Early
  <1>3. SocketInv
    BY DEF SocketInv, Early
  <1>4. ReceivedInv
    BY DEF ReceivedInv, AnswersFromAsked
  <1>5. PortInv
    BY DEF PortInv, Running
  <1> QED BY <1>1, <1>2, <1>3, <1>4, <1>5 DEF StartupInv

\* A step that ends the server is of no consequence.
LEMMA ExitStep ==
    ASSUME StartupInv, ExitMain
    PROVE  StartupInv'
  <1>1. spc' = "exit" /\ conf' = conf /\ fd' = fd /\ bindaddr' = bindaddr
        /\ UNCHANGED <<from, before, sentTo, unknown, myaddr>>
    BY DEF ExitMain, received
  <1>2. StartTypes'
    BY <1>1 DEF StartupInv, StartTypes, Early
  <1>3. PathInv' /\ SocketInv' /\ PortInv'
    BY <1>1 DEF PathInv, SocketInv, PortInv, Running, Early
  <1>4. ReceivedInv'
    BY <1>1 DEF StartupInv, ReceivedInv, AnswersFromAsked, Standalone
  <1> QED BY <1>2, <1>3, <1>4 DEF StartupInv

\* The steps of main up to its loop know of no datagram.
LEMMA NothingReceived ==
    ASSUME StartupInv, spc \notin {"ready", "exit"}, UNCHANGED <<received>>
    PROVE  ReceivedInv'
  <1>1. from = 0 /\ from' = 0
    BY DEF StartupInv, ReceivedInv, received
  <1> QED BY <1>1 DEF ReceivedInv, AnswersFromAsked

LEMMA EarlyStep ==
    ASSUME StartupInv, EnterDirectory \/ LoadRules \/ InheritSocket
    PROVE  StartupInv'
  <1>1. StartTypes /\ PathInv /\ SocketInv /\ PortInv
    BY DEF StartupInv
  <1>2. ReceivedInv' /\ conf' = conf
    BY NothingReceived DEF EnterDirectory, LoadRules, InheritSocket
  <1>3. Standalone' = Standalone /\ StartDir' = StartDir /\ RunDir' = RunDir
    BY <1>2 DEF Standalone, StartDir, RunDir
  <1>4. CASE EnterDirectory
    <2>1. spc = "options" /\ spc' = "map" /\ UNCHANGED <<ai_fam, fd, bindaddr, mapsRead, pidAt>>
          /\ cwd' = IF conf.secure THEN "served" ELSE cwd
      BY <1>4 DEF EnterDirectory
    <2>2. StartTypes'
      BY <1>1, <1>2, <2>1 DEF StartTypes, Early
    <2>3. PathInv'
      BY <1>1, <1>2, <1>3, <2>1 DEF PathInv, Early, StartDir
    <2>4. SocketInv' /\ PortInv'
      BY <1>1, <1>2, <2>1 DEF SocketInv, PortInv, Running, Early
    <2> QED BY <1>2, <2>2, <2>3, <2>4 DEF StartupInv
  <1>5. CASE LoadRules
    <2>1. spc = "map" /\ spc' = (IF Standalone THEN "sockets" ELSE "inherit")
          /\ UNCHANGED <<ai_fam, fd, bindaddr, cwd, pidAt>>
          /\ mapsRead' \subseteq mapsRead \cup {FileIn(conf.map, cwd)}
      BY <1>5 DEF LoadRules, ReadMap
    <2>2. StartTypes'
      BY <1>1, <1>2, <1>3, <2>1 DEF StartTypes, Early
    <2>3. PathInv'
      BY <1>1, <1>2, <1>3, <2>1 DEF PathInv, Early
    <2>4. SocketInv' /\ PortInv'
      BY <1>1, <1>2, <2>1 DEF SocketInv, PortInv, Running, Early
    <2> QED BY <1>2, <2>2, <2>3, <2>4 DEF StartupInv
  <1>6. CASE InheritSocket
    <2>1. spc = "inherit" /\ spc' = "ready" /\ UNCHANGED <<bindaddr, cwd, mapsRead, pidAt>>
          /\ \E s \in Families : fd' = [fd EXCEPT ![s] = "bound"]
      BY <1>6 DEF InheritSocket
    <2>2. ~Standalone /\ RunDir = StartDir
      BY <1>1, <2>1 DEF StartTypes, RunDir, Standalone
    <2>3. StartTypes'
      <3>1. fd' \in [Families -> {"none", "open", "bound"}]
        BY <1>1, <2>1 DEF StartTypes
      <3> QED BY <1>1, <1>2, <2>1, <3>1 DEF StartTypes, Early
    <2>4. PathInv'
      BY <1>1, <1>2, <1>3, <2>1, <2>2 DEF PathInv, Early
    <2>5. SocketInv' /\ PortInv'
      BY <1>3, <2>1, <2>2 DEF SocketInv, PortInv, Running, Early
    <2> QED BY <1>2, <2>3, <2>4, <2>5 DEF StartupInv
  <1> QED BY <1>4, <1>5, <1>6

\* The paths of the steps between the map file and the background.
LEMMA PathsLeft ==
    ASSUME StartupInv, spc \in Early \ {"options"}, spc' \in Early \ {"options"},
           UNCHANGED <<conf, cwd, mapsRead, pidAt>>
    PROVE  PathInv'
  BY DEF StartupInv, PathInv, Early, StartDir

LEMMA FamilyStep ==
    ASSUME StartupInv, OpenSockets \/ ChooseFamily
    PROVE  StartupInv'
  <1>1. StartTypes /\ SocketInv /\ PortInv
    BY DEF StartupInv
  <1>2. ReceivedInv' /\ conf' = conf /\ PathInv'
    <2>1. UNCHANGED <<conf, cwd, mapsRead, pidAt, received>>
          /\ spc \in {"sockets", "address"} /\ spc' \in {"address", "resolve"}
      BY DEF OpenSockets, ChooseFamily
    <2> QED BY <2>1, NothingReceived, PathsLeft DEF Early
  <1>3. conf.family \in {0, 4, 6}
    BY <1>1 DEF StartTypes, CommandLine, Families
  <1>4. CASE OpenSockets
    <2>1. spc = "sockets" /\ spc' = "address" /\ UNCHANGED <<ai_fam, bindaddr>>
          /\ fd' = [s \in Families |-> Opened(s)]
          /\ bindport' = [s \in Families |-> IF Opened(s) = "open" THEN IPPORT_TFTP ELSE bindport[s]]
      BY <1>4 DEF OpenSockets
    <2>2. StartTypes'
      BY <1>1, <1>2, <2>1 DEF StartTypes, Early, Opened, Standalone
    <2>3. SocketInv'
      BY <1>1, <1>2, <2>1 DEF SocketInv, Early, Opened
    <2>4. \A s \in Families : fd'[s] = "open" => bindport'[s] = IPPORT_TFTP
      BY <2>1
    <2>5. PortInv'
      BY <2>1, <2>4 DEF PortInv, Running
    <2> QED BY <1>2, <2>2, <2>3, <2>5 DEF StartupInv
  <1>5. CASE ChooseFamily
    <2>1. /\ spc = "address" /\ spc' = "resolve" /\ bindaddr' = bindaddr /\ bindport' = bindport
          /\ SplitPort # -1
          /\ ~(Closes /\ ai_fam = Other(SplitPort))
          /\ fd' = IF Closes THEN [fd EXCEPT ![Other(SplitPort)] = "none"] ELSE fd
      BY <1>5 DEF ChooseFamily
    <2>2. StartTypes'
      <3>1. fd' \in [Families -> {"none", "open", "bound"}]
        BY <1>1, <2>1 DEF StartTypes
      <3> QED BY <1>1, <1>2, <2>1, <3>1 DEF StartTypes, Early, Standalone
    <2>3. \A s \in Families : fd[s] = IF conf.family \in {0, s} THEN "open" ELSE "none"
      BY <1>1, <2>1 DEF SocketInv
    <2>4. ai_fam = conf.family /\ 4 \in Families /\ 6 \in Families
          /\ fd \in [Families -> {"none", "open", "bound"}]
      BY <1>1, <2>1 DEF SocketInv, Families, StartTypes
    <2>5. /\ Asked(4) \/ Asked(6)
          /\ \A s \in Families : fd'[s] = IF Asked(s) THEN "open" ELSE "none"
      <3>1. CASE conf.addr = "v4"
        <4>1. SplitPort = 4 /\ Other(SplitPort) = 6 /\ (Closes <=> fd[6] = "open")
          BY <3>1 DEF SplitPort, Other, Closes, Families
        <4>2. Asked(4) <=> conf.family \in {0, 4}
          BY <3>1 DEF Asked
        <4>3. ~Asked(6)
          BY <3>1 DEF Asked
        <4>4. conf.family # 6
          BY <1>3, <2>1, <2>3, <2>4, <4>1
        <4>5. fd'[6] = "none" /\ fd'[4] = "open"
          BY <1>3, <2>1, <2>3, <2>4, <4>1, <4>4
        <4> QED BY <1>3, <4>2, <4>3, <4>4, <4>5 DEF Families
      <3>2. CASE conf.addr \in {"v6", "any6"}
        <4>1. SplitPort = 6 /\ Other(SplitPort) = 4 /\ (Closes <=> fd[4] = "open")
          BY <3>2 DEF SplitPort, Other, Closes, Families
        <4>2. Asked(6) <=> conf.family \in {0, 6}
          BY <3>2 DEF Asked
        <4>3. ~Asked(4)
          BY <3>2 DEF Asked
        <4>4. conf.family # 4
          BY <1>3, <2>1, <2>3, <2>4, <4>1
        <4>5. fd'[4] = "none" /\ fd'[6] = "open"
          BY <1>3, <2>1, <2>3, <2>4, <4>1, <4>4
        <4> QED BY <1>3, <4>2, <4>3, <4>4, <4>5 DEF Families
      <3>3. CASE conf.addr # "v4" /\ conf.addr \notin {"v6", "any6"}
        <4>1. ~Closes
          BY <2>1, <3>3 DEF SplitPort, Closes, Families
        <4>2. \A s \in Families : Asked(s) <=> conf.family \in {0, s}
          BY <3>3 DEF Asked
        <4> QED BY <1>3, <2>1, <2>3, <2>4, <4>1, <4>2
      <3> QED BY <3>1, <3>2, <3>3
    <2>6. \A s \in Families : Asked(s)' = Asked(s)
      BY <1>2 DEF Asked
    <2>7. SocketInv'
      BY <1>1, <1>2, <2>1, <2>4, <2>5, <2>6 DEF SocketInv, Early, StartTypes
    <2>8. \A s \in Families : fd'[s] = "open" => fd[s] = "open"
      BY <1>3, <2>3, <2>5 DEF Asked
    <2>9. PortInv'
      BY <1>1, <2>1, <2>8 DEF PortInv, Running
    <2> QED BY <1>2, <2>2, <2>7, <2>9 DEF StartupInv
  <1> QED BY <1>4, <1>5

\* set_sock_addr, the port and bind: a socket that fails is given up, if IPv4 is left.
LEMMA AddressStep ==
    ASSUME StartupInv, NEW kept \in SUBSET Families,
           Resolve(kept) \/ PortKept \/ ChoosePort \/ Bind(kept)
    PROVE  StartupInv'
  <1>1. StartTypes /\ SocketInv /\ PortInv
    BY DEF StartupInv
  <1>2. ReceivedInv' /\ conf' = conf /\ PathInv'
    <2>1. UNCHANGED <<conf, cwd, mapsRead, pidAt, received>>
          /\ spc \in {"resolve", "port", "bind"} /\ spc' \in {"port", "bind", "daemon"}
      BY DEF Resolve, PortKept, ChoosePort, Bind
    <2> QED BY <2>1, NothingReceived, PathsLeft DEF Early
  <1>3. /\ NamesAddress' = NamesAddress /\ AddrAsked' = AddrAsked /\ PortFound' = PortFound
        /\ Standalone' = Standalone /\ \A s : Asked(s)' = Asked(s)
    BY <1>2 DEF NamesAddress, AddrAsked, PortFound, Standalone, Asked
  <1>4. 4 \in Families /\ 6 \in Families /\ \A s \in Families : s = 4 \/ s = 6
    BY DEF Families
  <1>5. CASE Resolve(kept)
    <2>1. /\ spc = "resolve" /\ spc' = "port" /\ Survives(kept) /\ (~NamesAddress => kept = OpenFds)
          /\ fd' = [s \in Families |-> IF s \in kept THEN "open" ELSE "none"]
          /\ bindaddr' = [s \in Families |-> IF s \in kept THEN AddrAsked ELSE bindaddr[s]]
          /\ bindport' = [s \in Families |-> IF s \in kept /\ NamesAddress THEN 0 ELSE bindport[s]]
      BY <1>5 DEF Resolve
    <2>2. StartTypes'
      <3>1. bindaddr' \in [Families -> {"any", "addr"}]
        BY <1>1, <2>1 DEF StartTypes, AddrAsked
      <3>2. fd' \in [Families -> {"none", "open", "bound"}]
        BY <2>1
      <3> QED BY <1>1, <1>2, <1>3, <2>1, <3>1, <3>2 DEF StartTypes, Early
    <2>3. /\ Asked(4) \/ Asked(6)
          /\ \A s \in Families : fd[s] = IF Asked(s) THEN "open" ELSE "none"
          /\ \A s \in Families : bindaddr[s] = "any"
      BY <1>1, <2>1 DEF SocketInv, Early
    <2>4. kept \subseteq OpenFds /\ (kept = OpenFds \/ 4 \in kept)
      BY <2>1 DEF Survives
    <2>5. \A s \in Families : s \in OpenFds <=> Asked(s)
      BY <2>3 DEF OpenFds
    <2>6. \A s \in Families : fd'[s] = (IF s \in kept THEN "open" ELSE "none")
                              /\ bindaddr'[s] = IF s \in kept THEN AddrAsked ELSE "any"
      BY <2>1, <2>3
    <2>7. Left("open")'
      BY <1>3, <1>4, <2>3, <2>4, <2>5, <2>6 DEF Left
    <2>8. SocketInv'
      BY <2>1, <2>7 DEF SocketInv, Early
    <2>9. ASSUME NEW s \in Families, fd'[s] = "open"
          PROVE  bindport'[s] = IF NamesAddress THEN 0 ELSE IPPORT_TFTP
      <3>1. s \in kept /\ fd[s] = "open"
        BY <2>4, <2>6, <2>9 DEF OpenFds
      <3>2. bindport[s] = IPPORT_TFTP
        BY <1>1, <2>1, <3>1 DEF PortInv
      <3> QED BY <2>1, <3>1, <3>2
    <2>10. PortInv'
      BY <1>3, <2>1, <2>9 DEF PortInv, Running
    <2> QED BY <1>2, <2>2, <2>8, <2>10 DEF StartupInv
  <1>6. CASE PortKept \/ ChoosePort
    <2>1. spc = "port" /\ spc' = "bind" /\ UNCHANGED <<fd, bindaddr>>
      BY <1>6 DEF PortKept, ChoosePort
    <2>2. StartTypes'
      BY <1>1, <1>2, <1>3, <2>1 DEF StartTypes, Early
    <2>3. Left("open")'
      BY <1>1, <1>3, <2>1 DEF SocketInv, Left
    <2>4. SocketInv'
      BY <1>2, <2>1, <2>3 DEF SocketInv, Early
    <2>5. ASSUME NEW s \in Families, fd[s] = "open"
          PROVE  PortAsAsked(s)'
      <3>1. bindport[s] = IF NamesAddress THEN 0 ELSE IPPORT_TFTP
        BY <1>1, <2>1, <2>5 DEF PortInv
      <3>2. CASE PortKept
        BY <1>2, <1>3, <3>1, <3>2 DEF PortKept, PortAsAsked, TftpPort, EmptyPort
      <3>3. CASE ChoosePort
        <4>1. bindport'[s] = PortFound /\ conf.port # EmptyPort
          BY <2>5, <3>3 DEF ChoosePort
        <4>2. conf.port = TftpPort => PortFound = IPPORT_TFTP
          BY DEF PortFound, TftpPort, ServicePort
        <4> QED BY <1>2, <1>3, <4>1, <4>2 DEF PortAsAsked
      <3> QED BY <1>6, <3>2, <3>3
    <2>6. PortInv'
      BY <2>1, <2>5 DEF PortInv, Running
    <2> QED BY <1>2, <2>2, <2>4, <2>6 DEF StartupInv
  <1>7. CASE Bind(kept)
    <2>1. /\ spc = "bind" /\ spc' = "daemon" /\ Survives(kept) /\ UNCHANGED <<bindaddr, bindport>>
          /\ fd' = [s \in Families |-> IF s \in kept THEN "bound" ELSE "none"]
          /\ v6only' \in IF fd[6] = "open" /\ V6onlyWanted THEN {"set", "failed"} ELSE {v6only}
      BY <1>7 DEF Bind
    <2>2. StartTypes'
      <3>1. fd' \in [Families -> {"none", "open", "bound"}]
        BY <2>1
      <3> QED BY <1>1, <1>2, <1>3, <2>1, <3>1 DEF StartTypes, Early
    <2>3. Left("open")
      BY <1>1, <2>1 DEF SocketInv
    <2>4. kept \subseteq OpenFds /\ (kept = OpenFds \/ 4 \in kept)
      BY <2>1 DEF Survives
    <2>5. \A s \in Families : s \in OpenFds <=> fd[s] = "open"
      BY DEF OpenFds
    <2>6. \A s \in Families : fd'[s] = IF s \in kept THEN "bound" ELSE "none"
      BY <2>1
    <2>7. Left("bound")'
      BY <1>3, <1>4, <2>1, <2>3, <2>4, <2>5, <2>6 DEF Left
    <2>8. SocketInv'
      BY <1>2, <2>1, <2>3, <2>7 DEF SocketInv, Early
    <2>9. ASSUME NEW s \in Families, fd'[s] = "bound"
          PROVE  fd[s] = "open" /\ PortAsAsked(s)'
      <3>1. fd[s] = "open"
        BY <2>4, <2>5, <2>6, <2>9
      <3>2. PortAsAsked(s)
        BY <1>1, <2>1, <3>1 DEF PortInv
      <3> QED BY <1>2, <1>3, <2>1, <3>1, <3>2 DEF PortAsAsked
    <2>10. fd'[6] = "bound" /\ conf.family = 6 => v6only' \in {"set", "failed"}
      BY <1>4, <2>1, <2>9 DEF V6onlyWanted
    <2>11. PortInv'
      BY <1>2, <2>1, <2>9, <2>10 DEF PortInv, Running
    <2> QED BY <1>2, <2>2, <2>8, <2>11 DEF StartupInv
  <1> QED BY <1>5, <1>6, <1>7

LEMMA LoopStep ==
    ASSUME StartupInv, Daemonize \/ WritePidfile \/ Reload
    PROVE  StartupInv'
  <1>1. StartTypes /\ PathInv /\ SocketInv /\ ReceivedInv /\ PortInv
    BY DEF StartupInv
  <1>2. UNCHANGED <<conf, ai_fam, fd, bindaddr, bindport, v6only, received>>
    BY DEF Daemonize, WritePidfile, Reload
  <1>3. Standalone' = Standalone /\ StartDir' = StartDir /\ RunDir' = RunDir
        /\ (Left("bound") => Left("bound")')
    BY <1>2 DEF Standalone, StartDir, RunDir, Left, Asked, NamesAddress, AddrAsked
  <1>4. CASE Daemonize
    <2>1. spc = "daemon" /\ spc' = "pidfile" /\ cwd' = DaemonDir /\ UNCHANGED <<mapsRead, pidAt>>
      BY <1>4 DEF Daemonize
    <2>2. cwd' = RunDir
      BY <1>1, <2>1 DEF PathInv, Early, DaemonDir, RunDir
    <2>3. StartTypes' /\ SocketInv'
      BY <1>1, <1>2, <1>3, <2>1 DEF StartTypes, SocketInv, Early
    <2>4. PathInv'
      BY <1>1, <1>2, <1>3, <2>1, <2>2 DEF PathInv, Early
    <2>5. PortInv'
      BY <1>1, <1>2, <2>1, PortsLeft DEF Running
    <2> QED BY <1>2, <2>1, <2>3, <2>4, <2>5, NothingReceived DEF StartupInv
  <1>5. CASE WritePidfile
    <2>1. spc = "pidfile" /\ spc' = "ready" /\ pidAt' \in {"none", cwd} /\ UNCHANGED <<cwd, mapsRead>>
      <3>1. spc = "pidfile" /\ spc' = "ready" /\ UNCHANGED <<cwd, mapsRead>>
            /\ pidAt' \in {"none"} \cup (IF conf.pidfile THEN {cwd} ELSE {})
        BY <1>5 DEF WritePidfile
      <3>2. (IF conf.pidfile THEN {cwd} ELSE {}) \subseteq {cwd}
        OBVIOUS
      <3> QED BY <3>1, <3>2
    <2>2. StartTypes' /\ SocketInv'
      BY <1>1, <1>2, <1>3, <2>1 DEF StartTypes, SocketInv, Early
    <2>3. PathInv'
      BY <1>1, <1>2, <1>3, <2>1 DEF PathInv, Early
    <2>4. PortInv'
      BY <1>1, <1>2, <2>1, PortsLeft DEF Running
    <2> QED BY <1>2, <2>1, <2>2, <2>3, <2>4, NothingReceived DEF StartupInv
  <1>6. CASE Reload
    <2>1. spc = "ready" /\ UNCHANGED <<spc, cwd, pidAt>>
          /\ mapsRead' \subseteq mapsRead \cup {FileIn(conf.map, cwd)}
      BY <1>6 DEF Reload, ReadMap
    <2>2. StartTypes' /\ SocketInv'
      BY <1>1, <1>2, <1>3, <2>1 DEF StartTypes, SocketInv, Early
    <2>3. PathInv'
      BY <1>1, <1>2, <1>3, <2>1 DEF PathInv, Early
    <2>4. ReceivedInv'
      BY <1>1, <1>2, <1>3, <2>1 DEF ReceivedInv, AnswersFromAsked, received
    <2>5. PortInv'
      BY <1>1, <1>2, <2>1, PortsLeft
    <2> QED BY <2>2, <2>3, <2>4, <2>5 DEF StartupInv
  <1> QED BY <1>4, <1>5, <1>6

\* myrecvfrom, and the address that main answers from.
LEMMA ReceiveStep ==
    ASSUME StartupInv, NEW s \in Families,
           \/ ReceiveAgain(s)
           \/ \E a \in {"addr", "other", "group"}, lost \in BOOLEAN : Receive(s, a, lost)
    PROVE  StartupInv'
  <1>1. StartTypes /\ PathInv /\ SocketInv /\ PortInv /\ ReceivedInv
    BY DEF StartupInv
  <1>2. UNCHANGED <<spc, conf, ai_fam, fd, bindaddr, bindport, v6only, cwd, mapsRead, pidAt>>
        /\ spc = "ready"
    BY DEF ReceiveAgain, Receive
  <1>3. Standalone' = Standalone
    BY <1>2 DEF Standalone
  <1>4. StartTypes' /\ PathInv' /\ SocketInv'
    BY <1>1, <1>2 DEF StartTypes, PathInv, SocketInv, Early, Standalone, StartDir, RunDir, Left, Asked,
                      NamesAddress, AddrAsked
  <1>5. ASSUME ReceiveAgain(s) PROVE ReceivedInv'
    <2>1. UNCHANGED <<from, before, sentTo, unknown, myaddr>>
      BY <1>5 DEF ReceiveAgain
    <2> QED BY <1>1, <1>2, <1>3, <2>1 DEF ReceivedInv, AnswersFromAsked
  <1>6. ASSUME NEW a \in {"addr", "other", "group"}, NEW lost \in BOOLEAN, Receive(s, a, lost)
        PROVE  ReceivedInv'
    <2>1. /\ bindaddr[s] = "addr" => a = "addr"
          /\ sentTo' = a /\ from' = s /\ before' = from
          /\ myaddr' = Fallback(s, IF s \in pktinfo' /\ ~lost THEN LocalAddress(a) ELSE "any")
          /\ pktinfo' = AskPktinfo(s)
      BY <1>6 DEF Receive
    <2>2. unknown' = lost
      BY <1>6 DEF Receive
    <2>3. bindaddr[s] \in {"any", "addr"} /\ s # 0
      BY <1>1 DEF StartTypes, Families
    <2>4. myaddr' \in {"any", "addr", "other"}
      BY <2>1, <2>3 DEF Fallback, LocalAddress, IsLocal
    <2>5. Standalone /\ bindaddr[s] = "addr" => myaddr' = "addr"
      BY <2>1 DEF Fallback, LocalAddress, IsLocal
    <2>6. ASSUME ~unknown', before' = from', sentTo' # "group" PROVE myaddr' = sentTo'
      <3>1. s \in pktinfo' /\ ~lost
        BY <2>1, <2>2, <2>6 DEF AskPktinfo
      <3>2. myaddr' = Fallback(s, LocalAddress(a))
        BY <2>1, <3>1
      <3>3. LocalAddress(a) = a /\ a # "any"
        BY <2>1, <2>6 DEF LocalAddress, IsLocal
      <3> QED BY <2>1, <3>2, <3>3 DEF Fallback
    <2> QED BY <1>2, <1>3, <2>1, <2>4, <2>5, <2>6 DEF ReceivedInv, AnswersFromAsked, IsLocal
  <1>7. PortInv'
    BY <1>1, <1>2, PortsLeft
  <1> QED BY <1>4, <1>5, <1>6, <1>7 DEF StartupInv

LEMMA StartupInvHolds == StartupInit /\ [][StartupNext]_startup => []StartupInv
  <1>1. StartupInv /\ UNCHANGED startup => StartupInv'
    <2> SUFFICES ASSUME StartupInv, UNCHANGED startup PROVE StartupInv'
      OBVIOUS
    <2>1. UNCHANGED <<spc, conf, ai_fam, fd, bindaddr, bindport, v6only, cwd, mapsRead, pidAt, from,
                      before, sentTo, unknown, myaddr>>
      BY DEF startup, received
    <2>2. StartTypes' /\ PathInv' /\ SocketInv'
      BY <2>1 DEF StartupInv, StartTypes, PathInv, SocketInv, Standalone, StartDir, RunDir, Left, Asked,
                  NamesAddress, AddrAsked
    <2>3. ReceivedInv'
      BY <2>1 DEF StartupInv, ReceivedInv, AnswersFromAsked, Standalone
    <2>4. PortInv'
      BY <2>1, PortsLeft DEF StartupInv
    <2> QED BY <2>2, <2>3, <2>4 DEF StartupInv
  <1>2. StartupInv /\ StartupNext => StartupInv'
    <2> SUFFICES ASSUME StartupInv, StartupNext PROVE StartupInv'
      OBVIOUS
    <2>1. CASE ExitMain
      BY <2>1, ExitStep
    <2>2. CASE EnterDirectory \/ LoadRules \/ InheritSocket
      BY <2>2, EarlyStep
    <2>3. CASE OpenSockets \/ ChooseFamily
      BY <2>3, FamilyStep
    <2>4. CASE PortKept \/ ChoosePort \/ \E kept \in SUBSET Families : Resolve(kept) \/ Bind(kept)
      BY <2>4, AddressStep
    <2>5. CASE Daemonize \/ WritePidfile \/ Reload
      BY <2>5, LoopStep
    <2>6. CASE \E s \in Families :
                 \/ ReceiveAgain(s)
                 \/ \E a \in {"addr", "other", "group"}, lost \in BOOLEAN : Receive(s, a, lost)
      BY <2>6, ReceiveStep
    <2> QED
      BY <2>1, <2>2, <2>3, <2>4, <2>5, <2>6
      DEF StartupNext, BadOption, NotStarted, NoSocket, Ipv6SocketFails, BadAddress, NotResolved,
          BadPort, NotBound, NotDaemon, ReloadFails, ReceiveFails
  <1> QED BY <1>1, <1>2, StartupInvInit, PTL

\* Whichever calls failed on the way, a server of its own that reaches the main loop
\* listens, on the sockets, the address and the port that the command line asks for, for
\* every port number; where the code falls short of that is part of the statement: the port
\* that set_sock_addr wipes, and IPv4 requests on the IPv6 socket (tftpd.c:554-741).
THEOREM ListensAsAskedHolds ==
    StartupInit /\ [][StartupNext]_startup => []ListensAsAsked
  <1>1. StartupInv => ListensAsAsked
    <2> SUFFICES ASSUME StartupInv, spc = "ready", Standalone PROVE ListensAsAsked
      BY DEF ListensAsAsked
    <2>1. Left("bound")
      BY DEF StartupInv, SocketInv
    <2>2. Families = {4, 6} /\ conf.family \in {0, 4, 6}
      BY DEF StartupInv, StartTypes, CommandLine, Families
    <2> DEFINE listens == {s \in Families : fd[s] = "bound"}
    <2>3. /\ \A s \in listens : s \in {4, 6} /\ Asked(s) /\ bindaddr[s] = AddrAsked
          /\ Asked(4) \/ Asked(6)
          /\ 4 \in listens \/ \A s \in {4, 6} : Asked(s) => s \in listens
      BY <2>1, <2>2 DEF Left
    <2>4. /\ \A s \in listens : PortAsAsked(s)
          /\ fd[6] = "bound" /\ conf.family = 6 => v6only \in {"set", "failed"}
      BY DEF StartupInv, PortInv, Running
    <2>5. fd[4] = "bound" => 4 \in listens
      BY <2>2
    <2> HIDE DEF listens
    <2>6. listens # {}
      BY <2>3
    <2>7. conf.family # 0 => listens = {conf.family}
      BY <2>2, <2>3, <2>6 DEF Asked
    <2>8. (conf.addr = "v4" => listens = {4}) /\ (conf.addr \in {"v6", "any6"} => listens = {6})
      BY <2>3, <2>6 DEF Asked
    <2>9. conf.family = 0 /\ conf.addr \notin {"v6", "any6"} => 4 \in listens
      BY <2>3 DEF Asked
    <2>10. ASSUME conf.family = 6 \/ conf.addr = "v6"
           PROVE  ~HearsIpv4 \/ v6only = "failed"
      <3>1. fd[4] # "bound"
        BY <2>5, <2>7, <2>8, <2>10
      <3>2. CASE conf.family = 6
        BY <2>4, <3>1, <3>2 DEF HearsIpv4
      <3>3. CASE conf.addr = "v6"
        <4>1. AddrAsked = "addr"
          BY <3>3 DEF AddrAsked, NamesAddress
        <4>2. fd[6] = "bound" => bindaddr[6] = "addr"
          BY <2>1, <2>2, <4>1 DEF Left
        <4> QED BY <3>1, <4>2 DEF HearsIpv4
      <3> QED BY <2>10, <3>2, <3>3
    <2> QED BY <2>3, <2>4, <2>6, <2>7, <2>8, <2>9, <2>10 DEF ListensAsAsked, listens
  <1> QED BY <1>1, StartupInvHolds, PTL

\* chroot, the map file of SIGHUP and the pid file are looked for in the directory that
\* they were meant for, although main changes it on the way (tftpd.c:742-753).
THEOREM PathsKeptHold ==
    StartupInit /\ [][StartupNext]_startup => []PathsKept
  <1>1. ASSUME NEW x, NEW S, S \subseteq {x} PROVE Cardinality(S) <= 1
    <2>1. IsFiniteSet({x}) /\ Cardinality({x}) = 1
      BY FS_Singleton
    <2>2. Cardinality(S) <= Cardinality({x})
      BY <1>1, <2>1, FS_Subset
    <2> QED BY <2>1, <2>2
  <1>2. StartupInv => PathsKept
    <2> SUFFICES ASSUME StartupInv, spc = "ready" PROVE PathsKept
      BY DEF PathsKept
    <2>1. /\ cwd = RunDir /\ pidAt \in {"none", cwd}
          /\ mapsRead \subseteq {FileIn(conf.map, StartDir), FileIn(conf.map, RunDir)}
      BY DEF StartupInv, PathInv
    <2>2. conf.secure => cwd = "served"
      BY <2>1 DEF RunDir, StartDir
    <2>3. ASSUME conf.secure \/ conf.mode # "daemon" \/ conf.map = "absolute"
          PROVE  Cardinality(mapsRead) <= 1
      <3>1. FileIn(conf.map, RunDir) = FileIn(conf.map, StartDir)
        BY <2>3 DEF RunDir, FileIn
      <3> QED BY <1>1, <2>1, <3>1
    <2> QED BY <2>1, <2>2, <2>3 DEF PathsKept
  <1> QED BY <1>2, StartupInvHolds, PTL

\* A child answers from the local address that the client used, as far as the kernel and
\* the request before told it (recvfrom.c:140-260).
THEOREM AnswersFromAskedHold ==
    StartupInit /\ [][StartupNext]_startup => []AnswersFromAsked
  <1>1. StartupInv => AnswersFromAsked
    BY DEF StartupInv, ReceivedInv
  <1> QED BY <1>1, StartupInvHolds, PTL

-----------------------------------------------------------------------------
(* The rules for file names.                                                *)

RuleSet ==
    [flags : SUBSET Letters, mode : {"any", "G", "P"}, match : SUBSET FileNames,
     to : [FileNames -> FileNames], pattern : {"none", "text", "x"}]

RuleTypes ==
    /\ rules \in Seq(RuleSet) /\ mapLines \in Seq(Lines)
    /\ ruleptr \in Nat \ {0}
    /\ deadman \in 0 .. DEADMAN_MAX_STEPS
    /\ again \in BOOLEAN
    /\ visited \subseteq 1 .. Len(rules)

\* Before the request no rule was tried.
FreshInv ==
    /\ remapPc \in {"parse", "idle"} => visited = {} /\ again = FALSE /\ deadman = DEADMAN_MAX_STEPS
    /\ remapPc \in {"match", "after"} => ruleptr \in visited

\* deadman counts the rules that were tried; they are different ones as long as none came again.
CountInv == again = FALSE => Cardinality(visited) = DEADMAN_MAX_STEPS - deadman

\* Without a rule that restarts, rules are tried in their order.
NoRestart == \A i \in visited : "s" \notin rules[i].flags

OrderInv ==
    NoRestart =>
        /\ again = FALSE
        /\ remapPc = "rule" => \A i \in visited : i < ruleptr
        /\ remapPc \in {"match", "after"} => \A i \in visited : i =< ruleptr

RemapInv == RuleTypes /\ FreshInv /\ CountInv /\ OrderInv /\ FailureMeansLoop

LEMMA RemapInvInit == RemapInit => RemapInv
  <1> SUFFICES ASSUME RemapInit PROVE RemapInv
    OBVIOUS
  <1>1. DEADMAN_MAX_STEPS \in Nat
    BY RemapAssumption
  <1>2. PICK n \in 0 .. MaxLines : mapLines \in [1 .. n -> Lines]
    BY DEF RemapInit
  <1>3. n \in Nat /\ mapLines \in Seq(Lines)
    BY <1>2, RemapAssumption
  <1>4. RuleTypes
    <2>1. rules = <<>> /\ ruleptr = 1 /\ deadman = DEADMAN_MAX_STEPS /\ visited = {}
      BY DEF RemapInit, RemapStart
    <2>2. again \in BOOLEAN
      BY DEF RemapInit, RemapStart
    <2>3. rules \in Seq(RuleSet) /\ ruleptr \in Nat \ {0} /\ deadman \in 0 .. DEADMAN_MAX_STEPS
      BY <1>1, <2>1
    <2> QED BY <1>3, <2>1, <2>2, <2>3 DEF RuleTypes
  <1>5. FreshInv /\ OrderInv /\ FailureMeansLoop
    <2>1. remapPc = "parse" /\ visited = {} /\ again = FALSE /\ deadman = DEADMAN_MAX_STEPS
      BY DEF RemapInit, RemapStart
    <2> QED BY <2>1 DEF FreshInv, OrderInv, FailureMeansLoop
  <1>6. CountInv
    BY <1>1, FS_EmptySet DEF CountInv, RemapInit, RemapStart
  <1> QED BY <1>4, <1>5, <1>6 DEF RemapInv

\* A line that is right makes a rule.
LEMMA RuleOfLine ==
    ASSUME NEW l \in Lines
    PROVE  [flags |-> NormalFlags(l), mode |-> l.mode, match |-> l.match, to |-> l.to,
            pattern |-> l.pattern] \in RuleSet
  <1>1. l \in LineType
    BY RemapAssumption
  <1>2. NormalFlags(l) \in SUBSET Letters
    BY <1>1 DEF NormalFlags, LineType
  <1> QED BY <1>1, <1>2 DEF LineType, RuleSet

LEMMA ParseStep ==
    ASSUME RemapInv, ParseLine
    PROVE  RemapInv'
  <1>1. RuleTypes /\ FreshInv
    BY DEF RemapInv
  <1>2. remapPc = "parse" /\ remapPc' = "parse" /\ mapLines # <<>> /\ mapLines' = Tail(mapLines)
        /\ UNCHANGED <<ruleptr, deadman, visited, again>>
    BY DEF ParseLine, engine
  <1>3. Head(mapLines) \in Lines /\ mapLines' \in Seq(Lines)
    BY <1>1, <1>2 DEF RuleTypes
  <1>4. rules' \in Seq(RuleSet)
    <2> DEFINE l == Head(mapLines)
               r == [flags |-> NormalFlags(l), mode |-> l.mode, match |-> l.match, to |-> l.to,
                     pattern |-> l.pattern]
    <2>1. rules' = rules \/ rules' = Append(rules, r)
      BY DEF ParseLine
    <2>2. r \in RuleSet
      BY <1>3, RuleOfLine
    <2> HIDE DEF r
    <2> QED BY <1>1, <2>1, <2>2 DEF RuleTypes
  <1>5. visited = {} /\ again = FALSE /\ deadman = DEADMAN_MAX_STEPS
    BY <1>1, <1>2 DEF FreshInv
  <1>6. RuleTypes'
    BY <1>1, <1>2, <1>3, <1>4, <1>5 DEF RuleTypes
  <1>7. FreshInv' /\ OrderInv' /\ FailureMeansLoop' /\ CountInv'
    BY <1>2, <1>5 DEF RemapInv, FreshInv, OrderInv, FailureMeansLoop, CountInv
  <1> QED BY <1>6, <1>7 DEF RemapInv

\* Steps that neither try a rule nor give up.
LEMMA PlainStep ==
    ASSUME RemapInv,
           \/ ParseDone \/ (\E m \in {"G", "P"}, name \in FileNames : RewriteAccess(m, name))
           \/ LastRule \/ SkipRule \/ Fault \/ Abort \/ Match \/ NoMatch \/ AfterRule
    PROVE  RemapInv'
  <1>1. RuleTypes /\ FreshInv /\ CountInv /\ OrderInv /\ FailureMeansLoop
    BY DEF RemapInv
  <1>2. UNCHANGED <<rules, visited, again>>
    BY DEF ParseDone, RewriteAccess, LastRule, SkipRule, Fault, Abort, Match, NoMatch, AfterRule, engine
  <1>3. mapLines' = mapLines
    BY DEF ParseDone, RewriteAccess, LastRule, SkipRule, Fault, Abort, Match, NoMatch, AfterRule
  <1>4. deadman' = deadman
    <2>1. CASE \E m \in {"G", "P"}, name \in FileNames : RewriteAccess(m, name)
      BY <1>1, <2>1 DEF RewriteAccess, DeadmanStart, FreshInv
    <2>2. CASE ~\E m \in {"G", "P"}, name \in FileNames : RewriteAccess(m, name)
      BY <2>2 DEF ParseDone, LastRule, SkipRule, Fault, Abort, Match, NoMatch, AfterRule, engine
    <2> QED BY <2>1, <2>2
  <1>5. NoRestart' = NoRestart /\ CountInv' /\ (again => \E i \in visited : "s" \in rules[i].flags)
    BY <1>1, <1>2, <1>4 DEF NoRestart, CountInv, FailureMeansLoop
  <1>6. ruleptr \in Nat /\ ruleptr > 0
    BY <1>1 DEF RuleTypes
  \* Where the rules begin, go on, or end.
  <1>7. CASE ParseDone \/ LastRule \/ Fault
    <2>1. ruleptr' = ruleptr /\ remapPc' \in {"config", "idle", "named", "fault"}
          /\ (remapPc' = "idle" => remapPc = "parse")
      BY <1>7 DEF ParseDone, LastRule, Fault, engine
    <2> QED BY <1>1, <1>2, <1>3, <1>4, <1>5, <2>1
            DEF RemapInv, RuleTypes, FreshInv, OrderInv, FailureMeansLoop
  <1>8. CASE \E m \in {"G", "P"}, name \in FileNames : RewriteAccess(m, name)
    <2>1. remapPc = "idle" /\ ruleptr' = 1 /\ remapPc' \in {"named", "rule"}
      BY <1>8 DEF RewriteAccess
    <2>2. visited = {}
      BY <1>1, <2>1 DEF FreshInv
    <2> QED BY <1>1, <1>2, <1>3, <1>4, <1>5, <2>1, <2>2
            DEF RemapInv, RuleTypes, FreshInv, OrderInv, FailureMeansLoop
  <1>9. CASE SkipRule
    <2>1. remapPc = "rule" /\ remapPc' = "rule" /\ ruleptr' = ruleptr + 1
      BY <1>9 DEF SkipRule
    <2>2. \A i \in visited : i \in Nat
      BY <1>1 DEF RuleTypes
    <2> QED BY <1>1, <1>2, <1>3, <1>4, <1>5, <1>6, <2>1, <2>2
            DEF RemapInv, RuleTypes, FreshInv, OrderInv, FailureMeansLoop
  <1>10. CASE Abort
    <2>1. remapPc' = "denied" /\ ruleptr' = ruleptr /\ errmsg' # "default"
      BY <1>10 DEF Abort
    <2> QED BY <1>1, <1>2, <1>3, <1>4, <1>5, <2>1
            DEF RemapInv, RuleTypes, FreshInv, OrderInv, FailureMeansLoop
  <1>11. CASE Match \/ NoMatch
    <2>1. remapPc = "match" /\ remapPc' \in {"match", "after"} /\ ruleptr' = ruleptr
      BY <1>11 DEF Match, NoMatch, engine
    <2> QED BY <1>1, <1>2, <1>3, <1>4, <1>5, <2>1
            DEF RemapInv, RuleTypes, FreshInv, OrderInv, FailureMeansLoop
  <1>12. CASE AfterRule
    <2>1. remapPc = "after" /\ remapPc' \in {"named", "rule"}
      BY <1>12 DEF AfterRule
    <2>2. ruleptr \in visited /\ \A i \in visited : i \in Nat
      BY <1>1, <2>1 DEF FreshInv, RuleTypes
    <2>3. \/ ruleptr' = ruleptr /\ remapPc' = "named"
          \/ ruleptr' = ruleptr + 1
          \/ ruleptr' = 2 /\ "s" \in rules[ruleptr].flags
      BY <1>12 DEF AfterRule, Rule
    <2>4. ruleptr' \in Nat \ {0}
      BY <1>6, <2>3
    <2>5. OrderInv'
      <3> SUFFICES ASSUME NoRestart'
                   PROVE  again' = FALSE /\ (remapPc' = "rule" => \A i \in visited' : i < ruleptr')
        BY <2>1 DEF OrderInv
      <3>1. NoRestart
        BY <1>5
      <3>2. again = FALSE /\ \A i \in visited : i =< ruleptr
        BY <1>1, <2>1, <3>1 DEF OrderInv
      <3>3. "s" \notin rules[ruleptr].flags
        BY <2>2, <3>1 DEF NoRestart
      <3> QED BY <1>2, <1>6, <2>2, <2>3, <3>2, <3>3
    <2> QED BY <1>1, <1>2, <1>3, <1>4, <1>5, <2>1, <2>4, <2>5
            DEF RemapInv, RuleTypes, FreshInv, FailureMeansLoop
  <1> QED BY <1>7, <1>8, <1>9, <1>10, <1>11, <1>12

\* A rule is tried.
LEMMA TryStep ==
    ASSUME RemapInv, TryRule
    PROVE  RemapInv'
  <1>1. RuleTypes /\ FreshInv /\ CountInv /\ OrderInv /\ FailureMeansLoop
    BY DEF RemapInv
  <1>2. /\ remapPc = "rule" /\ remapPc' = "match" /\ ruleptr =< Len(rules) /\ deadman > 0
        /\ deadman' = deadman - 1 /\ visited' = visited \cup {ruleptr}
        /\ UNCHANGED <<rules, mapLines, ruleptr>>
    BY DEF TryRule, Applicable, DeadmanLeft
  <1>3. again' = (again \/ ruleptr \in visited)
    BY DEF TryRule
  <1>4. again' \in BOOLEAN /\ (again' = FALSE => again = FALSE /\ ruleptr \notin visited)
    BY <1>1, <1>3 DEF RuleTypes
  <1>5. ruleptr \in 1 .. Len(rules) /\ deadman \in Nat /\ DEADMAN_MAX_STEPS \in Nat
        /\ visited \subseteq 1 .. Len(rules) /\ Len(rules) \in Nat
    BY <1>1, <1>2, RemapAssumption DEF RuleTypes
  <1>6. RuleTypes'
    BY <1>1, <1>2, <1>4, <1>5 DEF RuleTypes
  <1>7. CountInv'
    <2> SUFFICES ASSUME again' = FALSE
                 PROVE  Cardinality(visited') = DEADMAN_MAX_STEPS - deadman'
      BY DEF CountInv
    <2>1. IsFiniteSet(visited)
      <3>1. 1 \in Int /\ Len(rules) \in Int /\ visited \in SUBSET (1 .. Len(rules))
        BY <1>5
      <3>2. IsFiniteSet(1 .. Len(rules))
        BY <3>1, FS_Interval, Zenon
      <3> QED BY <3>1, <3>2, FS_Subset, Zenon
    <2>2. Cardinality(visited \cup {ruleptr}) = Cardinality(visited) + 1
      BY <1>4, <2>1, FS_AddElement
    <2>3. Cardinality(visited) = DEADMAN_MAX_STEPS - deadman
      BY <1>1, <1>4 DEF CountInv
    <2> QED BY <1>2, <1>5, <2>2, <2>3
  <1>8. NoRestart' => NoRestart
    BY <1>2 DEF NoRestart
  <1>9. OrderInv'
    <2> SUFFICES ASSUME NoRestart'
                 PROVE  again' = FALSE /\ \A i \in visited' : i =< ruleptr'
      BY <1>2 DEF OrderInv
    <2>1. again = FALSE /\ \A i \in visited : i < ruleptr
      BY <1>1, <1>2, <1>8 DEF OrderInv
    <2>2. ruleptr \notin visited
      BY <1>5, <2>1
    <2>3. again' = FALSE
      BY <1>3, <2>1, <2>2
    <2> QED BY <1>2, <1>5, <2>1, <2>3
  <1>10. FailureMeansLoop'
    BY <1>2, <1>4, <1>9 DEF FailureMeansLoop, OrderInv, NoRestart
  <1>11. FreshInv'
    BY <1>2 DEF FreshInv
  <1> QED BY <1>6, <1>7, <1>9, <1>10, <1>11 DEF RemapInv

\* The loop is broken: as many rules were tried as the table may have.
LEMMA BreakStep ==
    ASSUME RemapInv, BreakLoop
    PROVE  RemapInv'
  <1>1. RuleTypes /\ FreshInv /\ CountInv /\ OrderInv /\ FailureMeansLoop
    BY DEF RemapInv
  <1>2. /\ remapPc = "rule" /\ remapPc' = "denied" /\ ruleptr =< Len(rules) /\ deadman = 0
        /\ UNCHANGED <<rules, mapLines, ruleptr, deadman, visited, again>>
    BY DEF BreakLoop, Applicable, engine
  <1>3. ruleptr \in 1 .. Len(rules) /\ DEADMAN_MAX_STEPS \in Nat
        /\ visited \subseteq 1 .. Len(rules) /\ Len(rules) \in Nat
    BY <1>1, <1>2, RemapAssumption DEF RuleTypes
  <1>4. ASSUME again = FALSE, ruleptr \notin visited
        PROVE  Len(rules) > DEADMAN_MAX_STEPS
    <2>1. IsFiniteSet(1 .. Len(rules)) /\ Cardinality(1 .. Len(rules)) = Len(rules)
      <3>1. 1 \in Int /\ Len(rules) \in Int /\ Len(rules) > 0
        BY <1>3
      <3>2. /\ IsFiniteSet(1 .. Len(rules))
            /\ Cardinality(1 .. Len(rules)) = IF 1 > Len(rules) THEN 0 ELSE Len(rules) - 1 + 1
        BY <3>1, FS_Interval, Zenon
      <3> QED BY <3>1, <3>2
    <2>2. IsFiniteSet(visited)
      BY <1>3, <2>1, FS_Subset
    <2>3. Cardinality(visited \cup {ruleptr}) = Cardinality(visited) + 1
      BY <1>4, <2>2, FS_AddElement
    <2>4. Cardinality(visited) = DEADMAN_MAX_STEPS
      BY <1>1, <1>2, <1>3, <1>4 DEF CountInv
    <2>5. Cardinality(visited \cup {ruleptr}) =< Cardinality(1 .. Len(rules))
      BY <1>3, <2>1, FS_Subset
    <2> QED BY <1>3, <2>1, <2>3, <2>4, <2>5
  <1>5. again = FALSE \/ again = TRUE
    BY <1>1 DEF RuleTypes
  <1>6. FailureMeansLoop'
    BY <1>1, <1>2, <1>4, <1>5 DEF FailureMeansLoop
  <1>7. RuleTypes' /\ FreshInv' /\ CountInv' /\ OrderInv'
    BY <1>1, <1>2 DEF RuleTypes, FreshInv, CountInv, OrderInv, NoRestart
  <1> QED BY <1>6, <1>7 DEF RemapInv

\* Whatever the rules are, "Remap table failure" is never the answer to a table that fits
\* deadman's count and tries no rule twice, and rules come again only after one that
\* restarts (remap.c:341-357).
THEOREM FailureMeansLoopHolds ==
    RemapInit /\ [][RemapNext]_remap => []FailureMeansLoop
  <1>1. RemapInv /\ UNCHANGED remap => RemapInv'
    BY DEF remap, engine, RemapInv, RuleTypes, FreshInv, CountInv, OrderInv, NoRestart, FailureMeansLoop
  <1>2. RemapInv /\ RemapNext => RemapInv'
    BY ParseStep, PlainStep, TryStep, BreakStep DEF RemapNext, RewriteStep
  <1>3. RemapInv => FailureMeansLoop
    BY DEF RemapInv
  <1> QED BY <1>1, <1>2, <1>3, RemapInvInit, PTL

-----------------------------------------------------------------------------
(* FlattenSeq, by its recursion: what the library's definition computes for *)
(* sequences of any length.                                                 *)

\* The recursion that FlattenSeq runs over the first n members of a sequence.
IsFlattening(f, seqs, n) ==
    f = [i \in 1 .. n |-> IF i = 1 THEN seqs[i] ELSE f[i - 1] \o seqs[i]]

LEMMA FlatteningExists ==
    ASSUME NEW seqs, NEW n \in Nat
    PROVE  \E f : IsFlattening(f, seqs, n)
  <1> DEFINE T == {k \in Nat : ~\E f : IsFlattening(f, seqs, k)}
  <1> SUFFICES ASSUME T # {}
               PROVE  FALSE
    OBVIOUS
  <1>1. PICK k \in T : \A y \in T : k =< y
    <2>1. T \in SUBSET Nat
      OBVIOUS
    <2> HIDE DEF T
    <2> QED
      BY <2>1, LeastNatural
  <1>2. k # 0
    <2> DEFINE e == [i \in 1 .. 0 |-> <<>>]
    <2>1. IsFlattening(e, seqs, 0)
      BY DEF IsFlattening
    <2> QED
      BY <2>1
  <1>3. k - 1 \in Nat /\ k - 1 \notin T
    BY <1>1, <1>2
  <1>4. PICK f : IsFlattening(f, seqs, k - 1)
    BY <1>3
  <1> DEFINE g == [i \in 1 .. k |-> IF i < k THEN f[i]
                                    ELSE IF i = 1 THEN seqs[i] ELSE f[i - 1] \o seqs[i]]
  <1>5. ASSUME NEW i \in 1 .. k
        PROVE  g[i] = IF i = 1 THEN seqs[i] ELSE g[i - 1] \o seqs[i]
    <2>1. CASE i < k
      <3>1. i \in 1 .. k - 1 /\ g[i] = f[i]
        BY <1>3, <2>1
      <3>2. f[i] = IF i = 1 THEN seqs[i] ELSE f[i - 1] \o seqs[i]
        BY <1>4, <3>1 DEF IsFlattening
      <3>3. i # 1 => g[i - 1] = f[i - 1]
        BY <1>3, <2>1
      <3> QED
        BY <3>1, <3>2, <3>3
    <2>2. CASE i = k
      <3>1. i # 1 => g[i - 1] = f[i - 1]
        BY <1>3, <2>2
      <3>2. g[i] = IF i = 1 THEN seqs[i] ELSE f[i - 1] \o seqs[i]
        BY <1>3, <2>2
      <3> QED
        BY <3>1, <3>2
    <2> QED
      BY <1>3, <2>1, <2>2
  <1>6. IsFlattening(g, seqs, k)
    BY <1>5, Zenon DEF IsFlattening
  <1> QED
    BY <1>1, <1>6

LEMMA FlattenRecursion ==
    ASSUME NEW seqs, Len(seqs) \in Nat \ {0}
    PROVE  \E f : IsFlattening(f, seqs, Len(seqs)) /\ FlattenSeq(seqs) = f[Len(seqs)]
  <1>1. \E f : IsFlattening(f, seqs, Len(seqs))
    BY FlatteningExists
  <1> DEFINE h == CHOOSE f : IsFlattening(f, seqs, Len(seqs))
  <1>2. IsFlattening(h, seqs, Len(seqs))
    BY <1>1, Zenon
  <1>3. h = CHOOSE f : f = [i \in 1 .. Len(seqs) |-> IF i = 1 THEN seqs[i] ELSE f[i - 1] \o seqs[i]]
    BY Zenon DEF IsFlattening
  <1>4. FlattenSeq(seqs) = h[Len(seqs)]
    <2>1. Len(seqs) # 0
      OBVIOUS
    <2> QED
    BY <1>3, <2>1, Zenon DEF FlattenSeq
  <1> QED
    BY <1>2, <1>4

\* What FlattenSeq of a sequence depends on, and that it is a sequence.
LEMMA FlatteningUnique ==
    ASSUME NEW S, NEW s \in Seq(Seq(S)), NEW t \in Seq(Seq(S)), NEW f, NEW g,
           Len(s) =< Len(t), \A i \in 1 .. Len(s) : s[i] = t[i],
           IsFlattening(f, s, Len(s)), IsFlattening(g, t, Len(t))
    PROVE  \A i \in 1 .. Len(s) : f[i] = g[i] /\ f[i] \in Seq(S)
  <1> DEFINE n == Len(s)
  <1> DEFINE T == {i \in 1 .. n : ~(f[i] = g[i] /\ f[i] \in Seq(S))}
  <1>0. n \in Nat /\ Len(t) \in Nat
    <2>1. Len(s) \in Nat
      BY LenProperties
    <2>2. Len(t) \in Nat
      BY LenProperties
    <2> QED
      BY <2>1, <2>2
  <1>a. \A i \in 1 .. n : f[i] = IF i = 1 THEN s[i] ELSE f[i - 1] \o s[i]
    BY DEF IsFlattening
  <1>b. \A i \in 1 .. n : g[i] = IF i = 1 THEN s[i] ELSE g[i - 1] \o s[i]
    <2>1. \A i \in 1 .. Len(t) : g[i] = IF i = 1 THEN t[i] ELSE g[i - 1] \o t[i]
      BY DEF IsFlattening
    <2>2. \A i \in 1 .. n : i \in 1 .. Len(t) /\ t[i] = s[i]
      BY <1>0
    <2> QED
      BY <2>1, <2>2
  <1>c. \A i \in 1 .. n : s[i] \in Seq(S)
    BY ElementOfSeq
  <1> HIDE DEF n
  <1> SUFFICES ASSUME T # {}
               PROVE  FALSE
    BY DEF n
  <1>1. T \in SUBSET Nat
    BY <1>0
  <1>2. PICK k \in T : \A y \in T : k =< y
    <2> HIDE DEF T
    <2> QED
      BY <1>1, LeastNatural
  <1>3. k \in 1 .. n /\ k \in Nat
    BY <1>0
  <1>4. CASE k = 1
    BY <1>3, <1>4, <1>a, <1>b, <1>c
  <1>5. CASE k # 1
    <2>1. k - 1 \in 1 .. n /\ k - 1 \notin T
      BY <1>0, <1>2, <1>3, <1>5
    <2>2. f[k - 1] = g[k - 1] /\ f[k - 1] \in Seq(S)
      BY <2>1
    <2>3. f[k] = f[k - 1] \o s[k] /\ g[k] = f[k - 1] \o s[k]
      BY <1>3, <1>5, <2>2, <1>a, <1>b
    <2>4. f[k - 1] \o s[k] \in Seq(S)
      BY <1>3, <2>2, <1>c, ConcatProperties
    <2> QED
      BY <1>3, <2>3, <2>4
  <1> QED
    BY <1>4, <1>5

LEMMA FlattenType ==
    ASSUME NEW S, NEW s \in Seq(Seq(S))
    PROVE  FlattenSeq(s) \in Seq(S)
  <1>1. CASE Len(s) = 0
    <2>1. s = <<>>
      BY <1>1, EmptySeq
    <2>2. FlattenSeq(s) = s
      BY <1>1, Zenon DEF FlattenSeq
    <2> QED
      BY <2>1, <2>2, EmptySeq
  <1>2. CASE Len(s) # 0
    <2>1. Len(s) \in Nat \ {0}
      BY <1>2, LenProperties
    <2>2. PICK f : IsFlattening(f, s, Len(s)) /\ FlattenSeq(s) = f[Len(s)]
      BY <2>1, FlattenRecursion
    <2>3. Len(s) \in 1 .. Len(s)
      BY <2>1
    <2>4. f[Len(s)] \in Seq(S)
      BY <2>1, <2>2, <2>3, FlatteningUnique
    <2> QED
      BY <2>2, <2>4
  <1> QED
    BY <1>1, <1>2

LEMMA FlattenAppend ==
    ASSUME NEW S, NEW s \in Seq(Seq(S)), NEW x \in Seq(S)
    PROVE  FlattenSeq(Append(s, x)) = FlattenSeq(s) \o x
  <1> DEFINE t == Append(s, x)
  <1>1. /\ t \in Seq(Seq(S)) /\ Len(t) = Len(s) + 1 /\ Len(s) \in Nat
        /\ \A i \in 1 .. Len(s) : s[i] = t[i]
        /\ t[Len(s) + 1] = x
    BY AppendProperties, LenProperties
  <1> HIDE DEF t
  <1>0. Len(t) \in Nat \ {0}
    BY <1>1
  <1>2. PICK g : IsFlattening(g, t, Len(t)) /\ FlattenSeq(t) = g[Len(t)]
    BY <1>0, FlattenRecursion, Zenon
  <1>3. \A i \in 1 .. Len(t) : g[i] = IF i = 1 THEN t[i] ELSE g[i - 1] \o t[i]
    BY <1>2 DEF IsFlattening
  <1>4. CASE Len(s) = 0
    <2>1. FlattenSeq(s) = s
      BY <1>4, Zenon DEF FlattenSeq
    <2>2. s = <<>>
      BY <1>4, EmptySeq
    <2>3. Len(t) = 1 /\ t[1] = x
      BY <1>1, <1>4
    <2>4. FlattenSeq(t) = x
      BY <1>2, <1>3, <2>3
    <2> QED
      BY <2>1, <2>2, <2>4, ConcatEmptySeq DEF t
  <1>5. CASE Len(s) # 0
    <2>1. Len(s) \in Nat \ {0}
      BY <1>1, <1>5
    <2>2. PICK f : IsFlattening(f, s, Len(s)) /\ FlattenSeq(s) = f[Len(s)]
      BY <2>1, FlattenRecursion
    <2>3. Len(s) \in 1 .. Len(s) /\ Len(s) =< Len(t)
      BY <1>1, <2>1
    <2>4. f[Len(s)] = g[Len(s)]
      <3>1. \A i \in 1 .. Len(s) : f[i] = g[i] /\ f[i] \in Seq(S)
        BY <1>1, <1>2, <2>2, <2>3, FlatteningUnique, Zenon
      <3> QED
        BY <2>3, <3>1
    <2>5. g[Len(t)] = g[Len(s)] \o x
      <3>1. Len(t) \in 1 .. Len(t) /\ Len(t) # 1 /\ Len(t) - 1 = Len(s) /\ t[Len(t)] = x
        BY <1>1, <2>1
      <3> QED
        BY <1>3, <3>1
    <2> QED
      BY <1>2, <2>2, <2>4, <2>5 DEF t
  <1> QED
    BY <1>4, <1>5

LEMMA FunctionIsSeq ==
    ASSUME NEW S, NEW n \in Nat, NEW m \in [1 .. n -> S]
    PROVE  m \in Seq(S) /\ Len(m) = n
  <1>1. m \in Seq(S)
    BY SeqDef
  <1>2. Len(m) \in Nat /\ DOMAIN m = 1 .. Len(m) /\ DOMAIN m = 1 .. n
    BY <1>1, LenProperties
  <1> QED
    BY <1>1, <1>2

\* One more member.
LEMMA FlattenOneMore ==
    ASSUME NEW S, NEW n \in Nat, NEW m \in [1 .. n -> Seq(S)], NEW k \in [1 .. n + 1 -> Seq(S)],
           \A i \in 1 .. n : k[i] = m[i]
    PROVE  FlattenSeq(k) = FlattenSeq(m) \o k[n + 1]
  <1>1. m \in Seq(Seq(S)) /\ Len(m) = n
    BY FunctionIsSeq
  <1>2. n + 1 \in Nat /\ n + 1 \in 1 .. n + 1
    OBVIOUS
  <1>3. k \in Seq(Seq(S)) /\ Len(k) = n + 1
    BY <1>2, FunctionIsSeq
  <1>4. k[n + 1] \in Seq(S)
    BY <1>2
  <1>5. /\ Append(m, k[n + 1]) \in Seq(Seq(S)) /\ Len(Append(m, k[n + 1])) = n + 1
        /\ \A i \in 1 .. n : Append(m, k[n + 1])[i] = m[i]
        /\ Append(m, k[n + 1])[n + 1] = k[n + 1]
    BY <1>1, <1>4, AppendProperties
  <1>6. \A i \in 1 .. n + 1 : i \in 1 .. n \/ i = n + 1
    OBVIOUS
  <1>7. k = Append(m, k[n + 1])
    BY <1>3, <1>5, <1>6, SeqEqual
  <1>8. FlattenSeq(Append(m, k[n + 1])) = FlattenSeq(m) \o k[n + 1]
    BY <1>1, <1>4, FlattenAppend
  <1> QED
    BY <1>7, <1>8

\* Nothing to flatten.
LEMMA FlattenNothing ==
    ASSUME NEW m \in [1 .. 0 -> {}]
    PROVE  FlattenSeq(m) = <<>>
  <1>1. m \in Seq({}) /\ Len(m) = 0
    BY FunctionIsSeq
  <1>2. m = <<>>
    BY <1>1, EmptySeq
  <1> QED
    BY <1>1, <1>2, Zenon DEF FlattenSeq

-----------------------------------------------------------------------------
(* Netascii: Encode and Decode, one character at a time.                    *)

\* The netascii of one character.
Netascii1(c) == CASE c = LF -> <<CR, LF>>
                  [] c = CR -> <<CR, NUL>>
                  [] OTHER -> <<c>>

LEMMA NetasciiType ==
    ASSUME NEW c \in Bytes
    PROVE  /\ Netascii1(c) \in Seq(Bytes)
           /\ c = LF => Netascii1(c) = <<CR, LF>>
           /\ c = CR => Netascii1(c) = <<CR, NUL>>
           /\ c \notin {LF, CR} => Netascii1(c) = <<c>>
  <1>1. /\ c = LF => Netascii1(c) = <<CR, LF>>
        /\ c = CR => Netascii1(c) = <<CR, NUL>>
        /\ c \notin {LF, CR} => Netascii1(c) = <<c>>
    BY DEF Netascii1, LF, CR
  <1>2. <<CR, LF>> \in Seq(Bytes) /\ <<CR, NUL>> \in Seq(Bytes) /\ <<c>> \in Seq(Bytes)
    BY DEF Bytes
  <1> QED
    BY <1>1, <1>2

LEMMA EncodeStep ==
    ASSUME NEW text \in Seq(Bytes), NEW c \in Bytes
    PROVE  Encode(Append(text, c)) = Encode(text) \o Netascii1(c)
  <1> DEFINE n == Len(text)
             g == Append(text, c)
             m == [i \in 1 .. Len(text) |-> Netascii1(text[i])]
             k == [i \in 1 .. Len(g) |-> Netascii1(g[i])]
  <1>0. /\ n \in Nat /\ Len(g) = n + 1 /\ g[n + 1] = c
        /\ \A i \in 1 .. n : g[i] = text[i] /\ text[i] \in Bytes
        /\ \A i \in 1 .. Len(g) : g[i] \in Bytes
    BY AppendProperties, LenProperties, ElementOfSeq
  <1>1. Encode(text) = FlattenSeq(m) /\ Encode(g) = FlattenSeq(k)
    BY Zenon DEF Encode, Netascii1
  <1> HIDE DEF g
  <1>2. m \in [1 .. n -> Seq(Bytes)] /\ k \in [1 .. n + 1 -> Seq(Bytes)]
    BY <1>0, NetasciiType
  <1>3. k[n + 1] = Netascii1(c) /\ \A i \in 1 .. n : k[i] = m[i]
    BY <1>0
  <1> HIDE DEF m, k, n
  <1>4. FlattenSeq(k) = FlattenSeq(m) \o k[n + 1]
    BY <1>0, <1>2, <1>3, FlattenOneMore
  <1> QED
    BY <1>1, <1>3, <1>4 DEF g

LEMMA EncodeEmpty == Encode(<<>>) = <<>>
  <1>1. Encode(<<>>) = FlattenSeq([i \in 1 .. Len(<<>>) |-> Netascii1(<<>>[i])])
    BY Zenon DEF Encode, Netascii1
  <1>2. [i \in 1 .. Len(<<>>) |-> Netascii1(<<>>[i])] \in [1 .. 0 -> {}]
    BY EmptySeq
  <1> QED
    BY <1>1, <1>2, FlattenNothing

LEMMA EncodeType ==
    ASSUME NEW text \in Seq(Bytes)
    PROVE  Encode(text) \in Seq(Bytes)
  <1> DEFINE m == [i \in 1 .. Len(text) |-> Netascii1(text[i])]
  <1>1. Encode(text) = FlattenSeq(m)
    BY Zenon DEF Encode, Netascii1
  <1>2. Len(text) \in Nat /\ \A i \in 1 .. Len(text) : text[i] \in Bytes
    BY LenProperties, ElementOfSeq
  <1>3. m \in [1 .. Len(text) -> Seq(Bytes)]
    BY <1>2, NetasciiType
  <1>4. m \in Seq(Seq(Bytes))
    BY <1>2, <1>3, FunctionIsSeq
  <1> QED
    BY <1>1, <1>4, FlattenType

\* The characters of a stream that Decode drops, and what it keeps of each.
Dropped(stream, i) ==
    \/ stream[i] = CR /\ i < Len(stream) /\ stream[i + 1] = LF
    \/ stream[i] = NUL /\ i > 1 /\ stream[i - 1] = CR
Kept(stream) == [i \in 1 .. Len(stream) |-> IF Dropped(stream, i) THEN <<>> ELSE <<stream[i]>>]

EndsWithCr(stream) == Len(stream) > 0 /\ stream[Len(stream)] = CR

LEMMA DecodeIsKept == ASSUME NEW t PROVE Decode(t) = FlattenSeq(Kept(t))
  BY Zenon DEF Decode, Kept, Dropped

LEMMA KeptType ==
    ASSUME NEW t \in Seq(Bytes)
    PROVE  /\ Len(t) \in Nat /\ Kept(t) \in [1 .. Len(t) -> Seq(Bytes)]
           /\ Kept(t) \in Seq(Seq(Bytes)) /\ Len(Kept(t)) = Len(t)
  <1>1. Len(t) \in Nat
    BY LenProperties
  <1>2. ASSUME NEW i \in 1 .. Len(t)
        PROVE  <<t[i]>> \in Seq(Bytes)
    <2>1. t[i] \in Bytes
      BY ElementOfSeq
    <2> QED
      BY <2>1
  <1>3. Kept(t) \in [1 .. Len(t) -> Seq(Bytes)]
    BY <1>2 DEF Kept
  <1> QED
    BY <1>1, <1>3, FunctionIsSeq

LEMMA DecodeType ==
    ASSUME NEW t \in Seq(Bytes)
    PROVE  Decode(t) \in Seq(Bytes)
  BY KeptType, DecodeIsKept, FlattenType

LEMMA DecodeEmpty == Decode(<<>>) = <<>>
  <1>1. Kept(<<>>) \in [1 .. 0 -> {}]
    BY EmptySeq DEF Kept
  <1> QED
    BY <1>1, FlattenNothing, DecodeIsKept

\* What one more character does to what Decode gives.
LEMMA DecodeStep ==
    ASSUME NEW t \in Seq(Bytes), NEW c \in Bytes
    PROVE  /\ EndsWithCr(t) /\ c = LF => Decode(Append(t, c)) = Append(Front(Decode(t)), LF)
           /\ EndsWithCr(t) /\ c = NUL => Decode(Append(t, c)) = Decode(t)
           /\ ~(EndsWithCr(t) /\ c \in {LF, NUL}) => Decode(Append(t, c)) = Append(Decode(t), c)
  <1> DEFINE n == Len(t)
             u == Append(t, c)
  <1>0. /\ n \in Nat /\ u \in Seq(Bytes) /\ Len(u) = n + 1 /\ u[n + 1] = c
        /\ \A i \in 1 .. n : u[i] = t[i]
    BY AppendProperties, LenProperties
  <1>1. Kept(t) \in [1 .. n -> Seq(Bytes)] /\ Kept(u) \in [1 .. n + 1 -> Seq(Bytes)]
    BY <1>0, KeptType
  <1> HIDE DEF u
  <1>2. \A i \in 1 .. n - 1 : Kept(u)[i] = Kept(t)[i]
    <2> SUFFICES ASSUME NEW i \in 1 .. n - 1
                 PROVE  Kept(u)[i] = Kept(t)[i]
      OBVIOUS
    <2>1. /\ i \in 1 .. n /\ i + 1 \in 1 .. n /\ i \in 1 .. n + 1 /\ i < n /\ i < n + 1
          /\ i > 1 => i - 1 \in 1 .. n
      BY <1>0
    <2>2. Dropped(u, i) <=> Dropped(t, i)
      BY <1>0, <2>1 DEF Dropped
    <2> QED
      BY <1>0, <2>1, <2>2 DEF Kept
  <1>3. n > 0 => Kept(t)[n] = IF Dropped(t, n) THEN <<>> ELSE <<t[n]>>
    BY <1>0 DEF Kept
  <1>4. n > 0 => Kept(u)[n] = IF Dropped(u, n) THEN <<>> ELSE <<t[n]>>
    BY <1>0 DEF Kept
  <1>5. Kept(u)[n + 1] = IF EndsWithCr(t) /\ c = NUL THEN <<>> ELSE <<c>>
    <2>1. Dropped(u, n + 1) <=> (EndsWithCr(t) /\ c = NUL)
      <3>1. n + 1 > 1 <=> n > 0
        BY <1>0
      <3>2. ~(n + 1 < Len(u)) /\ n + 1 - 1 = n
        BY <1>0
      <3>3. n > 0 => u[n] = t[n]
        BY <1>0
      <3> QED
        BY <1>0, <3>1, <3>2, <3>3 DEF Dropped, EndsWithCr
    <2>2. n + 1 \in 1 .. Len(u)
      BY <1>0
    <2> QED
      BY <1>0, <2>1, <2>2 DEF Kept
  <1>6. CASE EndsWithCr(t) /\ c = LF
    <2>0. n > 0 /\ t[n] = CR /\ CR # NUL /\ LF # NUL /\ n - 1 \in Nat /\ n \in 1 .. n
      BY <1>0, <1>6 DEF EndsWithCr, CR, NUL, LF
    <2>1. Kept(t)[n] = <<CR>>
      BY <1>3, <2>0 DEF Dropped
    <2>2. Dropped(u, n)
      BY <1>0, <1>6, <2>0 DEF Dropped
    <2>3. Kept(u)[n] = <<>> /\ Kept(u)[n + 1] = <<LF>>
      BY <1>4, <1>5, <1>6, <2>0, <2>2
    <2> DEFINE p == [i \in 1 .. n - 1 |-> Kept(t)[i]]
               q == [i \in 1 .. n |-> Kept(u)[i]]
    <2>4. /\ p \in [1 .. n - 1 -> Seq(Bytes)] /\ q \in [1 .. (n - 1) + 1 -> Seq(Bytes)]
          /\ Kept(t) \in [1 .. (n - 1) + 1 -> Seq(Bytes)]
      BY <1>0, <1>1, <2>0
    <2>5. /\ \A i \in 1 .. n - 1 : Kept(t)[i] = p[i] /\ q[i] = p[i]
          /\ \A i \in 1 .. n : Kept(u)[i] = q[i]
          /\ q[n] = <<>>
      BY <1>0, <1>2, <2>0, <2>3
    <2> HIDE DEF p, q
    <2>6. FlattenSeq(Kept(t)) = FlattenSeq(p) \o Kept(t)[(n - 1) + 1]
      BY <2>0, <2>4, <2>5, FlattenOneMore
    <2>7. FlattenSeq(q) = FlattenSeq(p) \o q[(n - 1) + 1]
      BY <2>0, <2>4, <2>5, FlattenOneMore
    <2>8. q \in [1 .. n -> Seq(Bytes)] /\ (n - 1) + 1 = n
      BY <1>0, <2>4
    <2>9. FlattenSeq(Kept(u)) = FlattenSeq(q) \o Kept(u)[n + 1]
      BY <1>0, <1>1, <2>5, <2>8, FlattenOneMore
    <2>10. p \in Seq(Seq(Bytes))
      BY <2>0, <2>4, FunctionIsSeq
    <2>11. PICK f \in Seq(Bytes) : f = FlattenSeq(p)
      BY <2>10, FlattenType
    <2>12. FlattenSeq(q) = f
      BY <2>5, <2>7, <2>8, <2>11, ConcatEmptySeq
    <2>13. Decode(u) = f \o <<LF>> /\ Decode(t) = f \o <<CR>>
      BY <2>1, <2>3, <2>6, <2>8, <2>9, <2>11, <2>12, DecodeIsKept
    <2>14. Front(f \o <<CR>>) = f /\ f \o <<LF>> = Append(f, LF)
      BY <2>11 DEF Front
    <2> QED
      BY <1>6, <2>0, <2>13, <2>14 DEF u
  <1>7. CASE ~(EndsWithCr(t) /\ c = LF)
    <2>1. \A i \in 1 .. n : Kept(u)[i] = Kept(t)[i]
      <3>1. ASSUME n > 0
            PROVE  Dropped(u, n) <=> Dropped(t, n)
        <4>1. /\ n \in 1 .. n /\ n < Len(u) /\ ~(n < Len(t))
              /\ n > 1 => n - 1 \in 1 .. n
          BY <1>0, <3>1
        <4> QED
          BY <1>0, <1>7, <3>1, <4>1 DEF Dropped, EndsWithCr
      <3>2. n > 0 => Kept(u)[n] = Kept(t)[n]
        BY <1>3, <1>4, <3>1
      <3> QED
        BY <1>0, <1>2, <3>2
    <2>2. FlattenSeq(Kept(u)) = FlattenSeq(Kept(t)) \o Kept(u)[n + 1]
      BY <1>0, <1>1, <2>1, FlattenOneMore
    <2>3. PICK f \in Seq(Bytes) : f = Decode(t)
      BY DecodeType
    <2>4. Decode(u) = f \o Kept(u)[n + 1]
      BY <2>2, <2>3, DecodeIsKept
    <2>5. f \o <<>> = f /\ f \o <<c>> = Append(f, c)
      BY <2>3, ConcatEmptySeq
    <2> QED
      BY <1>5, <1>7, <2>3, <2>4, <2>5 DEF u, LF, NUL
  <1> QED
    BY <1>6, <1>7

-----------------------------------------------------------------------------
(* Beginnings of a text.                                                    *)

LEMMA OneCharacterMore ==
    ASSUME NEW text \in Seq(Bytes), NEW k \in Nat, k < Len(text)
    PROVE  /\ text[k + 1] \in Bytes
           /\ SubSeq(text, 1, k) \in Seq(Bytes) /\ Len(SubSeq(text, 1, k)) = k
           /\ SubSeq(text, 1, k + 1) = Append(SubSeq(text, 1, k), text[k + 1])
           /\ SubSeq(text, 1, k + 1)[k + 1] = text[k + 1]
  <1>0. Len(text) \in Nat /\ k + 1 \in 1 .. Len(text) /\ 1 \in 1 .. Len(text)
    BY LenProperties
  <1>1. text[k + 1] \in Bytes
    BY <1>0, ElementOfSeq
  <1>2. \A i \in 1 .. k : text[i] \in Bytes
    BY <1>0, ElementOfSeq
  <1>3. SubSeq(text, 1, k) \in Seq(Bytes) /\ Len(SubSeq(text, 1, k)) = k
    BY <1>2, SubSeqProperties
  <1>4. k + 1 \in 1 .. Len(text) /\ (k + 1) - 1 = k
    BY <1>0
  <1>5. SubSeq(text, 1, k + 1) = SubSeq(text, 1, k) \o <<text[k + 1]>>
    BY <1>0, <1>4, SubSeqRecursiveSecond
  <1>6. SubSeq(text, 1, k + 1) = Append(SubSeq(text, 1, k), text[k + 1])
    BY <1>1, <1>3, <1>5, AppendIsConcat
  <1>7. Append(SubSeq(text, 1, k), text[k + 1])[k + 1] = text[k + 1]
    BY <1>1, <1>3, AppendProperties
  <1> QED
    BY <1>1, <1>3, <1>6, <1>7

LEMMA Beginning ==
    ASSUME NEW text \in Seq(Bytes), NEW k \in 0 .. Len(text)
    PROVE  SubSeq(text, 1, k) \in Seq(Bytes) /\ Len(SubSeq(text, 1, k)) = k
  <1>1. \A i \in 1 .. k : text[i] \in Bytes
    BY LenProperties, ElementOfSeq
  <1>2. k \in Nat
    OBVIOUS
  <1> QED
    BY <1>1, <1>2, SubSeqProperties

\* The netascii of a beginning of the file begins the netascii of the file.
LEMMA EncodeBegins ==
    ASSUME NEW text \in Seq(Bytes), NEW j \in 0 .. Len(text)
    PROVE  \E r \in Seq(Bytes) : Encode(text) = Encode(SubSeq(text, 1, j)) \o r
  <1> DEFINE n == Len(text)
             Begins(k) == \E r \in Seq(Bytes) : Encode(text) = Encode(SubSeq(text, 1, k)) \o r
             T == {d \in 0 .. n : ~Begins(n - d)}
  <1>0. n \in Nat
    BY LenProperties
  <1>1. Begins(n)
    <2>1. SubSeq(text, 1, n) = text
      BY SubSeqFull
    <2>2. Encode(text) = Encode(text) \o <<>> /\ <<>> \in Seq(Bytes)
      BY EncodeType, ConcatEmptySeq, EmptySeq
    <2> QED
      BY <2>1, <2>2
  <1>2. ASSUME NEW k \in Nat, k < n, Begins(k + 1)
        PROVE  Begins(k)
    <2>1. PICK r \in Seq(Bytes) : Encode(text) = Encode(SubSeq(text, 1, k + 1)) \o r
      BY <1>2
    <2>2. PICK s \in Seq(Bytes) : s = SubSeq(text, 1, k)
      BY <1>2, OneCharacterMore
    <2>3. PICK c \in Bytes : SubSeq(text, 1, k + 1) = Append(s, c)
      BY <1>2, <2>2, OneCharacterMore
    <2>4. PICK e \in Seq(Bytes) : e = Encode(s)
      BY EncodeType
    <2>5. PICK x \in Seq(Bytes) : x = Netascii1(c)
      BY NetasciiType
    <2>6. Encode(text) = (e \o x) \o r
      BY <2>1, <2>3, <2>4, <2>5, EncodeStep
    <2>7. (e \o x) \o r = e \o (x \o r) /\ x \o r \in Seq(Bytes)
      BY ConcatAssociative, ConcatProperties
    <2> QED
      BY <2>2, <2>4, <2>6, <2>7
  <1> HIDE DEF Begins
  <1>3. T = {}
    <2> SUFFICES ASSUME T # {}
                 PROVE  FALSE
      OBVIOUS
    <2>1. T \in SUBSET Nat
      BY <1>0
    <2>2. PICK d \in T : \A y \in T : d =< y
      <3> HIDE DEF T
      <3> QED
        BY <2>1, LeastNatural
    <2>3. d \in 0 .. n /\ ~Begins(n - d)
      OBVIOUS
    <2>4. d # 0
      BY <1>0, <1>1, <2>3
    <2>5. d - 1 \in 0 .. n /\ d - 1 \notin T
      BY <1>0, <2>1, <2>2, <2>3, <2>4
    <2>6. Begins(n - (d - 1)) /\ n - (d - 1) = (n - d) + 1 /\ n - d \in Nat /\ n - d < n
      BY <1>0, <2>3, <2>4, <2>5
    <2> QED
      BY <1>2, <2>3, <2>6
  <1>4. n - j \in 0 .. n /\ n - (n - j) = j
    BY <1>0
  <1>5. Begins(j)
    BY <1>3, <1>4
  <1> QED
    BY <1>5 DEF Begins

\* A client that converts back has the file: Decode undoes Encode.
LEMMA DecodeEncode ==
    ASSUME NEW text \in Seq(Bytes)
    PROVE  Decode(Encode(text)) = text
  <1> DEFINE n == Len(text)
             Back(k) == LET s == SubSeq(text, 1, k)
                        IN  Decode(Encode(s)) = s /\ ~EndsWithCr(Encode(s))
             T == {k \in 0 .. n : ~Back(k)}
  <1>0. n \in Nat
    BY LenProperties
  <1>1. Back(0)
    <2>1. SubSeq(text, 1, 0) = <<>>
      BY SubSeqEmpty
    <2>2. ~EndsWithCr(<<>>)
      BY EmptySeq DEF EndsWithCr
    <2> QED
      BY <2>1, <2>2, EncodeEmpty, DecodeEmpty
  <1>2. ASSUME NEW k \in Nat, k < n, Back(k)
        PROVE  Back(k + 1)
    <2>1. PICK s \in Seq(Bytes) : s = SubSeq(text, 1, k)
      BY <1>2, OneCharacterMore
    <2>2. PICK c \in Bytes : SubSeq(text, 1, k + 1) = Append(s, c)
      BY <1>2, <2>1, OneCharacterMore
    <2>3. PICK e \in Seq(Bytes) : e = Encode(s)
      BY EncodeType
    <2>4. Decode(e) = s /\ ~EndsWithCr(e)
      BY <1>2, <2>1, <2>3
    <2>5. Encode(Append(s, c)) = e \o Netascii1(c)
      BY <2>3, EncodeStep
    <2>6. LF \in Bytes /\ CR \in Bytes /\ NUL \in Bytes /\ CR # LF /\ CR # NUL /\ LF # NUL
      BY DEF Bytes, LF, CR, NUL
    <2>7. \A x \in Bytes : /\ Append(e, x) \in Seq(Bytes)
                           /\ EndsWithCr(Append(e, x)) <=> x = CR
      BY AppendProperties, LenProperties DEF EndsWithCr
    <2>8. CASE c \in {LF, CR}
      <3>1. PICK h \in {LF, NUL} : Netascii1(c) = <<CR, h>> /\ (c = LF => h = LF) /\ (c = CR => h = NUL)
        BY <2>8, <2>6, NetasciiType
      <3>2. h \in Bytes
        BY <2>6
      <3>3. PICK f \in Seq(Bytes) : f = Append(e, CR)
        BY <2>6, <2>7
      <3>4. EndsWithCr(f) /\ Decode(f) = Append(s, CR)
        BY <2>4, <2>6, <2>7, <3>3, DecodeStep
      <3>5. e \o <<CR, h>> = Append(f, h)
        BY <2>6, <3>2, <3>3
      <3>6. Front(Append(s, CR)) = s
        BY <2>6 DEF Front
      <3>7. Decode(Append(f, h)) = Append(s, c)
        <4>1. c = LF => Decode(Append(f, LF)) = Append(Front(Decode(f)), LF)
          BY <2>6, <3>4, DecodeStep
        <4>2. c = CR => Decode(Append(f, NUL)) = Decode(f)
          BY <2>6, <3>4, DecodeStep
        <4> QED
          BY <2>8, <3>1, <3>4, <3>6, <4>1, <4>2
      <3>8. ~EndsWithCr(Append(f, h))
        <4>1. Len(Append(f, h)) = Len(f) + 1 /\ Append(f, h)[Len(f) + 1] = h
          BY <3>2, AppendProperties
        <4> QED
          BY <2>6, <4>1 DEF EndsWithCr
      <3> QED
        BY <2>2, <2>5, <3>1, <3>5, <3>7, <3>8
    <2>9. CASE c \notin {LF, CR}
      <3>1. Netascii1(c) = <<c>> /\ e \o <<c>> = Append(e, c)
        BY <2>9, NetasciiType, AppendIsConcat
      <3>2. Decode(Append(e, c)) = Append(s, c)
        BY <2>4, DecodeStep
      <3>3. ~EndsWithCr(Append(e, c))
        BY <2>7, <2>9
      <3> QED
        BY <2>2, <2>5, <3>1, <3>2, <3>3
    <2> QED
      BY <2>8, <2>9
  <1> HIDE DEF Back
  <1>3. T = {}
    <2> SUFFICES ASSUME T # {}
                 PROVE  FALSE
      OBVIOUS
    <2>1. T \in SUBSET Nat
      BY <1>0
    <2>2. PICK k \in T : \A y \in T : k =< y
      <3> HIDE DEF T
      <3> QED
        BY <2>1, LeastNatural
    <2>3. k \in 0 .. n /\ ~Back(k)
      OBVIOUS
    <2>4. k # 0
      BY <1>0, <1>1, <2>3
    <2>5. k - 1 \in 0 .. n /\ k - 1 \notin T
      BY <1>0, <2>1, <2>2, <2>3, <2>4
    <2>6. Back(k - 1) /\ (k - 1) + 1 = k /\ k - 1 \in Nat /\ k - 1 < n
      BY <1>0, <2>3, <2>4, <2>5
    <2> QED
      BY <1>2, <2>3, <2>6
  <1>4. Back(n)
    BY <1>0, <1>3
  <1>5. SubSeq(text, 1, n) = text
    BY SubSeqFull
  <1> QED
    BY <1>4, <1>5 DEF Back

-----------------------------------------------------------------------------
(* Netascii: the invariant of a transfer.                                   *)

Sent == FlattenSeq(blocks) \o buffer
TakenText == SubSeq(source, 1, offset)

ConversionTypes ==
    /\ cpc \in {"fill", "put", "sent", "written"}
    /\ source \in Seq(Bytes) /\ offset \in 0 .. Len(source)
    /\ seg \in Nat \ {0}
    /\ newline \in BOOLEAN
    /\ buffer \in Seq(Bytes) /\ blocks \in Seq(Seq(Bytes)) /\ disk \in Seq(Bytes)

\* Every block but the last one of a transfer is full.
FullInv ==
    \A i \in 1 .. Len(blocks) :
        Len(blocks[i]) = seg \/ (cpc \in {"sent", "written"} /\ i = Len(blocks))

\* What was sent is the netascii of what was taken, but for half an expansion.
SentInv ==
    /\ cpc \in {"fill", "sent"} =>
         Encode(TakenText) = IF newline THEN Append(Sent, SecondHalf) ELSE Sent
    /\ cpc = "sent" => ~newline /\ offset = Len(source)

\* What is on disk is what was taken, converted; prevchar is its last character.
WrittenInv ==
    cpc \in {"put", "written"} =>
        disk = Decode(TakenText) /\ (prevchar = CR <=> EndsWithCr(TakenText))

ConversionInv == ConversionTypes /\ FullInv /\ SentInv /\ WrittenInv

LEMMA SentType ==
    ASSUME ConversionTypes
    PROVE  FlattenSeq(blocks) \in Seq(Bytes) /\ Sent \in Seq(Bytes)
  <1>1. FlattenSeq(blocks) \in Seq(Bytes)
    BY FlattenType DEF ConversionTypes
  <1> QED
    BY <1>1, ConcatProperties DEF ConversionTypes, Sent

LEMMA ConversionInvInit == ConversionInit => ConversionInv
  <1> SUFFICES ASSUME ConversionInit
               PROVE  ConversionInv
    OBVIOUS
  <1> USE DEF ConversionInit, ConversionStart
  <1>1. source \in Seq(Bytes)
    <2>1. PICK m \in Nat : source \in [1 .. m -> Bytes]
      BY NetasciiAssumption DEF BoundedSeq, SeqOf
    <2> QED
      BY <2>1, FunctionIsSeq
  <1>2. Len(source) \in Nat
    BY <1>1, LenProperties
  <1>3. ConversionTypes
    <2>1. <<>> \in Seq(Bytes) /\ <<>> \in Seq(Seq(Bytes))
      BY EmptySeq
    <2>2. offset \in 0 .. Len(source) /\ seg \in Nat \ {0}
      BY <1>2, NetasciiAssumption
    <2> QED
      BY <1>1, <2>1, <2>2 DEF ConversionTypes
  <1>4. TakenText = <<>>
    BY <1>2, SubSeqEmpty DEF TakenText
  <1>5. Sent = <<>>
    <2>1. FlattenSeq(<<>>) = <<>>
      BY EmptySeq, Zenon DEF FlattenSeq
    <2> QED
      <3>1. <<>> \in Seq(Bytes)
        BY EmptySeq
      <3>2. <<>> \o <<>> = <<>>
        BY <3>1, ConcatEmptySeq
      <3>3. blocks = <<>> /\ buffer = <<>>
        OBVIOUS
      <3> QED
        BY <2>1, <3>2, <3>3, Zenon DEF Sent
  <1>6. FullInv
    BY EmptySeq DEF FullInv
  <1>7. SentInv
    <2>1. newline = FALSE /\ cpc # "sent"
      OBVIOUS
    <2>2. Encode(TakenText) = Sent
      BY <1>4, <1>5, EncodeEmpty
    <2> QED
      BY <2>1, <2>2 DEF SentInv
  <1>8. WrittenInv
    <2>1. ~EndsWithCr(<<>>)
      BY EmptySeq DEF EndsWithCr
    <2> QED
      BY <1>4, <2>1, DecodeEmpty DEF WrittenInv, CR
  <1> QED
    BY <1>3, <1>6, <1>7, <1>8 DEF ConversionInv

LEMMA FillKept ==
    ASSUME ConversionInv, Fill
    PROVE  ConversionInv'
  <1>0. /\ ConversionTypes /\ FullInv /\ SentInv
        /\ cpc = "fill" /\ UNCHANGED <<cpc, source, seg, blocks, disk>>
    BY DEF ConversionInv, Fill
  <1>1. PICK f \in Seq(Bytes) : f = FlattenSeq(blocks)
    BY <1>0, SentType
  <1>2. \A x \in Bytes : /\ Append(buffer, x) \in Seq(Bytes)
                         /\ f \o Append(buffer, x) = Append(f \o buffer, x)
    BY <1>0, <1>1 DEF ConversionTypes
  <1>3. CASE newline
    <2>1. /\ buffer' = Append(buffer, SecondHalf) /\ newline' = FALSE
          /\ UNCHANGED <<offset, prevchar>> /\ SecondHalf \in Bytes
      BY <1>3 DEF Fill, SecondHalf, Bytes
    <2>2. ConversionTypes'
      BY <1>0, <1>2, <2>1 DEF ConversionTypes
    <2>3. Sent' = Append(Sent, SecondHalf) /\ TakenText' = TakenText
      BY <1>0, <1>1, <1>2, <2>1 DEF Sent, TakenText
    <2>4. SentInv'
      BY <1>0, <1>3, <2>1, <2>3 DEF SentInv
    <2> QED
      BY <1>0, <2>2, <2>4 DEF ConversionInv, FullInv, WrittenInv
  <1>4. CASE ~newline
    <2>0. offset \in Nat /\ Len(source) \in Nat /\ offset < Len(source) /\ offset' = offset + 1
      BY <1>0, <1>4, LenProperties DEF Fill, ConversionTypes
    <2>1. PICK c \in Bytes : c = source[offset + 1]
      BY <1>0, <2>0, OneCharacterMore DEF ConversionTypes
    <2>2. /\ buffer' = Append(buffer, IF c \in {LF, CR} THEN CR ELSE c)
          /\ newline' = (c \in {LF, CR})
          /\ prevchar' = IF c \in {LF, CR} THEN c ELSE prevchar
      BY <1>4, <2>1 DEF Fill
    <2>3. PICK t \in Seq(Bytes) : t = TakenText /\ TakenText' = Append(t, c)
      BY <1>0, <2>0, <2>1, OneCharacterMore DEF ConversionTypes, TakenText
    <2>4. PICK s \in Seq(Bytes) : s = Sent /\ s = Encode(t)
      BY <1>0, <1>4, <2>3, SentType DEF SentInv
    <2>5. Encode(TakenText') = s \o Netascii1(c)
      BY <2>3, <2>4, EncodeStep
    <2>6. offset' \in 0 .. Len(source') /\ CR \in Bytes /\ LF \in Bytes /\ NUL \in Bytes
      BY <1>0, <2>0 DEF Bytes
    <2>7. newline' \in BOOLEAN
      BY <2>2
    <2>8. ConversionTypes'
      BY <1>0, <1>2, <2>2, <2>6, <2>7 DEF ConversionTypes
    <2>9. Encode(TakenText') = IF newline' THEN Append(Sent', SecondHalf') ELSE Sent'
      <3>1. CASE c \in {LF, CR}
        <4>1. Sent' = Append(s, CR) /\ newline'
          BY <1>0, <1>1, <1>2, <2>2, <2>4, <2>6, <3>1 DEF Sent
        <4>2. SecondHalf' = IF c = LF THEN LF ELSE NUL
          BY <2>2, <3>1 DEF SecondHalf
        <4>3. Netascii1(c) = <<CR, SecondHalf'>> /\ SecondHalf' \in Bytes
          BY <2>6, <3>1, <4>2, NetasciiType
        <4>4. PICK h \in Bytes : h = SecondHalf'
          BY <4>3
        <4>5. s \o <<CR, h>> = Append(Append(s, CR), h)
          BY <2>6
        <4> QED
          BY <2>5, <4>1, <4>3, <4>4, <4>5
      <3>2. CASE c \notin {LF, CR}
        <4>1. Sent' = Append(s, c) /\ ~newline'
          BY <1>0, <1>1, <1>2, <2>2, <2>4, <3>2 DEF Sent
        <4>2. Netascii1(c) = <<c>>
          BY <3>2, NetasciiType
        <4> QED
          BY <2>5, <4>1, <4>2, AppendIsConcat
      <3> QED
        BY <3>1, <3>2
    <2>10. SentInv'
      BY <1>0, <2>9 DEF SentInv
    <2> QED
      BY <1>0, <2>8, <2>10 DEF ConversionInv, FullInv, WrittenInv
  <1> QED
    BY <1>3, <1>4

\* A block that ends changes nothing of what has been sent.
LEMMA BlockEnds ==
    ASSUME ConversionInv, cpc \in {"fill", "put"}, UNCHANGED <<source, seg, offset, disk, prevchar>>,
           cpc' \in {"fill", "put", "sent", "written"}, newline' \in BOOLEAN,
           blocks' = Append(blocks, buffer), buffer' = <<>>,
           Len(buffer) = seg \/ cpc' \in {"sent", "written"}
    PROVE  ConversionTypes' /\ FullInv' /\ Sent' = Sent
  <1>0. ConversionTypes /\ FullInv
    BY DEF ConversionInv
  <1>1. /\ blocks' \in Seq(Seq(Bytes)) /\ Len(blocks') = Len(blocks) + 1
        /\ Len(blocks) \in Nat
        /\ \A i \in 1 .. Len(blocks) : blocks'[i] = blocks[i]
        /\ blocks'[Len(blocks) + 1] = buffer
    BY <1>0, AppendProperties, LenProperties DEF ConversionTypes
  <1>2. ConversionTypes'
    BY <1>0, <1>1, EmptySeq DEF ConversionTypes
  <1>3. \A i \in 1 .. Len(blocks) : Len(blocks[i]) = seg
    BY <1>0 DEF FullInv
  <1>4. FullInv'
    BY <1>1, <1>3 DEF FullInv
  <1>5. FlattenSeq(blocks') = FlattenSeq(blocks) \o buffer
    BY <1>0, FlattenAppend DEF ConversionTypes
  <1>6. Sent \in Seq(Bytes)
    BY <1>0, SentType
  <1>7. Sent' = Sent
    BY <1>5, <1>6, ConcatEmptySeq DEF Sent
  <1> QED
    BY <1>2, <1>4, <1>7

LEMMA BlockFilledKept ==
    ASSUME ConversionInv, BlockFilled
    PROVE  ConversionInv'
  <1>0. ConversionTypes /\ SentInv /\ cpc = "fill"
    BY DEF ConversionInv, BlockFilled
  <1>1. /\ UNCHANGED <<source, seg, offset, disk, prevchar>> /\ newline' = newline
        /\ blocks' = Append(blocks, buffer) /\ buffer' = <<>>
        /\ cpc' = IF Len(buffer) = seg THEN "fill" ELSE "sent"
        /\ Len(buffer) = seg \/ (~newline /\ offset = Len(source))
    BY DEF BlockFilled, Carried
  <1>2. newline' \in BOOLEAN
    BY <1>0, <1>1 DEF ConversionTypes
  <1>3. ConversionTypes' /\ FullInv' /\ Sent' = Sent
    BY <1>0, <1>1, <1>2, BlockEnds
  <1>4. TakenText' = TakenText /\ SecondHalf' = SecondHalf
    BY <1>1 DEF TakenText, SecondHalf
  <1>5. SentInv'
    BY <1>0, <1>1, <1>3, <1>4 DEF SentInv
  <1>6. WrittenInv'
    BY <1>1 DEF WrittenInv
  <1> QED
    BY <1>3, <1>5, <1>6 DEF ConversionInv

LEMMA PutKept ==
    ASSUME ConversionInv, Put
    PROVE  ConversionInv'
  <1>0. /\ ConversionTypes /\ FullInv /\ WrittenInv /\ cpc = "put"
        /\ UNCHANGED <<cpc, source, seg, newline, blocks>>
    BY DEF ConversionInv, Put
  <1>1. offset \in Nat /\ Len(source) \in Nat /\ offset < Len(source) /\ offset' = offset + 1
    BY <1>0, LenProperties DEF Put, ConversionTypes
  <1>2. PICK c \in Bytes : c = source[offset + 1]
    BY <1>0, <1>1, OneCharacterMore DEF ConversionTypes
  <1>3. PICK t \in Seq(Bytes) : t = TakenText /\ TakenText' = Append(t, c)
    BY <1>0, <1>1, <1>2, OneCharacterMore DEF ConversionTypes, TakenText
  <1>4. disk = Decode(t) /\ (AfterCr <=> EndsWithCr(t))
    BY <1>0, <1>3 DEF WrittenInv, AfterCr
  <1>5. /\ disk' = CASE AfterCr /\ c = LF -> Append(Front(disk), LF)
                     [] AfterCr /\ c = NUL -> disk
                     [] OTHER -> Append(disk, c)
        /\ prevchar' = c /\ buffer' = Append(buffer, c)
    BY <1>2 DEF Put
  <1>6. disk' = Decode(Append(t, c))
    <2>0. LF # NUL
      BY DEF LF, NUL
    <2>1. CASE AfterCr /\ c = LF
      BY <1>4, <1>5, <2>0, <2>1, DecodeStep
    <2>2. CASE AfterCr /\ c = NUL
      BY <1>4, <1>5, <2>0, <2>2, DecodeStep
    <2>3. CASE ~(AfterCr /\ c \in {LF, NUL})
      BY <1>4, <1>5, <2>0, <2>3, DecodeStep
    <2> QED
      BY <2>1, <2>2, <2>3
  <1>7. /\ Append(t, c) \in Seq(Bytes) /\ Append(buffer, c) \in Seq(Bytes)
        /\ EndsWithCr(Append(t, c)) <=> c = CR
    <2>1. Len(t) \in Nat /\ Len(Append(t, c)) = Len(t) + 1 /\ Append(t, c)[Len(t) + 1] = c
      BY AppendProperties, LenProperties
    <2> QED
      BY <1>0, <2>1, AppendProperties DEF ConversionTypes, EndsWithCr
  <1>8. disk' \in Seq(Bytes)
    BY <1>6, <1>7, DecodeType
  <1>9. ConversionTypes'
    BY <1>0, <1>1, <1>5, <1>7, <1>8 DEF ConversionTypes
  <1>10. WrittenInv'
    BY <1>3, <1>5, <1>6, <1>7 DEF WrittenInv
  <1> QED
    BY <1>0, <1>9, <1>10 DEF ConversionInv, FullInv, SentInv

LEMMA BlockPutKept ==
    ASSUME ConversionInv, BlockPut
    PROVE  ConversionInv'
  <1>0. ConversionTypes /\ WrittenInv /\ cpc = "put"
    BY DEF ConversionInv, BlockPut
  <1>1. /\ UNCHANGED <<source, seg, offset, newline, disk, prevchar>>
        /\ blocks' = Append(blocks, buffer) /\ buffer' = <<>>
        /\ cpc' = IF Len(buffer) = seg THEN "put" ELSE "written"
    BY DEF BlockPut
  <1>2. newline' \in BOOLEAN
    BY <1>0, <1>1 DEF ConversionTypes
  <1>3. ConversionTypes' /\ FullInv'
    BY <1>0, <1>1, <1>2, BlockEnds
  <1>4. TakenText' = TakenText
    BY <1>1 DEF TakenText
  <1>5. WrittenInv'
    BY <1>0, <1>1, <1>4 DEF WrittenInv
  <1>6. SentInv'
    BY <1>1 DEF SentInv
  <1> QED
    BY <1>3, <1>5, <1>6 DEF ConversionInv

LEMMA ConversionInvHolds == ConversionInit /\ [][ConversionNext]_conversion => []ConversionInv
  <1>1. ConversionInv /\ UNCHANGED conversion => ConversionInv'
    BY DEF conversion, ConversionInv, ConversionTypes, FullInv, SentInv, WrittenInv, Sent,
           TakenText, SecondHalf
  <1>2. ConversionInv /\ [ConversionNext]_conversion => ConversionInv'
    BY <1>1, FillKept, BlockFilledKept, PutKept, BlockPutKept DEF ConversionNext
  <1> QED
    BY <1>2, ConversionInvInit, PTL

\* "conversions are lf -> cr,lf and cr -> cr,nul" (tftpsubs.c:115), for a file and a
\* segsize of any length: wherever the blocks begin and end, what is sent is at any
\* time the beginning of the whole file's netascii, and in the end the client has
\* the file back.
THEOREM SentIsEncodedHolds ==
    ConversionInit /\ [][ConversionNext]_conversion => []SentIsEncoded
  <1>1. ConversionInv => SentIsEncoded
    <2> SUFFICES ASSUME ConversionInv
                 PROVE  SentIsEncoded
      OBVIOUS
    <2>0. ConversionTypes /\ SentInv /\ FullInv
      BY DEF ConversionInv
    <2>1. PICK s \in Seq(Bytes) : s = Sent
      BY <2>0, SentType
    <2>2. ASSUME cpc = "fill"
          PROVE  IsPrefix(s, Encode(source))
      <3>1. PICK r \in Seq(Bytes) : Encode(source) = Encode(TakenText) \o r
        BY <2>0, EncodeBegins DEF ConversionTypes, TakenText
      <3>2. SecondHalf \in Bytes
        BY DEF SecondHalf, Bytes
      <3>3. PICK q \in Seq(Bytes) : Encode(TakenText) = s \o q
        <4>1. CASE newline
          <5>1. Encode(TakenText) = s \o <<SecondHalf>> /\ <<SecondHalf>> \in Seq(Bytes)
            BY <2>0, <2>1, <2>2, <3>2, <4>1, AppendIsConcat DEF SentInv
          <5> QED
            BY <5>1
        <4>2. CASE ~newline
          <5>1. Encode(TakenText) = s \o <<>> /\ <<>> \in Seq(Bytes)
            BY <2>0, <2>1, <2>2, <4>2, ConcatEmptySeq, EmptySeq DEF SentInv
          <5> QED
            BY <5>1
        <4> QED
          BY <4>1, <4>2
      <3>4. Encode(source) = s \o (q \o r) /\ q \o r \in Seq(Bytes)
        BY <3>1, <3>3, ConcatAssociative, ConcatProperties
      <3>5. PICK w \in Seq(Bytes) : Encode(source) = s \o w
        BY <3>4
      <3>6. Len(s) \in Nat /\ Len(w) \in Nat /\ Len(s \o w) = Len(s) + Len(w)
        BY LenProperties, ConcatProperties
      <3>7. SubSeq(s \o w, 1, Len(s)) = SubSeq(s, 1, Len(s))
        <4>1. CASE Len(s) = 0
          BY <4>1, SubSeqEmpty
        <4>2. CASE Len(s) # 0
          <5>1. 1 \in 1 .. Len(s) /\ Len(s) \in 1 .. Len(s)
            BY <3>6, <4>2
          <5> QED
            BY <5>1, SubSeqOfConcat1
        <4> QED
          BY <4>1, <4>2
      <3> QED
        BY <3>5, <3>6, <3>7 DEF IsPrefix
    <2>3. ASSUME cpc = "sent"
          PROVE  s = Encode(source) /\ Decode(s) = source
      <3>1. TakenText = source
        BY <2>0, <2>3, SubSeqFull DEF SentInv, TakenText, ConversionTypes
      <3>2. s = Encode(source)
        BY <2>0, <2>1, <2>3, <3>1 DEF SentInv
      <3> QED
        BY <2>0, <3>2, DecodeEncode DEF ConversionTypes
    <2> QED
      BY <2>0, <2>1, <2>2, <2>3 DEF SentIsEncoded, Sent, FullInv
  <1> QED
    BY <1>1, ConversionInvHolds, PTL

\* "CR,NUL -> CR and CR,LF => LF" (tftpsubs.c:176-179), for a stream and a segsize of
\* any length: wherever the blocks of an upload begin and end, the file on disk is
\* the stream converted.
THEOREM WrittenIsDecodedHolds ==
    ConversionInit /\ [][ConversionNext]_conversion => []WrittenIsDecoded
  <1>1. ConversionInv => WrittenIsDecoded
    BY DEF ConversionInv, WrittenInv, TakenText, WrittenIsDecoded
  <1> QED
    BY <1>1, ConversionInvHolds, PTL

-----------------------------------------------------------------------------
(* The parts side by side.                                                  *)

\* A behaviour of MCServer is one of each part, which may stand still.
LEMMA PartsRun ==
    Spec => /\ StartupInit /\ [][StartupNext]_startup
            /\ PortsInit /\ [][PortsNext]_ports
            /\ RequestInit /\ [][RequestNext]_requestVars
            /\ OptionsInit /\ [][OptionsNext]_optionsVars
            /\ RemapInit /\ [][RemapNext]_remap
            /\ ConversionInit /\ [][ConversionNext]_conversion
  <1>1. Init => /\ StartupInit /\ PortsInit /\ RequestInit /\ OptionsInit
                /\ RemapInit /\ ConversionInit
    BY DEF Init
  <1>2. [Next]_vars => /\ [StartupNext]_startup /\ [PortsNext]_ports
                       /\ [RequestNext]_requestVars /\ [OptionsNext]_optionsVars
                       /\ [RemapNext]_remap /\ [ConversionNext]_conversion
    <2>1. Next => /\ [StartupNext]_startup /\ [PortsNext]_ports
                  /\ [RequestNext]_requestVars /\ [OptionsNext]_optionsVars
                  /\ [RemapNext]_remap /\ [ConversionNext]_conversion
      BY DEF Next
    <2>2. UNCHANGED vars => /\ UNCHANGED startup /\ UNCHANGED ports
                            /\ UNCHANGED requestVars /\ UNCHANGED optionsVars
                            /\ UNCHANGED remap /\ UNCHANGED conversion
      BY DEF vars
    <2> QED BY <2>1, <2>2
  <1> QED BY <1>1, <1>2, PTL DEF Spec

\* The types of the parts hold in every behaviour of MCServer.
THEOREM ServerTypesHold == Spec => []TypeOK
  <1>1. RequestTypeOK /\ OptionsTypeOK => TypeOK
    BY DEF TypeOK
  <1> QED BY <1>1, PartsRun, RequestTypesHold, OptionsTypesHold, PTL

\* Every invariant of the parts holds in every behaviour of MCServer: what the run
\* Server checks for its small sets, for every value of the constants.
COROLLARY ServerInvariantsHold ==
    Spec => [](/\ ListensAsAsked /\ PathsKept /\ AnswersFromAsked /\ SearchExhaustive
               /\ FailureMeansLoop /\ NoMixedUpload /\ ReadStable /\ OackInForce
               /\ TriesKept /\ SentIsEncoded /\ WrittenIsDecoded)
  BY PartsRun, ListensAsAskedHolds, PathsKeptHold, AnswersFromAskedHold, SearchIsExhaustive,
     FailureMeansLoopHolds, NoMixedUploadHolds, ReadStableHolds, OackTellsTruth,
     TriesKeptHold, SentIsEncodedHolds, WrittenIsDecodedHolds, PTL

=============================================================================
