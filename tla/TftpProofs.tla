----------------------------- MODULE TftpProofs -----------------------------
(***************************************************************************)
(* The block numbers of Tftp, for any modulus and any rollover value: what *)
(* the proofs about either direction of a transfer need to know of them.   *)
(***************************************************************************)
EXTENDS Tftp, Integers, TLAPS

\* Numbers come round after this many blocks.
Period == BlockMod - Rollover

\* b is the number of chunk i: the numbers 0 .. BlockMod - 1 come first, then those
\* from Rollover on, again and again.
Numbered(i, b) ==
    /\ b \in BlockNos
    /\ \E q \in Nat : i = b + q * Period /\ (q > 0 => b >= Rollover)

\* The modulus leaves room for the rollover value and for late packets.
LEMMA PeriodIsLong ==
    /\ BlockMod \in Nat /\ Rollover \in Nat /\ MaxLag \in Nat /\ Chunks \in Nat \ {0}
    /\ Period \in Nat /\ Period > MaxLag + 1 /\ BlockMod > Rollover + 1
  BY TftpAssumption DEF Period

LEMMA FirstNumbers == Numbered(0, 0) /\ Numbered(1, 1)
  <1>1. 0 \in BlockNos /\ 1 \in BlockNos
    BY PeriodIsLong DEF BlockNos
  <1>2. 0 = 0 + 0 * Period /\ 1 = 1 + 0 * Period
    BY PeriodIsLong
  <1> QED
    BY <1>1, <1>2, 0 \in Nat, ~(0 > 0) DEF Numbered

\* if (!++block) block = rollover_val: the u_short wraps in NextBlock exactly at the
\* number where a client takes Rollover.
LEMMA NextBlockWraps ==
    \A b \in BlockNos : NextBlock(b) = IF b = BlockMod - 1 THEN Rollover ELSE b + 1
  <1> SUFFICES ASSUME NEW b \in BlockNos
               PROVE  NextBlock(b) = IF b = BlockMod - 1 THEN Rollover ELSE b + 1
    OBVIOUS
  <1>1. CASE b = BlockMod - 1
    <2>1. (b + 1) % BlockMod = 0
      BY <1>1, PeriodIsLong DEF BlockNos
    <2> QED BY <1>1, <2>1 DEF NextBlock
  <1>2. CASE b # BlockMod - 1
    <2>1. b + 1 \in 1 .. BlockMod - 1
      BY <1>2, PeriodIsLong DEF BlockNos
    <2>2. (b + 1) % BlockMod = b + 1
      BY <2>1, PeriodIsLong
    <2> QED BY <1>2, <2>1, <2>2 DEF NextBlock
  <1> QED BY <1>1, <1>2

LEMMA NextBlockType == \A b \in BlockNos : NextBlock(b) \in BlockNos
  <1> SUFFICES ASSUME NEW b \in BlockNos PROVE NextBlock(b) \in BlockNos
    OBVIOUS
  <1>1. b \in 0 .. BlockMod - 1
    BY DEF BlockNos
  <1>2. NextBlock(b) = IF b = BlockMod - 1 THEN Rollover ELSE b + 1
    BY NextBlockWraps
  <1> QED BY <1>1, <1>2, PeriodIsLong DEF BlockNos

\* NextBlock goes from the number of a chunk to the number of the next one.
LEMMA NextNumber ==
    ASSUME NEW i \in Nat, NEW b, Numbered(i, b)
    PROVE  Numbered(i + 1, NextBlock(b))
  <1>1. PICK q \in Nat : i = b + q * Period /\ (q > 0 => b >= Rollover)
    BY DEF Numbered
  <1>2. b \in Nat /\ b =< BlockMod - 1 /\ b \in BlockNos
    BY PeriodIsLong DEF Numbered, BlockNos
  <1>3. CASE b = BlockMod - 1
    <2>1. NextBlock(b) = Rollover /\ Rollover \in BlockNos
      BY <1>2, <1>3, NextBlockWraps, PeriodIsLong DEF BlockNos
    <2>2. i + 1 = Rollover + (q + 1) * Period
      BY <1>1, <1>3, PeriodIsLong DEF Period
    <2>3. q + 1 \in Nat /\ (q + 1 > 0 => Rollover >= Rollover)
      BY PeriodIsLong
    <2>4. \E p \in Nat : i + 1 = Rollover + p * Period /\ (p > 0 => Rollover >= Rollover)
      BY <2>2, <2>3
    <2> QED
      BY <2>1, <2>4 DEF Numbered
  <1>4. CASE b # BlockMod - 1
    <2>1. NextBlock(b) = b + 1 /\ b + 1 \in BlockNos
      BY <1>2, <1>4, NextBlockWraps, PeriodIsLong DEF BlockNos
    <2>2. i + 1 = (b + 1) + q * Period /\ (q > 0 => b + 1 >= Rollover)
      BY <1>1, <1>2, PeriodIsLong
    <2> QED
      BY <2>1, <2>2 DEF Numbered
  <1> QED BY <1>3, <1>4

\* A chunk has one number.
LEMMA OneNumber ==
    ASSUME NEW i \in Nat, NEW b, NEW c, Numbered(i, b), Numbered(i, c)
    PROVE  b = c
  <1>1. PICK q \in Nat : i = b + q * Period /\ (q > 0 => b >= Rollover)
    BY DEF Numbered
  <1>2. PICK r \in Nat : i = c + r * Period /\ (r > 0 => c >= Rollover)
    BY DEF Numbered
  <1>3. b \in 0 .. BlockMod - 1 /\ c \in 0 .. BlockMod - 1
    BY DEF Numbered, BlockNos
  <1>4. ASSUME q < r PROVE FALSE
    <2>1. (r - q) * Period >= Period
      BY <1>4, PeriodIsLong
    <2>2. r * Period - q * Period = (r - q) * Period
      BY PeriodIsLong
    <2> QED BY <1>1, <1>2, <1>3, <1>4, <2>1, <2>2, PeriodIsLong DEF Period
  <1>5. ASSUME r < q PROVE FALSE
    <2>1. (q - r) * Period >= Period
      BY <1>5, PeriodIsLong
    <2>2. q * Period - r * Period = (q - r) * Period
      BY PeriodIsLong
    <2> QED BY <1>1, <1>2, <1>3, <1>5, <2>1, <2>2, PeriodIsLong DEF Period
  <1>6. q = r
    BY <1>4, <1>5
  <1> QED BY <1>1, <1>2, <1>3, <1>6, PeriodIsLong

\* Chunks at most MaxLag + 1 apart have different numbers: a packet that is still in
\* flight is never taken for one of the round before.
LEMMA NumbersDiffer ==
    ASSUME NEW i \in Nat, NEW j \in Nat, NEW b, Numbered(i, b), Numbered(j, b),
           i =< j, j =< i + MaxLag + 1
    PROVE  i = j
  <1>1. PICK q \in Nat : i = b + q * Period /\ (q > 0 => b >= Rollover)
    BY DEF Numbered
  <1>2. PICK r \in Nat : j = b + r * Period /\ (r > 0 => b >= Rollover)
    BY DEF Numbered
  <1>3. b \in Nat
    BY PeriodIsLong DEF Numbered, BlockNos
  <1>4. ASSUME i < j PROVE FALSE
    <2>1. j - i = (r - q) * Period
      BY <1>1, <1>2, <1>3, PeriodIsLong
    <2>2. r - q >= 1
      BY <1>4, <2>1, PeriodIsLong
    <2>3. (r - q) * Period >= Period
      BY <2>2, PeriodIsLong
    <2> QED BY <2>1, <2>3, PeriodIsLong
  <1> QED BY <1>4

=============================================================================
