--------------------------- MODULE MonitorProofs ---------------------------
(***************************************************************************)
(* Theorems about Monitor and OperationView, for any number of children    *)
(* and any table of at most 255 slots.                                     *)
(***************************************************************************)
EXTENDS OperationView, FiniteSetTheorems, WellFoundedInduction, TLAPS

-----------------------------------------------------------------------------
(* Type correctness.                                                        *)

\* The uint8_t arithmetic of nb_operation stays within a uint8_t.
LEMMA Byte ==
    \A n \in 0 .. NbMod - 1 : Inc8(n) \in 0 .. NbMod - 1 /\ Dec8(n) \in 0 .. NbMod - 1
  BY DEF NbMod, Inc8, Dec8

\* Away from its ends the counter does not wrap around.
LEMMA ByteStep ==
    /\ \A n \in 0 .. 254 : Inc8(n) = n + 1
    /\ \A n \in 1 .. 255 : Dec8(n) = n - 1
  <1>1. ASSUME NEW n \in 0 .. 254 PROVE Inc8(n) = n + 1
    BY DEF Inc8, NbMod
  <1>2. ASSUME NEW n \in 1 .. 255 PROVE Dec8(n) = n - 1
    BY DEF Dec8, NbMod
  <1> QED BY <1>1, <1>2

\* The allocation loop of woo_alloc_operation stops at a free slot of the table.
LEMMA FirstFree == FreeSlots # {} => Min(FreeSlots) \in FreeSlots
  <1>1. SUFFICES ASSUME FreeSlots # {}
                 PROVE  \E x \in FreeSlots : \A y \in FreeSlots : x =< y
    BY DEF Min
  <1>2. FreeSlots \subseteq Nat
    BY MonitorAssumption DEF FreeSlots, Slots, NbMod
  <1> DEFINE R == OpToRel(<, Nat)
  <1>3. \E x \in FreeSlots : \A y \in FreeSlots : <<y, x>> \notin R
    <2> HIDE DEF R
    <2>1. IsWellFoundedOn(R, Nat)
      BY NatLessThanWellFounded DEF R
    <2> QED
      BY <2>1, <1>1, <1>2, WFMin
  <1>4. \A x, y \in FreeSlots : <<y, x>> \notin R => x =< y
    BY <1>2 DEF OpToRel
  <1> QED
    BY <1>3, <1>4

\* The next slot of a loop of the window is a slot, and 0 ends the loop.
LEMMA NextIndex == \A x \in Slots : (x + 1) % MaxOp \in Slots
  <1>1. MaxOp \in Nat /\ MaxOp > 0
    BY MonitorAssumption DEF NbMod
  <1>2. ASSUME NEW x \in Slots PROVE (x + 1) % MaxOp \in Slots
    <2>1. CASE x + 1 < MaxOp
      <3>1. (x + 1) % MaxOp = x + 1
        BY <1>1, <2>1 DEF Slots
      <3> QED BY <3>1, <2>1, <1>1 DEF Slots
    <2>2. CASE x + 1 = MaxOp
      <3>1. (x + 1) % MaxOp = 0
        BY <1>1, <2>2 DEF Slots
      <3> QED BY <3>1, <1>1 DEF Slots
    <2> QED BY <2>1, <2>2, <1>1 DEF Slots
  <1> QED BY <1>2

LEMMA FreshType ==
    /\ FreshTimeouts \in [Slots -> [first : 0 .. MaxBlock, age : 0 .. StallLimit + 1]]
    /\ [x \in Slots |-> Unset] \in [Slots -> Unset .. EndTime + 1]
    /\ 0 \in Slots /\ 0 \in 0 .. NbMod - 1 /\ 0 \in 0 .. MaxBlock
  BY MonitorAssumption DEF FreshTimeouts, Slots, NbMod, Unset

LEMMA TypeInit == Init => TypeOK
  <1> SUFFICES ASSUME Init PROVE TypeOK
    OBVIOUS
  <1>1. sem \in Nat
    BY DEF Init
  <1>2. enable \in [Children -> BOOLEAN] /\ sigpending \in BOOLEAN
    BY Zenon DEF Init
  <1>3. cpc \in [Children -> CPcs] /\ gpc \in GPcs
    BY DEF Init, CPcs, GPcs
  <1>4. oflags \in [Slots -> SUBSET OpFlags] /\ cflags \in [Children -> SUBSET OpFlags]
    BY DEF Init
  <1>5. m_items \in SUBSET Slots /\ gflags \in SUBSET OpFlags
    BY DEF Init
  <1> QED
    BY <1>1, <1>2, <1>3, <1>4, <1>5, FreshType DEF Init, TypeOK

\* Steps of the children keep the types.
LEMMA TypeChild ==
    ASSUME TypeOK, NEW c \in Children,
           Fork(c) \/ ChildStep(c) \/ SemInterrupted(c) \/ Killed(c)
    PROVE  TypeOK'
  <1> USE DEF TypeOK
  <1> USE DEF shared, childVars, guiVars, Goto, CPcs, AttachedPcs
  <1>1. CASE Fork(c)
    BY <1>1 DEF Fork
  <1>2. CASE WooInit(c)
    BY <1>2 DEF WooInit
  <1>3. CASE SemWait(c)
    BY <1>3 DEF SemWait
  <1>4. CASE SemInterrupted(c)
    BY <1>4 DEF SemInterrupted
  <1>5. CASE AllocFull(c) \/ AllocNone(c)
    <2>1. GiveUp(c) /\ sem' = sem + 1
      BY <1>5 DEF AllocFull, AllocNone
    <2> QED BY <2>1 DEF GiveUp
  <1>6. CASE AllocFind(c)
    <2>1. Min(FreeSlots) \in Slots
      BY <1>6, FirstFree DEF AllocFind, FreeSlots
    <2> QED BY <1>6, <2>1 DEF AllocFind
  <1>7. CASE AllocCount(c)
    <2>1. Inc8(cnb[c]) \in 0 .. NbMod - 1
      BY Byte
    <2>2. 0 \in 0 .. NbMod - 1
      BY DEF NbMod
    <2> QED BY <1>7, <2>1, <2>2 DEF AllocCount
  <1>8. CASE AllocFlag(c)
    BY <1>8, MonitorAssumption DEF AllocFlag, OpFlags
  <1>9. CASE AllocPost(c)
    BY <1>9 DEF AllocPost
  <1>10. CASE WakeUpGui(c)
    BY <1>10 DEF WakeUpGui
  <1>11. CASE Describe(c)
    BY <1>11 DEF Describe
  <1>12. CASE SetFlagLoad(c) \/ EndLoad(c)
    BY <1>12 DEF SetFlagLoad, EndLoad, LoadFlags
  <1>13. CASE SetFlagUpload(c) \/ SetFlagDownload(c) \/ EndStore(c)
    <2>1. PICK f \in OpFlags, p, q \in CPcs : StoreFlag(c, p, f, q)
      BY <1>13 DEF SetFlagUpload, SetFlagDownload, EndStore, OpFlags
    <2> QED BY <2>1 DEF StoreFlag
  <1>14. CASE IncrementBlock(c)
    BY <1>14, MonitorAssumption DEF IncrementBlock
  <1>15. CASE EndBlock(c)
    BY <1>15, MonitorAssumption DEF EndBlock
  <1>16. CASE Exit(c) \/ Killed(c)
    <2>1. Leave(c)
      BY <1>16 DEF Exit, Killed
    <2> QED BY <2>1, FreshType DEF Leave
  <1> QED
    BY <1>1, <1>2, <1>3, <1>4, <1>5, <1>6, <1>7, <1>8, <1>9, <1>10, <1>11, <1>12,
       <1>13, <1>14, <1>15, <1>16 DEF ChildStep

\* Steps of the window and of the clock keep the types.
LEMMA TypeGui ==
    ASSUME TypeOK, GuiStep \/ Stop \/ Tick
    PROVE  TypeOK'
  <1> USE DEF TypeOK
  <1> USE DEF shared, childVars, guiVars, GPcs
  <1>1. CASE Work
    BY <1>1 DEF Work
  <1>1h. CASE Hide
    BY <1>1h DEF Hide
  <1>2. CASE SigWait
    BY <1>2 DEF SigWait
  <1>3. CASE CheckTimeout
    BY <1>3, MonitorAssumption DEF CheckTimeout, Note
  <1>4. CASE MarkEnd \/ MarkTimeout
    <2>1. PICK f \in OpFlags, p \in GPcs, q \in GPcs : MarkFlag(p, {f}, q)
      BY <1>4 DEF MarkEnd, MarkTimeout, OpFlags
    <2> QED BY <2>1 DEF MarkFlag
  <1>4l. CASE LoadEnded
    BY <1>4l DEF LoadEnded
  <1>5. CASE CheckEnd
    BY <1>5, NextIndex, MonitorAssumption DEF CheckEnd, NextSlot, Unset
  <1>6. CASE SemLock
    BY <1>6 DEF SemLock
  <1>7. CASE RemoveReset
    BY <1>7 DEF RemoveReset
  <1>8. CASE RemoveCount
    <2>1. Dec8(gnb) \in 0 .. NbMod - 1
      BY Byte
    <2>2. 0 \in 0 .. NbMod - 1
      BY DEF NbMod
    <2> QED BY <1>8, <2>1, <2>2, MonitorAssumption DEF RemoveCount, EndArrayCleared, Unset
  <1>9. CASE SemUnlock
    BY <1>9, NextIndex DEF SemUnlock, NextSlot
  <1>10. CASE UpdateView
    BY <1>10, NextIndex DEF UpdateView, ItemsAfter
  <1>11. CASE Stop
    BY <1>11, FreshType DEF Stop
  <1>12. CASE Tick
    <2>1. m_timeout_array' \in
             [Slots -> [first : 0 .. MaxBlock, age : 0 .. StallLimit + 1]]
      <3>1. ASSUME NEW x \in Slots
            PROVE  [m_timeout_array[x] EXCEPT !.age = Older(@, StallLimit)]
                     \in [first : 0 .. MaxBlock, age : 0 .. StallLimit + 1]
        BY MonitorAssumption DEF Older
      <3> QED BY <1>12, <3>1 DEF Tick
    <2>2. m_end_array' \in [Slots -> Unset .. EndTime + 1]
      BY <1>12, MonitorAssumption DEF Tick, Older, Unset
    <2> QED BY <1>12, <2>1, <2>2 DEF Tick
  <1> QED
    BY <1>1, <1>1h, <1>2, <1>3, <1>4, <1>4l, <1>5, <1>6, <1>7, <1>8, <1>9, <1>10,
       <1>11, <1>12 DEF GuiStep

LEMMA TypeNext == TypeOK /\ [Next]_vars => TypeOK'
  <1> SUFFICES ASSUME TypeOK, [Next]_vars PROVE TypeOK'
    OBVIOUS
  <1>1. CASE UNCHANGED vars
    BY <1>1 DEF TypeOK, vars, shared, childVars, guiVars
  <1> QED
    BY <1>1, TypeChild, TypeGui DEF Next

\* Every variable keeps its type, whatever the faults: in particular the index
\* of a slot (data.c:193, application.cxx:149) never leaves the table.
THEOREM TypeCorrect == Spec => []TypeOK
  BY TypeInit, TypeNext, PTL DEF Spec

-----------------------------------------------------------------------------
(* Mutual exclusion.                                                        *)

\* Whoever is between sem_wait and sem_post is alone there and sem is 0.
MutexInv ==
    /\ SemMutex
    /\ sem \in {0, 1}
    /\ \A c \in Children : cpc[c] \in CriticalPcs => sem = 0
    /\ GuiCritical => sem = 0

LEMMA MutexInit == Init => MutexInv
  BY DEF Init, MutexInv, SemMutex, CriticalPcs, GuiCritical

\* The only steps that move a child into, or out of, its critical section.
LEMMA ChildMutex ==
    ASSUME TypeOK, MutexInv, "intr" \notin Faults, NEW c \in Children,
           Fork(c) \/ ChildStep(c) \/ SemInterrupted(c) \/ Killed(c)
    PROVE  MutexInv'
  <1> USE DEF TypeOK, MutexInv, SemMutex, CriticalPcs, GuiCritical
  <1> USE DEF guiVars, childVars, Goto
  <1>1. CASE SemWait(c)
    BY <1>1 DEF SemWait
  <1>2. CASE AllocFull(c) \/ AllocNone(c)
    <2>1. cpc[c] = "crit" /\ sem' = sem + 1 /\ GiveUp(c)
      BY <1>2 DEF AllocFull, AllocNone
    <2>2. cpc' = [cpc EXCEPT ![c] = "serve"] /\ gpc' = gpc
      BY <2>1 DEF GiveUp
    <2> QED BY <2>1, <2>2
  <1>3. CASE AllocFind(c)
    BY <1>3 DEF AllocFind
  <1>4. CASE AllocCount(c)
    BY <1>4 DEF AllocCount
  <1>5. CASE AllocFlag(c)
    BY <1>5 DEF AllocFlag
  <1>6. CASE AllocPost(c)
    BY <1>6 DEF AllocPost
  <1>7. CASE SemInterrupted(c)
    BY <1>7 DEF SemInterrupted
  <1>8. CASE Fork(c) \/ WooInit(c) \/ WakeUpGui(c) \/ Describe(c) \/ IncrementBlock(c)
             \/ EndBlock(c)
    BY <1>8 DEF Fork, WooInit, WakeUpGui, Describe, IncrementBlock, EndBlock
  <1>9. CASE SetFlagLoad(c) \/ EndLoad(c) \/ SetFlagUpload(c) \/ SetFlagDownload(c)
             \/ EndStore(c)
    <2>1. PICK p \in {"kindstore", "run", "endstore", "endblock"} :
             cpc' = [cpc EXCEPT ![c] = p] /\ sem' = sem /\ gpc' = gpc
      BY <1>9 DEF SetFlagLoad, EndLoad, SetFlagUpload, SetFlagDownload, EndStore,
                  LoadFlags, StoreFlag
    <2> QED BY <2>1
  <1>10. CASE Exit(c) \/ Killed(c)
    BY <1>10 DEF Exit, Killed, Leave
  <1> QED
    BY <1>1, <1>2, <1>3, <1>4, <1>5, <1>6, <1>7, <1>8, <1>9, <1>10 DEF ChildStep

LEMMA GuiMutex ==
    ASSUME TypeOK, MutexInv, GuiStep \/ Stop \/ Tick
    PROVE  MutexInv'
  <1> USE DEF TypeOK, MutexInv, SemMutex, GuiCritical, childVars
  <1>1. CASE SemLock
    BY <1>1 DEF SemLock
  <1>2. CASE SemUnlock
    BY <1>2 DEF SemUnlock, NextSlot
  <1>3. CASE RemoveReset \/ RemoveCount
    BY <1>3 DEF RemoveReset, RemoveCount
  <1>4. CASE Work \/ Hide \/ SigWait \/ CheckTimeout \/ CheckEnd \/ UpdateView
    BY <1>4 DEF Work, Hide, SigWait, CheckTimeout, CheckEnd, UpdateView, NextSlot
  <1>4m. CASE MarkEnd \/ LoadEnded \/ MarkTimeout
    BY <1>4m DEF MarkEnd, LoadEnded, MarkTimeout, MarkFlag
  <1>5. CASE Stop \/ Tick
    BY <1>5 DEF Stop, Tick
  <1> QED
    BY <1>1, <1>2, <1>3, <1>4, <1>4m, <1>5 DEF GuiStep

LEMMA MutexNext ==
    ASSUME "intr" \notin Faults
    PROVE  TypeOK /\ MutexInv /\ [Next]_vars => MutexInv'
  <1> SUFFICES ASSUME TypeOK, MutexInv, [Next]_vars PROVE MutexInv'
    OBVIOUS
  <1>1. CASE UNCHANGED vars
    BY <1>1 DEF MutexInv, SemMutex, GuiCritical, vars, childVars, guiVars
  <1> QED
    BY <1>1, ChildMutex, GuiMutex DEF Next

LEMMA MutexCorrect ==
    ASSUME "intr" \notin Faults
    PROVE  Spec => []MutexInv
  <1>1. TypeOK /\ MutexInv /\ [Next]_vars => MutexInv'
    BY MutexNext
  <1> QED
    BY <1>1, MutexInit, TypeCorrect, PTL DEF Spec

\* As long as no signal interrupts sem_wait, the semaphore of data.c:138-177
\* and application.cxx:203-207 excludes children and window from each other,
\* even when children or the window are killed while they hold it.
THEOREM MutualExclusion ==
    ASSUME "intr" \notin Faults
    PROVE  Spec => []SemMutex
  <1>1. MutexInv => SemMutex
    BY DEF MutexInv
  <1> QED
    BY <1>1, MutexCorrect, PTL

-----------------------------------------------------------------------------
(* Wake-ups.                                                                *)

LEMMA WakeupInit == Init => NoLostWakeup
  BY DEF Init, NoLostWakeup

\* A child that has counted itself in is on its way to woo_wake_up_gui.
LEMMA WakeupChild ==
    ASSUME TypeOK, NoLostWakeup, "kill" \notin Faults, NEW c \in Children,
           Fork(c) \/ ChildStep(c) \/ SemInterrupted(c) \/ Killed(c)
    PROVE  NoLostWakeup'
  <1> USE DEF TypeOK, NoLostWakeup, shared, childVars, guiVars, Goto
  <1>1. CASE AllocCount(c)
    BY <1>1 DEF AllocCount
  <1>2. CASE AllocFlag(c)
    BY <1>2 DEF AllocFlag
  <1>3. CASE AllocPost(c)
    BY <1>3 DEF AllocPost
  <1>4. CASE WakeUpGui(c)
    BY <1>4 DEF WakeUpGui
  <1>5. CASE SemWait(c) \/ SemInterrupted(c) \/ AllocFull(c) \/ AllocNone(c) \/ AllocFind(c)
    BY <1>5 DEF SemWait, SemInterrupted, AllocFull, AllocNone, AllocFind, GiveUp
  <1>6. CASE Fork(c) \/ WooInit(c) \/ Describe(c) \/ IncrementBlock(c) \/ EndBlock(c)
    BY <1>6 DEF Fork, WooInit, Describe, IncrementBlock, EndBlock
  <1>7. CASE SetFlagLoad(c) \/ EndLoad(c) \/ SetFlagUpload(c) \/ SetFlagDownload(c)
             \/ EndStore(c)
    BY <1>7 DEF SetFlagLoad, EndLoad, SetFlagUpload, SetFlagDownload, EndStore,
                LoadFlags, StoreFlag
  <1>8. CASE Exit(c) \/ Killed(c)
    BY <1>8 DEF Exit, ExitPcs, Killed, Leave
  <1> QED
    BY <1>1, <1>2, <1>3, <1>4, <1>5, <1>6, <1>7, <1>8 DEF ChildStep

\* The window goes to sleep on an empty table only, and a signal wakes it.
LEMMA WakeupGui ==
    ASSUME TypeOK, NoLostWakeup, GuiStep \/ Stop \/ Tick
    PROVE  NoLostWakeup'
  <1> USE DEF TypeOK, NoLostWakeup, shared, childVars
  <1>1. CASE Work
    BY <1>1 DEF Work
  <1>1h. CASE Hide
    BY <1>1h DEF Hide
  <1>2. CASE SigWait
    BY <1>2 DEF SigWait
  <1>3. CASE CheckTimeout \/ CheckEnd \/ UpdateView
    BY <1>3 DEF CheckTimeout, CheckEnd, UpdateView, NextSlot
  <1>3m. CASE MarkEnd \/ LoadEnded \/ MarkTimeout
    BY <1>3m DEF MarkEnd, LoadEnded, MarkTimeout, MarkFlag
  <1>4. CASE SemLock \/ RemoveReset \/ RemoveCount \/ SemUnlock
    BY <1>4 DEF SemLock, RemoveReset, RemoveCount, SemUnlock, NextSlot
  <1>5. CASE Stop \/ Tick
    BY <1>5 DEF Stop, Tick
  <1> QED
    BY <1>1, <1>1h, <1>2, <1>3, <1>3m, <1>4, <1>5 DEF GuiStep

\* The window never sleeps through an operation (application.cxx:107-131,
\* data.c:99), however late children are and whatever interrupts sem_wait, as
\* long as no child is killed between counting itself in and its kill().
THEOREM NoLostWakeupCorrect ==
    ASSUME "kill" \notin Faults
    PROVE  Spec => []NoLostWakeup
  <1>1. TypeOK /\ NoLostWakeup /\ [Next]_vars => NoLostWakeup'
    <2> SUFFICES ASSUME TypeOK, NoLostWakeup, [Next]_vars PROVE NoLostWakeup'
      OBVIOUS
    <2>1. CASE UNCHANGED vars
      BY <2>1 DEF NoLostWakeup, vars, shared, childVars, guiVars
    <2> QED
      BY <2>1, WakeupChild, WakeupGui DEF Next
  <1> QED
    BY <1>1, WakeupInit, TypeCorrect, PTL DEF Spec

-----------------------------------------------------------------------------
(* The table of operations.                                                 *)

\* The program points of a child whose slot has ENABLE, by the child's own hand.
HoldingPcs == AttachedPcs \ {"count", "flag"}

\* END is only ever set together with ENABLE, and a value of oflags that is
\* about to be stored back still has ENABLE, whoever else stores in between.
FlagsInv ==
    /\ \A x \in Slots : "END" \in oflags[x] => "ENABLE" \in oflags[x]
    /\ \A c \in Children : cpc[c] \in {"kindstore", "endstore"} => "ENABLE" \in cflags[c]
    /\ gpc \in {"mark", "timeout"} => "ENABLE" \in gflags
    /\ gpc \in MarkingPcs => "ENABLE" \in oflags[gx]

\* A child's slot is free until its child sets ENABLE and in use from then on,
\* and no two children have the same slot.
SlotInv ==
    /\ \A c \in Children : cpc[c] \in {"count", "flag"} => "ENABLE" \notin oflags[opid[c]]
    /\ \A c \in Children : cpc[c] \in HoldingPcs => "ENABLE" \in oflags[opid[c]]
    /\ \A c, d \in Children :
          cpc[c] \in AttachedPcs /\ cpc[d] \in AttachedPcs /\ opid[c] = opid[d] => c = d

\* A countdown runs on a slot in use and, once it is over, the child is gone;
\* the window removes a slot only after that.
CountdownInv ==
    /\ CountdownInUse
    /\ \A x \in Slots : m_end_array[x] > EndTime =>
          \A c \in Children : cpc[c] \in AttachedPcs => opid[c] # x
    /\ gpc \in {"lock", "reset", "dec"} => m_end_array[gx] > EndTime
    /\ gpc = "dec" => "ENABLE" \notin oflags[gx]

\* nb_operation is the number of slots in use, one more between the two writes
\* of an allocation or of a removal.
NbInv ==
    /\ nb_operation \in {Cardinality(Enabled), Cardinality(Enabled) + 1}
    /\ sem = 1 => nb_operation = Cardinality(Enabled)
    /\ \A c \in Children : cpc[c] \in {"crit", "count", "post"} =>
          nb_operation = Cardinality(Enabled)
    /\ \A c \in Children : cpc[c] = "count" =>
          cnb[c] = nb_operation /\ nb_operation < MaxOp
    /\ \A c \in Children : cpc[c] = "flag" => nb_operation = Cardinality(Enabled) + 1
    /\ gpc \in {"reset", "unlock"} => nb_operation = Cardinality(Enabled)
    /\ gpc = "dec" => gnb = nb_operation /\ nb_operation = Cardinality(Enabled) + 1

\* What a child has written about itself stays in its slot.
DescInv ==
    \A c \in Children :
        cpc[c] \in {"kind", "kindstore", "run", "endstore", "endblock", "linger"} =>
            desc[opid[c]] = c

TableInv == FlagsInv /\ SlotInv /\ CountdownInv /\ NbInv /\ DescInv

\* Enabled is a finite set, and counts as expected.
LEMMA EnabledCount ==
    /\ IsFiniteSet(Enabled)
    /\ Cardinality(Enabled) \in Nat
    /\ Cardinality(Enabled) <= MaxOp
    /\ \A x : x \notin Enabled =>
          Cardinality(Enabled \cup {x}) = Cardinality(Enabled) + 1
    /\ \A x : x \in Enabled =>
          Cardinality(Enabled \ {x}) = Cardinality(Enabled) - 1
  <1>1. IsFiniteSet(Slots) /\ Cardinality(Slots) = MaxOp
    <2>1. MaxOp \in Nat /\ MaxOp > 0
      BY MonitorAssumption DEF NbMod
    <2>2. IsFiniteSet(0 .. MaxOp - 1)
          /\ Cardinality(0 .. MaxOp - 1) = (MaxOp - 1) - 0 + 1
      BY <2>1, FS_Interval
    <2> QED BY <2>1, <2>2 DEF Slots
  <1>2. Enabled \subseteq Slots
    BY DEF Enabled
  <1>3. IsFiniteSet(Enabled) /\ Cardinality(Enabled) <= MaxOp
    BY <1>1, <1>2, FS_Subset
  <1> QED
    BY <1>3, FS_CardinalityType, FS_AddElement, FS_RemoveElement

LEMMA TableInit == Init => TableInv
  <1> SUFFICES ASSUME Init PROVE TableInv
    OBVIOUS
  <1>1. Enabled = {}
    BY DEF Init, Enabled
  <1>2. Cardinality(Enabled) = 0
    BY <1>1, FS_EmptySet
  <1>3. FlagsInv /\ SlotInv /\ DescInv
    BY DEF Init, FlagsInv, MarkingPcs, SlotInv, DescInv, HoldingPcs, AttachedPcs
  <1>4. CountdownInv
    BY MonitorAssumption DEF Init, CountdownInv, CountdownInUse, Unset
  <1>5. NbInv
    BY <1>2 DEF Init, NbInv
  <1> QED
    BY <1>3, <1>4, <1>5 DEF TableInv

\* Steps of a child that leave flags, counter and descriptions alone.
LEMMA TableQuietChild ==
    ASSUME TypeOK, MutexInv, TableInv, NEW c \in Children,
           \/ Fork(c) \/ WooInit(c) \/ AllocFull(c) \/ AllocNone(c) \/ WakeUpGui(c)
           \/ IncrementBlock(c) \/ EndBlock(c) \/ Exit(c) \/ Killed(c)
    PROVE  TableInv'
  <1> USE DEF TypeOK, TableInv, shared, guiVars, childVars
  <1>1. PICK p \in CPcs :
          /\ UNCHANGED <<nb_operation, oflags, desc, guiVars>>
          /\ cpc' = [cpc EXCEPT ![c] = p]
          /\ \/ /\ UNCHANGED <<opid, cnb, cflags>>
                /\ p = cpc[c] \/ <<cpc[c], p>> \in {<<"wake", "describe">>, <<"endblock", "linger">>}
             \/ p \notin AttachedPcs \cup {"crit"} /\ \A d \in Children \ {c} :
                   opid'[d] = opid[d] /\ cnb'[d] = cnb[d] /\ cflags'[d] = cflags[d]
          /\ \/ sem' = sem
             \/ cpc[c] = "crit" /\ sem' = sem + 1
    BY DEF Fork, WooInit, AllocFull, AllocNone, GiveUp, WakeUpGui, IncrementBlock,
           EndBlock, Exit, Killed, Leave, Goto, CPcs, AttachedPcs
  <1>2. Enabled' = Enabled
    BY <1>1 DEF Enabled
  <1>3. FlagsInv'
    BY <1>1 DEF FlagsInv, MarkingPcs, AttachedPcs
  <1>4. SlotInv'
    BY <1>1 DEF SlotInv, HoldingPcs, AttachedPcs
  <1>5. CountdownInv'
    BY <1>1, <1>2 DEF CountdownInv, CountdownInUse, AttachedPcs
  <1>6. NbInv'
    BY <1>1, <1>2 DEF NbInv, MutexInv, CriticalPcs, AttachedPcs
  <1>7. DescInv'
    BY <1>1 DEF DescInv, AttachedPcs
  <1> QED
    BY <1>3, <1>4, <1>5, <1>6, <1>7

\* The steps of woo_alloc_operation that succeed.
LEMMA TableAlloc ==
    ASSUME TypeOK, MutexInv, TableInv, "intr" \notin Faults, NEW c \in Children,
           \/ SemWait(c) \/ SemInterrupted(c) \/ AllocFind(c) \/ AllocCount(c)
           \/ AllocFlag(c) \/ AllocPost(c)
    PROVE  TableInv'
  <1> USE DEF TypeOK, TableInv, shared, guiVars, Goto
  <1>0. Cardinality(Enabled) \in Nat
    BY EnabledCount
  <1>1. CASE SemWait(c) \/ SemInterrupted(c) \/ AllocPost(c)
    <2>1. PICK p \in {"crit", "wake"} :
            /\ UNCHANGED <<nb_operation, oflags, desc, opid, cnb, cflags, guiVars>>
            /\ cpc' = [cpc EXCEPT ![c] = p]
            /\ \/ cpc[c] = "wait" /\ p = "crit" /\ sem = 1 /\ sem' = 0
               \/ cpc[c] = "post" /\ p = "wake" /\ sem' = sem + 1
      BY <1>1 DEF SemWait, SemInterrupted, AllocPost, MutexInv
    <2>2. Enabled' = Enabled
      BY <2>1 DEF Enabled
    <2>3. FlagsInv' /\ DescInv'
      BY <2>1 DEF FlagsInv, MarkingPcs, DescInv
    <2>4. SlotInv'
      BY <2>1 DEF SlotInv, HoldingPcs, AttachedPcs
    <2>5. CountdownInv'
      BY <2>1, <2>2 DEF CountdownInv, CountdownInUse, AttachedPcs
    <2>6. NbInv'
      BY <2>1, <2>2 DEF NbInv, MutexInv, CriticalPcs
    <2> QED BY <2>3, <2>4, <2>5, <2>6
  <1>2. CASE AllocFind(c)
    <2>1. Min(FreeSlots) \in Slots /\ "ENABLE" \notin oflags[Min(FreeSlots)]
      BY <1>2, FirstFree DEF AllocFind, FreeSlots, Enabled
    <2>2. Enabled' = Enabled
      BY <1>2 DEF AllocFind, Enabled
    <2>3. FlagsInv' /\ DescInv'
      BY <1>2 DEF AllocFind, FlagsInv, MarkingPcs, DescInv
    <2>4. \A d \in Children \ {c} : cpc[d] \in AttachedPcs => opid[d] # Min(FreeSlots)
      BY <1>2, <2>1 DEF AllocFind, SlotInv, HoldingPcs, MutexInv, SemMutex, CriticalPcs
    <2>5. SlotInv'
      BY <1>2, <2>1, <2>4 DEF AllocFind, SlotInv, HoldingPcs, AttachedPcs
    <2>6. m_end_array[Min(FreeSlots)] = Unset
      BY <1>2, <2>1 DEF AllocFind, CountdownInv, CountdownInUse, Enabled, MutexInv,
                        SemMutex, CriticalPcs, GuiCritical
    <2>7. CountdownInv'
      BY <1>2, <2>2, <2>6, MonitorAssumption
         DEF AllocFind, CountdownInv, CountdownInUse, AttachedPcs, Unset
    <2>8. NbInv'
      BY <1>2, <2>2 DEF AllocFind, NbInv
    <2> QED BY <2>3, <2>5, <2>7, <2>8
  <1>3. CASE AllocCount(c)
    <2>1. nb_operation' = nb_operation + 1
      <3>1. nb_operation \in 0 .. 254 /\ cnb[c] = nb_operation
        BY <1>3, MonitorAssumption DEF AllocCount, NbInv, NbMod
      <3> QED BY <1>3, <3>1, ByteStep DEF AllocCount
    <2>2. Enabled' = Enabled
      BY <1>3 DEF AllocCount, Enabled
    <2>3. FlagsInv' /\ DescInv'
      BY <1>3 DEF AllocCount, FlagsInv, MarkingPcs, DescInv
    <2>4. SlotInv'
      BY <1>3 DEF AllocCount, SlotInv, HoldingPcs, AttachedPcs
    <2>5. CountdownInv'
      BY <1>3, <2>2 DEF AllocCount, CountdownInv, CountdownInUse, AttachedPcs
    <2>6. NbInv'
      BY <1>0, <1>3, <2>1, <2>2 DEF AllocCount, NbInv, MutexInv, SemMutex, CriticalPcs,
                                    GuiCritical
    <2> QED BY <2>3, <2>4, <2>5, <2>6
  <1>4. CASE AllocFlag(c)
    <2>1. Enabled' = Enabled \cup {opid[c]} /\ opid[c] \notin Enabled
      BY <1>4 DEF AllocFlag, Enabled, SlotInv
    <2>2. Cardinality(Enabled') = Cardinality(Enabled) + 1
      BY <2>1, EnabledCount
    <2>3. FlagsInv' /\ DescInv'
      BY <1>4 DEF AllocFlag, FlagsInv, MarkingPcs, DescInv
    <2>4. SlotInv'
      BY <1>4 DEF AllocFlag, SlotInv, HoldingPcs, AttachedPcs, MutexInv, SemMutex,
                  CriticalPcs
    <2>5. CountdownInv'
      BY <1>4, <2>1 DEF AllocFlag, CountdownInv, CountdownInUse, AttachedPcs, MutexInv,
                        SemMutex, CriticalPcs, GuiCritical
    <2>6. NbInv'
      BY <1>0, <1>4, <2>2 DEF AllocFlag, NbInv, MutexInv, SemMutex, CriticalPcs,
                              GuiCritical
    <2> QED BY <2>3, <2>4, <2>5, <2>6
  <1> QED
    BY <1>1, <1>2, <1>3, <1>4

\* A child's unlocked writes into its own slot.
LEMMA TableWrites ==
    ASSUME TypeOK, MutexInv, TableInv, NEW c \in Children,
           \/ Describe(c) \/ SetFlagLoad(c) \/ EndLoad(c)
           \/ SetFlagUpload(c) \/ SetFlagDownload(c) \/ EndStore(c)
    PROVE  TableInv'
  <1> USE DEF TypeOK, TableInv, shared, guiVars, Goto
  <1>1. CASE Describe(c) \/ SetFlagLoad(c) \/ EndLoad(c)
    <2>1. Enabled' = Enabled
      BY <1>1 DEF Describe, SetFlagLoad, EndLoad, LoadFlags, Enabled
    <2>2. FlagsInv'
      BY <1>1 DEF Describe, SetFlagLoad, EndLoad, LoadFlags, FlagsInv, MarkingPcs, SlotInv,
                  HoldingPcs, AttachedPcs
    <2>3. SlotInv'
      <3>1. PICK p \in {"kind", "kindstore", "endstore"} :
              /\ cpc[c] \in HoldingPcs
              /\ cpc' = [cpc EXCEPT ![c] = p]
              /\ UNCHANGED <<oflags, opid>>
        BY <1>1 DEF Describe, SetFlagLoad, EndLoad, LoadFlags, HoldingPcs, AttachedPcs
      <3> QED BY <3>1 DEF SlotInv, HoldingPcs, AttachedPcs
    <2>4. CountdownInv'
      BY <1>1, <2>1 DEF Describe, SetFlagLoad, EndLoad, LoadFlags, CountdownInv,
                        CountdownInUse, AttachedPcs
    <2>5. NbInv'
      BY <1>1, <2>1 DEF Describe, SetFlagLoad, EndLoad, LoadFlags, NbInv
    <2>6. DescInv'
      BY <1>1 DEF Describe, SetFlagLoad, EndLoad, LoadFlags, DescInv, SlotInv,
                  AttachedPcs
    <2> QED BY <2>2, <2>3, <2>4, <2>5, <2>6
  <1>2. CASE SetFlagUpload(c) \/ SetFlagDownload(c) \/ EndStore(c)
    <2>1. PICK f \in OpFlags, p \in {"run", "endblock"} :
            /\ cpc[c] \in {"kindstore", "endstore"}
            /\ cpc' = [cpc EXCEPT ![c] = p]
            /\ oflags' = [oflags EXCEPT ![opid[c]] = cflags[c] \cup {f}]
            /\ cflags' = [cflags EXCEPT ![c] = {}]
            /\ UNCHANGED <<sem, nb_operation, desc, opid, cnb, guiVars>>
      BY <1>2 DEF SetFlagUpload, SetFlagDownload, EndStore, StoreFlag, OpFlags
    <2>2. "ENABLE" \in oflags'[opid[c]] /\ "ENABLE" \in oflags[opid[c]]
      BY <2>1 DEF FlagsInv, SlotInv, HoldingPcs, AttachedPcs
    <2>3. \A x \in Slots : "ENABLE" \in oflags'[x] <=> "ENABLE" \in oflags[x]
      BY <2>1, <2>2
    <2>4. Enabled' = Enabled
      BY <2>3 DEF Enabled
    <2>5. FlagsInv'
      BY <2>1, <2>2 DEF FlagsInv, MarkingPcs
    <2>6. SlotInv'
      BY <2>1, <2>3 DEF SlotInv, HoldingPcs, AttachedPcs
    <2>7. CountdownInv'
      BY <2>1, <2>3, <2>4 DEF CountdownInv, CountdownInUse, AttachedPcs
    <2>8. NbInv'
      BY <2>1, <2>4 DEF NbInv
    <2>9. DescInv'
      BY <2>1 DEF DescInv
    <2> QED BY <2>5, <2>6, <2>7, <2>8, <2>9
  <1> QED
    BY <1>1, <1>2

\* Steps of the window that write nothing into the table.
LEMMA TableQuietGui ==
    ASSUME TypeOK, MutexInv, TableInv,
           Work \/ Hide \/ SigWait \/ CheckTimeout \/ CheckEnd \/ UpdateView \/ Stop
    PROVE  TableInv'
  <1> USE DEF TypeOK, TableInv, shared, childVars
  <1>1. /\ UNCHANGED <<sem, nb_operation, oflags, desc, opid, cpc, cnb, cflags>>
        /\ gpc' \notin {"reset", "dec", "unlock"}
    BY DEF Work, Hide, SigWait, CheckTimeout, CheckEnd, UpdateView, Stop, NextSlot
  <1>2. Enabled' = Enabled
    BY <1>1 DEF Enabled
  <1>3. FlagsInv'
    BY <1>1 DEF FlagsInv, MarkingPcs, Work, Hide, SigWait, CheckTimeout, CheckEnd,
                UpdateView, Stop, NextSlot, Watched
  <1>4. SlotInv' /\ NbInv' /\ DescInv'
    BY <1>1, <1>2 DEF SlotInv, NbInv, DescInv
  <1>5. CASE Stop
    BY <1>1, <1>2, <1>3, <1>4, <1>5, MonitorAssumption
       DEF Stop, CountdownInv, CountdownInUse, Unset
  <1>6. CASE CheckEnd
    BY <1>1, <1>2, <1>3, <1>4, <1>6, MonitorAssumption
       DEF CheckEnd, NextSlot, CountdownInv, CountdownInUse, FlagsInv, Enabled, Unset
  <1>7. CASE Work \/ Hide \/ SigWait \/ CheckTimeout \/ UpdateView
    <2>1. m_end_array' = m_end_array /\ gpc' # "lock" /\ gpc # "dec"
      BY <1>7 DEF Work, Hide, SigWait, CheckTimeout, UpdateView
    <2>2. CountdownInv'
      BY <1>1, <1>2, <2>1 DEF CountdownInv, CountdownInUse
    <2> QED BY <1>3, <1>4, <2>2
  <1> QED
    BY <1>5, <1>6, <1>7

\* The window marks a timed-out slot, with the child's own stores before, after or
\* between: ENABLE is in all that either of them stores.
LEMMA TableMark ==
    ASSUME TypeOK, MutexInv, TableInv, MarkEnd \/ LoadEnded \/ MarkTimeout
    PROVE  TableInv'
  <1> USE DEF TypeOK, TableInv, shared, childVars
  <1>1. CASE MarkEnd \/ MarkTimeout
    <2>1. PICK f \in OpFlags, p \in {"load", "end"} :
            /\ gpc \in {"mark", "timeout"} /\ gpc' = p
            /\ oflags' = [oflags EXCEPT ![gx] = gflags \cup {f}]
            /\ UNCHANGED <<sem, nb_operation, desc, cpc, opid, cnb, cflags, gx, gnb,
                           m_end_array>>
      BY <1>1 DEF MarkEnd, MarkTimeout, MarkFlag, OpFlags
    <2>2. "ENABLE" \in oflags'[gx] /\ "ENABLE" \in oflags[gx]
      BY <2>1 DEF FlagsInv, MarkingPcs
    <2>3. \A x \in Slots : "ENABLE" \in oflags'[x] <=> "ENABLE" \in oflags[x]
      BY <2>1, <2>2
    <2>4. Enabled' = Enabled
      BY <2>3 DEF Enabled
    <2>5. FlagsInv' /\ DescInv'
      BY <2>1, <2>2 DEF FlagsInv, MarkingPcs, DescInv
    <2>6. SlotInv'
      BY <2>1, <2>3 DEF SlotInv
    <2>7. CountdownInv' /\ NbInv'
      BY <2>1, <2>3, <2>4 DEF CountdownInv, CountdownInUse, NbInv
    <2> QED BY <2>5, <2>6, <2>7
  <1>2. CASE LoadEnded
    <2>1. Enabled' = Enabled
      BY <1>2 DEF LoadEnded, Enabled
    <2>2. FlagsInv' /\ DescInv' /\ SlotInv'
      BY <1>2 DEF LoadEnded, FlagsInv, MarkingPcs, DescInv, SlotInv
    <2>3. CountdownInv' /\ NbInv'
      BY <1>2, <2>1 DEF LoadEnded, CountdownInv, CountdownInUse, NbInv
    <2> QED BY <2>2, <2>3
  <1> QED
    BY <1>1, <1>2

\* The window removes a slot.
LEMMA TableRemoval ==
    ASSUME TypeOK, MutexInv, TableInv,
           SemLock \/ RemoveReset \/ RemoveCount \/ SemUnlock
    PROVE  TableInv'
  <1> USE DEF TypeOK, TableInv, shared, childVars
  <1>0. Cardinality(Enabled) \in Nat
    BY EnabledCount
  <1>1. CASE SemLock \/ SemUnlock
    <2>1. Enabled' = Enabled
      BY <1>1 DEF SemLock, SemUnlock, Enabled
    <2>2. FlagsInv' /\ DescInv' /\ SlotInv'
      BY <1>1 DEF SemLock, SemUnlock, NextSlot, FlagsInv, MarkingPcs, DescInv, SlotInv
    <2>3. CountdownInv'
      BY <1>1, <2>1 DEF SemLock, SemUnlock, NextSlot, CountdownInv, CountdownInUse
    <2>4. NbInv'
      BY <1>1, <2>1 DEF SemLock, SemUnlock, NextSlot, NbInv, MutexInv
    <2> QED BY <2>2, <2>3, <2>4
  <1>2. CASE RemoveReset
    <2>1. \A c \in Children : cpc[c] \in AttachedPcs => opid[c] # gx
      BY <1>2 DEF RemoveReset, CountdownInv
    <2>2. gx \in Enabled
      BY <1>2, MonitorAssumption DEF RemoveReset, CountdownInv, CountdownInUse, Unset
    <2>3. Enabled' = Enabled \ {gx}
      BY <1>2 DEF RemoveReset, Enabled
    <2>4. Cardinality(Enabled') = Cardinality(Enabled) - 1
      BY <2>2, <2>3, EnabledCount
    <2>5. FlagsInv' /\ DescInv'
      BY <1>2 DEF RemoveReset, FlagsInv, MarkingPcs, DescInv
    <2>6. SlotInv'
      BY <1>2, <2>1 DEF RemoveReset, SlotInv, HoldingPcs, AttachedPcs
    <2>7. CountdownInv'
      BY <1>2, <2>3 DEF RemoveReset, CountdownInv, CountdownInUse
    <2>8. NbInv'
      BY <1>0, <1>2, <2>4 DEF RemoveReset, NbInv, MutexInv, SemMutex, GuiCritical,
                              CriticalPcs
    <2> QED BY <2>5, <2>6, <2>7, <2>8
  <1>3. CASE RemoveCount
    <2>1. nb_operation' = Cardinality(Enabled)
      <3>1. gnb \in 1 .. 255 /\ gnb = Cardinality(Enabled) + 1
        BY <1>0, <1>3 DEF RemoveCount, NbInv, NbMod
      <3>2. Dec8(gnb) = gnb - 1
        BY <3>1, ByteStep
      <3> QED BY <1>0, <1>3, <3>1, <3>2 DEF RemoveCount
    <2>2. Enabled' = Enabled
      BY <1>3 DEF RemoveCount, Enabled
    <2>3. FlagsInv' /\ DescInv' /\ SlotInv'
      BY <1>3 DEF RemoveCount, FlagsInv, MarkingPcs, DescInv, SlotInv
    <2>4. CountdownInv'
      BY <1>3, <2>2, MonitorAssumption
         DEF RemoveCount, CountdownInv, CountdownInUse, EndArrayCleared, Unset
    <2>5. NbInv'
      BY <1>0, <1>3, <2>1, <2>2 DEF RemoveCount, NbInv, MutexInv, SemMutex, GuiCritical,
                                    CriticalPcs
    <2> QED BY <2>3, <2>4, <2>5
  <1> QED
    BY <1>1, <1>2, <1>3

\* Time passes: a countdown is over only after its child has left.
LEMMA TableTick ==
    ASSUME TypeOK, TableInv, "late" \notin Faults, Tick
    PROVE  TableInv'
  <1> USE DEF TypeOK, TableInv, shared, childVars
  <1>1. Enabled' = Enabled
    BY DEF Tick, Enabled
  <1>2. FlagsInv' /\ SlotInv' /\ NbInv' /\ DescInv'
    BY <1>1 DEF Tick, FlagsInv, MarkingPcs, SlotInv, NbInv, DescInv
  <1>3. \A x \in Slots : /\ m_end_array'[x] = Unset <=> m_end_array[x] = Unset
                         /\ m_end_array'[x] > EndTime => m_end_array[x] >= EndTime
    <2> SUFFICES ASSUME NEW x \in Slots
                 PROVE  /\ m_end_array'[x] = Unset <=> m_end_array[x] = Unset
                        /\ m_end_array'[x] > EndTime => m_end_array[x] >= EndTime
      OBVIOUS
    <2>1. m_end_array'[x] = IF m_end_array[x] = Unset THEN Unset
                            ELSE Older(m_end_array[x], EndTime)
      BY DEF Tick
    <2>2. m_end_array[x] \in Unset .. EndTime + 1
      OBVIOUS
    <2> QED BY <2>1, <2>2, MonitorAssumption DEF Older, Unset
  <1>4. \A x \in Slots : m_end_array[x] = EndTime =>
          \A c \in Children : cpc[c] \in AttachedPcs => opid[c] # x
    BY DEF Tick, InTime, Attached
  <1>5. CountdownInv'
    <2>1. UNCHANGED <<cpc, opid, oflags, gpc, gx>> /\ gpc \in {"work", "sleep"}
      BY DEF Tick
    <2>2. CountdownInUse'
      BY <1>1, <1>3, <2>1 DEF CountdownInv, CountdownInUse, Unset
    <2>3. ASSUME NEW x \in Slots, m_end_array'[x] > EndTime, NEW c \in Children,
                 cpc[c] \in AttachedPcs
          PROVE  opid[c] # x
      <3>1. m_end_array[x] >= EndTime
        BY <1>3, <2>3
      <3>2. m_end_array[x] \in -1 .. EndTime + 1
        BY DEF Unset
      <3>3. m_end_array[x] = EndTime \/ m_end_array[x] > EndTime
        <4>1. ASSUME NEW e \in Nat, NEW a \in -1 .. e + 1, a >= e PROVE a = e \/ a > e
          BY <4>1
        <4> QED BY <3>1, <3>2, <4>1, MonitorAssumption
      <3> QED BY <1>4, <2>3, <3>3 DEF CountdownInv
    <2> QED BY <2>1, <2>2, <2>3 DEF CountdownInv
  <1> QED
    BY <1>2, <1>5

LEMMA TableCorrect ==
    ASSUME "late" \notin Faults, "intr" \notin Faults
    PROVE  Spec => []TableInv
  <1>1. TypeOK /\ MutexInv /\ TableInv /\ [Next]_vars => TableInv'
    <2> SUFFICES ASSUME TypeOK, MutexInv, TableInv, [Next]_vars PROVE TableInv'
      OBVIOUS
    <2>1. CASE UNCHANGED vars
      <3>1. Enabled' = Enabled
        BY <2>1 DEF vars, shared, Enabled
      <3> QED
        BY <2>1, <3>1 DEF TableInv, FlagsInv, MarkingPcs, SlotInv, CountdownInv,
                          CountdownInUse, NbInv, DescInv, vars, shared, childVars, guiVars
    <2>2. ASSUME NEW c \in Children,
                 Fork(c) \/ ChildStep(c) \/ SemInterrupted(c) \/ Killed(c)
          PROVE  TableInv'
      BY <2>2, TableQuietChild, TableAlloc, TableWrites DEF ChildStep
    <2>3. CASE GuiStep \/ Stop
      BY <2>3, TableQuietGui, TableMark, TableRemoval DEF GuiStep
    <2> QED
      BY <2>1, <2>2, <2>3, TableTick DEF Next
  <1> QED
    BY <1>1, TableInit, TypeCorrect, MutexCorrect, PTL DEF Spec

\* When children finish in time and no signal interrupts sem_wait,
\* nb_operation (common.h:85) is the number of slots in use whenever the
\* semaphore is free, even if children or the window are killed.
THEOREM CounterCorrect ==
    ASSUME "late" \notin Faults, "intr" \notin Faults
    PROVE  Spec => []NbCountsEnabled
  <1>1. TableInv => NbCountsEnabled
    BY DEF TableInv, NbInv, NbCountsEnabled
  <1> QED
    BY <1>1, TableCorrect, PTL

\* Under the same assumptions a slot has one owner, which finds there what it
\* wrote (data.c:193-316).
THEOREM OwnershipCorrect ==
    ASSUME "late" \notin Faults, "intr" \notin Faults
    PROVE  Spec => []OwnSlot
  <1>1. TableInv => OwnSlot
    BY DEF TableInv, SlotInv, DescInv, OwnSlot, Attached, AttachedPcs
  <1> QED
    BY <1>1, TableCorrect, PTL

\* Under the same assumptions a countdown runs on slots in use only, so the removal
\* at application.cxx:203-207 never frees a slot twice, whatever order the window's
\* marks and the child's stores come in.
THEOREM CountdownCorrect ==
    ASSUME "late" \notin Faults, "intr" \notin Faults
    PROVE  Spec => []CountdownInUse
  <1>1. TableInv => CountdownInUse
    BY DEF TableInv, CountdownInv
  <1> QED
    BY <1>1, TableCorrect, PTL

-----------------------------------------------------------------------------
(* What the window shows.                                                   *)

\* Without "race" what a child has loaded and not yet stored is what its slot has, and the
\* window is not marking that slot.
ApartInv ==
    \A c \in Children : cpc[c] \in {"kindstore", "endstore"} =>
        /\ cflags[c] = oflags[opid[c]]
        /\ gpc \notin MarkingPcs \/ gx # opid[c]

LEMMA ApartChild ==
    ASSUME TypeOK, MutexInv, TableInv, ApartInv, "race" \notin Faults, NEW c \in Children,
           Fork(c) \/ ChildStep(c) \/ SemInterrupted(c) \/ Killed(c)
    PROVE  ApartInv'
  <1> USE DEF TypeOK, ApartInv, shared, childVars, guiVars, Goto
  <1>1. CASE Fork(c) \/ WooInit(c) \/ SemWait(c) \/ SemInterrupted(c) \/ AllocFull(c)
             \/ AllocNone(c) \/ AllocFind(c) \/ AllocCount(c)
    <2>1. PICK p \in {"init", "wait", "serve", "crit", "count", "flag"} :
            /\ cpc' = [cpc EXCEPT ![c] = p]
            /\ \A d \in Children \ {c} : opid'[d] = opid[d]
            /\ UNCHANGED <<oflags, cflags, gpc, gx>>
      BY <1>1 DEF Fork, WooInit, SemWait, SemInterrupted, AllocFull, AllocNone, GiveUp,
                  AllocFind, AllocCount
    <2> QED BY <2>1
  <1>2. CASE AllocFlag(c)
    <2>1. \A d \in Children : cpc[d] \in {"kindstore", "endstore"} => opid[d] # opid[c]
      BY <1>2 DEF AllocFlag, TableInv, SlotInv, AttachedPcs
    <2> QED BY <1>2, <2>1 DEF AllocFlag
  <1>3. CASE AllocPost(c) \/ WakeUpGui(c) \/ Describe(c) \/ IncrementBlock(c) \/ EndBlock(c)
    <2>1. PICK p \in {"wake", "describe", "kind", "run", "linger"} :
            /\ cpc' = [cpc EXCEPT ![c] = p]
            /\ UNCHANGED <<oflags, opid, cflags, gpc, gx>>
      BY <1>3 DEF AllocPost, WakeUpGui, Describe, IncrementBlock, EndBlock
    <2> QED BY <2>1
  <1>4. CASE SetFlagLoad(c) \/ EndLoad(c)
    BY <1>4 DEF SetFlagLoad, EndLoad, LoadFlags, ChildApart
  <1>5. CASE SetFlagUpload(c) \/ SetFlagDownload(c) \/ EndStore(c)
    <2>1. PICK f \in OpFlags, p \in {"run", "endblock"} :
            /\ cpc[c] \in {"kindstore", "endstore"}
            /\ cpc' = [cpc EXCEPT ![c] = p]
            /\ oflags' = [oflags EXCEPT ![opid[c]] = cflags[c] \cup {f}]
            /\ cflags' = [cflags EXCEPT ![c] = {}]
            /\ UNCHANGED <<opid, gpc, gx>>
      BY <1>5 DEF SetFlagUpload, SetFlagDownload, EndStore, StoreFlag, OpFlags
    <2>2. \A d \in Children \ {c} :
             cpc[d] \in {"kindstore", "endstore"} => opid[d] # opid[c]
      BY <2>1 DEF TableInv, SlotInv, AttachedPcs
    <2> QED BY <2>1, <2>2
  <1>6. CASE Exit(c) \/ Killed(c)
    BY <1>6 DEF Exit, Killed, Leave
  <1> QED
    BY <1>1, <1>2, <1>3, <1>4, <1>5, <1>6 DEF ChildStep

LEMMA ApartGui ==
    ASSUME TypeOK, TableInv, ApartInv, "race" \notin Faults, GuiStep \/ Stop \/ Tick
    PROVE  ApartInv'
  <1> USE DEF TypeOK, ApartInv, MarkingPcs, shared, childVars
  <1>1. CASE Work \/ Hide \/ SigWait \/ CheckEnd \/ SemLock \/ RemoveCount \/ SemUnlock
             \/ UpdateView \/ Stop \/ Tick
    <2>1. gpc' \notin MarkingPcs /\ UNCHANGED <<cpc, opid, cflags, oflags>>
      BY <1>1 DEF Work, Hide, SigWait, CheckEnd, SemLock, RemoveCount, SemUnlock,
                  UpdateView, Stop, Tick, NextSlot
    <2> QED BY <2>1
  <1>2. CASE CheckTimeout
    <2>1. CASE Watched(oflags[gx]) /\ Stalled(gx)
      BY <1>2, <2>1 DEF CheckTimeout, GuiApart
    <2>2. CASE ~(Watched(oflags[gx]) /\ Stalled(gx))
      BY <1>2, <2>2 DEF CheckTimeout
    <2> QED BY <2>1, <2>2
  <1>3. CASE MarkEnd \/ LoadEnded \/ MarkTimeout
    BY <1>3 DEF MarkEnd, LoadEnded, MarkTimeout, MarkFlag
  <1>4. CASE RemoveReset
    <2>1. \A c \in Children : cpc[c] \in AttachedPcs => opid[c] # gx
      BY <1>4 DEF RemoveReset, TableInv, CountdownInv
    <2> QED BY <1>4, <2>1 DEF RemoveReset, AttachedPcs
  <1> QED
    BY <1>1, <1>2, <1>3, <1>4 DEF GuiStep

LEMMA ApartCorrect ==
    ASSUME "late" \notin Faults, "intr" \notin Faults, "race" \notin Faults
    PROVE  Spec => []ApartInv
  <1>1. Init => ApartInv
    BY DEF Init, ApartInv
  <1>2. TypeOK /\ MutexInv /\ TableInv /\ ApartInv /\ [Next]_vars => ApartInv'
    <2> SUFFICES ASSUME TypeOK, MutexInv, TableInv, ApartInv, [Next]_vars PROVE ApartInv'
      OBVIOUS
    <2>1. CASE UNCHANGED vars
      BY <2>1 DEF ApartInv, vars, shared, childVars, guiVars
    <2> QED
      BY <2>1, ApartChild, ApartGui DEF Next
  <1> QED
    BY <1>1, <1>2, TypeCorrect, MutexCorrect, TableCorrect, PTL DEF Spec

Icons == {"none", "failure", "success", "upload", "download"}

\* The window draws between two passes only.
DrawInv ==
    /\ drawing \in 0 .. Drawn
    /\ icon \in [Slots -> Icons]
    /\ drawing # Drawn => gpc = "work"

\* A slot with END and without TIMEOUT has been ended by its child, or the window is
\* between its two marks, or it is gone for good.
EndedInv ==
    \A x \in Slots : "END" \in oflags[x] /\ "TIMEOUT" \notin oflags[x] =>
        \/ x \in ended
        \/ gx = x /\ gpc \in {"load", "timeout"}
        \/ gpc = "dead"

LEMMA ViewStart == ViewInit => Init /\ DrawInv /\ EndedInv
  <1> SUFFICES ASSUME ViewInit PROVE Init /\ DrawInv /\ EndedInv
    OBVIOUS
  <1>1. Init
    BY DEF ViewInit
  <1>2. DrawInv
    BY MonitorAssumption DEF ViewInit, DrawInv, Drawn, Icons, NbMod
  <1>3. EndedInv
    BY <1>1 DEF Init, EndedInv
  <1> QED BY <1>1, <1>2, <1>3

LEMMA DrawKept ==
    ASSUME DrawInv, [TableStep \/ Draw]_<<vars, viewVars>>
    PROVE  DrawInv'
  <1> USE DEF DrawInv
  <1>0. MaxOp \in Nat /\ MaxOp > 0
    BY MonitorAssumption DEF NbMod
  <1>1. CASE TableStep
    BY <1>0, <1>1 DEF TableStep, DrawNext, Drawn
  <1>2. CASE Draw
    <2>1. drawing \in Slots /\ drawing + 1 \in 0 .. Drawn
      BY <1>0, <1>2 DEF Draw, Drawn, Slots
    <2>2. IconFor(oflags[drawing]) \in Icons /\ "none" \in Icons
      BY DEF IconFor, Icons
    <2>3. icon' \in [Slots -> Icons]
      BY <1>2, <2>1, <2>2 DEF Draw
    <2>4. gpc' = gpc /\ gpc = "work" /\ drawing' = drawing + 1
      BY <1>2 DEF Draw, vars, guiVars
    <2> QED BY <2>1, <2>3, <2>4
  <1>3. CASE UNCHANGED <<vars, viewVars>>
    BY <1>3 DEF vars, guiVars, viewVars
  <1> QED BY <1>1, <1>2, <1>3

\* Slots stay ended until a child's allocation of the slot is complete.
LEMMA EndedStays ==
    ASSUME ended' = EndedNext, NEW x \in Slots, x \in ended,
           \A c \in Children : cpc[c] = "flag" /\ cpc'[c] = "post" => opid[c] # x
    PROVE  x \in ended'
  BY DEF EndedNext

\* Steps of the children.
LEMMA EndedChild ==
    ASSUME TypeOK, ApartInv, EndedInv, ended' = EndedNext, NEW c \in Children,
           Fork(c) \/ ChildStep(c) \/ SemInterrupted(c) \/ Killed(c)
    PROVE  EndedInv'
  <1> USE DEF TypeOK, shared, childVars, guiVars, Goto
  <1>1. CASE AllocFlag(c)
    <2>1. /\ cpc' = [cpc EXCEPT ![c] = "post"]
          /\ oflags' = [oflags EXCEPT ![opid[c]] = {"ENABLE"}]
          /\ UNCHANGED <<gpc, gx>>
      BY <1>1 DEF AllocFlag
    <2>2. \A d \in Children : cpc[d] = "flag" /\ cpc'[d] = "post" => d = c
      BY <2>1
    <2>3. \A x \in Slots : x # opid[c] /\ x \in ended => x \in ended'
      BY <2>2, EndedStays
    <2> QED BY <2>1, <2>3 DEF EndedInv
  <1>2. CASE EndStore(c)
    <2>1. /\ cpc[c] = "endstore" /\ cpc' = [cpc EXCEPT ![c] = "endblock"]
          /\ oflags' = [oflags EXCEPT ![opid[c]] = cflags[c] \cup {"END"}]
          /\ UNCHANGED <<gpc, gx>>
      BY <1>2 DEF EndStore, StoreFlag
    <2>2. opid[c] \in ended'
      BY <2>1 DEF EndedNext
    <2>3. \A x \in Slots : x \in ended => x \in ended'
      BY <2>1, EndedStays
    <2> QED BY <2>1, <2>2, <2>3 DEF EndedInv
  <1>3. CASE SetFlagUpload(c) \/ SetFlagDownload(c)
    <2>1. PICK f \in {"UPLOAD", "DOWNLOAD"} :
            /\ cpc[c] = "kindstore" /\ cpc' = [cpc EXCEPT ![c] = "run"]
            /\ oflags' = [oflags EXCEPT ![opid[c]] = cflags[c] \cup {f}]
            /\ UNCHANGED <<gpc, gx>>
      BY <1>3 DEF SetFlagUpload, SetFlagDownload, StoreFlag
    <2>2. \A x \in Slots : /\ "END" \in oflags'[x] <=> "END" \in oflags[x]
                           /\ "TIMEOUT" \in oflags'[x] <=> "TIMEOUT" \in oflags[x]
      BY <2>1 DEF ApartInv
    <2>3. \A x \in Slots : x \in ended => x \in ended'
      BY <2>1, EndedStays
    <2> QED BY <2>1, <2>2, <2>3 DEF EndedInv
  <1>4. CASE \/ Fork(c) \/ WooInit(c) \/ SemWait(c) \/ SemInterrupted(c) \/ AllocFull(c)
             \/ AllocNone(c) \/ AllocFind(c) \/ AllocCount(c) \/ AllocPost(c)
             \/ WakeUpGui(c) \/ Describe(c) \/ SetFlagLoad(c) \/ IncrementBlock(c)
             \/ EndLoad(c) \/ EndBlock(c) \/ Exit(c) \/ Killed(c)
    <2>1. /\ UNCHANGED <<oflags, gpc, gx>>
          /\ \E p \in CPcs \ {"post"} : cpc' = [cpc EXCEPT ![c] = p]
      BY <1>4 DEF Fork, WooInit, SemWait, SemInterrupted, AllocFull, AllocNone, GiveUp,
                  AllocFind, AllocCount, AllocPost, WakeUpGui, Describe, SetFlagLoad,
                  EndLoad, LoadFlags, IncrementBlock, EndBlock, Exit, Killed, Leave,
                  CPcs, AttachedPcs
    <2>2. \A x \in Slots : x \in ended => x \in ended'
      BY <2>1, EndedStays
    <2> QED BY <2>1, <2>2 DEF EndedInv
  <1> QED
    BY <1>1, <1>2, <1>3, <1>4 DEF ChildStep

\* Steps of the window and of the clock.
LEMMA EndedGui ==
    ASSUME TypeOK, EndedInv, ended' = EndedNext, GuiStep \/ Stop \/ Tick
    PROVE  EndedInv'
  <1> USE DEF TypeOK, shared, childVars
  <1>0. UNCHANGED <<cpc, opid>>
    BY DEF GuiStep, Work, Hide, SigWait, CheckTimeout, MarkEnd, LoadEnded, MarkTimeout,
           MarkFlag, CheckEnd, SemLock, RemoveReset, RemoveCount, SemUnlock, UpdateView,
           Stop, Tick
  <1>1. \A x \in Slots : x \in ended => x \in ended'
    BY <1>0, EndedStays
  <1>2. CASE MarkEnd \/ LoadEnded \/ MarkTimeout
    BY <1>1, <1>2 DEF MarkEnd, LoadEnded, MarkTimeout, MarkFlag, EndedInv
  <1>3. CASE RemoveReset
    BY <1>1, <1>3 DEF RemoveReset, EndedInv
  <1>4. CASE Work \/ Hide \/ SigWait \/ CheckTimeout \/ CheckEnd \/ SemLock \/ RemoveCount
             \/ SemUnlock \/ UpdateView \/ Tick
    <2>1. UNCHANGED oflags /\ gpc \notin {"load", "timeout", "dead"}
      BY <1>4 DEF Work, Hide, SigWait, CheckTimeout, CheckEnd, SemLock, RemoveCount,
                  SemUnlock, UpdateView, Tick
    <2> QED BY <1>1, <2>1 DEF EndedInv
  <1>5. CASE Stop
    BY <1>5 DEF Stop, EndedInv
  <1> QED
    BY <1>2, <1>3, <1>4, <1>5 DEF GuiStep

LEMMA EndedKept ==
    ASSUME TypeOK, ApartInv, EndedInv, [TableStep \/ Draw]_<<vars, viewVars>>
    PROVE  EndedInv'
  <1>1. CASE TableStep
    BY <1>1, EndedChild, EndedGui DEF TableStep, Next
  <1>2. CASE Draw \/ UNCHANGED <<vars, viewVars>>
    <2>1. UNCHANGED <<oflags, ended, gpc, gx>>
      BY <1>2 DEF Draw, vars, shared, guiVars, viewVars
    <2> QED BY <2>1 DEF EndedInv
  <1> QED BY <1>1, <1>2

\* What the window draws, it draws from a table between two passes.
LEMMA DrawHonest ==
    ASSUME DrawInv, EndedInv, [TableStep \/ Draw]_<<vars, viewVars>>,
           drawing' # drawing, drawing # Drawn, icon'[drawing] = "success"
    PROVE  drawing \in ended
  <1>1. gpc = "work"
    BY DEF DrawInv
  <1>2. Draw
    BY <1>1 DEF TableStep, DrawNext, viewVars
  <1>3. drawing \in Slots
    BY MonitorAssumption DEF DrawInv, Drawn, Slots, NbMod
  <1>4. IconFor(oflags[drawing]) = "success"
    BY <1>2, <1>3 DEF Draw, DrawInv
  <1>5. "END" \in oflags[drawing] /\ "TIMEOUT" \notin oflags[drawing]
    BY <1>4 DEF IconFor
  <1> QED
    BY <1>1, <1>3, <1>5 DEF EndedInv

\* The drawing window is the window of Monitor: whatever is proved of Spec holds here.
LEMMA ViewIsMonitor == ViewSpec => Spec
  <1>1. ViewInit => Init
    BY ViewStart
  <1>2. [TableStep \/ Draw]_<<vars, viewVars>> => [Next]_vars
    BY DEF TableStep, Draw
  <1> QED
    BY <1>1, <1>2, PTL DEF ViewSpec, Spec

\* When children finish in time, no signal interrupts sem_wait and no two |= on a slot
\* overlap, the icon of success (operation_view.cxx:176) is only drawn for an operation
\* that its own child has ended, even if children or the window are killed.
THEOREM SuccessHonestHolds ==
    ASSUME "late" \notin Faults, "intr" \notin Faults, "race" \notin Faults
    PROVE  ViewSpec => SuccessHonest
  <1>1. Spec => []ApartInv
    BY ApartCorrect
  <1>2. DrawInv /\ [TableStep \/ Draw]_<<vars, viewVars>> => DrawInv'
    BY DrawKept
  <1>3. TypeOK /\ ApartInv /\ EndedInv /\ [TableStep \/ Draw]_<<vars, viewVars>>
          => EndedInv'
    BY EndedKept
  <1>4. DrawInv /\ EndedInv /\ [TableStep \/ Draw]_<<vars, viewVars>>
          => [drawing' # drawing /\ drawing # Drawn /\ icon'[drawing] = "success"
                => drawing \in ended]_<<vars, viewVars>>
    BY DrawHonest
  <1> QED
    BY <1>1, <1>2, <1>3, <1>4, ViewStart, ViewIsMonitor, TypeCorrect, PTL
       DEF ViewSpec, SuccessHonest

=============================================================================
