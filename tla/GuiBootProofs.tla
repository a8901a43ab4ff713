--------------------------- MODULE GuiBootProofs ---------------------------
(***************************************************************************)
(* Proofs about the start and the end of the monitoring window: types, and *)
(* for windows that do not overlap, that a running one can be found, that  *)
(* its semaphore comes with its segment and that no allocation is erased.  *)
(***************************************************************************)
EXTENDS GuiBoot, FiniteSetTheorems, TLAPS

\* Before the window has a semaphore of its own.
Early == {"off", "forceSem", "forceShm", "check", "create"}

\* The window has its segment.
Attached == {"size", "map", "pid", "reset", "post", "run"}

\* The semaphore has not been unlocked yet.
Locked == Early \cup {"open"} \cup (Attached \ {"run"})

Segments == [sized : BOOLEAN, pid : Objects, nb : Nat]

\* Children between sem_wait and sem_post, and children that have taken a slot.
Holding == {"alloc", "post"}
Took == {"post", "enabled"}

\* Children that took a slot of a segment, and those of them that did it under a
\* given semaphore.
Users(o) == {c \in Children : cshm[c] = o /\ cpc[c] \in Took}
Counted(g) == {c \in Children : /\ csem[c] = gsem[g] /\ cshm[c] = gshm[g]
                                /\ cpc[c] \in {"post", "enabled"}}

-----------------------------------------------------------------------------
(* The inductive invariant.                                                 *)

BootTypes ==
    /\ gpc \in [Guis -> GPcs]
    /\ gsem \in [Guis -> Objects] /\ gshm \in [Guis -> Objects]
    /\ gmap \in [Guis -> BOOLEAN]
    /\ semName \in Objects /\ shmName \in Objects
    /\ sem \in [Guis -> Nat]
    /\ shm \in [Guis -> Segments]
    /\ cpc \in [Children -> CPcs]
    /\ csem \in [Children -> Objects] /\ cshm \in [Children -> Objects]

\* Windows come one after the other.
TurnInv == \A g, h \in Guis : h < g /\ gpc[g] # "off" => gpc[h] = "gone"

\* The names and the process id while a window boots and runs.
NameInv ==
    \A g \in Guis :
        /\ gpc[g] \in Early => semName # g
        /\ gpc[g] = "create" => semName = None
        /\ gpc[g] \in Attached \cup {"open"} => gsem[g] = g /\ semName = g
        /\ gpc[g] \in Attached => gshm[g] \in Guis /\ shmName = gshm[g]
        /\ gpc[g] \in {"reset", "post", "run"} => shm[gshm[g]].pid = g

\* What a child has opened by the time it uses it; a semaphore that no window has
\* created yet has no users.
ChildInv ==
    \A c \in Children :
        /\ cpc[c] \in {"idle", "sem", "shm"} => cshm[c] = None
        /\ cpc[c] \in {"shm", "kill", "wait", "alloc", "post", "enabled"} => csem[c] \in Guis
        /\ cpc[c] \in {"kill", "wait", "alloc", "post", "enabled"} => cshm[c] \in Guis
        /\ csem[c] # None => gpc[csem[c]] \notin Early

\* Between sem_open and shm_open of the window a child that has its semaphore can
\* only have attached the segment that the window is about to take over.
PairInv ==
    \A c \in Children, g \in Guis :
        csem[c] = g /\ cshm[c] # None =>
            /\ gpc[g] = "open" => cshm[c] = shmName
            /\ gpc[g] \in Attached => cshm[c] = gshm[g]

\* A semaphore is born locked, unlocked once and then held by one child at a time.
MutexInv ==
    \A g \in Guis :
        /\ gpc[g] \in Locked =>
             sem[g] = 0 /\ \A c \in Children : csem[c] = g => cpc[c] \notin Holding \cup Took
        /\ sem[g] <= 1
        /\ sem[g] = 1 => \A c \in Children : csem[c] = g => cpc[c] \notin Holding
        /\ \A c, d \in Children :
             csem[c] = g /\ csem[d] = g /\ cpc[c] \in Holding /\ cpc[d] \in Holding => c = d

\* The count of a segment lies between the allocations made under the semaphore of
\* the window and the children that use the segment at all.
CountInv ==
    /\ \A g \in Guis : gpc[g] \in {"post", "run"} => shm[gshm[g]].nb >= Cardinality(Counted(g))
    /\ \A o \in Guis : shm[o].nb <= Cardinality(Users(o))

BootInv ==
    BootTypes /\ TurnInv /\ NameInv /\ ChildInv /\ PairInv /\ MutexInv /\ CountInv

-----------------------------------------------------------------------------
(* Steps of a window and steps of a child.                                  *)

GuiStep(g) == Start(g) \/ BootStep(g) \/ Fail(g) \/ Quit(g) \/ Crash(g)
KidStep(c) == Fork(c) \/ ChildStep(c) \/ MapFails(c)

LEMMA NextSplit ==
    ASSUME [Next]_vars
    PROVE  \/ \E g \in Guis : GuiStep(g)
           \/ \E c \in Children : KidStep(c)
           \/ UNCHANGED vars
  BY DEF Next, GuiStep, KidStep

\* A step of a window moves that window only, and no child.
LEMMA GuiMoves ==
    ASSUME BootTypes, NEW g \in Guis, GuiStep(g)
    PROVE  /\ UNCHANGED <<cpc, csem, cshm>>
           /\ gpc[g] # "gone"
           /\ gpc' \in [Guis -> GPcs] /\ gpc'[g] # "off"
           /\ \A h \in Guis : h # g => gpc'[h] = gpc[h]
  <1>1. UNCHANGED <<cpc, csem, cshm>>
    BY DEF GuiStep, BootStep, Start, ForceSem, ForceShm, Check, CreateSem, OpenShm, SizeShm,
           MapShm, WritePid, ResetOperations, Post, DestroySem, DestroyShm, Fail, Quit,
           Crash, childVars
  <1>2. gpc[g] # "gone"
    BY DEF GuiStep, BootStep, Start, ForceSem, ForceShm, Check, CreateSem, OpenShm, SizeShm,
           MapShm, WritePid, ResetOperations, Post, DestroySem, DestroyShm, Fail, Quit,
           Crash, Lives
  <1>3. \E to \in GPcs \ {"off"} : GuiGoto(g, to)
    BY DEF GuiStep, BootStep, Start, ForceSem, ForceShm, Check, CreateSem, OpenShm, SizeShm,
           MapShm, WritePid, ResetOperations, Post, DestroySem, DestroyShm, Fail, Quit,
           Crash, GPcs
  <1> QED
    BY <1>1, <1>2, <1>3 DEF GuiGoto, BootTypes

\* While a window takes a step, or is about to be started, no other one lives.
LEMMA OthersRest ==
    ASSUME Overlap = FALSE, BootTypes, TurnInv, NEW g \in Guis, GuiStep(g)
    PROVE  /\ \A h \in Guis : h < g => gpc[h] = "gone"
           /\ \A h \in Guis : h > g => gpc[h] = "off"
  <1>1. ASSUME NEW h \in Guis, h > g
        PROVE  gpc[h] = "off"
    BY <1>1, GuiMoves DEF TurnInv
  <1>2. CASE Start(g)
    <2>1. \A h \in Guis : h < g => h \in 1 .. g - 1
      BY GuiBootAssumption DEF Guis
    <2>2. \A h \in Guis : h < g => gpc[h] # "off" /\ ~Lives(h)
      BY <1>2, <2>1 DEF Start
    <2> QED
      BY <1>1, <2>2 DEF Lives
  <1>3. CASE ~Start(g)
    <2>1. gpc[g] # "off"
      BY <1>3 DEF GuiStep, BootStep, ForceSem, ForceShm, Check, CreateSem, OpenShm, SizeShm,
             MapShm, WritePid, ResetOperations, Post, DestroySem, DestroyShm, Fail, Quit,
             Crash, Lives
    <2> QED
      BY <1>1, <2>1 DEF TurnInv
  <1> QED
    BY <1>2, <1>3

LEMMA RestIsRest ==
    ASSUME Overlap = FALSE, BootTypes, TurnInv, NEW g \in Guis, GuiStep(g)
    PROVE  \A h \in Guis : h # g => gpc[h] \in {"off", "gone"} /\ gpc'[h] = gpc[h]
  <1>1. \A h \in Guis : h \in Int
    BY GuiBootAssumption DEF Guis
  <1>2. /\ \A h \in Guis : h < g => gpc[h] = "gone"
        /\ \A h \in Guis : h > g => gpc[h] = "off"
    BY OthersRest
  <1>3. \A h \in Guis : h # g => gpc'[h] = gpc[h]
    BY GuiMoves
  <1> QED
    BY <1>1, <1>2, <1>3

\* A step of a child touches neither the windows nor the names.
LEMMA KidMoves ==
    ASSUME BootTypes, NEW c \in Children, KidStep(c)
    PROVE  /\ UNCHANGED <<gpc, gsem, gshm, gmap, semName, shmName>>
           /\ cpc' \in [Children -> CPcs]
           /\ \A d \in Children :
                d # c => cpc'[d] = cpc[d] /\ csem'[d] = csem[d] /\ cshm'[d] = cshm[d]
  <1>1. UNCHANGED <<gpc, gsem, gshm, gmap, semName, shmName>>
    BY DEF KidStep, ChildStep, Fork, OpenSem, AttachShm, CheckPid, SemWait, Alloc, SemPost,
           MapFails, guiVars, names
  <1>2. \E to \in CPcs : ChildGoto(c, to)
    <2>1. CASE CheckPid(c)
      BY <2>1 DEF CheckPid, CPcs
    <2> QED
      BY <2>1 DEF KidStep, ChildStep, Fork, OpenSem, AttachShm, SemWait, Alloc, SemPost,
                  MapFails, CPcs
  <1>3. \A d \in Children : d # c => csem'[d] = csem[d]
    BY DEF KidStep, ChildStep, Fork, OpenSem, AttachShm, CheckPid, SemWait, Alloc, SemPost,
           MapFails, BootTypes
  <1>4. \A d \in Children : d # c => cshm'[d] = cshm[d]
    BY DEF KidStep, ChildStep, Fork, OpenSem, AttachShm, CheckPid, SemWait, Alloc, SemPost,
           MapFails, BootTypes
  <1> QED
    BY <1>1, <1>2, <1>3, <1>4 DEF ChildGoto, BootTypes

-----------------------------------------------------------------------------
(* Types.                                                                   *)

\* A segment that is changed in one field keeps its type.
LEMMA SegmentSet ==
    ASSUME shm \in [Guis -> Segments], NEW o \in Guis, NEW p \in Objects, NEW n \in Nat,
           \/ shm' = [shm EXCEPT ![o].sized = TRUE]
           \/ shm' = [shm EXCEPT ![o].pid = p]
           \/ shm' = [shm EXCEPT ![o].nb = n]
    PROVE  /\ shm' \in [Guis -> Segments]
           /\ \A h \in Guis : h # o => shm'[h] = shm[h]
           /\ shm' = [shm EXCEPT ![o].sized = TRUE] =>
                shm'[o].pid = shm[o].pid /\ shm'[o].nb = shm[o].nb
           /\ shm' = [shm EXCEPT ![o].pid = p] =>
                shm'[o].pid = p /\ shm'[o].nb = shm[o].nb
           /\ shm' = [shm EXCEPT ![o].nb = n] =>
                shm'[o].pid = shm[o].pid /\ shm'[o].nb = n
  <1>1. CASE shm' = [shm EXCEPT ![o].sized = TRUE]
    BY <1>1, Zenon DEF Segments
  <1> QED
    BY <1>1 DEF Segments

LEMMA BootTypesInit == Init => BootTypes
  <1> SUFFICES ASSUME Init
               PROVE  BootTypes
    OBVIOUS
  <1>1. gmap \in [Guis -> BOOLEAN] /\ shm \in [Guis -> Segments]
    BY DEF Init, Segments, Objects
  <1> QED
    BY <1>1 DEF Init, BootTypes, GPcs, CPcs, Objects

LEMMA GuiTypesKept ==
    ASSUME BootTypes, NameInv, NEW g \in Guis, GuiStep(g)
    PROVE  BootTypes'
  <1> USE GuiMoves
  <1>0. g \in Objects /\ None \in Objects /\ 0 \in Nat
    BY DEF Objects
  <1>1. ASSUME UNCHANGED <<gsem, gshm, gmap, semName, shmName, sem, shm>>
        PROVE  BootTypes'
    BY <1>1 DEF BootTypes
  <1>2. CASE Start(g) \/ Quit(g) \/ Crash(g)
    BY <1>1, <1>2 DEF Start, Quit, Crash, names
  <1>3. CASE ForceSem(g) \/ ForceShm(g) \/ DestroySem(g) \/ DestroyShm(g)
    <2>1. semName' \in Objects /\ shmName' \in Objects
      BY <1>0, <1>3 DEF ForceSem, ForceShm, DestroySem, DestroyShm, BootTypes
    <2> QED
      BY <1>3, <2>1 DEF ForceSem, ForceShm, DestroySem, DestroyShm, BootTypes
  <1>4. CASE Check(g)
    BY <1>4 DEF Check, BootTypes, names
  <1>5. CASE CreateSem(g)
    BY <1>5, <1>0 DEF CreateSem, BootTypes, FirstValue
  <1>6. CASE OpenShm(g)
    BY <1>6, <1>0 DEF OpenShm, BootTypes
  <1>7. CASE SizeShm(g) \/ WritePid(g) \/ ResetOperations(g)
    <2>1. gshm[g] \in Guis
      BY <1>7 DEF SizeShm, WritePid, ResetOperations, NameInv, Attached
    <2>2. shm' \in [Guis -> Segments]
      BY <1>0, <1>7, <2>1, SegmentSet
      DEF SizeShm, WritePid, ResetOperations, BootTypes, ClientPid
    <2> QED
      BY <1>7, <2>2 DEF SizeShm, WritePid, ResetOperations, BootTypes, names
  <1>8. CASE MapShm(g)
    <2>1. gmap' \in [Guis -> BOOLEAN]
      BY <1>8 DEF MapShm, BootTypes
    <2> QED
      BY <1>8, <2>1 DEF MapShm, BootTypes, names
  <1>9. CASE Post(g)
    <2>1. gsem[g] = g /\ sem[g] + 1 \in Nat
      BY <1>9 DEF Post, NameInv, Attached, BootTypes
    <2>2. sem' \in [Guis -> Nat]
      BY <1>9, <2>1 DEF Post, BootTypes
    <2> QED
      BY <1>9, <2>2 DEF Post, BootTypes, names
  <1>10. CASE Fail(g)
    <2>1. gmap' \in [Guis -> BOOLEAN]
      <3>1. (gpc[g] = "map") \in BOOLEAN
        OBVIOUS
      <3> QED
        BY <1>10, <3>1, Zenon DEF Fail, BootTypes
    <2> QED
      BY <1>10, <2>1 DEF Fail, BootTypes, names
  <1> QED
    BY <1>2, <1>3, <1>4, <1>5, <1>6, <1>7, <1>8, <1>9, <1>10 DEF GuiStep, BootStep

LEMMA KidTypesKept ==
    ASSUME BootTypes, ChildInv, NEW c \in Children, KidStep(c)
    PROVE  BootTypes'
  <1> USE KidMoves
  <1>1. CASE Fork(c) \/ CheckPid(c) \/ MapFails(c)
    BY <1>1 DEF Fork, CheckPid, MapFails, BootTypes
  <1>2. CASE OpenSem(c) \/ AttachShm(c)
    BY <1>2 DEF OpenSem, AttachShm, BootTypes
  <1>3. CASE SemWait(c) \/ SemPost(c)
    <2>1. csem[c] \in Guis
      BY <1>3 DEF SemWait, SemPost, ChildInv
    <2>2. sem[csem[c]] \in Nat
      BY <2>1 DEF BootTypes
    <2>3. SemWait(c) => sem[csem[c]] - 1 \in Nat
      BY <2>2 DEF SemWait
    <2>4. sem' \in [Guis -> Nat]
      BY <1>3, <2>1, <2>2, <2>3 DEF SemWait, SemPost, BootTypes
    <2> QED
      BY <1>3, <2>4 DEF SemWait, SemPost, BootTypes
  <1>4. CASE Alloc(c)
    <2>1. cshm[c] \in Guis
      BY <1>4 DEF Alloc, ChildInv
    <2>2. shm[cshm[c]].nb + 1 \in Nat /\ None \in Objects
      BY <2>1 DEF BootTypes, Segments, Objects
    <2>3. shm' = [shm EXCEPT ![cshm[c]].nb = shm[cshm[c]].nb + 1]
      BY <1>4, <2>1 DEF Alloc, BootTypes
    <2>4. shm' \in [Guis -> Segments]
      BY <2>1, <2>2, <2>3, SegmentSet DEF BootTypes
    <2> QED
      BY <1>4, <2>4 DEF Alloc, BootTypes
  <1> QED
    BY <1>1, <1>2, <1>3, <1>4 DEF KidStep, ChildStep

-----------------------------------------------------------------------------
(* Turns and names.                                                         *)

LEMMA GuiTurnKept ==
    ASSUME Overlap = FALSE, BootTypes, TurnInv, NEW g \in Guis, GuiStep(g)
    PROVE  TurnInv'
  <1> SUFFICES ASSUME NEW h \in Guis, NEW k \in Guis, k < h, gpc'[h] # "off"
               PROVE  gpc'[k] = "gone"
    BY DEF TurnInv
  <1>1. h \in Int /\ k \in Int /\ g \in Int
    BY GuiBootAssumption DEF Guis
  <1>2. /\ \A i \in Guis : i < g => gpc[i] = "gone"
        /\ \A i \in Guis : i > g => gpc[i] = "off"
    BY OthersRest
  <1>3. \A i \in Guis : i # g => gpc'[i] = gpc[i]
    BY GuiMoves
  <1>4. CASE h = g
    BY <1>1, <1>2, <1>3, <1>4
  <1>5. CASE h # g
    <2>1. gpc[h] # "off" /\ h < g
      BY <1>1, <1>2, <1>3, <1>5
    <2> QED
      BY <1>1, <1>2, <1>3, <2>1
  <1> QED
    BY <1>4, <1>5

LEMMA GuiNameKept ==
    ASSUME Overlap = FALSE, BootTypes, TurnInv, NameInv, NEW g \in Guis, GuiStep(g)
    PROVE  NameInv'
  <1>0. \A h \in Guis : h # g => gpc[h] \in {"off", "gone"} /\ gpc'[h] = gpc[h]
    BY RestIsRest
  <1>1. semName' \in {semName, g, None} /\ None \notin Guis
    BY GuiBootAssumption
    DEF GuiStep, BootStep, Start, ForceSem, ForceShm, Check, CreateSem, OpenShm, SizeShm,
        MapShm, WritePid, ResetOperations, Post, DestroySem, DestroyShm, Fail, Quit,
        Crash, names, Guis
  <1>2. ASSUME NEW h \in Guis, h # g
        PROVE  /\ gpc'[h] \in Early => semName' # h
               /\ gpc'[h] \notin {"create", "open"} \cup Attached
    BY <1>0, <1>1, <1>2 DEF Early, Attached, NameInv
  <1> DEFINE Mine ==
        /\ gpc'[g] \in Early => semName' # g
        /\ gpc'[g] = "create" => semName' = None
        /\ gpc'[g] \in Attached \cup {"open"} => gsem'[g] = g /\ semName' = g
        /\ gpc'[g] \in Attached => gshm'[g] \in Guis /\ shmName' = gshm'[g]
        /\ gpc'[g] \in {"reset", "post", "run"} => shm'[gshm'[g]].pid = g
  <1>3. Mine
    <2> USE DEF Early, Attached, GuiGoto
    <2>1. CASE Start(g)
      BY <2>1 DEF Start, NameInv, BootTypes, names
    <2>2. CASE Quit(g) \/ Crash(g) \/ Fail(g) \/ DestroySem(g) \/ DestroyShm(g)
      BY <2>2 DEF Quit, Crash, Fail, DestroySem, DestroyShm, BootTypes
    <2>3. CASE ForceSem(g) \/ ForceShm(g)
      BY <1>1, <2>3 DEF ForceSem, ForceShm, NameInv, BootTypes
    <2>4. CASE Check(g)
      <3>1. UNCHANGED semName /\ semName # g
        BY <2>4 DEF Check, NameInv, names
      <3>2. CASE semName # None
        BY <2>4, <3>2 DEF Check, BootTypes
      <3>3. CASE semName = None
        BY <2>4, <3>1, <3>3 DEF Check, BootTypes
      <3> QED
        BY <3>2, <3>3
    <2>5. CASE CreateSem(g)
      <3>1. semName = None /\ gpc'[g] = "open"
        BY <2>5 DEF CreateSem, NameInv, BootTypes
      <3>2. semName' = g /\ gsem'[g] = g
        BY <2>5, <3>1 DEF CreateSem, BootTypes
      <3> QED
        BY <3>1, <3>2
    <2>6. CASE OpenShm(g)
      <3>1. shmName' \in Guis
        BY <2>6 DEF OpenShm, BootTypes, Objects
      <3> QED
        BY <2>6, <3>1 DEF OpenShm, NameInv, BootTypes
    <2>7. CASE MapShm(g) \/ Post(g)
      BY <2>7 DEF MapShm, Post, NameInv, BootTypes, names
    <2>8. CASE SizeShm(g)
      <3>1. gpc[g] = "size" /\ gpc'[g] = "map" /\ UNCHANGED <<gsem, gshm, semName, shmName>>
        BY <2>8 DEF SizeShm, BootTypes, names
      <3> QED
        BY <3>1 DEF NameInv
    <2>9. CASE WritePid(g) \/ ResetOperations(g)
      <3>1. gshm[g] \in Guis /\ g \in Objects
        BY <2>9 DEF WritePid, ResetOperations, NameInv, Objects
      <3>2. shm'[gshm[g]].pid = g
        BY <2>9, <3>1, SegmentSet DEF WritePid, ResetOperations, NameInv, BootTypes, ClientPid
      <3> QED
        BY <2>9, <3>2 DEF WritePid, ResetOperations, NameInv, BootTypes, names
    <2> QED
      BY <2>1, <2>2, <2>3, <2>4, <2>5, <2>6, <2>7, <2>8, <2>9 DEF GuiStep, BootStep
  <1> QED
    BY <1>2, <1>3 DEF NameInv, Early, Attached

LEMMA KidNameKept ==
    ASSUME BootTypes, TurnInv, NameInv, ChildInv, NEW c \in Children, KidStep(c)
    PROVE  TurnInv' /\ NameInv'
  <1>1. \A o \in Guis : shm'[o].pid = shm[o].pid
    <2>1. CASE Alloc(c)
      BY <2>1 DEF Alloc, BootTypes, Segments
    <2> QED
      BY <2>1 DEF KidStep, ChildStep, Fork, OpenSem, AttachShm, CheckPid, SemWait, SemPost,
                  MapFails
  <1>2. TurnInv'
    BY KidMoves DEF TurnInv
  <1>3. NameInv'
    BY <1>1, KidMoves DEF NameInv, Attached
  <1> QED
    BY <1>2, <1>3
-----------------------------------------------------------------------------
(* Steps of a window: children, pairs, the semaphore and the count.         *)

\* A window that has a semaphore never goes back, and only the last step of the boot
\* unlocks it.
LEMMA GuiGoesOn ==
    ASSUME BootTypes, NEW g \in Guis, GuiStep(g)
    PROVE  /\ gpc'[g] \in Early => gpc[g] \in Early
           /\ gpc'[g] \in Locked => gpc[g] \in Locked
           /\ gpc'[g] = "open" => CreateSem(g)
           /\ gpc'[g] \in Attached => OpenShm(g) \/ (gpc[g] \in Attached /\ UNCHANGED gshm)
  <1> USE DEF Early, Attached, Locked, GuiGoto, BootTypes
  <1>1. CASE Start(g) \/ Quit(g) \/ Crash(g) \/ Fail(g) \/ DestroySem(g) \/ DestroyShm(g)
    BY <1>1 DEF Start, Quit, Crash, Fail, DestroySem, DestroyShm
  <1>2. CASE ForceSem(g) \/ ForceShm(g) \/ Check(g)
    BY <1>2 DEF ForceSem, ForceShm, Check
  <1>3. CASE CreateSem(g) \/ OpenShm(g)
    BY <1>3 DEF CreateSem, OpenShm
  <1>4. CASE SizeShm(g) \/ MapShm(g) \/ WritePid(g) \/ ResetOperations(g) \/ Post(g)
    <2>1. gpc[g] \in {"size", "map", "pid", "reset", "post"} /\ UNCHANGED gshm
      BY <1>4 DEF SizeShm, MapShm, WritePid, ResetOperations, Post
    <2>2. gpc'[g] \in {"map", "pid", "reset", "post", "run"}
      BY <1>4 DEF SizeShm, MapShm, WritePid, ResetOperations, Post
    <2> QED
      BY <2>1, <2>2
  <1> QED
    BY <1>1, <1>2, <1>3, <1>4 DEF GuiStep, BootStep

LEMMA GuiPairsKept ==
    ASSUME Overlap = FALSE, BootTypes, TurnInv, NameInv, ChildInv, PairInv,
           NEW g \in Guis, GuiStep(g)
    PROVE  ChildInv' /\ PairInv'
  <1>0. UNCHANGED <<cpc, csem, cshm>> /\ None \notin Guis
    BY GuiMoves, GuiBootAssumption DEF Guis
  <1>1. \A h \in Guis : h # g => gpc[h] \in {"off", "gone"} /\ gpc'[h] = gpc[h]
    BY RestIsRest
  <1>2. \A h \in Guis : gpc'[h] \in Early => gpc[h] \in Early
    BY <1>1, GuiGoesOn
  <1>3. ChildInv'
    <2>1. \A c \in Children : csem[c] # None => csem[c] \in Guis
      BY DEF BootTypes, Objects
    <2> QED
      BY <1>0, <1>2, <2>1 DEF ChildInv
  <1>4. ASSUME NEW c \in Children, csem[c] = g, cshm[c] # None
        PROVE  /\ gpc'[g] = "open" => cshm[c] = shmName'
               /\ gpc'[g] \in Attached => cshm[c] = gshm'[g]
    <2>1. ~CreateSem(g)
      BY <1>0, <1>4 DEF CreateSem, ChildInv, Early
    <2>2. CASE OpenShm(g)
      <3>1. gpc[g] = "open" /\ gpc'[g] = "size"
        BY <2>2 DEF OpenShm, GuiGoto, BootTypes
      <3>2. cshm[c] = shmName
        BY <1>4, <3>1 DEF PairInv
      <3>3. gshm'[g] = shmName
        BY <1>4, <2>2, <3>2 DEF OpenShm, BootTypes
      <3> QED
        BY <3>1, <3>2, <3>3
    <2>3. CASE gpc[g] \in Attached /\ UNCHANGED gshm
      BY <1>4, <2>1, <2>3, GuiGoesOn DEF PairInv
    <2> QED
      BY <2>1, <2>2, <2>3, GuiGoesOn
  <1>5. PairInv'
    BY <1>0, <1>1, <1>4 DEF PairInv, Attached
  <1> QED
    BY <1>3, <1>5

LEMMA GuiMutexKept ==
    ASSUME Overlap = FALSE, BootTypes, TurnInv, NameInv, MutexInv, NEW g \in Guis, GuiStep(g)
    PROVE  MutexInv'
  <1>0. UNCHANGED <<cpc, csem, cshm>>
    BY GuiMoves
  <1>1. \A h \in Guis : gpc'[h] \in Locked => gpc[h] \in Locked
    BY RestIsRest, GuiGoesOn
  <1>2. CASE UNCHANGED sem
    BY <1>0, <1>1, <1>2 DEF MutexInv
  <1>3. CASE CreateSem(g)
    <2>1. sem[g] = 0
      BY <1>3 DEF CreateSem, MutexInv, Locked, Early
    <2>2. sem' = sem
      BY <1>3, <2>1 DEF CreateSem, BootTypes, FirstValue
    <2> QED
      BY <1>2, <2>2
  <1>4. CASE Post(g)
    <2>1. gsem[g] = g /\ gpc[g] \in Locked /\ gpc'[g] \notin Locked
      BY <1>4 DEF Post, NameInv, Attached, Locked, Early, GuiGoto, BootTypes
    <2>2. sem'[g] = 1 /\ \A h \in Guis : h # g => sem'[h] = sem[h]
      BY <1>4, <2>1 DEF Post, MutexInv, BootTypes
    <2>3. \A c \in Children : csem[c] = g => cpc[c] \notin Holding
      BY <2>1 DEF MutexInv
    <2> QED
      BY <1>0, <1>1, <2>1, <2>2, <2>3 DEF MutexInv
  <1>5. UNCHANGED sem \/ CreateSem(g) \/ Post(g)
    BY DEF GuiStep, BootStep, Start, ForceSem, ForceShm, Check, OpenShm, SizeShm, MapShm,
           WritePid, ResetOperations, DestroySem, DestroyShm, Fail, Quit, Crash
  <1> QED
    BY <1>2, <1>3, <1>4, <1>5

LEMMA SetsFinite ==
    ASSUME NEW S \in SUBSET Children
    PROVE  IsFiniteSet(S) /\ Cardinality(S) \in Nat /\ Cardinality({}) = 0
  BY FS_Subset, FS_CardinalityType, FS_EmptySet, GuiBootAssumption

LEMMA GuiCountKept ==
    ASSUME Overlap = FALSE, BootTypes, TurnInv, NameInv, MutexInv, CountInv,
           NEW g \in Guis, GuiStep(g)
    PROVE  CountInv'
  <1>0. UNCHANGED <<cpc, csem, cshm>>
    BY GuiMoves
  <1>1. \A h \in Guis : h # g => gpc'[h] \in {"off", "gone"}
    BY RestIsRest
  <1>2. \A o \in Guis : Users(o)' = Users(o) /\ Cardinality(Users(o)) \in Nat
    <2>1. \A o \in Guis : Users(o) \in SUBSET Children
      BY DEF Users
    <2> QED
      BY <1>0, <2>1, SetsFinite DEF Users
  <1>3. \A o \in Guis : shm[o].nb \in Nat
    BY DEF BootTypes, Segments
  <1>4. CASE ResetOperations(g)
    <2>1. gpc[g] = "reset" /\ UNCHANGED <<gsem, gshm>> /\ gshm[g] \in Guis /\ gsem[g] = g
      BY <1>4 DEF ResetOperations, NameInv, Attached
    <2>2. shm'[gshm[g]].nb = 0 /\ \A h \in Guis : h # gshm[g] => shm'[h] = shm[h]
      BY <1>4, <2>1 DEF ResetOperations, BootTypes, Segments
    <2>3. \A c \in Children : csem[c] = g => cpc[c] \notin Took
      BY <2>1 DEF MutexInv, Locked, Attached
    <2>4. Counted(g)' = {}
      BY <1>0, <2>1, <2>3 DEF Counted, Took
    <2>5. Cardinality({}) = 0
      BY FS_EmptySet
    <2>6. \A o \in Guis : shm'[o].nb <= Cardinality(Users(o)')
      BY <1>2, <2>1, <2>2 DEF CountInv
    <2>7. shm'[gshm'[g]].nb >= Cardinality(Counted(g)')
      BY <2>1, <2>2, <2>4, <2>5
    <2> QED
      BY <1>1, <2>6, <2>7 DEF CountInv
  <1>5. CASE ~ResetOperations(g)
    <2>1. \A o \in Guis : shm'[o].nb = shm[o].nb
      <3>1. CASE SizeShm(g) \/ WritePid(g)
        <4>1. gshm[g] \in Guis /\ g \in Objects /\ 0 \in Nat
          BY <3>1 DEF SizeShm, WritePid, NameInv, Attached, Objects
        <4>2. /\ \A h \in Guis : h # gshm[g] => shm'[h] = shm[h]
              /\ shm'[gshm[g]].nb = shm[gshm[g]].nb
          BY <3>1, <4>1, SegmentSet DEF SizeShm, WritePid, ClientPid, BootTypes
        <4> QED
          BY <4>1, <4>2
      <3> QED
        BY <1>5, <3>1
        DEF GuiStep, BootStep, Start, ForceSem, ForceShm, Check, CreateSem, OpenShm, MapShm,
            Post, DestroySem, DestroyShm, Fail, Quit, Crash
    <2>2. ASSUME gpc'[g] \in {"post", "run"}
          PROVE  Post(g)
      BY <1>5, <2>2
      DEF GuiStep, BootStep, Start, ForceSem, ForceShm, Check, CreateSem, OpenShm, MapShm,
          SizeShm, WritePid, Post, DestroySem, DestroyShm, Fail, Quit, Crash, GuiGoto, BootTypes
    <2>3. ASSUME Post(g)
          PROVE  shm'[gshm'[g]].nb >= Cardinality(Counted(g)')
      <3>1. UNCHANGED <<gsem, gshm>> /\ gpc[g] = "post" /\ gshm[g] \in Guis
        BY <2>3 DEF Post, NameInv, Attached
      <3>2. Counted(g)' = Counted(g)
        BY <1>0, <3>1 DEF Counted
      <3> QED
        BY <2>1, <3>1, <3>2 DEF CountInv
    <2>4. \A o \in Guis : shm'[o].nb <= Cardinality(Users(o)')
      BY <1>2, <2>1 DEF CountInv
    <2> QED
      BY <1>1, <2>2, <2>3, <2>4 DEF CountInv
  <1> QED
    BY <1>4, <1>5

-----------------------------------------------------------------------------
(* Steps of a child.                                                        *)

LEMMA KidPairsKept ==
    ASSUME BootTypes, NameInv, ChildInv, PairInv, NEW c \in Children, KidStep(c)
    PROVE  ChildInv' /\ PairInv'
  <1>0. /\ UNCHANGED <<gpc, gsem, gshm, semName, shmName>> /\ None \notin Guis
        /\ \A d \in Children :
             d # c => cpc'[d] = cpc[d] /\ csem'[d] = csem[d] /\ cshm'[d] = cshm[d]
    BY KidMoves, GuiBootAssumption DEF Guis
  <1> DEFINE Child ==
        /\ cpc'[c] \in {"idle", "sem", "shm"} => cshm'[c] = None
        /\ cpc'[c] \in {"shm", "kill", "wait", "alloc", "post", "enabled"} => csem'[c] \in Guis
        /\ cpc'[c] \in {"kill", "wait", "alloc", "post", "enabled"} => cshm'[c] \in Guis
        /\ csem'[c] # None => gpc[csem'[c]] \notin Early
  <1> DEFINE Pair ==
        \A g \in Guis :
            csem'[c] = g /\ cshm'[c] # None =>
                /\ gpc[g] = "open" => cshm'[c] = shmName
                /\ gpc[g] \in Attached => cshm'[c] = gshm[g]
  <1>1. Child /\ Pair
    <2>1. CASE OpenSem(c)
      <3>1. /\ cpc[c] = "sem" /\ csem'[c] = semName /\ cshm'[c] = None
            /\ cpc'[c] = IF semName = None THEN "disabled" ELSE "shm"
        BY <2>1 DEF OpenSem, ChildGoto, BootTypes, ChildInv
      <3>2. semName # None => semName \in Guis /\ gpc[semName] \notin Early
        BY DEF BootTypes, Objects, NameInv
      <3> QED
        BY <3>1, <3>2
    <2>2. CASE AttachShm(c)
      <3>1. /\ cpc[c] = "shm" /\ csem'[c] = csem[c] /\ cshm'[c] = shmName
            /\ cpc'[c] = IF shmName = None THEN "disabled" ELSE "kill"
        BY <2>2 DEF AttachShm, ChildGoto, BootTypes
      <3>2. shmName # None => shmName \in Guis
        BY DEF BootTypes, Objects
      <3> QED
        BY <3>1, <3>2 DEF ChildInv, NameInv
    <2>3. CASE Fork(c)
      <3>1. cpc[c] = "idle" /\ cpc'[c] = "sem" /\ UNCHANGED <<csem, cshm>>
        BY <2>3 DEF Fork, ChildGoto, BootTypes
      <3> QED
        BY <3>1 DEF ChildInv, PairInv
    <2>4. CASE MapFails(c) \/ CheckPid(c) \/ SemWait(c) \/ Alloc(c) \/ SemPost(c)
      <3>1. cpc[c] \in {"kill", "wait", "alloc", "post"} /\ UNCHANGED <<csem, cshm>>
        BY <2>4 DEF MapFails, CheckPid, SemWait, Alloc, SemPost
      <3>2. cpc'[c] \in {"disabled", "killed", "wait", "alloc", "post", "enabled"}
        BY <2>4 DEF MapFails, CheckPid, SemWait, Alloc, SemPost, ChildGoto, BootTypes
      <3> QED
        BY <3>1, <3>2 DEF ChildInv, PairInv
    <2> QED
      BY <2>1, <2>2, <2>3, <2>4 DEF KidStep, ChildStep
  <1>2. ChildInv'
    BY <1>0, <1>1 DEF ChildInv
  <1>3. PairInv'
    BY <1>0, <1>1 DEF PairInv
  <1> QED
    BY <1>2, <1>3

\* What the steps of woo_init do to the semaphore and to the critical section.
LEMMA KidSections ==
    ASSUME BootTypes, ChildInv, NEW c \in Children, KidStep(c)
    PROVE  \/ /\ SemWait(c) /\ csem[c] \in Guis /\ cpc'[c] = "alloc"
              /\ UNCHANGED <<csem, cshm, shm>>
           \/ /\ Alloc(c) /\ csem[c] \in Guis /\ cshm[c] \in Guis
              /\ cpc[c] = "alloc" /\ cpc'[c] = "post" /\ UNCHANGED <<csem, cshm, sem>>
           \/ /\ SemPost(c) /\ csem[c] \in Guis /\ cpc[c] = "post" /\ cpc'[c] = "enabled"
              /\ UNCHANGED <<csem, cshm, shm>>
           \/ /\ cpc[c] \notin Holding \cup Took /\ cpc'[c] \notin Holding \cup Took
              /\ UNCHANGED <<sem, shm>>
  <1>1. CASE SemWait(c)
    BY <1>1 DEF SemWait, ChildGoto, BootTypes, ChildInv
  <1>2. CASE Alloc(c)
    BY <1>2 DEF Alloc, ChildGoto, BootTypes, ChildInv
  <1>3. CASE SemPost(c)
    BY <1>3 DEF SemPost, ChildGoto, BootTypes, ChildInv
  <1>4. CASE OpenSem(c) \/ AttachShm(c) \/ Fork(c) \/ MapFails(c) \/ CheckPid(c)
    <2>1. cpc[c] \notin Holding \cup Took /\ UNCHANGED <<sem, shm>>
      BY <1>4 DEF OpenSem, AttachShm, Fork, MapFails, CheckPid, Holding, Took
    <2>2. cpc'[c] \notin Holding \cup Took
      BY <1>4 DEF OpenSem, AttachShm, Fork, MapFails, CheckPid, Holding, Took, ChildGoto,
                  BootTypes
    <2> QED
      BY <2>1, <2>2
  <1> QED
    BY <1>1, <1>2, <1>3, <1>4 DEF KidStep, ChildStep

LEMMA KidMutexKept ==
    ASSUME BootTypes, ChildInv, MutexInv, NEW c \in Children, KidStep(c)
    PROVE  MutexInv'
  <1> USE DEF Holding, Took
  <1>0. /\ UNCHANGED gpc
        /\ \A d \in Children : d # c => cpc'[d] = cpc[d] /\ csem'[d] = csem[d]
    BY KidMoves
  <1>1. CASE SemWait(c) /\ csem[c] \in Guis /\ cpc'[c] = "alloc" /\ UNCHANGED csem
    <2>1. sem[csem[c]] = 1 /\ gpc[csem[c]] \notin Locked
      BY <1>1 DEF SemWait, MutexInv, BootTypes
    <2>2. sem'[csem[c]] = 0 /\ \A g \in Guis : g # csem[c] => sem'[g] = sem[g]
      BY <1>1, <2>1 DEF SemWait, BootTypes
    <2>3. \A d \in Children : csem[d] = csem[c] => cpc[d] \notin Holding
      BY <1>1, <2>1 DEF MutexInv
    <2>4. ASSUME NEW g \in Guis, g # csem[c]
          PROVE  \A d \in Children : csem'[d] = g => cpc'[d] = cpc[d] /\ csem[d] = g
      BY <1>0, <1>1, <2>4
    <2> QED
      BY <1>0, <1>1, <2>1, <2>2, <2>3, <2>4 DEF MutexInv
  <1>2. CASE /\ Alloc(c) /\ csem[c] \in Guis /\ cpc[c] = "alloc" /\ cpc'[c] = "post"
             /\ UNCHANGED <<csem, sem>>
    BY <1>0, <1>2 DEF MutexInv
  <1>3. CASE /\ SemPost(c) /\ csem[c] \in Guis /\ cpc[c] = "post" /\ cpc'[c] = "enabled"
             /\ UNCHANGED csem
    <2>1. sem[csem[c]] = 0 /\ gpc[csem[c]] \notin Locked
      BY <1>3 DEF MutexInv, BootTypes
    <2>2. sem'[csem[c]] = 1 /\ \A g \in Guis : g # csem[c] => sem'[g] = sem[g]
      BY <1>3, <2>1 DEF SemPost, BootTypes
    <2>3. \A d \in Children : csem[d] = csem[c] /\ d # c => cpc[d] \notin Holding
      BY <1>3 DEF MutexInv
    <2>4. ASSUME NEW g \in Guis, g # csem[c]
          PROVE  \A d \in Children : csem'[d] = g => cpc'[d] = cpc[d] /\ csem[d] = g
      BY <1>0, <1>3, <2>4
    <2> QED
      BY <1>0, <1>3, <2>1, <2>2, <2>3, <2>4 DEF MutexInv
  <1>4. CASE /\ cpc[c] \notin Holding \cup Took /\ cpc'[c] \notin Holding \cup Took
             /\ UNCHANGED sem
    <2>1. \A d \in Children : cpc'[d] \in Holding \cup Took => cpc'[d] = cpc[d] /\ csem'[d] = csem[d]
      BY <1>0, <1>4
    <2> QED
      BY <1>0, <1>4, <2>1 DEF MutexInv
  <1> QED
    BY <1>1, <1>2, <1>3, <1>4, KidSections

LEMMA KidCountKept ==
    ASSUME BootTypes, NameInv, ChildInv, CountInv, NEW c \in Children, KidStep(c)
    PROVE  CountInv'
  <1> USE DEF Took
  <1>0. /\ UNCHANGED <<gpc, gsem, gshm>>
        /\ \A d \in Children :
             d # c => cpc'[d] = cpc[d] /\ csem'[d] = csem[d] /\ cshm'[d] = cshm[d]
    BY KidMoves
  <1>1. CASE /\ UNCHANGED shm
             /\ \/ cpc[c] \notin Took /\ cpc'[c] \notin Took
                \/ cpc[c] \in Took /\ cpc'[c] \in Took /\ UNCHANGED <<csem, cshm>>
    <2>1. \A o : Users(o)' = Users(o)
      BY <1>0, <1>1 DEF Users
    <2>2. \A g : Counted(g)' = Counted(g)
      BY <1>0, <1>1 DEF Counted
    <2> QED
      BY <1>0, <1>1, <2>1, <2>2 DEF CountInv
  <1>2. CASE /\ Alloc(c) /\ cshm[c] \in Guis /\ cpc[c] = "alloc" /\ cpc'[c] = "post"
             /\ UNCHANGED <<csem, cshm>>
    <2>1. shm'[cshm[c]].nb = shm[cshm[c]].nb + 1 /\ \A o \in Guis : o # cshm[c] => shm'[o] = shm[o]
      BY <1>2 DEF Alloc, BootTypes, Segments
    <2>2. \A o \in Guis : shm[o].nb \in Nat
      BY DEF BootTypes, Segments
    <2>3. ASSUME NEW o \in Guis
          PROVE  shm'[o].nb <= Cardinality(Users(o)')
      <3>0. Users(o) \in SUBSET Children
        BY DEF Users
      <3>1. IsFiniteSet(Users(o)) /\ Cardinality(Users(o)) \in Nat
        BY <3>0, SetsFinite
      <3>2. CASE o = cshm[c]
        <4>1. Users(o)' = Users(o) \cup {c} /\ c \notin Users(o)
          BY <1>0, <1>2, <3>2 DEF Users
        <4>2. Cardinality(Users(o)') = Cardinality(Users(o)) + 1
          BY <3>1, <4>1, FS_AddElement
        <4> QED
          BY <2>1, <2>2, <3>1, <3>2, <4>2 DEF CountInv
      <3>3. CASE o # cshm[c]
        <4>1. Users(o)' = Users(o)
          BY <1>0, <1>2, <3>3 DEF Users
        <4> QED
          BY <2>1, <3>3, <4>1 DEF CountInv
      <3> QED
        BY <3>2, <3>3
    <2>4. ASSUME NEW g \in Guis, gpc'[g] \in {"post", "run"}
          PROVE  shm'[gshm'[g]].nb >= Cardinality(Counted(g)')
      <3>0. Counted(g) \in SUBSET Children /\ gshm[g] \in Guis /\ UNCHANGED <<gpc, gshm>>
        BY <1>0, <2>4 DEF Counted, NameInv, Attached
      <3>1. IsFiniteSet(Counted(g)) /\ Cardinality(Counted(g)) \in Nat
        BY <3>0, SetsFinite
      <3>2. CASE csem[c] = gsem[g] /\ cshm[c] = gshm[g]
        <4>1. Counted(g)' = Counted(g) \cup {c} /\ c \notin Counted(g)
          BY <1>0, <1>2, <3>2 DEF Counted
        <4>2. Cardinality(Counted(g)') = Cardinality(Counted(g)) + 1
          BY <3>1, <4>1, FS_AddElement
        <4> QED
          BY <2>1, <2>2, <2>4, <3>0, <3>1, <3>2, <4>2 DEF CountInv
      <3>3. CASE ~(csem[c] = gsem[g] /\ cshm[c] = gshm[g])
        <4>1. Counted(g)' = Counted(g)
          BY <1>0, <1>2, <3>3 DEF Counted
        <4>2. shm[gshm[g]].nb >= Cardinality(Counted(g)) /\ shm'[gshm[g]].nb >= shm[gshm[g]].nb
          BY <2>1, <2>2, <2>4, <3>0 DEF CountInv
        <4>3. shm'[gshm[g]].nb \in Nat
          BY <2>1, <2>2, <3>0
        <4> QED
          BY <2>2, <3>0, <3>1, <4>1, <4>2, <4>3
      <3> QED
        BY <3>2, <3>3
    <2> QED
      BY <2>3, <2>4 DEF CountInv
  <1> QED
    BY <1>1, <1>2, KidSections DEF Holding, SemWait, SemPost

-----------------------------------------------------------------------------
(* Theorems.                                                                *)

\* The invariant holds for any number of windows in sequence, however they are
\* started, fail and are killed, and for any finite set of children.
LEMMA BootInvHolds == ASSUME Overlap = FALSE PROVE Spec => []BootInv
  <1>1. Init => BootInv
    <2> SUFFICES ASSUME Init
                 PROVE  BootInv
      OBVIOUS
    <2>1. BootTypes
      BY BootTypesInit
    <2>2. /\ \A g \in Guis : gpc[g] = "off" /\ sem[g] = 0 /\ shm[g].nb = 0
          /\ \A c \in Children : cpc[c] = "idle" /\ csem[c] = None /\ cshm[c] = None
          /\ semName = None /\ None \notin Guis
      BY GuiBootAssumption DEF Init, Guis
    <2>3. TurnInv /\ NameInv /\ ChildInv /\ PairInv
      BY <2>2 DEF TurnInv, NameInv, ChildInv, PairInv, Attached
    <2>4. MutexInv
      BY <2>2 DEF MutexInv, Holding, Took
    <2>5. \A o \in Guis : Users(o) \in SUBSET Children
      BY DEF Users
    <2>6. \A o \in Guis : Cardinality(Users(o)) \in Nat
      BY <2>5, SetsFinite
    <2>7. CountInv
      BY <2>2, <2>6 DEF CountInv
    <2> QED
      BY <2>1, <2>3, <2>4, <2>7 DEF BootInv
  <1>2. BootInv /\ [Next]_vars => BootInv'
    <2> SUFFICES ASSUME BootInv, [Next]_vars
                 PROVE  BootInv'
      OBVIOUS
    <2> USE DEF BootInv
    <2>1. CASE \E g \in Guis : GuiStep(g)
      BY <2>1, GuiTypesKept, GuiTurnKept, GuiNameKept, GuiPairsKept, GuiMutexKept, GuiCountKept
    <2>2. CASE \E c \in Children : KidStep(c)
      BY <2>2, KidTypesKept, KidNameKept, KidPairsKept, KidMutexKept, KidCountKept
    <2>3. CASE UNCHANGED vars
      <3>1. UNCHANGED <<gpc, gsem, gshm, gmap, semName, shmName, sem, shm, cpc, csem, cshm>>
        BY <2>3 DEF vars, guiVars, names, childVars
      <3>2. BootTypes' /\ TurnInv' /\ NameInv' /\ ChildInv'
        BY <3>1 DEF BootTypes, TurnInv, NameInv, ChildInv
      <3>3. PairInv' /\ MutexInv'
        BY <3>1 DEF PairInv, MutexInv
      <3>4. CountInv'
        BY <3>1 DEF CountInv, Counted, Users
      <3> QED
        BY <3>2, <3>3, <3>4
    <2> QED
      BY <2>1, <2>2, <2>3, NextSplit
  <1> QED
    BY <1>1, <1>2, PTL DEF Spec

\* Types, for windows that do not overlap: a semaphore counts at most 1, so that one
\* child at a time is in the table, and a segment never counts more operations than
\* there are children (data.cxx:86 and 136, data.c of the server).
THEOREM BootTypesHold == ASSUME Overlap = FALSE PROVE Spec => []TypeOK
  <1>1. BootInv => TypeOK
    <2> SUFFICES ASSUME BootInv
                 PROVE  TypeOK
      OBVIOUS
    <2>1. sem \in [Guis -> 0 .. 1]
      BY DEF BootInv, BootTypes, MutexInv
    <2>2. ASSUME NEW o \in Guis
          PROVE  shm[o].nb \in 0 .. Cardinality(Children)
      <3>1. Users(o) \in SUBSET Children
        BY DEF Users
      <3>2. /\ Cardinality(Users(o)) \in Nat /\ Cardinality(Children) \in Nat
            /\ Cardinality(Users(o)) <= Cardinality(Children)
        BY <3>1, FS_Subset, FS_CardinalityType, GuiBootAssumption
      <3> QED
        BY <3>2 DEF BootInv, BootTypes, Segments, CountInv
    <2>3. shm \in [Guis -> [sized : BOOLEAN, pid : Objects, nb : 0 .. Cardinality(Children)]]
      BY <2>2, Zenon DEF BootInv, BootTypes, Segments
    <2> QED
      BY <2>1, <2>3 DEF TypeOK, BootInv, BootTypes
  <1> QED
    BY <1>1, BootInvHolds, PTL

\* The children of the server can find a running window, after any number of windows
\* that ended, failed or were killed (data.cxx:77-83, 146-151).
THEOREM RunningReachableHolds == ASSUME Overlap = FALSE PROVE Spec => []RunningReachable
  <1>1. BootInv => RunningReachable
    BY DEF BootInv, NameInv, Attached, RunningReachable
  <1> QED
    BY <1>1, BootInvHolds, PTL

\* A child that found the semaphore of a running window found its segment too
\* (data.cxx:60-65, 86, 95 and 146-157).
THEOREM PairMatchesHolds == ASSUME Overlap = FALSE PROVE Spec => []PairMatches
  <1>1. BootInv => PairMatches
    BY DEF BootInv, PairInv, Attached, PairMatches
  <1> QED
    BY <1>1, BootInvHolds, PTL

\* No boot erases an allocation made under its own semaphore, for any finite set of
\* children (data.cxx:86 and 136).
THEOREM AllocationKeptHolds == ASSUME Overlap = FALSE PROVE Spec => []AllocationKept
  <1>1. BootInv => AllocationKept
    BY DEF BootInv, CountInv, Counted, AllocationKept
  <1> QED
    BY <1>1, BootInvHolds, PTL

=============================================================================
