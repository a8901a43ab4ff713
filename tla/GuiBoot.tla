------------------------------ MODULE GuiBoot ------------------------------
(***************************************************************************)
(* How a GUI publishes the semaphore and the shared memory, and how the    *)
(* children of the server find them: data::initialize and data::destroy    *)
(* (woo-tftpd-gui/data.cxx) against woo_init (woo-tftpd-server/data.c).    *)
(*                                                                         *)
(* A name leads to an object; unlinking takes the name away and leaves the *)
(* object to whoever has it open.  An object is called after the GUI that  *)
(* created it.  GUI processes are started in the order of their numbers    *)
(* and live once.                                                          *)
(***************************************************************************)
EXTENDS Naturals, FiniteSets

CONSTANTS
    NbGuis,     \* bound: GUI processes that are started
    Children,   \* children of the server, one request each
    None,       \* no object, no name, and process id 0
    Modes,      \* how GUIs are started: "plain", "force" (option -f)
    Overlap,    \* may a GUI be started while another one lives?
    Faults      \* "crash": a GUI is killed, "fail": a system call of it fails

ASSUME GuiBootAssumption ==
    /\ NbGuis \in Nat \ {0} /\ IsFiniteSet(Children)
    /\ Modes \subseteq {"plain", "force"} /\ Modes # {}
    /\ Overlap \in BOOLEAN
    /\ Faults \subseteq {"crash", "fail"}
    /\ None \notin 1 .. NbGuis

VARIABLES
    gpc,        \* where data::initialize or data::destroy is
    gsem,       \* m_semaphore: the object it leads to
    gshm,       \* m_smid: the object it leads to
    gmap,       \* m_smdata is not 0
    semName,    \* what WOOTFTPD_SEM_NAME leads to
    shmName,    \* what WOOTFTPD_SHM_NAME leads to
    sem,        \* value of each semaphore
    shm,        \* each segment: has it its size, client_pid, nb_operation
    cpc,        \* where woo_init is
    csem, cshm  \* what the child has opened

guiVars == <<gpc, gsem, gshm, gmap>>
names == <<semName, shmName>>
childVars == <<cpc, csem, cshm>>
vars == <<guiVars, names, sem, shm, childVars>>

Guis == 1 .. NbGuis
Objects == Guis \cup {None}

GPcs == {"off", "forceSem", "forceShm", "check", "create", "open", "size", "map",
         "pid", "reset", "post", "run", "destroySem", "destroyShm", "gone"}
CPcs == {"idle", "sem", "shm", "kill", "wait", "alloc", "post", "enabled",
         "disabled", "killed"}

\* The process exists: kill(pid, 0) succeeds.
Lives(g) == gpc[g] \notin {"off", "gone"}

GuiGoto(g, to) == gpc' = [gpc EXCEPT ![g] = to]
ChildGoto(c, to) == cpc' = [cpc EXCEPT ![c] = to]

-----------------------------------------------------------------------------
(* The GUI.                                                                 *)

\* application::start: the user starts the next GUI.
Start(g) ==
    /\ gpc[g] = "off"
    /\ \A h \in 1 .. g - 1 : gpc[h] # "off" /\ (Overlap \/ ~Lives(h))
    /\ \E mode \in Modes : GuiGoto(g, IF mode = "force" THEN "forceSem" ELSE "check")
    /\ UNCHANGED <<gsem, gshm, gmap, names, sem, shm, childVars>>

ForceSem(g) ==
    /\ gpc[g] = "forceSem"
    /\ semName' = None
    /\ GuiGoto(g, "forceShm")
    /\ UNCHANGED <<gsem, gshm, gmap, shmName, sem, shm, childVars>>

ForceShm(g) ==
    /\ gpc[g] = "forceShm"
    /\ shmName' = None
    /\ GuiGoto(g, "check")
    /\ UNCHANGED <<gsem, gshm, gmap, semName, sem, shm, childVars>>

\* Is there a GUI already?  m_semaphore then leads to its semaphore.
Check(g) ==
    /\ gpc[g] = "check"
    /\ IF semName # None
         THEN gsem' = [gsem EXCEPT ![g] = semName] /\ GuiGoto(g, "destroySem")
         ELSE GuiGoto(g, "create") /\ UNCHANGED gsem
    /\ UNCHANGED <<gshm, gmap, names, sem, shm, childVars>>

\* Faulty variant: the value that the comment gives.
FirstValueOne == 1

\* The fourth argument of sem_open.
FirstValue == 0

\* sem_open(O_CREAT), without O_EXCL: a name that appeared meanwhile is opened.
CreateSem(g) ==
    /\ gpc[g] = "create"
    /\ IF semName = None
         THEN /\ semName' = g
              /\ sem' = [sem EXCEPT ![g] = FirstValue]
              /\ gsem' = [gsem EXCEPT ![g] = g]
         ELSE gsem' = [gsem EXCEPT ![g] = semName] /\ UNCHANGED <<semName, sem>>
    /\ GuiGoto(g, "open")
    /\ UNCHANGED <<gshm, gmap, shmName, shm, childVars>>

\* Faulty variant: a segment left by an earlier GUI is replaced here.
OpenShmAnew(g) ==
    /\ gpc[g] = "open"
    /\ shmName' = g /\ gshm' = [gshm EXCEPT ![g] = g]
    /\ GuiGoto(g, "size")
    /\ UNCHANGED <<gsem, gmap, semName, sem, shm, childVars>>

\* shm_open(O_CREAT): a segment that has a name is taken over as it is.
OpenShm(g) ==
    /\ gpc[g] = "open"
    /\ LET o == IF shmName = None THEN g ELSE shmName
       IN  shmName' = o /\ gshm' = [gshm EXCEPT ![g] = o]
    /\ GuiGoto(g, "size")
    /\ UNCHANGED <<gsem, gmap, semName, sem, shm, childVars>>

\* ftruncate gives a new segment its size, filled with zeros.
SizeShm(g) ==
    /\ gpc[g] = "size"
    /\ shm' = [shm EXCEPT ![gshm[g]].sized = TRUE]
    /\ GuiGoto(g, "map")
    /\ UNCHANGED <<gsem, gshm, gmap, names, sem, childVars>>

MapShm(g) ==
    /\ gpc[g] = "map"
    /\ gmap' = [gmap EXCEPT ![g] = TRUE]
    /\ GuiGoto(g, "pid")
    /\ UNCHANGED <<gsem, gshm, names, sem, shm, childVars>>

\* Faulty variant: a segment that was taken over keeps its owner.
ClientPidKept(g) == IF shm[gshm[g]].pid = None THEN g ELSE shm[gshm[g]].pid

\* client_pid = getpid()
ClientPid(g) == g

WritePid(g) ==
    /\ gpc[g] = "pid"
    /\ shm' = [shm EXCEPT ![gshm[g]].pid = ClientPid(g)]
    /\ GuiGoto(g, "reset")
    /\ UNCHANGED <<gsem, gshm, gmap, names, sem, childVars>>

\* nb_operation = 0, and every slot WOOTFTPD_RESET.
ResetOperations(g) ==
    /\ gpc[g] = "reset"
    /\ shm' = [shm EXCEPT ![gshm[g]].nb = 0]
    /\ GuiGoto(g, "post")
    /\ UNCHANGED <<gsem, gshm, gmap, names, sem, childVars>>

\* unlock semaphore
Post(g) ==
    /\ gpc[g] = "post"
    /\ sem' = [sem EXCEPT ![gsem[g]] = @ + 1]
    /\ GuiGoto(g, "run")
    /\ UNCHANGED <<gsem, gshm, gmap, names, shm, childVars>>

\* A system call of data::initialize fails: 20, 30, 40 or 50 is returned, and
\* ~application calls destroy.  SEM_FAILED is 0, MAP_FAILED is not.
Fail(g) ==
    /\ "fail" \in Faults
    /\ gpc[g] \in {"create", "open", "size", "map"}
    /\ gmap' = [gmap EXCEPT ![g] = gpc[g] = "map"]
    /\ GuiGoto(g, "destroySem")
    /\ UNCHANGED <<gsem, gshm, names, sem, shm, childVars>>

\* The event loop ends.
Quit(g) ==
    /\ gpc[g] = "run"
    /\ GuiGoto(g, "destroySem")
    /\ UNCHANGED <<gsem, gshm, gmap, names, sem, shm, childVars>>

\* destroy: whatever the name leads to now.
DestroySem(g) ==
    /\ gpc[g] = "destroySem"
    /\ semName' = IF gsem[g] # None THEN None ELSE semName
    /\ GuiGoto(g, "destroyShm")
    /\ UNCHANGED <<gsem, gshm, gmap, shmName, sem, shm, childVars>>

DestroyShm(g) ==
    /\ gpc[g] = "destroyShm"
    /\ shmName' = IF gmap[g] THEN None ELSE shmName
    /\ GuiGoto(g, "gone")
    /\ UNCHANGED <<gsem, gshm, gmap, semName, sem, shm, childVars>>

\* A killed GUI leaves its names behind.
Crash(g) ==
    /\ "crash" \in Faults
    /\ Lives(g)
    /\ GuiGoto(g, "gone")
    /\ UNCHANGED <<gsem, gshm, gmap, names, sem, shm, childVars>>

-----------------------------------------------------------------------------
(* A child of the server in woo_init.                                       *)

Fork(c) ==
    /\ cpc[c] = "idle"
    /\ ChildGoto(c, "sem")
    /\ UNCHANGED <<guiVars, names, sem, shm, csem, cshm>>

OpenSem(c) ==
    /\ cpc[c] = "sem"
    /\ csem' = [csem EXCEPT ![c] = semName]
    /\ ChildGoto(c, IF semName = None THEN "disabled" ELSE "shm")
    /\ UNCHANGED <<guiVars, names, sem, shm, cshm>>

AttachShm(c) ==
    /\ cpc[c] = "shm"
    /\ cshm' = [cshm EXCEPT ![c] = shmName]
    /\ ChildGoto(c, IF shmName = None THEN "disabled" ELSE "kill")
    /\ UNCHANGED <<guiVars, names, sem, shm, csem>>

\* mmap of the child fails.
MapFails(c) ==
    /\ "fail" \in Faults
    /\ cpc[c] = "kill"
    /\ ChildGoto(c, "disabled")
    /\ UNCHANGED <<guiVars, names, sem, shm, csem, cshm>>

\* Reading client_pid of a segment without pages is a bus error; kill(0, 0)
\* succeeds.
CheckPid(c) ==
    /\ cpc[c] = "kill"
    /\ LET s == shm[cshm[c]]
       IN  ChildGoto(c, CASE ~s.sized -> "killed"
                          [] s.sized /\ (s.pid = None \/ Lives(s.pid)) -> "wait"
                          [] OTHER -> "disabled")
    /\ UNCHANGED <<guiVars, names, sem, shm, csem, cshm>>

SemWait(c) ==
    /\ cpc[c] = "wait"
    /\ sem[csem[c]] > 0
    /\ sem' = [sem EXCEPT ![csem[c]] = @ - 1]
    /\ ChildGoto(c, "alloc")
    /\ UNCHANGED <<guiVars, names, shm, csem, cshm>>

\* woo_alloc_operation: take a slot.
Alloc(c) ==
    /\ cpc[c] = "alloc"
    /\ shm' = [shm EXCEPT ![cshm[c]].nb = @ + 1]
    /\ ChildGoto(c, "post")
    /\ UNCHANGED <<guiVars, names, sem, csem, cshm>>

SemPost(c) ==
    /\ cpc[c] = "post"
    /\ sem' = [sem EXCEPT ![csem[c]] = @ + 1]
    /\ ChildGoto(c, "enabled")
    /\ UNCHANGED <<guiVars, names, shm, csem, cshm>>

-----------------------------------------------------------------------------
Init ==
    /\ gpc = [g \in Guis |-> "off"]
    /\ gsem = [g \in Guis |-> None]
    /\ gshm = [g \in Guis |-> None]
    /\ gmap = [g \in Guis |-> FALSE]
    /\ semName = None /\ shmName = None
    /\ sem = [g \in Guis |-> 0]
    /\ shm = [g \in Guis |-> [sized |-> FALSE, pid |-> None, nb |-> 0]]
    /\ cpc = [c \in Children |-> "idle"]
    /\ csem = [c \in Children |-> None]
    /\ cshm = [c \in Children |-> None]

BootStep(g) ==
    \/ ForceSem(g) \/ ForceShm(g) \/ Check(g) \/ CreateSem(g) \/ OpenShm(g)
    \/ SizeShm(g) \/ MapShm(g) \/ WritePid(g) \/ ResetOperations(g) \/ Post(g)
    \/ DestroySem(g) \/ DestroyShm(g)

ChildStep(c) ==
    OpenSem(c) \/ AttachShm(c) \/ CheckPid(c) \/ SemWait(c) \/ Alloc(c) \/ SemPost(c)

Next ==
    \/ \E g \in Guis : Start(g) \/ BootStep(g) \/ Fail(g) \/ Quit(g) \/ Crash(g)
    \/ \E c \in Children : Fork(c) \/ ChildStep(c) \/ MapFails(c)

Spec == Init /\ [][Next]_vars

-----------------------------------------------------------------------------
(* Properties.                                                              *)

\* Types; as long as GUIs do not overlap, no semaphore counts more than 1: it is
\* created locked and unlocked once (data.cxx:86 and 136).
TypeOK ==
    /\ gpc \in [Guis -> GPcs]
    /\ gsem \in [Guis -> Objects] /\ gshm \in [Guis -> Objects]
    /\ gmap \in [Guis -> BOOLEAN]
    /\ semName \in Objects /\ shmName \in Objects
    /\ sem \in [Guis -> 0 .. 1]
    /\ shm \in [Guis -> [sized : BOOLEAN, pid : Objects, nb : 0 .. Cardinality(Children)]]
    /\ cpc \in [Children -> CPcs]
    /\ csem \in [Children -> Objects] /\ cshm \in [Children -> Objects]

\* No boot erases an allocation made under its own semaphore, which is born locked
\* and unlocked last (data.cxx:86 and 136): a running GUI counts all of them.
AllocationKept ==
    \A g \in Guis : gpc[g] = "run" =>
        shm[gshm[g]].nb >=
            Cardinality({c \in Children : /\ csem[c] = gsem[g] /\ cshm[c] = gshm[g]
                                          /\ cpc[c] \in {"post", "enabled"}})

\* A child that found a running GUI's semaphore found its segment too, also after
\* crashes and refused starts: a segment that kept its name is taken over, never
\* replaced, once the semaphore is there (data.cxx:60-65, 86, 95 and 146-157).
PairMatches ==
    \A c \in Children, g \in Guis :
        gpc[g] = "run" /\ csem[c] = g /\ cshm[c] # None => cshm[c] = gshm[g]

\* The children of the server can find a running GUI: both names lead to its
\* objects, and the process id in the segment is its own (data.cxx:77-83, 146-151).
RunningReachable ==
    \A g \in Guis :
        gpc[g] = "run" =>
            /\ semName = gsem[g]
            /\ shmName = gshm[g]
            /\ shm[gshm[g]].pid = g

=============================================================================
