------------------------------ MODULE Monitor ------------------------------
(***************************************************************************)
(* The operation table that the tftpd children and the monitoring window   *)
(* share: woo-tftpd-server/data.c on the server side, application.cxx and  *)
(* widget.cxx on the window's side.                                        *)
(*                                                                         *)
(* A child allocates a slot under a semaphore, wakes the window up with    *)
(* SIGUSR1 and then describes its transfer in the slot without any lock.   *)
(* The window scans the slots on a 100 ms timer: it marks a slot whose     *)
(* block count stands still as timed out, starts a countdown when it sees  *)
(* END, frees the slot when the countdown is over, and sleeps in sigwait   *)
(* when the table is empty.                                                *)
(*                                                                         *)
(* A read-modify-write of shared memory is two steps (a load, a store).    *)
(* Time is kept as ages in seconds, advanced by Tick between two scans,    *)
(* because one scan samples the clock once (application.cxx:145).          *)
(***************************************************************************)
EXTENDS Integers, FiniteSets, FiniteSetsExt

CONSTANTS
    Children,   \* tftpd children, one for each request
    None,       \* "nobody", in the descriptive fields of a slot
    MaxOp,      \* WOOTFTPD_MAX_NBOP
    StallLimit, \* seconds on the same block before a slot is timed out (3)
    EndTime,    \* [operation] end_time: seconds from END to the removal
    MaxBlock,   \* bound: blocks one child reports
    Faults      \* what the environment may do, see FaultKinds

(***************************************************************************)
(* "late": a child may still run when the countdown of its slot is over.   *)
(* "intr": a signal may interrupt a child in sem_wait, whose result        *)
(*         data.c:138 does not look at.                                    *)
(* "kill": a child may be killed at any point.                             *)
(* "stop": the window may be closed or killed at any point.                *)
(* "race": the window and a child may change the flags of the child's slot *)
(*         at the same time: nothing orders their unlocked |=, which only  *)
(*         the shortness of the interval keeps apart.                      *)
(***************************************************************************)
FaultKinds == {"late", "intr", "kill", "stop", "race"}

\* nb_operation is a uint8_t.
NbMod == 256

ASSUME MonitorAssumption ==
    /\ MaxOp \in 1 .. NbMod - 1
    /\ StallLimit \in Nat /\ EndTime \in Nat /\ MaxBlock \in Nat \ {0}
    /\ None \notin Children
    /\ IsFiniteSet(Children)
    /\ Faults \subseteq FaultKinds

Slots == 0 .. MaxOp - 1

OpFlags == {"ENABLE", "END", "UPLOAD", "DOWNLOAD", "TIMEOUT"}

VARIABLES
    sem,            \* value of the semaphore
    nb_operation,   \* shared memory: number of operations
    oflags,         \* shared memory: flags of each slot
    desc,           \* shared memory: who wrote the ip, port, filename, total_block
    block,          \* shared memory: blocks transferred
    cpc,            \* child: where it is
    enable,         \* child: woo_data.enable
    opid,           \* child: woo_data.opid
    cnb, cflags,    \* child: nb_operation and oflags as last loaded
    gpc,            \* window: where it is
    gx,             \* window: slot index of the running loop
    gnb, gflags,    \* window: nb_operation and oflags as last loaded
    m_timeout_array,\* window: last block seen and its age, for each slot
    m_end_array,    \* window: age of the countdown of each slot, or Unset
    m_items,        \* window: slots that have an item on the screen
    sigpending      \* SIGUSR1 pending for the window (it is blocked)

shared == <<nb_operation, oflags, desc, block>>
childVars == <<cpc, enable, opid, cnb, cflags>>
guiVars == <<gpc, gx, gnb, gflags, m_timeout_array, m_end_array, m_items>>
vars == <<sem, shared, childVars, guiVars, sigpending>>

-----------------------------------------------------------------------------
(* Flags, counters and countdowns.                                          *)

Enabled == {x \in Slots : "ENABLE" \in oflags[x]}

\* Faulty variant: the search for a slot also takes the ended ones.
FreeSlotsAlsoEnded == {x \in Slots : oflags[x] \cap {"ENABLE", "END"} # {"ENABLE"}}

\* Faulty variant: the search goes one slot too far.
FreeSlotsPastEnd == (0 .. MaxOp) \ Enabled

\* The slots in which the allocation loop stops.
FreeSlots == Slots \ Enabled

Inc8(n) == (n + 1) % NbMod

Dec8(n) == (n - 1) % NbMod

Unset == -1

\* m_timeout_array.fill((0, 0)): block 0, last seen at the epoch.
FreshTimeouts == [x \in Slots |-> [first |-> 0, age |-> StallLimit + 1]]

\* Ages are only compared with a limit: they stop one past it.
Older(age, limit) == IF age > limit THEN age ELSE age + 1

\* Only a running operation that nobody has ended can time out.
Watched(flags) ==
    "ENABLE" \in flags /\ "END" \notin flags /\ "TIMEOUT" \notin flags

-----------------------------------------------------------------------------
(* The children.                                                            *)

CriticalPcs == {"crit", "count", "flag", "post"}

\* The program points of a child between its allocation and its exit.
AttachedPcs == {"count", "flag", "post", "wake", "describe",
                "kind", "kindstore", "run", "endstore", "endblock", "linger"}

\* Where an exit(0), after a nak or a timeout, may end a child early.
ExitPcs == {"describe", "kind", "run", "linger", "serve"}

CPcs == {"idle", "gone", "init", "wait", "crit", "serve"} \cup AttachedPcs

Attached(c, x) == cpc[c] \in AttachedPcs /\ opid[c] = x

\* Without "race" no |= on the flags of a slot begins amid another one: neither that
\* of a child while the window marks its slot ...
MarkingPcs == {"mark", "load", "timeout"}

ChildApart(c) == "race" \in Faults \/ gpc \notin MarkingPcs \/ gx # opid[c]

\* ... nor that of the window between the load and the store of the slot's child.
GuiApart(x) ==
    \/ "race" \in Faults
    \/ ~\E c \in Children : cpc[c] \in {"kindstore", "endstore"} /\ opid[c] = x

Goto(c, pc) == cpc' = [cpc EXCEPT ![c] = pc]

\* A request arrives and tftpd forks a child for it.
Fork(c) ==
    /\ cpc[c] = "idle"
    /\ Goto(c, "init")
    /\ UNCHANGED <<sem, shared, enable, opid, cnb, cflags, guiVars, sigpending>>

\* woo_init up to the allocation: without a live window there is no monitoring.
WooInit(c) ==
    /\ cpc[c] = "init"
    /\ enable' = [enable EXCEPT ![c] = gpc # "dead"]
    /\ Goto(c, IF gpc # "dead" THEN "wait" ELSE "serve")
    /\ UNCHANGED <<sem, shared, opid, cnb, cflags, guiVars, sigpending>>

\* Faulty variant: the semaphore is tested but not taken.
SemWaitNotTaken(c) ==
    /\ cpc[c] = "wait" /\ sem > 0
    /\ Goto(c, "crit")
    /\ UNCHANGED <<sem, shared, enable, opid, cnb, cflags, guiVars, sigpending>>

SemWait(c) ==
    /\ cpc[c] = "wait" /\ sem > 0
    /\ sem' = sem - 1
    /\ Goto(c, "crit")
    /\ UNCHANGED <<shared, enable, opid, cnb, cflags, guiVars, sigpending>>

\* sem_wait returns -1 with EINTR; the caller goes on as if it had the lock.
SemInterrupted(c) ==
    /\ "intr" \in Faults
    /\ cpc[c] = "wait" /\ sem = 0
    /\ Goto(c, "crit")
    /\ UNCHANGED <<sem, shared, enable, opid, cnb, cflags, guiVars, sigpending>>

\* woo_alloc_operation gives up: the child serves without monitoring.
GiveUp(c) ==
    /\ enable' = [enable EXCEPT ![c] = FALSE]
    /\ Goto(c, "serve")
    /\ UNCHANGED <<shared, opid, cnb, cflags, guiVars, sigpending>>

AllocFull(c) ==
    /\ cpc[c] = "crit" /\ nb_operation >= MaxOp
    /\ sem' = sem + 1
    /\ GiveUp(c)

AllocNone(c) ==
    /\ cpc[c] = "crit" /\ nb_operation < MaxOp /\ FreeSlots = {}
    /\ sem' = sem + 1
    /\ GiveUp(c)

AllocFind(c) ==
    /\ cpc[c] = "crit" /\ nb_operation < MaxOp /\ FreeSlots # {}
    /\ opid' = [opid EXCEPT ![c] = Min(FreeSlots)]
    /\ cnb' = [cnb EXCEPT ![c] = nb_operation]
    /\ Goto(c, "count")
    /\ UNCHANGED <<sem, shared, enable, cflags, guiVars, sigpending>>

AllocCount(c) ==
    /\ cpc[c] = "count"
    /\ nb_operation' = Inc8(cnb[c])
    /\ cnb' = [cnb EXCEPT ![c] = 0]
    /\ Goto(c, "flag")
    /\ UNCHANGED <<sem, oflags, desc, block, enable, opid, cflags,
                   guiVars, sigpending>>

AllocFlag(c) ==
    /\ cpc[c] = "flag"
    /\ oflags' = [oflags EXCEPT ![opid[c]] = {"ENABLE"}]
    /\ block' = [block EXCEPT ![opid[c]] = 0]
    /\ Goto(c, "post")
    /\ UNCHANGED <<sem, nb_operation, desc, enable, opid, cnb, cflags,
                   guiVars, sigpending>>

\* Faulty variant: a successful allocation keeps the semaphore.
AllocPostSkipped(c) ==
    /\ cpc[c] = "post"
    /\ sem' = sem
    /\ Goto(c, "wake")
    /\ UNCHANGED <<shared, enable, opid, cnb, cflags, guiVars, sigpending>>

AllocPost(c) ==
    /\ cpc[c] = "post"
    /\ sem' = sem + 1
    /\ Goto(c, "wake")
    /\ UNCHANGED <<shared, enable, opid, cnb, cflags, guiVars, sigpending>>

\* Faulty variant: SIGUSR1 is not blocked, so it is lost outside sigwait.
WakeUpSleeperOnly(c) ==
    /\ cpc[c] = "wake"
    /\ sigpending' = (gpc = "sleep")
    /\ Goto(c, "describe")
    /\ UNCHANGED <<sem, shared, enable, opid, cnb, cflags, guiVars>>

\* woo_wake_up_gui; kill fails, and nobody looks, when the window is gone.
WakeUpGui(c) ==
    /\ cpc[c] = "wake"
    /\ sigpending' = (gpc # "dead")
    /\ Goto(c, "describe")
    /\ UNCHANGED <<sem, shared, enable, opid, cnb, cflags, guiVars>>

\* woo_set_ip_port_from_socket_id, woo_set_filename and woo_set_total_block:
\* writes of descriptive fields, without the semaphore.
Describe(c) ==
    /\ cpc[c] = "describe"
    /\ desc' = [desc EXCEPT ![opid[c]] = c]
    /\ Goto(c, "kind")
    /\ UNCHANGED <<sem, nb_operation, oflags, block, enable, opid, cnb, cflags,
                   guiVars, sigpending>>

\* oflags |= ..., the load.
LoadFlags(c, from, to) ==
    /\ cpc[c] = from /\ ChildApart(c)
    /\ cflags' = [cflags EXCEPT ![c] = oflags[opid[c]]]
    /\ Goto(c, to)
    /\ UNCHANGED <<sem, shared, enable, opid, cnb, guiVars, sigpending>>

\* oflags |= flag, the store.
StoreFlag(c, from, flag, to) ==
    /\ cpc[c] = from
    /\ oflags' = [oflags EXCEPT ![opid[c]] = cflags[c] \cup {flag}]
    /\ cflags' = [cflags EXCEPT ![c] = {}]
    /\ Goto(c, to)
    /\ UNCHANGED <<sem, nb_operation, desc, block, enable, opid, cnb,
                   guiVars, sigpending>>

SetFlagLoad(c) == LoadFlags(c, "kind", "kindstore")

SetFlagUpload(c) == StoreFlag(c, "kindstore", "UPLOAD", "run")

SetFlagDownload(c) == StoreFlag(c, "kindstore", "DOWNLOAD", "run")

IncrementBlock(c) ==
    /\ cpc[c] = "run" /\ block[opid[c]] < MaxBlock
    /\ block' = [block EXCEPT ![opid[c]] = @ + 1]
    /\ UNCHANGED <<sem, nb_operation, oflags, desc, childVars, guiVars,
                   sigpending>>

EndLoad(c) == LoadFlags(c, "run", "endstore")

EndStore(c) == StoreFlag(c, "endstore", "END", "endblock")

\* The rest of woo_end_operation: an upload's progress is put at 100%.
EndBlock(c) ==
    /\ cpc[c] = "endblock"
    /\ block' = IF "UPLOAD" \in oflags[opid[c]]
                   THEN [block EXCEPT ![opid[c]] = 1] ELSE block
    /\ Goto(c, "linger")
    /\ UNCHANGED <<sem, nb_operation, oflags, desc, enable, opid, cnb,
                   cflags, guiVars, sigpending>>

\* The process is gone; its memory is gone with it.
Leave(c) ==
    /\ Goto(c, "gone")
    /\ enable' = [enable EXCEPT ![c] = FALSE]
    /\ opid' = [opid EXCEPT ![c] = 0]
    /\ cnb' = [cnb EXCEPT ![c] = 0]
    /\ cflags' = [cflags EXCEPT ![c] = {}]
    /\ UNCHANGED <<sem, shared, guiVars, sigpending>>

\* exit(0): the slot is left as it is, with or without END.
Exit(c) == cpc[c] \in ExitPcs /\ Leave(c)

Killed(c) == "kill" \in Faults /\ cpc[c] \notin {"idle", "gone"} /\ Leave(c)

-----------------------------------------------------------------------------
(* The window.                                                              *)

\* The next slot of the loop of monitor_operations, or the view's turn.
NextSlot ==
    /\ gpc' = IF gx + 1 < MaxOp THEN "scan" ELSE "view"
    /\ gx' = (gx + 1) % MaxOp

\* The timer fires: application::work.
Work ==
    /\ gpc = "work"
    /\ gpc' = IF nb_operation = 0 THEN "hide" ELSE "scan"
    /\ UNCHANGED <<sem, shared, childVars, gx, gnb, gflags, m_timeout_array,
                   m_end_array, m_items, sigpending>>

\* hide_and_sleep hides the window; the count was read a while ago.
Hide ==
    /\ gpc = "hide"
    /\ gpc' = "sleep"
    /\ UNCHANGED <<sem, shared, childVars, gx, gnb, gflags, m_timeout_array,
                   m_end_array, m_items, sigpending>>

\* hide_and_sleep returns from sigwait and shows the window again.
SigWait ==
    /\ gpc = "sleep" /\ sigpending
    /\ sigpending' = FALSE
    /\ gpc' = "view"
    /\ UNCHANGED <<sem, shared, childVars, gx, gnb, gflags, m_timeout_array,
                   m_end_array, m_items>>

\* The slot has been seen with this block for more than StallLimit seconds.
Stalled(x) ==
    m_timeout_array[x].first = block[x] /\ m_timeout_array[x].age > StallLimit

\* A new block restarts the age of the slot.
Note(x) ==
    m_timeout_array' = IF m_timeout_array[x].first = block[x] THEN m_timeout_array
        ELSE [m_timeout_array EXCEPT ![x] = [first |-> block[x], age |-> 0]]

\* The first half of the body of the loop, up to the load of oflags |= END.
CheckTimeout ==
    /\ gpc = "scan"
    /\ IF Watched(oflags[gx]) /\ Stalled(gx)
         THEN /\ GuiApart(gx)
              /\ gpc' = "mark" /\ gflags' = oflags[gx] /\ UNCHANGED m_timeout_array
         ELSE /\ gpc' = "end" /\ UNCHANGED gflags
              /\ IF Watched(oflags[gx]) THEN Note(gx) ELSE UNCHANGED m_timeout_array
    /\ UNCHANGED <<sem, shared, childVars, gx, gnb, m_end_array, m_items, sigpending>>

\* The store of oflags |= flag.
MarkFlag(from, flags, to) ==
    /\ gpc = from
    /\ oflags' = [oflags EXCEPT ![gx] = gflags \cup flags]
    /\ gflags' = {}
    /\ gpc' = to
    /\ UNCHANGED <<sem, nb_operation, desc, block, childVars, gx, gnb,
                   m_timeout_array, m_end_array, m_items, sigpending>>

\* Faulty variant: a stalled slot is timed out but not ended.
MarkEndNot == MarkFlag("mark", {}, "load")

MarkEnd == MarkFlag("mark", {"END"}, "load")

\* The load of oflags |= TIMEOUT, a second read-modify-write.
LoadEnded ==
    /\ gpc = "load"
    /\ gflags' = oflags[gx]
    /\ gpc' = "timeout"
    /\ UNCHANGED <<sem, shared, childVars, gx, gnb, m_timeout_array, m_end_array,
                   m_items, sigpending>>

\* Faulty variant: a stalled slot is ended but not timed out.
MarkTimeoutNot == MarkFlag("timeout", {}, "end")

MarkTimeout == MarkFlag("timeout", {"TIMEOUT"}, "end")

\* The countdown starts when END is first seen; is it over?
CheckEnd ==
    /\ gpc = "end"
    /\ m_end_array' = IF "END" \in oflags[gx] /\ m_end_array[gx] = Unset
                        THEN [m_end_array EXCEPT ![gx] = 0] ELSE m_end_array
    /\ IF m_end_array[gx] > EndTime THEN gpc' = "lock" /\ UNCHANGED gx ELSE NextSlot
    /\ UNCHANGED <<sem, shared, childVars, gnb, gflags, m_timeout_array, m_items,
                   sigpending>>

SemLock ==
    /\ gpc = "lock" /\ sem > 0
    /\ sem' = sem - 1
    /\ gpc' = "reset"
    /\ UNCHANGED <<shared, childVars, gx, gnb, gflags, m_timeout_array,
                   m_end_array, m_items, sigpending>>

RemoveReset ==
    /\ gpc = "reset"
    /\ oflags' = [oflags EXCEPT ![gx] = {}]
    /\ gnb' = nb_operation
    /\ gpc' = "dec"
    /\ UNCHANGED <<sem, nb_operation, desc, block, childVars, gx, gflags,
                   m_timeout_array, m_end_array, m_items, sigpending>>

\* Faulty variant: the countdown of the removed operation keeps running.
EndArrayKept == m_end_array

\* The removed operation's countdown is cleared.
EndArrayCleared == [m_end_array EXCEPT ![gx] = Unset]

RemoveCount ==
    /\ gpc = "dec"
    /\ nb_operation' = Dec8(gnb)
    /\ gnb' = 0
    /\ m_end_array' = EndArrayCleared
    /\ gpc' = "unlock"
    /\ UNCHANGED <<sem, oflags, desc, block, childVars, gx, gflags,
                   m_timeout_array, m_items, sigpending>>

SemUnlock ==
    /\ gpc = "unlock"
    /\ sem' = sem + 1
    /\ NextSlot
    /\ UNCHANGED <<shared, childVars, gnb, gflags, m_timeout_array, m_end_array,
                   m_items, sigpending>>

\* An item appears with ENABLE and disappears with it.
ItemsAfter(x) == IF x \in Enabled THEN m_items \cup {x} ELSE m_items \ {x}

\* One turn of the loop of widget::update_view.
UpdateView ==
    /\ gpc = "view"
    /\ m_items' = ItemsAfter(gx)
    /\ gx' = (gx + 1) % MaxOp
    /\ gpc' = IF gx + 1 < MaxOp THEN "view" ELSE "work"
    /\ UNCHANGED <<sem, shared, childVars, gnb, gflags, m_timeout_array,
                   m_end_array, sigpending>>

\* The window is closed or killed; its memory is gone with it.
Stop ==
    /\ "stop" \in Faults /\ gpc # "dead"
    /\ gpc' = "dead"
    /\ gx' = 0 /\ gnb' = 0 /\ gflags' = {}
    /\ m_items' = {} /\ sigpending' = FALSE
    /\ m_timeout_array' = FreshTimeouts /\ m_end_array' = [x \in Slots |-> Unset]
    /\ UNCHANGED <<sem, shared, childVars>>

\* Without "late" a child is gone before the countdown of its slot is over.
InTime(x) ==
    "late" \in Faults \/ m_end_array[x] # EndTime \/ ~\E c \in Children : Attached(c, x)

Tick ==
    /\ gpc \in {"work", "sleep"}
    /\ \A x \in Slots : InTime(x)
    /\ m_timeout_array' = [x \in Slots |->
            [m_timeout_array[x] EXCEPT !.age = Older(@, StallLimit)]]
    /\ m_end_array' = [x \in Slots |->
            IF m_end_array[x] = Unset THEN Unset ELSE Older(m_end_array[x], EndTime)]
    /\ UNCHANGED <<sem, shared, childVars, gpc, gx, gnb, gflags, m_items, sigpending>>

-----------------------------------------------------------------------------
(* data::initialize and application::start have just run.                   *)

Init ==
    /\ sem = 1
    /\ nb_operation = 0
    /\ oflags = [x \in Slots |-> {}]
    /\ desc = [x \in Slots |-> None]
    /\ block = [x \in Slots |-> 0]
    /\ cpc = [c \in Children |-> "idle"]
    /\ enable = [c \in Children |-> FALSE]
    /\ opid = [c \in Children |-> 0]
    /\ cnb = [c \in Children |-> 0]
    /\ cflags = [c \in Children |-> {}]
    /\ gpc = "work" /\ gx = 0 /\ gnb = 0 /\ gflags = {}
    /\ m_timeout_array = FreshTimeouts
    /\ m_end_array = [x \in Slots |-> Unset]
    /\ m_items = {}
    /\ sigpending = FALSE

\* What a forked child does by itself, faults aside.
ChildStep(c) ==
    \/ WooInit(c)
    \/ SemWait(c)
    \/ AllocFull(c) \/ AllocNone(c)
    \/ AllocFind(c) \/ AllocCount(c) \/ AllocFlag(c) \/ AllocPost(c)
    \/ WakeUpGui(c)
    \/ Describe(c)
    \/ SetFlagLoad(c) \/ SetFlagUpload(c) \/ SetFlagDownload(c)
    \/ IncrementBlock(c)
    \/ EndLoad(c) \/ EndStore(c) \/ EndBlock(c)
    \/ Exit(c)

GuiStep ==
    \/ Work \/ Hide \/ SigWait
    \/ CheckTimeout \/ MarkEnd \/ LoadEnded \/ MarkTimeout \/ CheckEnd
    \/ SemLock \/ RemoveReset \/ RemoveCount \/ SemUnlock
    \/ UpdateView

Next ==
    \/ \E c \in Children : Fork(c) \/ ChildStep(c) \/ SemInterrupted(c) \/ Killed(c)
    \/ GuiStep
    \/ Stop
    \/ Tick

Spec == Init /\ [][Next]_vars

\* Every process keeps running, time passes, and the semaphore starves nobody.
Fairness ==
    /\ \A c \in Children : WF_vars(ChildStep(c)) /\ SF_vars(SemWait(c))
    /\ WF_vars(GuiStep) /\ SF_vars(SemLock)
    /\ SF_vars(Tick)

FairSpec == Spec /\ Fairness

-----------------------------------------------------------------------------
(* Properties.                                                              *)

GPcs == {"work", "hide", "sleep", "scan", "mark", "load", "timeout", "end", "lock",
         "reset", "dec", "unlock", "view", "dead"}

\* Every variable has its type; in particular nb_operation stays a uint8_t
\* and the semaphore, which only a lost lock can push past 1, stays small.
TypeOK ==
    /\ sem \in Nat
    /\ nb_operation \in 0 .. NbMod - 1
    /\ oflags \in [Slots -> SUBSET OpFlags]
    /\ desc \in [Slots -> Children \cup {None}]
    /\ block \in [Slots -> 0 .. MaxBlock]
    /\ cpc \in [Children -> CPcs]
    /\ enable \in [Children -> BOOLEAN]
    /\ opid \in [Children -> Slots]
    /\ cnb \in [Children -> 0 .. NbMod - 1]
    /\ cflags \in [Children -> SUBSET OpFlags]
    /\ gpc \in GPcs
    /\ gx \in Slots
    /\ gnb \in 0 .. NbMod - 1
    /\ gflags \in SUBSET OpFlags
    /\ m_timeout_array \in
           [Slots -> [first : 0 .. MaxBlock, age : 0 .. StallLimit + 1]]
    /\ m_end_array \in [Slots -> Unset .. EndTime + 1]
    /\ m_items \in SUBSET Slots
    /\ sigpending \in BOOLEAN

GuiCritical == gpc \in {"reset", "dec", "unlock"}

\* The semaphore works as a mutex (data.cxx:85): never two processes at a time
\* between sem_wait and sem_post, children and window together.
SemMutex ==
    /\ \A c, d \in Children :
          cpc[c] \in CriticalPcs /\ cpc[d] \in CriticalPcs => c = d
    /\ \A c \in Children : cpc[c] \in CriticalPcs => ~GuiCritical

\* nb_operation is "Current number of running operation" (common.h:85): when
\* nobody holds the semaphore it is the number of slots that have ENABLE.
NbCountsEnabled == sem = 1 => nb_operation = Cardinality(Enabled)

\* A slot belongs to the child that allocated it: what the child wrote there
\* (data.c:194, data.c:268) is still there while it transfers, and no other
\* child writes into the slot.
OwnSlot ==
    \A c \in Children : cpc[c] \in {"run", "endstore", "endblock", "linger"} =>
        /\ desc[opid[c]] = c
        /\ \A d \in Children \ {c} : ~Attached(d, opid[c])

\* A countdown (application.cxx:192) only runs on a slot that is in use, so the
\* removal at application.cxx:203-207 frees an operation that really ended.
CountdownInUse ==
    \A x \in Slots : m_end_array[x] # Unset =>
        x \in Enabled \/ (gpc = "dec" /\ gx = x)

\* No lost wake-up: the window, which tests nb_operation a while before sigwait
\* (application.cxx:107-131), never goes to sleep on a table that is in use unless
\* the signal that wakes it is pending or about to be sent (data.c:117).
NoLostWakeup ==
    gpc \in {"hide", "sleep"} /\ nb_operation # 0 =>
        sigpending \/ \E c \in Children : cpc[c] \in {"flag", "post", "wake"}

\* Every slot in use becomes free again, whether its child said END or not.
SlotReleased ==
    \A x \in Slots : "ENABLE" \in oflags[x] ~> "ENABLE" \notin oflags[x]

\* Monitoring never keeps a child from its transfer: woo_init returns.
ChildServed ==
    \A c \in Children : cpc[c] = "init" ~> cpc[c] \in {"serve", "describe"}

=============================================================================
