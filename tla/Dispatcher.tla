----------------------------- MODULE Dispatcher -----------------------------
(***************************************************************************)
(* The server's main loop (main, tftpd.c): it waits for a request, forks a *)
(* child for it and goes back to waiting, while signals ask it to exit or  *)
(* to read the map file again.  It runs alone or under inetd, which owns   *)
(* the socket and starts the server again when a request waits.            *)
(***************************************************************************)
EXTENDS Naturals, Sequences, SequencesExt, FiniteSets

CONSTANTS
    Requests,   \* names of the requests that clients send, each again and again
    None,
    MaxEdits,   \* bound: changes of the map file
    Faults      \* what may fail

ASSUME DispatcherAssumption ==
    /\ None \notin Requests
    /\ MaxEdits \in Nat
    /\ Faults \subseteq {"fork", "child", "checksum", "map", "io", "family"}

VARIABLES
    standalone,     \* standalone: options -l and -L; else under inetd
    pc,             \* where the loop is
    exit_signal,
    caught_sighup,
    fd,             \* fd: the socket that select found ready
    queue,          \* datagrams that wait at each socket
    buf,            \* buf: the request that was read
    rules,          \* rewrite_rules: the version of the map file in use
    mapfile,        \* version of the map file on disk
    asked,          \* version of the map file when the last SIGHUP came
    kids,           \* for each request, its child with its rules and what was asked
    dropped         \* requests that a fault took

signals == <<exit_signal, caught_sighup>>
vars == <<standalone, pc, signals, fd, queue, buf, rules, mapfile, asked, kids, dropped>>

\* Under inetd the only socket is descriptor 0.
Sockets == IF standalone THEN {"fd4", "fd6"} ELSE {"fd0"}

Queued == UNION {ToSet(queue[s]) : s \in Sockets}
Forked == {r \in Requests : kids[r].state # "none"}

-----------------------------------------------------------------------------
(* The environment.                                                         *)

NoKid == [state |-> "none", rules |-> 0, asked |-> 0]

\* A datagram on socket s.  The name of a request that the server is done with is
\* taken again, so that there is no end of requests.
Arrive(r, s) ==
    /\ r \notin Queued /\ buf # r /\ kids[r].state # "setup"
    /\ queue' = [queue EXCEPT ![s] = Append(@, r)]
    /\ kids' = [kids EXCEPT ![r] = NoKid]
    /\ dropped' = dropped \ {r}
    /\ UNCHANGED <<pc, signals, fd, buf, rules, mapfile, asked>>

EditMap ==
    /\ mapfile < MaxEdits
    /\ mapfile' = mapfile + 1
    /\ UNCHANGED <<pc, signals, fd, queue, buf, rules, asked, kids, dropped>>

\* A handler that runs during select makes it fail with EINTR; at any other place
\* the loop goes on.
Interrupt == pc' = IF pc = "select" THEN "top" ELSE pc

\* handle_exit, in standalone mode only: elsewhere the signal kills the process.
SigTerm ==
    /\ standalone /\ pc # "stopped"
    /\ exit_signal' = TRUE
    /\ Interrupt
    /\ UNCHANGED <<caught_sighup, fd, queue, buf, rules, mapfile, asked, kids, dropped>>

\* handle_sighup
SigHup ==
    /\ pc # "stopped"
    /\ caught_sighup' = TRUE
    /\ asked' = mapfile
    /\ Interrupt
    /\ UNCHANGED <<exit_signal, fd, queue, buf, rules, mapfile, kids, dropped>>

\* inetd (wait = yes) starts the server again when a request waits.
Respawn ==
    /\ ~standalone /\ pc = "stopped" /\ Queued # {}
    /\ pc' = "top"
    /\ caught_sighup' = FALSE
    /\ rules' = mapfile
    /\ UNCHANGED <<standalone, exit_signal, fd, queue, buf, mapfile, asked, kids, dropped>>

-----------------------------------------------------------------------------
(* The loop.                                                                *)

\* Faulty variant: the loop does not look at exit_signal.
ExitRequestedNever == FALSE

ExitRequested == exit_signal

Top ==
    /\ pc = "top"
    /\ pc' = IF ExitRequested THEN "stopped" ELSE "hup"
    /\ UNCHANGED <<signals, fd, queue, buf, rules, mapfile, asked, kids, dropped>>

\* caught_sighup: standalone, read the map file; else go back to inetd.
CheckHup ==
    /\ pc = "hup"
    /\ caught_sighup' = FALSE
    /\ CASE ~caught_sighup -> pc' = "wait" /\ UNCHANGED rules
         [] caught_sighup /\ standalone -> pc' = "wait" /\ rules' = mapfile
         [] OTHER -> pc' = "stopped" /\ UNCHANGED rules
    /\ UNCHANGED <<exit_signal, fd, queue, buf, mapfile, asked, kids, dropped>>

\* read_remap_rules exits when it cannot open or understand the map file.
ReloadFails ==
    /\ "map" \in Faults
    /\ pc = "hup" /\ caught_sighup /\ standalone
    /\ pc' = "stopped"
    /\ caught_sighup' = FALSE
    /\ UNCHANGED <<exit_signal, fd, queue, buf, rules, mapfile, asked, kids, dropped>>

\* The flags have been looked at, select has not begun.
EnterSelect ==
    /\ pc = "wait"
    /\ pc' = "select"
    /\ UNCHANGED <<signals, fd, queue, buf, rules, mapfile, asked, kids, dropped>>

\* Faulty variant: fd4 is taken without a look at the set.
ChosenFd4(ready) == IF standalone THEN "fd4" ELSE "fd0"

\* The IPv4 socket comes first.
Chosen(ready) == CASE ~standalone -> "fd0"
                   [] standalone /\ "fd4" \in ready -> "fd4"
                   [] OTHER -> "fd6"

SelectReady ==
    /\ pc = "select" /\ Queued # {}
    /\ fd' = Chosen({s \in Sockets : queue[s] # <<>>})
    /\ pc' = "read"
    /\ UNCHANGED <<signals, queue, buf, rules, mapfile, asked, kids, dropped>>

\* No request for waittime seconds: back to inetd.
SelectTimeout ==
    /\ ~standalone /\ pc = "select" /\ Queued = {}
    /\ pc' = "stopped"
    /\ UNCHANGED <<signals, fd, queue, buf, rules, mapfile, asked, kids, dropped>>

\* myrecvfrom; the socket does not block.
Read ==
    /\ pc = "read"
    /\ IF queue[fd] # <<>>
         THEN /\ buf' = Head(queue[fd])
              /\ queue' = [queue EXCEPT ![fd] = Tail(@)]
              /\ pc' = "fork"
         ELSE pc' = "top" /\ UNCHANGED <<buf, queue>>
    /\ UNCHANGED <<signals, fd, rules, mapfile, asked, kids, dropped>>

\* The kernel drops a datagram with a bad checksum after select reported it.
ReadNothing ==
    /\ "checksum" \in Faults
    /\ pc = "read" /\ queue[fd] # <<>>
    /\ dropped' = dropped \cup {Head(queue[fd])}
    /\ queue' = [queue EXCEPT ![fd] = Tail(@)]
    /\ pc' = "top"
    /\ UNCHANGED <<signals, fd, buf, rules, mapfile, asked, kids>>

\* inetd passed a socket of another kind: the datagram is read, the server exits.
ReadForeign ==
    /\ "family" \in Faults
    /\ ~standalone /\ pc = "read" /\ queue[fd] # <<>>
    /\ dropped' = dropped \cup {Head(queue[fd])}
    /\ queue' = [queue EXCEPT ![fd] = Tail(@)]
    /\ pc' = "stopped"
    /\ UNCHANGED <<signals, fd, buf, rules, mapfile, asked, kids>>

\* select or recvfrom fails: the server exits.
LoopFails ==
    /\ "io" \in Faults
    /\ pc \in {"select", "read"}
    /\ pc' = "stopped"
    /\ UNCHANGED <<signals, fd, queue, buf, rules, mapfile, asked, kids, dropped>>

\* Faulty variant: a signal is looked at while a request is in hand.
ForkUnlessHup ==
    /\ pc = "fork"
    /\ kids' = IF caught_sighup THEN kids
               ELSE [kids EXCEPT ![buf] = [state |-> "setup", rules |-> rules, asked |-> asked]]
    /\ buf' = None
    /\ pc' = "top"
    /\ UNCHANGED <<signals, fd, queue, rules, mapfile, asked, dropped>>

\* Faulty variant: the requests that wait are served before the flags are polled.
AfterForkWait == "wait"

\* The parent loops.
AfterFork == "top"

Fork ==
    /\ pc = "fork"
    /\ kids' = [kids EXCEPT ![buf] = [state |-> "setup", rules |-> rules, asked |-> asked]]
    /\ buf' = None
    /\ pc' = AfterFork
    /\ UNCHANGED <<signals, fd, queue, rules, mapfile, asked, dropped>>

\* fork fails: the whole server exits.
ForkFails ==
    /\ "fork" \in Faults
    /\ pc = "fork"
    /\ dropped' = dropped \cup {buf}
    /\ buf' = None
    /\ pc' = "stopped"
    /\ UNCHANGED <<signals, fd, queue, rules, mapfile, asked, kids>>

\* The child: woo_init, its own socket, chroot, privileges, port, connect; then tftp,
\* or exit at the first step that fails or for another opcode.
ChildSetup(r) ==
    /\ kids[r].state = "setup"
    /\ \E to \in {"tftp"} \cup (IF "child" \in Faults THEN {"exited"} ELSE {}) :
         kids' = [kids EXCEPT ![r].state = to]
    /\ UNCHANGED <<pc, signals, fd, queue, buf, rules, mapfile, asked, dropped>>

-----------------------------------------------------------------------------
Init ==
    /\ standalone \in BOOLEAN
    /\ pc = "top"
    /\ exit_signal = FALSE /\ caught_sighup = FALSE
    /\ fd = CHOOSE s \in Sockets : TRUE
    /\ queue = [s \in Sockets |-> <<>>]
    /\ buf = None
    /\ rules = 0 /\ mapfile = 0 /\ asked = 0
    /\ kids = [r \in Requests |-> NoKid]
    /\ dropped = {}

Loop ==
    /\ \/ Top \/ CheckHup \/ ReloadFails \/ EnterSelect \/ SelectReady \/ Read
       \/ ReadNothing \/ ReadForeign \/ LoopFails \/ Fork \/ ForkFails
    /\ UNCHANGED standalone

\* What only the environment decides.
Outside ==
    /\ \/ SelectTimeout \/ SigTerm \/ SigHup \/ EditMap
       \/ \E r \in Requests : ChildSetup(r) \/ \E s \in Sockets : Arrive(r, s)
    /\ UNCHANGED standalone

Next == Loop \/ Respawn \/ Outside

Spec == Init /\ [][Next]_vars

\* The server and inetd run; nothing is assumed of clients, signals and the timeout.
FairSpec == Spec /\ WF_vars(Loop) /\ WF_vars(Respawn)

-----------------------------------------------------------------------------
(* Properties.                                                              *)

\* Every variable has its type; fd is always a socket that the server has, the one
\* that select reported (tftpd.c:869-874).
TypeOK ==
    /\ standalone \in BOOLEAN
    /\ pc \in {"top", "hup", "wait", "select", "read", "fork", "stopped"}
    /\ exit_signal \in BOOLEAN /\ caught_sighup \in BOOLEAN
    /\ fd \in Sockets
    /\ \A s \in Sockets : ToSet(queue[s]) \subseteq Requests
    /\ buf \in Requests \cup {None}
    /\ rules \in 0 .. MaxEdits /\ mapfile \in 0 .. MaxEdits
    /\ asked \in 0 .. MaxEdits
    /\ kids \in [Requests -> [state : {"none", "setup", "tftp", "exited"},
                              rules : 0 .. MaxEdits, asked : 0 .. MaxEdits]]
    /\ dropped \subseteq Requests

\* "polled synchronously to make sure we don't lose packets" (tftpd.c:787-789): no
\* request is in the server's hands when it exits or looks at its signals, however
\* the signals come; one that has been read has its child, or a fault took it.
NoRequestLost ==
    [][\A r \in Requests :
         r \in Queued /\ r \notin Queued' => buf' = r \/ r \in dropped']_vars
    /\ [](buf # None => pc = "fork")
    /\ [][\A r \in Requests : buf = r /\ buf' # r => r \in Forked' \cup dropped']_vars

\* After a SIGHUP at most one request is still served with older rules than the map
\* file held then: the one that select was about to report (tftpd.c:809-822).
StaleRulesOnce ==
    \A q, r \in Requests :
        LET Stale(x) == kids[x].rules < kids[x].asked
        IN  Stale(q) /\ Stale(r) /\ kids[q].asked = kids[r].asked => q = r

Waits(r, s) == s \in Sockets /\ r \in ToSet(queue[s])

Settled(r) == r \in Forked \cup dropped \/ (standalone /\ pc = "stopped")

\* Every request that waits at fd4, or at inetd's socket, gets its child, however many
\* others come, unless a fault takes the request or ends the server, or the server was
\* asked to exit.  One at fd6 does too, unless requests keep coming to fd4, which select
\* always prefers (tftpd.c:869-874).  SIGHUPs and failures of select that never end can
\* keep the loop from reading (tftpd.c:856-864).
RequestsServed ==
    \/ []<><<SigHup \/ LoopFails>>_vars
    \/ \A r \in Requests :
         /\ Waits(r, "fd4") \/ Waits(r, "fd0") ~> Settled(r)
         /\ []<>(\E q \in Requests : Waits(q, "fd4")) \/ (Waits(r, "fd6") ~> Settled(r))

\* A request to exit is met at the latest when the next request has been read
\* (tftpd.c:800-807).
ExitOnTraffic ==
    exit_signal /\ Queued # {} ~> pc = "stopped"

=============================================================================
