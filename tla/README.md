# A TLA+ model of woo-tftpd

woo-tftpd is a TFTP server (a modified tftp-hpa `in.tftpd`) with a small Qt
window that shows the running transfers. This directory holds TLA+ modules
translated from the source, TLC configurations that check them on small
instances, and TLAPS proofs of the safety properties for every value of the constants.
Paths below are relative to `src/`; `tftpd.c` is
`woo-tftpd-server/tftpd/tftpd.c`, `tftpsubs.c` is
`woo-tftpd-server/common/tftpsubs.c`, `data.c` is `woo-tftpd-server/data.c`, and
`remap.c` and `recvfrom.c` are next to `tftpd.c`, and `data.cxx`, `application.cxx`,
`widget.cxx` and `operation_view.cxx` are in `woo-tftpd-gui/`.

## The system

| Part | State | Operations |
| --- | --- | --- |
| Main loop (`main`, tftpd.c) | `exit_signal`, `caught_sighup`, the sockets, `rewrite_rules` | poll the flags, `select`, read one datagram, `fork` |
| Child, access (`tftp`, `validate_access`, `lock_file`) | its descriptor, its `fcntl` lock, `tsize` | open, fstat, lock, check permissions, truncate |
| Child, options (`do_opt`) | `segsize`, `rollover_val`, `timeout`, `rexmtval`, `maxtimeout`, the OACK | one function for each option |
| Child, read request (`tftp_sendfile`) | `block`, `timeout`, `r_timeout`, two read-ahead buffers | send, wait, retransmit, read ahead |
| Child, write request (`tftp_recvfile`) | the same with two write-behind buffers and `oap` | acknowledge, receive, write behind, dally |
| Operation table (`common.h`, data.c, application.cxx) | shared memory: `nb_operation` and the slots, one semaphore, SIGUSR1 | allocate, describe, count, end; scan, time out, remove, sleep |
| Window start and stop (data.cxx) | the names of the semaphore and of the segment | check, create, map, initialise, unlock, destroy |
| Start-up (`main`, recvfrom.c) | sockets, addresses, working directory, map and pid file | parse, open, resolve, bind, daemonise; find out where a request was sent to |
| File name rules (remap.c) | the list of rules, the name so far, `deadman` | parse a line; try, rewrite, repeat, restart, refuse |
| Text conversion, ports (tftpsubs.c) | `newline`, `prevchar`; the port being tried | expand, contract; bind, next port |
| Drawing (operation_view.cxx) | one icon for each item | redraw from the flags |

How they interact: the main loop forks a child for each datagram. The child looks
for a window (`woo_init`); if one runs, it allocates a slot under the semaphore,
sends SIGUSR1 and from then on writes into its slot *without* the semaphore. The
window's 100 ms timer scans the slots, also without it, and takes it only to remove
a slot. Children meet each other in the file system, through locks. Each child
speaks with one client over UDP.

What is hard here: a table that two programs change with a partial lock discipline,
and that survives the death of either; names that appear and disappear while
others look them up; a protocol over a lossy network whose 16 bit block numbers
wrap; acknowledgements that leave before the data is written; signals that are
polled. The list with its lines is under `hazards` in PROJECT.json.

## Modules

| Module | Models | Composed with | Proofs |
| --- | --- | --- | --- |
| `Monitor` (`MCMonitor`) | the operation table, children and window | | `MonitorProofs` |
| `OperationView` | the icons that the window draws | extends `Monitor` | `MonitorProofs` |
| `GuiBoot` | publishing and finding the semaphore and the segment | its running window is `Monitor`'s initial state | `GuiBootProofs` |
| `FileTransfer` | abstract: what a transfer promises, in either direction | | |
| `Tftp` | block numbers and the retransmission timer | extended by the next two | `TftpProofs` |
| `SendFile` | `tftp_sendfile` with client and network | implements `FileTransfer` | `SendFileProofs` |
| `RecvFile` | `tftp_recvfile` with client and network | implements `FileTransfer` | `RecvFileProofs` |
| `Dispatcher` | the main loop, signals, inetd | | `DispatcherProofs` |
| `Startup` | `main` before its loop, `myrecvfrom` | `MCServer` | `ServerProofs` |
| `PortBind` | `pick_port_bind` | `MCServer` | `ServerProofs` |
| `Remap` | the map file and the rule machine | `MCServer` | `ServerProofs` |
| `Request` | children that race for one file | `MCServer` | `RequestProofs` |
| `Options` | the options of one request; supplies `Rollover` and the timeouts of `Tftp` | `MCServer` | `ServerProofs` |
| `Netascii` | the conversions of `read_ahead` and `write_behind` | `MCServer` | `ServerProofs` |

Variables have the names of the source where there is one (`nb_operation`, `oflags`,
`m_end_array`, `r_timeout`, `segsize`, ...); `pc`-like variables say where a process
is. Every definition that models code is listed under `map` in PROJECT.json with its
lines. Operators introduced by "Faulty variant" are deliberate mistakes that no
specification uses: PROJECT.json pairs each checked property with one that breaks it.

### Monitor

`nb_operation++`, `nb_operation--` and `oflags |= flag` are a load and a store; the
window's `oflags |= END; oflags |= TIMEOUT` (application.cxx:168-169) are two of them
(`CheckTimeout` and `MarkEnd`, `LoadEnded` and `MarkTimeout`). The block count, which
only its child writes, is raised in one step; the three descriptive writes of a child
(address, file name, size) are one step, since nothing tells them apart.
Time is kept as ages: `Tick` adds a second between two
passes of the window, as a pass samples the clock once (application.cxx:145). The
clock never goes back, so lines 176-179 are not reached. A pass tests `nb_operation`
(`Work`), hides the window (`Hide`) and only then enters `sigwait` (`SigWait`):
children run in between.

The constant `Faults` says what the environment may do, because the properties
differ in what they survive: `late` (a child still runs when the countdown of its
slot is over), `intr` (EINTR in `sem_wait`), `kill` (children), `stop` (the window),
`race` (a `|=` of the window and one of the slot's child overlap; without it
`ChildApart` and `GuiApart` keep them apart, as their shortness nearly always does).

### OperationView

On top of `Monitor`: after the loop that creates and deletes items, the update loop of
`widget::update_view` draws the icon of each item from the flags that its slot has at
that moment, while children go on. The window does nothing else meanwhile. `ended` is
history: the slots whose present operation has been through `woo_end_operation`.

### GuiBoot

A name leads to an object named after the window that created it; unlinking removes
the name only. On glibc `SEM_FAILED` is 0 and `MAP_FAILED` is not, which decides
what `destroy` does after a failure. A segment without its size has no pages, so
reading `client_pid` there is a bus error, and `kill(0, 0)` succeeds. Process ids
are not reused.

### SendFile, RecvFile, Tftp, FileTransfer

A file is `Chunks` blocks, the last one short. A packet in flight carries its block
number and, for the properties only, its chunk; it may be lost, repeated and
overtaken, and dies when it is `MaxLag` blocks old (`Rollover + MaxLag + 1 <
BlockMod`: a packet does not survive until its number returns). The client is
external: it takes and acknowledges blocks by the protocol but may fall silent, send an
ERROR, or repeat itself at any time. While the OACK is out it may also send, as often as it
likes, ACKs of other blocks (`RecvOtherOackAck`, which sends the OACK again and starts the
interval anew, tftpd.c:1595, 1615-1620) and packets of another kind (`RecvOtherKind`, which
leaves the interval alone). `recv_time` leaves in `r_timeout` what remains of the interval;
`timer` doubles `timeout` first and then compares. `synchnet` drains nothing: its
`select` is given no descriptor, so it has no action. While the OACK is out, packets
are received into `ackbuf`, which is also what is sent again: the model keeps track
of that. In the last wait of `tftp_recvfile`, `dp_opcode` and `dp_block` are those of
the last DATA packet, so anything that arrives repeats the final ACK.

### MCServer and the parts it puts side by side

`Startup`, `PortBind`, `Remap`, `Request`, `Options` and `Netascii` share no variable.
`MCServer` chooses one of them at the beginning of a behaviour (`part`), runs it, and
leaves the others in one initial state, so that one run explores each of them
completely. `TypeOK` there is the conjunction of the types of `Request` and `Options`.

For inetd's server `MCServer` begins with the command line without `-a`, `-4`, `-6` and `-P`:
these are read under `standalone` only (tftpd.c:553-760).

`Startup` keeps of the command line what later steps depend on, and of an address how
`split_port` classifies it; `[::]` is a kind of its own, since a socket bound to it may hear
IPv4 too. The port of `-a` is a number of `PortNumbers`, the name of a service, nothing, or
`tftp`. Each family has its `bindport`: `OpenSockets` sets 69, `Resolve` copies the whole
address of `getaddrinfo` over it, whose port is 0 (tftpsubs.c:319), and `ChoosePort` puts in
what `getservbyname` or `strtoul` finds, cut to 16 bits by `htons`, while `PortKept` is the
two ways that leave it alone (tftpd.c:681, 698-699). `Bind` sets `v6only` when
`fd4 >= 0 || force_ipv6`; when that call fails it is only logged. A call that may fail has a
second action; where IPv6 may be given up as long as IPv4 is there, `Survives` says so.
`Receive` is one call of
`myrecvfrom` with the fallback of `main`: the socket option is set by the family of the
*previous* datagram.

`PortBind` lets other programs take and release ports of the range at any time.

In `Remap` a regular expression is the set of names it matches and a pattern the function
it computes; `visited` and `again` are history. `deadman` counts rules, not the
repetitions of a global rule. `Fault` is the outcome of undefined behaviour: `\x`
has length 0 when `genmatchstring` only measures, and an inverted rule has no match whose
parts its message could use.

`Netascii` converts one character in each step; `Encode` and `Decode` are what the
conversion of the whole text should be, by position, without blocks.

### Options, Request, Dispatcher

`Options` keeps the order of the request's options and the fact that `do_opt` clears
`blksize_set` each time. Numbers are the real ones except that a second is
`Second` = 1000 units; `unsigned long` is 64 bits wide (the package is built for
amd64), so `maxtimeout` does not overflow. `Request` has one step for each system call
of `validate_access`; path and permission checks that depend on the request alone are
one outcome. `Dispatcher` separates the look at the flags from `select`, and keeps
the set-up of a child as one step that may fail. Signals come without end, and so do
requests: `Arrive` takes the name of a request again once the server is done with it. A
failed `select` or `recvfrom` (`LoopFails`) and a datagram of a foreign family
(`ReadForeign`, possible on inetd's socket only) end the server.

## Runs

All runs have `CHECK_DEADLOCK FALSE`: every model may stop, when all the requests
of its bound are served.

Passing:

| Run | Bounds | Shows |
| --- | --- | --- |
| `MonitorSafety` | 2 children, 2 slots, `kill`, `stop`, `race` | mutual exclusion, the counter, slot ownership and countdowns only on slots in use; whoever dies and however flag updates overlap, the table stays consistent |
| `MonitorFaults` | 2 children, 1 slot, `late`, `intr`, `stop`, `race` | types; no wake-up is lost |
| `MonitorLive` (`OperationView`) | 2 children, 1 slot, no fault | every slot is freed, also after `exit(0)` without END; every child leaves `woo_init`; the icon of success is only drawn for an operation that its own child has ended |
| `GuiRestart` | 3 windows in sequence, 2 children, crash, failures, `-f` | a running window can be found; who holds its semaphore holds its segment; a boot never erases an allocation made under its semaphore |
| `SendFile` | 11 chunks, numbers modulo 5, rollover to 1, 3 tries | implements `FileTransfer`; the block sent again is intact; numbering agrees past the wrap; attempts to send a DATA packet are bounded; the child ends unless ACKs of other blocks keep coming while its OACK is out (`TerminatesUnlessOackUndone`) |
| `RecvFile` | 11 chunks, numbers modulo 5, rollover to 0, 3 tries | implements `FileTransfer`; the file is on disk before the final ACK; the OACK is never repeated at the wrap; the child ends unless its client repeats the block before the awaited one for ever (`TerminatesUnlessAsked`) |
| `Dispatcher` | 3 requests at a time, without end, alone (2 sockets) or under inetd, any number of signals, 1 edit of the map file | no request lost; a request at `fd4` or at inetd's socket gets its child however many others come, one at `fd6` unless `fd4` is never idle (`RequestsServed`); SIGHUP leaves at most one request on old rules; SIGTERM is met at the next request; no timeout of inetd costs a request |
| `Server` (`MCServer`), `Startup` | every command line, every failure, any sequence of requests | a server that reaches its loop listens on the families and the address it was asked for, on the port asked for or in the listed cases on port 0, and hears no IPv4 when told not to (`ListensAsAsked`, with its exceptions below); directory, map and pid file stay what they were (`PathsKept`); a child answers from a local address, the one its client used once two requests of a family came in a row (`AnswersFromAsked`) |
| `PortBind` | 2 children, ranges of 3 ports at the upper limit, `0:2` and none | a search that fails has tried every port once (`SearchExhaustive`), and ends (`SearchEnds`) |
| `Remap` | every map file of up to 3 of 12 lines, 3 names, `deadman` from 3 | rewriting ends unless a global rule feeds itself (`RewriteEnds`); only a table that goes round is refused as one (`FailureMeansLoop`) |
| `Request` | 3 children, 1 file of up to 2 chunks | uploads never mix; a file does not change under a reader |
| `Options` | any 3 options, 10 values around the limits | a block fits the buffers (`TypeOK`); the OACK states what is in force; six attempts whatever the timeout |
| `Netascii` | every text of up to 5 of 4 kinds of character, blocks of 2 and 3 | what is sent is the encoding of the whole file, what is written the decoding of the whole stream, wherever blocks end |

Why the bounds are enough: two children are a holder and a waiter, or one that runs
and one that finds the table full; two slots are needed for slots to interfere,
one slot makes the table full early and is reused. The proofs
below cover any number of both. The limits of seconds are 0 or 1: they are only compared
with, and `Tick` may or may not occur between any two passes. Eleven chunks modulo five
wrap the numbers twice and go on for longer than `MaxLag`, with both buffers used in
each parity; three tries have a first, a middle and a last one. Three windows are
enough for leftovers of leftovers. A range of three ports has a first, a middle and a last
one to begin with. Three rules are one that restarts, one it returns to and one before
it, and three steps of `deadman` are used up by them; names that go round in three or to
and fro feed rules into each other. Five characters and blocks of two or three cut every
pair of characters at a border, and fill the last block exactly or not. The ports 65535 and
65536 are on both sides of what `htons` keeps, and 0 is what `strtoul` returns for no number.
Three requests that come again are enough for two that take turns at `fd4` while the third
waits at `fd6`. Bounds on counters are named constants (`MaxBlock`, `MaxOpts`, `MaxEdits`,
`NbGuis`, `MaxLines`, `MaxBytes`, `Often`).

Four runs are expected to find a violation; each shows a disagreement between the
code and a comment or a check of its own, quoted under `findings`:

| Run | What happens |
| --- | --- |
| `MonitorCount` | a child outlives the countdown of its slot (`late`); its next `oflags \|=` revives the slot, and `nb_operation` is decremented twice |
| `MonitorLeak` | with `race`, a child stores flags that it loaded before the window's END and after which the window adds TIMEOUT; the slot, with TIMEOUT and without END, is never looked at again once its child leaves by `exit(0)` |
| `GuiRefused` | a refused second window unlinks the first one's semaphore |
| `RecvFileDisk` | a full disk is acknowledged to the end |

Other places where the modelled code does less than its comments say. The models
contain them. The first four are exceptions that a property names, and without which it
fails; about the others no property of a run speaks:

- "Number of attempts to send each packet" (tftpd.c:81) is not true of the OACK of a read
  request: each ACK of another block than 0 sends it again and starts the interval anew
  (tftpd.c:1595, 1615-1620), so one such ACK per interval keeps the child for ever.
  `BoundedAttempts` is about DATA packets; `TerminatesUnlessOackUndone` has the exception.
- `select`'s result is looked at for `fd4` first (tftpd.c:869-872): IPv4 requests that keep
  coming starve the IPv6 socket (`RequestsServed`, second part).
- `-a HOST:` binds to any free port, and so does `-a HOST` when the services database does
  not know `tftp`, where the comment says "It's TFTP, we're OK" (tftpd.c:681, 698-699), because
  `set_sock_addr` has wiped the 69; a port above 65535 is cut to 16 bits (`PortAsAsked`).
- `-a [::]` without `-6` leaves IPV6_V6ONLY as the system has it, so the socket may hear IPv4
  too, and a failure to set it is only logged (tftpd.c:719-722; `ListensAsAsked`).

- `data.c:138` does not look at the result of `sem_wait`, while SIGHUP still has its
  handler: with `intr`, two processes are in the critical section (`SemMutex` fails).
- A window that dies between `sem_lock` and `sem_unlock` leaves the semaphore at 0: with
  `stop`, children wait in `woo_init` before they answer (`ChildServed` fails).
- `m_timeout_array` starts as (0, 0), so a fresh slot that still has block 0 is timed out
  at the first look (application.cxx:156-169), and with `late` a running operation is removed.
- A transfer that the window has timed out and that then completes shows the icon of
  failure. With `race`, a child that loads its flags between the window's END and TIMEOUT
  and stores its kind after both takes TIMEOUT away: a running transfer shows success
  (`SuccessHonest` fails). Until its kind is set, an upload shows the icon of a download.
- `tftp_sendfile` calls `woo_end_operation` at its label `abort` too (tftpd.c:1678-1681), so
  a transfer that failed or that the client refused ends with success. What `ended` means
  in `OperationView` is that call, not a complete file.
- The check for another window and the creation of the semaphore are two calls
  (data.cxx:78, 86): with `Overlap`, two windows that start together both run.
- A child that maps the segment before `ftruncate` (data.cxx:96-104) dies of SIGBUS; one
  that opens one window's semaphore and the next one's segment allocates unprotected.
- In the last wait of `tftp_recvfile` (tftpd.c:1780-1782) any packet repeats the final ACK.
- The size announced for a read is taken before the lock (tftpd.c:1526).
- `blksize2` above the limit is answered with the limit, no power of two (tftpd.c:1229);
  `do_opt` clears `blksize_set` each time, so two block sizes are taken (tftpd.c:1332).
- A restarted rule set goes on with its second rule: `ruleptr = rules` (remap.c:422, "Start
  from the top") is followed by the loop's `ruleptr->next`.
- An inverted abort rule whose message refers to the match, and a pattern with `\x`, make
  `genmatchstring` read or write outside its buffers (remap.c:59-150, tftpd.c:1390-1410): `Fault`.
- The first request of a family, and each that follows one of the other family on a fresh
  socket, is answered from the bound address or any, since recvfrom.c:152-162 looks at the
  sender of the datagram before.
- Without an IPv6 socket `main` logs "disable IPv6" and exits in `set_socket_nonblock(-1)`
  (tftpd.c:587-590).
- With `-l` and without `-s`, SIGHUP looks for a relative map file under `/` (tftpd.c:742,
  815), and ends the server when it is not there.
- SIGTERM between the look at `exit_signal` and `select` waits for the next request.

### Fairness

Processes that can run do (weak fairness of children, window, server loop and
inetd). A waiter on the semaphore gets it if it is free again and again (strong
fairness of `SemWait` and `SemLock`: the kernel wakes waiters). `Tick` is strongly
fair: seconds pass between 100 ms passes. In the transfers the child's own steps and
the passing of its interval are fair; so are the steps of a child that rewrites a name
or searches for a port, and the window's drawing. Nothing is asked of the client. `Retransmit`
and `GiveUp` are weakly fair although a packet may be waiting: `recv_time` never
lets its interval reach 0 while `select` finds something to read, so this assumes that
a client that floods the socket leaves a gap some time. It does not hide ACKs that come once
per interval: each takes the child out of the wait, and `TerminatesUnlessOackUndone` names the
ones that start the interval again. Signals, arrivals, edits of the
map file and inetd's idle timeout are never fair. No fairness is assumed of faults.

## Proofs

Every invariant of the passing runs is a theorem, and so are the action properties
`SuccessHonest`, `NoRequestLost` and the refinement of `FileTransfer` in both directions.
The theorems hold for every value of the constants that the named assumptions of the
modules admit: any finite set of children, any number of slots below 256, files of any
length, any block size, any map file, any number of requests and signals.

| Module | Theorem | States | Assumes besides |
| --- | --- | --- | --- |
| `MonitorProofs` | `TypeCorrect` | `TypeOK` | |
| | `MutualExclusion` | `SemMutex` | no `intr` |
| | `NoLostWakeupCorrect` | `NoLostWakeup` | no `kill` |
| | `CounterCorrect`, `OwnershipCorrect`, `CountdownCorrect` | `NbCountsEnabled`, `OwnSlot`, `CountdownInUse` | no `late`, no `intr` |
| | `SuccessHonestHolds` | `SuccessHonest` of `OperationView` | no `late`, no `intr`, no `race` |
| `SendFileProofs` | `ResentIntactHolds`, `NumbersInStepHold`, `SendImplementsTransfer` | `ResentIntact`, `NumbersInStep`, `ImplementsTransfer` | |
| | `AttemptsBounded` | `BoundedAttempts` | `Tries` = 6 (tftpd.c: `TRIES`) |
| `RecvFileProofs` | `OackOnlyFirstHolds` | `OackOnlyFirst` | |
| | `WaitFlushedHolds`, `DoneOnDiskHolds`, `RecvImplementsTransfer` | `WaitFlushed`, `DoneOnDisk`, `ImplementsTransfer` | the disk is not full |
| `DispatcherProofs` | `NoRequestLostHolds`, `StaleRulesOnceHolds`, `DispatcherTypesHold` | `NoRequestLost`, `StaleRulesOnce`, `TypeOK` | |
| `GuiBootProofs` | `RunningReachableHolds`, `PairMatchesHolds`, `AllocationKeptHolds`, `BootTypesHold` | `RunningReachable`, `PairMatches`, `AllocationKept`, `TypeOK` | `Overlap = FALSE` |
| `RequestProofs` | `NoMixedUploadHolds`, `ReadStableHolds` | `NoMixedUpload`, `ReadStable` | |
| `ServerProofs` | `OackTellsTruth`, `TriesKeptHold` | `OackInForce`, `TriesKept` | |
| | `SearchIsExhaustive` | `SearchExhaustive` | |
| | `ListensAsAskedHolds`, `PathsKeptHold`, `AnswersFromAskedHold` | `ListensAsAsked` (for any port numbers), `PathsKept`, `AnswersFromAsked` | |
| | `FailureMeansLoopHolds` | `FailureMeansLoop` | |
| | `SentIsEncodedHolds`, `WrittenIsDecodedHolds` | `SentIsEncoded`, `WrittenIsDecoded` | |
| | `ServerTypesHold`, `ServerInvariantsHold` | `TypeOK` of `MCServer`; the eleven invariants of the run `Server` together | |

The assumptions on faults are needed, and TLC shows it: `MonitorCount` violates the counter
under `late`; `intr` breaks `SemMutex` and `race` `SuccessHonest` (list above); a child killed between
its count and its `kill()` leaves the window asleep; `GuiRefused` is two windows at a time and
`RecvFileDisk` the full disk. `SuccessHonest` excludes `late` and `intr` because a slot has one owner only
without them, so that "its own child" means something. None of the other theorems about
`Monitor` excludes `race`: overlapping updates lose END or TIMEOUT, never ENABLE.

The theorems about the parts of `MCServer` have the form `Init /\ [][Next]_v => []P`, with
the part's own initial condition and steps. `PartsRun` shows that a behaviour of `MCServer`
is one of each part, which carries them over to its `Spec`.

### The arguments

*Monitor.* Mutual exclusion alone is not inductive. `MutexInv` adds that the semaphore is
at most 1 and that it is 0 while anybody is between `sem_wait` and `sem_post`; a death in
there only makes it stay 0. `NoLostWakeup` is inductive with the types: a child that has
raised `nb_operation` is on its way to `kill`, and a signal sent while the window is between
its test and `sigwait` stays pending because it is blocked. The table needs `TableInv`:
`FlagsInv` (END only with ENABLE, also in values loaded and not yet stored), `SlotInv` (a
slot is free until its child sets ENABLE, in use from then on, and has one child),
`CountdownInv` (a countdown runs on a slot in use; when it is over the child is gone),
`NbInv` (the counter is the number of slots in use, one more between the two writes of an
allocation or of a removal) and `DescInv`. For the icons, `ApartInv` says that without
`race` a child stores what its slot still has, and `EndedInv` that a slot with END and
without TIMEOUT was ended by its child or the window is between its two marks; `DrawInv`
has the window draw between two passes only.

*Transfers.* `TftpProofs` relates numbers to chunks: `Numbered(i, b)` holds when block
number b stands for chunk i after any number of wraps, and two chunks that are at most
`MaxLag + 1` apart never share a number. `SendInv` then says how far server and client
have come (`ProgressInv`: the client is ahead by the one chunk that is on its way), that
every packet in flight carries the chunk of its number and is at most `MaxLag` old
(`DataInv`, `AckInv`), and which chunk is in which of the two buffers (`BufferInv`): an ACK
that matches the current number is for the current chunk, so `read_ahead` may go on.
`RecvInv` is its mirror; `DiskInv` adds that what was acknowledged is in a buffer or in the
file, in order, for a disk that is not full. `AttemptsInv` ties the doubled timeout, which
is all that the code counts, to the number of attempts. Refinement: each step of either
program is a step of `FileTransfer` or leaves its state alone, shown step by step
from these invariants.

*Dispatcher.* `FlagInv` (old rules are in use only while `caught_sighup` is up) and `OnceInv`
(after a child went out with old rules, the loop is on its way to the flag) make
`StaleRulesOnce` inductive; `HandInv` (a request is in hand exactly between the read and
the fork) and the shape of the queues give `NoRequestLost`.

*GuiBoot.* `TurnInv` (one window after the other), `NameInv` (what the two names lead to at
each point of a boot), `ChildInv` and `PairInv` (between the window's two opens, a child with
the new semaphore can only have the segment that this window is about to take over), `MutexInv` for each
semaphore, and `CountInv` (the count of a segment lies between the allocations under the
window's semaphore and the children that use the segment). A leftover segment may well
have been counted up by a child of the previous window; that is why both bounds are needed.

*Request.* A lock exists exactly between `lock_file` and the exit (`LockInv`), excludes
(`ExclusionInv`), and a writer's position is what it has written since its truncation
(`OffsetInv`), so a file holds one writer's chunks (`UnmixedInv`).

*Server.* `SettingsInv` and `ToldInv`: the OACK's last entry of each group is in force, unless
the request is refused. `SearchRight`: the ports tried are those from the first one to the
present one, round the end of the range. `PathInv`, `SocketInv`, `PortInv`, `ReceivedInv` follow `main` in
the order of its code; `PortInv` says which port each family has after each step, 69, 0 or
the one found. `CountInv` and `OrderInv`: as long as no rule came again, `deadman` has
counted different rules, and without a restart they come in the order of the file.
`SentInv` and `WrittenInv`: what was sent or written is the conversion of what was taken so
far, but for half a pair. The last two rest on facts about `FlattenSeq` (a concatenation
grows by one block at its end) and on the round trip `Decode(Encode(t)) = t`.

Induction over numbers and lengths (chunk numbers, `FlattenSeq`, the round trip) is done by
a least counterexample from the library's `WFMin`, since the induction theorems
take an operator as parameter and cannot be instantiated here.

### Only model-checked

All liveness: `SlotReleased`, `ChildServed`, `TerminatesUnlessOackUndone`,
`TerminatesUnlessAsked`, `RequestsServed`, `ExitOnTraffic`, `SearchEnds` and
`RewriteEnds` need fairness and `ENABLED`, which are outside the prover. `BoundedAttempts` for other numbers of tries than the
source's is checked for 3: powers of two are opaque to the provers.

## Not modelled

- Parsing of strings: `is_numeric_ipv6`, `strip_address`, numbers of the command line, the
  escapes of the map file (`readescstring`), paths of `validate_access`. Their outcomes are
  inputs of the models.
- Texts, progress, geometry and images of the window: drawing that nothing else reads.
- The double fork of the window's `main` and its settings file: no shared state.
- `lib/`, `config.h`, `aconfig.h`: replacements of library functions and build settings.
- The variant of `myrecvfrom` for systems without `recvmsg`, and code under `#ifdef` for
  other systems (Cygwin, no IPv6, TCP wrappers).
- Reuse of process ids, a clock that goes back, and a second window that overlaps with
  children in mid-transfer.

`Options` accepts a `rollover` up to 65535, for which `Tftp`'s assumption does not hold:
`SendFile` and `RecvFile` speak about the small values that clients use (0 and 1).

## Plan

Done: all modules and runs above, and the theorems of the section on proofs. What is left:

1. The safety half of the liveness properties, where it says something by itself: a
   bound on the steps of a rewriting without a global rule, and on those of a port search.
2. `BoundedAttempts` for any number of tries.
3. The places of the list above that no property speaks about, should the code change.
