------------------------------ MODULE Startup ------------------------------
(***************************************************************************)
(* The server before its main loop: main (tftpd.c) from the command line   *)
(* to the pid file, with every call that may fail, then the address that   *)
(* a received request is answered from: myrecvfrom (recvfrom.c) and what   *)
(* main makes of its result.  What happens to the requests themselves is   *)
(* in module Dispatcher, the syntax of the map file in module Remap.       *)
(***************************************************************************)
EXTENDS Integers, FiniteSets

CONSTANT
    PortNumbers     \* numbers after the colon of -a; 0 is for any text that is no number

ASSUME PortsAssumption == PortNumbers \subseteq Nat

\* Address families; a socket is known by its family.
Families == {4, 6}

\* What else -a has for a port: nothing or "tftp", a colon with nothing after it, the name
\* of another service.
TftpPort == -1
EmptyPort == -2
ServicePort == -3

IPPORT_TFTP == 69

\* The port of that other service.
ServPort == 1758

(***************************************************************************)
(* The command line.  mode: run by inetd, -l, -L.  family: the last of -4  *)
(* and -6, 0 for none.  addr: what split_port finds in -a: an IPv4         *)
(* address, an IPv6 one in brackets or without, [::], a host name, nothing *)
(* before the port, or no -a at all.  port: the port in -a.  map: -m.      *)
(***************************************************************************)
CommandLine ==
    {c \in [mode : {"inetd", "daemon", "foreground"}, secure : BOOLEAN,
            family : Families \cup {0},
            addr : {"none", "empty", "v4", "v6", "any6", "bare6", "host"},
            port : {TftpPort, EmptyPort, ServicePort} \cup PortNumbers,
            map : {"none", "relative", "absolute"}, pidfile : BOOLEAN] :
        c.addr = "none" => c.port = TftpPort}

VARIABLES
    spc,        \* where main is
    conf,       \* the command line
    ai_fam,     \* ai_fam: 4, 6, or 0 for AF_UNSPEC
    fd,         \* fd4 and fd6: "none", "open", "bound"
    bindaddr,   \* bindaddr4 and bindaddr6: "any" or "addr", the one asked for
    bindport,   \* the port in each, 0 for any port that is free
    v6only,     \* IPV6_V6ONLY of fd6: "unset", "set", or the call "failed"
    cwd,        \* working directory: "start", "served", "root"
    mapsRead,   \* files that were read as the map
    pidAt,      \* where the pid file was written
    from,       \* family of `from', the sender of the last datagram; 0 at first
    before,     \* family of the datagram before the last one
    pktinfo,    \* sockets that tell where a datagram was sent to
    sentTo,     \* the address that the client sent its request to
    unknown,    \* a failed call kept that address from the server
    myaddr      \* the address that the child answers from

received == <<from, before, pktinfo, sentTo, unknown, myaddr>>
startup == <<spc, conf, ai_fam, fd, bindaddr, bindport, v6only, cwd, mapsRead, pidAt, received>>

Standalone == conf.mode # "inetd"

\* exit with a message.
ExitMain ==
    /\ spc' = "exit"
    /\ UNCHANGED <<conf, ai_fam, fd, bindaddr, bindport, v6only, cwd, mapsRead, pidAt, received>>

\* What a file name on the command line means in a directory.
FileIn(name, dir) == IF name = "absolute" THEN "absolute" ELSE dir

-----------------------------------------------------------------------------
(* Options, directory, user, map file.                                      *)

\* getopt_long: an unknown option is logged, a bad value ends the server.
BadOption == spc = "options" /\ ExitMain

\* -s needs one directory that can be entered.
EnterDirectory ==
    /\ spc = "options"
    /\ cwd' = IF conf.secure THEN "served" ELSE cwd
    /\ spc' = "map"
    /\ UNCHANGED <<conf, ai_fam, fd, bindaddr, bindport, v6only, mapsRead, pidAt, received>>

\* read_remap_rules
ReadMap ==
    mapsRead' = IF conf.map = "none" THEN mapsRead
                ELSE mapsRead \cup {FileIn(conf.map, cwd)}

\* getpwnam, then the map file; a missing user or a wrong file ends the server.
LoadRules ==
    /\ spc = "map"
    /\ ReadMap
    /\ spc' = IF Standalone THEN "sockets" ELSE "inherit"
    /\ UNCHANGED <<conf, ai_fam, fd, bindaddr, bindport, v6only, cwd, pidAt, received>>

NotStarted == spc = "map" /\ ExitMain

\* Under inetd descriptor 0 is the socket.
InheritSocket ==
    /\ spc = "inherit"
    /\ \E s \in Families : fd' = [fd EXCEPT ![s] = "bound"]
    /\ spc' = "ready"
    /\ UNCHANGED <<conf, ai_fam, bindaddr, bindport, v6only, cwd, mapsRead, pidAt, received>>

-----------------------------------------------------------------------------
(* Sockets and the address to listen on.                                    *)

Opened(s) == IF ai_fam \in {0, s} THEN "open" ELSE "none"

OpenSockets ==
    /\ spc = "sockets"
    /\ fd' = [s \in Families |-> Opened(s)]
    /\ bindport' = [s \in Families |-> IF Opened(s) = "open" THEN IPPORT_TFTP ELSE bindport[s]]
    /\ spc' = "address"
    /\ UNCHANGED <<conf, ai_fam, bindaddr, v6only, cwd, mapsRead, pidAt, received>>

\* No IPv4 socket, or no socket can be made non-blocking.
NoSocket == spc = "sockets" /\ ExitMain

\* "disable IPv6", but set_socket_nonblock(-1) ends the server all the same.
Ipv6SocketFails == spc = "sockets" /\ ai_fam = 0 /\ ExitMain

\* The family that split_port finds; -1: brackets are missing.
SplitPort ==
    CASE conf.addr = "v4" -> 4
      [] conf.addr \in {"v6", "any6"} -> 6
      [] conf.addr = "bare6" -> -1
      [] OTHER -> 0

Other(s) == IF s = 4 THEN 6 ELSE 4

\* The other family has a socket that the address is not for.
Closes == SplitPort \in Families /\ fd[Other(SplitPort)] = "open"

\* An address of one family closes the other one's socket.
ChooseFamily ==
    /\ spc = "address" /\ SplitPort # -1
    /\ ~(Closes /\ ai_fam = Other(SplitPort))
    /\ fd' = IF Closes THEN [fd EXCEPT ![Other(SplitPort)] = "none"] ELSE fd
    /\ ai_fam' = IF Closes THEN SplitPort ELSE ai_fam
    /\ spc' = "resolve"
    /\ UNCHANGED <<conf, bindaddr, bindport, v6only, cwd, mapsRead, pidAt, received>>

\* "is not in address family", "need to be enclosed in []"
BadAddress ==
    /\ spc = "address"
    /\ SplitPort = -1 \/ (Closes /\ ai_fam = Other(SplitPort))
    /\ ExitMain

OpenFds == {s \in Families : fd[s] = "open"}

\* Where a call may fail for a socket: IPv6 is given up when there is IPv4, any other
\* failure ends the server.
Survives(got) == got \subseteq OpenFds /\ (got = OpenFds \/ 4 \in got)

NamesAddress == conf.addr \in {"v4", "v6", "any6", "host"}

\* The address that a socket is bound to when -a names one.
AddrAsked == IF NamesAddress /\ conf.addr # "any6" THEN "addr" ELSE "any"

\* set_sock_addr for each open socket; it copies a whole sockaddr, whose port is 0.
Resolve(got) ==
    /\ spc = "resolve" /\ Survives(got)
    /\ ~NamesAddress => got = OpenFds
    /\ fd' = [s \in Families |-> IF s \in got THEN "open" ELSE "none"]
    /\ bindaddr' = [s \in Families |-> IF s \in got THEN AddrAsked ELSE bindaddr[s]]
    /\ bindport' = [s \in Families |-> IF s \in got /\ NamesAddress THEN 0 ELSE bindport[s]]
    /\ spc' = "port"
    /\ UNCHANGED <<conf, ai_fam, v6only, cwd, mapsRead, pidAt, received>>

NotResolved == spc = "resolve" /\ NamesAddress /\ ExitMain

\* The port is left as it is: no -a, nothing after the colon, or "It's TFTP, we're OK"
\* when the services database does not know tftp.
PortKept ==
    /\ spc = "port" /\ conf.port \in {TftpPort, EmptyPort}
    /\ spc' = "bind"
    /\ UNCHANGED <<conf, ai_fam, fd, bindaddr, bindport, v6only, cwd, mapsRead, pidAt, received>>

\* What getservbyname finds, or strtoul and then htons, which has 16 bits.
PortFound ==
    CASE conf.port = TftpPort -> IPPORT_TFTP
      [] conf.port = ServicePort -> ServPort
      [] OTHER -> conf.port % 65536

ChoosePort ==
    /\ spc = "port" /\ conf.addr # "none" /\ conf.port \notin {EmptyPort, 0}
    /\ bindport' = [s \in Families |-> IF fd[s] = "open" THEN PortFound ELSE bindport[s]]
    /\ spc' = "bind"
    /\ UNCHANGED <<conf, ai_fam, fd, bindaddr, v6only, cwd, mapsRead, pidAt, received>>

\* Neither a service that is known nor a number.
BadPort == spc = "port" /\ conf.port \in {ServicePort, 0} /\ ExitMain

\* Faulty variant: -6 is forgotten.
V6onlyWithIpv4 == fd[4] = "open"

\* fd4 >= 0 || force_ipv6
V6onlyWanted == fd[4] = "open" \/ conf.family = 6

\* bind for each open socket; on fd6 IPV6_V6ONLY comes first, and may fail.
Bind(bound) ==
    /\ spc = "bind" /\ Survives(bound)
    /\ fd' = [s \in Families |-> IF s \in bound THEN "bound" ELSE "none"]
    /\ v6only' \in IF fd[6] = "open" /\ V6onlyWanted THEN {"set", "failed"} ELSE {v6only}
    /\ spc' = "daemon"
    /\ UNCHANGED <<conf, ai_fam, bindaddr, bindport, cwd, mapsRead, pidAt, received>>

NotBound == spc = "bind" /\ ExitMain

-----------------------------------------------------------------------------
(* The background, the pid file, SIGHUP.                                    *)

\* Faulty variant: daemon(0, 0).
DaemonDirRoot == IF conf.mode = "daemon" THEN "root" ELSE cwd

\* daemon(secure, 0) goes to / unless it is told not to.
DaemonDir == IF conf.mode = "daemon" /\ ~conf.secure THEN "root" ELSE cwd

Daemonize ==
    /\ spc = "daemon"
    /\ cwd' = DaemonDir
    /\ spc' = "pidfile"
    /\ UNCHANGED <<conf, ai_fam, fd, bindaddr, bindport, v6only, mapsRead, pidAt, received>>

NotDaemon == spc = "daemon" /\ conf.mode = "daemon" /\ ExitMain

\* A pid file that cannot be written is forgotten.
WritePidfile ==
    /\ spc = "pidfile"
    /\ pidAt' \in {"none"} \cup (IF conf.pidfile THEN {cwd} ELSE {})
    /\ spc' = "ready"
    /\ UNCHANGED <<conf, ai_fam, fd, bindaddr, bindport, v6only, cwd, mapsRead, received>>

\* SIGHUP: the map is read again, under the name that the command line gave.
Reload ==
    /\ spc = "ready" /\ Standalone /\ conf.map # "none"
    /\ ReadMap
    /\ UNCHANGED <<spc, conf, ai_fam, fd, bindaddr, bindport, v6only, cwd, pidAt, received>>

\* The map cannot be read any more, or inetd is to start the server again.
ReloadFails == spc = "ready" /\ (~Standalone \/ conf.map # "none") /\ ExitMain

-----------------------------------------------------------------------------
(* myrecvfrom.                                                              *)

\* The option that asks for the address is set by the family of the datagram before:
\* from->sa_family is looked at ahead of recvmsg.
AskPktinfo(s) == IF from = s THEN pktinfo \cup {s} ELSE pktinfo

\* Addresses of this host; "group" stands for broadcast and multicast addresses.
IsLocal(a) == a \in {"any", "addr", "other"}

\* Faulty variant: the address is taken as it is.
LocalAddressAny(a) == a

\* address_is_local: an address that cannot be bound is of no use.
LocalAddress(a) == IF IsLocal(a) THEN a ELSE "any"

\* main: the address that the socket is bound to replaces an unknown one.
Fallback(s, a) == IF a = "any" /\ Standalone THEN bindaddr[s] ELSE a

\* A request, sent to address a, arrives on socket s.  The kernel may drop or cut the
\* control data, and the test socket of address_is_local may fail: lost.
Receive(s, a, lost) ==
    /\ spc = "ready" /\ fd[s] = "bound"
    /\ bindaddr[s] = "addr" => a = "addr"
    /\ pktinfo' = AskPktinfo(s)
    /\ sentTo' = a /\ unknown' = lost
    /\ myaddr' = Fallback(s, IF s \in pktinfo' /\ ~lost THEN LocalAddress(a) ELSE "any")
    /\ from' = s /\ before' = from
    /\ UNCHANGED <<spc, conf, ai_fam, fd, bindaddr, bindport, v6only, cwd, mapsRead, pidAt>>

\* recvmsg has nothing after all: once again.
ReceiveAgain(s) ==
    /\ spc = "ready" /\ fd[s] = "bound"
    /\ pktinfo' = AskPktinfo(s)
    /\ UNCHANGED <<spc, conf, ai_fam, fd, bindaddr, bindport, v6only, cwd, mapsRead, pidAt,
                   from, before, sentTo, unknown, myaddr>>

\* Any other error of recvmsg, and a sender that is neither IPv4 nor IPv6.
ReceiveFails == spc = "ready" /\ ExitMain

-----------------------------------------------------------------------------
StartupStart ==
    /\ spc = "options"
    /\ fd = [s \in Families |-> "none"] /\ bindaddr = [s \in Families |-> "any"]
    /\ bindport = [s \in Families |-> 0] /\ v6only = "unset"
    /\ cwd = "start" /\ mapsRead = {} /\ pidAt = "none"
    /\ from = 0 /\ before = 0 /\ pktinfo = {}
    /\ sentTo = "none" /\ unknown = FALSE /\ myaddr = "none"

StartupInit ==
    /\ conf \in CommandLine
    /\ ai_fam = conf.family
    /\ StartupStart

StartupNext ==
    \/ BadOption \/ EnterDirectory \/ LoadRules \/ NotStarted \/ InheritSocket
    \/ OpenSockets \/ NoSocket \/ Ipv6SocketFails \/ ChooseFamily \/ BadAddress
    \/ \E got \in SUBSET Families : Resolve(got) \/ Bind(got)
    \/ NotResolved \/ PortKept \/ ChoosePort \/ BadPort \/ NotBound
    \/ Daemonize \/ NotDaemon \/ WritePidfile \/ Reload \/ ReloadFails \/ ReceiveFails
    \/ \E s \in Families :
         \/ ReceiveAgain(s)
         \/ \E a \in {"addr", "other", "group"}, lost \in BOOLEAN : Receive(s, a, lost)

-----------------------------------------------------------------------------
(* Properties.                                                              *)

\* An IPv6 socket that is bound to all addresses gets IPv4 requests too, unless
\* IPV6_V6ONLY is set; whether it does then is up to the system.
HearsIpv4 ==
    \/ fd[4] = "bound"
    \/ fd[6] = "bound" /\ bindaddr[6] = "any" /\ v6only # "set"

\* The port that -a gives, in 16 bits, or 69 when it gives none.  But set_sock_addr has
\* wiped the 69 when -a names an address (tftpsubs.c:319), and nothing brings it back when
\* the colon has nothing after it or the services database does not know tftp
\* (tftpd.c:681, 698-699): then the server is on any port that is free.
PortAsAsked(s) ==
    CASE conf.port = EmptyPort -> bindport[s] = IF NamesAddress THEN 0 ELSE IPPORT_TFTP
      [] conf.port = TftpPort -> bindport[s] = IPPORT_TFTP \/ (NamesAddress /\ bindport[s] = 0)
      [] OTHER -> bindport[s] = PortFound

\* Whatever failed on the way (tftpd.c:554-741), a server that reaches its loop listens:
\* on IPv4 unless it was told not to, and on no socket that -4, -6 or the address excludes.
\* With -6, or an IPv6 address in -a, no IPv4 request reaches it, unless setsockopt failed
\* or -a [::] came without -6 (tftpd.c:719-722).
ListensAsAsked ==
    LET listens == {s \in Families : fd[s] = "bound"}
    IN  spc = "ready" /\ Standalone =>
            /\ listens # {}
            /\ conf.family # 0 => listens = {conf.family}
            /\ conf.addr = "v4" => listens = {4}
            /\ conf.addr \in {"v6", "any6"} => listens = {6}
            /\ conf.family = 0 /\ conf.addr \notin {"v6", "any6"} => 4 \in listens
            /\ conf.family = 6 \/ conf.addr = "v6" => ~HearsIpv4 \/ v6only = "failed"
            /\ \A s \in listens : bindaddr[s] = AddrAsked /\ PortAsAsked(s)

\* "we must not chdir, since we are already in the proper directory" (tftpd.c:743-744): with
\* -s the children's chroot(".") is the directory that is served; what SIGHUP reads again
\* is the file that was read at the start, with -s, -L or an absolute name, and the pid file
\* is removed where it was written.
PathsKept ==
    spc = "ready" =>
        /\ conf.secure => cwd = "served"
        /\ conf.secure \/ conf.mode # "daemon" \/ conf.map = "absolute" =>
             Cardinality(mapsRead) <= 1
        /\ pidAt \in {"none", cwd}

\* "some TFTP clients consider it an error to get the reply from another IP address"
\* (recvfrom.c:14-16): a child never answers from an address that is not local; on a socket
\* that is bound to an address it answers from there; and it answers from the local address
\* that the client used, as soon as two requests of the same family came in a row.
AnswersFromAsked ==
    from # 0 =>
        /\ IsLocal(myaddr)
        /\ Standalone /\ bindaddr[from] = "addr" => myaddr = "addr"
        /\ ~unknown /\ before = from /\ sentTo # "group" => myaddr = sentTo

=============================================================================
