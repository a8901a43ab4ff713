------------------------------ MODULE PortBind ------------------------------
(***************************************************************************)
(* Children that look for a local port: pick_port_bind (tftpsubs.c), with  *)
(* a port range (option -R) or without.  Ports are taken and given back    *)
(* by other children and other programs while a child goes through them.   *)
(***************************************************************************)
EXTENDS Integers, FiniteSets

CONSTANTS
    Seekers,    \* children
    Ranges,     \* pairs portrange_from, portrange_to that main lets by
    Nobody,     \* owner of a free port
    Stranger    \* owner of a port that another program has

ASSUME PortBindAssumption ==
    /\ Nobody \notin Seekers /\ Stranger \notin Seekers \cup {Nobody}
    /\ \A r \in Ranges : r[1] \in Nat /\ r[2] \in Nat /\ r[1] <= r[2] /\ r[2] < 65535

VARIABLES
    range,      \* portrange_from and portrange_to
    owner,      \* who has each port of the range
    seek,       \* for each child: where pick_port_bind is
    firstport, port,
    tried       \* for each child: how often it tried each port, up to Often

ports == <<range, owner, seek, firstport, port, tried>>

From == range[1]
To == range[2]

\* port_range: both ends are given; -R 0:n counts as no range.
InRange == From # 0 /\ To # 0
RangePorts == IF InRange THEN From .. To ELSE {}

\* Bound: tries of a port are counted up to this.
Often == 2

-----------------------------------------------------------------------------
\* The first port is a random one of the range, or 0.
Start(k) ==
    /\ seek[k] = "start"
    /\ \E p \in IF InRange THEN RangePorts ELSE {0} :
         /\ firstport' = [firstport EXCEPT ![k] = p]
         /\ port' = [port EXCEPT ![k] = p]
    /\ seek' = [seek EXCEPT ![k] = "try"]
    /\ UNCHANGED <<range, owner, tried>>

\* Faulty variant: the last port of the range is never tried.
NextPortShort(p) == IF p + 1 >= To THEN From ELSE p + 1

NextPort(p) == IF p + 1 > To THEN From ELSE p + 1

\* Faulty variant: the search ends with the range.
RoundOverAtEnd(k, p) == p = From

\* while (port != firstport)
RoundOver(k, p) == p = firstport[k]

\* bind finds the port free; with port 0 the kernel picks one outside of the range.
BindSucceeds(k) ==
    /\ seek[k] = "try"
    /\ InRange => owner[port[k]] = Nobody
    /\ owner' = IF InRange THEN [owner EXCEPT ![port[k]] = k] ELSE owner
    /\ seek' = [seek EXCEPT ![k] = "bound"]
    /\ UNCHANGED <<range, firstport, port, tried>>

\* EADDRINUSE or EINVAL: the next port, until the first one comes again.
BindInUse(k) ==
    /\ seek[k] = "try" /\ InRange /\ owner[port[k]] # Nobody
    /\ tried' = [tried EXCEPT ![k][port[k]] = IF @ = Often THEN @ ELSE @ + 1]
    /\ port' = [port EXCEPT ![k] = NextPort(@)]
    /\ seek' = [seek EXCEPT ![k] = IF RoundOver(k, NextPort(port[k])) THEN "full" ELSE "try"]
    /\ UNCHANGED <<range, owner, firstport>>

\* Any other error, and any at all without a range: give up at once.
BindFails(k) ==
    /\ seek[k] = "try"
    /\ seek' = [seek EXCEPT ![k] = "error"]
    /\ UNCHANGED <<range, owner, firstport, port, tried>>

\* The child exits after its transfer.
Unbind(k) ==
    /\ seek[k] = "bound"
    /\ seek' = [seek EXCEPT ![k] = "gone"]
    /\ owner' = [p \in DOMAIN owner |-> IF owner[p] = k THEN Nobody ELSE owner[p]]
    /\ UNCHANGED <<range, firstport, port, tried>>

\* Another program takes a port or gives one back.
StrangerActs(p) ==
    /\ owner[p] \in {Nobody, Stranger}
    /\ owner' = [owner EXCEPT ![p] = IF @ = Nobody THEN Stranger ELSE Nobody]
    /\ UNCHANGED <<range, seek, firstport, port, tried>>

-----------------------------------------------------------------------------
PortsInit ==
    /\ range \in Ranges
    /\ owner \in [RangePorts -> {Nobody, Stranger}]
    /\ seek = [k \in Seekers |-> "start"]
    /\ firstport = [k \in Seekers |-> 0] /\ port = [k \in Seekers |-> 0]
    /\ tried = [k \in Seekers |-> [p \in RangePorts |-> 0]]

SeekStep(k) ==
    Start(k) \/ BindSucceeds(k) \/ BindInUse(k) \/ BindFails(k)

PortsNext ==
    \/ \E k \in Seekers : SeekStep(k) \/ Unbind(k)
    \/ \E p \in RangePorts : StrangerActs(p)

-----------------------------------------------------------------------------
(* Properties.                                                              *)

\* A child gives up for want of a port only when it has found every port of the range in
\* use, each once, whatever port it began with (tftpsubs.c:281-299): a port that stays
\* free is found.
SearchExhaustive ==
    \A k \in Seekers : seek[k] = "full" => \A p \in RangePorts : tried[k][p] = 1

\* The search ends, however the ports change hands meanwhile.
SearchEnds ==
    \A k \in Seekers : seek[k] = "try" ~> seek[k] # "try"

=============================================================================
