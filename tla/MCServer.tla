------------------------------ MODULE MCServer ------------------------------
(***************************************************************************)
(* The parts of the server that share no variable, side by side: how it    *)
(* starts, how a child gets its port, a file name is rewritten, a file is  *)
(* opened, options are read and text is converted.  A behaviour runs one   *)
(* of them and leaves the others where they begin.                         *)
(***************************************************************************)
EXTENDS Startup, PortBind, Remap, Request, Options, Netascii

\* Port ranges of -R: none, one that counts as none, one at the upper limit.
MCRanges == {<<0, 0>>, <<0, 2>>, <<65532, 65534>>}

(* Map files: short ones, of lines that differ in their flags.              *)

\* Where the patterns lead: round through the names, or to and fro.
Round == [a |-> "b", b |-> "c", c |-> "a"]
ToAndFro == [a |-> "b", b |-> "a", c |-> "c"]

MCLine(letters, mode, match, to, pattern) ==
    [letters |-> letters, mode |-> mode, regex |-> "good", match |-> match,
     to |-> to, pattern |-> pattern]

MCLines ==
    {MCLine({"r"}, "any", {"a", "b"}, Round, "text"),
     MCLine({"r", "g"}, "any", {"a", "b"}, Round, "text"),
     MCLine({"r", "g"}, "G", {"a", "b"}, ToAndFro, "x"),
     MCLine({"r", "s"}, "any", {"a", "c"}, ToAndFro, "text"),
     MCLine({"r", "g", "s"}, "P", {"b"}, Round, "text"),
     MCLine({"g", "s"}, "any", {"c"}, Round, "none"),
     MCLine({"r", "e"}, "G", {"b"}, Round, "text"),
     MCLine({"a"}, "P", {"c"}, Round, "none"),
     MCLine({"a", "~"}, "any", {"a", "b"}, Round, "text"),
     MCLine({"a", "s"}, "any", {"b"}, Round, "text"),
     [MCLine({"r"}, "any", {"a"}, Round, "text") EXCEPT !.regex = "bad"],
     [MCLine({}, "any", {"a"}, Round, "none") EXCEPT !.regex = "blank"]}

\* The command line of a server whose start is not looked at.
MCConf == CHOOSE c \in CommandLine : c.mode # "inetd"

-----------------------------------------------------------------------------
VARIABLE part       \* the part that runs

Parts == {"startup", "ports", "remap", "request", "options", "netascii"}

vars == <<part, startup, ports, remap, requestVars, optionsVars, conversion>>

\* A part that does not run begins in one state; inetd's server reads no option that is
\* about sockets or the pid file.
Init ==
    /\ part \in Parts
    /\ StartupInit /\ (part # "startup" => conf = MCConf)
    /\ ~Standalone => conf.addr = "none" /\ conf.family = 0 /\ ~conf.pidfile
    /\ PortsInit /\ (part # "ports" => range = <<0, 0>>)
    /\ RemapInit /\ (part # "remap" => mapLines = <<>>)
    /\ RequestInit /\ (part # "request" => \A f \in Files : ~file[f].exists)
    /\ OptionsInit
    /\ ConversionInit
    /\ part # "netascii" => /\ source = <<>> /\ cpc = "fill"
                            /\ seg = CHOOSE n \in SegSizes : TRUE

Next ==
    \/ /\ part = "startup" /\ StartupNext
       /\ UNCHANGED <<part, ports, remap, requestVars, optionsVars, conversion>>
    \/ /\ part = "ports" /\ PortsNext
       /\ UNCHANGED <<part, startup, remap, requestVars, optionsVars, conversion>>
    \/ /\ part = "remap" /\ RemapNext
       /\ UNCHANGED <<part, startup, ports, requestVars, optionsVars, conversion>>
    \/ /\ part = "request" /\ RequestNext
       /\ UNCHANGED <<part, startup, ports, remap, optionsVars, conversion>>
    \/ /\ part = "options" /\ OptionsNext
       /\ UNCHANGED <<part, startup, ports, remap, requestVars, conversion>>
    \/ /\ part = "netascii" /\ ConversionNext
       /\ UNCHANGED <<part, startup, ports, remap, requestVars, optionsVars>>

\* A child that computes, or calls bind, goes on.
Spec ==
    /\ Init /\ [][Next]_vars
    /\ WF_remap(part = "remap" /\ RewriteStep)
    /\ \A k \in Seekers : WF_ports(part = "ports" /\ SeekStep(k))

\* The types of the parts that have one, see RequestTypeOK and OptionsTypeOK.
TypeOK == RequestTypeOK /\ OptionsTypeOK

=============================================================================
