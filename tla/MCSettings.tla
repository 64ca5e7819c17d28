----------------------------- MODULE MCSettings -----------------------------
(***************************************************************************)
(* An instance of ClientOptions and of ServerStartup for TLC: the client   *)
(* and the server side by side.                                            *)
(***************************************************************************)
EXTENDS ClientOptions, ServerStartup

Opt(o, a) == [opt |-> o, arg |-> a]

\* Each option, two ports, one of them what atoi makes of a text that is no
\* number, the two kinds of rejected option, and an operand.
Arguments == {Opt("u", "s1"), Opt("m", 0), Opt("p", 7), Opt("p", 0), Opt("d", 0), Opt("r", 3),
              Opt("?", "r"), Opt("?", "x"), Opt("operand", 0)}

\* -r without an argument can only come last.
MCCommandLines ==
    {a \in UNION {[1..n -> Arguments] : n \in 0..2} :
        \A i \in 1..(Len(a) - 1) : a[i] # Opt("?", "r")}
    \cup [1..3 -> {Opt("u", "s1"), Opt("m", 0), Opt("p", 7), Opt("operand", 0)}]

Setting(name, type, v) == [name |-> name, type |-> type, value |-> v, sval |-> << >>]
Text(name, t) == [name |-> name, type |-> "STRING", value |-> 0, sval |-> <<t>>]

\* The client's files: ports of several types, one of them too large for an int
\* and one a float too large; the settings no option gives; and those that have an
\* option.
ClientFiles ==
    {NoFile, BadFile}
    \cup {FileOf(<<Setting("server_port", t, 5), Setting("debug", "BOOL", 1)>>) : t \in {"INT", "FLOAT"}}
    \cup {FileOf(<<Setting("server_port", "FLOAT", v)>>) : v \in {-3, 64}}
    \cup {FileOf(<<Setting("server_port", "INT64", 29), Setting("poll_wait", "FLOAT", 3)>>),
          FileOf(<<Setting("server_port", "BOOL", 1), Setting("recv_uni_timeout", "INT", 4),
                   Setting("max_unicast_retries", "INT64", 6)>>),
          FileOf(<<Text("manycast_address", "239.1.1.1"), Setting("manycast_wait_time", "INT", 8)>>),
          FileOf(<<Setting("timed_repeat_updates_enabled", "BOOL", 1),
                   Setting("timed_repeat_updates_limit", "INT", 9)>>)}

\* The server's files, which have, or do not have, a switch, an address, a port.
Switches == {<< >>} \cup {<<Setting("manycast_enabled", t, v)>> : t \in {"BOOL", "INT"}, v \in {0, 1}}
Groups == {<< >>, <<Text("manycast_address", "239.1.1.1")>>, <<Setting("manycast_address", "INT", 3)>>}
PortsInServerFile ==
    {<< >>} \cup {<<Setting("server_port", t, v)>> : t \in {"INT", "INT64", "FLOAT"}, v \in {5, 9}}

ServerFiles == {NoFile, BadFile} \cup {FileOf(s \o g \o p) : s \in Switches, g \in Groups, p \in PortsInServerFile}

MCFiles == ClientFiles \cup ServerFiles

\* The cast of x86-64.
Indefinite(f, max) == -max - 1

\* Both programs, side by side on the same file.  To keep the run small, the files
\* of the server meet only a client without arguments, and the server waits for one.
BothInit == OptionsInit /\ StartupInit /\ (file \in ClientFiles \/ argv = << >>)
ClientStep == OptionsNext /\ UNCHANGED <<s_set, spc, bound, joined>>
ServerStep == argv = << >> /\ StartupNext /\ UNCHANGED <<argv, optind, settings, given, opc>>
BothNext == ClientStep \/ ServerStep

BothSpec == BothInit /\ [][BothNext]_<<optionVars, startupVars>> /\ WF_optionVars(ClientStep)
=============================================================================
