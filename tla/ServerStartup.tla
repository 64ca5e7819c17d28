--------------------------- MODULE ServerStartup ----------------------------
(***************************************************************************)
(* sntpserver.c, main up to its loop: the settings, the socket, and the    *)
(* membership of the manycast group.  The loop is SntpServer.              *)
(***************************************************************************)
EXTENDS SettingsFile

CONSTANT
    PortMod     \* 2^16: htons keeps the low 16 bits

ASSUME StartupAssumption == PortMod \in Nat \ {0}

VARIABLES
    s_set,      \* struct server_settings
    spc,        \* "config", "socket", "manycast", "serving", "exited"
    bound,      \* kernel: the port the socket is bound to, if any
    joined      \* kernel: the groups the socket is a member of

startupVars == <<file, s_set, spc, bound, joined>>

DEFAULT_debug == 0
DEFAULT_MANYCAST_ENABLED == 0

\* DEFAULT_SERVER_PORT of sntpserver.h.
DEFAULT_LISTEN_PORT == 6001

server_settings ==
    [server_port      |-> DEFAULT_LISTEN_PORT,
     debug            |-> DEFAULT_debug,
     manycast_enabled |-> DEFAULT_MANYCAST_ENABLED,
     manycast_address |-> DEFAULT_MANYCAST_ADDRESS]

StartupInit ==
    /\ file \in Files
    /\ s_set = server_settings
    /\ spc = "config"
    /\ bound = {}
    /\ joined = {}

\* The address is only looked up when manycast is enabled.
GroupAddresses(old, enabled) ==
    IF enabled # 0 THEN LookupString("manycast_address", old.manycast_address)
    ELSE {old.manycast_address}

\* parse_config_file of sntpserver.c.
parse_server_config_file(old) ==
    UNION {{[server_port |-> p, debug |-> d, manycast_enabled |-> m, manycast_address |-> a] :
                a \in GroupAddresses(old, m),
                p \in LookupInt("server_port", old.server_port),
                d \in LookupBool("debug", old.debug)} :
           m \in LookupBool("manycast_enabled", old.manycast_enabled)}

get_server_settings ==
    /\ spc = "config"
    /\ \/ file.state = "absent" /\ spc' = "socket" /\ UNCHANGED s_set
       \/ file.state = "bad" /\ spc' = "exited" /\ UNCHANGED s_set
       \/ file.state = "good" /\ spc' = "socket" /\ s_set' \in parse_server_config_file(s_set)
    /\ UNCHANGED <<file, bound, joined>>

\* socket, setsockopt or bind fails and main exits; or the socket is bound.
initialise_server ==
    /\ spc = "socket"
    /\ \/ spc' = "exited" /\ UNCHANGED bound
       \/ /\ bound' = {s_set.server_port % PortMod}
          /\ spc' = IF s_set.manycast_enabled # 0 THEN "manycast" ELSE "serving"
    /\ UNCHANGED <<file, s_set, joined>>

\* Fault: a failure to join the group does not stop the server.
MembershipRefused_ignored == spc' = "serving"

MembershipRefused == spc' = "exited"

\* inet_addr of a text that is no address, or a refused membership: main exits.
setup_manycast ==
    /\ spc = "manycast"
    /\ \/ MembershipRefused /\ UNCHANGED joined
       \/ joined' = joined \cup {s_set.manycast_address} /\ spc' = "serving"
    /\ UNCHANGED <<file, s_set, bound>>

StartupNext == get_server_settings \/ initialise_server \/ setup_manycast
StartupSpec == StartupInit /\ [][StartupNext]_startupVars
-----------------------------------------------------------------------------
\* A server that serves is a member of exactly the groups its file asks for:
\* none unless the file switches manycast on with a boolean, and then the
\* file's group, or the default one when the file names none.
GroupsAsConfigured ==
    spc = "serving" =>
        joined = IF 1 \notin ValuesNamed("manycast_enabled", "BOOL") THEN {}
                 ELSE IF ValuesNamed("manycast_address", "STRING") = {} THEN {DEFAULT_MANYCAST_ADDRESS}
                 ELSE ValuesNamed("manycast_address", "STRING")
=============================================================================
