--------------------------- MODULE ClientOptions ----------------------------
(***************************************************************************)
(* sntpclient.c, get_client_settings: the defaults, then the configuration *)
(* file, then the command line.                                            *)
(*                                                                         *)
(* An argument of the command line is an option [opt, arg], an option that *)
(* getopt rejects [opt |-> "?", arg |-> <its letter>], or an operand       *)
(* [opt |-> "operand"].  The argument of an option is the number atoi makes *)
(* of it, or a host.                                                       *)
(***************************************************************************)
EXTENDS SettingsFile

CONSTANTS
    CommandLines,   \* the sequences of arguments
    Leftovers       \* what an uninitialised int of the stack may hold

\* getopt knows the letters u, m, p, d and r.
ASSUME OptionsAssumption ==
    \A line \in CommandLines :
        /\ Len(line) \in Nat /\ line = [i \in 1..Len(line) |-> line[i]]
        /\ \A i \in 1..Len(line) : line[i].opt \in {"u", "m", "p", "d", "r", "?", "operand"}

VARIABLES
    argv,       \* the arguments, which getopt reorders
    optind,     \* getopt: the next argument
    settings,   \* c_set
    given,      \* parse_command_line: uni_set and many_set, as a set
    opc         \* "config", "options", "done", "exited", "aborted"

optionVars == <<argv, optind, file, settings, given, opc>>

\* server_host is never given a default.
Unset == "uninitialised pointer"

DEFAULT_SERVER_PORT == 123
DEFAULT_DEBUG == 0
DEFAULT_RECV_TIMEOUT == 10
DEFAULT_MAX_UNICAST_RETRY_LIMIT == 2
DEFAULT_MIN_POLL_WAIT == 15
DEFAULT_REPEAT_UPDATES_ENABLED == 0
DEFAULT_REPEAT_UPDATE_LIMIT == 4
DEFAULT_MANYCAST_WAIT_TIME == 2

\* The defaults; server_host and manycast_enabled have none.
client_settings(leftover) ==
    [server_host                  |-> Unset,
     server_port                  |-> DEFAULT_SERVER_PORT,
     debug                        |-> DEFAULT_DEBUG,
     recv_uni_timeout             |-> DEFAULT_RECV_TIMEOUT,
     max_unicast_retries          |-> DEFAULT_MAX_UNICAST_RETRY_LIMIT,
     poll_wait                    |-> DEFAULT_MIN_POLL_WAIT,
     timed_repeat_updates_enabled |-> DEFAULT_REPEAT_UPDATES_ENABLED,
     timed_repeat_updates_limit   |-> DEFAULT_REPEAT_UPDATE_LIMIT,
     manycast_enabled             |-> leftover,
     manycast_wait_time           |-> DEFAULT_MANYCAST_WAIT_TIME,
     manycast_address             |-> DEFAULT_MANYCAST_ADDRESS]

OptionsInit ==
    /\ argv \in CommandLines
    /\ optind = 1
    /\ file \in Files
    /\ \E leftover \in Leftovers : settings = client_settings(leftover)
    /\ given = {}
    /\ opc = "config"

\* Every setting the file is asked for, each with its own look at the stack.
parse_config_file ==
    \E a \in LookupString("manycast_address", settings.manycast_address),
       w \in LookupInt("manycast_wait_time", settings.manycast_wait_time),
       p \in LookupInt("server_port", settings.server_port),
       t \in LookupInt("recv_uni_timeout", settings.recv_uni_timeout),
       r \in LookupInt("max_unicast_retries", settings.max_unicast_retries),
       i \in LookupInt("poll_wait", settings.poll_wait) :
           settings' = [settings EXCEPT !.manycast_address = a, !.manycast_wait_time = w,
                                        !.server_port = p, !.recv_uni_timeout = t,
                                        !.max_unicast_retries = r, !.poll_wait = i]

\* A file that is there but cannot be read or parsed ends the client.
ReadConfigFile ==
    /\ opc = "config"
    /\ \/ file.state = "absent" /\ opc' = "options" /\ UNCHANGED settings
       \/ file.state = "bad" /\ opc' = "exited" /\ UNCHANGED settings
       \/ file.state = "good" /\ opc' = "options" /\ parse_config_file
    /\ UNCHANGED <<argv, optind, file, given>>

IsOption(a) == a.opt # "operand"

\* The options among the arguments of a line, or the operands, in their order.
Among(line, options) ==
    LET among[i \in 0..Len(line)] ==
            IF i = 0 THEN << >>
            ELSE IF IsOption(line[i]) <=> options THEN Append(among[i - 1], line[i]) ELSE among[i - 1]
    IN  among[Len(line)]

\* getopt: the next option is the first at or after optind; operands it passes
\* over are left for later.  With no option left it puts the operands last,
\* sets optind to the first of them and returns -1.
NextOptions == {i \in optind..Len(argv) : IsOption(argv[i])}

\* Fault: -p does not replace a port that was set before.
Applied_first(s, a) ==
    CASE a.opt = "u" -> [s EXCEPT !.server_host = a.arg]
      [] a.opt = "m" -> [s EXCEPT !.manycast_enabled = 1]
      [] a.opt = "p" -> [s EXCEPT !.server_port = IF @ = DEFAULT_SERVER_PORT THEN a.arg ELSE @]
      [] a.opt = "d" -> [s EXCEPT !.debug = 1]
      [] a.opt = "r" -> [s EXCEPT !.timed_repeat_updates_enabled = 1, !.timed_repeat_updates_limit = a.arg]

\* The switch of parse_command_line, for the options it knows.
Applied(s, a) ==
    CASE a.opt = "u" -> [s EXCEPT !.server_host = a.arg]
      [] a.opt = "m" -> [s EXCEPT !.manycast_enabled = 1]
      [] a.opt = "p" -> [s EXCEPT !.server_port = a.arg]
      [] a.opt = "d" -> [s EXCEPT !.debug = 1]
      [] a.opt = "r" -> [s EXCEPT !.timed_repeat_updates_enabled = 1, !.timed_repeat_updates_limit = a.arg]

\* '?': a missing argument of -r is reported; everything else falls through to
\* abort().
TakeOption ==
    /\ opc = "options"
    /\ NextOptions # {}
    /\ LET i == CHOOSE j \in NextOptions : \A k \in NextOptions : j <= k
           a == argv[i]
       IN  /\ optind' = i + 1
           /\ IF a.opt = "?"
              THEN /\ opc' = IF a.arg = "r" THEN "exited" ELSE "aborted"
                   /\ UNCHANGED <<settings, given>>
              ELSE /\ settings' = Applied(settings, a)
                   /\ given' = given \cup ({a.opt} \cap {"u", "m"})
                   /\ UNCHANGED opc
    /\ UNCHANGED <<argv, file>>

\* Only operands are left and getopt returns -1, which the loop takes no
\* notice of: it ends only when optind reaches argc.
SpinOnOperands ==
    /\ opc = "options"
    /\ NextOptions = {}
    /\ optind <= Len(argv)
    /\ argv' = Among(argv, TRUE) \o Among(argv, FALSE)
    /\ optind' = Len(Among(argv, TRUE)) + 1
    /\ UNCHANGED <<file, settings, given, opc>>

\* Fault: the last argument is still expected when the loop should end.
AllTaken_offByOne == optind > Len(argv) + 1

\* Not (optind < argc).
AllTaken == optind > Len(argv)

ModesClash == given = {"u", "m"}

OptionsOver ==
    /\ opc = "options"
    /\ AllTaken
    /\ opc' = IF ModesClash THEN "exited" ELSE "done"
    /\ UNCHANGED <<argv, optind, file, settings, given>>

OptionsNext == ReadConfigFile \/ TakeOption \/ SpinOnOperands \/ OptionsOver

\* The client is one process, which runs on.
OptionsSpec == OptionsInit /\ [][OptionsNext]_optionVars /\ WF_optionVars(OptionsNext)
-----------------------------------------------------------------------------
Given(opt) == \E i \in 1..Len(argv) : argv[i].opt = opt

\* The argument of the last option opt, which is given.
LastOf(opt) ==
    argv[CHOOSE i \in 1..Len(argv) :
             argv[i].opt = opt /\ \A j \in (i + 1)..Len(argv) : argv[j].opt # opt].arg

\* What a setting of the file may be read as by config_lookup_int: a number too
\* large for an int is 0, and whether a float counts is left to the stack.
ReadAsInt(s, default) ==
    CASE s.type \in {"INT", "INT64"} -> {IF s.value \in INT32_MIN..INT32_MAX THEN s.value ELSE 0}
      [] s.type = "FLOAT" -> {IntOf(s.value), default}
      [] OTHER -> {default}

\* What the file says of a setting, or else the default.
IntInFile(name, default) ==
    IF SettingsNamed(name) = {} THEN {default}
    ELSE UNION {ReadAsInt(s, default) : s \in SettingsNamed(name)}
ValueInFile(name, type, default) ==
    IF ValuesNamed(name, type) = {} THEN {default} ELSE ValuesNamed(name, type)

\* The settings that no option gives.
TakenFromFile(s) ==
    /\ s.recv_uni_timeout \in IntInFile("recv_uni_timeout", DEFAULT_RECV_TIMEOUT)
    /\ s.max_unicast_retries \in IntInFile("max_unicast_retries", DEFAULT_MAX_UNICAST_RETRY_LIMIT)
    /\ s.poll_wait \in IntInFile("poll_wait", DEFAULT_MIN_POLL_WAIT)
    /\ s.manycast_wait_time \in IntInFile("manycast_wait_time", DEFAULT_MANYCAST_WAIT_TIME)
    /\ s.manycast_address \in ValueInFile("manycast_address", "STRING", DEFAULT_MANYCAST_ADDRESS)

\* A client that goes on to poll has the port of the last -p, else the file's,
\* else the default; the timeout, the retries, the waits and the group, which no
\* option gives, of the file, else the default; what -r, -d, -u and -m say where
\* they are given, the last of each; and it was not told both a server and to find
\* one.  Of the repeat mode and debug without -r and -d it says nothing: that is
\* DocumentedPrecedence.
OptionPrecedence ==
    opc = "done" =>
        /\ settings.server_port \in
               IF Given("p") THEN {LastOf("p")} ELSE IntInFile("server_port", DEFAULT_SERVER_PORT)
        /\ TakenFromFile(settings)
        /\ Given("r") => /\ settings.timed_repeat_updates_enabled = 1
                         /\ settings.timed_repeat_updates_limit = LastOf("r")
        /\ Given("d") => settings.debug = 1
        /\ ~ (Given("u") /\ Given("m"))
        /\ Given("u") => settings.server_host = LastOf("u")
        /\ Given("m") => settings.manycast_enabled = 1

\* "precedence order(from high to low): - commandline - config file - defaults",
\* says the comment on get_client_settings, also of the repeat mode, its limit and
\* debug, for which client_config.cfg has settings.  parse_config_file never asks
\* for them, so a file that switches them on is not heard.
DocumentedPrecedence ==
    opc = "done" =>
        /\ ~ Given("d") => settings.debug \in ValueInFile("debug", "BOOL", DEFAULT_DEBUG)
        /\ ~ Given("r") =>
               /\ settings.timed_repeat_updates_enabled \in
                      ValueInFile("timed_repeat_updates_enabled", "BOOL", DEFAULT_REPEAT_UPDATES_ENABLED)
               /\ settings.timed_repeat_updates_limit \in
                      IntInFile("timed_repeat_updates_limit", DEFAULT_REPEAT_UPDATE_LIMIT)

\* The options are taken to the end in finitely many steps, unless an operand
\* comes after the last of them: then the loop never ends.
OptionsParsed ==
    (argv # << >> => IsOption(argv[Len(argv)])) ~> opc \in {"done", "exited", "aborted"}
=============================================================================
