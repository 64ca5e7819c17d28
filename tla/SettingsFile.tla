---------------------------- MODULE SettingsFile ----------------------------
(***************************************************************************)
(* reusedlib.c, setup_config_file: the configuration file of the client or *)
(* of the server, as the settings libconfig hands over.                    *)
(***************************************************************************)
EXTENDS ConfigValue

CONSTANT Files      \* what the file may be

VARIABLE file       \* client_config.cfg or server_config.cfg

\* A file: absent, unreadable or not a configuration, or a sequence of settings
\* [name, type, value, sval].
NoFile == [state |-> "absent", settings |-> << >>]
BadFile == [state |-> "bad", settings |-> << >>]
FileOf(settings) == [state |-> "good", settings |-> settings]

\* The parser refuses a file that names a setting twice.
ASSUME FilesAssumption ==
    \A f \in Files :
        \/ f \in {NoFile, BadFile}
        \/ /\ f = FileOf(f.settings)
           /\ f.settings \in Seq([name : STRING, type : Types, value : Int, sval : Seq(STRING)])
           /\ \A i, j \in 1..Len(f.settings) : f.settings[i].name = f.settings[j].name => i = j
           /\ \A i \in 1..Len(f.settings) :
                  /\ f.settings[i].type = "BOOL" => f.settings[i].value \in {0, 1}
                  /\ f.settings[i].type = "INT" => f.settings[i].value \in INT32_MIN..INT32_MAX

\* The settings of a good file: members of the root, in order.
ParsedFile ==
    [s \in 1..(Len(file.settings) + 1) |->
        IF s = 1
        THEN [config_setting_t(NULL, << >>, "GROUP")
                 EXCEPT !.list = [i \in 1..Len(file.settings) |-> i + 1]]
        ELSE LET read == file.settings[s - 1]
             IN  [config_setting_t(1, <<read.name>>, read.type)
                     EXCEPT !.value = read.value, !.sval = read.sval]]

\* setup_config_file returns its config_t by value, and every setting goes on
\* pointing to the local it was read into: the options a conversion asks for
\* are whatever the stack holds there.
DanglingConfigs == [options : {{}, {"AUTOCONVERT"}}, root : {1}]

\* What config_lookup_<type> may leave in a variable that holds old.
LookupInt(name, old) ==
    {OrElse(config_lookup_int(ParsedFile, cfg, <<<<"name", name>>>>), old) : cfg \in DanglingConfigs}
LookupBool(name, old) ==
    {OrElse(config_lookup_bool(ParsedFile, cfg, <<<<"name", name>>>>), old) : cfg \in DanglingConfigs}
LookupString(name, old) ==
    {OrElse(config_lookup_string(ParsedFile, cfg, <<<<"name", name>>>>), old) : cfg \in DanglingConfigs}

\* The settings called name in the file, none when it is not a good one.
SettingsNamed(name) ==
    {file.settings[i] : i \in {j \in 1..Len(file.settings) : file.settings[j].name = name}}

\* The values of the settings called name that have the given type.
ValuesNamed(name, type) ==
    {IF type = "STRING" THEN s.sval ELSE s.value :
        s \in {m \in SettingsNamed(name) : m.type = type}}

\* Both programs default to the same group.
DEFAULT_MANYCAST_ADDRESS == <<"224.0.1.1">>
=============================================================================
