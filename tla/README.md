# TLA+ models and proofs for the SNTP client and server

This directory models the programs `sntpclient` and `sntpserver` (C, one
thread each, UDP) and the library libconfig 1.5 they read their configuration
files with in TLA+, checks them with TLC on small instances and proves
most of the results with TLAPS for every value of the parameters. File and line
numbers refer to the sources in `src/`. `PROJECT.json` maps every definition to
the lines it models and lists runs, hazards, findings and theorems.

## 1. The system

| Component | Source | State | Operations |
|---|---|---|---|
| time conversion, offset arithmetic | `reusedlib.c:7-17`, `sntpclient.c:200-221,365-390` | none | Unix to NTP time and back, elapsed seconds, clock offset, error bound |
| packets | `sntptools.h:10-22`, `sntpclient.c:237-248,569-623`, `sntpserver.c:58-109` | none | build a request, build a reply, check a request, check a reply |
| send and receive | `sntptools.c` | the kernel's queues | `send_SNTP_packet`, `recieve_SNTP_packet` (stamps the arrival) |
| unicast client | `sntpclient.c:98-197,393-446` | socket, server address, `retry_count`, `poll_timer`, the last request | open a socket, look the host up, wait, send, listen, retry, report |
| client main loop | `sntpclient.c:7-95` | `counter`, `s_counter`, totals, `poll_timer` | repeat polls at intervals of `poll_wait`, average |
| server | `sntpserver.c:7-56` | `client_req` | start up, then receive, check, reply for ever |
| manycast client | `sntpclient.c:251-331` | `ntp_servers`, `s_count` | multicast a request, collect servers for a while |
| manycast server set-up | `sntpserver.c:179-190` | group membership | join the group |
| settings of client and server | `sntpclient.c:334-362,449-511`, `sntpserver.c:112-176` | settings structs | defaults, config file, command line |
| printing | `sntpclient.c:514-566`, `reusedlib.c:32-62` | `inet_ntoa`'s static buffer | text only |
| libconfig: settings | `libconfig-1.5/lib/libconfig.c` | `config_t`, the tree of `config_setting_t` | add, remove, set, get, look up, destroy; hooks |
| libconfig: parser and writer | `grammar.c`, `libconfig.c:159-400,556-734` | parser stacks, lookahead, `parse_context` | read tokens into settings, write settings |
| libconfig: scanner | `scanner.c`, `scanctx.c`, `strbuf.c` | input buffers, include stack, string buffer | text to tokens, include files |

Client and server interact by datagrams only. The client reads the clock at four
places that matter (request timestamp, `start_timer`, arrival of a reply, busy
waits), the server at two. Nothing is persisted. Each reads its configuration
file once, at start-up: `setup_config_file` has libconfig's scanner and parser
build a tree of settings, from which the known ones are looked up.

What is hard about it:

* the network delays, repeats, reorders and loses datagrams, so that a reply may
  arrive in a later attempt, or in a later poll on a new socket with the old port;
* the receive timeout races with a late reply, and a late reply uses up the next
  attempt;
* `poll_timer` is carried across polls, reset inside `unicast_mode`, and read
  before it was written if the first poll fails early;
* the clock is read separately for the packet, for the timer and by the kernel;
* NTP seconds wrap in 2036, the fraction wraps in the last microsecond of every
  second, and elapsed time is counted in whole seconds;
* error returns of `unicast_mode` keep their socket open;
* `inet_ntoa` results are kept or compared although they share one buffer, in
  the manycast client even as the name of the server to poll;
* settings without a default are read uninitialised, and an operand on the
  command line keeps the option loop going for ever;
* a token of a configuration file may be cut by the end of a buffer or of a read;
  included files interrupt others, to any nesting, and a parse error may come in
  the middle of them;
* libconfig's lists, stacks and buffers are reallocated at fixed sizes, and hooks
  have to be handed over once whatever takes their setting away.

What makes the components correct: a sample answers the request it is taken for;
offset +/- error bound contains the true offset; a server is not polled more often
than `poll_wait` allows; a poll sends at most `max_unicast_retries` requests; the
client ends; sockets are accounted for; every reply of the server answers one
valid request with timestamps in order. The manycast client polls a server it
heard from. Settings come from the command line, else the file, else the defaults;
for three of them the code does not do so (section 6).
The settings of libconfig are a tree in which every path finds its setting; the
parser accepts what the grammar generates and loses nothing of it; the scanner
sees each file as one text, and releases what it opened.

## 2. The modules

| Module | Models |
|---|---|
| `NtpTime` | times, the two conversions, timers, offset and error bound |
| `SntpPacket` | the packet and the four functions that build or check one |
| `SntpNetwork` | the clock and the datagrams in flight |
| `SntpServer` | `sntpserver.c` |
| `SntpClient` | `main` and `unicast_mode` of `sntpclient.c` |
| `SntpSystem` | client, servers, other vendors' servers and network composed; the properties of the client |
| `ServerLoad` | servers under packets of several machines; the properties of the server |
| `TimeExchange` | one exchange seen through its four clock readings |
| `TimePoll`, `PollRefinement` | what a run of the client promises, and that `SntpSystem` implements it |
| `ManycastClient`, `ManycastSystem` | the discovery, and its composition with the polls, the group and the network |
| `SettingsFile` | `setup_config_file`: a file as the settings libconfig finds in it |
| `ClientOptions`, `ServerStartup` | the client's settings; the server's settings, socket and group |
| `ConfigSetting`, `ConfigValue` | libconfig.c's functions on settings and values, as operators on a heap |
| `ConfigTree` | a program that calls these functions in any order |
| `ParseTables`, `ConfigParser` | grammar.c's tables and what is known of them; the parser, `__config_read` and the writer |
| `ConfigGrammar` | grammar.y's rules, and the parser's properties that compare with them |
| `ScanTables`, `ConfigScanner` | scanner.c's tables and what is known of them; the scanner with its buffers and include files |
| `ScanPatterns` | scanner.l's patterns, and the scanner's property that compares with them |
| `MC*` | instances for TLC |
| `*Proofs` | proofs, see section 5 |

`SntpClient` and `SntpServer` extend `SntpNetwork`, which extends `SntpPacket` and
`NtpTime`; `SntpSystem` composes the two, `ServerLoad` uses the server alone, and
`ManycastSystem` puts the discovery before the polls of `SntpSystem`.
`ConfigTree`, `ConfigParser` and `SettingsFile` are three users of the same
`ConfigValue`: the program that calls the library, the parser that builds a tree, and
the look-ups of client and server.

**Data.** Literals of the code are parameters: `Micros` (10^6), `FracMod` and
`SecMod` (2^32), `EpochDelta` (0x83AA7E80). The conversions are translated with
their rounding and their wrap-around; the formula of `FractionOf` in integers
agrees with the code's doubles for all 10^6 values of `tv_usec`, and so does that
of `UsecOf` on the fractions these give. Offsets are doubled instead of
halved. Packets keep the fields that some code reads back. A datagram carries two
history fields (`id`, `by`) for the properties; no action depends on them.

**Control.** A client action runs from one clock reading or network call to the
next. `cpc` says where the client is:

| `cpc` | place in the code | actions |
|---|---|---|
| `wait` | head of main's loop, its busy wait (lines 49-57) | `StartPoll` |
| `resolve` | `unicast_mode` after `initialise_socket` (113) | `ResolveServer` |
| `attempt` | head of the retry loop and its busy wait (126-140) | `GiveUp`, `CreateRequest` |
| `timer` | between `create_packet` and `start_timer` (145) | `start_timer` |
| `send` | before `send_SNTP_packet` (149) | `SendRequest` |
| `recv` | in `recvfrom` (163) | `ReceiveReply`, `ReceiveTimeout` |
| `exit` | main has returned | |

All error returns are taken: 2 (look-up), 3 (socket), 4 (retries), 8 (socket
option), and `sendto` failing. Receiving, checking, computing, closing the socket
and adding to main's totals is one action, as nothing else can observe it in
between. A busy wait is the guard of the action that follows it. Uninitialised
locals (`offset_total`, `error_bound_total`, `poll_timer`) start with any value of
the constant `Garbage`. `is_same_ipaddr` yields what two calls of `inet_ntoa` into
one buffer yield, in either order of evaluation.

The server has two actions per request, `ServeReceive` and `ServeReply`, because
the clock is read in each; `InitialiseServer` is start-up with its failures. Any
packet may be refused by `check_packet`, and a failed reply is dropped.

**Environment.** `SendOK` and `recieve_SNTP_packet` let a datagram be lost, kept
for later, or delivered again. Servers of other implementations
(`OtherServerReplies`) are external: they answer correctly but for the header
they show. Replies of a server may carry another of its addresses (`ReplyFrom`),
as the server's socket is bound to `INADDR_ANY`.

**Abstract specification.** `TimePoll` knows no clock, socket or datagram: a number
of polls is ordered, one after the other; each puts at most so many questions, and
ends with nothing or with the answer to the question it put last. `PollRefinement`
maps `SntpSystem` to it (`phase` from `cpc`, `polls` from `counter`, `asked` from
the requests made, `answer` from the sample), and `ImplementsTimePoll` says that
every step of the system is a step of `TimePoll` or changes nothing of it.

**Manycast.** `dpc` says where the discovery is; `cpc` keeps its meaning once
`dpc` is `done`. The string `server_host` points to is `inet_ntoa`'s buffer
(`InNtoaBuffer`), so that `AddressesOf` yields what is in the buffer when a poll looks
the host up. Every send and receive writes the buffer, as in the code.

**Settings.** A configuration file is absent, bad, or a sequence of settings. The run
`settings` has client and server start side by side on the same file (`BothSpec`): its steps are
the steps of `OptionsSpec` and of `StartupSpec`, about which the theorems are.
`DanglingConfigs`: `setup_config_file` returns its `config_t` by value while the
settings point to the local that is gone, so the options a conversion looks at are
a nondeterministic choice. Command lines are sequences of options and operands, and
getopt moves the operands to the end, as glibc's does.

**libconfig.** The heap of settings is a function from addresses to records;
`FreshAddress` may be an address that was in use before. A floating-point number is
counted in halves, so that it can have a fraction. An integer that is stored in a FLOAT
setting goes through `(float)` (`libconfig.c:1039,1074`) and one that is read as a double
through `(double)` (`:958`): `Rounded` gives the nearest number with as many binary digits as
`FLT_PRECISION` (2^24) or `DBL_PRECISION` (2^53) leaves, of two the even one. The casts
back to `int` and `long long` (`:853,891,1102,1111`) are undefined for a double that does
not fit; what the build makes of it is the constant operator `OutOfRange`, of which
the proofs assume nothing and which is x86-64's "integer indefinite" in the runs.
The parser runs
grammar.c's tables, number by number, and each reduction does what the rule's C code
does. The scanner runs scanner.c's DFA over the tables
of the file, with one character for each class of `yy_ec`; the buffer, its refill,
its growth and the jump back into a token are those of `yy_get_next_buffer`. The
parser is any caller that takes tokens and may give up after each. Both are
checked against definitions that do not use the tables: `IsConfiguration` is the
grammar as rules, `LongestMatch` is scanner.l's patterns as regular expressions.
Both are recursive operators, and have modules of their own so that the modules
of the parser and of the scanner can be proved about.

`ParseTables` and `ScanTables` end with what the proofs need to know of the tables, as
`ASSUME`s: `ReducesFit`, for one, says of every state that its rule finds the right
symbols below it on the stack. They have no constants or variables and speak of a
few thousand table entries, so that TLC does not sample them but decides them, in
every run of the parser and the scanner.

## 3. The runs

Passing runs:

| Run | Question | States |
|---|---|---|
| `time_exchange` | Do the conversions keep clock readings, tell them apart, and is the error bound sound for all delays? | 15,503 |
| `unicast` | Client, `sntpserver` and another implementation's server, whose header may say that its time is of no use, over the unreliable network; settings that poll or send nothing, and a host that never answers: freshness, soundness, spacing, sockets, bounded attempts, the refinement, termination | 737,954 |
| `server_load` | Two machines, valid requests and others, one server: replies match requests, timestamps in order | 46,553 |
| `manycast` | Discovery, then a poll; two servers in the group, one of another implementation: which host is polled, freshness against late replies to the discovery, termination | 448,815 |
| `settings` | Client: command lines of up to three arguments and ten files, with ports of each type, one of them out of range, and with the settings that no option gives: precedence, one mode, the end of the loop. Server: files with and without a switch, a group and a port, of right and wrong types: the groups joined | 18,543 |
| `config_tree` | Three callers of libconfig: one adds, removes and destroys groups and lists with hooks; one stores values of every type in settings of every type; one fills an array by index | 206,445 |
| `parser` | All token sequences of four kinds up to a length: structure, values and scanner errors, deep nesting on small stacks, strings over several lines | 326,026 |
| `scanner` | Texts of numbers, words, comments and strings in small buffers and short reads; nested, missing, recursive and unreadable includes, parser errors anywhere | 293,095 |

The three instances of libconfig are sets of callers or of kinds of input, each
with its own bounds; a variable that never changes (`program`, `input`) says which
of them a behaviour is about.

Runs that show a disagreement between the code and its comments (section 6):
`time_exchange_bound`, `claim_sender`, `claim_first_server`, `claim_precedence`.

The properties:

* `FreshSample`: the accepted reply answers the request the client waits on.
* `SampleSound`, `ErrorBoundSound`: offset +/- error bound, widened by two
  microseconds for the rounding, contains the true offset. Readings in the last
  microsecond of a second are excluded, and `ReportedBoundHolds` shows why.
* `PollSpacing` (action property): requests are started more than `poll_wait`
  seconds apart, across retries, polls and failures.
* `SocketsAccounted`, `ClientTerminates`: only failed polls keep a socket, and the client ends.
* `RoundTrip`, `StampsDistinct`: the conversions keep a reading to within a
  microsecond, also across the wrap of the NTP seconds, and never map two
  readings to one timestamp.
* `AnswersItsRequest`, `ReplyTimesOrdered`: what the server sends.
* `ImplementsTimePoll`: polls, attempts and answers together, in every step.
* `ServerHeardFrom`: although `server_host` points to a buffer that each packet
  changes, a poll asks a host that answers, the first one a host the
  discovery heard from. That it is the right one does not hold (section 6).
* `ManycastFreshSample`: a late reply to the discovery, on a port used again, is not
  taken for a sample.
* `OptionPrecedence`: when the client goes on, its port is that of the last `-p`, else
  the file's, else the default; the five settings that no option gives are the
  file's, else the default; `-r`, `-d`, `-u` and `-m` are honoured where they are
  given. Without `-r` and `-d` the file should decide too, and does not:
  that is `DocumentedPrecedence` (section 6), and `OptionPrecedence` says nothing of it.
* `OptionsParsed`: the loop ends behind the last option. `GroupsAsConfigured`: a server
  that serves is in the groups its file asks for, whatever fails.
* `IsTree`, `PathFindsSetting`, `ListFits`: whatever is added and removed, the
  settings are a tree, every path finds its setting, and no list outgrows
  its memory. `HookHandedOver`: each hook reaches the destructor when its setting
  goes, and once.
* `AcceptedIsReadBack`: what a setter accepted is what the getter of its type reads,
  up to `Preserved`, which lists every loss: an integer in a FLOAT setting is exact up
  to `FLT_PRECISION`, beyond it off by one part in that at most (16777217 reads back
  as 16777216), and at the very end of its range anything (2147483647 becomes 2^31,
  which no int holds); a 64-bit number that is no int is 0 in an INT setting;
  a double loses its fraction in an integer setting, and one that does not fit reads as
  whatever the build makes of it. `WaysOfAskingAgree`, `SetElemKeepsArray`: values.
* `AcceptsTheGrammar`, `WritesWhatWasRead`, `StringsFreed`,
  `FirstErrorReported`, `StackGrowsWithNesting`, `ParseEnds`: the parser.
* `ScansTheText`: each match is the longest that the patterns allow at its place in
  the file, however the file is cut up and interrupted. `LinesCounted`,
  `WithinBounds`, `StringsBeginEmpty`, `IncludeStackSound`, `EverythingReleased`,
  `ScanEnds`: its bookkeeping.

Every property of a passing run has a mutant (`PROJECT.json`, operators commented
"Fault:"), a plausible bug under which TLC finds it violated.

### Bounds

* `Micros = 3, FracMod = 4` (10 and 16 in `time_exchange`): the smallest values
  with the features of the real ones: the division is inexact and the last
  microsecond wraps. `SecMod` and `EpochDelta` are chosen so that the NTP seconds
  wrap within every run, at the second in which most exchanges take place.
* `Subseconds`: the readings of `tv_usec`. `unicast` has one reading per second, since
  finer timestamps are the subject of `time_exchange`, and `PollSpacing`
  is proved for all of them.
* `MaxInFlight = 2`: a datagram and a second, older one; with duplication and
  delay this is what it takes for a stale reply to compete with a fresh one.
* `Ports` has two elements: one leaked socket leaves one more poll, two leave none,
  so that running out of descriptors happens, and so does a port used again.
* `MaxLag` bounds how many seconds more than `poll_wait` the client may stay
  unscheduled. It is at least 1, so that every wait can end.
* `MaxPackets = 2`, `MaxSec`, `FirstBytes` of four kinds: two requests for the one
  `client_req`, in any order.
* `Garbage = {0}` in the runs; what other values do is in section 6.
  `ClientTerminates` thus supposes that `poll_timer` does not start out in
  the far future; `PollSpacing` is proved for all values.
* `manycast`: one server of each kind and `MaxInFlight = 2`; `ManycastWaitTime = 0`
  still leaves a second of gathering, in which both answer in either order, or one
  twice. `MaxStored` bounds what is stored.
* `config_tree`: four settings with the root make nesting, siblings and reuse of an
  address; `CHUNK_SIZE = 2` puts a reallocation between them. `INT32_MAX = 7`,
  `INT64_MAX = 31`, `FLT_PRECISION = 4`, `DBL_PRECISION = 8`: as in C, a float is less precise
  than an int, a double than a long long, and an int is exact as a double. Among the values
  are integers on both sides of the range and of each precision, the largest int,
  which is rounded out of its range, a negative fraction and a double too large
  for an int; every loss that `Preserved` lists occurs.
* `settings`: `INT32_MAX = 20`, `PortMod = 8` and ports on both sides; command
  lines of two arguments from all nine, of three from four of them.
* `parser`: nine tokens of structure make two settings or three levels of nesting,
  eight cover every order of values; `YYINITDEPTH = 6` and `YYMAXDEPTH = 20` are
  reached by twelve tokens of nesting.
  The constants 7 and 6 of `StackGrowsWithNesting` are what the rules need outside an
  aggregate and per level of one.
* `scanner`: buffers of a few characters, reads of one or more, so that
  tokens are cut everywhere; alphabets of texts chosen around the rules that
  are close to each other; include depth 2 with up to three files opened, so that
  the depth is exceeded and a file is included after another has ended.

Deadlock is not checked where the system may stop: the client ends, the clock of a
run is bounded, a read of a configuration is over; and a server with nothing to
receive waits for ever, as the program does. It is checked in `config_tree`,
where some call is always possible.

### Fairness

`FairSpec` has weak fairness of the client's steps and of `Tick`: the client is a
process the operating system schedules, and the clock does not stop. Nothing is
assumed of servers and network: they may never answer. `ClientTerminates`
excludes `recv_uni_timeout = 0`, which tells the kernel not to time out at all.
`ManycastSpec` assumes the same of the client and of time. `OptionsSpec`,
`ParserSpec` and `ScannerSpec` have weak fairness of the whole next-state relation:
each is one thread in a loop, which runs on. `OptionsParsed` excludes command lines
that end in an operand, on which the loop really does not end.

## 4. What is only model-checked

* `ClientTerminates`, `ManycastTerminates`, `OptionsParsed`, `ParseEnds`, `ScanEnds`:
  liveness under fairness is out of TLAPS's reach.
* `AcceptsTheGrammar`, `WritesWhatWasRead` and `ScansTheText`: they compare with
  recursive definitions of the grammar, of the writer's inverse and of regular
  expressions, in whose reach TLAPS has no SMT backend, and would need an induction
  over sequences of tokens or characters.

Everything else that a run checks is also proved.

## 5. What is proved

All proofs are for arbitrary constants that satisfy the named assumptions of the
modules (`TimeAssumption`, `NetworkAssumption`, `ServerAssumption`,
`ClientAssumption`, `SystemAssumption`, `ExchangeAssumption`, `LoadAssumption`,
`ManycastAssumption`, `SettingAssumption`, `NumberAssumption`, `TreeAssumption`, `FilesAssumption`,
`OptionsAssumption`, `StartupAssumption`, `ParserAssumption`, `ScannerAssumption`),
which the real values (10^6, 2^32, 0x83AA7E80, chunks of 16 and of 32, INT32_MAX,
2^24, 2^53, buffers of 16384, stacks of 200 to 10000 entries, 10 includes) satisfy.

* `TreeAssumption` says what the C types of the arguments say: names are not empty,
  an int, a long long and a double are numbers these types have, options are bits that
  exist. `NumberAssumption` says that an int is exact as a double, which
  `INT32_MAX` = 2^31 - 1 is.
* `FilesAssumption` says of a good file what the parser makes of every file:
  `config_setting_add` refuses a name that the group has (`libconfig.c:1589`), a boolean
  is 0 or 1, and an `INT` fits an int.
* `OptionsAssumption`: the options are the letters of getopt's list, `?` for another
  one, or operands. The arguments are arbitrary.
* `ParserAssumption`: tokens are tokens of grammar.h, and the parser's stack begins with at
  least two entries; with one, `yynewstate` would grow it before the first token.
* `ScannerAssumption`: files are texts, sizes are not 0. The numbers of files and
  texts are arbitrary.

Some theorems have the form `Spec /\ []InEra => ...`. `InEra` says that the
client's clock is below `SecMod` Unix seconds (until 2106); `ClocksInEra(S)` says
it also of the clocks of the hosts in `S`, and `AllInEra` of all servers. The NTP seconds do
wrap within this era, in 2036, which the proofs cover; beyond it a second has the
same timestamp as one 2^32 seconds ago, and 32 bits cannot tell the two
apart. No theorem has any other hypothesis on behaviours.

* `NtpTimeProofs`: lemmas on the conversions. `FractionOf` is strictly monotone
  before it wraps, because a microsecond is more than one unit of the fraction
  (`Micros < FracMod`); `UsecOf` gives it back with an error of at most one. What is
  computed from four readings and from their timestamps differs by two
  microseconds at most.
* `TimeExchangeProofs`: `TypeCorrect`, `RoundTripHolds`, `StampsDistinctHolds` and
  `ErrorBoundHolds`. For the last, the inductive invariant relates each decoded
  reading to the time at which it was taken and orders these times; the bound
  is then linear arithmetic.
* `SntpServerProofs`: types of packets, clocks and steps of the server, and what a
  server's steps do to the order of the times a datagram carries, for both
  compositions.
* `SntpSystemProofs`: `TypeCorrect`, `PollSpacingHolds` and `SocketsAccountedHolds` first.
  `PollSpacing` is not inductive: at the moment of `start_timer` the wait may have been
  done by main or by `unicast_mode`, or have been skipped. `SpacingInv` says where
  which of the two has been done: in `wait` and `resolve` the carried-over `poll_timer`
  is the time of the last request; in `attempt` it is that, or it is the -1 that
  `unicast_mode` put there, and then this is the first attempt and main's wait is over.
  `SocketsAccounted` is inductive with the finiteness of the set of sockets, once the
  moves of main's counters are known for each return of `unicast_mode`.
* `SntpSystemProofs` on polls: `FreshSampleHolds`, `SampleSoundHolds` and `ImplementsTimePollHolds`.
  `FreshInv` says that every datagram in flight and every
  request a server is working on carries the timestamp of a request of this
  run, taken no later than `start_timer` last ran, and not the current one's if it
  belongs to another request. A new request keeps this since by `SpacingInv` it is
  built in a later second, and different readings of one era are different
  timestamps. `TimesInv` adds the order of the instants that a datagram's timestamps
  stand for: a request was stamped in the past, and a reply repeats the request's time
  and adds the times at which the request arrived and the reply left, in this order
  on the server's clock. With the arrival at the client that is what the
  arithmetic of `TimeExchangeProofs` needs. The refinement uses `CountInv`, by which
  `retry_count`, the requests made and main's counters move in step; each client action
  is then a step of `TimePoll` or a stutter, and that the answer of a poll is the one to
  its last question is `FreshInv` again.
* `ServerLoadProofs`: `TypeCorrect`, `AnswersItsRequestHolds`, `ReplyTimesOrderedHolds`.
  `AnswerInv` adds that the request in `client_req` is one that was sent and that passed
  `check_packet`: replies go to machines that are not servers, so that a server
  never serves a reply. `OrderInv` orders the instants of requests, held requests and
  replies.
* `SntpSystemProofs` on the discovery: `ServerHeardFromHolds` and `ManycastFreshSampleHolds`. `HeardInv`
  follows `inet_ntoa`'s buffer: from the first reply on it holds the address of a host
  that answers, since all that is written to it is the sender of a packet to
  the client or the server asked, and until the first poll looks it up only the
  discovery wrote it. `ManyFreshInv` is `FreshInv` with the multicast request as one more
  request; it is older than every poll as the gathering lasts at least a second.
* `ConfigTreeProofs`: `IsTreeHolds`, `ListFitsHolds`, `PathFindsSettingHolds`,
  `WaysOfAskingAgreeHolds`, `HookHandedOverHolds`, `AcceptedIsReadBackHolds`,
  `SetElemKeepsArrayHolds`, for every number of settings and calls. The inductive
  invariant `TreeInv` has one part per idea: `Heap` (finitely many records, none at NULL),
  `Linked` (lists and parents agree, no element twice), `Room` (capacities are whole
  chunks and lists fit; a capacity that is no multiple would let `ListFits` break at
  the next addition), `Named` (the names in a group are single and distinct,
  elements of arrays and lists have none) and `Rooted` (a set of settings that has the
  root and all elements of its members is everything). Every function of the
  library is shown to be one of three kinds of change: `Changed` (something in a setting,
  not its links), `Grown` (a new last element) or `Shrunk` (an element and its
  `Subtree` go); each part is kept by each kind. `SubtreeFacts` shows that `Subtree`,
  a recursive function of as many rounds as there are settings, is the least closed set
  around its setting: each round adds a setting or is the last one needed.
  `PathFindsSetting` goes up and down: a setting that is reached in `k` rounds is at
  most `k` parents from the root, and each part of the path leads from a parent to
  the child, since names are distinct and indices are those of the list.
  Induction is done on sets of numbers (`Least`, `SetInduction`, `InductionUpTo`, from
  the library's `WFMin`), as the library's own rules take operators as parameters.
* `ConfigTreeProofs` on values: `RoundedFacts` says that `Rounded` is exact up to its
  precision and beyond it off by at most one part in it, since the spacing of the
  numbers is twice a width of which the precision holds less than the number
  (`SpacingFacts`, by induction, as `Spacing` is a recursive function).
  `AcceptedIsReadBackHolds` follows by cases on the type given and the type kept:
  `FloatPreserved` for an integer in a float, `CastPreserved` for a double in an integer.
  A 64-bit integer that was cast from a double is one as well (`TruncatedDouble`), and
  `INT32_MAX < DBL_PRECISION` makes every int one, so that reading it back as a double
  loses nothing more.
* `ConfigTreeProofs` on the settings of the two programs. `LookupFinds` uses the lemmas on
  members and paths for the one-level tree of a file: the look-up of a name ends at
  the one setting that has it. `IntRead`, `BoolRead` and `StringRead` then say what the
  conversions yield for either content of the stack frame that is gone.
  `GroupsAsConfiguredHolds`: `StartupInv` says that from the time the file is read the
  settings hold what it asks for, and that the group is only joined in the last step.
  `OptionPrecedenceHolds`: `OptionsInv` says that the settings are what the first
  `optind - 1` arguments and the file say (`SaidBy`), which `TakeOption` extends by one option. It does not hold
  once getopt has moved operands to the end behind the last option, but then it is
  `Stuck`, and never leaves the loop; `AmongFacts` and `OperandsLast` show that this is
  what the reordering leads to.
* `ConfigScannerProofs`: `WithinBoundsHolds`, `IncludeStackSoundHolds`,
  `EverythingReleasedHolds`, `StringsBeginEmptyHolds` from `ScanInv`, and
  `LinesCountedHolds` from `LinesInv` on top of it. The automaton first: `yy_match` is a
  recursive function, and an induction from the end of the text (`NearEnd`) shows that a
  match that begins in a start condition ends with a rule of that condition, takes at
  least a character and no more than there are, and has a newline in it only if its
  rule is in `yy_rule_can_match_eol` or is the line comment, whose newline is the last
  character. In `ScanInv`, `Fits` has one character more than `WithinBounds` for a
  buffer that is still filled: it is what lets `yy_get_next_buffer` read at least one, and
  what its growth restores when a token fills the buffer. `BuffersNested` and
  `StreamsNested` say that exactly the buffers and files of the include stack are alive,
  the later opened the higher, and that each level has the file the entry below it
  names; `EverythingReleased` follows since the unwinding of `__config_read` takes
  the levels one by one (`IsReleased`). `LinesInv` says that the characters ahead of the
  scanner in a buffer, with what is left of its file, are the file's text without
  what the matches took (`Follows`): refills move characters from the file to the
  buffer, matches take them from both sides of the equation, and an include or its end changes
  which buffer is meant. The line then counts the newlines of what was taken.
* `ConfigParserProofs`: `StringsFreedHolds`, `FirstErrorReportedHolds`,
  `StackGrowsWithNestingHolds`, for token sequences of any length. `ParserInv` says that the
  stack is a path through the automaton (`Linked`: each state is on one of those in
  `Below`), and that what the properties count is determined by the top of the stack and the
  lookahead: a string is alive exactly while it is the lookahead or its state is on top
  (`StringsHeld`); the depth of the tokens read is the number of opening states on
  the stack, up to the token at hand (`NestingHeld`); the only error so far is the one
  of a `TOK_ERROR` that is the lookahead (`ErrorsHeld`). That each reduction finds its
  symbols and lands in a state that may be there are the facts of `ParseTables`, so that one
  argument does for all rules. `Height` gives each state the highest place it can
  have with no aggregate open below it; an opening state adds six, from which the
  bound on the stack follows.

## 6. Findings

| Run | What it shows |
|---|---|
| `time_exchange_bound` | `tv_usec = 999999` converts to a fraction of 0 without a carry (`reusedlib.c:16`): the timestamp is a second early, and the reported interval misses the true offset. |
| `claim_sender` | `is_same_ipaddr` (`sntpclient.c:440`) compares one buffer with itself: a reply from any address is taken. |
| `claim_first_server` | `ntp_servers` stores pointers to `inet_ntoa`'s buffer (`sntpclient.c:312`): the server polled is the last one a packet came from. |
| `claim_precedence` | The order "commandline, config file, defaults" (`sntpclient.c:330-333`, `sntpclient.h:40`) does not hold of the repeat mode, its limit and `debug`: `parse_config_file` (`:502-518`) never looks them up, although `client_config.cfg:22-29` sets them. |

Other disagreements met while modelling. The modules do what the code does in each
of these places; no run is about them.

* The server polled after a discovery may be one whose reply failed the checks
  (the address is formatted before them, `sntpclient.c:303`; the message of
  `:307` says it is discarded), and another one in the next poll (`sntpclient.h:57` says
  "the same server"). `s_count` is not limited by `MANYCAST_MAX_SERVERS` (`sntpclient.c:313`).
* The totals (`sntpclient.c:13,16`) are never initialised, so the average of
  `sntpclient.h:57` contains what the stack held. If the first poll fails before its
  request, main waits on an uninitialised timer (`sntpclient.c:57`).
* `poll_wait` is measured from `start_timer`, not from `sendto`; a delayed client sends
  two requests closer together (`client_config.cfg:16`: "min number of seconds between
  polling the same server"). `max_unicast_retries` counts requests, one more than the
  retries made (`client_config.cfg:13`).
* Stratum 0 (kiss-o'-death in RFC 4330) passes `run_sanity_checks` (`sntpclient.c:590`).
* `manycast_enabled` is uninitialised without `-m` (`sntpclient.c:336`): `-u` alone may
  lead to a discovery, and no property says otherwise. An operand behind the last option keeps
  the option loop going for ever (`sntpclient.c:456`); `OptionsParsed` is not about such
  command lines.
* A discovery that fails, and a poll that fails, leave their sockets open
  (`sntpclient.c:281-322`); after a failed discovery the process ends.
* libconfig against its manual (`doc/libconfig.texi`): `config_setting_add` puts any type
  into an array (`libconfig.c:1571`; texi 485); `config_setting_remove(p, "a.b")` removes
  `a` (`libconfig.c:133`; texi 1036); a value too large for an int setting is accepted and
  stored as 0 (`libconfig.c:1066`; texi 911), and one set in a float setting is rounded to a
  float (`libconfig.c:1039`; texi 911; `config_setting_set_float` keeps a double); the line of a string in a list is that
  of the token behind it (`grammar.c:1590`; texi 1148); reading a configuration resets
  its default format (`libconfig.c:572`; texi 831); a `#` comment at the end of a file
  without a newline is an error (`scanner.c:1191`; texi 580); including a directory ends
  the process (`scanner.c:792`; texi 690).

## 7. What is not modelled

* Text output; packet lengths (a short datagram is not told apart from a full
  one); the byte order of packet fields, which both programs convert in pairs;
  floating-point rounding in the printed offset. Floating-point numbers in libconfig have at
  most one binary place: smaller fractions, infinities and NaN are left out.
* The number a numeral stands for, in libconfig as in `atoi`; the digits, quoting and
  indentation of what libconfig writes; its locale switch around reading and
  writing. None of them changes any state the properties speak of.
* In scanner.c: a NUL byte in the input, `include_dir`, and the functions flex
  generates and nobody calls. Failing memory allocation, in libconfig as a whole.
* libconfig's C++ interface, Ruby binding, tests and examples: neither program is
  built with them.

## 8. What is left

Every safety property of the runs but the three of section 4 is proved. These three would
need a prover with induction over data: `AcceptsTheGrammar` that the LALR automaton
follows the derivations of the grammar, `WritesWhatWasRead` that the writer inverts
the actions of the rules, `ScansTheText` that the automaton of `ScanTables` recognises
the patterns of scanner.l; what is known of the tables in `ParseTables` and
`ScanTables`, and `LinesInv`, would be the base of each.

Places where a proof showed the model to be imprecise, all since corrected: the parser accepts
when its final state is pushed also if the stack had to grow for it
(`grammar.c:1175-1234`); a float in a file is truncated towards zero when it is read as an
int, also a negative one (`libconfig.c:850-855`); the value of a boolean in a file is 0 or 1.
