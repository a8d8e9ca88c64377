# Verification of the Residue C++ client

TLA+ models, model checks and proofs for the client library of the Residue
logging server: `src/src/residue.cc`, `src/include/residue.h`,
`src/src/network-client.cc`, `src/src/dispatcher.cc`, and Easylogging++
(`src/src/easylogging++.cc`, `src/include/easylogging++.h`), which the client is
built on and ships with.

## 1. The system

A program logs with Easylogging++ macros. While the client is connected,
Easylogging++ hands every log statement to `ResidueDispatcher`, which puts it
into a queue; a thread of the library drains the queue to the server.

| component | state | operations | interacts with |
| --- | --- | --- | --- |
| `NetworkClient` | `m_socket`, `m_connected`, `m_lastError` | `connect`, `send` (one retry after a timeout), `read`, response handlers | the server; called by `reset`, `touch`, `dispatch`, `loadConnectionFromJson_` |
| `Residue`, connection | `m_connected`, `m_connecting`, `m_disconnected`, `m_host`, `m_key`, the two static clients `s_connectionClient` and `s_loggingClient` | `connect_`, `reset` (CONNECT, then ACKNOWLEDGE nested in its handler), `loadConnectionFromJson_`, `onConnect`, `disconnect`, `disconnect_`, `wait`, `reconnect` | the user's thread and the dispatcher thread both run it |
| `Residue`, session | `m_age`, `m_dateCreated` | `healthCheck`, `isClientValid`, `shouldTouch`, `touch` | dispatcher thread; the user's thread in `loadConnection` |
| `Residue`, queue and dispatcher | `m_requests` under `m_mutex`, `m_dispatcher`, `m_running` | `addToQueue`, `dispatch`, the thread function in `onConnect` | every logging thread pushes, one thread pops |
| bulk parameters | `m_bulkDispatch`, `m_bulkSize`, `m_maxBulkSize`, `m_autoBulkParams`, `m_serverFlags` | `setBulkSize`, `enableBulkDispatch`, negotiation in `loadConnectionFromJson_`, framing in `dispatch` | user's setters and both connecting threads |
| configuration and identity | `m_host`, `m_port`, `m_clientId`, `m_knownClient`, the key pair, `m_serverPublicKey`, `m_homepath` | `loadConfigurationFromJson_`, `setKnownClient`, setters | what the next handshake, a renewal and every request send |
| saved connections | a file with the reply to ACKNOWLEDGE | `saveConnection_`, `loadConnection_`, `loadConnectionFromJson` | a later process, or the same one |
| error log | `m_errors` | `addError`, `errors` | every thread that connects |
| crash handlers | `m_handler` | `residueCrashHandler`, `defaultCrashHandler`, `logCrashReason`, `abort` | any thread, at any instruction |
| `ResidueDispatcher` | `m_residue` | `handle` | called by Easylogging++ under its global lock |
| Easylogging++ dispatch | `m_logDispatchCallbacks`, the global lock | `LogDispatcher::dispatch`, `installCallback`, `uninstallCallback` | logging threads; `onConnect` and `disconnect_` change the callbacks |
| Easylogging++ configurations | `Configurations` (a program's, the registry's defaults, each logger's), `TypedConfigurations`, `m_logStreamsReference` | `set`, `setGlobally`, `setToDefault`, `setRemainingToDefault`, `setFromBase`, `Logger::configure`, `TypedConfigurations::build`, lookups; the parsers of files and texts | loggers, the files they share |
| loggers and writers | per logger a lock, a stream and counts of unflushed lines; the registry; file streams | `Writer`, `Logger::log`, `Logger::flush`, `flushAll`, `configure`, `remove`, the default callback | every logging thread |
| performance trackers | a lock, `m_enabled`, the last checkpoint; one callback's `m_data` | `checkpoint`, the destructor | logs from within |
| occasional and verbose logging | hit counters of places in the source; `VRegistry`'s level and modules | `validateEveryN`, `validateAfterN`, `validateNTimes`; `setModules`, `setFromArgs`, `allowed` | the logging macros |
| formatting | `LogFormat`, custom specifiers | `parseFromFormat`, `build`, `MessageBuilder`, `DateTime`, `File` | configuring and logging threads |

What makes the code hard:

* three kinds of threads with one mutex, one lock of Easylogging++ and a dozen
  unprotected or merely atomic variables between them;
* the dispatcher thread runs the connect path as well: it renews the session in
  `healthCheck` and replaces a broken connection in `dispatch`;
* response handlers that throw are called again by `read` with the error,
  nested in one another, around a send that retries once;
* the queue's size is read before, and used after, a health check that may last
  seconds; a batch has left the queue before it is sent;
* `disconnect` and `wait` join a thread that may itself wait for `m_connecting`;
* the setters of the bulk parameters check against the limits of a session that
  another thread may be replacing, and a round of `dispatch` reads
  `m_bulkDispatch` three times;
* sessions are timed with unsigned differences of two clocks;
* configurations are copied entry by entry, an entry for `Level::Global` sets
  every level, and the first entry of a list is always taken for Global's;
* a log statement keeps its logger locked while its message is evaluated, which
  may log; a statement on several loggers takes one lock after another and the
  first logger's text to the others; files are shared by loggers and rolled
  under a logger's lock or under Storage's;
* the members a handshake fills in are assigned one after the other in nested
  handlers, and the user's setters and configurations change them on a connected
  client;
* a line is built by one textual pass per specifier, over what the passes before
  have put in; parsers keep a level, a logger or a quote from line to line.

What each part must get right:

* NetworkClient: a send ends, retries once at most, and whoever returned quietly
  without an answer knows the client is down; a handler that does not throw
  runs at most once per payload.
* Connection: `connect` connects or throws; two handshakes never overlap;
  `m_connecting` falls again; the user's disconnect is respected; the client
  talks to the server the user chose.
* Dispatcher: never two, always one while connected; stops after a disconnect
  and not before the queue is empty.
* Queue: order, no duplicates, nothing lost without a fault, nothing
  unaccounted for.
* Bulk parameters: a batch within the limit of a session in force, an array that
  is opened and closed, bulk dispatch only where the server allows it, a queue
  that drains.
* Session arithmetic: nothing is sent over a session that has ended, although
  the client's clock is not the server's.
* Configurations: what a logger answers for a level is what its repository says;
  what is copied arrives; a level writes to a file exactly if it is told to and
  can.
* Identity: key, id, parameters and connection of a connected client are of one
  session; a handshake can be answered and its answer read; the list of errors
  is the latest ones.
* Writers: a line is one statement's text, in the file once; buffers and files
  stay in bounds; locks are held by who needs them and a circle of waiting
  threads needs nested statements; every statement ends.
* Occasional logging: exactly the hits that the macro names, for every period
  and across the restart of the counter.
* Texts: what the passes and parsers make of a format, a name, a value, a time,
  a configuration or a list of modules is what a definition without passes
  says.
* Callbacks: not changed under an iteration; a message is handed over only when
  there is a Residue to take it.

## 2. Modules

| module | models | lines of the code |
| --- | --- | --- |
| `NetworkSend` | what one `connect` and one `send` can come to, as sets of outcomes | network-client.cc 29-106 |
| `NetworkClient` | the same call step by step: the write, the read, the handler's throws and second call, the retry | network-client.cc 18-106 |
| `LogDelivery` | the abstract promise: a queue whose messages are delivered in order or lost, and, where reliable, all delivered | what `residue.h` promises of logging |
| `ResidueClient` | the whole client with all its threads, over `NetworkSend` | residue.cc 30-587, 705-774; residue.h 130-243; dispatcher.cc; easylogging++ callbacks |
| `ResidueProperties` | type invariant, safety and liveness of `ResidueClient`, and the strengthenings the proofs use | |
| `SessionClock` | `isClientValid` and `shouldTouch` in unsigned arithmetic modulo `Modulus` | residue.cc 505-513, 589-596 |
| `BulkDispatch` | the bulk parameters, their setters on the user's thread, their negotiation on either thread, and one round of `dispatch` over sessions on moving clocks | residue.cc 89-103, 342-358, 392-474, 515-568, 727-769, 813-845; residue.h 271-274, 338-352 |
| `Configurations` | repositories of configurations, copying them, and building typed configurations and file streams from them | easylogging++.cc 312-405, 543-577, 646-665, 1670-1813, 1887-1922, 2963-3006; easylogging++.h 1964-2019 |
| `LogWriter` | log statements of several threads: gates, writers, locks, the default callback, flushing and rolling files, configuring and removing loggers, performance trackers, crashes | easylogging++.h 2069-2077, 2867-2892, 3192-3338, 3395-3543, 3991-4478; easylogging++.cc 643-707, 1815-1931, 2061-2238, 2473-2893; residue.cc 44-55 |
| `LogFormats` | from a format to a line, names of log files, dates, durations | easylogging++.cc 709-717, 913-1004, 1183-1609, 1739-1776, 2392-2469 |
| `LogPaths` | directories and names of files | easylogging++.cc 761-854, 1778-1787 |
| `LogMessages` | how values and containers are streamed | easylogging++.h 2810-3168 |
| `LogSettings` | parsers of configuration texts and global files, command lines, the verbose registry | easylogging++.cc 150-221, 407-534, 858-902, 1317-1358, 1724-1737, 1939-2052, 3031-3070 |
| `LogRequests` | what is sent of a statement | dispatcher.cc 16-54; residue.cc 476-503 |
| `LogText` | calls of these five modules with the registries they share, and what the answers should be | |
| `ClientSettings` | identity, keys, hosts, sessions, saved connections and errors, a call at a time | residue.cc 56-190, 192-340, 380-390, 532-551, 578-587, 598-797, 829-837; residue.h 130-183, 253-259 |
| `MCNetworkClient`, `MCResidueClient`, `MCBulkDispatch`, `MCConfigurations`, `MCLogWriter`, `MCLogText`, `MCClientSettings` | instances for TLC | |
| `ResidueProofs`, `NetworkClientProofs`, `BulkProofs`, `ConfigurationsProofs`, `ClientSettingsProofs`, `LogWriterProofs`, `LogTextProofs` | theorems | |
| `Loops` | the values of a fold and of a recursive function, for `LogTextProofs` | |

`NetworkClient` and `NetworkSend` say the same thing at two grains:
`EndsAsPromised` of the first says that every run of `send` ends in an outcome
that the second offers. `ResidueClient` takes a send as one step with one of
these outcomes, because only one thread at a time uses a client unless the
program is already in undefined behaviour, which the model records.

### How `ResidueClient` corresponds to the code

`pc[t]` is the place of thread t: `c_*` in `connect_`, `r_*` in `reset` and
`loadConnectionFromJson_`, `o_*` in `onConnect`, `h_check`/`t_*` in
`healthCheck` and `touch`, `d_*` in the dispatcher's thread function, `dispatch`
and `disconnect_`, `u_*` in the user's calls. `frame[t]` is who called
`connect_` or `reset`: the user's `connect`, the dispatcher's reconnect, a
health check, or `loadConnection`; it decides where a return and an exception
go (`Throw`). The connect path is one set of actions `ConnectStep(t)` for both
threads, as in the code.

A step ends at each place where another thread can observe it: a lock, a
blocking call, an access to an atomic or unprotected variable. Accesses that no
other thread distinguishes are joined to the step before.

The queue is a sequence whose head is the deque's `back()`: `push_front` is
`Append`. Messages are the numbers 1, 2, ... in the order in which they were
queued; `delivered` and `lost` are history variables.

The session's age is one of three verdicts: valid, to be touched, expired
(`health`), moved on by `Age`. Keys are `none`, `pending` (after the reply to
CONNECT) and `live` (after the reply to ACKNOWLEDGE); a batch is accepted with a
live key and an unexpired session.

Undefined behaviour and `std::terminate` end the process: `aborted` names the
cause. A race on a `NetworkClient` that is replaced under another thread, on the
map of callbacks, or on `m_key` may end it or may go unnoticed, so both are
possible; calling through a null pointer, deleting a joinable thread and an
exception out of a thread function always end it.

Assumptions of the model, each of them a restriction to be kept in mind:

* A session found valid or just renewed does not expire between that check and
  the sending of the batch (`Checked`): `shouldTouch` leaves at least
  `TOUCH_THRESHOLD` = 60 seconds. `BulkDispatch` examines this with clocks that
  move: it is `NeverSentExpired`, and holds as long as the time of a round and
  what the client's clock is behind the server's are together less than the
  threshold. A session whose touch failed is given no such time: it may expire
  before the batch is sent.
* One application thread makes the API calls. `Disciplined` programs connect
  while they hold no connection, disconnect while they hold one, and log only in
  between, as the samples do; the wild run drops this.
* `BulkSize` is fixed; `BulkDispatch` is about its changes.
* A saved connection is a good, a stale or an expired one, or one that cannot be
  read (`LoadUnreadable`: its text does not parse, or lacks an entry); which
  members a torn text leaves assigned is in `ClientSettings`.
* Who the client is, its keys and what its errors are is `ClientSettings`' subject.
* The socket of a client is modelled by `up`; `send` on a client that is down
  returns quietly.

### How `BulkDispatch` corresponds to the code

One thread is followed, `pc`: in the handshake (`Connect`, `Grant`, then
`Parameters`, `AutoParameters`, `Clamp`, `Connected`, the assignments of
`loadConnectionFromJson_` in their order) or in a round (`Open`, `Size`, the
health check with a renewal or a touch, `Pop`, `Send`). The setters interleave
with every one of these steps; a setter's check and its assignment are two
steps, because nothing makes them one. Times are unsigned numbers modulo
`Modulus`, the client's clock is `now + Skew`, and a server grants any of
`Policies`: lifetime, largest bulk, and whether bulk dispatch is allowed.

A program may call the setters at any time, also when no connection stands, and
the code then compares nothing with a limit: `setBulkSize` before a connection and
`enableBulkDispatch` after it (residue.h:262-264), a check that a handshake
overtakes, or a renewal that lowers the limit while bulk dispatch is off
(residue.cc:759, 815, 841). The history variables `looseSize` and `looseSwitch`
record this: the size, or the switch, in force has not been held against the
limits in force, nor been clamped to them since. `WithinLimit` and
`BulkOnlyWhereAllowed` say that nothing else makes a batch too large or forbidden.
In those other cases a batch does exceed the limit: without the `looseSize` in
`WithinLimit` TLC shows one (section 4).

### How `Configurations` corresponds to the code

Entries of different types never meet, so a repository is a list of levels and
values for each type: `conf` (the program's own), `defaults` (the registry's) and
`repo` (one logger's). The calls of the program are single steps where the code
holds the repository's lock throughout; copying (`Replay`) and building (`Build`,
`insertFile`) go entry by entry, as the loops do, because what an entry does
depends on those before it. `OwnTypes` stands for the types with a value for
each level, `SharedTypes` for the two that `build` always enters under Global;
`Filename` and `ToFile` are what they are, since files that cannot be opened
change the one through the other. Parsing a file or a text comes down to calls
of `set`, which `LogSettings` says; rolling and flushing are in `LogWriter`. There is
one configuring thread and one logger beside the shared streams.

### How `LogWriter` corresponds to the code

`stack[t]` is what thread t is executing: a statement, on top of it one that its
message logs or that a performance report makes, on top of that the report of a
crash. A frame's `pc` names its place, in the order of the code:

| `pc` | code |
| --- | --- |
| `gate` | the macro's condition, counter or verbose level (`CINFO_IF`, `CINFO_EVERY_N`, ...) |
| `init` | `Writer::initializeLogger`: look up or create the logger, take its lock |
| `head`, `tail` | the two halves of the message, streamed into the logger's `m_stream`; what the message's expression logs comes in between or before |
| `dispatch`, `rollfirst` | `processDispatch`, `LogDispatcher::dispatch` under Storage's lock, the strict check of the file's size |
| `callback`, `roll`, `written` | `DefaultLogDispatchCallback`: the line, the flush, the roll; `DispatchAction` done |
| `release`, `abort` | `triggerDispatch`: release the logger; a fatal statement's abort |

A statement on several loggers (`at` counts them) goes from `release` to the next
one's `init`; `msg` is the text of the first that proceeded. `Logger::log` (the
variadic interface) enters at `tail` with the lock it took itself. Checkpoints
and ends of performance trackers, `flush`, `flushAll`, `configure`, `remove` and
crashes are frames of other kinds. A lock is recursive: [owner, depth]. A statement's
name is its thread's n-th, or the n-th within the statement it was logged from
(`calls` counts those). A line is [by, stmt, at, top, crashed, to, text]; a
statement's text is its name, once per half, so that a line
shows what was mixed into it. A file has its `text`, how much of it was flushed
(`kept`), what was rolled out before (`past`), and whether its stream is open or
failed.

Programs (`Programs`) are the logging flags and the statements that threads
choose from. What a program may do that the code cannot survive is left to it:
removing a logger that is in use, or a tracker that ends while another thread is
using it, is not begun.

### How `LogFormats`, `LogMessages`, `LogPaths`, `LogSettings` and `LogRequests` correspond to the code

Each is a set of operators named after the functions. Texts are sequences of
tokens, so that what matters is kept (a specifier next to an escape, a quote next
to a backslash, a brace without its end) and spelling is not: a specifier is one
token, no token begins or ends within another, letters' case is left out.
Searches keep the code's order and its positions, off by one where the code is
(`Value` takes a length from the start of the text, `Taken` counts before it
compares, `baseOf` does not see a slash at the beginning).

`LogText` calls them. Its two registries, verbose levels and custom specifiers,
are state, as is what was asked of them (`given`); everything else is answered at
once. The properties are references: what a line, a name, a list of settings or
a verdict should be, said over positions of the input and without passes, states
or scans. A request's property (`RequestsTellAll`) reads the request back: a field
that was left out is empty or zero, and the client's clock shows the time of the
statement. No operator is `RECURSIVE`: a loop is a fold, a function that calls
itself on parts of its argument is a recursive function over the values that
there are (`Written`, over `Values`), so that what it computes can be proved.

### How `ClientSettings` corresponds to the code

A call is a step, with any of the ends it can have (`Outcomes`): the record `m`
holds the members of `Residue` that calls assign, `reset` assigns them in the
handlers' order up to the point where the outcome stops it. `Recognised` and
`Readable` say when a server can answer and when the client can read the answer;
a server grants sessions, numbered, to a client. A saved connection may be torn:
`loadConnectionFromJson_` has then assigned the members before the first entry that
it cannot read. A logging host that
cannot be resolved ends it with `std::system_error` and adds no error, one that
refuses adds one. `past` is history: what changed
since the session was made and which errors were raised. The calls of the
dispatcher's thread (a renewal, a refused touch, a reconnect, its end) are steps
too, between the user's.

## 3. Runs

| run | asks | bounds |
| --- | --- | --- |
| `network_client` | every fault at every point of a send, with handlers that return or throw | 3 sends: one that breaks the connection, one on what is left of it, one more |
| `client_alive` | connects, disconnects, reconnects and loads of saved connections over a sound network, with a server that may turn a handshake down | 2 logging threads, 3 messages, 4 calls: two full connections; 1 rejection |
| `client_aging` | whether anything is lost when the dispatcher touches and renews a session, and when `loadConnection` is given a good, a stale or an expired one | 2 calls: a connection and its end; 4 ageing steps: two cycles valid-touch-expired |
| `client_wild` | faults at any point, any rejection, logging and calls at any time, both threads in the connect path; whether `m_running` tells of the dispatcher | 3 calls; 2 faults: one that breaks a connection and one in its replacement; 2 ageing steps |
| `bulk` | the frame of a batch, its size and the limits, the session it goes out over and the end of the queue, with setters against handshakes, renewals with other terms and every step of a round; sessions on two clocks | 3 kinds of sessions, 2 setter calls, 2 messages, 1 fault, clock to 6 |
| `configurations` | what loggers answer and where they write after any edits, copies, reconfigurations and registrations, with files that open or not | 4 calls: fill, copy, apply, and one more; 2 levels besides Global, one type of each kind, 2 values each |
| `log_writer` | lines, files, locks, counters and the end of statements, under every interleaving of two threads and a crash | twelve programs, 1 or 2 statements per thread; 3 loggers of which 2 share a file and 1 is disabled; files of 2 lines, flushed at 2 |
| `log_text` | whether the algorithms on texts do what a definition without them says | texts of up to 4 tokens that interact, up to 2 installed custom specifiers, up to 2 verbose modules, containers of up to 4 elements with a limit of 3 |
| `client_settings` | whether id, keys, session, parameters and hosts belong together | 5 calls: identify, connect, save, restart or reconfigure, load or renew; 3 sessions; errors trimmed at 3 |

In `bulk` the word has 16 values, a lifetime is 3 or unlimited and the threshold
3: a session is fresh, to be touched and expired within the clock's range, and
differences wrap; a round (1) is shorter than the threshold, as a round of less
than 60 seconds is in the code; the client's clock is one behind the server's.
Two setter calls suffice for a change during each of two rounds, or for one that
a handshake overtakes between its check and its assignment, or to set both size
and switch before a handshake or a renewal that lowers the limit. In `configurations`
the values of `setToDefault` and `setRemainingToDefault` are those of the library
as it is built (ELPP_NO_LOG_TO_FILE).

In the client runs the bulk size is 2 with 2 or 3 messages, so that a full
batch, a rest and an empty queue all occur.

In `log_writer` a program puts together the statements that can disturb each
other: several loggers in both orders, messages that log, a flush beside a writer
of the same file, strict rolling, occasional statements of every kind (with
periods below `kMaxLogPerCounter` = 3; what happens above it is part of
`OccasionsExact`, section 5), a call that returns early and a
callback that throws, configuring while writing, trackers of two scopes, crashes
under both handlers. A file that holds two lines rolls within two statements of
each thread; two threads make every circle of two locks, and a longer circle
needs one more logger, not other code.

In `log_text` four tokens are enough for a specifier, its escape and another
specifier or brace on either side, and for two quotes around a backslash; the
formats are the sets of tokens that meet in one pass.

`kErrors` is 10 in the code and 3 in `client_settings`, where a failed handshake
raises up to 3 errors and refused touches the rest: the list overflows.

Deadlock is not checked in `client_wild` and the runs that expect a violation:
there the client really can stop for good, a dispatcher waiting for
`m_connecting` and a user waiting for the dispatcher; nor in `bulk`, `log_writer`
and `client_settings`, which end when their clock, messages, statements or calls
are used up (what may hang in `log_writer` is the subject of
`DeadlockNeedsNesting` and `StatementsEnd`). In the others it is checked;
`MCSpec` adds the rest of a program that has nothing left to do (`Rest`).

Fairness: `ResidueClient`'s `Fairness` says that a thread of the library that can
take a step does so, and that blocking calls return; every blocking call in the
code is a socket operation, a lock, a join or a sleep. The user's calls, log
statements and the ageing of sessions are never forced. In `bulk` the
dispatcher's thread alone is fair (`QueueDrains`); in `network_client` the call
under way. In `log_writer` a thread that is within a statement and can go on does
(`WF_vars(Step(t))`); nothing makes it begin one, or crash. Strong fairness is
not assumed: a lock is always free again and stays free long enough in the
instances, since `m_mutex` is released between two messages and the bounds
limit the other threads.

`client_aging` stops at 2 calls, since what it asks is not true of a third: a
dispatcher that finds the session expired goes through `reset` itself, with
m_connected lowered, and a disconnect() meanwhile returns at once
(`flush_cut_short`); if the user then connects again, it replaces the client that
the dispatcher is about to send through, and TLC finds a lost batch. `NoAbort`,
`ConnectionServed` and `ConnectingInProgress` fail then as well, and no passing run
claims them of sessions that expire. What does hold of the dispatcher's life under
expiry, faults and races is `RunningMeansThread`, which `client_wild` checks:
m_running is raised just when a dispatcher's thread runs, and `m_dispatcher` is then
joinable, though user and dispatcher may both be in the connect path.

What the passing runs show: in a disciplined program and over a sound network
nothing is lost, `disconnect` returns with the queue flushed, the dispatcher
stopped and its callback gone, the process survives, and all of
`LogDelivery!ReliableSpec` holds, also when sessions are touched and renewed
under way. Under any faults, and in programs without discipline, order,
uniqueness and accounting hold all the same. However the bulk parameters are
set, a batch is well-formed and not sent over a session that has ended; it is
within the limit and allowed unless its size or the switch was set where the code
compares nothing. A configured logger answers for each level what its
repository says, whatever copies and edits made it. A line in a file is one
statement's, once, and locks are taken in an order that only nesting can turn
into a circle; the exceptions are named in the properties and are real (below).
What passes and parsers make of texts is what they promise, but for the named
exceptions. What a connected client sends belongs to one session.

## 4. Findings

Runs that expect a violation; each checks one statement of the documentation
against the code.

| run | statement | what the code does |
| --- | --- | --- |
| `flush_cut_short` | disconnect "will also call wait()" | returns at once during the dispatcher's renewal of the session, with messages still queued |
| `reconnects_elsewhere` | "re-estabilish connection if disconnected from remote" | connects to localhost:8777 instead and sends the rest of the queue there |
| `disconnect_undone` | connect_ "is only called by user so we want to reset disconnected state" | dispatch() calls it too and takes a pending disconnect back |

The models show more disagreements, which have no run of their own.

Of the client:

* m_connecting is lowered by response handlers only, and an end of file calls
  none: connecting() stays true after a touch or handshake that ended so; the
  dispatcher waits for ever, and with it disconnect() (residue.h: "connection to the
  server is in progress").
* "You can reconnect whenever you like": reconnect replaces the `NetworkClient`
  that the dispatcher may be reading from.
* Over a sound network, an expired session and a disconnect() during its renewal
  suffice: the connect() that follows replaces the client that the dispatcher
  reads from; or it skips its own dispatcher because the old one is still
  running, which then stops (residue.cc:171), and the connection has neither
  dispatcher nor callback; or the dispatcher stops what the user has just
  connected, and connect() returns normally without a connection; or m_connecting
  stays raised.
* Nothing is requeued where network-client.cc:94 logs "requeueing".
* connect() returns normally after a rejected acknowledgement, whose exception is
  caught where it is thrown (residue.cc:290), and throws `std::system_error` for an
  unknown host, where residue.h:134 promises a `ResidueException`.
* The default callback is not installed back after a disconnect (residue.cc:575);
  wait() does not return while connected (residue.h:236).
* An error of a write on the logging socket leaves the dispatcher's thread
  function and terminates the process.
* A batch may exceed the server's limit ("maximum number of items in bulk that server
  accepts", residue.h:213): setBulkSize() compares only while connected(), which is
  false during every handshake and renewal, a handshake clamps the size only while
  bulk dispatch is on, and enableBulkDispatch() looks at the flag alone.
* addError trims at more than ten entries and before it appends: eleven are kept,
  where errors() has the "last 10 errors" (residue.h:459).
* setKnownClient() throws after it has replaced id and key, so that the client's
  next renewal cannot be answered; a connection loaded in a fresh process has
  neither client id nor key pair.
* Universal time (`m_utc`) goes through `mktime` as if it were local, and is an
  hour off where the zone has daylight saving time (residue.h:277).
* `DisableApplicationAbortOnFatalLog` is set by `connect_`, so that before the
  first connect the crash handler's fatal report aborts before it disconnects;
  after it, disconnect() on the dispatcher's thread would join itself.

Of Easylogging++:

* setRemainingToDefault: "By remaining, it means that the level/type a
  configuration does not exist for", but a type without a Global entry gets one
  through `unsafeSet`, which sets every level, those with values of their own
  too; as the library is built, a configuration that enables single levels ends
  with everything disabled. The formats it has for single levels
  (easylogging++.cc 397-404) never take effect. Under ELPP_NO_LOG_TO_FILE the
  remaining default of Enabled is "false" where easylogging++.h:1830 says "i.e,
  true".
* A repository copied into another loses what it set before its Global entry (the
  precondition of `CopyFaithful`); a `SubsecondPrecision` or
  `PerformanceTracking` set for a level is not ignored, as easylogging++.h:1781
  has it, but the last entry wins for all levels; when Global's own file cannot
  be opened, `ToFile` is forced off for levels whose files are good, or not,
  depending on Global's `ToFile` (the precondition of `WritesWhereItCan`).
* Logger::log takes its logger's lock, "released in Writer!"
  (easylogging++.h:3301), but a call with more arguments than specifiers returns before
  there is a Writer: the logger stays locked, and every other thread that logs to
  it waits for good.
* A callback that throws leaves its logger locked too: `triggerDispatch` catches
  around the release. When the first of several loggers is disabled the others
  get an empty line; without MultiLoggerSupport the others are ignored. A fatal
  statement aborts with the lines of other files still buffered; a removed
  logger's unflushed lines are no longer counted; Logger::flush rolls a shared
  file under a lock that does not stop another logger's writer, whose line is
  lost. Two trackers that report together share `m_data`.
* A hit counter starts over at `kMaxLogPerCounter` (100000): with a period above
  it every-N logging never fires, with one just above it on every hit.
* A file name in which every `%datetime` is escaped is read out of range
  (`resolveFilename`); a date is cut at 30 characters; a clock that stepped back makes a
  difference of times wrap.
* In configuration texts a value's last two characters, two quotes in a row and
  backslashes before them go wrong (`Plain`); in a global file a logger with an
  id of one letter configures the logger before it.
* Verbose modules: of a level with several digits the last counts, a module
  without a level is glued to the next name, and where several modules match,
  the order of a hash table decides; -vmodule is ignored beside --v. What says
  "show all" (-v) wins over both.

## 5. Proofs

The client (`ResidueProofs`), for every number of threads, hosts, messages, calls, faults and ageing steps,
and for disciplined and wild programs alike:

* `TypeCorrect`: `Spec => [](TypeOK /\ PopBound)`. The two are proved together:
  that popping keeps the type needs a non-empty queue, which is `PopBound`: the
  number a round of `dispatch` still means to pop is at most what the queue
  holds. It is inductive because only the dispatcher pops.
* `InHand`: a joined or null `m_dispatcher` means a finished thread, and the
  dispatcher holds messages only between `d_pop` and `d_send`. This is what
  makes two dispatchers at once impossible.
* `RunningHasThread` (`RunningMeansThread`), from `RunningInv`, which adds that
  disconnect() lowers m_running only after it has joined the thread
  (`JoinedBeforeStop`). Only `onConnect` raises m_running, in the step in which it
  starts a thread; the thread lowers it in its last. In between lies the connect
  path, which the dispatcher walks itself when it reconnects or renews: `Walks` says
  where that path leads, and that it never ends the thread.
* `DeliveredInOrder`, `EveryMessageAccounted`, `PopsFromNonempty`, `Refinement`:
  all from `QueueInvariant`, the conjunction of `Numbering` (what is settled, the
  batch and the queue are consecutive stretches of 1..enq), `Settled` (what is
  settled was delivered or lost, never both) and the order of what was
  delivered. `InOrder` alone is not inductive: it says nothing of the messages
  still to be sent. The proof has one step for each of the four actions that
  move a message and one lemma that the others leave the queue alone.
* `HandshakesExclude`: `HandshakeExclusive` from `MutexHeld`: who is inside
  `reset` holds `m_mutex`, and a thread that loads a saved connection is inside
  `reset` only through its health check, which `frame` records.

What needs a sound environment (the last part of `ResidueProofs`) carries it as
hypotheses: `Reliable` (a disciplined program, no faults of network or server, a reachable
host; a constant assumption) and `[]Fresh` (no call meets an expired session),
since without them the properties do not hold: `flush_cut_short` and an unserved
connection need only an expired session, an m_connecting that stays up only an end
of file (section 4). A session may age and be touched under
way, any number of times.

* `ReliableSurvives`, `ReliableFlushes`, `ReliableServes` and
  `ReliableLowersConnecting` (`NoAbort`, `FlushedOnDisconnect`, `ConnectionServed`,
  `ConnectingInProgress`) all come from `ReliableInvariant`. It says where the user
  and the dispatcher can be at the same time: the user is opening a connection
  (`Opening`), holds one (`Holding`), or gives it up (`Closing`), and the
  dispatcher is accordingly gone, draining, or draining or stopping (`Served`);
  flags and callbacks follow from these places. `Linked` says which clients are up
  and what the server knows, `Quiet` that threads log only while the user holds
  a connection, without which a statement could iterate over callbacks that
  change; `Orderly` that no call has failed. None of them is inductive without
  the others: that a send is answered needs `Linked`, that follows from the order
  of the user's calls, and that order from no call having failed.
* `ReliableDelivery`: every step of the client is a step of `LogDelivery`'s reliable
  promise, `Lose` not among them, since nothing is in the batch when a send fails.

One client of the network (`NetworkClientProofs`), for every number of sends and
faults:

* `NothingRepeated` (`RepeatedOnlyForThrowingHandler`) and `SendsEndAsPromised`
  (`EndsAsPromised`), from `IInv`: `NotRepeated` says that a payload goes out with
  none of its kind at the server or after the handler threw, `OnTheWay` what each
  place of a send has cost in faults so far (`Base`: the one retry is there for a
  timed-out write) and hence which outcome it can still come to. With it, what
  `NetworkSend` offers to `ResidueClient` is what the code does.

Bulk dispatch (`BulkProofs`), for every set of policies, sizes, word, threshold,
round time and skew that `BulkDispatchAssumption`, `RoundTimeAssumption` and
`SessionClockAssumption` admit (a round plus what the client's clock is behind is
less than the threshold; a server grants more than a round; clock and lifetimes
fit into the word):

* `FramesWellFormed`: from the type invariant and what a round has read so far
  (`Cut`).
* `BatchesWithinLimit` and `BulkAllowed`, of programs that call the setters whenever
  they like: a size that is not loose is within the limit in force, a switch that
  is not loose is on only where the server allows it, and both are true of what
  a setter has checked and is about to assign (`LimitsKept`); a handshake clamps, or
  makes loose what it leaves unclamped.
* `SessionsOutliveRounds`: what the check of a session has found stays true of
  the clock for the time a round takes (`SessionKept`); this is where the
  unsigned differences are shown not to wrap the wrong way.

Configurations (`ConfigurationsProofs`), for every finite set of levels, any types
and values, any factory and remaining defaults:

* `ConfigurationsTypeCorrect`, `GlobalIsFirst` (`GlobalLeads`): from `IInv`.
  That Global is first in a logger's list is not inductive by itself: an empty
  list may be given its first entry from a list that Global does not lead. So
  `Stages` says when a logger's list is empty (only before the first step of
  copying the defaults into it), and `Shape` that lists with a Global entry are
  full.
* `LookupsAgree`: from `BuildInv`, the loop invariant of the two loops of
  `build`: after n entries the map has the first entry's value for Global, and
  answers for every level seen so far what its entry says (`Entered`).
* `CopiesAreFaithful` (`CopyFaithful`): from `CopyInv`, the loop invariant of
  `setFromBase`: the logger's repository answers what the entries replayed so
  far say (`Told`). A Global entry would undo that; where Global leads the copied
  list it is replayed before there is anything to undo (`ToldNext`). What the
  repository answers the logger answers (`LookupsAgree`).
* `OnlyOpenFiles` (`WritesWhereItCan`): from `WriteInv`, the loop invariant of
  `insertFile`'s loop: the levels turned off so far are those whose streams are not open
  (`Writes`), and every level seen has a stream (`Opened`); Global's file is
  looked at first (`FileLevel`), so it is known which value the others fall
  back on.
* Lemmas about every operation on a list (`UnsafeSetFacts`, `SetFacts`, `SetValue`,
  `SetToDefaultKeeps`, `SetRemainingToDefaultKeeps`).

Identity and sessions (`ClientSettingsProofs`), for every set of hosts, known
clients and configurations and any number of calls, sessions and errors:

* `RequestsTogether`, `LogsGranted`, `HandshakesRead`: from `IInv`. The properties
  only speak of connected clients and of the last handshake; what holds them up
  is what a client keeps while it is not connected: that id and keys fit unless
  they were set anew (`Keyring`), that a session in use can be renewed (`Ready`),
  that the host is the connecting client's unless a configuration moved it
  (`Settled`), and that the connection a save would write is one that was granted
  (`Stored`), as is the one in the file. `Doomed` says of a handshake that could not
  be answered which client is left: one without an id, in a connection that it
  loaded of another.
* One lemma says what `reset` assigns at every outcome (`ResetFacts`), one that a
  handshake of a fitting client leaves a good one (`HandshakeGood`); connecting,
  renewing, the dispatcher's reconnect and an expired connection that is loaded
  all end in it.
* `ErrorsLatest` (`LatestErrors`): the list holds the errors raised last, in their
  order, and at least `kErrors` of them where so many were raised. It is inductive:
  trimming keeps the latest ones and appending one yields the latest again
  (`Latest`'s lemmas), once per error of a handshake. That it holds at most
  `kErrors` is not true (section 4).

Log statements (`LogWriterProofs`), for every number of threads, loggers, files,
trackers and occasional locations, and every set of programs whose statements nest
as `LogWriterAssumption` says:

* `OccasionsExact`: from `HitsInv`. How often a location has passed says nothing
  of the next hit, so `Position` ties the counter to the number of hits: they
  agree modulo the period for as long as `validateHitCounts` starts over at
  kMaxLogPerCounter modulo the period, and a period beyond kMaxLogPerCounter
  leaves the counter at kMaxLogPerCounter + 1.
* `LocksExclusive`: `Exclusive` from three invariants. `StacksInv` says what a frame
  can be and what may lie beneath another (`StackOk`: what waits beneath is at a
  step that executes statements, unless a crash lies on it; no thread is within
  two checkpoints). `LockInv` says that a lock's depth is the number of its
  owner's frames that need it; for a logger that was left locked, at least
  that, without which the invariant would not survive the step that leaves it.
  `ReportsInv` says which reports a tracker has not heard of yet: its last
  checkpoint is the last report, or a thread that holds its lock is about to
  say so. Each step is one lemma (`...Effect`: which frames and which locks it
  moves); that depths follow frames is said once (`CountMoves`, `LocksMoved`).
* `CirclesNest`: `DeadlockNeedsNesting` from the first two. Of a circle in which
  a thread executes one statement only, another thread waits for what it has;
  so it has a lock and waits for another, which only a statement before its
  dispatch does, and waits for Storage's; who owns that waits too, which
  only a crash in the middle of a dispatch can do.
* `FilesStayBounded` (`FilesBounded`): from `FilesInv`. Buffers: a closed file has
  nothing buffered (`Sound`), flushing, closing and opening settle a file
  (`Settles`: nothing buffered or a stream that fails), and a line that is written
  is counted or drained. Sizes: a thread that is about to write to a strictly
  checked file has room for its line (`Roomy`), because it checked under
  Storage's lock, which makes it the only writer (`OneWrites`), and what others do
  to the file meanwhile makes it no longer.
* `LinesStayIntact` (`LinesIntact`): from `LinesInv`. `Known` says of a statement at each
  of its steps what its logger's stream holds: nothing before its head, its name
  once before its tail, twice before the dispatch, its message at the callback;
  and that an empty message comes of a first logger that is `Silent` (disabled or
  missing). Others cannot disturb it (`Discreet`: a step changes the stream of a
  logger that is free or its own, and removes only what nobody has locked);
  statements nested in it can, where they log to the same logger, so `ThreadOk`
  says that those in a message do not, unless the outermost one is one that
  `LogsToItself`, and that only the outermost is ever between its head and its
  tail (`Nested`). `TextHeld` says whose text a stream holds, so that a logger that
  has just been locked is empty. What was written stays (`LinesStay`: flushing,
  closing and rolling keep a file's lines, the past ones included).
* `LinesWrittenOnce` (`WrittenOnce`): from the invariants before it and `OnceInv`, which
  has three parts. `NamesInv`: names are unique. A frame's name extends the one
  beneath it by a number that `calls` has counted (`Called`), unless a crash lies
  between the two, which counts nothing (`Buried`); and a frame has written to the
  loggers before its own, at most to that one (`Behind`), so that nothing has yet
  the name and the logger of a line that is about to be written. `StoredInv`:
  from the callback to the release, which other threads cannot disturb, the line
  is in its file once or was refused. `RefusedInv`: a file that one logger has to
  itself is open and does not fail, but between the two steps of rolling it
  (`Ready`), which only who has the logger's lock is in; or for ever once a crash
  lies on a roll (`Stuck`), and then the only one to write is the thread
  that crashed.

Texts, times, requests and configurations (`LogTextProofs`), for any texts, times,
stamps, durations, file systems, statements, clients, modules, command lines and
configuration files that `LogText`'s assumptions admit (a time is one of January, a
stamp fits the word, a number is a natural one, a module's level a digit and its name
free of separators; a line of a global file is a header, a level, a setting or empty,
without quotes, without spaces before its comment and not the renamed key
`MILLISECONDS_WIDTH`: `Understood`):

The results are about what the code computes; that an answer stays with its
question until the next call is the lemma they share (`Answered`).

* `RequestsCorrect` (`RequestsTellAll`): what `requestToJson` leaves out is empty or
  zero, and which way `mktime` takes a time is undone by the client's clock but
  for the hour of summer.
* `TimesCorrect` (`TimesRight`). A difference: it is not negative and fits the
  word, so that `% W` leaves it. A duration: `formatTime` divides by one unit's factor
  after another, and quotients of quotients are the quotient by the product (`Counted`,
  `Factors`). A date: the loop of `parseFormat` over the 20 tokens of the default
  format is followed from one to the next (`AtPercent`, `AtField`, `AtSeparator`), so that
  the text is what `DateShown` says: the digits of year, month, day, hour, minute,
  second and subsecond, in this order and padded to fixed widths; a smaller one
  sorts before a larger one (`DatesRight`), and subseconds of three digits or more are
  padded before they are cut.
* `FilesCorrect` (`FilesAsNamed`). The name of a log file: `CutOut` says that what
  `resolveFilename` takes out are the braces after the date. The directories: `Makes` is
  the invariant of the loop in `createPath`, that the places made are those on the way
  that were not there, and `PartThere` that it stops at the first closed one. It needs
  the assumption that what is closed is there. The name of a source file: what
  `buildStrippedFilename` shows (`StrippedShows`) and which part of the path
  `buildBaseFilename` hands to it (`BaseIs`).
* `VerboseCorrect` (`VerboseAsAsked`). A second invariant, `VerboseInvariant`: the
  registry is what was given so far (`Registered`), that is each name with each suffix
  at the level it was first given (`Kept`). To keep it, the reader of `-vmodule` is
  followed through the list of modules, character by character within an entry
  (`ReadEntry`) and entry by entry (`EntriesRead`), and `setFromArgs` through the
  arguments (`ArgumentsTaken`). That nine suffixes added and taken away in turn leave
  each of the nine names is `ExtendedBySuffixes`. Then `wildCardMatch`, which calls
  itself, matches just when the end of the text is among the positions the pattern
  can have reached (`MatchReaches`), so that a module covers a file exactly when one of
  its nine names matches (`CoversIs`), and the answers are those asked for (`AllowedIs`).
* `ConfigurationsCorrect` (`ConfigurationsAsWritten`). A number: the loop of `getULong`
  is followed to the place values that `Decimal` adds up (`NumbersRead`). A global file:
  `Gathered` is the invariant of `configureFromGlobal`'s loop, that what has been
  configured and what is kept for the section in progress are what the lines so far
  say (`Said`), for each logger and for none; it holds because a header ends a section
  and begins one (`OwnerNext`, `LevelNext`) and because the parser, called on the lines of
  a section, starts at no level (`ParseNone`), so that nothing reaches the next logger
  (`FilesRead`). A value in quotes: `Laid` says where the characters of the value stand
  in the line, escaped as `FormatLine` escapes them. The closing quote is the first that
  no backslash stands before (`CloseStep`), a comment is cut off behind it (`IgnoredIs`),
  and the loop that takes backslashes out (`UnquoteStep`) frees one quote at a step and
  moves what follows (`Freed`), so that what stands between the quotes at the end is
  the value (`ValuesRead`). A backslash in the value, two quotes in a row or a quote among
  the last two characters are not told apart by these loops; `Plain` leaves them out.
* What loops compute (`Loops`), lemmas of mathematics that the results need. The
  community modules define folds by recursion over sets of indices, and the library's
  induction theorems take an operator, which the provers cannot instantiate. `FoldSteps` gets around both: a set of numbers
  that is not empty has a least one (`LeastNat`, from the well-foundedness of < on
  the naturals), hence a function that calls itself on smaller arguments exists
  (`RecursionExists`), hence a fold has the values g[0], g[1], ... that its loop goes
  through; over two texts, one after the other, it is the second's from where the
  first's ended (`FoldConcat`). `Op`, the loop's body, is a constant of the module and
  is given by INSTANCE for each loop.

Only model-checked:

* All liveness (`SendEnds`, `CallsReturn`, `QueueDrains`, `StatementsEnd`, and of
  `KeepsReliablePromise` the part about fairness), which is out of the prover's reach.
* `LineAsSpecified` of `LogText`. A format is rewritten in place, a pass for each kind of
  specifier, with positions that each pass moves, and a container is shown with the
  containers in it; what the passes compute together is an induction over data, which
  the provers cannot instantiate, and the invariant of each pass is not written down.

## 6. Not modelled

* Cryptography and the wording of JSON: they decide between outcomes, which the
  models choose. Profiling code and `InternalLogger`: output without state.
* residueCrashHandler's disconnect() and what a signal finds in the middle of a
  library call; stack traces and their demangling; calls of the operating system
  (`OS`: environment, shell commands, Android properties).
* Asynchronous logging (`AsyncDispatchWorker`, `AsyncLogQueue`):
  ELPP_EXPERIMENTAL_ASYNC is never defined by the build.
* Hierarchical logging, syslog and coloured terminals; wide characters, Qt's,
  Boost's and wxWidgets' containers beyond those of `LogMessages`; the numbers
  that standard streams write.
* The path of `ResidueDispatcher::handle` where gmtime returns null.
* Setters without readers in the modelled code (application id, thread names,
  internal logging level).
* That `m_errors` and `m_host` are written by two threads without a lock: the
  interleavings of handshakes are in `ResidueClient`, their data in
  `ClientSettings`.
* Vendored code (`deps/`), samples and build files.

## 7. What could follow

1. The reliable theorems for expired sessions in programs that make no call while
   the dispatcher renews one.
2. Hierarchical logging, once the library is built with it.
