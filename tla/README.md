# A TLA+ model of the ICS communication server

The repository holds two programs built on asio: `ics-center`, the server of a
central platform, and `ics-proxy`, a server at a remote site. Terminals (weighing
instruments behind a gateway) connect to either; the center connects to proxies and
passes commands of a web front end on to terminals, directly or through a proxy, and
stores what terminals report in a database. This directory models the parts of both
where threads, failures and orders of events matter, checks them with TLC on small
instances and proves some of the results for every instance with TLAPS.

## The system

Each process has two threads at work: the main thread runs the asio loop, so every
accept, read, write completion and message handler runs on it ("io" in the models);
the timing wheel has a thread of its own that runs timeouts ("timer"). There is no
strand and hardly an atomic: the two meet in the members of a connection.

| Component | Code | State | Operations | Correct when |
|---|---|---|---|---|
| Receiving | `icsconnection.hpp` `do_read`, `handleData`, `handleMessage`; `icsprotocol.cpp` `verify` | `m_recvBuff`, `m_recvSize`, `m_valid` | read completion, cut into messages, handle, refuse | messages come in order, whole, once; a good one is never refused |
| Sending and memory | `icsconnection.hpp` `trySend`; `icsprotocol.cpp` `ProtocolStream`; `mempool.cpp` | `m_sendList`, `m_isSending`, `m_serialNum`, the pool's list, the streams on each stack | get, put, serialize, push, post, complete, fail, destroy | one owner for each chunk, none lost, no queued message forgotten |
| Timing wheel | `timer.hpp` `TimingWheel` | 64 lists of tasks, the current point | add, tick, run or keep a task | every task runs at its tick |
| Connection timeout | `icsconnection.hpp` `timeout`; `connectionTimeoutHandler` | `m_timeoutCount` | count, reset by a message, close, register again | silent peers are closed, others kept |
| Proxy sessions | `icsproxyserver.cpp` `handleAuthRequest`, `error`, `addTerminalClient`, `removeTerminalClient` | `m_terminalConnMap`, `m_gwid`, `m_replaced` | authenticate, replace, go offline, tell the center | the registry holds the one valid connection of each gateway, the center knows who is online |
| Proxy forwarding | `icsproxyserver.cpp` `forwardToIcsCenter`, `sendToIcsCenter`, `IcsCenter` | `m_icsCenterConnMap` | reports to every center, commands to a terminal, forward results | a report reaches each center once, a command is answered truly |
| Center sessions | `icslocalserver.cpp` `IcsTerminalClient` | `m_terminalConnMap`, `m_gwid`, `m_monitorID`, the database's online status | authenticate against the database, replace, go offline twice (`error`, destructor) | the database shows online exactly the connected terminals |
| Remote links | `icslocalserver.cpp` `IcsRemoteProxyClient`, `IcsWebClient::handleConnectRemote` | `m_proxyConnMap`, `m_isLegal`, `m_remoteIdToDeviceIdMap` | connect, two-way authentication by time stamps, receive reports | one registered link for each enterprise |
| Web commands | `icslocalserver.cpp` `IcsWebClient` | command status in the database | forward, record the result | what is recorded is what happened |
| File upgrade | `downloadfile.cpp`; both `handleRequestFile` | map of loaded files | load, serve a fragment | fragments lie in the file, a missing file is found once it is there |
| Reports | `icslocalserver.cpp` handlers, `icspushsystem.cpp` | `m_lastBusSerialNum`, database | store, push | each report is stored once |

How they interact: a connection's read handler calls `handleData`, which calls the
subclass's `handle`; handlers send on their own connection (the response), on the
connections of centers (`sendToIcsCenter`, under the lock of the map) or of a terminal
(`dispatch`); `do_error`, from either thread, calls the subclass's `error`, which
changes the registries, tells the center or writes the database. All messages live in
chunks of one pool of fixed size (50 by configuration).

The hard part is what `PROJECT.json` lists under "hazards", each at its line:
the two threads in `do_error`, `error` and the registries; a connection closed between
the read of a message and its handling; the pool at its limit; exceptions between two
chunks; the reset of the timeout counter; bytes left over between two reads.

## Modules

Each component has a module of its own; `MC<module>` gives it finite constants and the
`.cfg` files are its TLC runs. Properties and mutants stand in the module they are about,
theorems in `<module>Proofs`, but for the two halves of one connection, receiving and
timeout, whose proofs share `ConnectionProofs`.

Two runs are of two modules each: `connection` of `RecvBuffer` and `TimeoutWheel`
(`MCConnection`), `remote_commands` of `RemoteLinks` and `Commands` (`MCRemoteCommands`).
The two have no variable in common, and a variable `part` says which of them moves in a
behaviour while the other rests in a fixed state; so the states are the sum of the two
state spaces, and each property says of its module what it would in a run of its own. Nothing
that the fairness of the resting part is about is enabled. `MCNext` lists the disjuncts of both
next-state relations one by one, so that TLC counts how often each is taken.

| Module | Program | What it has | Proved |
|---|---|---|---|
| `RecvBuffer` | both | one connection's buffer, byte by byte | all safety properties but the divergence |
| `SendPath` | proxy | both threads, chunk by chunk | all safety properties but the divergence |
| `TimeoutWheel` | both | wheel and timeout counter, tick by tick | all safety properties |
| `ProxySessions` | proxy | registry and what the center is told | all safety properties |
| `CenterTerminals` | center | registry and what the database shows | all safety properties |
| `RemoteLinks` | both | the links between center and proxy, and their authentication | all safety properties |
| `Commands`, `CommandSpec` | both | a command from the web to a terminal, and its recorded status | the refinement |
| `FileUpgrade` | proxy | the loaded file and the pieces of it that terminals fetch | the safety property |
| `CenterReports` | center | what is remembered, stored and acknowledged of reports | the safety property |

The modules are composed at narrow places. `CenterTerminals` and `RemoteLinks` are the two
registries that `Commands` looks into: a lookup that fails or finds a connection which has
just ended is a choice there, as both registries allow either at any time. `SendPath` says
what becomes of a queued message, `Commands` and `CenterReports` only that it arrives in
order or is lost with its connection. What a handler does when its dispatch of an upgrade
loads a file is `FileUpgrade`; that it may throw is in `Commands`.

### RecvBuffer (with ConnectionProofs)

The variables are the buffer, `m_recvSize`, the index of `head`, and the peer's stream
as a choice of the initial state. One action for each way `handleData` can go: a read
completes (`Receive`), the length check fails (`LengthError`), `verify` refuses
(`VerifyFails`), the handler returns or throws, a partial message is moved to the front
(`PartialMessage`), the loop ends (`LoopEnds`, where a short rest is not moved). A byte
carries what the cutting can tell apart: its place in a head, a length field, or its
position in the stream, which stands for its value, so a checksum is right exactly when
every byte is.

- `connection`, first part: streams of up to three messages of the least size, one more, and the
  size of the buffer, the last one good, damaged, too short, too long or wrong; every
  split into reads; closes by the other thread. With ConstLen 2, MinLen 5 and BufSize 11
  the buffer holds two messages and a byte, and the leftovers are of every kind: within the constant part of a head, beyond it, a whole
  head. Shows order, completeness, room for the next read, and that a good message is
  refused only after `lost`, the history of a rest that was not moved. A read that the
  kernel has completed when the connection is closed is handled all the same. The liveness
  property `EventuallyDelivered` (what is complete is always delivered at some later time, or
  the connection is closed) assumes that the IO thread goes on and that posted reads
  complete when there is data or the socket is closed, which asio and the kernel promise.
- `recv_buffer_legal` finds the divergence: two good messages and a read that ends a few
  bytes into the next one. The comment at `icsconnection.hpp:256` says a complete message
  is there; what is handed on is stale bytes.

Proved, for all sizes with ConstLen + 2 =< MinLen =< BufSize and all streams that are
sequences of messages (`IsStream`): `IInv`. Its core is `UnreadIsStream` (the unread bytes
are those of the stream, but for a stale front shorter than MinLen) with `AtBoundary`
(everything consumed is whole messages) and `NameInFront` (a stale front no longer than
name and version equals what it stands for, since the buffer still starts with a head).
The listed safety properties follow from it.

### SendPath (with SendPathProofs)
Both threads of the proxy, step by step: where a thread is (`pc`), the chunks of the
streams on its stack (`slot`), the locks, the send list and the posted write of each
connection. A terminal's report takes up to three chunks (response, stream to the center,
copy for the center's connection); an exception returns those on the stack; the copy is
sent under the map's lock. `m_serialNum++` is a read and a write. A message is handled to
its end also when the other thread has closed the connection; whether a terminal whose
connection fails has anything to announce (it may not have authenticated, or have been
replaced) is a choice.

- `send_path`: one terminal, one center, four chunks (one less than two threads can ask
  for, so the pool runs dry in the middle of a handler), serial numbers modulo 2, sockets
  that fail at any time, connections destroyed with a backlog and connected again. Shows
  `OneOwner`, `AllAccounted`, `FrontInFlight`, `NoLostWakeup` and that terminals get
  consecutive serial numbers although the counter has no lock (only the IO thread sends
  to them; nothing of the kind holds for the center). Chunks are symmetric. Deadlock is
  not checked: a process that has aborted stops.
- `send_path_abort` finds that `error()`, declared `throw()`, throws when the pool is empty.

Proved, for any number of terminals and chunks and every width of the serial number:
`IInv`, and from it `OneOwner`, `AllAccounted`, `FrontInFlight` and `NoLostWakeup`. Two
arguments. Chunks move in seven ways (out of the pool, back to it, all of a stack back,
from the response to the message, onto a list, off its front, with a list to the leaked);
each keeps one owner for each (`StreamsMove`, `TakeOwners`, ... `PopOwners`), given that
the stream that takes a chunk is empty, which is what `OnStack` says for each place a
thread can be in. And a list is never forgotten, because `m_isSending` without a send
under way means that the connection is closed (`SendingOK`), and because a connection
that somebody refers to has not been destroyed (`ReachableIsAlive`), so a new connection
starts with no list. Assumed: that the names are distinct, and SerialMod > 0.

`TerminalSerials` follows from a second invariant on top of `IInv`, `SerialInv`: timer is
only ever in `trySend()` of the center (`OnlyCenter`), so nobody else touches the
`m_serialNum` of a terminal between its read and its write (`Counting`), and the numbers
on its list run from what the kernel has got to on to the counter (`Consecutive`).

Left out: message contents, and partial writes (a hazard, see the plan).

### TimeoutWheel (with ConnectionProofs)

The wheel as lists of tasks, the loop as one step for each task it visits (`timeout()`
in two steps, as `++` is not atomic), `add()` of an accepted connection in two (slot
computed, then inserted under the slot's lock). The definitions that every specification
has carry the wheel's name here (`WheelInit`, `WheelNext`, `WheelSpec`, `WheelTypeOK`), so
that ConnectionProofs can extend this module and RecvBuffer.

- `connection`, second part: two connections, a wheel of 2 slots, intervals 1 (less than a lap), 2
  (a lap) and 4 (two laps), m_timeoutMax 1 (2 in the code). Shows one task for each open
  connection, the exact tick of each handler, that silent peers are closed after
  TimeoutMax + 1 expirations and peers heard of in time are not closed. `FiresOnTime`
  is stated against the comment at `timer.hpp:78`, that a task times out after `interval`
  ticks: so it does for intervals of less than a lap; one of a lap or more comes exactly a
  lap early (`EarlyBy`). What the comment says of every interval is `FiresAfterInterval`,
  which is defined beside it, is in no run, and fails for interval 2 on the wheel of 2 slots;
  with the 64 slots and the heartbeat of 15 of the configuration the case does not arise.
  Two exceptions are histories: `late` (the loop overtook `add()`) and `resetLost` (a
  message between the read and the write of `++`); `HeardIsKept` excepts both. `SilenceEnds` assumes that the loop
  goes on and that a thread waiting for a slot's lock gets it.

Proved, for any connections, any size of the wheel, any set of heartbeats and any
`m_timeoutMax`: the four invariants and the action property `HeardIsKept`. None of them is
inductive. That a handler runs at its tick depends on where its task was put an interval
ago and on everything that the loop did since; that a connection is silent for so long at
most depends on when the task fires. `WheelInv` states both for every moment in between:

- `Placed`: no connection has two tasks in the wheel (`Unique`), one on its way has none
  there (`OneAdded`), every open connection has one or the other (`Watched`). `OneTask`
  follows from it.
- `Timed`: the age of a task and the ticks it has left are `TicksToFire`, what slot and
  count of laps make of the interval (`OnTime`); that this is the interval less `EarlyBy` and
  one tick more is arithmetic. What it has left (`Remaining`) is the distance of its slot from
  `m_currentPoint`, and `Extra`, the laps it will let pass, but no distance while it waits
  in the slot that the loop has locked. Each action keeps the sum: a tick adds one to the
  age and takes one from the distance, except for the slot that it enters, whose tasks wait;
  `Skip` takes a lap from `Extra` and puts the way round the wheel in its place; `Again`
  starts with an age of zero, and pushes into another slot or to the front of its own, where
  the loop has passed. A task on its way has the same sum until its slot's turn comes
  (`AddedOnTime`), from which moment on it is `late`. `FiresOnTime` follows from it.
- `Counted`, `NotLonger`, `NotShorter`: the silence is at most what the counter and the age
  account for, and at least that less one interval, the one in which the last message came,
  unless that message's reset was lost; between the two steps of `++` the same holds with
  the value read. `SilentIsClosed` and `HeardIsKept` follow.

TLC checked `WheelInv` before it was proved, with wheels of 1, 2 and 3 slots, intervals of
zero to four laps and `m_timeoutMax` 0, 1 and 2. Assumed is `WheelAssumption`: there is a
slot, heartbeats and `m_timeoutMax` are natural numbers. The lemmas in front
of the invariant say what remainders modulo the wheel's size are (`ModAdd`: a slot goes round
once at most) and what erasing a task from a slot and pushing one to its front do to all the
others (`Removed`, `Pushed`), which every action that moves a task cites.

### ProxySessions (with ProxySessionsProofs)

Connections, `m_valid`, `m_replaced`, `m_gwid`, the registry with its lock, and what each
center was told (`view`, lost with the center's connection). Handlers and `error()` are cut
where they read or write something the other thread may change. An announcement may fail half
way, with some of the centers told (`TellOnlineFails`, the pool of chunks being empty). A
center that authenticates (`CenterAuth`) is told nothing of the gateways that are online
then, as the message that would say so is built and never sent; `untold` is the history of
that. `raced` is another: the two threads were at the same gateway.

- `proxy_sessions`: three connections of one gateway (one closed, its successor, the
  successor's successor), two centers that come and go independently. Outside of races the
  registry is right (`RegistryRight`) and so is what each center knows (`ViewRight`), but for
  gateways that were online when the center came and have not changed since; a replaced
  connection takes nothing back; `addTerminalClient` never waits for its own lock (`NoSelfLock`);
  even with races an entry is never a live connection that serves another gateway or none
  (`EntryIsOwn`); every handler and every `error()` ends (`ThreadsEnd`, under fairness of
  each thread's steps and of the lock, which is held for one step only).
- `proxy_sessions_centers` drops the exception of `ViewRight` and finds a center that
  authenticates while a gateway is online and knows nothing of it, against the comment at
  `icsproxyserver.cpp:730` that all terminals of the moment are reported to it.
- `proxy_sessions_offline` drops the exception of races and finds, with both threads back in
  their loops, a gateway of which the center was last told that it is offline, while a
  connection serves it: the notice "1-offline" (`icsproxyserver.hpp:42`) of the first
  connection, from the timer thread, has overtaken the "0-online" of its successor.

Proved, for any number of connections and gateways, from the assumption that `None` is
none of them: all the safety properties of the run. Nothing is inductive as it stands,
since what a thread finds depends on what the other did to the same gateway; so the
invariant is stated under `~raced`, with `RacesNoted` (no meeting of the threads goes
unmarked) as its base. From there it follows a connection that has an id: it has the
entry, or is on its way in or out (`HolderOK`); an entry is that of a valid connection
with its id, or the thread that closed it is about to remove it (`EntryOK`); from removal
to the end of `error()` there is no entry (`GoneOK`); a center that was not `untold` of the
gateway knows what the registry says but for news on its way (`ToldOK`). `ReplacedIsClosed` shows that the branch of
`Replace` in which `do_error` would ask for the lock again is never taken.

Left out: a torn read of the string `m_gwid` (its race is undefined behaviour; the model
lets a reader see the value before or after).

### CenterTerminals (with CenterTerminalsProofs)

The center's counterpart of ProxySessions; here the handler talks to the database between
its steps. `AuthBegin` .. `Add` are `handleAuthRequest`, cut at each call that may throw
(`AuthFails` stands for all of them: `m_gwid` is already set, the monitoring point perhaps
not); `ErrorBegin` .. `Clear` are `do_error` and `error()`, by either thread;
`Destroy` and `DestroyOffline` the destructor, which calls `sp_offline` once more, with the
monitoring point's id (`byMonitor`: whether the stored procedure, which is not in the
repository, takes it for the terminal). `Start`, `Stop` and `Crash` are the process, with
`sp_clear_connection_info` called before the address is known.

The database and the registry may be wrong about a gateway for five causes, which the
history `why` tells apart: `raced` (the two threads at one gateway), `failed` (an
authentication threw after `m_gwid` was stored), `missed` (`sp_offline` failed in `error()`),
`late` (a destructor called `sp_offline` for a gateway that had come back), `crash` (what a crash left
behind, which the clearing at the start does not reach, as it is done at
`icslocalserver.cpp:1345`, before the address is read at line 1346). Each property excepts
only those that it needs, its comment names them, and each exception was checked to be
needed: they are what goes wrong there, and the hazards say which of them no property covers.

- `center_terminals`: three connections that compete for a gateway, both answers of
  `sp_offline`. Three is enough for a connection, its successor and the successor's
  successor, and for a destructor that comes late for the first. Symmetric connections.

Proved, for any number of connections and gateways: the four properties. As in
ProxySessions nothing is inductive alone. The invariant has what the threads cannot break
(`Objects`, `Ids`: a valid connection in the registry has the id it is registered under,
one that is being authenticated is not registered), `MeetingsNoted`, and for a gateway that
is not `raced` `OneThread` and `ShownHas`: if it is shown online, a connection serves it
or a thread is on its way to `sp_offline`. That part needs no exception for failed
authentications. `Holder`, `Entry`, `Going` and `EntryShown` add what holds while none has
failed. Assumed: that `None` is no connection and no gateway.

### RemoteLinks (with RemoteLinksProofs)

`Connect` and `Disconnect` are the web's requests; `Authrize1`, `AuthResponse`,
`Authrize2` the exchange of time stamps, of which only the outcome is modelled (`...Late`:
an echo took five seconds or more; every time is possible); `Close` is `do_error` with
`error()`. No timeout is registered for these connections at either end, so every handler
is one step of one thread. A link may hang without a word or be lost silently, so that the
center never reads the end that the proxy has sent (`ProxyHangs`), fail at either end, and the
center may crash, with what it told the database left behind.

- `remote_commands`, first part: three links of one enterprise, so that two can be opened before the first
  has an answer, and a third while the second is closing. `RegisteredIsLive` holds
  without exception, though `addRemotePorxy` does not mark the link it replaces and
  `error()` removes whatever entry there is. `LinkRight` excepts enterprises that have two
  links at once (`doubled`): there the second to close takes back what the other still
  uses. `Settles` assumes that both programs go on handling what arrives (each has a loop
  that does); it excepts links whose proxy hangs or that are lost silently: there is no
  heartbeat on them, and they stay open for ever. Nor does the fairness say that anything
  arrives over those.

Proved, for any number of links and enterprises: the three safety properties. The
invariant adds `LinkShape` (a link is legal from the response on) and `EnterpriseShape`
(unless `doubled` there is one open link; what is shown belongs to a legal open link or a
crash). The latter holds also while there are two links, which is why the agreement is
back once the last of them is closed.

### Commands (with CommandSpec and CommandsProofs)

`CommandSpec` is what the web may conclude from a status: "ok" (0) means that the
command was queued on the terminal's connection, "failed" (1) that the terminal has not had it
and never will, and whatever happens it comes once at most. `Commands` is how the code
does that: `ForwardLocal...` and `RecordEnding` are `handleICSForward`, whose status is
written after the dispatch; `ForwardRemote...` `handleRemoteForward`, which records
nothing and leaves it to the proxy's answer (`ForwardToTerminal...`, `HandleResponse`).
The links and the terminals' connections come and go, with what is on them lost; commands
that the proxy has read are handled although the center has closed the link (`astray`).

The refinement: `fate` says of a command how far it came, from the send lists, from what
terminals have received and from where the command still is; a command that were received
and on a list would be "twice", which is no fate of `CommandSpec`. `CommandSpec` makes no
exception, and the code breaks it in one place: a command for an enterprise without a link is
recorded with 0 at `icslocalserver.cpp:1032`, the value that means success at line 916. These
commands are set apart by the history `unlinked`, and the refinement is about the statuses of
all others (`stated`); for those set apart it still says that they are never received.

- `remote_commands`, second part: one command for a terminal of the center and two for the
  enterprise's, so that two are on the link at once, one behind the other. `Refines` is the
  refinement. `Answered` assumes that both programs handle what has arrived (`CenterGoesOn`,
  `ProxyGoesOn`); it excepts commands on a link that ends, those whose call of the database
  fails and those whose `dispatch()` to the link throws, for which no handler records
  anything (history `excused`).
- `commands_unlinked` asks the same of every status (`OkMeansQueued`) and finds the command
  recorded with 0 that was not forwarded, against the comment at `icslocalserver.cpp:1027`,
  which says that the failed forwarding is recorded.

Proved, for any commands: `Refines`, safety part and all (CommandSpec has no liveness). The
invariant says that a command without a status is at one place at most (`OnePlace`) and what
is known from there about its having been queued (`QueuedWhere`); the step lemmas show
for each action which fates change. Two theorems say what that means for the program:
`StatusesStayTrue` (a command recorded as failed was not received and is on no send list;
one recorded with 0 was queued, exactly when it is not `unlinked`) and `StatusesAreFinal` (a status is
never overwritten, a command given up is not received later). They are read off
`CommandSpec` (`PromiseKept`) and carried over by the refinement. Assumed: the two kinds of commands are disjoint and
`NoResult` is neither a command nor a status. (The names of `Commands` that every specification has are prefixed
- `CommandsInit`, `CommandsNext`, `commandsVars` - for the sake of the module that extends both.)

### FileUpgrade (with FileUpgradeProofs)

One file id: the entry in `m_fileMap`, what is on disk, and terminals that fetch the file
piece by piece with offsets that they compute from what they have. `Upgrade` loads the file
(`FileInfo`'s constructor, with the length cut to 32 bits and the bound of 50 MB), the
`Request...` actions are the four ways `handleRequestFile` can end. The entry is never loaded
again, so a file that was replaced on disk is served from the old mapping; one that is
written over shows through it, with the old length.

- `file_upgrade`: two terminals; four files: of the greatest length allowed, shorter, too
  long, and one whose length is cut modulo 2^w to something small; pieces of one byte and of
  more than a segment; two faults (a lost connection, a restart, a change of the file) in
  any combination. `OneVersion` excepts downloads during which the mapping changed
  (`spoiled`) and files of 2^32 bytes. `Completes` assumes that the program handles requests
  and that terminals go on asking; the number of faults is bounded, and a terminal that
  would lose its connection for ever would of course never end. Deadlock is not checked:
  when the faults are used up and no file can be loaded nothing is left to do.

Proved, for any terminals, versions, lengths and numbers of faults: `OneVersion`. The
invariant relates what a terminal has to the mapping (`Follows`) and the piece under way to
both (`NextPiece`); an empty piece means the end of the file because an offset that is not
spoiled never exceeds the length. Assumed: lengths are natural numbers, those asked for
and the segment are positive, `MaxSize < Word`.

### CenterReports (with CenterReportsProofs)

Reports with rows, each of which the database commits by itself; `Begin` remembers the
number of a business report, `Store` writes a row, `Return` is the end of the handler with
the acknowledgement of `handleMessage`, `Throw` any exception in between. The terminal sends
what is not acknowledged again, on the same connection or on a new one, and the center may
still handle what came on the old one. Its side (`Send`, `Resend`, `ReceiveAck`,
`Reconnect`) is not in the repository; it is the weakest that makes acknowledgements mean
something.

- `center_reports`: a business report and an event report of two rows each and a business
  report whose number is 0xFFFFFFFF, what the comparison starts with; two connections, one
  resend. `StoredRight` excepts that number, and, for "once", reports sent on two
  connections or with another business report in between, which the center cannot know
  (`again`). Of event reports the center remembers nothing: one that is sent again is stored
  again, and the property does not say otherwise. `Drained` assumes that the center and the terminal go on and that the last of
  the connections does not fail. Deadlock is not checked: once everything is acknowledged
  all is done.

Proved, for any reports, rows, connections and resends: `StoredRight`. That what is
acknowledged is stored rests on the connection being closed by an exception: the number it
remembers is then never compared again (`Stored`). That it is stored once rests on copies of
a report coming one behind the other (`Once`, `Together`).

## What is checked but not proved

Liveness (`EventuallyDelivered`, `SilenceEnds`, `ThreadsEnd`, `Settles`, `Answered`,
`Completes`, `Drained`), which is out of TLAPS's reach here, as it rests on fairness.
Every invariant and action property that a passing run checks is also a theorem. The
properties of the runs that expect a violation are refuted, not proved.

All theorems hold for every value of the constants that the named assumptions in the
modules allow. They are about the models: that an action does what the code does was
established by reading the code, at the lines that `map` in `PROJECT.json` names.

## What is not modelled

- Vendored code: `otlv4.h` and TinyXML, which are about nine tenths of the lines under
  `src/src`. It is used through a few calls each and has no state of this system. Of the
  system's own code the models cover what has state that outlives a handler.
- The fields of reports, parameters, logs and time requests: most of
  `icslocalserver.cpp` copies them from a message to a statement. Each is one call of the
  database that may fail, which CenterReports has for the two kinds with several rows.
- Messages relayed by a proxy (`handleTerminalMessage`): they always end in "must
  authrize at first step", since `m_gwid` of a link is never set; nothing is stored (a
  hazard, without a property).
- The center's own file serving: as built, without `ICS_CENTER_MODE`, it never has a file.
- What the push system loses when it reconnects (UDP, no acknowledgement, nothing kept).
- Starting and stopping: the wheel's thread, the two stops of the proxy's destructor, and
  objects that outlive the server they refer to. Listed as hazards.
- Partial writes of `async_send`, the torn reads of `m_gwid` and of the registry's hash
  table under the wrong lock: undefined or outside what a terminal's side is known to do.
- Configuration, logging, signals and utilities: straight-line code.
- The stored procedures: not in the repository; each call is an effect that may fail.

## Plan

Done, in this order: `RecvBuffer`, `SendPath`, `TimeoutWheel`, `ProxySessions`,
`CenterTerminals`, `RemoteLinks`, `Commands` with `CommandSpec`, `FileUpgrade`,
`CenterReports`; all with proofs.

What is left, most useful first:

1. Runs for two disagreements that the models show and no run does so far: the clearing at
   the start (`icslocalserver.cpp:1345`, with the address that is read one line below), which
   CenterTerminals has under the cause `crash`, and `FiresAfterInterval` in TimeoutWheel
   (`timer.hpp:78`).
2. The stops of wheel, servers and connections in the destructors, as a module `Shutdown`.
3. Partial writes in SendPath.
