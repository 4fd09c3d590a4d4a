# Verification of MQTT_Protocol

TLA+ specifications of the C++ code of this repository, the TLC configurations
that check them, and theorems that TLAPS proves. `LC` below stands for
`src/mqtt_paho/lib/lib-common`, where most of the program's own logic is.

To parse: `tlasany M.tla`. To check: `tlc -config X.cfg M`. To prove:
`tlapm MProofs.tla`. `PROJECT.json` lists the runs, the lines each definition
models, a mutant of the code for every property, and the hazards.

1. [The system](#1-the-system)
2. [Modules](#2-modules)
3. [Correspondence with the code](#3-correspondence-with-the-code)
4. [Runs](#4-runs)
5. [Fairness](#5-fairness)
6. [Proofs](#6-proofs)
7. [Where the code and its documentation disagree](#7-where-the-code-and-its-documentation-disagree)
8. [What is not modelled](#8-what-is-not-modelled)
9. [Plan](#9-plan)

## 1. The system

The repository holds three groups of programs: `lib-common`, a library with
which tests of an embedded device talk MQTT (through mosquitto) and run
programs; `mqtt_paho`, a publisher, a subscriber and a test that compares what
they leave in files (through Paho); and `mqtt_mosq`, two small demos.

### mqtt_util::Client (`LC/mqtt_util/src/Client.cpp`)

- **State.** `messages_` (a queue per subscribed topic), `message_ids_` (the
  identifiers acknowledged and not yet waited for), `subscription_status_`,
  one mutex, one condition variable; a connection and the loop thread of the
  library.
- **Operations.** `Subscribe`, `Unsubscribe`, `Unretain`, `PublishMessage`: hand
  a packet to the library, then wait up to two seconds for its acknowledgement
  and throw if none came. `GetLapiMessage`: wait for a message of a topic.
  Constructor (connect, start the loop, subscribe to announcements) and
  destructor (unretain the status, disconnect, join the loop).
- **Interactions.** Application threads call it; the loop thread of the library
  calls `on_publish`, `on_subscribe`, `on_unsubscribe`, `on_message`.
- **Hard.** An acknowledgement may come before, while and after its caller
  begins to wait; all waiters share one condition variable; identifiers have 16
  bits and come back; a queue may be erased under a receiver; the broker may
  deny, be silent or go away; the object dies while the loop thread runs.
- **Correct when.** No wakeup is lost; a call returns for its own
  acknowledgement only; messages are neither lost, repeated nor reordered; the
  queues agree with the subscriptions at the broker; the destructor ends and
  leaves neither a thread nor a status behind.

### mqtt_util::BackendProxy, UdsInterface, EcuVar (`LC/mqtt_util/src`)

- **State.** `BackendProxy`: `message_queue_`, messages it took from the Client
  and nobody has asked for yet. `UdsInterface`: a name, a state, and the three
  topics it subscribed. Both hold a reference to a Client others use too.
- **Operations.** `GetTransmitMessage` (any, or of one content),
  `GetAllocation`, `GetRelease`, `GetRequest`; constructors that subscribe and
  destructors that unsubscribe.
- **Hard.** Selective receive; a deadline that passes between two messages;
  several objects on one Client, whose queue and subscription they share; a
  defaulted move.
- **Correct when.** An object that has the Client for itself is a mailbox: oldest
  match first, nothing lost, repeated or reordered. With others it may lose
  messages; nothing else may go wrong.

### util::BackendConfig (`LC/util/include/util/BackendConfig.h`, `LC/util/src/Protobuf.cpp`)

- **State.** The configuration in memory, in a file, and as the backend was
  told; the message with the default configuration whose delivery is pending.
- **Operations.** `Init`, the content callback, the `SENT` callback.
- **Hard.** The callbacks come in any order; writing is an open that truncates
  and a flush that may fail; the process is killed anywhere and starts again.
- **Correct when.** Unless writing failed, the file follows memory and a restart
  does not take back what the backend was told.

### mqtt::MqttPublisher, MqttSubscriber and their test (`src/mqtt_paho/src`, `src/mqtt_paho/test`)

- **State.** `deliveredtoken_`, shared by two threads without a lock; a log file
  that the subscriber appends to and the test reads.
- **Operations.** `MqttMessage` publishes and spins; `msgArrvd` appends a record;
  `MockPublisher` reads an input file and publishes it; `FileReader` reads the
  last message of the input and of the log, and `ApplicationTest` compares them.
- **Hard.** Tokens come back; the delivery may be reported before the publishing
  call returns; the spin has no deadline; the subscriber dies within a record;
  payloads contain the separators of the log.
- **Correct when.** A call returns for its own delivery, and returns; what was
  received is what is read back; the test passes exactly when the message came
  through, and does pass once the call has returned and the log is written.

### test_util::Process, WatchFile, WaitFor, InotifyWrapper (`LC/test_util/src`)

- **State.** `pid_` of a child; an inotify descriptor with its queue, the mask of
  events read, the time left.
- **Operations.** Start, `Check`, `SendSignal`, destroy; `WatchFile`.
- **Hard.** Process numbers are reused after the child is reaped, also for another
  child of the test; `waitpid` may be interrupted; the test may die
  between the child's fork and its `prctl`; events come in pieces, are merged by
  the kernel, and may belong to a writer from before the call.
- **Correct when.** No child is left behind; no stranger is killed unawares; `WatchFile`
  returns true for a completed change and false only without one.

### test_util::SystemdNotify (`LC/test_util/src/SystemdNotify.cpp`)

- **State.** A datagram socket; outside the object, a path that is the same for
  every test of the machine, and `NOTIFY_SOCKET` in the environment of the test.
- **Operations.** Constructor (unlink, socket, bind, setenv), destructor (close,
  unlink), `GetNotification` (poll, then one datagram, 64 bytes of it).
- **Hard.** The path outlives a test that is killed, and is unlinked by whoever
  comes; programs started by one test may speak when another listens; `setenv`
  does not overwrite.
- **Correct when.** A test that has the machine for itself can bind, and is given
  what its program sent, in order, and nothing else.

### The rest

`ToHex`, the observers, `Version`, `SignalHelpers`, the mocks, the demos of
mosquitto and of the language: see section 8.

### How the parts interact

    test threads --> BackendProxy, UdsInterface, EcuVar --> Client --> mosquitto --> broker
                                                              ^-- callbacks --|
    backend client thread --> BackendConfig --> file
    unittest_pub --> MqttPublisher --> broker --> MqttSubscriber --> log --> ApplicationTest
    test --> SystemdNotify <--(path, environment)-- program
    test --> WatchFile --(subroutine)--> Process --> program --> file --> inotify --> WatchFile

## 2. Modules

| module | models | is used by |
|---|---|---|
| `AckedCalls` | abstract: what an acknowledged call promises | `MqttClient` implements it |
| `Mailbox` | abstract: selective receive | `BackendProxy` implements it; `UdsInterface` implements three |
| `MqttClient` | the Client in the middle of its life: threads, loop thread, identifiers, queues | `MCMqttClient`, `MqttClientProofs` |
| `ClientSession` | the Client from constructor to destructor, with the connection and the broker | `ClientSessionProofs` |
| `BackendProxy`, `UdsInterface` | the two objects over the queues of a Client | their `Proofs` |
| `BackendConfig` | the configuration, its file, the backend | `BackendConfigProofs` |
| `PahoPublisher` | `MqttMessage`, the callbacks of Paho, constructor and destructor | composed in `PahoTest` |
| `MessageLog` | the subscriber, its log, `FileReader` and the verdict | composed in `PahoTest` |
| `PahoTest` | the end-to-end test: input, publisher, broker, subscriber, verdict | `MCPahoTest`, `PahoTestProofs` |
| `Process`, `WatchFile` | a child; a watched file | composed in `TestBench` |
| `TestBench` | a test that runs a program and waits for its file | `TestBenchProofs` |
| `SystemdNotify` | the tests of a machine, the path they share, their programs | `MCSystemdNotify`, `SystemdNotifyProofs` |

They were written in that order: the Client first, since everything of
`lib-common` that talks goes through it; then what stands on it; then the
configuration, the Paho programs with their test, and the bench. Each `Proofs`
module extends the module it is about and holds its theorems.

`MqttClient` and `ClientSession` are two views of one class. The first keeps
identifiers, wakeups and the order within a queue exactly and lets the broker
do anything; the second abstracts those and keeps the packets in transit, what
the broker knows, and the life of the object. Together they hold every
statement of `Client.cpp` that changes state.

`BackendProxy` and `UdsInterface` take from the Client what `MqttClient` shows
of it: a queue per topic, filled in order, erased by `Unsubscribe`.

## 3. Correspondence with the code

A critical section of a mutex is one action; a call of a library is an action
of its own; whatever runs on another thread may come in between. Where the
code has no lock (Paho, `BackendConfig`, the file system) each access that
another party can observe is an action.

**MqttClient.** `pc[th]` is the place of a thread in its call: `idle`, `call` (the
library has the packet, the lock is not taken yet), `await` (the predicate is
about to be evaluated), `blocked` (in `wait_until`), `expired` (the deadline
came). A packet is numbered by `serial`; its message identifier is that number
modulo `MaxMid`, so reuse is visible. `notify_all` moves all `blocked` threads to
`await`; a spurious wakeup moves one. `acked`, `kept`, `taken`, `dangling` are
history variables: properties read them, guards do not. A thread whose queue
was erased while it waited is in `dangling`; when it touches the
queue the process ends with a fault, as one outcome of the undefined behaviour.

**ClientSession.** `outgoing` and `incoming` are the packets on their way;
`Lose` empties both and makes the broker forget the subscriptions (the session
is clean), `Reconnect` is the library's own. `life` follows constructor and
destructor: `connected`, `constructing`, `alive`, `destroying`, `unwinding` (the
constructor threw), `dead`. What may end the process is told apart in `process`: a
callback of an object whose members are gone (`use_after_free`), an announcement
that does not decode (`undecodable`) or whose status the library does not take
(`publish_refused`), each of which may come connected or not, and a destructor whose `Unretain` was
refused by the library (`refused`) or not acknowledged in time (`unacknowledged`).
`announced` records that a status went out after the packet of `Unretain`
(`UnretainSent`).

**BackendProxy, UdsInterface.** A message is its number and either its content id
or the set of objects whose comparison with their `UdsContext` succeeds: this
covers both variants of the preprocessor. Deadlines are a nondeterministic
choice at every point where the code looks at the time. A `Construct` subscribes
and a `Destroy` unsubscribes the topic for everybody, as the code does; moving
leaves the source with its reference to the Client, as the code does.

**BackendConfig.** Configurations are numbered as the backend issued them, 0 is
the default. `file` is `absent`, `empty` (opened and truncated), `corrupt` or
`valid`; an empty file parses as a message without fields. Opening and flushing
are two actions, both may fail, a kill may come in between. `Destroy` may hit a
callback that is under way, which then goes on or meets the dead object (`fault`).

**PahoPublisher.** The library assigns a token before the call returns, and the
receive thread may report its delivery before that (`LibrarySends`,
`Delivered`, `LibraryReturns`). `token_` is uninitialised in a new object, and its
value matters only if the library gives no token before the first one is stored:
`LibraryGivesNoToken` chooses it there, one that is no token, one that is, one
beyond all tokens. `deliveredtoken_` is a static of its translation unit: it
outlives the objects, of which a program has one at a time. It is volatile and an `int`: every round of the loop reads
it, and the race on it has the outcomes of whole reads and writes.

**MessageLog.** A text is a sequence of the few characters that the parsers tell
apart. `MsgArrvd` puts any beginning of a record into the file, as the buffer of
the stream may, and `CloseFile` the rest; a `Kill` in between loses that rest. What
is in transit goes with the connection, the session being clean. `ApplicationTest`
keeps no state and may run at any time: it is the operator `Verdict`, and the
properties speak of its value in every state.

**PahoTest.** `MockPublisher` reads the lines of the input into `PAYLOAD_`, a member
it appends to, and hands them to the `MqttPublisher` as one text with line ends.
`BrokerTakes` is the moment at which the broker accepts that packet and passes it
to whoever is subscribed; `BrokerConfirms` is its acknowledgement with the callback
`Delivered`, and needs the packet to be taken. `PublishOther` is a `pub` of the
command line. `watched` is history.

**SystemdNotify.** `path` says whose socket the fixed path leads to. Each system
call of constructor and destructor is an action, so that two tests interleave
between them. `env` is `preset` when the caller of the test has set the variable:
`setenv` leaves it. A program takes the variable of its test when it is started.
A constructor that throws leaves its socket open, after a failing `setenv`
(`SetenvThrows`) at the path, where nobody reads it; the test may go on and make
another object. A kill leaves the socket at the path, and may leave the program (`survivor`)
when it had not asked for a signal. A datagram that does not fit 64 bytes is
`long`, and `cut` when received. `crowded` are the tests that have shared the machine.

**Process, WatchFile, TestBench.** `child` is what the kernel knows; `pid_` says
whose number the object holds: the child's, nobody's, a stranger's, or a
sibling's, which is another child of the same test. `waitpid` treats the last
like the child: it gives 0 while a sibling runs, so that the destructor kills and
waits for it, and reaps it once it has ended. A signal to the test may end the
destructor's `waitpid` early (`WaitInterrupted`); the code does not look at the
result. `stray` and `mistaken` record which function reached a stranger or a
sibling. The kernel
queues an inotify event unless the last one queued is the same. `Read` takes up
to `Capacity` of them, the whole buffer of the code. `Throws` is an exception of
`ReadData` or of the subroutine. In `TestBench` the thread
of the test is in one place at a time, and a program that ends closes its file.

## 4. Runs

| run | module | distinct states | about |
|---|---|---|---|
| `client_shared` | `MCMqttClient` | 1,653,769 | two threads share two topics |
| `client_own` | `MCMqttClient` | 823,855 | topics of their own, identifiers reused, liveness |
| `client_duplicate` | `MCMqttClient` | | finds `NoDuplicateId` violated |
| `session` | `ClientSession` | 915,193 | constructor to destructor, with the broker |
| `config` | `BackendConfig` | 21,150 | updates, failures, kills |
| `config_default` | `BackendConfig` | | finds `DefaultIsPersisted` violated |
| `config_write` | `BackendConfig` | | finds `WriteResultIsTrue` violated |
| `proxy` | `BackendProxy` | 609,622 | two proxies on a Client |
| `uds` | `UdsInterface` | 981,692 | two interfaces on a Client |
| `paho` | `MCPahoTest` | 1,458,046 | the end-to-end test: two calls, one token, one kill |
| `bench` | `TestBench` | 2,736,862 | a program, its number, its file, two calls of `WatchFile` |
| `notify` | `MCSystemdNotify` | 555,906 | two tests on a machine, two notifications |

All runs but the three that look for a violation finish without an error. None
checks for deadlock: every one of these systems may stop, when the bounds are
used up and also in the code, where a caller may simply make no further call.
That waiting comes to an end is stated as liveness instead.

**client_shared** (`MaxMid` 4, `MaxPackets` 3, `MaxMessages` 2, symmetric threads).
Three packets let a call time out, its late acknowledgement be left behind, and
another call go on beside it; identifiers are not reused, which `AckedCalls`
needs. Two messages on a topic are the least that can be reordered or given
twice.
- `NoLostWakeup`: no blocked thread has what it waits for already there.
- `NothingLost`: what was put in a topic's queue is what receivers were given
  followed by what is queued.
- `StatusBeforeAnnouncement`: whoever reads an announcement finds it in the
  retained status.
- `ImplementsAckedCalls`: refinement of `AckedCalls`.

**client_own** (`MaxMid` 2, `MaxPackets` 4, `MaxMessages` 1). The first packet is that
of the constructor; the next two have both identifiers, and the fourth has that
of the second: `NotifyMessageId` can throw, and a call can meet the
acknowledgement of another.
- `DuplicateNeedsReuse`: `NotifyMessageId` throws only after a reuse.
- `OwnOrReused`: a call returns by its own acknowledgement, or by one left in
  `message_ids_` by another packet with its identifier; it throws although it was
  acknowledged only if it shared its identifier. This is what is left of
  `AckedCalls` when identifiers come back.
- `CallsEnd`: every call ends, whatever the broker does.

**session** (two threads, `MaxCalls` 3, `MaxMessages` 1, `MaxLosses` 1). Three calls
are a subscription, its withdrawal and one more that overlaps; one loss of the
connection shows what a clean session forgets.
- `EndsHaveCauses`: a callback meets a destroyed object only after the
  constructor threw with the loop running; an announcement that is not decoded, or
  whose status is refused, ends only a process that subscribed to the
  announcements; and when the destructor gives up on
  `Unretain`, the packet or its acknowledgement is still on the way, or a connection
  was lost: the Client itself drops no acknowledgement.
- `Agreement`: a queue exists exactly when the broker has the subscription, if
  the last call for the topic was granted, overlapped no other, and the
  connection was not lost since.
- `NothingMissed`: no message finds its queue missing, even one that arrives
  with the acknowledgement.
- `StatusWithdrawn`: the destructor leaves no retained status, unless one was
  published after the packet of `Unretain`.
- `DestructorEnds`.

**config** (`MaxConfig` 3, `MaxCrashes` 2). Two configurations are the least for one
to replace another; a third comes while the second is written. The second kill
hits the restart after the first.
- `FileFollowsMemory`: unless persisting failed, the file holds the
  configuration in effect.
- `ReportSurvivesRestart`: unless persisting failed, a restart does not bring
  back a configuration older than the one reported.

**proxy** (two objects, two contents, undecodable messages, `MaxMessages` 4).
Four messages let two of each content alternate.
- `ImplementsMailbox`: while an object has the Client for itself it
  implements `Mailbox`, through destruction and renewal.
- `OrderPerContent`: each object returns the messages of a content in order,
  also when shared or moved.
- `NeverWaitsForKept`: no call waits for a message its object already keeps.
- `LossNeedsSharing`: messages are dropped under a live object only after two
  objects shared the Client.

**uds** (two objects, `MaxMessages` 3: one message more than there are objects).
- `ImplementsMailboxes`: three mailboxes, while the object is alone on the
  Client; a message that is not for it costs the call its answer.
- `LossNeedsSharing`.

**paho** (`MaxToken` 1, `MaxCalls` 2, one message of another publisher, input of
one or two lines, one kill of the subscriber). The two calls may be of one object
or of two, and have the same token either way: that of a new object begins anew,
that of an old one has come back. Different tokens are the easier case, which the
proof covers. The texts are the least with and without a bar; the
messages are one before the kill, one appended to what it left, one after.
- `ReturnMeansDelivered`: a call returns only once the broker took its message and
  its own delivery was reported; the exception is a message that got no token
  while `token_` was uninitialised.
- `WaitEnds`: the spin ends, if the connection stays and a token was given.
- `ReadBack`: a record for each message, in order; only the line that was cut
  short, with the record appended to it, is spoilt. Payloads are of one line
  (`OneLine`): a line end in front of a text is a second line, which the log
  takes for a message of its own.
- `PassIsEarned`: the test passes only if the payload came through the broker,
  provided that no record is unfinished, no payload has a bar or a second line,
  and the input text no separator. Each proviso is needed: without the last one, a
  line spoilt by a kill and joined to another record can read like the input.
- `PassAfterReturn`: once `sendPayload` has returned and the subscriber has written
  what it was sent, the test passes, bars or not, provided that the subscriber
  was there all the while, the input has one line, and nobody else published last.
  It crosses the whole chain: tokens, broker, record, parser.

**bench** (`Timeout` 1, `Capacity` 2, `MaxEvents` 3, `MaxWatches` 2, `MaxReuses` 1). Three
events do not fit one read; two calls show what a writer from before the call does.
The number of a reaped child is given away once, to a stranger or to a sibling, while
an object holds it.
- `TrueIsEarned`, `NoMiss`: true only for a completed change, false only if none
  was read. A writer that had the file open before the call, or closes it
  unchanged, blurs the first: its close and the first change of
  another, read together, look like a completed change.
- `WatchEnds`: it returns, however busy the directory is.
- `ProcessSafe`, three parts: `NothingLeft`, a destroyed `Process` left no child,
  running or zombie, unless its `waitpid` was interrupted; `StrayNeedsCheck`, the
  number reaches another process only after a `Check` that returned false, and one
  that is no child of the test only by `SendSignal`; `DiesWithTest`, no program
  outlives the test, unless the test died before `prctl`. That a sibling may be
  killed by the destructor of another object, and a child left by an interrupted
  one, the code does and the property says when.
- `DestructorReturns`: unless the program ignores `SIGTERM` or a sibling is waited
  for in its place, for `waitpid` has no time limit.

**notify** (two tests, `MaxSent` 2, the tests symmetric). Two notifications are the
least for an order, and for one to be overtaken by that of another program.
A stale socket, a foreign one or none is at the path to begin with; the caller may
have set the variable.
- `NothingLost`: a test that has had the machine for itself since it made its
  object was given, or will be, exactly what its program sent, in order, cut to
  64 bytes; unless the variable was preset.
- `BindNeedsPath`: for such a test the constructor fails to bind only if the path
  is another user's, whatever an earlier test left there.

Bounds that are part of the system, and smaller here, are `MaxMid` and `MaxToken`
(65535 in the libraries), `Capacity` and `Timeout`; all other `Max...` only keep
the state spaces finite. The theorems hold for all of them.

## 5. Fairness

- `client_own`: weak fairness of a thread's own steps and of its deadline. The
  scheduler runs the thread and the clock runs; nothing is asked of the broker,
  the loop thread or the condition variable.
- `session`: weak fairness of the owner's steps inside the library, of
  `Disconnect`, `LoopStop` and the loop thread. Nothing makes the owner destroy
  the object, or the broker answer.
- `paho`: weak fairness of `LibraryReturns`, `SpinEnds`, and, while connected, of
  `BrokerTakes` and `BrokerConfirms`: with QoS 1 and a live connection the library
  delivers and reports it. Nothing makes the subscriber write, or anybody call.
- `bench`: time passes; the thread of the test is scheduled inside `WatchFile`
  and the destructor. Nothing makes the program end or the test call.

The other runs have safety properties only and assume no fairness.

## 6. Proofs

All theorems are of the specification itself, for every value of the constants,
from the named assumptions on the constants alone unless stated.

**MqttClientProofs.**
- `Typing`; `WakeupSafety` (`NoLostWakeup`): inductive by itself with the types,
  since every step that makes a condition true wakes all waiters in it.
- `Packets`, `DuplicatesNeedReuse`: a packet has its callback at most once, and
  identifiers of packets sent are distinct until `MaxMid` is exceeded.
- `CallsAccounted`, `Refinement` (`ImplementsAckedCalls`): assume
  `NoReuse == MaxPackets <= MaxMid`. The invariant says that for a thread that
  waits for an acknowledgement its identifier is in `message_ids_`
  exactly when its packet is in `acked`. It fails after a reuse, which is
  what `client_duplicate` shows; the assumption cannot be dropped.
- `QueueSafety` (`NothingLost`): for any number of racing receivers.
- `AnswerSafety` (`OwnOrReused`): no assumption. `ShareInv` says that waiting calls have
  packets of their own, and that one whose acknowledgement came and is not in
  `message_ids_` shares its identifier.
- `StatusSafety` (`StatusBeforeAnnouncement`): while the process runs, every
  announcement delivered is merged and published, and the one `on_message` is
  handling is published before it is queued (`StatusInv`).

**ClientSessionProofs.** `Typing`, `MessageSafety` (`NothingMissed`), `CauseSafety`
(`EndsHaveCauses`), `StatusSafety` (`StatusWithdrawn`), `AgreementSafety`
(`Agreement`), for any number of threads, topics, calls, messages and losses.
The properties speak of the two ends of a link; the invariant says what is on it.
- `LifeInv` and `CallInv`: when there is a loop thread, and who may be in which call;
  without a connection nothing is in transit.
- `SerialInv`: a packet and its acknowledgement carry the serial of their call, so
  that a thread that waits for a serial waits for one kind of packet and one topic.
- `KnownInv`: the topics of the broker, of subscriptions on their way and of messages
  coming back all have, or had, a queue: `Subscribe` makes it before it sends.
- `CauseInv`: what a destructor waits for is sent, answered or lost.
- `StatusInv`: no status follows the `Unretain` on the link, so none is left once
  `Unretain` is answered.
- `AgreementInv`, per topic that is not disturbed: its call is alone, its packet is
  the last one of the topic on the link, and once it is answered the broker is as
  the call wants it; with no call nothing of the topic is on the link.

**BackendConfigProofs.** `Inductive`, `Typing`, `FileSafety`, `ReportSafety`. `IInv` adds to the
properties that the default is written only while nothing else was
(`DefaultFirst`), that a content callback writes the configuration in effect
(`WritesCurrent`), that nothing is known before it is issued (`IssuedFirst`), that
between writes what is in effect is on the disk (`EffectiveIsDurable`), and that
what was reported is on the disk but while the file is rewritten
(`ReportedIsDurable`): the properties alone do not say what
a task half done is going to write.

**BackendProxyProofs.** `Typing`, `KeptSafety`, `LossSafety`, `OrderSafety`,
`Refinement` (`ImplementsMailbox`). The invariant orders, for each content, the
last message an object returned before those it keeps, and all of them before
the queue of the Client (`QueueOrder`, `KeptOrder`); an object that has never shared
the Client is alone and subscribed (`Unshared`); one that was never constructed
has returned nothing (`Fresh`). Lemmas about `RemoveAt` carry the search in
`message_queue_`. The refinement shows each step as a step of `Mailbox` or a
stutter, the destruction of the owner as `Close`.

**UdsInterfaceProofs.** `Typing`, `LossSafety`: an object that has not shared
is alone and subscribed as far as its constructor has come. `Refinement`
(`ImplementsMailboxes`): every step is a step or a stutter of each of the three
mailboxes (`MailboxStep`, once for any topic, then named for each), where a
message the owner's comparison rejects is one of the content `other`.

**PahoTestProofs.** `Typing`, `DeliverySafety` (`ReturnMeansDelivered`), `FileSafety`
(`ReadBack`), `PassSafety` (`PassIsEarned`), `ReturnSafety` (`PassAfterReturn`), for any
tokens, calls, kills, payloads and input files. The invariant has four parts.
- `DeliveryInv`: at most the current message is in flight, under the last
  token, its delivery is reported only once the broker has taken it, and the report
  is in `deliveredtoken_` exactly when it is confirmed.
- `FileInv`: the lines of the log are those `expected` says (`Kept`), and within
  `msgArrvd` the log is such a file followed by a beginning of the record, the
  rest of which is in `rest` (`InRecord`).
- `PlainLog`: without a bar in the payloads there is none in the log.
- `WatchInv`: the watched message is the last one on its way, or the last one
  received, and the line of the log that is its own is the last.

The rest is what the parsers make of such a file: `LinesAppend` and the lemmas
after it (the lines of two texts put together), `LogLast` (`getLastMessage` of the
joined messages is that of the last message with its mark, whatever bars it has),
and `Passes` (from there to the verdict).

`Lines` and `FlattenSeq` are recursive functions. The induction theorems of the
library take an operator and cannot be used, but the well-foundedness of `<`
on the naturals is a plain fact: from it follow `Least`, `SetInduction` and
`SeqInduction`, which are about sets and are all the induction that is needed.

Four faults of earlier models were found by these proofs and not by TLC:
`LogAssumption` did not say that lines of an input file have no ends of lines;
`OneLine` admitted a payload that begins with one; `PassIsEarned` lacked its
proviso on the separator, which matters for texts longer than those of the run; and
the arms of the `CASE` in `Verdict` overlapped, so that it chose any of them. In
`SystemdNotify`, no test may be named like one of the other places the path
leads to (`NotifyAssumption`).

**SystemdNotifyProofs.** `Typing`, `PathSafety` (`BindNeedsPath`), `NotificationSafety`
(`NothingLost`), for any number of tests and notifications. A test that is not
crowded is the only one at work and no program has survived another (`Alone`), so the
path is as it left it (`PathKept`) and a program has `NOTIFY_SOCKET` exactly when it
was started since the first object (`Inherited`). `Heard` then says that what the
test got and what is queued are what its program sent, datagram by datagram;
`NothingKept` begins it afresh with each object.

**TestBenchProofs.** A step of the bench is a step of each part or leaves it
alone (`Split`); each part has its invariant. `ProcessSafety` proves `ProcessSafe`
from who may have the number in each state: another only once the child is reaped,
which only a `Check` that returned false does while the object is in use; and
between the destructor's `Check` and its `kill` nobody frees the number of what
the `Check` found running. `Earned` and `MissesNothing` rest on `Unmissed` (a change is in the mask or
in the queue, and what completes it still in the queue behind it), `Honest`
(nothing is read that did not happen) and `Sharp` (without a blur, whoever
closes the file has changed it).

**Only model-checked.** Liveness (`CallsEnd`, `DestructorEnds`, `WaitEnds`,
`WatchEnds`, `DestructorReturns`): fairness and ENABLED are out of the prover's reach. The three runs that
show a disagreement with the documentation have nothing to prove. Every other
property of a run, invariants, refinements and action properties alike, is a
theorem. All proofs pass with every time limit of the provers cut to a third
(`tlapm --stretch 0.3`).

## 7. Where the code and its documentation disagree

- **`client_duplicate`** (`Client.cpp:260`). `NotifyMessageId` throws "Message ID
  already exists" when an identifier is still in `message_ids_`. `on_message`
  publishes the status without waiting for it, so its identifier is left there
  for good, as is that of a late acknowledgement. Once the library has
  gone round, a packet with that identifier makes the callback throw.
- **`config_default`** (`BackendConfig.h:162`). The doc of `Init` (lines 51-53) says the
  default configuration is written when the file is "not available or
  unreadable"; the callback asks only whether a file exists.
- **`config_write`** (`Protobuf.cpp:50`). `WriteProtobufMessage` is documented to
  return true if the message "was successfully written to file"; the result is
  computed before the stream is flushed.

Three behaviours about which the repository says nothing are listed as hazards
without a property: a callback of a destroyed `BackendConfig` (the model
reaches it as `fault`), a respond function that outlives its `BackendProxy`, and a
topic shared by two threads of which one unsubscribes: that erases the entry
`GetLapiMessage` refers to while it waits (`dangling` in `MqttClient`).
Several properties excuse what their hazard leads to, and say so: a message lost
after sharing, a file after a write that failed, a test that shares the machine.
They show that nothing else leads there; the notes of `PROJECT.json` name them.
Three more are worth a reader's attention, and are outcomes of the models and no
violation of any promise: `Unretain` that throws in a noexcept destructor, `publish`
refused in a callback, surely so after `disconnect`, and `connLost` with a NULL cause.

One test checks less than it seems to. `deliveredtoken_` is a static variable
defined in a header: the test of the publisher that compares it with 0 reads the
copy of its own translation unit, which nothing ever writes.

## 8. What is not modelled

- Wording and layout: `ToHex`, `ToString`, `Version`, logging, the contents of
  protobuf messages beyond what a comparison looks at.
- `EcuVar`, `PublishResponse`, `PublishConnectionState`, `GetRespondFunc`: they keep no
  state and call `PublishMessage` or `Unretain`, which `MqttClient` models. How long
  a respond function may live is not said anywhere.
- `SignalGroupObserver`, `MessageObserver`: adapters without state.
- `SignalHelpers` and its neighbours: conversions between values and library types.
- The mosquitto demos. The publisher is straight-line: one publication with QoS 0,
  which nobody confirms, and the end of the process. The subscriber's
  `main` names a class outside its namespace and does not compile.
- In `Process`, signals other than `SIGTERM`; in `InotifyWrapper`, the
  system-wide limit of its queue; `WaitFor` with other subroutines.
- In the Paho programs, the parsing of `argv` beyond which of the two branches is
  taken: any word but `pub` is `sub`, and with fewer than five arguments a string is
  built of NULL before anything is done.
- Mocks, exercises of the language, vendored code and build files. Of the 54,706
  lines of the implementation files about 51,000 are a vendored googletest: the
  program's own code is what the modules model.

The mosquitto and Paho libraries, the broker and the kernel are not under
`src/`; they are modelled by what the code uses of them, and the definitions that
stand for them are marked external.

## 9. Plan

Every safety property of the runs is proved. What is left:

1. More of what the proofs already show of the models: that `MqttClient` takes no
   acknowledgement twice, that a `Mailbox` gives the messages of a content in order.
2. The common view of `MqttClient` and `ClientSession`: one specification of the
   acknowledged call that both implement.
3. Respond functions of `BackendProxy`, should their life ever be documented.
