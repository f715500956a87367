# Verification of go-egts

go-egts decodes and encodes EGTS packets (a protocol of vehicle terminals) and
has a gateway, `egts_gateway`, that takes packets from terminals over TCP and
delivers each of them to every enabled destination: stdout, rotating files,
other EGTS servers, RabbitMQ and Valkey streams. The gateway is where the
program's own logic is: a queue, a delivery loop with retries, sessions, a dump
that survives a restart, and log rotation. This directory models it in TLA+,
checks the models with TLC and proves the main results with TLAPS.

`PROJECT.json` lists components, runs, mutants, the source lines of every
definition, hazards, findings and theorems.

## The system

| Component | Source | State | Operations | Talks to |
| --- | --- | --- | --- | --- |
| Terminal connections | `gateway/server/connection.go` | per connection: authorized, source, relay identity, answer and record counters | `handleConnection`: read, authenticate, enqueue, wait, answer | queue (`enqueue`, `item.done`), relay sessions, terminal |
| Queue and delivery loop | `gateway/server/queue.go` | `queue`, per item the destinations left, `wake`, per target `busy`, `failedSince`, `retryAt` | `enqueue`, `deliver` and its workers | connections, destinations, dump, sessions |
| Relay sessions | `gateway/server/relay.go` | `pending`, `closed`, one EGTS writer per destination | `newRelaySession`, `endRelaySession`, `shouldRelay` | connections, loop, EGTS relays |
| Server life cycle | `gateway/server/server.go` | `accepting`, `clients`, contexts, wait groups | `Run`, `newServer`, `serve`, `accept` | all of the above |
| Queue dump | `gateway/server/dump.go` | dump file, `hasDump` | `saveDump`, `restoreDump` | queue, file system |
| Rotating file | `gateway/configuration/rotation.go` | active file, archives, open handle, size | `prepareRotatingFile`, `Write`, `rotate`, `open`, `cleanup`, `Close` | file system |
| File and stdout destination | `gateway/destination/writer.go` | `closed`, `writeErr`; the deadline of the stream | `WriteContext`, `Close` | rotating file, stdout |
| EGTS relay destination | `gateway/destination/egts.go` | connection, identity it was authenticated for | `WriteContext`, `authenticate`, `exchange`, `Close` | another EGTS server |
| RabbitMQ destination | `gateway/destination/rabbitmq.go` | socket, connection, channel, three notification channels | `WriteContext`, `connect`, `waitConfirmation`, `Close` | broker |
| Valkey destination | `gateway/destination/valkey.go` | connection | `WriteContext`, `Close` | Valkey |
| Packet codec | `egts/packet` | none | `ReadFrame`, `ReadPacket`, `Encode`, `PrepareAnswer`, `PrepareSRResultCode` | |
| Subrecords, checksums, records | `egts/subrecord`, `crc`, `gateway/destination/record.go` | none | codecs | |
| Configuration, logging | `gateway/configuration`, `gateway/logger` | none after start | `Validate`, `ValidateOutputs`, `PrepareLogger` | file system, dump |
| Commands | `cmd` | `egts_server`: two atomic counters | `main`, `handleConnection` | |

What is hard about it, and what makes each part correct:

* **Queue, loop, sessions.** Any number of handlers, one loop and one worker per
  destination share the queue under a mutex that is given up between the steps
  of a pass. A delivery that was promised must not vanish in a compaction, a
  retry, a stall or the shutdown; the order per destination must hold; a
  session must stay open for the packets a terminal leaves behind and be closed
  after the last of them; nobody may wait for ever.
* **Dump.** The file is replaced while the loop goes on and rewritten after each
  delivery. Failures of its steps and of the process or the host may come
  between any two of them.
* **Connections.** What a packet claims about its terminal may count only if the
  packet is accepted; an answer must agree with what the queue has.
* **Changes between runs.** The operator changes destinations, limits and
  directories and redirects outputs; a dump must fit or be refused, stay
  undamaged, and be readable where its destinations are.
* **Stdout.** A goroutine moves the deadline of a stream that all calls share.
* **Bytes.** A damaged length must not make a packet out of what follows it,
  answers must fit, and what is decoded must be encoded again.
* **Rotation.** Link, remove, close and open are four calls, each may fail, the
  process may end between them, and the clock may go back.

## Modules

| Module | Models | Steps |
| --- | --- | --- |
| `Gateway` | server.go, queue.go, relay.go, dump.go, the handlers of connection.go as far as the queue sees them | one per critical section or blocking call |
| `DeliveryContract` | abstract specification: what the gateway promises terminals and destinations | |
| `DumpFile` | dump.go and main.go over changes of the configuration between runs | a save or a start is one step |
| `Outputs` | outputs.go, logger.go: where the gateway writes to and which outputs conflict | operators |
| `Services` | what the services of a packet hold, for the two that read them: `Connection` and `EgtsRelay` | operators |
| `Connection` | connection.go with the contents of packets, `shouldRelay`, the records of `PrepareAnswer` | one per packet read, answer written |
| `RotatingFile` | rotation.go | one per call to the file system |
| `PacketFile` | writer.go for the packet file, composed with `RotatingFile` | |
| `EgtsRelay` | egts.go: the client's steps | one per call to the network, per frame read, and the goroutine of the cancellation |
| `EgtsPeer` | `EgtsRelay` with a server of the protocol | |
| `GatewayChain` | `EgtsRelay` with the handler of `Connection` at the other end | |
| `Destination` | abstract specification: what the delivery loop expects of `WriteContext` | |
| `RabbitMQ`, `Valkey` | rabbitmq.go, valkey.go with their brokers and client libraries | one per call to the network or turn of `select` |
| `Stdout` | writer.go for the standard output, with the goroutine of its deadline | one per write, context or goroutine |
| `Destinations` | one destination of any of the kinds `RabbitMQ`, `Valkey`, `Stdout`, `EgtsPeer` | |
| `Checksums` | crc8.go, crc16.go: the tables and the two sums | operators |
| `Subrecords` | egts/subrecord: `Decode` and `Encode` of every kind | operators |
| `Packets` | egts/packet over bytes: frames, checks, decoding, encoding, answers | operators |
| `EgtsServer` | cmd/egts_server and `ReadFrame`, composed with `Packets` | one per frame read, number taken, packet written |
| `...Proofs` | theorems, see below | |
| `MC...` | values of the constants for TLC | |

Operators whose names begin with `Mutant` are faulty forms of the definition
that follows them. No specification uses them; replacing a definition by its
faulty form makes the property named in `PROJECT.json` fail.

### Gateway

A packet is an element of `Packets`, the slice `s.queue` the set `queue` with
the order `arrival` (the code only appends, compacts in order, saves and
restores in order, which is why a number given at the end of the queue is
enough). `pending[p]` is the set of destinations that have not taken `p`: the
booleans and maps of `pendingPacket`. Only which destinations are EGTS relays
makes a difference to the loop (their packets hold a session); the other kinds
have the same branches.

| Code | Actions |
| --- | --- |
| `accept`, `newRelaySession` | `Accept`, `Register`, `SessionFails`, `AcceptFails` |
| `handleConnection` | `Enqueue`, `Refuse`, `Delivered`, `Answer`, `HandlerEnds` |
| `deliver` | `Top`, `PassOver`, `Start`, `Return`, `Awake`, `Failure`, `Success`, `LoopSaved`, `Finish` |
| worker goroutine | `AttemptOk`, `AttemptErr` (the destination may have taken the packet although the attempt fails) |
| time | `Tick`: whole seconds, up to `DumpAfter` |
| `saveDump` | `Snapshot`, `Replace`, `SyncDirectory`, `SaveFails` |
| `serve` | `BeginStop`, `CloseConnections`, `HandlersDone`, `DeliveryDone`, `ServerSaved`, `Exit` |
| the world | `Stop`, `Crash`, `Restart` |

`disk` is the dump a reader finds, `synced` the one found after a failure of the
host: they differ between the rename and the sync of the directory. `owed`
records the promised deliveries that were neither made nor lost by an end of the
process without its shutdown. In mode `queued` such an end loses packets; the
README of the repository says so ("a forced process termination or host failure
before a dump can lose queued packets"), and `NothingLost` is about all others.

### Connection

A packet is a sequence of services with items (module `Services`); the services are
told apart by their pair of types only. `known` is the triple the handler carries from packet
to packet, `next` the triple a packet would make of it. The queue takes or
refuses at will, writing may fail at any time. Answers are kept with their
numbers (the counters wrap at `Numbers`, 65536 in the code).

### RotatingFile and PacketFile

Names and files are separate, so that a file can have two names; a file is a
sequence of entries, one per call of `write`, with the bytes that call has left.
`pc` is the next call of the operation in progress and `why` the operation.
Every call may fail, up to `MaxFaults` times; `Crash` ends the process anywhere.
An operation that fails ends as its caller makes it end (`Fail`): a failed start
closes the file, which cleans up once more. `PacketFile` adds the `Writer`, with
its memory of a partial write, and the gateway that hands it a packet until it
is confirmed, over restarts.

### EgtsRelay, EgtsPeer, GatewayChain

`todo` holds the packets of the dialogue that are left, the current one first:
after `Dial` those of `authenticate` and the packet of the record, on a kept
connection the latter alone. `wait` is what the loop of `exchange` tests
(`pending`, `transportOK`, `authOK`, `required`). `Call` to `Proceed` are
`WriteContext`; `Check` and `Send` are two steps because the goroutine that
interrupts a cancelled call (`Interrupt`) may come between them. `sent` is a
history of what went over the present connection. A record is identified by its
number and its pair of service types; the code's key has the two types apart.

In `EgtsPeer` the server owes (`owed`) an answer to every part of what it got,
gives it in any grouping and order, with "in progress" before, or never, and may
send frames nobody asked for. In `GatewayChain` the answers are those of
`Connection`: `line` is what the first gateway has sent, read by the second in
order, `heard` counts the replies the first has read. A new connection gets a new
handler; the old handler, which may still be at work then, is dropped.

### DumpFile and Outputs

`cfg` is the configuration and `layout` what the file system makes of it: the
directory a name stands for, links between outputs, things no directory of
outputs may hold. Both change only while the gateway is down (`Reconfigure`). A
dump belongs to a directory, so that a change of `dump_directory` leaves one
behind. `Written` marks a dump that something else was written to: the log, an
error before there is a log, packets on stdout or in the packet file. `main` is
silent about a conflict of outputs that stderr is part of, but `Validate` looks
at the values, and at what the directories are, before it compares outputs: an
error found there (`FoundEarly`; of the values other than the capacity and the
destinations only whether they are right is modelled, `sound`) is written to
stderr even if that is the dump (main.go:24-28). The dump is in `spoiled` then,
and refused by every later start. `OnlyEarlyErrors` says that this is the only
way to damage a dump, and that nothing replaces a damaged one. `Version`
and `Accepts` are the two sides of dump.go that must agree. A save is one step
here: its own steps, their failures and the rest of the server are in `Gateway`.

`sent` holds the packets a terminal has sent, `owed` the deliveries promised,
`saved` those among them a dump was written for; a crash ends the promise of the
others, as in `Gateway`.

### Destinations, Stdout

A worker drives one destination and shares nothing but the queue with others, so
`Destinations` picks a kind at the start and runs the module of that kind, and its
properties hold for the kind that was picked. In `Stdout` a line has two parts;
`deadline` is that of the stream, which `Interrupt` may move at any time after the
context of its call is done. `output` has the call that wrote each part.

### Checksums, Subrecords, Packets, EgtsServer

Frames are sequences of bytes. A packet that was decoded keeps the bytes of fields
nothing is computed with. `Subrecords` has, for each kind, the fields `Decode`
reads and those `Encode` writes, two lists that nothing but the code keeps in
step. Coordinates are floating point numbers in between; the number written is
the one read or one less. In `EgtsServer` a connection sends frames of a script. A
frame has the packet that is meant and the bytes that come of it: the same, or one of
them damaged, or, at the end of a connection, only the first of them
(`ScriptAssumption`). `counter` is shared by all handlers, and a number is taken in a
step of its own.

A checksum is written as what the bytes from a place on make of a register, the last
byte first (`Update8`, `Update16`), and the decoder as a function over sequences: the
values are those of the loops in the code, and nothing is declared RECURSIVE, which
the prover could not take. The exclusive or is computed bit by bit, once, into a
table.

### RabbitMQ, Valkey, Destination

`Destination` is the contract `Gateway` assumes of its workers: an attempt that
returns no error has made the destination take the packet, once, in this attempt;
after an error it may or may not have. `RabbitMQ` implements it with
`taken` = the broker has routed the message that was published last, `Valkey`
with `taken` = the stream has an entry of this call. Requests under way on a
connection that is closed are forgotten: what a broker does with them after the
attempt is outside the contract (a packet may be delivered twice, with the same
message identifier).

## Runs

| Run | Instance | Shows |
| --- | --- | --- |
| `gateway_crash` | 2 packets of one terminal (one is relayed), file and relay, queue of 1, two lives, failures and crashes anywhere | nothing promised is lost (`NothingLost`), dumps are exact after an orderly exit (`ExitDumpExact`), restorable (`DumpRestorable`), never forget (`DumpNeverForgets`); session counts (`RefsCounted`); the gateway implements `DeliveryContract` (`Fulfils`) |
| `gateway_sessions` | 3 packets of two terminals, one relay, queue of 2, two lives | order (`OrderKept`), life of sessions (`SessionLife`), nothing left running (`CleanExit`) |
| `gateway_live` | mode `delivered`, two packets (one has no destination), queue of 1, two destinations that may fail for ever; fairness | `AckedDelivered`; the shutdown ends (`StopExits`), handlers do not wait for ever (`WaitEnds`), a delivery is made or the process exits (`QueuedMoves`) |
| `rotation` | 5 records of 1 and 2 bytes, files of 2, 3 in total, 2 archives; a file of 3 bytes an earlier configuration has left; a clock that moves at will; 2 failing calls, 2 lives | `Readable`, `OneName`, `WithinLimits`, `LatestKept` |
| `packet_file` | 3 packets, file size = total size, 3 failing calls, 3 lives; fairness of the attempts | `OneTearPerLife`, `DueIsWritten` |
| `joined_line` | 3 packets, 1 failing call, 2 lives | the first finding (`NoJoinedLine` is violated) |
| `connection` | 4 packets out of 10 kinds, numbers modulo 4 | `OnlyAuthorized`, `IdentityKnown`, `AnswersAgree`, `NumbersDiffer` |
| `destinations` | 3 calls of each kind of destination: 2 messages for brokers and a pipe with room for 3 halves of a line; for EGTS 3 packets (two records; an identity; one that is refused), credentials, numbers modulo 4; fair timers | they implement `Destination` (`Fulfils`), `RabbitQuiet`, `StdoutUndisturbed`, `Confirmed`, `NothingOwed`, `Admitted`, `CallEnds` |
| `relay_cancelled` | one call | the second finding (`InterruptHeld` is violated) |
| `gateway_chain` | 3 calls, 2 packets, 2 terminals, the right or a wrong password | `Relayed`, `UnderIts`, `NeverDenied`, `NoMutualWait` |
| `egts_server` | every byte of four frames damaged in four ways, frames cut short, subrecords of every kind, flag and length up to 61 bytes, answers up to and over the longest packet, two handlers whose packet counter wraps around | `OnlyUndamaged`, `InStep`, `AnswersRight`, `Recoded` |
| `dump_file` | 2 packets (one with data, one mixed), 2 IDs, 8 configurations (two are refused for a value), 8 layouts, a dump of version 2 or none, crashes | `DumpServes` (`OwedKept`, `OnlyEarlyErrors`, `Restorable`) |

Bounds and why they are enough:

* Gateway: the properties relate one packet to one destination, to its
  predecessor in the queue or to its session. Two packets and two destinations,
  one of each kind, give every relation; a queue of 1 makes it full; two
  terminals give a session that ends while the other goes on. Two lives give an
  end of the process, a restored dump and its use; the memory of a process
  starts from the dump only, so a third life begins in a state a second one can
  begin in. `DumpAfter` = 1 lets a destination fail for too short and for too
  long a time. `MaxLives` and the finite set of packets are the only bounds.
* RotatingFile: with sizes of 1 and 2 bytes, files of 2 and 3 in total a file
  can be full, almost full and too large, an archive fit, not fit or fit alone.
  Two failures are needed for the worst case of a rotation (the name cannot be
  removed and the link cannot be undone). `MaxTime` bounds archive times,
  `Clock` what the clock shows.
* Connection: `Numbers` = 4 makes both counters wrap in eight answers; the kinds
  of packets are one for each branch of the handler.
* Destinations: a call depends on earlier ones through the connection or the
  stream that was left behind; three calls are one that leaves it, one that uses
  or loses it and one after that. Four packet numbers are as many as a dialogue
  can use, so packets of different calls share numbers and the numbers of the
  authentication wrap around.
* egts_server: `Longest` is 145 instead of 65535, which an answer to ten records
  exceeds and one to nine does not; `Given0` is 65534, so that the counters wrap
  with the second packet. The frames are what terminals send: nothing but their
  bytes and their order reaches the code.
* DumpFile: the configurations have every kind of destination alone or
  together, none, one or two relays, capacities 0 to 2, all outputs of the log,
  values that are wrong, and three directories of which two are the same. The
  layouts link each output to the dump alone, stdout and stderr together, and
  stderr while the directory of the log cannot be read, so that an error is found
  before and after the outputs are compared. Nothing else bounds the run: the
  finite set of packets ends it.

Fairness. `FairSpec` of `Gateway` asks that goroutines which can run do run, that
an attempt ends (every writer is given a context with a deadline of what is left
of `dump_after_seconds`, or a second for stdout, and interrupts its calls when it
is done), that time passes, that `listener.Accept` and the calls of a closed
connection return, and that answers are written (`SetWriteDeadline` of 30
seconds). Terminals, `Stop`, `Crash` and `Restart` are not fair. `PFairSpec` asks
that the loop makes attempts and operations in progress continue. `FairSpec` of
`Destinations` asks that `WriteContext` goes on, that its timers run (dial
timeout, `SetDeadline` of a connection or of a pipe) and that a file takes what is
written to it; no server need answer, nobody need read the pipe or cancel.

### Findings

1. `gateway/destination/writer.go:124`: "Stop after a partial write so later records
cannot join an incomplete JSON line." The stop is a field of the running
`Writer`. A partial write fails every later attempt, so the gateway saves its
queue and exits after `dump_after_seconds`; the next process opens the file for
appending and the packet of the dump is written behind the incomplete line and
confirmed, on one line that is no JSON. `joined_line` shows it; what does hold
is `OneTearPerLife`.

2. `gateway/destination/egts_test.go:178`: "EGTS confirmation wait ignored
cancellation" is the failure of a test that cancels while the relay waits. If the
context is cancelled earlier, between `ctx.Err()` and `SetDeadline` of `exchange`
(egts.go:189 and 197), the goroutine sets its deadline first and `exchange`
replaces it: the wait ignores the cancellation for `ack_timeout_seconds`, or what
is left of `dump_after_seconds`, and the shutdown waits with it. `relay_cancelled`
shows it; what does hold is `CallEnds`.

## Proofs

All theorems hold for every value of the constants that satisfies the named
assumptions of the module they are about.

**`GatewayProofs`.** Assumptions: finite sets, every packet has a connection,
relays are destinations, limits are positive, `None` is none of the others.

* `TypeCorrect`: `Spec => []TypeOK`. One lemma per group of actions; `Counts`
  (cardinalities of finite sets are natural numbers) and `LoadType` (what a
  process restores is typed) are what they rest on.
* `Inductive`: `Spec => []IInv`. `NothingLost` is not inductive. A delivery can
  only be dropped when the loop records a result, compacts, or saves and exits,
  and each is harmless for a reason that the invariant must carry: items in
  `done` have no destination left (`Known`), a worker's packet is one the queue
  still has and a positive result means that the destination took it
  (`Recorded`), the two users of `saveDump` exclude each other (`Places`), the
  records collected by the last save of `serve` are the queue, since handlers,
  loop and workers have ended by then (`LastDump`), and a handler that confirms
  in mode `delivered` holds a packet whose destinations have all taken it
  (`Confirmed`). There is one lemma per group of actions, with one step per
  action and one per conjunct it disturbs.
* `NeverLost`: `Spec => []NothingLost`, `AckMeansDelivered`:
  `Spec => []AckedDelivered`, both from `Inductive`.

`ContractKept` (`Fulfils`), in the same module: the gateway implements
`DeliveryContract`, step by step. The mapping needs `ContractInv` beside `IInv`: a
delivery is owed or made and never both (`OwedOnce`), what a dump, the queue or a
worker holds is accounted for and the dump on the disk and the one a host would
find after a failure differ by deliveries that were made (`Covered`), only packets
that were sent are answered (`Handled`), and a stopping server has nobody left that
it needs gone (`Gone`). `DumpsForgetNothing` (the action property
`DumpNeverForgets`) follows from the same invariant. `ExitsWithExactDump` and
`AlwaysRestorable` have invariants of their own (`ExitInv`: which dump is current
between the two saves of a shutdown; `RestoreInv`: no dump ever has more records
than the queue has room for).

The last part of the module is about sessions and the end. `CountsRight`
(`RefsCounted`): the counter of a session is the number of relays of its connection in
the queue, because a worker holds a delivery of the queue only once (`Held`).
`SessionsKept` (`SessionLife`): sessions are open while a terminal or a delivery needs
them and closed by whoever is last.
`ExitsClean`: an exited process has nothing running. `OrderAlways` (`OrderKept`):
each destination takes packets in the order of their arrival; `OrderInv` has what
a retry, another destination and a restart leave of it.

**`DestinationsProofs`.** `PromiseKept`: RabbitMQ, Valkey and stdout implement
`Destination`. `IInv` says what may be under way on a channel that is used again
(nothing) and in what order returns and confirmations of the present message may
be on its way; `ChannelsQuiet` (`RabbitQuiet`) is a part of it.
`StreamUndisturbed` (`StdoutUndisturbed`): only the goroutine of the present call
can be there (`WatchInv`), and every line of the output is whole but that of the
present call and the one that stopped the writer (`OutputInv`).

**`ConnectionProofs`.** `Authorized` (`OnlyAuthorized`), `Answered`
(`AnswersAgree`), `Identified` (`IdentityKnown`), from three invariants over the
histories of a connection: a connection is authorized only after a packet with the
right credentials was queued, and a denial is the last thing answered (`AuthInv`);
what is answered positively is queued or asked for credentials, and a packet in
the queue is answered unless the connection has ended (`AnswerInv`); what a
connection remembers is what the accepted packets said last (`NameInv`). `Numbered`
(`NumbersDiffer`) is about counters that wrap: `NumberInv` says how far each number
lies behind the last one given, counted in packets and in records, so that two equal
numbers are a whole turn of the counter apart, for counters of any width.

**`DumpFileProofs`.** `DumpsServe` (`DumpServes`: `OwedKept`, `OnlyEarlyErrors` and
`Restorable`), for all configurations and layouts, also those where an output
is the dump, and dumps of earlier releases. `ConfigAssumption` and
`LayoutAssumption` say what kind of values these are and that a packet with data is
not mixed, `EarlierAssumption` that a dump of an earlier release is one it could
write. `IInv` adds to it that what is in memory fits the
configuration of the process, that what is in a dump fits its version, and that a
running gateway has in its queue what the dump of its directory has and is still
owed: without the last a save would replace a dump by less. `Unlinked` is the use
the code makes of `ValidateOutputs`: no output that passed it is the dump.
`TooEarly` is the other half: an error that is written to a dump was found before
the outputs were compared. Deliveries saved in such a dump are not forgotten by
`OwedKept`, which says in which of the two kinds of dump each one is; what the error
has left of the file is for the operator to repair.

**`RotatingFileProofs`.** `OneNameAlways` (`OneName`), from `IInv`: when the active
file has a second name the next `open` removes it, or fails and leaves no operation
that goes on (`NameInv`); between the link and the removal of the active name the
youngest archive is the only other name (`Linked`), which is why undoing the link
removes the right one. A file that is created has no name yet because there are
fewer names than files (`FreshIsNew`, by the pigeonhole principle).

* `LimitsHold` (`WithinLimits`): `PlaceInv` says which file the handle, the active
  name and the next archive are between any two calls, `RoomInv` what `cleanup` has
  yet to remove and how much room that makes. The size of a file is the number of
  its bytes, a set of pairs of entry and place, so that sizes are added by the
  library's facts about cardinality and no induction over entries is needed.
* `ReadableAlways` (`Readable`) and `LatestAlways` (`LatestKept`), from `OrderInv`:
  a written record is in a file that has a name until that is removed, and each entry
  of an earlier record is followed by one of a later record, further on in the same
  file or in one with younger names (`Follows`), as long as the later one is not
  removed. The same holds for what `cleanup`, if it is at work, will keep, except for
  records it had set out to remove when it was interrupted (`spared`): a file that
  only stays because of that has no others (`SparedStay`). That an entry may be there
  twice, after a failed attempt, is why the order is stated of entries and not of records.
* `OneTearAlways` (`OneTearPerLife`) of `PacketFile`, from `TearInv`: every step of
  `PacketFile` is one of `RotatingFile` or of the `Writer`, and a writer that has
  left an incomplete line writes nothing more.

**`EgtsPeerProofs`.** `OnlyConfirmed` (`Confirmed`), `DebtsPaid` (`NothingOwed`) and
`OnlyAdmitted` (`Admitted`) of `Destinations`, about the steps `EgtsPeer` takes in it.
None is inductive. `DebtInv` relates the two ends of a connection: whatever the server
still owes, `exchange` still waits for (`Waits`), also after "in progress" has
taken a confirmation back. `SaidInv` says that what is not owed was said, and said
to be right unless credentials were asked for. `AnswerKeeps` is the one hard step.
For `Admitted`, `SentInv` has what was sent and what is left of `todo` make up the
dialogue the call began with, and `AcceptInv` that the server has accepted each packet
of the authentication before the present one. `RelayAssumption` keeps the names of records apart from what
else a frame can speak of.

**`GatewayChainProofs`.** `DoneIsTaken` (`Relayed`), `RightTerminal` (`UnderIts`),
`NothingDenied` (`NeverDenied`) and `NoStandstill` (`NoMutualWait`) for any packets,
passwords and settings of the two gateways, any number of calls and of packets on a
connection, and a connection given up at any point. All four follow from one
invariant, `IInv`: of what the first gateway has sent, the second can be behind with
one packet only, the last in line but for answers, at place `c` (`LineInv`). The
replies are those to earlier packets, `o` of them, and then those to this one, one or
two (`Full`) depending on whether it takes part in the authentication (`ReplyInv`). What
the first gateway waits for is told by how far it has read these (`LinkInv`). The
second has to know enough before each packet of a dialogue (`Ready`) and knows enough
for the next afterwards (`Post`, `PostReady`); `Decides` is the argument that its
handler, given that, denies nothing and learns the right identity. `WireData` is
where the two readings of a packet meet: the identity a record came with is the one
the other gateway will find in it, because both take the last.
`ChainAssumption` adds that services are sequences of records, as the decoder makes
them. `Unaffected` and `NothingMoves` carry the parts of the invariant over the steps
of one side.

**`EgtsServerProofs`.** For all packets and connections that satisfy `ScriptAssumption`.
The proof goes from bits to the readers:

* `Table8Apart`, `Table16Apart`: the tables have another entry for every byte (of CRC-16,
  another low byte). Neither is computed. A round of `MakeTable` of crc8.go can be undone,
  because the polynomial is odd and the lowest bit tells whether it was added
  (`Shift8Apart`); eight rounds of that of crc16.go move the bits that fall out of the
  high byte into the low one in their order (`ShiftedApart`). A byte of a sum is told by
  its bits (`SameBits`), which is how exclusive or is reasoned about.
* `ChecksumsNotice`: hence one step of `Update` tells two registers apart, and two bytes
  (`StepsTell`), and sequences that differ in one byte have different sums (`OneNoticed`).
  The sequences are of any length. The induction over data that the provers cannot be
  given is replaced: a set of natural numbers has a smallest element, so there is no last
  place where what is claimed fails (`Downwards`), and in the same way the recursion of
  `Update8` and `Update16` is shown to define a function (`FromExists`).
* `HeaderNoticed`: `ReadFrame` gives no frame for a header with a damaged byte, also when
  that is the byte of the checksum, or of the flag that says how long the header is.
  `DataNoticed`: damaged data, or a damaged checksum of theirs, never give the result OK.
* `ReadersInStep` (`InStep`), `InStepAsSent`. `InStep` speaks of what was read and is not
  inductive: what is read next depends on the wire. `IInv` adds `Aligned`: as long as a
  reader is in step the bytes on the wire are the frames sent and not read, each in its
  place, nothing before, between or after them (`Placed`). `ReadsNext` is the step where
  the two lemmas on damage meet it. TLC has checked `IInv` on the instance of
  `egts_server`, with the places computed. `FramedOnlyUndamaged` is what follows for
  `OnlyUndamaged`, which is about readers out of step too: it holds if all connections
  are read with `ReadFrame`.

Only model-checked:

* everything with fairness (`StopExits`, `WaitEnds`, `QueuedMoves`, `DueIsWritten`,
  `CallEnds`): the prover has no `ENABLED`;
* `Recoded` and `AnswersRight` of `EgtsServer`. They say what decoding makes of bytes; the
  decoder recurses over them, and facts about what it gives for all inputs need an
  induction the provers cannot be given. (What is proved of this module needs of the
  decoder only the checks that come before it.)
* `OnlyUndamaged` on connections of `egts_server` itself. Its reader cuts a frame before
  the checksum of the header is known; once out of step it may cut anything, and no
  theorem can exclude that bytes in the middle of a packet have both checksums right. The
  run shows that those of its frames have not. Frames that are damaged in more than one
  byte are in no run and no theorem: a checksum of 8 bits cannot notice them all.

## Not modelled

* A record of the dump as JSON. A line of more than 131072 bytes would be written
  and not read: IDs of destinations have no limit of length (`DumpFile` has no
  lengths). Duplicates and syntax errors in a dump that no release writes.
* Reading the configuration from TOML and the environment, and the values of it
  that concern one destination only; they are checked once, before anything runs.
* `ValidateOutputs` races with renames and removals in the directories it reads;
  the write it guards then fails and is tried again. In `DumpFile` outputs are
  linked and directories changed while the gateway is down only. What stderr
  overwrites in a dump it is linked to: whether it appends or not, the dump is
  damaged, and `items` is what was saved in it.
* The array behind the slice of the queue: compaction moves the items that stay to
  its front (queue.go:137). The slice is used under `s.mu` only, or after all other
  goroutines have ended.
* Other writers in the directory of a rotating file (the check "Output file was
  replaced while open"). A failure of the host that loses bytes `RotatingFile` has
  not synced. A record longer than `max_file_size_bytes`: `RotatingFile` refuses it
  without a change; the gateway then stalls on it, in every life.
* `destination.Record` (a conversion to JSON without state), logging but for where
  it goes, and `egts_client`, which sends one fixed packet.
* The rounding of coordinates: `Subrecords` allows both neighbours. Values of the
  sensors are bytes.
* The steps of `connect` in rabbitmq.go one by one: each failure has the same
  effect. A failing `SetDeadline` in the goroutine of a call that has succeeded.
* A frame that gives different codes to different parts in `EgtsPeer` (they come
  in frames of their own there; in `GatewayChain` frames are those of the code).
* `Gateway` refuses mixed packets (`Mixed`); its runs have none, `connection` and
  `dump_file` do, and the proofs are about any.

## Plan

Done: the delivery core (`Gateway` with its contract and its proofs),
connections, destinations of every kind, rotation, the dump with its versions,
the codec over bytes and `egts_server`; proofs of every safety property that does not
depend on what the decoder makes of bytes.

Left, in this order:

1. The handlers of `egts_server` apart from the bytes: that the numbers taken by one
   handler are consecutive only if no other takes one in between, and what `AnswersRight`
   says of turns, for any decoder.
2. The server of `EgtsPeer` as an abstraction of `Connection`: `GatewayChain` shows
   the two against `EgtsRelay` separately.
3. A failure of the host in `RotatingFile`, with bytes that were not synced.
4. Steps of `ValidateOutputs`, interleaved with a rotation of another output.
