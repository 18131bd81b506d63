# A verification of MQTT-CLIENT's runtime

TLA+ models of the runtime of MQTT-CLIENT (Rust crate `mqtt_client`), the TLC
configurations that check them on small instances, and proofs that TLAPS checks
for every value of the constants. Paths below are relative to the repository.

## 1. The system

One OS thread owns a connection; any number of clients share it.

| Part | State | Operations |
| --- | --- | --- |
| `ClientHandle` (`src/client.rs`) | client id, next token, a `Sender<Command>`, a `Receiver<RuntimeEvent>` | `publish`, `subscribe`, `unsubscribe`, `recv_event` |
| `RuntimeHost` (`src/runtime/host.rs`) | the command channel, the registry | `new` (spawns the thread and drops the error it ends with), `new_client` |
| `ClientRegistry` (`src/runtime/task.rs`) | event channels by client id, behind a mutex | `register`, `remove`, `send_to`, `broadcast` |
| `RuntimeTask` (`src/runtime/task.rs`) | command receiver, driver, transport, parser, `last_tick`, router | `run`: `poll_command`, `poll_incoming`, `poll_tick`, and `handle_actions`, `handle_incoming_publish`, `reconnect` |
| `RuntimeDriver` (`src/runtime/driver.rs`) | `RuntimeState`, `clean_session` | `handle_event`: an event in, a list of actions out |
| `RuntimeState` (`src/runtime/state.rs`) | `active`, `await_pingresp`, two activity clocks, pool and store | the `on_*` handlers |
| `PacketIdPool` (`src/runtime/pkid.rs`) | `last_pkid` | `next_candidate`, `reset` |
| `InflightStore` (`src/runtime/inflight.rs`) | slots `outgoing`, counter `inflight`, `collision`, `pending`, `outgoing_rel`, `incoming_pub`, `last_ack` | `try_insert`, `release_ack` |
| `Router` (`src/runtime/router.rs`) | subscription entries | `add_subscription`, `remove_subscription`, `matching_clients` |
| `FrameParser` (`src/codec/stream.rs`) | bytes not yet decoded | `push`, `next_frame`, `next_packet` |
| Codec (`src/codec/`, `src/types.rs`) | none | encoding and decoding of packets |
| `Transport` (`src/runtime/transport.rs`) | a trait | `read`, `write_all` |

Clients send commands over one shared channel. The thread turns commands, decoded
packets and ticks into driver events, and carries out the driver's actions: it
writes packets, installs routes, sends completions to the client that asked, and
after a keepalive timeout reconnects at once. An error anywhere ends the thread.

What makes it hard, and what correctness means:

* *Outgoing operations* move between a slot, the one `collision`, `pending` and the
  replay loop, driven by acknowledgements in any order, late or repeated, and by
  connection loss at any time. An operation must have one owner, be reported once,
  be resent with `dup`, and not be lost. The counter that gates the window is kept
  apart from the slots.
* *Time.* Two clocks, a tick and a keepalive are compared at their boundaries, while
  every packet restarts a clock. An idle connection must be pinged, a silent broker
  noticed, and a live one not given up.
* *Reading.* A read may hold no frame, a part of one, or several; a frame must be
  handled when it is there.
* *Incoming QoS 2.* Publishes and PUBRELs are redelivered after a loss; a message
  must reach the clients once, and not be acknowledged without reaching them.
* *Failure.* Dropped handles, I/O errors and unexpected packets share one exit.
* *Sharing.* The broker sees one client and has one subscription for each filter.
  Routes, subscriptions and what each client was told must agree although several
  clients share filters, and acknowledgements, reconnects and dropped handles come in
  any order.
* *Both ends.* An acknowledgement names an identifier, not an operation. Whether a
  report to a client is true depends on what the broker has seen over several
  connections.
* *Bytes.* Lengths of one to four digits, fields of fixed and of counted size, and
  optional ones: one byte off, and every later packet is read at the wrong place.

The hazards, each at its line and with the properties that cover it, are in
`PROJECT.json`; so are the source lines of every definition.

## 2. The modules

### RuntimeState: what is sent and acknowledged

One step is one `RuntimeDriver::handle_event`, except that the loop of
`resend_pending_on_reconnect` takes one step per iteration, so that the state
between two iterations is checked too (no other event is handled in between:
`Ready`). The environment is arbitrary: any PUBACK, PUBREC, PUBCOMP, SUBACK or
UNSUBACK with any identifier, one of them out of range, and loss and restoration in
any order. What holds here needs no assumption about the broker.

| Code | Model |
| --- | --- |
| `outgoing`, `inflight`, `collision`, `pending`, `outgoing_rel`, `last_pkid`, `active` | the variables of the same names |
| the operations drained by `resend_pending_on_reconnect` | `replay` |
| the `Vec<DriverAction>` a call returns | `actions` |
| the `RuntimeError` a call returns, which ends the thread | `error` |
| `try_insert` and what its callers do with a refusal | `TryInsert`, `Track`, `TrackAndSend` |
| `release_ack`, `promote_collision`, the completion | `ReleaseAndPromote` |
| `on_command_*` | `CommandOffline`, `CommandUntracked`, `CommandTracked` |
| `on_puback_checked`, `on_pubrec_checked`, `on_pubcomp_checked` | `PubAck`, `PubRec`, `PubComp` |
| `on_suback_checked`, `on_unsuback_checked` | `FilterAck` |
| their early returns | `UnsolicitedAck`, `UnsolicitedPubRec`, `UnsolicitedPubComp`, `OutOfRange` |
| `on_connection_lost` with `TriggerReconnect` | `ConnectionLost` |
| `ConnectionRestored` and the replay loop | `ConnectionRestored`, `Replay` |

`submitted`, `transmitted` and `finished` are history variables: operations handed
in, operations whose packet was pushed for sending, and how often each was reported
(a QoS 0 publish, which is never reported, counts when it is sent).

Abstracted: packet contents, `last_ack` (written, never read), clocks. Commands
carry packet identifier 0, as `ClientHandle` sends them; the state accepts others,
and the tests use that. `max_inflight` is positive (`PacketIdPool::new` asserts it)
and below 65535. `Command::Ping` and `Command::Disconnect` do nothing in the driver
and are left out.

### OpLedger: what a client may rely on

The abstract specification: an operation is new, open, closed or lost. A closed one
stays closed. An open one may be lost only while two other operations stay open (an
overload), or by the error that ends the thread. `RuntimeState` implements it under
the mapping `Status`, which reads an operation's status off where it is kept.

That is the true promise of the code. The promise of its documents, that nothing is
lost, is `NothingLost`, and it does not hold.

### EventLoop: the loop, the parser, the clocks

`run` is a cycle of four steps: time passes, `poll_command`, `poll_incoming`,
`poll_tick`. Timestamps are ages that stop growing at `Old`, beyond which no
comparison tells them apart. A frame is two pieces, so a read can split a frame, join
frames, or do both. `PollIncoming` follows `read_one_packet`: bytes are pushed, the
parser is asked once, and it is not asked when nothing was read. `PollTick` is
`poll_tick` with `on_tick` and the reconnect that follows `AwaitPingRespTimeout`.
`End` is every error that `?` propagates out of `run`.

The broker writes, answers a PINGREQ when it likes, and may fall silent.

### IncomingPublish: the receiving side

`handle_incoming_publish` and the QoS 2 marks, against a broker that keeps to the
protocol: after a connection is replaced it sends again what is unfinished, PUBLISH
or PUBREL. `Timeout` is the runtime's own reconnect, after a keepalive timeout: the
transport stays, so the broker knows nothing of it. `Replace` is a transport that
comes back with a new connection; the packets on their way are lost. Sending may
fail, and so may the fanout; either ends the thread. Assumed of the broker, and
external to the code: it does not reuse the identifier of an unfinished flow, and it
forgets a session only when the session is clean. (The library does not look at the
session-present flag of a CONNACK, so nothing would tell it.)

### Connection, EndToEnd: the sending side and a broker

`Connection` extends `RuntimeState` with a connection that delivers in order: `Transmit`
is `handle_actions` on `Send`, `Reconnecting` the state between the two halves of
`reconnect`. A connection is given up in one of two ways, `Timeout`, which keeps the
transport as `reconnect` does, or `Replace`, which takes along what is on its way. They
count in `timeouts` and `drops`.

`EndToEnd` puts a broker that keeps to the protocol at the other end, so that an
acknowledgement comes only if the broker sent it. `Dispatch` is the `match` of
`handle_event`. `Restore` is the second half of `reconnect`, and also what activates a new
state. Assumed of the broker: it answers in order and once; it tells a repeated QoS 2
publish by its identifier, until the PUBREL; it forgets only clean sessions. Left out:
UNSUBSCRIBE, which the sending side treats as SUBSCRIBE, and QoS 0, which has no state.

### Router, Subscriptions, Clients: several clients on one connection

`Router` translates the router's functions. Filters and topics are the sequences of
their levels. `TopicMatches` is the loop of `topic_matches`; `Matches` is what MQTT says
of a filter, and `Subscriptions` uses only that one. The list that `matching_clients`
returns is the set of places <<entry, index>> it takes its clients from, in the order
`Before`. `Retain` is `Vec::retain`, written as what stands at the places that are kept:
proofs can be made about it, and not about `SelectSeq`, which is recursive.

`Clients` extends `Router` and `Connection`: its commands are the operations of
`RuntimeState`, so they share one window and one pool, collide, are deferred, replayed or
lost as that module has it. It adds

| Code | Model |
| --- | --- |
| `new_client`, `publish`/`subscribe`/`unsubscribe`, handles and host that are dropped | `NewClient`, `Issue`, `DropHandle`, `DropHost` |
| the shared channel, `poll_command` | `commands`, `TakeCommand`, `CommandChannelClosed` |
| `on_suback_checked`, `on_unsuback_checked` for whatever holds the slot, then `handle_actions`: the routes first, then the report | `Acknowledged`, `Rerouted`, `Complete` |
| their errors | `NotAcknowledged` |
| the fanout, up to the first client that is gone | `Published`, `Reached` |
| `reconnect` with its broadcasts | `Timeout`, `Replace`, `Restore`, `Resend`, `TellReconnected` |
| the receivers of events | `mailbox`, which keeps all it was sent |

and a broker that may refuse a filter. An answer carries, for the properties only, the
command it is of (`of`); the runtime looks at its type and identifier alone. `mistaken`
records that an answer completed a command it was not of. Initially the state is active,
as in the tests, or not, as `RuntimeHost` leaves it. Clients do not publish, and incoming
messages have QoS 0: `EndToEnd` and `IncomingPublish` are about those.

`Subscriptions` is what clients are promised: each gets a message that one of its
filters matches, once, and no other; a delivery changes no subscription; only the step
that ends the service may be half done. `Clients` implements it, a client's
subscriptions being its routes.

### RemainingLength, Frames, Packets, PacketStream: from bytes to packets

`RemainingLength` is the length in base 128, `Frames` the fixed header and
`FrameParser::next_frame`, `Packets` `encode_packet` and `decode_packet` for all
fourteen types. `PacketStream` puts them at the ends of a connection: packets are
encoded, bytes arrive in portions, `next_packet` is called whenever the owner likes.
A peer may get one byte wrong, after which nothing is promised but that the decoder
accepts only what the encoder could have written. All decoding errors are one, since
each of them ends the thread. Strings are ASCII: a byte above 127 in one is refused as
bad UTF-8. `AnyPacket` is every value of the code's `Packet` with strings, passwords and
will messages of at most 65535 bytes; `WriteBytes` cuts the length of a longer one as
the code does, but what then arrives is not claimed to be anything. The loops over
fields and over filters are recursive functions (`Read`, `ReadAll`), so that proofs can
be made about them; an optional field of CONNECT that no flag announces is read as a
field of no bytes (`Announced`).

## 3. What the runs check

| Run | Instance | Shows |
| --- | --- | --- |
| `runtime_state` | window of 2, three operations of all five kinds, symmetric | `TypeOK`, `StoreConsistent` (the counter is the number of occupied slots, operations sit under their own identifiers), `SingleOwner`, `FinishedOnce`, `DupOnResend`, and that `RuntimeState` implements `OpLedger` |
| `event_loop` | keepalive 3, tick 2, four pieces on the way | `TypeOK` (no tick overdue), `IdleBounded`, `OnePingAtATime`, `Patient`, and under fairness `SilenceNoticed` |
| `incoming_publish` | window of 2, one QoS 1 and two QoS 2 messages, two losses of either sort, clean session or not | `DeliveredOnce`, `AcknowledgedAfterDelivery`, `RefusedOnlyAfterLoss`, and under fairness `SettledEventually` |
| `end_to_end` | window of 2, one loss of either sort, clean session or not; any of one QoS 1 publish, two QoS 2 publishes and one SUBSCRIBE, or a QoS 1, a QoS 2 and up to four more QoS 1 publishes in this order (140286 states) | `EndedOnlyAfterTimeout`, `ReportedMeansTaken`, `TakenPerLoss`, `MarkTruthful`, `CollisionBlocked`, and under fairness `CompletedUnlessDeferred` |
| `clients` | two clients, the filters `a/#` and `a/+`, the topics `a` and `a/b`, a window of 2, and a budget of four: a command, a message and a dropped handle take one, a loss two (419236 states) | `RoutesAsTold`, `CompletedOnce`, `RouteBacked`, `MistakenBecause`, `EndedBecause`, the refinement of `Subscriptions` (`PromiseKept`), and under fairness `Answered` |
| `packet_stream` | two packets out of 24 that cover every type and option, reads of three bytes or of all there is, one wrong byte among the first six | `InOrder`, `NeedExact`, `DecodesWhatIsEncoded`, `AllReceived` |

Why the bounds are enough.

* `runtime_state`: a window of 2 is the smallest in which acknowledgements come out of
  order, the pool wraps into an occupied slot and a collision arises; three operations
  fill it and collide, and the step in which one of them is supplanted needs no more.
* `event_loop`: keepalive 3 and tick 2 do not divide each other, so ticks fall before,
  on and after the keepalive; four pieces are two frames, which one read can join.
* `incoming_publish`: two losses allow a loss during the recovery from a loss, and three
  messages the reuse of an identifier.
* `end_to_end`: four operations are one more than fill the window and collide, so that
  an identifier is used again under a mark or an acknowledgement of its earlier owner.
  One loss is enough for every exception that the properties name. Six operations are
  what a replay can lose one of that had a slot: one is acknowledged, so that the pool
  goes round; two are in the slots when the connection is lost, and a full window has
  deferred three. The replay begins with those three: two have the same identifier, so
  they take both slots and the collision, and the operations that had the slots find the
  window full and a collision recorded, and go nowhere (`state.rs:427-441`). That is why
  `CompletedUnlessDeferred` has the case "lost", which with four operations never
  happens.
* `clients`: two commands and a loss are enough for each hazard of a reset pool: the
  second command takes the identifier of the first one, which was replayed, and collides;
  or it takes its slot, and a repeated acknowledgement completes it (`mistaken`). Three
  commands without a loss overrun the window and collide. `a` is matched by one filter,
  `a/b` by both. Out of the run's reach, and of `RoutesBacked`'s not, is the cause of
  `RouteBacked` that takes both a timeout and a replaced connection. With two losses, one
  client with three commands, one filter and a persistent session (65520 states) the
  invariant holds too, and without that cause it does not.
* `packet_stream`: a frame that ends within a read is followed by another one. Bodies
  have 0, 127 and 128 bytes, and the wrong byte can be the type, the length, a flag or
  a count. Three bytes a read cut the two-digit length between its digits.

The proofs of section 5 then hold for all values.

Deadlock is not checked: the thread ends on an error, and the runtime rests when the
clients, or the broker, have nothing more to send.

Six runs show where the code departs from what the repository says of it; the findings
in `PROJECT.json` quote the lines.

| Run | Statement that fails | Counterexample |
| --- | --- | --- |
| `nothing_lost` | an operation that finds its slot occupied, or the window full, goes to `pending` | the window is full and a collision is recorded: the next operation goes nowhere |
| `timeout_means_missing` | a timeout means that the PINGRESP is missing | it came in one read with another frame and is still in the parser |
| `missing_pingresp_noticed` | waiting too long for PINGRESP triggers a reconnect | every publish restarts the wait |
| `sent_exactly_once` | a QoS 2 publish is taken exactly once by a broker that keeps its session | the replay sends the PUBLISH again although the broker has had the PUBREL |
| `shared_unsubscribe` | a client that is still subscribed keeps receiving when another one unsubscribes | the broker has one subscription for both, and it is gone |
| `host_serves` | `RuntimeHost` with many clients is implemented, and what a client submits is sent | the state is inactive, nothing activates it, and the command stays in `pending` |

Two more divergences are plain to see and have no run. `docs/runtime/event-loop.md:215`
has an I/O failure trigger a reconnect, and `?` ends the thread on it. And
`docs/runtime/qos1.md:42` calls the collision "blocked by an occupied `pkid` slot", while
a SUBACK or UNSUBACK frees the slot and does not promote (`state.rs:90`); with a broker
that keeps to the protocol this takes a SUBSCRIBE in the slot, and `CollisionBlocked`
says that it is the only way.

The passing runs also say what stays true under these flaws.

* `ReportedMeansTaken` names the two histories in which a client is told that a publish
  is complete and the broker never took it, and `MarkTruthful` the two after which a mark
  may belong to another operation.
* `RouteBacked` names the six in which a client has a route and the broker no
  subscription; in none of them is the client told. Two of them were found when the proof
  of the others failed: a timeout has an UNSUBSCRIBE sent twice, the second one takes back
  what a later SUBSCRIBE got, and its UNSUBACK goes down with a connection; and an
  UNSUBSCRIBE that was sent loses its slot in a replay and is never completed.
* `MistakenBecause` says what it takes for an acknowledgement to complete a command that
  it does not answer, for SUBACK and UNSUBACK: a timeout on a connection that is alive,
  and an identifier given out again too early.
* `CompletedOnce` says when no command is lost: while there are no more of them than the
  window has slots and no clean session was lost. After that loss the pool begins again
  while replayed commands keep their identifiers, and new ones collide at any window.
* `EndedOnlyAfterTimeout` and `EndedBecause` say that a keepalive timeout on a connection
  that is alive is the one thing that makes a correct broker end the thread.

## 4. Fairness

`EventLoop`: `WF_vars(Loop)`, since `run` is a loop without a blocking call of its
own, and `SF_vars(Clock(1))`, since time passes however often the loop turns. One
turn takes at most one unit of time, so a unit is no shorter than a turn; a transport
whose `read` blocks for longer than that is not covered. Neither the broker nor the
clients are fair. Errors are not fair either: they may end the thread at any time or
never.

`IncomingPublish`: `WF_vars(Handle)`, the loop going on reading, and
`WF_vars(Broker)`, a broker that goes on reading and sending what it owes. Losses are
bounded by `MaxReconnects`, so the question is whether recovery ends, not whether
losses do.

`EndToEnd`: `WF_allVars(Runtime)`, the loop going on with what it has to read or to
send again, including the reconnect it has begun, and `WF_allVars(Broker)`. Nothing
makes clients submit, connections fail, or anyone activate a new state.

`Clients`: `WF_allVars(Runtime)`, the loop going on with commands and packets and with the
reconnect it has begun, and `WF_allVars(Answer)`, the broker answering. No one has to
publish, and users do as they like. The budget of the instance bounds users and losses
only, which owe nobody anything, so it takes nothing from `Runtime` or `Answer`.

`RuntimeState`, `Subscriptions` and `PacketStream` are about safety and state none.

## 5. What is proved

With TLAPS, for every value of the constants, from the named assumptions on them (a
positive window, keepalive and tick interval; bounds that are natural numbers; `None`
different from what it stands in for; no message of two QoS levels; every operation of
one of the kinds there are; commands of clients that are records of client, token, kind
and filter; filters and topics of one level at least, as `split('/')` leaves them;
packets of the stream that are in `AnyPacket`, reads of at least one byte).

* `RuntimeState_proofs`: `TypeCorrect` and `StoreCorrect`. The inductive invariant
  is their conjunction: the counter stays within its type only because it equals the
  number of occupied slots, and an acknowledgement that is accepted names one of
  them. The work is in `LostQueue`, which shows that emptying the slots in order
  appends each of them once.
  Then `OwnedOnce` and `ReportedOnce`. Each depends on the other (an
  operation is reported once because it leaves its only place), and both need that
  everything owned or sent was submitted.
* `Ledger_proofs`: `ImplementsLedger`, every step of `RuntimeState` is a step or a
  stutter of `OpLedger`; and `ResentWithDup`. They add to the invariant that a replay
  under way has seen no error.
* `EventLoop_proofs`: `LoopTypeCorrect`, `NeverIdleTooLong`, `PingsOneAtATime` and
  `WaitsForPingResp`. The invariant `LoopInv` says that a due tick is taken before
  time passes again, that the last tick left an active connection idle for less than
  a keepalive, and that the clock `on_tick` waits on is no older than the PINGREQ.
* `IncomingPublish_proofs`: `IncomingTypeCorrect`, `NotDeliveredTwice`,
  `DeliveredBeforeSettled` and `RefusalNeedsLoss`, for any window and any number of
  losses. The invariant `IncomingInv` says that a flow has one packet at most on its
  way (`Alone`), that the packet belongs to the phase its flow is in (`Fitting`), and
  how the mark of an identifier goes with what the clients have (`Flows`, `Marks`):
  without the first, a second PUBLISH could arrive after the mark was taken away. A
  step of the runtime touches one flow (`HandledStep`), and so does one of the broker
  (`OtherFlowsBroker`).
* `EndToEnd_proofs`: `EndToEndTypes`, `ThreadSurvives`, `ReportsTruthful`,
  `TakenBounded`, `MarksTruthful` and `CollisionsBlocked`, for any window, any operations and any number of
  losses. They share one invariant, `EndToEndInv`. Until a timeout, an identifier has at
  most one packet on its way, in either direction (`Alone`); the packet fits the
  operation in the slot of that identifier and the phase it is in (`Fitting`); a PUBREL
  that the broker waits for, or the PUBREC that asks for it, is on its way (`Waiting`);
  and the marks of `outgoing_rel` are true (`Marks`), also after a replaced connection if
  the session was a clean one. Always, the times a message was
  taken and its copies on the way number at most one more than the losses, and no more
  than the losses while it is still to be sent (`Counted`). None of the properties is
  inductive alone: that no answer is unsolicited needs the fit, the fit needs the marks
  to be true, and both need operations to keep the kind they were submitted with
  (`KindsKept`). `CollisionsBlocked` needs the types and `KindsKept` only.
* `Clients_proofs`: every invariant of the `clients` run and its refinement, for any
  window, clients, filters, topics and bounds. A step of `Clients` is a step of
  `RuntimeState` or leaves its variables alone (`RuntimeSteps`), so the invariants of
  `RuntimeState_proofs` hold here too; `Sound` joins them with the types.
  - `ClientsTypeCorrect`. A filter has one entry and a client one place in it, which
    also makes the router's two functions insert and delete in a set of routes
    (`HasRoute`), without induction over its entries.
  - `EndsForCause`, from `Causes`. Operations, packets and acknowledgements are of the
    kind of their commands (`Kinds`). Until a timeout, a packet or the acknowledgement
    that follows it is alone under its identifier, and the slot holds the command it is
    of (`Calm`): so every acknowledgement is accepted, and completes what it answers.
  - `RoutesTrue`. A route is what its client was last told; a completion changes both in
    one step, and nothing else changes either.
  - `MistakesCaused`, from `Orderly`. With no more commands than slots and a pool that was
    not reset, an identifier is never given out twice: `last_pkid` and the commands in
    the channel number at most those issued (`Budget`), so every command, packet and
    acknowledgement that has an identifier agrees with the others on whose it is
    (`Numbered`), and nothing collides.
  - `CommandsKept`. A command has one place at most among the channel, the state and the
    mailbox of its client, counted over all three (`InPlace`); with `Orderly` there is a
    slot for each command that the state has, so it has exactly one.
  - `RoutesBacked`. `RoutesHeld`: while no cause excuses everything, if a client's own
    UNSUBSCRIBE withdrew a filter, every SUBACK on its way for the same client and filter
    has an UNSUBACK behind it, and the route is gone or the UNSUBSCRIBE is not over; and
    a filter that nothing withdrew and the broker never granted has no route and no
    SUBACK. It needs `Causes`, by which an acknowledgement that is not mistaken changes
    the route of the command it is of.
  - `TopicMatchesCorrect`. The loop of `topic_matches`, a recursive function, gives what
    MQTT says. What it still has to find from a level on (`Rest`) satisfies the equation
    of the loop, so the function exists; and if it differed from `Rest` there would be a
    last level at which it does, which the equation excludes. No induction is used.
  - `KeepsPromise`. `Clients` implements `Subscriptions`: a client that wants a message
    has a first place that matches (`FirstPlace`), and only one in the list, so it gets
    one copy (`FannedInbox`); an acknowledgement changes one filter of one client
    (`AcknowledgedKeeps`); no other step changes an inbox or a filter (`OthersKeep`).
  - `HostNeverServes`, the reason for the counterexample of `host_serves`. An inactive
    state keeps what it is given in `pending` and sends nothing, so the broker answers
    and grants nothing, so there is nothing to receive; and only an active one gives a
    connection up, which is what would activate it (`Silent`).
* `Codec_proofs`: framing and the codec, as facts about operators, for bodies of up to
  268435455 bytes and every value of every field.
  - `FrameFound` and `FrameAwaited`. `next_frame` finds a frame again whatever follows
    it and takes nothing of the rest; of any part of a frame it makes neither a frame
    nor an error, and it wants no more bytes than the frame lacks. They rest on the
    arithmetic of the length (`DigitsAddUp`) and on the decoder seeing the end of a
    length neither early nor late (`DecodedWhole`, `DecodedPart`).
  - `DecodedAsEncoded`. `decode_packet` makes of what `encode_packet` writes the packet
    it was written from, all fields alike, for all fourteen types.
  - `EncodedAsDecoded`. The converse: what `decode_packet` accepts of a frame is what
    `encode_packet` writes, so it is as strict as the encoder about flags, identifiers,
    codes and bytes left over. Only the length may have more digits than it needs.

  One field is read as it was written and takes no byte of what follows (`FieldRead`,
  `FieldTaken`); so are two, four and five in a row, as the packets have them
  (`TwoRead` and `TwoTaken` to `FiveRead` and `FiveTaken`); the loops over filters read
  back the items they were written from (`ListWritten`, `ListRead`). Then each type has
  a lemma `...RoundTrip` and a lemma `...Faithful`. The library's induction theorems
  take an operator as parameter, which the provers cannot instantiate; `Induction` says
  the same of a set of numbers, as there is a least one outside of it, and `Recursion`
  gives the functions that recursive definitions describe.
* `PacketStream_proofs`: every invariant of the `packet_stream` run, for any packets, any
  sizes of reads, any wrong bytes and any number of packets: `StreamTypes`,
  `ReceivedAsSent`, `WantsWhatIsLacking`, `AcceptsWhatIsEncoded` and `NothingStays`. None
  of them is inductive. The invariant is `InStream`: the buffer and the wire, joined, are
  the encodings of the packets sent and not yet answered, in order. However a read cuts
  that, the buffer lacks bytes of the next packet or begins with all of it (`OnTheWay`).

Only model-checked is liveness (`SilenceNoticed`, `SettledEventually`,
`CompletedUnlessDeferred`, `Answered`), which this prover does not reach. What the six
runs of section 3 refute is, of course, not proved.

## 6. What is not modelled

* *The transport.* The library has the trait only; `EventLoop` and `PacketStream` let
  `read` return any portion.
* *The unit tests' entry points*: `run_once`, `apply_actions_for_test`, commands with a
  packet identifier that is not 0. `ClientHandle` and `RuntimeHost` use none of them.
* *The driver's own branch for incoming publishes*, which the task never reaches.
* *Which decoding error* is reported (`src/protocol`, an enumeration): all of them end
  the thread. Text, formatting and UTF-8 above ASCII.
* *Boundaries of 16 bits*: a window of 65535, for which `last_pkid + 1` overflows, and
  strings of 65536 bytes, whose length is cut. The code is as wrong there as it looks;
  a run cannot reach either. `RuntimeState` takes the window to be smaller, and the
  proofs of the codec take the strings to be shorter.
* *Time in `EndToEnd`, `IncomingPublish` and `Clients`*: a timeout may come at any
  moment, which is more than the clocks of `EventLoop` allow.
* *Publishes in `Clients`*, and incoming messages of QoS 1 and 2 there: `EndToEnd` and
  `IncomingPublish` have them, for one client.

What could follow: a proof that `EndToEnd`, whose broker keeps to the protocol, tells
clients no more than an abstract delivery service would.
