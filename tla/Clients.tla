------------------------------- MODULE Clients -------------------------------
(***************************************************************************)
(* Many logical clients on one connection: RuntimeHost, ClientHandle,      *)
(* ClientRegistry, the routes that RuntimeTask installs and removes, and   *)
(* the fanout of incoming messages, over the protocol state of module      *)
(* RuntimeState and against a broker that sees a single client and has one *)
(* subscription for each filter.                                           *)
(*                                                                         *)
(* An operation of RuntimeState is here a command that some client issued. *)
(* Clients do not publish: a publish has no route, and is reported like    *)
(* the rest.  Incoming messages have QoS 0, a keepalive timeout may come   *)
(* at any time, and the transport does not fail.  recv_event takes events  *)
(* from the front of a mailbox, which nothing else looks at: mailbox keeps *)
(* them all.                                                               *)
(*                                                                         *)
(* Assumed of the broker: it answers packets in order, each once, and      *)
(* forgets its session with a connection if the session is a clean one.    *)
(***************************************************************************)
EXTENDS Router, Connection

CONSTANTS
  MaxClients,   \* bound: clients that register
  Filter,
  Topic,
  MaxCommands,  \* bound: commands of all clients together
  MaxMessages   \* bound: messages the broker publishes

ASSUME BoundsAssumption == {MaxClients, MaxCommands, MaxMessages} \subseteq Nat

\* split('/') leaves one level at least.
ASSUME LevelsAssumption == Filter \cup Topic \subseteq Seq(STRING) \ {<<>>}

Client == 1 .. MaxClients  \* identifiers that ClientRegistry.register gives

ASSUME KindsAssumption == Kind = {"subscribe", "unsubscribe"}
ASSUME OpIdAssumption ==
  OpId = [client : Client, token : 1 .. MaxCommands, kind : Kind, filter : Filter]

\* RuntimeEvent.
Completion(done) == [event |-> "Completion", ack |-> done.ack, of |-> done.id]
IncomingPublish(topic) == [event |-> "IncomingPublish", topic |-> topic]
Disconnected == [event |-> "Disconnected"]
Reconnected == [event |-> "Reconnected"]

\* RuntimeTaskError, apart from a RuntimeError, which is in "error".
TaskError == {"CommandChannelClosed", "EventChannelClosed"}

ASSUME NoTaskErrorAssumption == None \notin TaskError

VARIABLES
  next_id,     \* ClientRegistry.next_id: clients 1 to next_id have an entry in event_txs
  open,        \* the clients whose ClientHandle exists
  host,        \* the RuntimeHost exists
  next_token,  \* ClientHandle.next_token_id, less one
  issued,      \* history: how many commands there were
  commands,    \* the command channel, shared by all
  entries,     \* Router.entries
  mailbox,     \* the event channel of each client
  ended,       \* the task's own error that ended the thread, or None
  granted,     \* the filters of the broker's session
  withdrawn,   \* history: the last thing that took a filter out of it
  messages,    \* history: how many messages the broker published
  mistaken     \* history: an acknowledgement completed a command it did not answer

handles == <<next_id, open, host, next_token, issued>>
task == <<entries, ended, mistaken>>
broker == <<granted, withdrawn, messages>>
allVars == <<vars, clean_session, network, losses, handles, commands, task, mailbox, broker>>

Running == error = None /\ ended = None

By(why, client) == [why |-> why, by |-> client]
Withdrawal == [why : {"never", "refused", "forgotten", "unsubscribed"}, by : 0 .. MaxClients]

-----------------------------------------------------------------------------
(***************************************************************************)
(* The users of the library.                                               *)
(***************************************************************************)
NewClient ==
  /\ host
  /\ next_id < MaxClients
  /\ next_id' = next_id + 1
  /\ open' = open \cup {next_id'}
  /\ UNCHANGED <<host, next_token, issued, commands>>

\* publish, subscribe and unsubscribe.
Issue(client, kind, filter) ==
  /\ client \in open
  /\ issued < MaxCommands
  /\ issued' = issued + 1
  /\ next_token' = [next_token EXCEPT ![client] = @ + 1]
  /\ commands' = Append(commands, [client |-> client, token |-> next_token'[client],
                                   kind |-> kind, filter |-> filter])
  /\ UNCHANGED <<next_id, open, host>>

\* The registry keeps the sender: nothing calls ClientRegistry::remove.
DropHandle(client) ==
  /\ client \in open
  /\ open' = open \ {client}
  /\ UNCHANGED <<next_id, host, next_token, issued, commands>>

\* After the last handle: earlier, all it would do is to let no one register any more.
DropHost ==
  /\ host
  /\ open = {}
  /\ host' = FALSE
  /\ UNCHANGED <<next_id, open, next_token, issued, commands>>

\* After the thread has ended, commands fail with a SendError and nothing comes of them.
User ==
  /\ Running
  /\ \/ NewClient \/ DropHost
     \/ \E client \in Client : DropHandle(client)
     \/ \E client \in Client, kind \in Kind, filter \in Filter : Issue(client, kind, filter)
  /\ UNCHANGED <<vars, clean_session, network, losses, task, mailbox, broker>>

-----------------------------------------------------------------------------
\* ClientRegistry.broadcast: a client whose handle is gone is passed over.
Broadcast(event) ==
  mailbox' = [client \in Client |->
                IF client \in open THEN Append(mailbox[client], event) ELSE mailbox[client]]

\* The loop of run, which takes no other turn before a reconnect is over.
AtLoop == Running /\ ~Reconnecting /\ replay = <<>>

\* poll_command.
TakeCommand ==
  /\ AtLoop
  /\ commands # <<>>
  /\ Command(Head(commands), Head(commands).kind)
  /\ commands' = Tail(commands)
  /\ Transmit
  /\ UNCHANGED <<clean_session, to_runtime, losses, handles, task, mailbox, broker>>

CommandChannelClosed ==
  /\ AtLoop
  /\ commands = <<>>
  /\ ~host /\ open = {}
  /\ ended' = "CommandChannelClosed"
  /\ UNCHANGED <<vars, clean_session, network, losses, handles, commands, entries, mistaken,
                 mailbox, broker>>

-----------------------------------------------------------------------------
\* read_one_packet, and what poll_incoming leaves alone.
Receive(type) ==
  /\ AtLoop
  /\ to_runtime # <<>>
  /\ Head(to_runtime).type = type
  /\ to_runtime' = Tail(to_runtime)
  /\ UNCHANGED <<clean_session, to_broker, losses, handles, commands, broker>>

(***************************************************************************)
(* SubscribeAckFor and UnsubscribeAckFor in handle_actions: the routes     *)
(* first, then the report, which fails if the handle is gone.  The return  *)
(* codes of a SUBACK are not looked at.                                    *)
(***************************************************************************)
Rerouted(done) ==
  IF done.ack = "SubAck" THEN AddSubscription(entries, done.id.client, done.id.filter)
                         ELSE RemoveSubscription(entries, done.id.client, done.id.filter)

\* Mutant: the report goes to every client.
CompleteAll(done) ==
  /\ entries' = Rerouted(done)
  /\ Broadcast(Completion(done))
  /\ UNCHANGED ended

Complete(done) ==
  /\ entries' = Rerouted(done)
  /\ IF done.id.client \in open
       THEN /\ mailbox' = [mailbox EXCEPT ![done.id.client] = Append(@, Completion(done))]
            /\ UNCHANGED ended
       ELSE ended' = "EventChannelClosed" /\ UNCHANGED mailbox

(***************************************************************************)
(* Packet::SubAck and Packet::UnsubAck, for whatever holds the slot.       *)
(***************************************************************************)
Acknowledged ==
  /\ \/ Receive("suback") /\ SubAck(Head(to_runtime).pkid)
     \/ Receive("unsuback") /\ UnsubAck(Head(to_runtime).pkid)
  /\ IF error' = None
       THEN /\ Complete(actions'[1])
            /\ mistaken' = (mistaken \/ actions'[1].id # Head(to_runtime).of)
       ELSE UNCHANGED <<task, mailbox>>

NotAcknowledged ==
  /\ Receive("suback") \/ Receive("unsuback")
  /\ UnsolicitedAck(Head(to_runtime).pkid)
  /\ UNCHANGED <<task, mailbox>>

(***************************************************************************)
(* fanout_publish: the matching clients in the order of the router, up to  *)
(* the first whose handle is gone, which ends the thread.                  *)
(***************************************************************************)
Reached(places) ==
  {p \in places : \A q \in places :
                    p = q \/ Before(q, p) => ClientAt(entries, q) \in open}

Published ==
  LET places == MatchingClients(entries, Head(to_runtime).topic)
      copies(client) == Cardinality({p \in Reached(places) : ClientAt(entries, p) = client})
  IN  /\ Receive("publish")
      /\ mailbox' = [client \in Client |->
                       mailbox[client] \o
                         [k \in 1 .. copies(client) |->
                            IncomingPublish(Head(to_runtime).topic)]]
      /\ ended' = IF Reached(places) = places THEN None ELSE "EventChannelClosed"
      /\ UNCHANGED <<vars, entries, mistaken>>

PollIncoming == Acknowledged \/ NotAcknowledged \/ Published

(***************************************************************************)
(* TriggerReconnect, which only an active state asks for: Disconnected to  *)
(* every client, what was unacknowledged again, then Reconnected.  No      *)
(* route changes.                                                          *)
(***************************************************************************)
LoseConnection ==
  /\ Running
  /\ MayLose
  /\ ConnectionLost(clean_session)
  /\ Broadcast(Disconnected)
  /\ UNCHANGED <<clean_session, handles, commands, task, messages>>

Timeout ==
  /\ LoseConnection
  /\ timeouts' = timeouts + 1
  /\ UNCHANGED <<network, granted, withdrawn, drops>>

Replace ==
  /\ LoseConnection
  /\ drops' = drops + 1
  /\ to_broker' = <<>>
  /\ to_runtime' = <<>>
  /\ granted' = IF clean_session THEN {} ELSE granted
  /\ withdrawn' = [filter \in Filter |->
                     IF filter \in granted \ granted' THEN By("forgotten", 0)
                                                      ELSE withdrawn[filter]]
  /\ UNCHANGED timeouts

\* Once a reconnect has sent all it has to, its clients are told.
TellReconnected ==
  /\ IF replay' = <<>> THEN Broadcast(Reconnected) ELSE UNCHANGED mailbox
  /\ UNCHANGED <<clean_session, to_runtime, losses, handles, commands, task, broker>>

Restore ==
  /\ Running
  /\ Reconnecting
  /\ ConnectionRestored
  /\ UNCHANGED to_broker
  /\ TellReconnected

\* Mutant: what ConnectionRestored answers is not sent.
ResendNothing ==
  /\ Running
  /\ Replay
  /\ UNCHANGED to_broker
  /\ TellReconnected

Resend ==
  /\ Running
  /\ Replay
  /\ Transmit
  /\ TellReconnected

Runtime == TakeCommand \/ PollIncoming \/ Restore \/ Resend

-----------------------------------------------------------------------------
(***************************************************************************)
(* The broker answers every packet in order.  The transport goes with the  *)
(* thread.  What an answer is "of" the runtime does not see.               *)
(***************************************************************************)
Packet == Head(to_broker)

Reads(kind, answer) ==
  /\ Running
  /\ to_broker # <<>>
  /\ Packet.packet = kind
  /\ to_broker' = Tail(to_broker)
  /\ to_runtime' =
       Append(to_runtime, [type |-> answer, pkid |-> Packet.pkid, of |-> Packet.id])
  /\ UNCHANGED <<vars, clean_session, losses, handles, commands, task, mailbox, messages>>

ReadFilter == Packet.id.filter

Grant ==
  /\ Reads("subscribe", "suback")
  /\ granted' = granted \cup {ReadFilter}
  /\ UNCHANGED withdrawn

\* A SUBACK with return code 0x80.
Refuse ==
  /\ Reads("subscribe", "suback")
  /\ ReadFilter \notin granted
  /\ withdrawn' = [withdrawn EXCEPT ![ReadFilter] = By("refused", Packet.id.client)]
  /\ UNCHANGED granted

Withdraw ==
  /\ Reads("unsubscribe", "unsuback")
  /\ granted' = granted \ {ReadFilter}
  /\ withdrawn' = IF ReadFilter \in granted
                    THEN [withdrawn EXCEPT ![ReadFilter] = By("unsubscribed", Packet.id.client)]
                    ELSE withdrawn

Answer == Grant \/ Refuse \/ Withdraw

Publish(topic) ==
  /\ Running
  /\ messages < MaxMessages
  /\ messages' = messages + 1
  /\ \E filter \in granted : Matches(filter, topic)
  /\ to_runtime' = Append(to_runtime, [type |-> "publish", topic |-> topic])
  /\ UNCHANGED <<vars, clean_session, to_broker, losses, handles, commands, task, mailbox,
                 granted, withdrawn>>

Broker == Answer \/ \E topic \in Topic : Publish(topic)

-----------------------------------------------------------------------------
(***************************************************************************)
(* RuntimeHost leaves the state as RuntimeState::new makes it, inactive;   *)
(* the tests, which build a RuntimeTask themselves, activate it first.     *)
(***************************************************************************)
ClientsInit ==
  /\ Init
  /\ clean_session \in BOOLEAN
  /\ to_broker = <<>>
  /\ to_runtime = <<>>
  /\ timeouts = 0
  /\ drops = 0
  /\ next_id = 0
  /\ open = {}
  /\ host = TRUE
  /\ next_token = [client \in Client |-> 0]
  /\ issued = 0
  /\ commands = <<>>
  /\ entries = <<>>
  /\ mailbox = [client \in Client |-> <<>>]
  /\ ended = None
  /\ granted = {}
  /\ withdrawn = [filter \in Filter |-> By("never", 0)]
  /\ messages = 0
  /\ mistaken = FALSE

ClientsNext ==
  User \/ Runtime \/ CommandChannelClosed \/ Timeout \/ Replace \/ Broker

\* The thread keeps polling and the broker answers; no one has to publish.
ClientsSpec ==
  ClientsInit /\ [][ClientsNext]_allVars /\ WF_allVars(Runtime) /\ WF_allVars(Answer)

-----------------------------------------------------------------------------
Event ==
  [event : {"Completion"}, ack : {"SubAck", "UnsubAck"}, of : OpId]
    \cup [event : {"IncomingPublish"}, topic : Topic]
    \cup {Disconnected, Reconnected}

FromBroker ==
  [type : {"suback", "unsuback"}, pkid : Slot, of : OpId]
    \cup [type : {"publish"}, topic : Topic]

(***************************************************************************)
(* Types.  The router has at most one entry for a filter, no client twice  *)
(* in an entry and no entry without clients.                               *)
(***************************************************************************)
ClientsTypeOK ==
  /\ clean_session \in BOOLEAN
  /\ to_broker \in Seq({action \in DriverAction : action.do = "Send"})
  /\ to_runtime \in Seq(FromBroker)
  /\ <<timeouts, drops>> \in (0 .. MaxLosses) \X (0 .. MaxLosses)
  /\ next_id \in 0 .. MaxClients
  /\ open \subseteq 1 .. next_id
  /\ host \in BOOLEAN
  /\ next_token \in [Client -> 0 .. issued]
  /\ issued \in 0 .. MaxCommands
  /\ commands \in Seq(OpId)
  /\ entries \in Seq([filter : Filter, clients : Seq(Client) \ {<<>>}])
  /\ IsInjective([i \in DOMAIN entries |-> entries[i].filter])
  /\ \A i \in DOMAIN entries : IsInjective(entries[i].clients)
  /\ mailbox \in [Client -> Seq(Event)]
  /\ ended \in TaskError \cup {None}
  /\ granted \subseteq Filter
  /\ withdrawn \in [Filter -> Withdrawal]
  /\ messages \in 0 .. MaxMessages
  /\ mistaken \in BOOLEAN

\* The places in a mailbox of what its client was told about a filter.
Told(client, filter) ==
  {i \in DOMAIN mailbox[client] : /\ mailbox[client][i].event = "Completion"
                                  /\ mailbox[client][i].of.filter = filter}

(***************************************************************************)
(* While the thread runs, a client has a route exactly for the filters of  *)
(* which the last thing it was told is that it subscribed: the router and  *)
(* the clients never disagree, whatever order the acknowledgements of      *)
(* several clients come in, over reconnects and repeated commands.         *)
(***************************************************************************)
RoutesAsTold ==
  ended = None =>
    \A client \in Client, filter \in Filter :
      <<client, filter>> \in Routes(entries) <=>
        \E last \in Told(client, filter) :
          /\ \A i \in Told(client, filter) : i <= last
          /\ mailbox[client][last].ack = "SubAck"

(***************************************************************************)
(* While the thread runs, each command of a client is in the channel, or   *)
(* the state has it, or its client has been told, never two of these and   *)
(* never told twice; and no client is told of another's.  If the window is *)
(* wide enough and the pool was not reset, none is lost either: no command *)
(* is refused a slot on behalf of another one, whoever issued it.          *)
(***************************************************************************)
Spacious == issued <= MaxInflight
Roomy == Spacious /\ (clean_session => timeouts + drops = 0)

Count(s, S) == Cardinality({i \in DOMAIN s : s[i] \in S})

Issued(client, token) ==
  [client : {client}, token : {token}, kind : Kind, filter : Filter]

Places(client, token) ==
  LET ids == Issued(client, token)
  IN  Count(commands, ids) + Cardinality(OwnedIds \cap ids)
        + Cardinality({i \in DOMAIN mailbox[client] :
                         /\ mailbox[client][i].event = "Completion"
                         /\ mailbox[client][i].of \in ids})

CompletedOnce ==
  Running =>
    \A client \in Client :
      /\ \A token \in 1 .. MaxCommands :
           LET expected == IF token <= next_token[client] THEN 1 ELSE 0
           IN  /\ Places(client, token) <= expected
               /\ Roomy => Places(client, token) = expected
      /\ \A i \in DOMAIN mailbox[client] :
           mailbox[client][i].event = "Completion" => mailbox[client][i].of.client = client

Unsubscribing(client, filter) ==
  LET withdraws(command) ==
        command.client = client /\ command.kind = "unsubscribe" /\ command.filter = filter
  IN  \/ \E command \in submitted : withdraws(command) /\ finished[command] = 0
      \/ \E i \in DOMAIN to_runtime :
           to_runtime[i].type = "unsuback" /\ withdraws(to_runtime[i].of)

(***************************************************************************)
(* A route that the broker's session does not back, so that its client     *)
(* waits in vain, has one of six causes: the SUBACK was a refusal, the     *)
(* session was forgotten with a connection, another client unsubscribed    *)
(* from the same filter, an UNSUBSCRIBE of the client's own has not        *)
(* completed (or was lost for want of a slot) or an UNSUBACK is to come,   *)
(* an UNSUBSCRIBE was sent again after a timeout, took back what a later   *)
(* SUBSCRIBE had got, and its UNSUBACK went down with a connection, or an  *)
(* acknowledgement was taken for another command's.                        *)
(***************************************************************************)
RouteBacked ==
  \A client \in Client, filter \in Filter :
    <<client, filter>> \in Routes(entries) =>
      \/ filter \in granted
      \/ withdrawn[filter].why \in {"refused", "forgotten"}
      \/ withdrawn[filter].why = "unsubscribed" /\ withdrawn[filter].by # client
      \/ Unsubscribing(client, filter)
      \/ timeouts > 0 /\ drops > 0
      \/ mistaken
      \/ ~Running

(***************************************************************************)
(* An acknowledgement names an identifier and not a command.  What makes   *)
(* it complete a command that it does not answer is a timeout on a         *)
(* connection that was alive, after which commands are sent and answered   *)
(* twice, together with an identifier that is given out again too early:   *)
(* by a pool that a clean session resets, or by one smaller than the       *)
(* number of commands.                                                     *)
(***************************************************************************)
MistakenBecause ==
  mistaken \/ error = "InvalidCommand" => timeouts > 0 /\ (clean_session \/ ~Spacious)

(***************************************************************************)
(* What ends the thread for all clients, apart from a transport failure:   *)
(* a handle that was dropped before its events came, a timeout on a        *)
(* connection that was alive, or that no one is left to send a command.    *)
(***************************************************************************)
EndedBecause ==
  /\ ended = "EventChannelClosed" => open # 1 .. next_id
  /\ ended = "CommandChannelClosed" => ~host /\ open = {}
  /\ error # None => timeouts > 0

(***************************************************************************)
(* Unless the thread ends or the state is inactive for good, all that was  *)
(* submitted and has a slot is answered in the end, over timeouts and      *)
(* replaced connections.  If the window is wide enough and the pool was    *)
(* not reset, nothing waits without a slot.                                *)
(***************************************************************************)
Hosted == ~active /\ timeouts + drops = 0

Settled ==
  /\ commands = <<>> /\ replay = <<>> /\ Occupied = {}
  /\ Roomy => pending = <<>> /\ collision = None

Answered == []<>(~Running \/ Hosted \/ Settled)

(***************************************************************************)
(* The clients get what module Subscriptions promises.                     *)
(***************************************************************************)
Inbox(client) ==
  LET events == mailbox[client]
      incoming == Retain(events, {i \in DOMAIN events : events[i].event = "IncomingPublish"})
  IN  [k \in DOMAIN incoming |-> incoming[k].topic]

Promise ==
  INSTANCE Subscriptions WITH
    subscribed <- [client \in Client |->
                     {filter \in Filter : <<client, filter>> \in Routes(entries)}],
    inbox <- [client \in Client |-> Inbox(client)],
    failed <- ~Running

PromiseKept == Promise!Spec

-----------------------------------------------------------------------------
(***************************************************************************)
(* What the documents say and the code does not do: a client that is       *)
(* still subscribed keeps receiving when another one unsubscribes.  The    *)
(* UNSUBSCRIBE goes to the broker although other clients share the filter. *)
(***************************************************************************)
StillServed ==
  \A client \in Client, filter \in Filter :
    <<client, filter>> \in Routes(entries) =>
      \/ filter \in granted
      \/ withdrawn[filter].why \in {"refused", "forgotten"}
      \/ withdrawn[filter].by = client

(***************************************************************************)
(* RuntimeHost starts a runtime that many clients use, and what a client   *)
(* submits goes to the broker and is answered.  But the state that it      *)
(* makes is inactive, and only a reconnect, which only an active state     *)
(* asks for, would activate it.                                            *)
(***************************************************************************)
HostServes == []<>(~Running \/ open = {} \/ (commands = <<>> /\ OwnedIds = {}))
=============================================================================
