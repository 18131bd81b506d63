--------------------------- MODULE MCPacketStream ---------------------------
EXTENDS PacketStream

a == <<97>>
ab == <<97, 98>>

Connect(will, username, password) ==
  [type |-> "connect", clean_session |-> will = None, keep_alive |-> 300, client_id |-> ab,
   will |-> will, username |-> username, password |-> password]

Publish(dup, qos, retain, pkid, payload) ==
  [type |-> "publish", dup |-> dup, qos |-> qos, retain |-> retain, topic |-> a,
   pkid |-> pkid, payload |-> payload]

(***************************************************************************)
(* Every type of packet and every option of one; some that encode_packet   *)
(* refuses; bodies of 0, 127 and 128 bytes, where the length takes a       *)
(* second digit; payloads and identifiers with bytes of 128 and above.     *)
(***************************************************************************)
MCPacket ==
  {Connect(None, None, None), Connect(None, ab, a), Connect(None, None, a),
   Connect([topic |-> a, message |-> <<200>>, qos |-> 2, retain |-> TRUE], ab, None),
   Publish(FALSE, 0, TRUE, 0, <<>>), Publish(TRUE, 2, FALSE, 513, <<0, 255>>),
   Publish(FALSE, 1, FALSE, 0, <<>>),
   Publish(FALSE, 0, FALSE, 0, [i \in 1 .. 124 |-> 7]),
   Publish(FALSE, 0, FALSE, 0, [i \in 1 .. 125 |-> 7]),
   [type |-> "connack", session_present |-> TRUE, code |-> 0],
   [type |-> "connack", session_present |-> FALSE, code |-> 5],
   [type |-> "subscribe", pkid |-> 256, filters |-> <<[path |-> a, qos |-> 1], [path |-> ab, qos |-> 2]>>],
   [type |-> "suback", pkid |-> 65535, return_codes |-> <<128, 128, 0>>],
   [type |-> "unsubscribe", pkid |-> 4, filters |-> <<ab, a>>]}
    \cup [type : {"puback", "pubrel"}, pkid : {1, 65535}]
    \cup [type : {"pubrec", "pubcomp", "unsuback"}, pkid : {258}]
    \cup [type : {"pingreq", "pingresp", "disconnect"}]
=============================================================================
