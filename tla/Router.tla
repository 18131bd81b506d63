------------------------------- MODULE Router -------------------------------
(***************************************************************************)
(* Router: which logical clients want a topic.  A filter and a topic are   *)
(* the sequences of their levels, as split('/') leaves them; the entries   *)
(* are a sequence, because fanout visits clients in its order and stops at *)
(* the first that is gone.                                                 *)
(***************************************************************************)
EXTENDS Integers, Sequences, FiniteSets, SequencesExt

(***************************************************************************)
(* topic_matches: one iteration of its loop for each level of the filter.  *)
(***************************************************************************)
TopicMatches(filter, topic) ==
  LET from[i \in 1 .. Len(filter) + 1] ==
        IF i > Len(filter) THEN i = Len(topic) + 1
        ELSE IF filter[i] = "#" THEN i = Len(filter)
        ELSE i <= Len(topic) /\ filter[i] \in {"+", topic[i]} /\ from[i + 1]
  IN  from[1]

(***************************************************************************)
(* What MQTT says of a filter: "#" stands, at the end only, for any number *)
(* of levels, none included, and "+" for exactly one.                      *)
(***************************************************************************)
Matches(filter, topic) ==
  \E n \in 0 .. Len(topic) :
    LET levels == IF Last(filter) = "#" THEN Front(filter) \o [k \in 1 .. n |-> "+"] ELSE filter
    IN  /\ Len(levels) = Len(topic)
        /\ \A k \in DOMAIN levels : levels[k] # "#" /\ levels[k] \in {"+", topic[k]}

-----------------------------------------------------------------------------
HasEntry(entries, filter) == \E i \in DOMAIN entries : entries[i].filter = filter

\* Mutant: a client that is already there is entered again.
AddTwice(entries, client, filter) ==
  IF HasEntry(entries, filter)
    THEN [i \in DOMAIN entries |->
            IF entries[i].filter = filter
              THEN [entries[i] EXCEPT !.clients = Append(@, client)]
              ELSE entries[i]]
    ELSE Append(entries, [filter |-> filter, clients |-> <<client>>])

\* add_subscription.  No two entries have the same filter.
AddSubscription(entries, client, filter) ==
  IF HasEntry(entries, filter)
    THEN [i \in DOMAIN entries |->
            IF entries[i].filter = filter /\ ~Contains(entries[i].clients, client)
              THEN [entries[i] EXCEPT !.clients = Append(@, client)]
              ELSE entries[i]]
    ELSE Append(entries, [filter |-> filter, clients |-> <<client>>])

(***************************************************************************)
(* Vec::retain: what stands at the places "kept", in order.  (SelectSeq is *)
(* out of the provers' reach.)                                             *)
(***************************************************************************)
Retain(s, kept) ==
  [k \in 1 .. Cardinality(kept) |->
     s[CHOOSE i \in kept : Cardinality({j \in kept : j <= i}) = k]]

RetainEntries(entries) ==
  Retain(entries, {i \in DOMAIN entries : entries[i].clients # <<>>})

\* Mutant: the whole entry goes, with every client in it.
RemoveEntry(entries, client, filter) ==
  Retain(entries, {i \in DOMAIN entries : entries[i].filter # filter})

\* Mutant: the test of retain is the wrong way round.
RemoveOthers(entries, client, filter) ==
  LET others(s) == Retain(s, {j \in DOMAIN s : s[j] = client})
  IN  RetainEntries([i \in DOMAIN entries |->
                       IF entries[i].filter = filter
                         THEN [entries[i] EXCEPT !.clients = others(@)]
                         ELSE entries[i]])

\* remove_subscription.  An entry without clients goes.
RemoveSubscription(entries, client, filter) ==
  LET others(s) == Retain(s, {j \in DOMAIN s : s[j] # client})
  IN  RetainEntries([i \in DOMAIN entries |->
                       IF entries[i].filter = filter
                         THEN [entries[i] EXCEPT !.clients = others(@)]
                         ELSE entries[i]])

-----------------------------------------------------------------------------
(***************************************************************************)
(* The loops of matching_clients visit the places <<entry, index>> in the  *)
(* order Before.                                                           *)
(***************************************************************************)
MatchingPlaces(entries, topic) ==
  UNION {{<<i, j>> : j \in DOMAIN entries[i].clients} :
           i \in {i \in DOMAIN entries : TopicMatches(entries[i].filter, topic)}}

Before(p, q) == p[1] < q[1] \/ (p[1] = q[1] /\ p[2] < q[2])

ClientAt(entries, p) == entries[p[1]].clients[p[2]]

\* Mutant: a client with two filters that match is listed twice.
MatchingEntries(entries, topic) == MatchingPlaces(entries, topic)

\* matching_clients: where the list takes its clients from, each client once.
MatchingClients(entries, topic) ==
  {p \in MatchingPlaces(entries, topic) :
     \A q \in MatchingPlaces(entries, topic) :
       Before(q, p) => ClientAt(entries, q) # ClientAt(entries, p)}

Routes(entries) ==
  UNION {{<<client, entries[i].filter>> : client \in ToSet(entries[i].clients)} :
           i \in DOMAIN entries}
=============================================================================
