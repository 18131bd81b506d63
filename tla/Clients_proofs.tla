--------------------------- MODULE Clients_proofs ---------------------------
(***************************************************************************)
(* Proofs about module Clients, for any number of clients, commands,       *)
(* messages and losses, any window and both kinds of session: types, what  *)
(* ends the thread, that the routes are what the clients were told, when   *)
(* an acknowledgement is taken for another command's, that no command is   *)
(* completed twice or, with room, lost, what a route lacks that no filter  *)
(* backs, that the fanout keeps the promise of Subscriptions, and that a   *)
(* runtime which RuntimeHost starts stays silent.                          *)
(*                                                                         *)
(* What RuntimeState_proofs shows of the protocol state holds here too,    *)
(* since each step of the clients is a step of that module or leaves its   *)
(* variables alone (lemma RuntimeSteps).                                   *)
(***************************************************************************)
EXTENDS Clients, RuntimeState_proofs, SequenceTheorems, WellFoundedInduction

-----------------------------------------------------------------------------
(***************************************************************************)
(* Sequences: the first element of some kind, RemoveFirst, Count, Retain.  *)
(***************************************************************************)
LEMMA Smallest ==
  ASSUME NEW S \in SUBSET Nat, S # {}
  PROVE  \E x \in S : \A y \in S : x <= y
<1>1. PICK x \in S : \A y \in S : ~(<<y, x>> \in OpToRel(<, Nat))
  BY NatLessThanWellFounded, WFMin, Zenon
<1>2. \A y \in S : ~(y < x)
  BY <1>1 DEF OpToRel
<1> QED BY <1>2

\* The set of places that a Count counts.
PlacesOf(s, S) == {i \in DOMAIN s : s[i] \in S}

LEMMA CountIs == \A s, S : Count(s, S) = Cardinality(PlacesOf(s, S))
BY DEF Count, PlacesOf

LEMMA PlacesFinite ==
  ASSUME NEW T, NEW s \in Seq(T), NEW P \in SUBSET DOMAIN s
  PROVE  IsFiniteSet(P) /\ Cardinality(P) \in Nat /\ Cardinality(P) <= Len(s)
<1>1. IsFiniteSet(1 .. Len(s)) /\ Cardinality(1 .. Len(s)) = Len(s)
  BY FS_Interval, 0 <= Len(s)
<1>2. P \in SUBSET (1 .. Len(s))
  OBVIOUS
<1> HIDE DEF PlacesOf
<1>3. IsFiniteSet(P) /\ Cardinality(P) <= Cardinality(1 .. Len(s))
  BY <1>1, <1>2, FS_Subset, Zenon
<1> QED BY <1>1, <1>3, FS_CardinalityType, Zenon

LEMMA CountType ==
  ASSUME NEW T, NEW s \in Seq(T), NEW S
  PROVE  Count(s, S) \in Nat /\ (Count(s, S) = 0 <=> \A i \in DOMAIN s : s[i] \notin S)
<1> DEFINE P == PlacesOf(s, S)
<1>1. P \in SUBSET DOMAIN s
  BY DEF PlacesOf
<1>2. IsFiniteSet(P) /\ Cardinality(P) \in Nat
  BY <1>1, PlacesFinite, Zenon
<1>3. Cardinality(P) = 0 <=> P = {}
  BY <1>2, FS_EmptySet, Zenon
<1> QED BY <1>2, <1>3 DEF Count, PlacesOf

\* What is added at the end is counted if it is of the kind.
LEMMA CountAppend ==
  ASSUME NEW T, NEW s \in Seq(T), NEW x \in T, NEW S
  PROVE  Count(Append(s, x), S) = Count(s, S) + IF x \in S THEN 1 ELSE 0
<1> DEFINE P == PlacesOf(s, S)
           n == Len(s) + 1
<1>1. P \in SUBSET DOMAIN s /\ n \notin P
  BY DEF PlacesOf
<1>2. IsFiniteSet(P) /\ Cardinality(P) \in Nat
  BY <1>1, PlacesFinite, Zenon
<1>3. PlacesOf(Append(s, x), S) = IF x \in S THEN P \cup {n} ELSE P
  BY DEF PlacesOf
<1> HIDE DEF P, n
<1>4. Cardinality(P \cup {n}) = Cardinality(P) + 1
  BY <1>1, <1>2, FS_AddElement, Zenon
<1>5. CASE x \in S
  BY <1>2, <1>3, <1>4, <1>5, CountIs DEF P
<1>6. CASE x \notin S
  BY <1>2, <1>3, <1>6, CountIs DEF P
<1> QED BY <1>5, <1>6

\* The head is counted, and the tail.
LEMMA CountTail ==
  ASSUME NEW T, NEW s \in Seq(T), s # <<>>, NEW S
  PROVE  Count(s, S) = Count(Tail(s), S) + IF Head(s) \in S THEN 1 ELSE 0
<1> DEFINE P == PlacesOf(s, S) \ {1}
           Q == PlacesOf(Tail(s), S)
           f == [i \in Q |-> i + 1]
<1>1. /\ Tail(s) \in Seq(T) /\ DOMAIN Tail(s) \subseteq Int /\ Head(s) = s[1] /\ 1 \in DOMAIN s
      /\ \A i \in DOMAIN Tail(s) : i + 1 \in DOMAIN s /\ i + 1 # 1 /\ Tail(s)[i] = s[i + 1]
      /\ \A i \in DOMAIN s \ {1} : i - 1 \in DOMAIN Tail(s) /\ i - 1 + 1 = i
  OBVIOUS
<1>2. Q \in SUBSET DOMAIN Tail(s) /\ PlacesOf(s, S) \in SUBSET DOMAIN s
  BY DEF PlacesOf
<1>3. IsFiniteSet(Q) /\ Cardinality(Q) \in Nat
  BY <1>1, <1>2, PlacesFinite, Zenon
<1>4. IsFiniteSet(PlacesOf(s, S)) /\ Cardinality(PlacesOf(s, S)) \in Nat
  BY <1>2, PlacesFinite, Zenon
<1>5. f \in Bijection(Q, P)
  <2>1. f \in [Q -> P]
    BY <1>1 DEF PlacesOf
  <2>2. \A a, b \in Q : f[a] = f[b] => a = b
    BY <1>1, <1>2
  <2>3. \A p \in P : \E q \in Q : f[q] = p
    <3> SUFFICES ASSUME NEW p \in P PROVE \E q \in Q : f[q] = p
      OBVIOUS
    <3>1. p - 1 \in Q /\ p - 1 + 1 = p
      BY <1>1 DEF PlacesOf
    <3> QED BY <3>1
  <2> HIDE DEF f, P, Q
  <2> QED BY <2>1, <2>2, <2>3, Zenon DEF Bijection, Injection, Surjection, IsInjective
<1>6. 1 \in PlacesOf(s, S) <=> Head(s) \in S
  BY <1>1 DEF PlacesOf
<1> HIDE DEF P, Q, f
<1>7. Cardinality(P) = Cardinality(Q)
  BY <1>3, <1>5, FS_Bijection, Zenon DEF ExistsBijection
<1>8. Cardinality(P) = IF 1 \in PlacesOf(s, S) THEN Cardinality(PlacesOf(s, S)) - 1
                                               ELSE Cardinality(PlacesOf(s, S))
  BY <1>4, FS_RemoveElement, Zenon DEF P
<1>9. Count(Tail(s), S) = Cardinality(Q) /\ Count(s, S) = Cardinality(PlacesOf(s, S))
  BY CountIs DEF Q
<1>10. CASE Head(s) \in S
  <2>1. Cardinality(Q) = Cardinality(PlacesOf(s, S)) - 1
    BY <1>6, <1>7, <1>8, <1>10
  <2> QED BY <1>4, <1>9, <1>10, <2>1
<1>11. CASE Head(s) \notin S
  BY <1>4, <1>6, <1>7, <1>8, <1>9, <1>11
<1> QED BY <1>10, <1>11

\* Nothing of the kind is added.
LEMMA CountConcat ==
  ASSUME NEW T, NEW s \in Seq(T), NEW t \in Seq(T), NEW S,
         \A i \in DOMAIN t : t[i] \notin S
  PROVE  Count(s \o t, S) = Count(s, S)
<1>1. PlacesOf(s \o t, S) = PlacesOf(s, S)
  BY DEF PlacesOf
<1> QED BY <1>1, CountIs

(***************************************************************************)
(* Retain takes each place that is kept once, and nothing else.            *)
(***************************************************************************)
Rank(kept, i) == Cardinality({j \in kept : j <= i})

LEMMA Retained ==
  ASSUME NEW T, NEW s \in Seq(T), NEW kept \in SUBSET DOMAIN s
  PROVE  /\ Retain(s, kept) \in Seq(T)
         /\ Len(Retain(s, kept)) = Cardinality(kept)
         /\ Cardinality(kept) \in Nat
         /\ \E place \in Bijection(1 .. Cardinality(kept), kept) :
              \A k \in 1 .. Cardinality(kept) :
                /\ Retain(s, kept)[k] = s[place[k]]
                /\ Rank(kept, place[k]) = k
<1> DEFINE n == Cardinality(kept)
           upto(i) == {j \in kept : j <= i}
           rank == [i \in kept |-> Cardinality(upto(i))]
           place == [k \in 1 .. n |-> CHOOSE i \in kept : Cardinality(upto(i)) = k]
<1>1. IsFiniteSet(kept) /\ n \in Nat
  BY PlacesFinite, Zenon
<1>2. ASSUME NEW i \in kept
      PROVE  IsFiniteSet(upto(i)) /\ Cardinality(upto(i)) \in 1 .. n
  <2>1. upto(i) \in SUBSET kept /\ i \in upto(i)
    OBVIOUS
  <2> HIDE DEF upto
  <2>2. IsFiniteSet(upto(i)) /\ Cardinality(upto(i)) <= n /\ Cardinality(upto(i)) \in Nat
    BY <1>1, <2>1, FS_Subset, FS_CardinalityType, Zenon
  <2>3. Cardinality(upto(i)) # 0
    BY <2>1, <2>2, FS_EmptySet, Zenon
  <2> QED BY <1>1, <2>2, <2>3
<1>3. ASSUME NEW i \in kept, NEW j \in kept, i < j
      PROVE  rank[i] < rank[j]
  <2>1. upto(i) \in SUBSET upto(j) /\ j \in upto(j) /\ j \notin upto(i)
    BY <1>3
  <2> HIDE DEF upto
  <2>2. Cardinality(upto(i)) <= Cardinality(upto(j)) /\ Cardinality(upto(i)) # Cardinality(upto(j))
    BY <1>2, <2>1, FS_Subset, Zenon
  <2>3. Cardinality(upto(i)) \in Nat /\ Cardinality(upto(j)) \in Nat
    BY <1>1, <1>2
  <2> QED BY <2>2, <2>3
<1>4. rank \in Injection(kept, 1 .. n)
  <2>1. rank \in [kept -> 1 .. n]
    BY <1>2
  <2> HIDE DEF rank
  <2>2. \A i, j \in kept : rank[i] = rank[j] => i = j
    BY <1>1, <1>3, <2>1
  <2> QED BY <2>1, <2>2, Zenon DEF Injection, IsInjective
<1>5. rank \in Surjection(kept, 1 .. n)
  <2>1. IsFiniteSet(1 .. n) /\ Cardinality(1 .. n) = n
    BY <1>1, FS_Interval
  <2> HIDE DEF rank
  <2> QED BY <1>4, <2>1, FS_Injection, Zenon
<1>6. \A k \in 1 .. n : \E i \in kept : Cardinality(upto(i)) = k
  BY <1>5, Zenon DEF Surjection
<1>7. \A k \in 1 .. n : place[k] \in kept /\ Cardinality(upto(place[k])) = k
  BY <1>6, Zenon
<1>8. place \in Bijection(1 .. n, kept)
  <2>1. place \in [1 .. n -> kept]
    BY <1>7
  <2>2. \A k, l \in 1 .. n : place[k] = place[l] => k = l
    BY <1>7, Zenon
  <2>3. \A i \in kept : \E k \in 1 .. n : place[k] = i
    <3> SUFFICES ASSUME NEW i \in kept PROVE \E k \in 1 .. n : place[k] = i
      OBVIOUS
    <3>1. rank[i] \in 1 .. n /\ rank[place[rank[i]]] = rank[i] /\ place[rank[i]] \in kept
      BY <1>2, <1>7, Zenon
    <3> HIDE DEF rank, place
    <3>2. place[rank[i]] = i
      BY <1>4, <3>1, Zenon DEF Injection, IsInjective
    <3> QED BY <3>1, <3>2
  <2> HIDE DEF place
  <2> QED BY <2>1, <2>2, <2>3, Zenon DEF Bijection, Injection, Surjection, IsInjective
<1>9. Retain(s, kept) = [k \in 1 .. n |-> s[place[k]]]
  BY DEF Retain
<1> HIDE DEF place, n
<1>10. \A k \in 1 .. n : place[k] \in DOMAIN s
  BY <1>7
<1>11. Retain(s, kept) \in Seq(T) /\ Len(Retain(s, kept)) = n
  BY <1>1, <1>9, <1>10
<1>12. \A k \in 1 .. n : Retain(s, kept)[k] = s[place[k]] /\ Rank(kept, place[k]) = k
  BY <1>7, <1>9 DEF Rank
<1> QED BY <1>1, <1>8, <1>11, <1>12 DEF n

-----------------------------------------------------------------------------
(***************************************************************************)
(* The router: what its table looks like, and which routes it holds.       *)
(***************************************************************************)
Entry == [filter : Filter, clients : Seq(Client) \ {<<>>}]

Table(es) ==
  /\ es \in Seq(Entry)
  /\ \A i, j \in DOMAIN es : es[i].filter = es[j].filter => i = j
  /\ \A i \in DOMAIN es : IsInjective(es[i].clients)

Listed(s, client) == \E j \in DOMAIN s : s[j] = client

HasRoute(es, client, filter) ==
  \E i \in DOMAIN es : es[i].filter = filter /\ Listed(es[i].clients, client)

LEMMA RoutesAre ==
  ASSUME NEW es
  PROVE  /\ \A client, filter : <<client, filter>> \in Routes(es) <=> HasRoute(es, client, filter)
         /\ \A r \in Routes(es) : \E client, filter : r = <<client, filter>>
BY DEF Routes, HasRoute, Listed, ToSet

\* An entry with other clients.
LEMMA EntryClients ==
  ASSUME NEW entry \in Entry, NEW s
  PROVE  /\ [entry EXCEPT !.clients = s].filter = entry.filter
         /\ [entry EXCEPT !.clients = s].clients = s
         /\ s \in Seq(Client) /\ s # <<>> => [entry EXCEPT !.clients = s] \in Entry
         /\ s \in Seq(Client) => [entry EXCEPT !.clients = s] \in [filter : Filter, clients : Seq(Client)]
BY DEF Entry

\* add_subscription adds the one route, and keeps the table in order.
LEMMA RouteAdded ==
  ASSUME NEW es, Table(es), NEW client \in Client, NEW filter \in Filter
  PROVE  /\ Table(AddSubscription(es, client, filter))
         /\ \A c, f : HasRoute(AddSubscription(es, client, filter), c, f) <=>
                        HasRoute(es, c, f) \/ (c = client /\ f = filter)
<1> DEFINE new == AddSubscription(es, client, filter)
<1>0. es \in Seq(Entry) /\ \A i \in DOMAIN es : es[i] \in Entry /\ es[i].clients \in Seq(Client)
  <2>1. es \in Seq(Entry)
    BY DEF Table
  <2>2. \A i \in DOMAIN es : es[i] \in Entry
    BY <2>1
  <2> QED BY <2>1, <2>2 DEF Entry
<1>1. CASE HasEntry(es, filter)
  <2> DEFINE added(i) == es[i].filter = filter /\ ~Contains(es[i].clients, client)
  <2>1. /\ DOMAIN new = DOMAIN es
        /\ new = [i \in DOMAIN es |-> new[i]]
        /\ \A i \in DOMAIN es :
             new[i] = IF added(i) THEN [es[i] EXCEPT !.clients = Append(es[i].clients, client)]
                                  ELSE es[i]
    BY <1>1 DEF AddSubscription
  <2>2. ASSUME NEW i \in DOMAIN es
        PROVE  /\ new[i] \in Entry
               /\ new[i].filter = es[i].filter
               /\ IsInjective(new[i].clients)
               /\ \A c : Listed(new[i].clients, c) <=>
                           Listed(es[i].clients, c) \/ (c = client /\ es[i].filter = filter)
    <3>1. es[i].clients \in Seq(Client) /\ IsInjective(es[i].clients) /\ es[i] \in Entry
      BY <1>0 DEF Table
    <3>2. CASE added(i)
      <4> DEFINE s == es[i].clients
                 t == Append(s, client)
      <4>1. t \in Seq(Client) /\ t # <<>> /\ Len(t) = Len(s) + 1
            /\ (\A j \in DOMAIN s : t[j] = s[j]) /\ t[Len(s) + 1] = client /\ Len(s) \in Nat
            /\ DOMAIN s = 1 .. Len(s) /\ DOMAIN t = 1 .. Len(s) + 1
        BY <3>1
      <4>2. \A j \in DOMAIN s : s[j] # client
        BY <3>1, <3>2 DEF Contains
      <4>3. new[i] = [es[i] EXCEPT !.clients = t]
        BY <2>1, <3>2
      <4> HIDE DEF t
      <4>4. new[i] \in Entry /\ new[i].filter = es[i].filter /\ new[i].clients = t
        BY <3>1, <4>1, <4>3, EntryClients
      <4>5. IsInjective(t)
        <5>1. \A j, k \in DOMAIN s : s[j] = s[k] => j = k
          BY <3>1 DEF IsInjective
        <5> HIDE DEF s
        <5>2. \A j, k \in DOMAIN t : t[j] = t[k] => j = k
          <6>1. \A j \in DOMAIN t : (j \in DOMAIN s /\ t[j] = s[j]) \/ (j = Len(s) + 1 /\ t[j] = client)
            BY <4>1
          <6> QED BY <4>2, <5>1, <6>1
        <5> QED BY <5>2 DEF IsInjective
      <4>6. \A c : Listed(t, c) <=> Listed(s, c) \/ c = client
        BY <4>1 DEF Listed
      <4> QED BY <3>2, <4>4, <4>5, <4>6
    <3>3. CASE ~added(i)
      <4>1. new[i] = es[i]
        BY <2>1, <3>3
      <4>2. es[i].filter = filter => Listed(es[i].clients, client)
        BY <3>1, <3>3 DEF Listed, Contains
      <4> QED BY <3>1, <4>1, <4>2
    <3> QED BY <3>2, <3>3
  <2> HIDE DEF new
  <2>3. new \in Seq(Entry)
    <3>1. new \in [1 .. Len(es) -> Entry] /\ Len(es) \in Nat
      BY <1>0, <2>1, <2>2
    <3> QED BY <3>1
  <2>4. Table(new)
    BY <2>1, <2>2, <2>3 DEF Table
  <2>5. \E i \in DOMAIN es : es[i].filter = filter
    BY <1>1 DEF HasEntry
  <2>6. \A c, f : HasRoute(new, c, f) <=> HasRoute(es, c, f) \/ (c = client /\ f = filter)
    <3>1. ASSUME NEW c, NEW f, HasRoute(new, c, f)
          PROVE  HasRoute(es, c, f) \/ (c = client /\ f = filter)
      BY <2>1, <2>2, <3>1 DEF HasRoute
    <3>2. ASSUME NEW c, NEW f, HasRoute(es, c, f) PROVE HasRoute(new, c, f)
      BY <2>1, <2>2, <3>2 DEF HasRoute
    <3>3. HasRoute(new, client, filter)
      BY <2>1, <2>2, <2>5 DEF HasRoute
    <3> QED BY <3>1, <3>2, <3>3
  <2> QED BY <2>4, <2>6 DEF new
<1>2. CASE ~HasEntry(es, filter)
  <2> DEFINE e == [filter |-> filter, clients |-> <<client>>]
  <2>1. e \in Entry /\ e.filter = filter /\ IsInjective(e.clients)
        /\ \A c : Listed(e.clients, c) <=> c = client
    <3>1. <<client>> \in Seq(Client) /\ <<client>> # <<>> /\ DOMAIN <<client>> = {1} /\ <<client>>[1] = client
      OBVIOUS
    <3> QED BY <3>1 DEF Entry, IsInjective, Listed
  <2>2. new = Append(es, e)
    BY <1>2 DEF AddSubscription
  <2> HIDE DEF new, e
  <2>3. /\ new \in Seq(Entry) /\ Len(es) \in Nat
        /\ DOMAIN es = 1 .. Len(es) /\ DOMAIN new = 1 .. Len(es) + 1
        /\ \A i \in DOMAIN es : new[i] = es[i]
        /\ new[Len(es) + 1] = e
    BY <1>0, <2>1, <2>2
  <2>4. \A i \in DOMAIN es : es[i].filter # filter
    BY <1>2 DEF HasEntry
  <2>5. Table(new)
    BY <2>1, <2>3, <2>4 DEF Table
  <2>6. \A i \in DOMAIN new : i \in DOMAIN es \/ new[i] = e
    BY <2>3
  <2>7. \A i \in DOMAIN es : i \in DOMAIN new
    BY <2>3
  <2>8. Len(es) + 1 \in DOMAIN new
    BY <2>3
  <2>9. \A c, f : HasRoute(new, c, f) <=> HasRoute(es, c, f) \/ (c = client /\ f = filter)
    <3>1. ASSUME NEW c, NEW f, HasRoute(new, c, f)
          PROVE  HasRoute(es, c, f) \/ (c = client /\ f = filter)
      BY <2>1, <2>3, <2>6, <3>1 DEF HasRoute
    <3>2. ASSUME NEW c, NEW f, HasRoute(es, c, f) PROVE HasRoute(new, c, f)
      BY <2>3, <2>7, <3>2 DEF HasRoute
    <3>3. HasRoute(new, client, filter)
      BY <2>1, <2>3, <2>8 DEF HasRoute
    <3> QED BY <3>1, <3>2, <3>3
  <2> QED BY <2>5, <2>9 DEF new
<1> QED BY <1>1, <1>2

\* What is retained are the elements of the kept places, none more often than before.
LEMMA RetainedElements ==
  ASSUME NEW T, NEW s \in Seq(T), NEW kept \in SUBSET DOMAIN s
  PROVE  /\ Retain(s, kept) \in Seq(T)
         /\ \A k \in DOMAIN Retain(s, kept) : \E i \in kept : Retain(s, kept)[k] = s[i]
         /\ \A i \in kept : \E k \in DOMAIN Retain(s, kept) : Retain(s, kept)[k] = s[i]
         /\ IsInjective(s) => IsInjective(Retain(s, kept))
         /\ kept # {} => Retain(s, kept) # <<>>
         /\ \A k, l \in DOMAIN Retain(s, kept) : k # l =>
              \E i, j \in kept : /\ i # j
                                 /\ Retain(s, kept)[k] = s[i]
                                 /\ Retain(s, kept)[l] = s[j]
<1> DEFINE r == Retain(s, kept)
           n == Cardinality(kept)
<1>1. r \in Seq(T) /\ Len(r) = n /\ n \in Nat
  BY Retained
<1>2. PICK place \in Bijection(1 .. n, kept) : \A k \in 1 .. n : r[k] = s[place[k]]
  BY Retained
<1> HIDE DEF r, n
<1>3. DOMAIN r = 1 .. n
  BY <1>1
<1>4. /\ place \in [1 .. n -> kept]
      /\ \A k, l \in 1 .. n : place[k] = place[l] => k = l
      /\ \A i \in kept : \E k \in 1 .. n : place[k] = i
  BY DEF Bijection, Injection, Surjection, IsInjective
<1>5. \A k \in DOMAIN r : \E i \in kept : r[k] = s[i]
  BY <1>2, <1>3, <1>4
<1>6. \A i \in kept : \E k \in DOMAIN r : r[k] = s[i]
  BY <1>2, <1>3, <1>4
<1>7. ASSUME IsInjective(s) PROVE IsInjective(r)
  BY <1>2, <1>3, <1>4, <1>7 DEF IsInjective
<1>8. kept # {} => r # <<>>
  BY <1>6
<1>9. \A k, l \in DOMAIN r : k # l => \E i, j \in kept : i # j /\ r[k] = s[i] /\ r[l] = s[j]
  BY <1>2, <1>3, <1>4
<1> QED BY <1>1, <1>5, <1>6, <1>7, <1>8, <1>9 DEF r

\* remove_subscription takes the one route away, and keeps the table in order.
LEMMA RouteRemoved ==
  ASSUME NEW es, Table(es), NEW client \in Client, NEW filter \in Filter
  PROVE  /\ Table(RemoveSubscription(es, client, filter))
         /\ \A c, f : HasRoute(RemoveSubscription(es, client, filter), c, f) <=>
                        HasRoute(es, c, f) /\ ~(c = client /\ f = filter)
<1> DEFINE others(s) == Retain(s, {j \in DOMAIN s : s[j] # client})
           less == [i \in DOMAIN es |-> IF es[i].filter = filter
                                          THEN [es[i] EXCEPT !.clients = others(@)] ELSE es[i]]
           kept == {i \in DOMAIN less : less[i].clients # <<>>}
           new == RemoveSubscription(es, client, filter)
           Loose == [filter : Filter, clients : Seq(Client)]
<1>1. es \in Seq(Entry) /\ Len(es) \in Nat /\ DOMAIN es = 1 .. Len(es)
      /\ \A i \in DOMAIN es : es[i] \in Entry
  BY DEF Table
<1>2. \A i \in DOMAIN es : es[i].clients \in Seq(Client) /\ es[i].clients # <<>> /\ es[i] \in Loose
  BY <1>1 DEF Entry
<1>3. ASSUME NEW s \in Seq(Client), IsInjective(s)
      PROVE  /\ others(s) \in Seq(Client)
             /\ IsInjective(others(s))
             /\ \A c : Listed(others(s), c) <=> Listed(s, c) /\ c # client
  <2> DEFINE K == {j \in DOMAIN s : s[j] # client}
             o == Retain(s, K)
  <2>1. K \in SUBSET DOMAIN s
    OBVIOUS
  <2>2. /\ o \in Seq(Client)
        /\ \A k \in DOMAIN o : \E i \in K : o[k] = s[i]
        /\ \A i \in K : \E k \in DOMAIN o : o[k] = s[i]
        /\ IsInjective(o)
    <3> HIDE DEF K
    <3> QED BY <1>3, <2>1, RetainedElements
  <2> HIDE DEF o
  <2>3. \A c : Listed(o, c) <=> Listed(s, c) /\ c # client
    BY <2>2 DEF Listed
  <2> QED BY <2>2, <2>3 DEF o
<1>4. ASSUME NEW i \in DOMAIN es
      PROVE  /\ less[i] \in Loose
             /\ less[i].filter = es[i].filter
             /\ IsInjective(less[i].clients)
             /\ \A c : Listed(less[i].clients, c) <=>
                         Listed(es[i].clients, c) /\ ~(c = client /\ es[i].filter = filter)
  <2>1. es[i].clients \in Seq(Client) /\ IsInjective(es[i].clients) /\ es[i] \in Entry /\ es[i] \in Loose
    BY <1>1, <1>2 DEF Table
  <2>2. CASE es[i].filter = filter
    <3> DEFINE t == others(es[i].clients)
    <3>1. less[i] = [es[i] EXCEPT !.clients = t]
      BY <2>2
    <3>2. t \in Seq(Client) /\ IsInjective(t)
          /\ \A c : Listed(t, c) <=> Listed(es[i].clients, c) /\ c # client
      BY <1>3, <2>1
    <3> HIDE DEF t, less
    <3>3. less[i] \in Loose /\ less[i].filter = es[i].filter /\ less[i].clients = t
      BY <2>1, <3>1, <3>2, EntryClients
    <3> QED BY <2>2, <3>2, <3>3
  <2>3. CASE es[i].filter # filter
    <3>1. less[i] = es[i]
      BY <2>3
    <3> HIDE DEF less
    <3> QED BY <2>1, <2>3, <3>1
  <2> QED BY <2>2, <2>3
<1>5. new = Retain(less, kept)
  BY DEF RemoveSubscription, RetainEntries
<1>6. DOMAIN less = DOMAIN es /\ less \in [1 .. Len(es) -> Loose]
  <2>1. \A i \in DOMAIN es : less[i] \in Loose
    BY <1>4
  <2>2. less = [i \in DOMAIN es |-> less[i]]
    OBVIOUS
  <2> HIDE DEF less
  <2> QED BY <1>1, <2>1, <2>2
<1> HIDE DEF less, new, others
<1>7. less \in Seq(Loose)
  <2>1. less \in [1 .. Len(es) -> Loose] /\ Len(es) \in Nat
    BY <1>1, <1>6
  <2> HIDE DEF Loose
  <2> QED BY <2>1
<1>8. kept \in SUBSET DOMAIN less /\ \A i \in kept : less[i].clients # <<>> /\ i \in DOMAIN es
  BY <1>6
<1>9. /\ new \in Seq(Loose)
      /\ \A k \in DOMAIN new : \E i \in kept : new[k] = less[i]
      /\ \A i \in kept : \E k \in DOMAIN new : new[k] = less[i]
      /\ \A k, l \in DOMAIN new : k # l => \E i, j \in kept : i # j /\ new[k] = less[i] /\ new[l] = less[j]
  <2> HIDE DEF kept
  <2> QED BY <1>5, <1>7, <1>8, RetainedElements
<1>10. \A i \in kept : less[i] \in Entry
  BY <1>4, <1>8 DEF Entry
<1>11. new \in Seq(Entry)
  <2>1. \A k \in DOMAIN new : new[k] \in Entry
    BY <1>9, <1>10
  <2>2. new \in [1 .. Len(new) -> Entry] /\ Len(new) \in Nat
    BY <1>9, <2>1
  <2> QED BY <2>2
<1>12. \A k, l \in DOMAIN new : new[k].filter = new[l].filter => k = l
  <2> SUFFICES ASSUME NEW k \in DOMAIN new, NEW l \in DOMAIN new, k # l
               PROVE  new[k].filter # new[l].filter
    OBVIOUS
  <2>1. PICK i \in kept, j \in kept : i # j /\ new[k] = less[i] /\ new[l] = less[j]
    BY <1>9
  <2>2. es[i].filter # es[j].filter
    BY <1>8, <2>1 DEF Table
  <2> QED BY <1>4, <1>8, <2>1, <2>2
<1>13. \A k \in DOMAIN new : IsInjective(new[k].clients)
  BY <1>4, <1>8, <1>9
<1>14. \A c, f : HasRoute(new, c, f) <=> HasRoute(es, c, f) /\ ~(c = client /\ f = filter)
  <2>1. ASSUME NEW c, NEW f, HasRoute(new, c, f)
        PROVE  HasRoute(es, c, f) /\ ~(c = client /\ f = filter)
    <3>1. PICK k \in DOMAIN new : new[k].filter = f /\ Listed(new[k].clients, c)
      BY <2>1 DEF HasRoute
    <3>2. PICK i \in kept : new[k] = less[i]
      BY <1>9
    <3> QED BY <1>4, <1>8, <3>1, <3>2 DEF HasRoute
  <2>2. ASSUME NEW c, NEW f, HasRoute(es, c, f), ~(c = client /\ f = filter)
        PROVE  HasRoute(new, c, f)
    <3>1. PICK i \in DOMAIN es : es[i].filter = f /\ Listed(es[i].clients, c)
      BY <2>2 DEF HasRoute
    <3>2. less[i].filter = f /\ Listed(less[i].clients, c) /\ less[i].clients \in Seq(Client)
      BY <1>4, <2>2, <3>1
    <3>3. less[i].clients # <<>>
      BY <3>2 DEF Listed
    <3>4. i \in kept
      BY <1>6, <3>3
    <3> QED BY <1>9, <3>2, <3>4 DEF HasRoute
  <2> QED BY <2>1, <2>2
<1> QED BY <1>11, <1>12, <1>13, <1>14 DEF Table, new

-----------------------------------------------------------------------------
(***************************************************************************)
(* matching_clients: its places, and that no client has two of them.       *)
(***************************************************************************)
LEMMA PlacesAre ==
  ASSUME NEW es, NEW topic, NEW p
  PROVE  p \in MatchingPlaces(es, topic) <=>
           \E i \in DOMAIN es : \E j \in DOMAIN es[i].clients :
             p = <<i, j>> /\ TopicMatches(es[i].filter, topic)
BY DEF MatchingPlaces

LEMMA OnePlace ==
  ASSUME NEW es, Table(es), NEW topic,
         NEW p \in MatchingClients(es, topic), NEW q \in MatchingClients(es, topic),
         ClientAt(es, p) = ClientAt(es, q)
  PROVE  p = q
<1>1. p \in MatchingPlaces(es, topic) /\ q \in MatchingPlaces(es, topic)
  BY DEF MatchingClients
<1>2. PICK i \in DOMAIN es : \E j \in DOMAIN es[i].clients : p = <<i, j>>
  BY <1>1, PlacesAre
<1>3. PICK k \in DOMAIN es : \E l \in DOMAIN es[k].clients : q = <<k, l>>
  BY <1>1, PlacesAre
<1>4. es \in Seq(Entry) /\ es[i] \in Entry /\ es[k] \in Entry
  BY DEF Table
<1>5. /\ i \in Int /\ k \in Int
      /\ DOMAIN es[i].clients \subseteq Int /\ DOMAIN es[k].clients \subseteq Int
  BY <1>4 DEF Entry
<1>6. ~Before(p, q) /\ ~Before(q, p)
  BY <1>1 DEF MatchingClients
<1> QED BY <1>2, <1>3, <1>5, <1>6 DEF Before

LEMMA PlaceClient ==
  ASSUME NEW es, Table(es), NEW topic, NEW p \in MatchingPlaces(es, topic)
  PROVE  /\ ClientAt(es, p) \in Client
         /\ HasRoute(es, ClientAt(es, p), es[p[1]].filter)
         /\ TopicMatches(es[p[1]].filter, topic)
         /\ es[p[1]].filter \in Filter
<1>0. PICK i \in DOMAIN es : \E j \in DOMAIN es[i].clients : p = <<i, j>> /\ TopicMatches(es[i].filter, topic)
  BY PlacesAre
<1>1. PICK j \in DOMAIN es[i].clients : p = <<i, j>> /\ TopicMatches(es[i].filter, topic)
  BY <1>0
<1>2. es \in Seq(Entry) /\ es[i] \in Entry
  BY DEF Table
<1>3. es[i].clients \in Seq(Client) /\ es[i].filter \in Filter
  BY <1>2 DEF Entry
<1>4. ClientAt(es, p) = es[i].clients[j] /\ p[1] = i
  BY <1>1 DEF ClientAt
<1>5. HasRoute(es, ClientAt(es, p), es[p[1]].filter)
  BY <1>1, <1>4 DEF HasRoute, Listed
<1> QED BY <1>1, <1>3, <1>4, <1>5

\* The places of a client among those the fanout reaches.
At(places, client) == {p \in Reached(places) : ClientAt(entries, p) = client}

LEMMA CopiesOf ==
  ASSUME NEW places, Table(entries), NEW topic, places = MatchingClients(entries, topic), NEW client
  PROVE  \/ At(places, client) = {} /\ Cardinality(At(places, client)) = 0
         \/ Cardinality(At(places, client)) = 1 /\ \E p : At(places, client) = {p}
<1>1. \A p, q \in At(places, client) : p = q
  BY OnePlace DEF At, Reached
<1>2. CASE At(places, client) = {}
  BY <1>2, FS_EmptySet, Zenon
<1>3. ASSUME NEW p \in At(places, client)
      PROVE  Cardinality(At(places, client)) = 1 /\ \E q : At(places, client) = {q}
  <2>1. At(places, client) = {p}
    BY <1>1, <1>3
  <2> QED BY <2>1, FS_Singleton, Zenon
<1> QED BY <1>2, <1>3

-----------------------------------------------------------------------------
(***************************************************************************)
(* What is where, and what the steps do to it.  Kinds are those of         *)
(* commands, so that nothing is promoted and nothing goes untracked.       *)
(***************************************************************************)
SentPacket == {action \in DriverAction : action.do = "Send"}

Typed ==
  /\ clean_session \in BOOLEAN
  /\ to_broker \in Seq(SentPacket)
  /\ to_runtime \in Seq(FromBroker)
  /\ timeouts \in 0 .. MaxLosses
  /\ drops \in 0 .. MaxLosses
  /\ next_id \in 0 .. MaxClients
  /\ open \subseteq 1 .. next_id
  /\ host \in BOOLEAN
  /\ issued \in 0 .. MaxCommands
  /\ next_token \in [Client -> 0 .. issued]
  /\ commands \in Seq(OpId)
  /\ Table(entries)
  /\ mailbox \in [Client -> Seq(Event)]
  /\ ended \in TaskError \cup {None}
  /\ granted \subseteq Filter
  /\ withdrawn \in [Filter -> Withdrawal]
  /\ messages \in 0 .. MaxMessages
  /\ mistaken \in BOOLEAN

Sound == OwnerInv /\ Typed

\* The same facts, with the router's in one.
LEMMA TypedIsTypeOK == ClientsTypeOK <=> Typed
<1>1. ASSUME entries \in Seq(Entry)
      PROVE  IsInjective([i \in DOMAIN entries |-> entries[i].filter]) <=>
               \A i, j \in DOMAIN entries : entries[i].filter = entries[j].filter => i = j
  BY DEF IsInjective
<1>2. <<timeouts, drops>> \in (0 .. MaxLosses) \X (0 .. MaxLosses)
        <=> timeouts \in 0 .. MaxLosses /\ drops \in 0 .. MaxLosses
  OBVIOUS
<1>3. Entry = [filter : Filter, clients : Seq(Client) \ {<<>>}]
  BY DEF Entry
<1>4. SentPacket = {action \in DriverAction : action.do = "Send"}
  BY DEF SentPacket
<1> QED BY <1>1, <1>2, <1>3, <1>4, Zenon DEF ClientsTypeOK, Typed, Table

LEMMA Bounds ==
  MaxClients \in Nat /\ MaxCommands \in Nat /\ MaxMessages \in Nat /\ MaxLosses \in Nat
BY BoundsAssumption, MaxLossesAssumption

\* A command, and the operation that it becomes.
LEMMA CommandParts ==
  \A command \in OpId : /\ command.client \in Client
                        /\ command.token \in 1 .. MaxCommands
                        /\ command.kind \in Kind
                        /\ command.filter \in Filter
BY OpIdAssumption

LEMMA KindParts ==
  \A kind \in Kind : kind \in {"subscribe", "unsubscribe"} /\ kind # "qos0"
BY KindsAssumption

LEMMA OpParts ==
  \A op \in Operation : /\ op.id \in OpId /\ op.kind \in Kind
                        /\ op.pkid \in Slot /\ op.dup \in BOOLEAN /\ op # None
BY NoneAssumption DEF Operation

\* The operations that the state has.
Here ==
  {outgoing[i] : i \in Occupied} \cup (IF collision = None THEN {} ELSE {collision}) \cup ToSet(pending)

Ops == Here \cup ToSet(replay)

LEMMA InOps ==
  /\ \A i \in Occupied : outgoing[i] \in Ops
  /\ collision # None => collision \in Ops
  /\ \A i \in DOMAIN pending : pending[i] \in Ops
  /\ \A i \in DOMAIN replay : replay[i] \in Ops
BY DEF Ops, Here, ToSet

LEMMA OpsType == ASSUME TypeOK PROVE Ops \subseteq Operation
<1>1. \A i \in Occupied : outgoing[i] \in Operation
  BY DEF TypeOK, Occupied
<1>2. \A i \in DOMAIN pending : pending[i] \in Operation
  BY DEF TypeOK
<1>3. \A i \in DOMAIN replay : replay[i] \in Operation
  BY DEF TypeOK
<1> QED BY <1>1, <1>2, <1>3 DEF Ops, Here, ToSet, TypeOK

LEMMA OpsOwned == OwnedIds = {op.id : op \in Ops}
BY DEF OwnedIds, OutgoingIds, CollisionIds, PendingIds, ReplayIds, Ops, Here, ToSet

\* An operation keeps its identifier, which is not 0.
LEMMA OpsNumbered ==
  ASSUME StoreInv
  PROVE  /\ \A op \in Ops : op.pkid # 0
         /\ \A i \in Occupied : outgoing[i].pkid = i /\ outgoing[i] \in Operation /\ i \in Slot
<1>1. \A op \in Operation : Identified(op) => op.pkid # 0
  BY OpParts, KindParts DEF Identified
<1>2. \A i \in Occupied : outgoing[i].pkid = i /\ i # 0 /\ outgoing[i] \in Operation /\ i \in Slot
  BY DEF StoreInv, StoreConsistent, TypeOK, Occupied
<1>3. \A i \in DOMAIN pending : pending[i].pkid # 0
  BY <1>1 DEF StoreInv, StoreConsistent, TypeOK
<1>4. \A i \in DOMAIN replay : replay[i].pkid # 0
  BY <1>1 DEF StoreInv, StoreConsistent, TypeOK
<1>5. collision # None => collision.pkid # 0
  BY DEF StoreInv, StoreConsistent
<1> QED BY <1>2, <1>3, <1>4, <1>5 DEF Ops, Here, ToSet

\* The acknowledgements on their way.
Acks == {packet \in ToSet(to_runtime) : packet.type # "publish"}

\* An operation gets its slot and is sent, or waits, or is dropped.
Tracks(op) ==
  \/ /\ Accepts(op)
     /\ outgoing' = [outgoing EXCEPT ![op.pkid] = op]
     /\ to_broker' = Append(to_broker, Send(op, op.dup))
     /\ UNCHANGED <<collision, pending>>
  \/ /\ ~Accepts(op)
     /\ collision' \in {collision, op}
     /\ pending' \in {pending, Append(pending, op)}
     /\ UNCHANGED <<outgoing, to_broker>>

LEMMA SentOf ==
  ASSUME NEW op \in Operation
  PROVE  /\ Send(op, op.dup) \in SentPacket
         /\ Send(op, op.dup).packet = op.kind /\ Send(op, op.dup).id = op.id
         /\ Send(op, op.dup).pkid = op.pkid
BY SendType, OpParts DEF Send, SentPacket

LEMMA TrackDoes ==
  ASSUME Typed, NEW op \in Operation, TrackAndSend(op), Transmit
  PROVE  Tracks(op) /\ UNCHANGED finished
<1>1. UNCHANGED finished
  BY DEF TrackAndSend
<1>2. CASE Accepts(op)
  <2> DEFINE packet == Send(op, op.dup)
  <2>1. actions' = <<packet>>
    BY <1>2 DEF TrackAndSend, SendOp
  <2>2. packet.do = "Send" /\ packet \in SentPacket
    BY SentOf DEF Send
  <2> HIDE DEF packet
  <2>3. Sent(1) = <<packet>> /\ Sent(2) = <<>>
    BY <2>1, <2>2 DEF Sent, IsSend
  <2>4. to_broker' = Append(to_broker, packet)
    <3>1. to_broker \in Seq(SentPacket)
      BY DEF Typed
    <3> QED BY <2>2, <2>3, <3>1 DEF Transmit
  <2> QED BY <1>1, <1>2, <2>4 DEF TrackAndSend, Track, TryInsert, Tracks, packet, Accepts, Collides
<1>3. CASE ~Accepts(op)
  <2>1. Sent(1) = <<>> /\ Sent(2) = <<>>
    BY <1>3 DEF TrackAndSend, SendNothing, Sent, IsSend
  <2>2. UNCHANGED to_broker
    <3>1. to_broker \in Seq(SentPacket)
      BY DEF Typed
    <3> QED BY <2>1, <3>1 DEF Transmit
  <2> QED BY <1>1, <1>3, <2>2 DEF TrackAndSend, Track, TryInsert, Tracks
<1> QED BY <1>2, <1>3

\* The operations after an attempt to track one.
LEMMA TrackOps ==
  ASSUME TypeOK, NEW op \in Operation, Tracks(op)
  PROVE  Here' \subseteq Here \cup {op}
<1>1. \A i \in Occupied' : outgoing'[i] = op \/ (i \in Occupied /\ outgoing'[i] = outgoing[i])
  <2>1. outgoing' = outgoing \/ outgoing' = [outgoing EXCEPT ![op.pkid] = op]
    BY DEF Tracks
  <2>2. outgoing \in [Slot -> Operation \cup {None}]
    BY DEF TypeOK
  <2> QED BY <2>1, <2>2 DEF Occupied
<1>2. collision' \in {collision, op}
  BY DEF Tracks
<1>3. \A i \in DOMAIN pending' :
        pending'[i] = op \/ (i \in DOMAIN pending /\ pending'[i] = pending[i])
  <2>1. pending' = pending \/ pending' = Append(pending, op)
    BY DEF Tracks
  <2>2. pending \in Seq(Operation)
    BY DEF TypeOK
  <2> QED BY <2>1, <2>2
<1> QED BY <1>1, <1>2, <1>3 DEF Here, ToSet

-----------------------------------------------------------------------------
(***************************************************************************)
(* What each step does to the protocol state and to what is on its way.    *)
(***************************************************************************)
LEMMA CommandDoes ==
  ASSUME Sound, TakeCommand
  PROVE  /\ AtLoop /\ commands # <<>> /\ commands' = Tail(commands)
         /\ \E op \in Operation :
              /\ op.id = Head(commands) /\ op.kind = op.id.kind /\ op.pkid = NextCandidate
              /\ op.pkid # 0 /\ op.id \in OpId /\ op.id \notin submitted
              /\ submitted' = submitted \cup {op.id}
              /\ \/ active /\ Tracks(op)
                 \/ /\ ~active /\ pending' = Append(pending, op)
                    /\ UNCHANGED <<outgoing, collision, to_broker>>
         /\ last_pkid' = NextCandidate
         /\ UNCHANGED <<active, replay, error, finished>>
         /\ UNCHANGED <<clean_session, to_runtime, losses, handles, task, mailbox, broker>>
<1>1. StoreInv /\ TypeOK /\ Typed /\ commands \in Seq(OpId)
  BY DEF Sound, OwnerInv, StoreInv, Typed
<1>2. /\ AtLoop /\ commands # <<>> /\ commands' = Tail(commands) /\ Transmit
      /\ Command(Head(commands), Head(commands).kind)
      /\ UNCHANGED <<clean_session, to_runtime, losses, handles, task, mailbox, broker>>
  BY DEF TakeCommand
<1>3. PICK command \in OpId : command = Head(commands)
  BY <1>1, <1>2
<1>4. PICK kind \in Kind : kind = command.kind
  BY CommandParts
<1>5. PICK op \in Operation : /\ op = NewOp(command, kind) /\ op.id = command /\ op.kind = kind
                              /\ op.pkid = NextCandidate /\ op.pkid # 0
  <2>1. kind # "qos0"
    BY KindParts
  <2>2. NewOp(command, kind).pkid = NextCandidate
    BY <2>1 DEF NewOp
  <2> QED BY <1>1, <2>1, <2>2, NewOpType
<1>6. Command(command, kind)
  BY <1>2, <1>3, <1>4
<1>7. /\ command \notin submitted /\ submitted' = submitted \cup {command}
      /\ last_pkid' = NextCandidate
      /\ UNCHANGED <<active, replay, error>>
  BY <1>6, KindParts DEF Command, CommandOffline, CommandTracked, CommandUntracked, Submit
<1>8. CASE CommandOffline(command, kind)
  <2>1. /\ ~active /\ pending' = Append(pending, op) /\ actions' = <<>>
        /\ UNCHANGED <<outgoing, collision, finished>>
    BY <1>5, <1>8 DEF CommandOffline, SendNothing
  <2>2. UNCHANGED to_broker
    <3>1. to_broker \in Seq(SentPacket)
      BY <1>1 DEF Typed
    <3>2. Sent(1) = <<>> /\ Sent(2) = <<>>
      BY <2>1 DEF Sent, IsSend
    <3> QED BY <1>2, <3>1, <3>2 DEF Transmit
  <2> QED BY <1>2, <1>3, <1>4, <1>5, <1>7, <2>1, <2>2
<1>9. CASE CommandTracked(command, kind)
  <2>1. TrackAndSend(op) /\ active
    BY <1>5, <1>9 DEF CommandTracked
  <2>2. Tracks(op) /\ UNCHANGED finished
    BY <1>1, <1>2, <2>1, TrackDoes
  <2> QED BY <1>2, <1>3, <1>4, <1>5, <1>7, <2>1, <2>2
<1> QED BY <1>6, <1>8, <1>9, KindParts DEF Command, CommandUntracked

LEMMA ResendDoes ==
  ASSUME Sound, Resend
  PROVE  /\ Running /\ replay # <<>> /\ replay' = Tail(replay)
         /\ Head(replay) \in Operation /\ Head(replay) \in ToSet(replay) /\ Tracks(Head(replay))
         /\ UNCHANGED <<active, last_pkid, error, submitted, finished>>
         /\ UNCHANGED <<clean_session, to_runtime, losses, handles, commands, task, broker>>
         /\ TellReconnected
<1>1. StoreInv /\ TypeOK /\ Typed
  BY DEF Sound, OwnerInv, StoreInv
<1>2. /\ Running /\ replay # <<>> /\ replay' = Tail(replay) /\ Transmit /\ TellReconnected
      /\ UNCHANGED <<active, last_pkid, error, submitted>>
      /\ IF Reinjected.kind = "qos0" THEN SendUntracked(Reinjected) ELSE TrackAndSend(Reinjected)
  BY DEF Resend, Replay
<1>3. UNCHANGED <<clean_session, to_runtime, losses, handles, commands, task, broker>>
  BY <1>2 DEF TellReconnected
<1>4. PICK op \in Operation : op = Head(replay) /\ op \in ToSet(replay)
  BY <1>1, <1>2 DEF TypeOK, ToSet
<1>5. Reinjected = op
  BY <1>4, OpParts, KindParts DEF Reinjected, IsPublish, Operation
<1>6. TrackAndSend(op)
  BY <1>2, <1>5, OpParts, KindParts
<1>7. Tracks(op) /\ UNCHANGED finished
  BY <1>1, <1>2, <1>6, TrackDoes
<1> QED BY <1>2, <1>3, <1>4, <1>7

\* A packet from the broker.
LEMMA ReceivedPacket ==
  ASSUME Typed, NEW type, Receive(type)
  PROVE  /\ AtLoop /\ to_runtime # <<>> /\ to_runtime' = Tail(to_runtime)
         /\ Head(to_runtime) \in FromBroker /\ Head(to_runtime) \in ToSet(to_runtime)
         /\ Head(to_runtime).type = type
         /\ type = "publish" => Head(to_runtime).topic \in Topic
         /\ type # "publish" => /\ Head(to_runtime).pkid \in Slot /\ Head(to_runtime).of \in OpId
                                /\ Head(to_runtime) \in Acks
         /\ UNCHANGED <<clean_session, to_broker, losses, handles, commands, broker>>
<1>1. /\ AtLoop /\ to_runtime # <<>> /\ to_runtime' = Tail(to_runtime)
      /\ Head(to_runtime).type = type
      /\ UNCHANGED <<clean_session, to_broker, losses, handles, commands, broker>>
  BY DEF Receive
<1>2. to_runtime \in Seq(FromBroker)
  BY DEF Typed
<1>3. Head(to_runtime) \in FromBroker /\ Head(to_runtime) \in ToSet(to_runtime)
  BY <1>1, <1>2 DEF ToSet
<1>4. \A packet \in FromBroker :
        /\ packet.type = "publish" => packet.topic \in Topic
        /\ packet.type # "publish" => packet.pkid \in Slot /\ packet.of \in OpId
  BY DEF FromBroker
<1> QED BY <1>1, <1>3, <1>4 DEF Acks

Reported(op) ==
  [event |-> "Completion", ack |-> IF op.kind = "subscribe" THEN "SubAck" ELSE "UnsubAck",
   of |-> op.id]

\* The routes change, then the client is told, if there is one.
Completes(op) ==
  /\ entries' = IF op.kind = "subscribe"
                  THEN AddSubscription(entries, op.id.client, op.id.filter)
                  ELSE RemoveSubscription(entries, op.id.client, op.id.filter)
  /\ \/ /\ op.id.client \in open /\ UNCHANGED ended
        /\ mailbox' = [mailbox EXCEPT ![op.id.client] = Append(@, Reported(op))]
     \/ op.id.client \notin open /\ UNCHANGED mailbox /\ ended' = "EventChannelClosed"

Answers(ack, op) == ack.type = "suback" <=> op.kind = "subscribe"

LEMMA AckDoes ==
  ASSUME Sound, Acknowledged
  PROVE  \E ack \in FromBroker, op \in Operation :
           /\ AtLoop /\ to_runtime # <<>> /\ ack = Head(to_runtime)
           /\ to_runtime' = Tail(to_runtime) /\ ack \in Acks
           /\ ack.type \in {"suback", "unsuback"} /\ ack.of \in OpId
           /\ ack.pkid \in Occupied /\ op = outgoing[ack.pkid]
           /\ outgoing' = [outgoing EXCEPT ![ack.pkid] = None]
           /\ UNCHANGED <<active, last_pkid, collision, pending, replay, submitted>>
           /\ UNCHANGED <<clean_session, to_broker, losses, handles, commands, broker>>
           /\ \/ /\ Answers(ack, op) /\ UNCHANGED error /\ Completes(op)
                 /\ finished' = [finished EXCEPT ![op.id] = @ + 1]
                 /\ mistaken' = (mistaken \/ op.id # ack.of)
              \/ /\ ~Answers(ack, op) /\ error' = "InvalidCommand"
                 /\ UNCHANGED <<finished, task, mailbox>>
<1>1. StoreInv /\ TypeOK /\ Typed
  BY DEF Sound, OwnerInv, StoreInv
<1> DEFINE packet == Head(to_runtime)
<1>2. PICK kind \in {"subscribe", "unsubscribe"}, answer \in {"SubAck", "UnsubAck"},
          type \in {"suback", "unsuback"} :
        /\ Receive(type) /\ FilterAck(packet.pkid, kind, answer)
        /\ kind = "subscribe" <=> type = "suback"
        /\ kind = "subscribe" <=> answer = "SubAck"
  BY DEF Acknowledged, SubAck, UnsubAck
<1>3. type # "publish"
  BY <1>2
<1>4. PICK ack \in FromBroker :
        /\ AtLoop /\ to_runtime # <<>> /\ ack = packet /\ to_runtime' = Tail(to_runtime)
        /\ ack.type = type /\ ack.pkid \in Slot /\ ack.of \in OpId /\ ack \in Acks
        /\ UNCHANGED <<clean_session, to_broker, losses, handles, commands, broker>>
  BY <1>1, <1>2, <1>3, ReceivedPacket
<1>5. PICK pkid \in Slot : pkid = ack.pkid
  BY <1>4
<1>6. FilterAck(pkid, kind, answer)
  BY <1>2, <1>4, <1>5
<1>7. pkid \in Occupied
  BY <1>5, <1>6 DEF FilterAck, Held, Occupied
<1>8. PICK op \in Operation : op = outgoing[pkid]
  BY <1>1, <1>7, OpsNumbered
<1>9. /\ outgoing' = [outgoing EXCEPT ![pkid] = None] /\ error = None
      /\ UNCHANGED <<active, last_pkid, collision, pending, replay, submitted>>
  BY <1>6 DEF FilterAck, Ready
<1>10. CASE op.kind = kind
  <2>1. /\ actions' = <<CompleteFor(op, answer)>> /\ UNCHANGED error
        /\ finished' = [finished EXCEPT ![op.id] = @ + 1]
    BY <1>6, <1>8, <1>10 DEF FilterAck
  <2> DEFINE done == actions'[1]
  <2>2. done.id = op.id /\ done.ack = answer
    BY <2>1 DEF CompleteFor
  <2>3. Complete(done) /\ mistaken' = (mistaken \/ done.id # packet.of)
    BY <1>9, <2>1 DEF Acknowledged
  <2>4. answer = IF op.kind = "subscribe" THEN "SubAck" ELSE "UnsubAck"
    BY <1>2, <1>10
  <2>5. Completion(done) = Reported(op)
    BY <2>2, <2>4 DEF Completion, Reported
  <2> HIDE DEF done
  <2>6. entries' = IF op.kind = "subscribe"
                     THEN AddSubscription(entries, op.id.client, op.id.filter)
                     ELSE RemoveSubscription(entries, op.id.client, op.id.filter)
    <3>1. done.ack = "SubAck" <=> op.kind = "subscribe"
      BY <2>2, <2>4
    <3> QED BY <2>2, <2>3, <3>1 DEF Complete, Rerouted
  <2>7. Completes(op)
    BY <2>2, <2>3, <2>5, <2>6 DEF Complete, Completes
  <2>8. mistaken' = (mistaken \/ op.id # ack.of)
    BY <1>4, <2>2, <2>3
  <2>9. Answers(ack, op)
    BY <1>2, <1>4, <1>10 DEF Answers
  <2> QED BY <1>4, <1>5, <1>7, <1>8, <1>9, <2>1, <2>7, <2>8, <2>9
<1>11. CASE op.kind # kind
  <2>1. error' = "InvalidCommand" /\ UNCHANGED finished
    BY <1>6, <1>8, <1>11 DEF FilterAck, Fail
  <2>2. error' # None
    BY <2>1, NoneAssumption DEF Error
  <2>3. UNCHANGED <<task, mailbox>>
    BY <2>2 DEF Acknowledged
  <2>4. ~Answers(ack, op)
    BY <1>2, <1>4, <1>11, OpParts, KindParts DEF Answers
  <2> QED BY <1>4, <1>5, <1>7, <1>8, <1>9, <2>1, <2>3, <2>4
<1> QED BY <1>10, <1>11

LEMMA NotAckDoes ==
  ASSUME Sound, NotAcknowledged
  PROVE  \E ack \in Acks :
           /\ AtLoop /\ to_runtime # <<>> /\ ack = Head(to_runtime)
           /\ to_runtime' = Tail(to_runtime)
           /\ ack.pkid \in Slot \ Occupied /\ error' = "UnsolicitedAck"
           /\ UNCHANGED <<active, last_pkid, outgoing, collision, pending, replay, submitted, finished>>
           /\ UNCHANGED <<clean_session, to_broker, losses, handles, commands, broker>>
           /\ UNCHANGED <<task, mailbox>>
<1>1. PICK type \in {"suback", "unsuback"} : Receive(type)
  BY DEF NotAcknowledged
<1>2. type # "publish" /\ Typed
  BY DEF Sound
<1>3. /\ AtLoop /\ to_runtime # <<>> /\ to_runtime' = Tail(to_runtime)
      /\ Head(to_runtime).pkid \in Slot /\ Head(to_runtime) \in Acks
      /\ UNCHANGED <<clean_session, to_broker, losses, handles, commands, broker>>
  BY <1>1, <1>2, ReceivedPacket
<1>4. UnsolicitedAck(Head(to_runtime).pkid) /\ UNCHANGED <<task, mailbox>>
  BY DEF NotAcknowledged
<1>5. /\ Head(to_runtime).pkid \notin Occupied /\ error' = "UnsolicitedAck"
      /\ UNCHANGED <<active, last_pkid, outgoing, collision, pending, replay, submitted, finished>>
  BY <1>4 DEF UnsolicitedAck, Held, Occupied, Fail, store, history
<1> QED BY <1>3, <1>4, <1>5

LEMMA PublishedDoes ==
  ASSUME Sound, Published
  PROVE  /\ Receive("publish") /\ UNCHANGED <<vars, entries, mistaken>>
         /\ ended' \in {None, "EventChannelClosed"}
BY DEF Published

LEMMA LossDoes ==
  ASSUME Sound, LoseConnection
  PROVE  /\ Running /\ active /\ timeouts + drops < MaxLosses
         /\ Occupied' = {} /\ collision' = None /\ replay = <<>> /\ replay' = <<>>
         /\ ~active' /\ last_pkid' = IF clean_session THEN 0 ELSE last_pkid
         /\ Ops' \subseteq Ops /\ UNCHANGED OwnedIds
         /\ UNCHANGED <<error, submitted, finished>>
         /\ UNCHANGED <<clean_session, handles, commands, task, messages>>
         /\ Broadcast(Disconnected)
<1>1. /\ Running /\ MayLose /\ ConnectionLost(clean_session) /\ Broadcast(Disconnected)
      /\ UNCHANGED <<clean_session, handles, commands, task, messages>>
  BY DEF LoseConnection
<1>2. /\ outgoing' = [i \in Slot |-> None] /\ collision' = None
      /\ UNCHANGED <<replay, error, submitted, finished>>
      /\ replay = <<>> /\ active' = FALSE
      /\ last_pkid' = IF clean_session THEN 0 ELSE last_pkid
  BY <1>1 DEF ConnectionLost, Ready, history
<1>3. Occupied' = {}
  BY <1>2 DEF Occupied
<1>4. PICK slot \in Bijection(1 .. inflight, Occupied) :
        pending' = pending \o Drained(slot) \o CollisionQueue
  BY <1>1, LostQueue DEF Sound, OwnerInv
<1>5. slot \in [1 .. inflight -> Occupied]
  BY <1>4 DEF Bijection, Injection
<1>6. /\ Drained(slot) \in Seq(Operation) /\ Len(Drained(slot)) = inflight
      /\ \A k \in 1 .. inflight : Drained(slot)[k] = outgoing[slot[k]]
      /\ CollisionQueue \in Seq(Operation) /\ pending \in Seq(Operation)
  BY <1>5, QueueType DEF Sound, OwnerInv, StoreInv, TypeOK
<1>7. /\ \A k \in DOMAIN pending : pending[k] \in Ops
      /\ \A k \in DOMAIN Drained(slot) : Drained(slot)[k] \in Ops
      /\ \A k \in DOMAIN CollisionQueue : CollisionQueue[k] \in Ops
  <2>1. \A k \in DOMAIN Drained(slot) : k \in 1 .. inflight
    BY <1>6
  <2> QED BY <1>5, <1>6, <2>1, InOps DEF CollisionQueue
<1>8. \A k \in DOMAIN pending' : pending'[k] \in Ops
  <2> HIDE DEF Ops
  <2> QED BY <1>4, <1>6, <1>7
<1>9. Ops' \subseteq Ops
  <2>1. ToSet(pending') \subseteq Ops
    BY <1>8 DEF ToSet
  <2>2. Ops' = ToSet(pending') \cup ToSet(replay)
    BY <1>2, <1>3 DEF Ops, Here
  <2> QED BY <2>1, <2>2 DEF Ops
<1>10. UNCHANGED OwnedIds
  <2>1. /\ OutgoingIds' = {} /\ CollisionIds' = {}
        /\ PendingIds' = PendingIds \cup OutgoingIds \cup CollisionIds
    BY <1>1, LostOwners DEF Sound, OwnerInv, SingleOwner, OwnersDisjoint
  <2>2. UNCHANGED ReplayIds
    BY <1>2 DEF ReplayIds
  <2> QED BY <2>1, <2>2 DEF OwnedIds
<1> QED BY <1>1, <1>2, <1>3, <1>9, <1>10 DEF MayLose

LEMMA RestoreDoes ==
  ASSUME Sound, Restore
  PROVE  /\ Running /\ active' /\ Reconnecting
         /\ Ops' \subseteq Ops /\ UNCHANGED <<OwnedIds, outgoing, collision>>
         /\ UNCHANGED <<last_pkid, error, submitted, finished, to_broker>>
         /\ UNCHANGED <<clean_session, to_runtime, losses, handles, commands, task, broker>>
         /\ TellReconnected
<1>1. /\ Running /\ Reconnecting /\ ConnectionRestored /\ UNCHANGED to_broker /\ TellReconnected
  BY DEF Restore
<1>2. UNCHANGED <<clean_session, to_runtime, losses, handles, commands, task, broker>>
  BY <1>1 DEF TellReconnected
<1>3. /\ replay' = pending /\ pending' = <<>> /\ active' /\ replay = <<>>
      /\ UNCHANGED <<outgoing, collision, last_pkid, error, submitted, finished>>
  BY <1>1 DEF ConnectionRestored, history, Ready
<1>4. Ops' \subseteq Ops /\ UNCHANGED OwnedIds
  <2>1. Occupied' = Occupied
    BY <1>3 DEF Occupied
  <2>2. ToSet(<<>>) = {}
    BY DEF ToSet
  <2>3. Ops' = Ops
    BY <1>3, <2>1, <2>2 DEF Ops, Here
  <2>4. OwnedIds' = OwnedIds
    <3>1. ReplayIds' = PendingIds /\ PendingIds' = {} /\ UNCHANGED <<OutgoingIds, CollisionIds>>
      BY <1>1, RestoredOwners DEF Sound, OwnerInv, StoreInv
    <3>2. ReplayIds = {}
      BY <1>3 DEF ReplayIds
    <3> QED BY <3>1, <3>2 DEF OwnedIds
  <2> QED BY <2>3, <2>4
<1> QED BY <1>1, <1>2, <1>3, <1>4

\* The broker reads a packet and answers it.
LEMMA AnswerDoes ==
  ASSUME Sound, NEW kind \in {"subscribe", "unsubscribe"}, NEW answer \in {"suback", "unsuback"},
         Reads(kind, answer)
  PROVE  /\ Running /\ to_broker # <<>> /\ to_broker' = Tail(to_broker)
         /\ Packet \in SentPacket /\ Packet \in ToSet(to_broker)
         /\ Packet.packet = kind /\ Packet.id \in OpId /\ Packet.pkid \in Slot
         /\ \E ack \in FromBroker :
              /\ ack.type = answer /\ ack.pkid = Packet.pkid /\ ack.of = Packet.id
              /\ to_runtime' = Append(to_runtime, ack)
         /\ UNCHANGED <<vars, clean_session, losses, handles, commands, task, mailbox, messages>>
<1>1. /\ Running /\ to_broker # <<>> /\ to_broker' = Tail(to_broker) /\ Packet.packet = kind
      /\ to_runtime' =
           Append(to_runtime, [type |-> answer, pkid |-> Packet.pkid, of |-> Packet.id])
      /\ UNCHANGED <<vars, clean_session, losses, handles, commands, task, mailbox, messages>>
  BY DEF Reads
<1>2. to_broker \in Seq(SentPacket)
  BY DEF Sound, Typed
<1>3. Packet \in SentPacket /\ Packet \in ToSet(to_broker)
  BY <1>1, <1>2 DEF Packet, ToSet
<1>4. Packet.id \in OpId /\ Packet.pkid \in Slot
  BY <1>1, <1>3 DEF SentPacket, DriverAction, TriggerReconnect
<1>5. PICK ack \in FromBroker : ack = [type |-> answer, pkid |-> Packet.pkid, of |-> Packet.id]
  BY <1>4 DEF FromBroker
<1> QED BY <1>1, <1>3, <1>4, <1>5

-----------------------------------------------------------------------------
(***************************************************************************)
(* Types, and the invariant of RuntimeState: each step of the composition  *)
(* is one of RuntimeState's or leaves its variables alone.                 *)
(***************************************************************************)
LEMMA RuntimeSteps == ASSUME Sound, [ClientsNext]_allVars PROVE [Next]_vars
<1>1. CASE TakeCommand
  <2>1. Head(commands) \in OpId /\ Command(Head(commands), Head(commands).kind)
    BY <1>1 DEF TakeCommand, Sound, Typed
  <2> QED BY <2>1, CommandParts DEF Next
<1>2. CASE Acknowledged
  <2>0. PICK type \in {"suback", "unsuback"} : \E pkid :
          Receive(type) /\ pkid = Head(to_runtime).pkid /\ (SubAck(pkid) \/ UnsubAck(pkid))
    BY <1>2 DEF Acknowledged
  <2>1. PICK pkid : Receive(type) /\ pkid = Head(to_runtime).pkid /\ (SubAck(pkid) \/ UnsubAck(pkid))
    BY <2>0
  <2>2. type # "publish"
    OBVIOUS
  <2>3. pkid \in Slot
    BY <2>1, <2>2, ReceivedPacket DEF Sound
  <2>4. pkid \in WirePkid
    BY <2>3, MaxInflightAssumption DEF Slot, WirePkid
  <2> QED BY <2>1, <2>4 DEF Next, Incoming
<1>3. CASE NotAcknowledged
  <2>0. PICK type \in {"suback", "unsuback"} : \E pkid :
          Receive(type) /\ pkid = Head(to_runtime).pkid /\ UnsolicitedAck(pkid)
    BY <1>3 DEF NotAcknowledged
  <2>1. PICK pkid : Receive(type) /\ pkid = Head(to_runtime).pkid /\ UnsolicitedAck(pkid)
    BY <2>0
  <2>2. type # "publish"
    OBVIOUS
  <2>3. pkid \in Slot
    BY <2>1, <2>2, ReceivedPacket DEF Sound
  <2>4. pkid \in WirePkid
    BY <2>3, MaxInflightAssumption DEF Slot, WirePkid
  <2> QED BY <2>1, <2>4 DEF Next, Incoming
<1>4. CASE Timeout \/ Replace
  <2>1. ConnectionLost(clean_session) /\ clean_session \in BOOLEAN
    BY <1>4 DEF Timeout, Replace, LoseConnection, Sound, Typed
  <2> QED BY <2>1 DEF Next
<1>5. CASE Restore \/ Resend
  BY <1>5 DEF Restore, Resend, Next
<1>6. CASE User \/ CommandChannelClosed \/ Published \/ Broker \/ UNCHANGED allVars
  BY <1>6 DEF User, CommandChannelClosed, Published, Broker, Answer, Grant, Refuse, Withdraw,
              Reads, Publish, allVars
<1> QED BY <1>1, <1>2, <1>3, <1>4, <1>5, <1>6 DEF ClientsNext, Runtime, PollIncoming

LEMMA EventParts ==
  /\ \A op \in Operation : Reported(op) \in Event /\ Reported(op).event = "Completion"
                           /\ Reported(op).of = op.id
  /\ \A topic \in Topic : IncomingPublish(topic) \in Event
                          /\ IncomingPublish(topic).event = "IncomingPublish"
  /\ Disconnected \in Event /\ Disconnected.event = "Disconnected"
  /\ Reconnected \in Event /\ Reconnected.event = "Reconnected"
<1>1. \A op \in Operation : Reported(op) \in Event
  BY OpParts DEF Reported, Event
<1> QED BY <1>1 DEF Event, Reported, IncomingPublish, Disconnected, Reconnected

LEMMA BroadcastTyped ==
  ASSUME mailbox \in [Client -> Seq(Event)], NEW event \in Event, Broadcast(event)
  PROVE  mailbox' \in [Client -> Seq(Event)]
BY DEF Broadcast

LEMMA TracksTyped ==
  ASSUME Typed, NEW op \in Operation, Tracks(op)
  PROVE  to_broker' \in Seq(SentPacket)
<1>1. to_broker \in Seq(SentPacket)
  BY DEF Typed
<1>2. Send(op, op.dup) \in SentPacket
  BY SentOf
<1>3. to_broker' = to_broker \/ to_broker' = Append(to_broker, Send(op, op.dup))
  BY DEF Tracks
<1> QED BY <1>1, <1>2, <1>3

LEMMA UserTyped == ASSUME Typed, User PROVE Typed'
<1>1. UNCHANGED <<vars, clean_session, network, losses, task, mailbox, broker>>
  BY DEF User
<1>2. CASE NewClient
  <2>1. /\ next_id < MaxClients /\ next_id' = next_id + 1 /\ open' = open \cup {next_id'}
        /\ UNCHANGED <<host, next_token, issued, commands>>
    BY <1>2 DEF NewClient
  <2>2. next_id' \in 0 .. MaxClients /\ open' \subseteq 1 .. next_id'
    BY <2>1, Bounds DEF Typed
  <2> QED BY <1>1, <2>1, <2>2 DEF Typed, network, losses, task, broker
<1>3. CASE DropHost \/ \E client \in Client : DropHandle(client)
  <2>1. open' \subseteq open /\ host' \in BOOLEAN /\ UNCHANGED <<next_id, next_token, issued, commands>>
    BY <1>3 DEF DropHost, DropHandle, Typed
  <2> QED BY <1>1, <2>1 DEF Typed, network, losses, task, broker
<1>4. ASSUME NEW client \in Client, NEW kind \in Kind, NEW filter \in Filter,
             Issue(client, kind, filter)
      PROVE  Typed'
  <2>1. /\ issued < MaxCommands /\ issued' = issued + 1
        /\ next_token' = [next_token EXCEPT ![client] = @ + 1]
        /\ UNCHANGED <<next_id, open, host>>
    BY <1>4 DEF Issue
  <2>2. issued' \in 1 .. MaxCommands /\ next_token' \in [Client -> 0 .. issued']
    BY <2>1, Bounds DEF Typed
  <2>3. next_token'[client] \in 1 .. MaxCommands
    BY <2>1, Bounds DEF Typed
  <2> DEFINE command == [client |-> client, token |-> next_token'[client],
                         kind |-> kind, filter |-> filter]
  <2>4. command \in OpId
    BY <2>3, OpIdAssumption
  <2>5. commands' = Append(commands, command)
    BY <1>4 DEF Issue
  <2> HIDE DEF command
  <2>6. commands' \in Seq(OpId)
    BY <2>4, <2>5 DEF Typed
  <2> QED BY <1>1, <2>1, <2>2, <2>6 DEF Typed, network, losses, task, broker
<1> QED BY <1>2, <1>3, <1>4 DEF User

LEMMA CommandTyped == ASSUME Sound, TakeCommand \/ CommandChannelClosed PROVE Typed'
<1> USE DEF Sound
<1>1. CASE TakeCommand
  <2>1. PICK op \in Operation : Tracks(op) \/ UNCHANGED to_broker
    BY <1>1, CommandDoes
  <2>2. to_broker' \in Seq(SentPacket)
    BY <2>1, TracksTyped DEF Typed
  <2>3. commands' \in Seq(OpId)
    <3>1. commands \in Seq(OpId)
      BY DEF Typed
    <3> QED BY <1>1, <3>1, CommandDoes
  <2>4. UNCHANGED <<clean_session, to_runtime, losses, handles, task, mailbox, broker>>
    BY <1>1, CommandDoes
  <2> QED BY <2>2, <2>3, <2>4 DEF Typed, handles, task, broker, losses
<1>2. CASE CommandChannelClosed
  BY <1>2 DEF Typed, CommandChannelClosed, TaskError, handles, network, broker, losses
<1> QED BY <1>1, <1>2

LEMMA AckTyped == ASSUME Sound, Acknowledged \/ NotAcknowledged PROVE Typed'
<1> USE DEF Sound
<1>1. CASE Acknowledged
  <2>1. PICK ack \in FromBroker, op \in Operation :
           /\ to_runtime # <<>> /\ to_runtime' = Tail(to_runtime)
           /\ UNCHANGED <<clean_session, to_broker, losses, handles, commands, broker>>
           /\ \/ Completes(op) /\ mistaken' = (mistaken \/ op.id # ack.of)
              \/ UNCHANGED <<task, mailbox>>
    BY <1>1, AckDoes
  <2>2. to_runtime' \in Seq(FromBroker)
    BY <2>1 DEF Typed
  <2>3. CASE UNCHANGED <<task, mailbox>>
    BY <2>1, <2>2, <2>3 DEF Typed, handles, task, broker, losses
  <2>4. CASE Completes(op) /\ mistaken' = (mistaken \/ op.id # ack.of)
    <3>1. PICK client \in Client, filter \in Filter : client = op.id.client /\ filter = op.id.filter
      BY OpParts, CommandParts
    <3>2. Table(entries')
      BY <2>4, <3>1, RouteAdded, RouteRemoved DEF Completes, Typed
    <3>3. mailbox' \in [Client -> Seq(Event)] /\ ended' \in TaskError \cup {None}
      <4>1. \/ mailbox' = [mailbox EXCEPT ![client] = Append(@, Reported(op))] /\ UNCHANGED ended
            \/ UNCHANGED mailbox /\ ended' = "EventChannelClosed"
        BY <2>4, <3>1 DEF Completes
      <4>2. PICK event \in Event : event = Reported(op)
        BY EventParts
      <4>3. mailbox \in [Client -> Seq(Event)] /\ ended \in TaskError \cup {None}
        BY DEF Typed
      <4>4. Append(mailbox[client], event) \in Seq(Event)
        BY <4>3
      <4>5. mailbox' \in [Client -> Seq(Event)]
        BY <4>1, <4>2, <4>3, <4>4
      <4>6. ended' \in TaskError \cup {None}
        BY <4>1, <4>3 DEF TaskError
      <4> QED BY <4>5, <4>6
    <3>4. mistaken' \in BOOLEAN
      BY <2>4 DEF Typed
    <3> QED BY <2>1, <2>2, <3>2, <3>3, <3>4 DEF Typed, handles, broker, losses
  <2> QED BY <2>1, <2>3, <2>4
<1>2. CASE NotAcknowledged
  <2>1. /\ to_runtime # <<>> /\ to_runtime' = Tail(to_runtime)
        /\ UNCHANGED <<clean_session, to_broker, losses, handles, commands, broker>>
        /\ UNCHANGED <<task, mailbox>>
    BY <1>2, NotAckDoes
  <2>2. to_runtime' \in Seq(FromBroker)
    BY <2>1 DEF Typed
  <2> QED BY <2>1, <2>2 DEF Typed, handles, task, broker, losses
<1> QED BY <1>1, <1>2

\* What the fanout adds to a mailbox.
Fanned(topic, client) ==
  [k \in 1 .. Cardinality(At(MatchingClients(entries, topic), client)) |-> IncomingPublish(topic)]

LEMMA FannedIs ==
  ASSUME Typed, NEW topic \in Topic, NEW client
  PROVE  /\ Fanned(topic, client) = <<>> \/ Fanned(topic, client) = <<IncomingPublish(topic)>>
         /\ Fanned(topic, client) \in Seq(Event)
         /\ At(MatchingClients(entries, topic), client) = {} <=> Fanned(topic, client) = <<>>
<1>1. Table(entries)
  BY DEF Typed
<1>2. \/ At(MatchingClients(entries, topic), client) = {}
           /\ Cardinality(At(MatchingClients(entries, topic), client)) = 0
      \/ Cardinality(At(MatchingClients(entries, topic), client)) = 1
           /\ At(MatchingClients(entries, topic), client) # {}
  BY <1>1, CopiesOf, Zenon
<1>3. IncomingPublish(topic) \in Event
  BY EventParts
<1>4. CASE Cardinality(At(MatchingClients(entries, topic), client)) = 0
  BY <1>2, <1>4 DEF Fanned
<1>5. CASE Cardinality(At(MatchingClients(entries, topic), client)) = 1
  <2>1. Fanned(topic, client) = <<IncomingPublish(topic)>>
    BY <1>5 DEF Fanned
  <2> HIDE DEF Fanned
  <2> QED BY <1>2, <1>3, <1>5, <2>1
<1> QED BY <1>2, <1>4, <1>5

LEMMA PublishedMail ==
  ASSUME Sound, Published
  PROVE  /\ Head(to_runtime).topic \in Topic
         /\ mailbox' = [client \in Client |-> mailbox[client] \o Fanned(Head(to_runtime).topic, client)]
         /\ AtLoop /\ to_runtime # <<>> /\ to_runtime' = Tail(to_runtime)
         /\ Head(to_runtime).type = "publish"
         /\ UNCHANGED <<clean_session, to_broker, losses, handles, commands, broker>>
         /\ UNCHANGED <<vars, entries, mistaken>>
         /\ LET places == MatchingClients(entries, Head(to_runtime).topic)
            IN  ended' = IF Reached(places) = places THEN None ELSE "EventChannelClosed"
<1>1. Receive("publish") /\ UNCHANGED <<vars, entries, mistaken>>
  BY DEF Published
<1>2. mailbox' = [client \in Client |-> mailbox[client] \o Fanned(Head(to_runtime).topic, client)]
  BY DEF Published, Fanned, At
<1> QED BY <1>1, <1>2, ReceivedPacket DEF Sound, Published

LEMMA PublishedTyped == ASSUME Sound, Published PROVE Typed'
<1> DEFINE topic == Head(to_runtime).topic
<1>1. /\ topic \in Topic
      /\ mailbox' = [client \in Client |-> mailbox[client] \o Fanned(topic, client)]
      /\ to_runtime # <<>> /\ to_runtime' = Tail(to_runtime)
      /\ UNCHANGED <<clean_session, to_broker, losses, handles, commands, broker>>
      /\ UNCHANGED <<entries, mistaken>>
  BY PublishedMail
<1>2. ended' \in TaskError \cup {None}
  BY PublishedMail DEF TaskError
<1> HIDE DEF topic
<1>3. to_runtime' \in Seq(FromBroker)
  BY <1>1 DEF Sound, Typed
<1>4. mailbox' \in [Client -> Seq(Event)]
  <2>1. \A client \in Client : Fanned(topic, client) \in Seq(Event) /\ mailbox[client] \in Seq(Event)
    BY <1>1, FannedIs DEF Sound, Typed
  <2>2. \A client \in Client : mailbox[client] \o Fanned(topic, client) \in Seq(Event)
    BY <2>1
  <2> QED BY <1>1, <2>2
<1> QED BY <1>1, <1>2, <1>3, <1>4 DEF Sound, Typed, handles, broker, losses

LEMMA LossTyped == ASSUME Sound, Timeout \/ Replace PROVE Typed'
<1> USE DEF Sound
<1>1. LoseConnection
  BY DEF Timeout, Replace
<1>2. /\ timeouts + drops < MaxLosses /\ Broadcast(Disconnected)
      /\ UNCHANGED <<clean_session, handles, commands, task, messages>>
  BY <1>1, LossDoes
<1>3. mailbox' \in [Client -> Seq(Event)]
  BY <1>2, BroadcastTyped, EventParts DEF Typed
<1>4. CASE Timeout
  <2>1. timeouts' \in 0 .. MaxLosses /\ UNCHANGED <<drops, network, granted, withdrawn>>
    BY <1>2, <1>4, Bounds DEF Typed, Timeout
  <2> QED BY <1>2, <1>3, <2>1 DEF Typed, handles, task, network
<1>5. CASE Replace
  <2>1. drops' \in 0 .. MaxLosses /\ UNCHANGED timeouts
    BY <1>2, <1>5, Bounds DEF Typed, Replace
  <2>2. to_broker' \in Seq(SentPacket) /\ to_runtime' \in Seq(FromBroker)
    BY <1>5 DEF Replace
  <2>3. granted' \subseteq Filter
    BY <1>5 DEF Typed, Replace
  <2>4. withdrawn' \in [Filter -> Withdrawal]
    <3>1. By("forgotten", 0) \in Withdrawal
      BY Bounds DEF By, Withdrawal
    <3> QED BY <1>5, <3>1 DEF Typed, Replace
  <2> QED BY <1>2, <1>3, <2>1, <2>2, <2>3, <2>4 DEF Typed, handles, task
<1> QED BY <1>4, <1>5

LEMMA ReconnectTyped == ASSUME Sound, Restore \/ Resend PROVE Typed'
<1> USE DEF Sound
<1>1. /\ UNCHANGED <<clean_session, to_runtime, losses, handles, commands, task, broker>>
      /\ TellReconnected
  BY RestoreDoes, ResendDoes
<1>2. mailbox' \in [Client -> Seq(Event)]
  BY <1>1, BroadcastTyped, EventParts DEF TellReconnected, Typed
<1>3. to_broker' \in Seq(SentPacket)
  <2>1. CASE Restore
    BY <2>1, RestoreDoes DEF Typed
  <2>2. CASE Resend
    BY <2>2, ResendDoes, TracksTyped
  <2> QED BY <2>1, <2>2
<1> QED BY <1>1, <1>2, <1>3 DEF Typed, handles, task, broker, losses

LEMMA BrokerTyped == ASSUME Sound, Broker PROVE Typed'
<1> USE DEF Sound
<1>1. CASE Answer
  <2>1. PICK kind \in {"subscribe", "unsubscribe"}, answer \in {"suback", "unsuback"} :
          Reads(kind, answer)
    BY <1>1 DEF Answer, Grant, Refuse, Withdraw
  <2>2. /\ to_broker # <<>> /\ to_broker' = Tail(to_broker) /\ Packet.id \in OpId
        /\ UNCHANGED <<vars, clean_session, losses, handles, commands, task, mailbox, messages>>
        /\ \E ack \in FromBroker : to_runtime' = Append(to_runtime, ack)
    BY <2>1, AnswerDoes
  <2>3. to_broker' \in Seq(SentPacket) /\ to_runtime' \in Seq(FromBroker)
    BY <2>2 DEF Typed
  <2>4. ReadFilter \in Filter /\ Packet.id.client \in 1 .. MaxClients
    BY <2>2, CommandParts DEF ReadFilter, Client
  <2>5. By("refused", Packet.id.client) \in Withdrawal /\ By("unsubscribed", Packet.id.client) \in Withdrawal
    BY <2>4, Bounds DEF By, Withdrawal
  <2>6. granted' \subseteq Filter
    BY <1>1, <2>4 DEF Typed, Answer, Grant, Refuse, Withdraw
  <2>7. withdrawn' \in [Filter -> Withdrawal]
    BY <1>1, <2>5 DEF Typed, Answer, Grant, Refuse, Withdraw
  <2> QED BY <2>2, <2>3, <2>6, <2>7 DEF Typed, handles, task, losses
<1>2. ASSUME NEW topic \in Topic, Publish(topic) PROVE Typed'
  <2>1. PICK packet \in FromBroker : to_runtime' = Append(to_runtime, packet)
    BY <1>2 DEF Publish, FromBroker
  <2>2. to_runtime' \in Seq(FromBroker)
    BY <2>1 DEF Typed
  <2>3. messages' \in 0 .. MaxMessages
    BY <1>2, Bounds DEF Typed, Publish
  <2>4. UNCHANGED <<clean_session, to_broker, losses, handles, commands, task, mailbox, granted, withdrawn>>
    BY <1>2 DEF Publish
  <2> QED BY <2>2, <2>3, <2>4 DEF Typed, handles, task, losses
<1> QED BY <1>1, <1>2 DEF Broker

LEMMA SoundStart == ClientsInit => Sound
<1> SUFFICES ASSUME ClientsInit PROVE Sound
  OBVIOUS
<1>1. OwnerInv
  BY OwnerInit DEF ClientsInit
<1>2. Table(<<>>)
  BY DEF Table
<1>3. By("never", 0) \in Withdrawal
  BY Bounds DEF By, Withdrawal
<1>4. /\ to_broker \in Seq(SentPacket) /\ to_runtime \in Seq(FromBroker)
      /\ commands \in Seq(OpId) /\ Table(entries)
  BY <1>2 DEF ClientsInit
<1>5. /\ timeouts \in 0 .. MaxLosses /\ drops \in 0 .. MaxLosses
      /\ next_id \in 0 .. MaxClients /\ issued \in 0 .. MaxCommands
      /\ messages \in 0 .. MaxMessages /\ open \subseteq 1 .. next_id
  BY Bounds DEF ClientsInit
<1>6. next_token \in [Client -> 0 .. issued] /\ mailbox \in [Client -> Seq(Event)]
  BY DEF ClientsInit
<1>7. withdrawn \in [Filter -> Withdrawal] /\ granted \subseteq Filter
  BY <1>3 DEF ClientsInit
<1>8. clean_session \in BOOLEAN /\ host \in BOOLEAN /\ mistaken \in BOOLEAN
      /\ ended \in TaskError \cup {None}
  BY DEF ClientsInit
<1> QED BY <1>1, <1>4, <1>5, <1>6, <1>7, <1>8 DEF Sound, Typed

LEMMA SoundStep == ASSUME Sound, [ClientsNext]_allVars PROVE Sound'
<1>1. OwnerInv'
  BY RuntimeSteps, OwnerStep DEF Sound
<1>2. CASE UNCHANGED allVars
  <2>1. UNCHANGED <<clean_session, to_broker, to_runtime, timeouts, drops>>
    BY <1>2 DEF allVars, network, losses
  <2>2. UNCHANGED <<next_id, open, host, next_token, issued, commands>>
    BY <1>2 DEF allVars, handles
  <2>3. UNCHANGED <<entries, ended, mistaken, mailbox, granted, withdrawn, messages>>
    BY <1>2 DEF allVars, task, broker
  <2>4. Typed'
    BY <2>1, <2>2, <2>3 DEF Sound, Typed
  <2> QED BY <1>1, <2>4 DEF Sound
<1>3. Typed'
  BY <1>2, UserTyped, CommandTyped, AckTyped, PublishedTyped, LossTyped, ReconnectTyped, BrokerTyped
     DEF ClientsNext, Runtime, PollIncoming, Sound
<1> QED BY <1>1, <1>3 DEF Sound

LEMMA AlwaysSound == ClientsSpec => []Sound
BY SoundStart, SoundStep, PTL DEF ClientsSpec

(***************************************************************************)
(* Types, for any window, number of clients, filters, topics and bounds.   *)
(***************************************************************************)
THEOREM ClientsTypeCorrect == ClientsSpec => []ClientsTypeOK
<1>1. Sound => ClientsTypeOK
  BY TypedIsTypeOK DEF Sound
<1> QED BY <1>1, AlwaysSound, PTL

-----------------------------------------------------------------------------
(***************************************************************************)
(* Where the operations, the packets and the acknowledgements of the next  *)
(* state come from.                                                        *)
(***************************************************************************)
LEMMA InAppend ==
  ASSUME NEW T, NEW s \in Seq(T), NEW x \in T
  PROVE  ToSet(Append(s, x)) = ToSet(s) \cup {x}
<1>1. /\ DOMAIN Append(s, x) = DOMAIN s \cup {Len(s) + 1}
      /\ Append(s, x)[Len(s) + 1] = x
      /\ \A i \in DOMAIN s : Append(s, x)[i] = s[i]
  OBVIOUS
<1> QED BY <1>1 DEF ToSet

LEMMA InTail ==
  ASSUME NEW T, NEW s \in Seq(T), s # <<>>
  PROVE  ToSet(Tail(s)) \subseteq ToSet(s) /\ Head(s) \in ToSet(s)
<1>1. /\ \A i \in DOMAIN Tail(s) : i + 1 \in DOMAIN s /\ Tail(s)[i] = s[i + 1]
      /\ 1 \in DOMAIN s /\ Head(s) = s[1]
  OBVIOUS
<1> QED BY <1>1 DEF ToSet

\* A command that was just taken.
Taken(op) ==
  /\ TakeCommand
  /\ op.id = Head(commands) /\ op.id \in OpId /\ op.kind = op.id.kind /\ op.pkid = NextCandidate

LEMMA OpsMove ==
  ASSUME Sound, [ClientsNext]_allVars
  PROVE  \A op \in Ops' : op \in Ops \/ Taken(op)
<1>0. TypeOK /\ StoreInv
  BY DEF Sound, OwnerInv, StoreInv
<1>1. CASE TakeCommand
  <2>1. PICK op \in Operation :
          /\ Taken(op) /\ UNCHANGED replay
          /\ \/ Tracks(op)
             \/ pending' = Append(pending, op) /\ UNCHANGED <<outgoing, collision>>
    BY <1>1, CommandDoes DEF Taken
  <2>2. CASE Tracks(op)
    BY <1>0, <2>1, <2>2, TrackOps DEF Ops
  <2>3. CASE pending' = Append(pending, op) /\ UNCHANGED <<outgoing, collision>>
    <3>1. ToSet(pending') = ToSet(pending) \cup {op}
      BY <1>0, <2>3, InAppend DEF TypeOK
    <3>2. Occupied' = Occupied
      BY <2>3 DEF Occupied
    <3>3. Here' = Here \cup {op}
      BY <2>3, <3>1, <3>2 DEF Here
    <3> QED BY <2>1, <3>3 DEF Ops
  <2> QED BY <2>1, <2>2, <2>3
<1>2. CASE Acknowledged
  <2>1. PICK pkid \in Occupied :
          /\ outgoing' = [outgoing EXCEPT ![pkid] = None]
          /\ UNCHANGED <<collision, pending, replay>>
    BY <1>2, AckDoes
  <2>2. outgoing \in [Slot -> Operation \cup {None}]
    BY <1>0 DEF TypeOK
  <2>3. \A i \in Occupied' : i \in Occupied /\ outgoing'[i] = outgoing[i]
    BY <2>1, <2>2 DEF Occupied
  <2> QED BY <2>1, <2>3 DEF Ops, Here
<1>3. CASE Timeout \/ Replace
  <2>1. LoseConnection
    BY <1>3 DEF Timeout, Replace
  <2> QED BY <2>1, LossDoes
<1>4. CASE Restore
  BY <1>4, RestoreDoes
<1>5. CASE Resend
  <2>1. PICK op \in ToSet(replay) : op \in Operation /\ Tracks(op) /\ replay # <<>> /\ replay' = Tail(replay)
    BY <1>5, ResendDoes
  <2>2. Here' \subseteq Here \cup {op}
    BY <1>0, <2>1, TrackOps
  <2>3. ToSet(replay') \subseteq ToSet(replay)
    BY <1>0, <2>1, InTail DEF TypeOK
  <2> QED BY <2>1, <2>2, <2>3 DEF Ops
<1>6. CASE User \/ CommandChannelClosed \/ Published \/ NotAcknowledged \/ Broker \/ UNCHANGED allVars
  <2>1. UNCHANGED <<outgoing, collision, pending, replay>>
    <3>1. CASE NotAcknowledged
      BY <3>1, NotAckDoes
    <3>2. CASE User \/ CommandChannelClosed \/ Published \/ Broker \/ UNCHANGED allVars
      <4>1. UNCHANGED vars
        BY <3>2 DEF User, CommandChannelClosed, Published, Broker, Answer, Grant, Refuse, Withdraw,
                    Reads, Publish, allVars
      <4> QED BY <4>1 DEF vars, store
    <3> QED BY <1>6, <3>1, <3>2
  <2>2. Occupied' = Occupied
    BY <2>1 DEF Occupied
  <2>3. Ops' = Ops
    BY <2>1, <2>2 DEF Ops, Here
  <2> QED BY <2>3
<1> QED BY <1>1, <1>2, <1>3, <1>4, <1>5, <1>6 DEF ClientsNext, Runtime, PollIncoming

\* A packet of the operation in the slot that it names.
Posted(packet) ==
  /\ packet.pkid \in Occupied
  /\ outgoing[packet.pkid].id = packet.id /\ outgoing[packet.pkid].kind = packet.packet

LEMMA TracksPosts ==
  ASSUME Sound, NEW op \in Operation, Tracks(op)
  PROVE  \A packet \in ToSet(to_broker') : packet \in ToSet(to_broker) \/ Posted(packet)'
<1>1. CASE UNCHANGED to_broker
  BY <1>1
<1>2. CASE /\ Accepts(op) /\ outgoing' = [outgoing EXCEPT ![op.pkid] = op]
           /\ to_broker' = Append(to_broker, Send(op, op.dup))
  <2>1. ToSet(to_broker') = ToSet(to_broker) \cup {Send(op, op.dup)}
    BY <1>2, SentOf, InAppend DEF Sound, Typed
  <2>2. outgoing'[op.pkid] = op /\ op # None
    BY <1>2, OpParts DEF Sound, OwnerInv, StoreInv, TypeOK
  <2>3. op.pkid \in Occupied'
    BY <2>2, OpParts DEF Occupied
  <2>4. Posted(Send(op, op.dup))'
    BY <2>2, <2>3, SentOf DEF Posted
  <2> QED BY <2>1, <2>4
<1> QED BY <1>1, <1>2 DEF Tracks

LEMMA PacketsMove ==
  ASSUME Sound, [ClientsNext]_allVars
  PROVE  \A packet \in ToSet(to_broker') : packet \in ToSet(to_broker) \/ Posted(packet)'
<1>1. CASE UNCHANGED to_broker
  BY <1>1
<1>2. CASE TakeCommand
  BY <1>1, <1>2, CommandDoes, TracksPosts
<1>3. CASE Resend
  BY <1>3, ResendDoes, TracksPosts
<1>4. CASE Answer
  <2>1. to_broker # <<>> /\ to_broker' = Tail(to_broker)
    BY <1>4 DEF Answer, Grant, Refuse, Withdraw, Reads
  <2> QED BY <2>1, InTail DEF Sound, Typed
<1>5. CASE Replace
  BY <1>5 DEF Replace, ToSet
<1>6. CASE User \/ CommandChannelClosed \/ PollIncoming \/ Timeout \/ Restore \/ UNCHANGED allVars
           \/ \E topic \in Topic : Publish(topic)
  BY <1>1, <1>6 DEF User, CommandChannelClosed, PollIncoming, Acknowledged, NotAcknowledged,
                    Published, Receive, Timeout, Restore, Publish, allVars, network
<1> QED BY <1>2, <1>3, <1>4, <1>5, <1>6 DEF ClientsNext, Runtime, Broker

AnswerTo(ack, packet) ==
  /\ ack.pkid = packet.pkid /\ ack.of = packet.id
  /\ ack.type = "suback" <=> packet.packet = "subscribe"

LEMMA AcksMove ==
  ASSUME Sound, [ClientsNext]_allVars
  PROVE  \A ack \in Acks' : ack \in Acks \/ \E packet \in ToSet(to_broker) : AnswerTo(ack, packet)
<1>1. CASE UNCHANGED to_runtime
  BY <1>1 DEF Acks
<1>2. CASE PollIncoming
  <2>1. to_runtime # <<>> /\ to_runtime' = Tail(to_runtime)
    BY <1>2 DEF PollIncoming, Acknowledged, NotAcknowledged, Published, Receive
  <2> QED BY <2>1, InTail DEF Sound, Typed, Acks
<1>3. CASE Answer
  <2>1. PICK kind \in {"subscribe", "unsubscribe"}, answer \in {"suback", "unsuback"} :
          Reads(kind, answer) /\ (answer = "suback" <=> kind = "subscribe")
    BY <1>3 DEF Answer, Grant, Refuse, Withdraw
  <2>2. PICK ack \in FromBroker : /\ AnswerTo(ack, Packet) /\ Packet \in ToSet(to_broker)
                                  /\ to_runtime' = Append(to_runtime, ack)
    BY <2>1, AnswerDoes DEF AnswerTo
  <2>3. ToSet(to_runtime') = ToSet(to_runtime) \cup {ack}
    BY <2>2, InAppend DEF Sound, Typed
  <2> QED BY <2>2, <2>3 DEF Acks
<1>4. ASSUME NEW topic \in Topic, Publish(topic)
      PROVE  \A ack \in Acks' : ack \in Acks
  <2>1. PICK packet \in FromBroker : /\ packet.type = "publish"
                                     /\ to_runtime' = Append(to_runtime, packet)
    BY <1>4 DEF Publish, FromBroker
  <2>3. ToSet(to_runtime') = ToSet(to_runtime) \cup {packet}
    BY <2>1, InAppend DEF Sound, Typed
  <2> QED BY <2>1, <2>3 DEF Acks
<1>5. CASE Replace
  BY <1>5 DEF Replace, ToSet, Acks
<1>6. CASE User \/ CommandChannelClosed \/ TakeCommand \/ Timeout \/ Restore \/ Resend \/ UNCHANGED allVars
  BY <1>1, <1>6 DEF User, CommandChannelClosed, TakeCommand, TellReconnected,
                    Timeout, Restore, Resend, allVars, network
<1> QED BY <1>2, <1>3, <1>4, <1>5, <1>6 DEF ClientsNext, Runtime, Broker

-----------------------------------------------------------------------------
(***************************************************************************)
(* An operation, a packet and an acknowledgement are of the kind of their  *)
(* command.                                                                *)
(***************************************************************************)
Kinds ==
  /\ \A op \in Ops : op.kind = op.id.kind
  /\ \A packet \in ToSet(to_broker) : packet.packet = packet.id.kind
  /\ \A ack \in Acks : ack.type = "suback" <=> ack.of.kind = "subscribe"

LEMMA NoneAtFirst == ASSUME ClientsInit PROVE Ops = {} /\ Acks = {} /\ ToSet(to_broker) = {}
<1>1. outgoing = [i \in Slot |-> None] /\ collision = None /\ pending = <<>> /\ replay = <<>>
  BY DEF ClientsInit, Init
<1>2. Occupied = {}
  BY <1>1 DEF Occupied
<1> QED BY <1>1, <1>2 DEF ClientsInit, Ops, Here, Acks, ToSet

LEMMA KindsStep == ASSUME Sound, Kinds, [ClientsNext]_allVars PROVE Kinds'
<1>1. \A op \in Ops' : op.kind = op.id.kind
  BY OpsMove DEF Kinds, Taken
<1>2. ASSUME NEW packet \in ToSet(to_broker') PROVE packet.packet = packet.id.kind
  <2>1. CASE Posted(packet)'
    <3>1. outgoing'[packet.pkid] \in Ops'
      BY <2>1 DEF Posted, Ops, Here
    <3> QED BY <1>1, <2>1, <3>1 DEF Posted
  <2> QED BY <2>1, PacketsMove DEF Kinds
<1>3. ASSUME NEW ack \in Acks' PROVE ack.type = "suback" <=> ack.of.kind = "subscribe"
  BY AcksMove DEF Kinds, AnswerTo
<1> QED BY <1>1, <1>2, <1>3 DEF Kinds

-----------------------------------------------------------------------------
(***************************************************************************)
(* Why the thread ends.  Until a timeout on a connection that was alive, a *)
(* packet and the acknowledgement that follows it are alone with their     *)
(* identifier, and the slot holds the operation they are of: so an         *)
(* acknowledgement completes what it answers.                              *)
(***************************************************************************)
Distinct(s) == \A i, j \in DOMAIN s : s[i].pkid = s[j].pkid => i = j

IsAck(packet) == packet.type # "publish"

Alone ==
  /\ Distinct(to_broker)
  /\ \A i, j \in DOMAIN to_runtime :
       IsAck(to_runtime[i]) /\ IsAck(to_runtime[j]) /\ to_runtime[i].pkid = to_runtime[j].pkid => i = j
  /\ \A i \in DOMAIN to_broker, j \in DOMAIN to_runtime :
       IsAck(to_runtime[j]) => to_broker[i].pkid # to_runtime[j].pkid

Fits(pkid, id) == pkid \in Occupied /\ outgoing[pkid].id = id

Fitting ==
  /\ \A i \in DOMAIN to_broker : Fits(to_broker[i].pkid, to_broker[i].id)
  /\ \A i \in DOMAIN to_runtime : IsAck(to_runtime[i]) => Fits(to_runtime[i].pkid, to_runtime[i].of)

Calm == timeouts = 0 => error = None /\ ~mistaken /\ Alone /\ Fitting

LEMMA CalmStart == ClientsInit => Calm
BY DEF ClientsInit, Init, Calm, Alone, Fitting, Distinct

\* What leaves the slots and both directions alone leaves Fitting alone.
LEMMA CalmUnchanged ==
  ASSUME Alone, Fitting, UNCHANGED <<outgoing, to_broker, to_runtime>>
  PROVE  Alone' /\ Fitting'
BY DEF Alone, Fitting, Fits, Distinct, Occupied

\* A packet is put on its way from a slot that was free.
LEMMA CalmTracks ==
  ASSUME Sound, Alone, Fitting, NEW op \in Operation, Tracks(op), UNCHANGED to_runtime
  PROVE  Alone' /\ Fitting'
<1>1. CASE ~Accepts(op)
  BY <1>1, CalmUnchanged DEF Tracks
<1>2. CASE Accepts(op)
  <2>1. /\ outgoing' = [outgoing EXCEPT ![op.pkid] = op] /\ outgoing[op.pkid] = None
        /\ op.pkid \in Slot /\ op # None
    BY <1>2, OpParts DEF Tracks, Accepts
  <2>2. outgoing \in [Slot -> Operation \cup {None}]
    BY DEF Sound, OwnerInv, StoreInv, TypeOK
  <2>3. op.pkid \notin Occupied /\ Fits(op.pkid, op.id)'
    BY <2>1, <2>2 DEF Occupied, Fits
  <2>4. \A pkid, id : Fits(pkid, id) => pkid # op.pkid /\ Fits(pkid, id)'
    BY <2>1, <2>2, <2>3 DEF Occupied, Fits
  <2>5. PICK packet \in SentPacket : /\ packet.pkid = op.pkid /\ packet.id = op.id
                                     /\ to_broker' = Append(to_broker, packet)
    BY <1>2, SentOf DEF Tracks
  <2>6. /\ DOMAIN to_broker' = DOMAIN to_broker \cup {Len(to_broker) + 1}
        /\ to_broker'[Len(to_broker) + 1] = packet
        /\ \A i \in DOMAIN to_broker : to_broker'[i] = to_broker[i]
    BY <2>5 DEF Sound, Typed
  <2>7. Fitting'
    BY <2>3, <2>4, <2>5, <2>6 DEF Fitting
  <2>8. Distinct(to_broker)'
    BY <2>4, <2>5, <2>6 DEF Alone, Distinct, Fitting
  <2>9. Alone'
    BY <2>4, <2>5, <2>6, <2>8 DEF Alone, Fitting
  <2> QED BY <2>7, <2>9
<1> QED BY <1>1, <1>2

\* A packet from the broker is taken, whose slot may become free.
LEMMA CalmReceived ==
  ASSUME Sound, Alone, Fitting, to_runtime # <<>>, to_runtime' = Tail(to_runtime), UNCHANGED to_broker,
         \/ UNCHANGED outgoing
         \/ /\ IsAck(Head(to_runtime)) /\ Head(to_runtime).pkid \in Occupied
            /\ outgoing' = [outgoing EXCEPT ![Head(to_runtime).pkid] = None]
  PROVE  Alone' /\ Fitting'
<1>1. /\ \A i \in DOMAIN to_runtime' : i + 1 \in DOMAIN to_runtime /\ to_runtime'[i] = to_runtime[i + 1]
      /\ 1 \in DOMAIN to_runtime /\ Head(to_runtime) = to_runtime[1]
      /\ \A i \in DOMAIN to_runtime' : i \in Nat /\ i + 1 # 1
  BY DEF Sound, Typed
<1>2. \A i, j \in DOMAIN to_runtime' : i + 1 = j + 1 => i = j
  BY <1>1
<1>3. outgoing \in [Slot -> Operation \cup {None}]
  BY DEF Sound, OwnerInv, StoreInv, TypeOK
<1>4. Alone'
  BY <1>1, <1>2 DEF Alone, Distinct
<1>5. \A pkid, id : Fits(pkid, id) /\ (IsAck(Head(to_runtime)) => pkid # Head(to_runtime).pkid)
                      => Fits(pkid, id)'
  BY <1>3 DEF Fits, Occupied
<1>6. (\A i \in DOMAIN to_broker : Fits(to_broker[i].pkid, to_broker[i].id))'
  BY <1>1, <1>5 DEF Alone, Fitting
<1>7. (\A i \in DOMAIN to_runtime :
         IsAck(to_runtime[i]) => Fits(to_runtime[i].pkid, to_runtime[i].of))'
  BY <1>1, <1>5 DEF Alone, Fitting
<1> QED BY <1>4, <1>6, <1>7 DEF Fitting

\* The broker answers.
LEMMA CalmAnswered ==
  ASSUME Sound, Alone, Fitting, Answer
  PROVE  Alone' /\ Fitting'
<1>1. PICK kind \in {"subscribe", "unsubscribe"}, answer \in {"suback", "unsuback"} : Reads(kind, answer)
  BY DEF Answer, Grant, Refuse, Withdraw
<1>2. PICK ack \in FromBroker :
        /\ IsAck(ack) /\ ack.pkid = Packet.pkid /\ ack.of = Packet.id
        /\ to_runtime' = Append(to_runtime, ack)
        /\ to_broker # <<>> /\ to_broker' = Tail(to_broker) /\ UNCHANGED vars
  BY <1>1, AnswerDoes DEF IsAck
<1>3. UNCHANGED outgoing
  BY <1>2 DEF vars, store
<1>4. /\ DOMAIN to_runtime' = DOMAIN to_runtime \cup {Len(to_runtime) + 1}
      /\ to_runtime'[Len(to_runtime) + 1] = ack
      /\ \A i \in DOMAIN to_runtime : to_runtime'[i] = to_runtime[i]
  BY <1>2 DEF Sound, Typed
<1>5. /\ \A i \in DOMAIN to_broker' : i + 1 \in DOMAIN to_broker /\ to_broker'[i] = to_broker[i + 1]
      /\ 1 \in DOMAIN to_broker /\ Packet = to_broker[1]
      /\ \A i \in DOMAIN to_broker' : i \in Nat /\ i + 1 # 1
  BY <1>2 DEF Sound, Typed, Packet
<1>6. \A i, j \in DOMAIN to_broker' : i + 1 = j + 1 => i = j
  BY <1>5
<1>7. \A pkid, id : Fits(pkid, id)' <=> Fits(pkid, id)
  BY <1>3 DEF Fits, Occupied
<1>8. Fitting'
  BY <1>2, <1>4, <1>5, <1>7 DEF Fitting
<1>9. Distinct(to_broker)'
  BY <1>5, <1>6 DEF Alone, Distinct
<1>10. \A i, j \in DOMAIN to_runtime' :
         IsAck(to_runtime'[i]) /\ IsAck(to_runtime'[j]) /\ to_runtime'[i].pkid = to_runtime'[j].pkid => i = j
  BY <1>2, <1>4, <1>5 DEF Alone
<1>11. \A i \in DOMAIN to_broker', j \in DOMAIN to_runtime' :
         IsAck(to_runtime'[j]) => to_broker'[i].pkid # to_runtime'[j].pkid
  BY <1>2, <1>4, <1>5 DEF Alone, Distinct
<1> QED BY <1>8, <1>9, <1>10, <1>11 DEF Alone

\* A message of the broker's.
LEMMA CalmPublished ==
  ASSUME Sound, Alone, Fitting, NEW topic \in Topic, Publish(topic)
  PROVE  Alone' /\ Fitting'
<1>1. PICK packet \in FromBroker : ~IsAck(packet) /\ to_runtime' = Append(to_runtime, packet)
  BY DEF Publish, FromBroker, IsAck
<1>2. UNCHANGED to_broker /\ UNCHANGED vars
  BY DEF Publish
<1>3. UNCHANGED outgoing
  BY <1>2 DEF vars, store
<1>4. /\ DOMAIN to_runtime' = DOMAIN to_runtime \cup {Len(to_runtime) + 1}
      /\ to_runtime'[Len(to_runtime) + 1] = packet
      /\ \A i \in DOMAIN to_runtime : to_runtime'[i] = to_runtime[i]
  BY <1>1 DEF Sound, Typed
<1>5. \A pkid, id : Fits(pkid, id)' <=> Fits(pkid, id)
  BY <1>3 DEF Fits, Occupied
<1> QED BY <1>1, <1>2, <1>4, <1>5 DEF Alone, Fitting, Distinct

LEMMA CalmAcks ==
  ASSUME Sound, Kinds, Alone, Fitting, Acknowledged
  PROVE  UNCHANGED error /\ (~mistaken => ~mistaken') /\ Alone' /\ Fitting'
<1>1. PICK ack \in FromBroker, op \in Operation :
        /\ to_runtime # <<>> /\ ack = Head(to_runtime) /\ to_runtime' = Tail(to_runtime)
        /\ ack \in Acks /\ ack.pkid \in Occupied /\ op = outgoing[ack.pkid]
        /\ outgoing' = [outgoing EXCEPT ![ack.pkid] = None] /\ UNCHANGED to_broker
        /\ \/ /\ Answers(ack, op) /\ UNCHANGED error
              /\ mistaken' = (mistaken \/ op.id # ack.of)
           \/ ~Answers(ack, op)
  BY AckDoes
<1>2. IsAck(ack)
  BY <1>1 DEF Acks, IsAck
<1>3. ack = to_runtime[1] /\ 1 \in DOMAIN to_runtime
  BY <1>1 DEF Sound, Typed
<1>4. op.id = ack.of
  BY <1>1, <1>2, <1>3 DEF Fitting, Fits
<1>5. op \in Ops
  BY <1>1, InOps
<1>6. Answers(ack, op)
  BY <1>1, <1>4, <1>5 DEF Kinds, Answers
<1>7. Alone' /\ Fitting'
  BY <1>1, <1>2, CalmReceived
<1> QED BY <1>1, <1>4, <1>6, <1>7

LEMMA CalmStep == ASSUME Sound, Kinds, Calm, [ClientsNext]_allVars PROVE Calm'
<1>1. CASE Timeout
  <2>1. timeouts' # 0
    BY <1>1 DEF Timeout, Sound, Typed
  <2> QED BY <2>1 DEF Calm
<1> SUFFICES ASSUME ~Timeout, timeouts' = 0
             PROVE  error' = None /\ ~mistaken' /\ Alone' /\ Fitting'
  BY <1>1 DEF Calm
<1>2. UNCHANGED timeouts
  BY DEF ClientsNext, User, Runtime, PollIncoming, TakeCommand, Acknowledged, NotAcknowledged,
         Published, Receive, CommandChannelClosed, Restore, Resend, TellReconnected, Replace,
         Broker, Answer, Grant, Refuse, Withdraw, Reads, Publish, allVars, losses
<1>3. error = None /\ ~mistaken /\ Alone /\ Fitting
  BY <1>2 DEF Calm
<1>4. CASE TakeCommand
  <2>1. /\ UNCHANGED error /\ UNCHANGED mistaken /\ UNCHANGED to_runtime
        /\ (\E op \in Operation : Tracks(op)) \/ UNCHANGED <<outgoing, to_broker>>
    BY <1>4, CommandDoes DEF task
  <2> QED BY <1>3, <2>1, CalmTracks, CalmUnchanged
<1>5. CASE Resend
  <2>1. /\ UNCHANGED error /\ UNCHANGED mistaken /\ UNCHANGED to_runtime
        /\ \E op \in Operation : Tracks(op)
    BY <1>5, ResendDoes DEF task
  <2> QED BY <1>3, <2>1, CalmTracks
<1>6. CASE Acknowledged
  BY <1>3, <1>6, CalmAcks
<1>7. CASE NotAcknowledged
  <2>1. PICK ack \in Acks : to_runtime # <<>> /\ ack = Head(to_runtime) /\ ack.pkid \notin Occupied
    BY <1>7, NotAckDoes
  <2>2. ack = to_runtime[1] /\ 1 \in DOMAIN to_runtime /\ IsAck(ack)
    BY <2>1 DEF Sound, Typed, Acks, IsAck
  <2> QED BY <1>3, <2>1, <2>2 DEF Fitting, Fits
<1>8. CASE Published
  <2>1. /\ to_runtime # <<>> /\ to_runtime' = Tail(to_runtime)
        /\ UNCHANGED to_broker /\ UNCHANGED vars /\ UNCHANGED mistaken
    BY <1>8, PublishedMail
  <2>2. UNCHANGED outgoing /\ UNCHANGED error
    BY <2>1 DEF vars, store
  <2> QED BY <1>3, <2>1, <2>2, CalmReceived
<1>9. CASE Restore
  <2>1. UNCHANGED <<error, mistaken, outgoing, to_broker, to_runtime>>
    BY <1>9, RestoreDoes DEF task
  <2> QED BY <1>3, <2>1, CalmUnchanged
<1>10. CASE Replace
  <2>1. UNCHANGED error /\ UNCHANGED mistaken
    BY <1>10, LossDoes DEF Replace, task
  <2>2. Alone' /\ Fitting'
    BY <1>10 DEF Replace, Alone, Fitting, Distinct
  <2> QED BY <1>3, <2>1, <2>2
<1>11. CASE Answer
  <2>1. UNCHANGED error /\ UNCHANGED mistaken
    BY <1>11 DEF Answer, Grant, Refuse, Withdraw, Reads, vars, task
  <2> QED BY <1>3, <1>11, <2>1, CalmAnswered
<1>12. ASSUME NEW topic \in Topic, Publish(topic)
       PROVE  error' = None /\ ~mistaken' /\ Alone' /\ Fitting'
  <2>1. UNCHANGED error /\ UNCHANGED mistaken
    BY <1>12 DEF Publish, vars, task
  <2> QED BY <1>3, <1>12, <2>1, CalmPublished
<1>13. CASE User \/ CommandChannelClosed \/ UNCHANGED allVars
  <2>1. UNCHANGED vars /\ UNCHANGED <<mistaken, to_broker, to_runtime>>
    BY <1>13 DEF User, CommandChannelClosed, allVars, task, network
  <2>2. UNCHANGED outgoing /\ UNCHANGED error
    BY <2>1 DEF vars, store
  <2> QED BY <1>3, <2>1, <2>2, CalmUnchanged
<1> QED BY <1>4, <1>5, <1>6, <1>7, <1>8, <1>9, <1>10, <1>11, <1>12, <1>13
        DEF ClientsNext, Runtime, PollIncoming, Broker

-----------------------------------------------------------------------------
\* Who issued a command, and who has a route, has registered.
Registered ==
  /\ \A i \in DOMAIN commands : commands[i].client \in 1 .. next_id
  /\ \A op \in Ops : op.id.client \in 1 .. next_id
  /\ \A c, f : HasRoute(entries, c, f) => c \in 1 .. next_id

Causes ==
  /\ Kinds
  /\ Calm
  /\ Registered
  /\ ended = "EventChannelClosed" => open # 1 .. next_id
  /\ ended = "CommandChannelClosed" => ~host /\ open = {}

LEMMA CausesStart == ClientsInit => Causes
<1> SUFFICES ASSUME ClientsInit PROVE Causes
  OBVIOUS
<1>1. \A c, f : ~HasRoute(entries, c, f)
  BY DEF ClientsInit, HasRoute
<1>2. None \notin TaskError
  BY NoTaskErrorAssumption
<1>3. /\ commands = <<>> /\ ended = None
  BY DEF ClientsInit
<1>4. Kinds
  BY NoneAtFirst DEF Kinds
<1>5. Registered
  BY <1>1, <1>3, NoneAtFirst DEF Registered
<1> QED BY <1>2, <1>3, <1>4, <1>5, CalmStart DEF Causes, TaskError

\* The steps of users keep what the rest is about.
LEMMA UserDoes ==
  ASSUME Sound, User
  PROVE  /\ Running /\ UNCHANGED <<vars, clean_session, network, losses, task, mailbox, broker>>
         /\ next_id' \in Nat /\ next_id <= next_id'
         /\ \/ UNCHANGED commands
            \/ \E command \in OpId : /\ commands' = Append(commands, command)
                                     /\ command.client \in open
<1>1. Running /\ UNCHANGED <<vars, clean_session, network, losses, task, mailbox, broker>>
  BY DEF User
<1>2. next_id' \in Nat /\ next_id <= next_id'
  <2>1. next_id \in Nat
    BY Bounds DEF Sound, Typed
  <2>2. next_id' = next_id + 1 \/ UNCHANGED next_id
    BY DEF User, NewClient, DropHost, DropHandle, Issue
  <2> QED BY <2>1, <2>2
<1>3. CASE UNCHANGED commands
  BY <1>1, <1>2, <1>3
<1>4. ASSUME NEW client \in Client, NEW kind \in Kind, NEW filter \in Filter,
             Issue(client, kind, filter)
      PROVE  \E command \in OpId : commands' = Append(commands, command) /\ command.client \in open
  <2> DEFINE command == [client |-> client, token |-> next_token'[client],
                         kind |-> kind, filter |-> filter]
  <2>1. commands' = Append(commands, command) /\ client \in open
    BY <1>4 DEF Issue
  <2>2. next_token'[client] \in 1 .. MaxCommands
    BY <1>4, Bounds DEF Issue, Sound, Typed
  <2>3. command \in OpId
    BY <2>2, OpIdAssumption
  <2> QED BY <2>1, <2>3
<1> QED BY <1>1, <1>2, <1>3, <1>4 DEF User, NewClient, DropHost, DropHandle

\* What becomes of the routes.
LEMMA RoutesMove ==
  ASSUME Sound, [ClientsNext]_allVars
  PROVE  \/ UNCHANGED entries
         \/ \E op \in Ops :
              /\ Acknowledged /\ op \in Operation
              /\ \A c, f : HasRoute(entries', c, f) =>
                             HasRoute(entries, c, f) \/ (c = op.id.client /\ f = op.id.filter)
<1>1. CASE Acknowledged
  <2>1. PICK op \in Operation : /\ op \in Ops
                                /\ Completes(op) \/ UNCHANGED <<task, mailbox>>
    BY <1>1, AckDoes, InOps
  <2>2. CASE Completes(op)
    <3>1. PICK client \in Client, filter \in Filter : client = op.id.client /\ filter = op.id.filter
      BY OpParts, CommandParts
    <3>2. \/ entries' = AddSubscription(entries, client, filter)
          \/ entries' = RemoveSubscription(entries, client, filter)
      BY <2>2, <3>1 DEF Completes
    <3>3. Table(entries)
      BY DEF Sound, Typed
    <3>4. \A c, f : HasRoute(entries', c, f) => HasRoute(entries, c, f) \/ (c = client /\ f = filter)
      BY <3>2, <3>3, RouteAdded, RouteRemoved
    <3> QED BY <1>1, <2>1, <3>1, <3>4
  <2> QED BY <2>1, <2>2 DEF task
<1>2. CASE UNCHANGED task \/ UNCHANGED entries
  BY <1>2 DEF task
<1>3. CASE Restore \/ Resend \/ Timeout \/ Replace
  BY <1>2, <1>3 DEF Restore, Resend, TellReconnected, Timeout, Replace, LoseConnection
<1>4. CASE User \/ CommandChannelClosed \/ TakeCommand \/ NotAcknowledged \/ Published \/ Broker
           \/ UNCHANGED allVars
  BY <1>2, <1>4 DEF User, CommandChannelClosed, TakeCommand, NotAcknowledged, Published, Broker, Answer,
                    Grant, Refuse, Withdraw, Reads, Publish, allVars
<1> QED BY <1>1, <1>3, <1>4 DEF ClientsNext, Runtime, PollIncoming

LEMMA RegisteredStep ==
  ASSUME Sound, Registered, [ClientsNext]_allVars
  PROVE  Registered'
<1>1. next_id' \in Nat /\ next_id \in Nat /\ next_id <= next_id'
  <2>1. next_id \in Nat
    BY Bounds DEF Sound, Typed
  <2>2. CASE User
    BY <2>1, <2>2, UserDoes
  <2>3. CASE UNCHANGED next_id
    BY <2>1, <2>3
  <2> QED BY <2>2, <2>3 DEF ClientsNext, Runtime, PollIncoming, TakeCommand, Acknowledged, NotAcknowledged,
         Published, Receive, CommandChannelClosed, Restore, Resend, TellReconnected, Timeout, Replace,
         LoseConnection, Broker, Answer, Grant, Refuse, Withdraw, Reads, Publish, allVars, handles
<1>2. \A n \in 1 .. next_id : n \in 1 .. next_id'
  BY <1>1
<1>3. ASSUME NEW i \in DOMAIN commands' PROVE commands'[i].client \in 1 .. next_id'
  <2>0. commands \in Seq(OpId)
    BY DEF Sound, Typed
  <2>1. CASE User
    <3>1. PICK command \in OpId :
            \/ UNCHANGED commands
            \/ /\ commands' = Append(commands, command) /\ command.client \in 1 .. next_id
      <4>1. \A c \in open : c \in 1 .. next_id
        BY DEF Sound, Typed
      <4>2. CASE UNCHANGED commands
        BY <1>3, <2>0, <4>2
      <4> QED BY <2>1, <4>1, <4>2, UserDoes
    <3>2. commands'[i] = command \/ (i \in DOMAIN commands /\ commands'[i] = commands[i])
      BY <1>3, <2>0, <3>1
    <3> QED BY <1>2, <1>3, <3>1, <3>2 DEF Registered
  <2>2. CASE TakeCommand
    <3>1. commands # <<>> /\ commands' = Tail(commands)
      BY <2>2 DEF TakeCommand
    <3>2. i + 1 \in DOMAIN commands /\ commands'[i] = commands[i + 1]
      BY <1>3, <2>0, <3>1
    <3> QED BY <1>2, <3>2 DEF Registered
  <2>3. CASE UNCHANGED commands
    BY <1>2, <1>3, <2>3 DEF Registered
  <2> QED BY <2>1, <2>2, <2>3 DEF ClientsNext, Runtime, PollIncoming, Acknowledged, NotAcknowledged,
         Published, Receive, CommandChannelClosed, Restore, Resend, TellReconnected, Timeout, Replace,
         LoseConnection, Broker, Answer, Grant, Refuse, Withdraw, Reads, Publish, allVars
<1>4. ASSUME NEW op \in Ops' PROVE op.id.client \in 1 .. next_id'
  <2>1. CASE Taken(op)
    <3>1. commands # <<>> /\ commands \in Seq(OpId)
      BY <2>1 DEF Taken, TakeCommand, Sound, Typed
    <3>2. 1 \in DOMAIN commands /\ op.id = commands[1]
      BY <2>1, <3>1 DEF Taken
    <3> QED BY <1>2, <3>2 DEF Registered
  <2> QED BY <1>2, <2>1, OpsMove DEF Registered
<1>5. ASSUME NEW c, NEW f, HasRoute(entries', c, f) PROVE c \in 1 .. next_id'
  BY <1>2, <1>5, RoutesMove DEF Registered
<1> QED BY <1>3, <1>4, <1>5 DEF Registered

LEMMA CausesStep == ASSUME Sound, Causes, [ClientsNext]_allVars PROVE Causes'
<1>1. Kinds' /\ Calm' /\ Registered'
  BY KindsStep, CalmStep, RegisteredStep DEF Causes
<1>2. (ended' = "EventChannelClosed" => open' # 1 .. next_id')
        /\ (ended' = "CommandChannelClosed" => ~host' /\ open' = {})
  <2>1. CASE UNCHANGED <<ended, open, next_id, host>>
    BY <2>1 DEF Causes
  <2>2. CASE User
    <3>1. ended' = None
      BY <2>2 DEF User, task, Running
    <3> QED BY <3>1, NoTaskErrorAssumption DEF TaskError
  <2>3. CASE CommandChannelClosed
    BY <2>3 DEF CommandChannelClosed, handles
  <2>4. CASE Acknowledged
    <3>1. PICK op \in Operation :
            /\ op \in Ops /\ UNCHANGED handles
            /\ Completes(op) \/ UNCHANGED <<task, mailbox>>
      BY <2>4, AckDoes, InOps
    <3>2. \/ UNCHANGED ended \/ (op.id.client \notin open /\ ended' = "EventChannelClosed")
      BY <3>1 DEF Completes, task
    <3>3. op.id.client \in 1 .. next_id
      BY <3>1 DEF Causes, Registered
    <3> QED BY <2>1, <3>1, <3>2, <3>3 DEF handles
  <2>5. CASE Published
    <3> DEFINE topic == Head(to_runtime).topic
               places == MatchingClients(entries, topic)
    <3>1. /\ UNCHANGED handles
          /\ ended' = IF Reached(places) = places THEN None ELSE "EventChannelClosed"
      BY <2>5, PublishedMail
    <3>2. Table(entries)
      BY DEF Sound, Typed
    <3>3. ASSUME Reached(places) # places PROVE open # 1 .. next_id
      <4>1. PICK p \in places : ClientAt(entries, p) \notin open
        BY <3>3 DEF Reached
      <4>2. p \in MatchingPlaces(entries, topic)
        BY <4>1 DEF MatchingClients
      <4> HIDE DEF places, topic
      <4>3. HasRoute(entries, ClientAt(entries, p), entries[p[1]].filter)
        BY <3>2, <4>2, PlaceClient
      <4> QED BY <4>1, <4>3 DEF Causes, Registered
    <3> HIDE DEF places
    <3> QED BY <3>1, <3>3, NoTaskErrorAssumption DEF handles, TaskError
  <2> QED BY <2>1, <2>2, <2>3, <2>4, <2>5 DEF ClientsNext, Runtime, PollIncoming, TakeCommand, NotAcknowledged,
         Receive, Restore, Resend, TellReconnected, Timeout, Replace, LoseConnection, Broker, Answer,
         Grant, Refuse, Withdraw, Reads, Publish, allVars, handles, task
<1> QED BY <1>1, <1>2 DEF Causes

LEMMA AlwaysCauses == ClientsSpec => [](Sound /\ Causes)
<1>1. ClientsInit => Sound /\ Causes
  BY SoundStart, CausesStart
<1>2. Sound /\ Causes /\ [ClientsNext]_allVars => Sound' /\ Causes'
  BY SoundStep, CausesStep
<1> QED BY <1>1, <1>2, PTL DEF ClientsSpec

(***************************************************************************)
(* However many clients share the connection: nothing ends their thread    *)
(* but a dropped handle, a timeout on a connection that was alive, or that *)
(* no one is left.                                                         *)
(***************************************************************************)
THEOREM EndsForCause == ClientsSpec => []EndedBecause
<1>1. Sound /\ Causes => EndedBecause
  <2> SUFFICES ASSUME Sound, Causes PROVE EndedBecause
    OBVIOUS
  <2>1. error # None => timeouts > 0
    BY Bounds DEF Causes, Calm, Sound, Typed
  <2> QED BY <2>1 DEF EndedBecause, Causes
<1> QED BY <1>1, AlwaysCauses, PTL

-----------------------------------------------------------------------------
(***************************************************************************)
(* What the clients are told: completions, and what is no completion.      *)
(***************************************************************************)
Unfinished(s) == \A i \in DOMAIN s : s[i].event # "Completion"

\* A step reports nothing and changes no route.
Quiet ==
  /\ entries' = entries
  /\ \A client \in Client : \E t \in Seq(Event) :
       mailbox'[client] = mailbox[client] \o t /\ Unfinished(t)

\* A step completes an operation, for the client that issued it.
Finishes(op) ==
  /\ Acknowledged
  /\ op \in Ops /\ op \in Operation /\ op.id.client \in Client /\ op.id.filter \in Filter
  /\ \E pkid \in Occupied : /\ op = outgoing[pkid]
                            /\ outgoing' = [outgoing EXCEPT ![pkid] = None]
  /\ UNCHANGED <<active, last_pkid, collision, pending, replay, submitted, commands, handles, error>>
  /\ entries' = IF op.kind = "subscribe"
                  THEN AddSubscription(entries, op.id.client, op.id.filter)
                  ELSE RemoveSubscription(entries, op.id.client, op.id.filter)
  /\ \A client \in Client :
       mailbox'[client] = IF client = op.id.client THEN Append(mailbox[client], Reported(op))
                                                   ELSE mailbox[client]

LEMMA QuietUnchanged ==
  ASSUME Sound, UNCHANGED <<mailbox, entries>> PROVE Quiet
<1>1. <<>> \in Seq(Event) /\ Unfinished(<<>>)
  BY DEF Unfinished
<1>2. \A client \in Client : mailbox[client] \in Seq(Event)
  BY DEF Sound, Typed
<1>3. \A client \in Client : mailbox'[client] = mailbox[client] \o <<>>
  BY <1>2
<1> QED BY <1>1, <1>3 DEF Quiet

LEMMA QuietBroadcast ==
  ASSUME Sound, UNCHANGED entries, NEW event \in {Disconnected, Reconnected}, Broadcast(event)
  PROVE  Quiet
<1>1. event \in Event /\ event.event # "Completion"
  BY EventParts
<1>2. /\ <<>> \in Seq(Event) /\ Unfinished(<<>>)
      /\ <<event>> \in Seq(Event) /\ Unfinished(<<event>>)
  BY <1>1 DEF Unfinished
<1>3. ASSUME NEW client \in Client
      PROVE  mailbox'[client] = mailbox[client] \o <<>> \/ mailbox'[client] = mailbox[client] \o <<event>>
  <2>1. mailbox[client] \in Seq(Event)
    BY DEF Sound, Typed
  <2>2. mailbox'[client] = mailbox[client] \/ mailbox'[client] = Append(mailbox[client], event)
    BY DEF Broadcast
  <2> QED BY <1>1, <2>1, <2>2
<1> QED BY <1>2, <1>3 DEF Quiet

LEMMA Tells ==
  ASSUME Sound, [ClientsNext]_allVars, ended' = None
  PROVE  /\ ended = None
         /\ Quiet \/ \E op : Finishes(op)
         /\ Acknowledged /\ error' = None => \E op : Finishes(op)
<1>0. ended = None
  BY DEF ClientsNext, User, Runtime, TakeCommand, CommandChannelClosed, PollIncoming, Acknowledged,
         NotAcknowledged, Published, AtLoop, Receive, Running, Timeout, Replace, LoseConnection,
         Restore, Resend, Broker, Answer, Grant, Refuse, Withdraw, Reads, Publish, allVars, task
<1>1. CASE Acknowledged
  <2>1. PICK ack \in FromBroker, op \in Operation :
           /\ ack.pkid \in Occupied /\ op = outgoing[ack.pkid]
           /\ outgoing' = [outgoing EXCEPT ![ack.pkid] = None]
           /\ UNCHANGED <<active, last_pkid, collision, pending, replay, submitted, commands, handles>>
           /\ \/ UNCHANGED error /\ Completes(op)
              \/ error' = "InvalidCommand" /\ UNCHANGED <<task, mailbox>>
    BY <1>1, AckDoes
  <2>2. op \in Ops
    BY <2>1, InOps
  <2>3. PICK client \in Client : client = op.id.client /\ op.id.filter \in Filter
    BY OpParts, CommandParts
  <2>4. CASE UNCHANGED error /\ Completes(op)
    <3>1. mailbox' = [mailbox EXCEPT ![client] = Append(@, Reported(op))]
      BY <2>3, <2>4, NoTaskErrorAssumption DEF Completes, TaskError
    <3>2. mailbox \in [Client -> Seq(Event)]
      BY DEF Sound, Typed
    <3>3. \A c \in Client : mailbox'[c] = IF c = client THEN Append(mailbox[c], Reported(op)) ELSE mailbox[c]
      BY <3>1, <3>2
    <3>4. Finishes(op)
      BY <1>1, <2>1, <2>2, <2>3, <2>4, <3>3 DEF Finishes, Completes
    <3> QED BY <1>0, <3>4
  <2>5. CASE error' = "InvalidCommand" /\ UNCHANGED <<task, mailbox>>
    <3>1. Quiet
      BY <2>5, QuietUnchanged DEF task
    <3>2. error' # None
      BY <2>5, NoneAssumption DEF Error
    <3> QED BY <1>0, <3>1, <3>2
  <2> QED BY <2>1, <2>4, <2>5
<1>2. CASE Published
  <2> DEFINE topic == Head(to_runtime).topic
  <2>1. /\ topic \in Topic /\ UNCHANGED entries
        /\ mailbox' = [client \in Client |-> mailbox[client] \o Fanned(topic, client)]
    BY <1>2, PublishedMail
  <2> HIDE DEF topic
  <2>2. ASSUME NEW client \in Client
        PROVE  Fanned(topic, client) \in Seq(Event) /\ Unfinished(Fanned(topic, client))
    <3>1. Fanned(topic, client) = <<>> \/ Fanned(topic, client) = <<IncomingPublish(topic)>>
      BY <2>1, FannedIs DEF Sound
    <3>2. Fanned(topic, client) \in Seq(Event)
      BY <2>1, FannedIs DEF Sound
    <3> QED BY <2>1, <3>1, <3>2, EventParts DEF Unfinished
  <2>3. Quiet
    BY <2>1, <2>2 DEF Quiet
  <2>4. ~Acknowledged
    BY <1>2 DEF Published, Acknowledged, Receive
  <2> QED BY <1>0, <2>3, <2>4
<1>3. CASE Timeout \/ Replace
  <2>1. LoseConnection
    BY <1>3 DEF Timeout, Replace
  <2>2. Broadcast(Disconnected) /\ UNCHANGED <<entries, commands, clean_session>> /\ ~active'
    BY <2>1, LossDoes DEF task
  <2>3. ~Acknowledged
    BY <2>1, <2>2, LossDoes, AckDoes
  <2> QED BY <1>0, <2>2, <2>3, QuietBroadcast
<1>4. CASE Restore \/ Resend
  <2>1. TellReconnected /\ UNCHANGED entries
    BY <1>4 DEF Restore, Resend, TellReconnected, task
  <2>2. Quiet
    BY <2>1, QuietBroadcast, QuietUnchanged DEF TellReconnected
  <2>3. ~Acknowledged
    BY <1>4, AckDoes, RestoreDoes, ResendDoes DEF AtLoop
  <2> QED BY <1>0, <2>2, <2>3
<1>5. CASE ~Acknowledged
  <2>1. CASE UNCHANGED <<mailbox, entries>>
    BY <1>0, <1>5, <2>1, QuietUnchanged
  <2> QED BY <1>2, <1>3, <1>4, <1>5, <2>1 DEF ClientsNext, User, Runtime, TakeCommand, CommandChannelClosed,
         PollIncoming, NotAcknowledged, Broker, Answer, Grant, Refuse, Withdraw, Reads, Publish, allVars, task
<1> QED BY <1>1, <1>5

ToldIn(s, filter) == {i \in DOMAIN s : s[i].event = "Completion" /\ s[i].of.filter = filter}

Subscribed(s, filter) ==
  \E last \in ToldIn(s, filter) :
    /\ \A i \in ToldIn(s, filter) : i <= last
    /\ s[last].ack = "SubAck"

LEMMA SubscribedAppend ==
  ASSUME NEW s \in Seq(Event), NEW op \in Operation, NEW filter
  PROVE  Subscribed(Append(s, Reported(op)), filter) <=>
           IF op.id.filter = filter THEN op.kind = "subscribe" ELSE Subscribed(s, filter)
<1> DEFINE t == Append(s, Reported(op))
           n == Len(s) + 1
<1>0. Reported(op) \in Event
  BY EventParts
<1>1. /\ t \in Seq(Event) /\ Len(s) \in Nat
      /\ DOMAIN t = 1 .. n /\ DOMAIN s = 1 .. Len(s)
      /\ \A i \in DOMAIN s : t[i] = s[i] /\ i < n
      /\ t[n] = Reported(op)
      /\ n \in DOMAIN t /\ n \notin DOMAIN s /\ \A i \in DOMAIN t : i = n \/ i \in DOMAIN s
  BY <1>0
<1>2. t[n].event = "Completion" /\ t[n].of = op.id /\ (t[n].ack = "SubAck" <=> op.kind = "subscribe")
  BY <1>1 DEF Reported
<1> HIDE DEF t, n
<1>3. CASE op.id.filter = filter
  <2>1. n \in ToldIn(t, filter) /\ \A i \in ToldIn(t, filter) : i <= n /\ (i >= n => i = n)
    BY <1>1, <1>2, <1>3 DEF ToldIn, n
  <2>2. Subscribed(t, filter) <=> t[n].ack = "SubAck"
    BY <2>1 DEF Subscribed, ToldIn
  <2> QED BY <1>2, <1>3, <2>2 DEF t
<1>4. CASE op.id.filter # filter
  <2>1. ToldIn(t, filter) = ToldIn(s, filter)
    BY <1>1, <1>2, <1>4 DEF ToldIn
  <2>2. \A i \in ToldIn(s, filter) : t[i] = s[i]
    BY <1>1 DEF ToldIn
  <2> QED BY <1>4, <2>1, <2>2 DEF Subscribed, t
<1> QED BY <1>3, <1>4

LEMMA SubscribedConcat ==
  ASSUME NEW s \in Seq(Event), NEW t \in Seq(Event), Unfinished(t), NEW filter
  PROVE  Subscribed(s \o t, filter) <=> Subscribed(s, filter)
<1> DEFINE u == s \o t
<1>1. /\ DOMAIN s = 1 .. Len(s) /\ DOMAIN u = 1 .. Len(s) + Len(t) /\ Len(s) \in Nat /\ Len(t) \in Nat
      /\ \A i \in DOMAIN s : u[i] = s[i] /\ i \in DOMAIN u
      /\ \A i \in DOMAIN u : i \in DOMAIN s \/ (i - Len(s) \in DOMAIN t /\ u[i] = t[i - Len(s)])
  OBVIOUS
<1> HIDE DEF u
<1>2. \A i \in DOMAIN u : i \in DOMAIN s \/ u[i].event # "Completion"
  BY <1>1 DEF Unfinished
<1>3. ToldIn(u, filter) = ToldIn(s, filter)
  BY <1>1, <1>2 DEF ToldIn
<1>4. \A i \in ToldIn(s, filter) : u[i] = s[i]
  BY <1>1 DEF ToldIn
<1> QED BY <1>3, <1>4 DEF Subscribed, u

(***************************************************************************)
(* handle_actions changes the routes and reports in one go, so a client    *)
(* has a route for a filter exactly when it was last told so, whatever     *)
(* comes between and whatever an acknowledgement was meant for.            *)
(***************************************************************************)
ToldRoutes ==
  ended = None =>
    \A client \in Client, filter \in Filter :
      HasRoute(entries, client, filter) <=> Subscribed(mailbox[client], filter)

THEOREM RoutesTrue == ClientsSpec => []RoutesAsTold
<1>1. ToldRoutes <=> RoutesAsTold
  <2>1. \A client, filter : Subscribed(mailbox[client], filter) <=>
           \E last \in Told(client, filter) :
             /\ \A i \in Told(client, filter) : i <= last
             /\ mailbox[client][last].ack = "SubAck"
    BY DEF Subscribed, ToldIn, Told
  <2>2. \A client, filter : <<client, filter>> \in Routes(entries) <=> HasRoute(entries, client, filter)
    BY RoutesAre
  <2> QED BY <2>1, <2>2 DEF ToldRoutes, RoutesAsTold
<1>2. ClientsInit => ToldRoutes
  <2> SUFFICES ASSUME ClientsInit PROVE ToldRoutes
    OBVIOUS
  <2>1. \A client \in Client, filter \in Filter : ~Subscribed(mailbox[client], filter)
    BY DEF ClientsInit, Subscribed, ToldIn
  <2> QED BY <2>1 DEF ClientsInit, ToldRoutes, HasRoute
<1>3. Sound /\ ToldRoutes /\ [ClientsNext]_allVars => ToldRoutes'
  <2> SUFFICES ASSUME Sound, ToldRoutes, [ClientsNext]_allVars, ended' = None,
                      NEW client \in Client, NEW filter \in Filter
               PROVE  HasRoute(entries', client, filter) <=> Subscribed(mailbox'[client], filter)
    BY DEF ToldRoutes
  <2>1. HasRoute(entries, client, filter) <=> Subscribed(mailbox[client], filter)
    BY Tells DEF ToldRoutes
  <2>2. mailbox[client] \in Seq(Event) /\ Table(entries)
    BY DEF Sound, Typed
  <2>3. ASSUME NEW op, Finishes(op)
        PROVE  HasRoute(entries', client, filter) <=> Subscribed(mailbox'[client], filter)
    <3>1. /\ op \in Operation /\ op.id.client \in Client /\ op.id.filter \in Filter
          /\ entries' = IF op.kind = "subscribe"
                          THEN AddSubscription(entries, op.id.client, op.id.filter)
                          ELSE RemoveSubscription(entries, op.id.client, op.id.filter)
          /\ mailbox'[client] = IF client = op.id.client THEN Append(mailbox[client], Reported(op))
                                                         ELSE mailbox[client]
      BY <2>3 DEF Finishes
    <3>2. HasRoute(entries', client, filter) <=>
            IF client = op.id.client /\ filter = op.id.filter THEN op.kind = "subscribe"
                                                              ELSE HasRoute(entries, client, filter)
      BY <2>2, <3>1, RouteAdded, RouteRemoved
    <3>3. Subscribed(Append(mailbox[client], Reported(op)), filter) <=>
            IF op.id.filter = filter THEN op.kind = "subscribe" ELSE Subscribed(mailbox[client], filter)
      BY <2>2, <3>1, SubscribedAppend
    <3> QED BY <2>1, <3>1, <3>2, <3>3
  <2>4. CASE Quiet
    <3>1. PICK t \in Seq(Event) : mailbox'[client] = mailbox[client] \o t /\ Unfinished(t)
      BY <2>4 DEF Quiet
    <3> QED BY <2>1, <2>2, <2>4, <3>1, SubscribedConcat DEF Quiet
  <2> QED BY <2>3, <2>4, Tells
<1>4. ClientsSpec => []ToldRoutes
  BY <1>2, <1>3, AlwaysSound, PTL DEF ClientsSpec
<1> QED BY <1>1, <1>4, PTL

-----------------------------------------------------------------------------
(***************************************************************************)
(* While there is room, an identifier is given out once: whatever names it *)
(* is of one command, and so no slot is occupied on behalf of another.     *)
(***************************************************************************)
Named(pkid, id) ==
  \/ \E op \in Ops : op.pkid = pkid /\ op.id = id
  \/ \E packet \in ToSet(to_broker) : packet.pkid = pkid /\ packet.id = id
  \/ \E ack \in Acks : ack.pkid = pkid /\ ack.of = id

Numbered ==
  /\ \A pkid, x, y : Named(pkid, x) /\ Named(pkid, y) => x = y
  /\ \A pkid, x : Named(pkid, x) => pkid \in 1 .. last_pkid

Unmistaken == ~mistaken /\ error # "InvalidCommand"

Budget == last_pkid + Len(commands) <= issued

Orderly ==
  /\ Budget
  /\ Roomy => Numbered /\ Unmistaken /\ collision = None

LEMMA OrderlyStart == ClientsInit => Orderly
<1> SUFFICES ASSUME ClientsInit PROVE Orderly
  OBVIOUS
<1>1. last_pkid = 0 /\ commands = <<>> /\ issued = 0 /\ ~mistaken /\ error = None /\ collision = None
  BY DEF ClientsInit, Init
<1>2. "InvalidCommand" # None
  BY NoneAssumption DEF Error
<1>3. \A pkid, x : ~Named(pkid, x)
  BY NoneAtFirst DEF Named
<1> QED BY <1>1, <1>2, <1>3 DEF Orderly, Budget, Numbered, Unmistaken

\* Counters only grow.
LEMMA RoomyBefore ==
  ASSUME Sound, Sound', [ClientsNext]_allVars, Roomy'
  PROVE  /\ Roomy /\ issued \in Nat /\ issued' \in Nat /\ issued <= issued' /\ issued' <= MaxInflight
         /\ Timeout \/ Replace => ~clean_session
<1>1. /\ clean_session' = clean_session
      /\ UNCHANGED losses \/ Timeout \/ Replace
  BY DEF ClientsNext, User, Runtime, TakeCommand, CommandChannelClosed, PollIncoming, Acknowledged,
         NotAcknowledged, Published, Receive, Timeout, Replace, LoseConnection, TellReconnected,
         Restore, Resend, Broker, Answer, Grant, Refuse, Withdraw, Reads, Publish, allVars
<1>2. timeouts \in Nat /\ drops \in Nat /\ timeouts' \in Nat /\ drops' \in Nat
  BY Bounds DEF Sound, Typed
<1>3. issued \in Nat /\ issued' \in Nat
  BY Bounds DEF Sound, Typed
<1>4. issued <= issued'
  <2>1. issued' = issued \/ issued' = issued + 1
    BY DEF ClientsNext, User, NewClient, DropHost, DropHandle, Issue, Runtime, TakeCommand,
         CommandChannelClosed, PollIncoming, Acknowledged,
         NotAcknowledged, Published, Receive, Timeout, Replace, LoseConnection, TellReconnected,
         Restore, Resend, Broker, Answer, Grant, Refuse, Withdraw, Reads, Publish, allVars, handles
  <2> QED BY <1>3, <2>1
<1>5. CASE UNCHANGED losses
  <2>1. Roomy
    BY <1>1, <1>3, <1>4, <1>5, MaxInflightAssumption DEF Roomy, Spacious, losses
  <2>2. ~Timeout /\ ~Replace
    BY <1>2, <1>5 DEF Timeout, Replace, losses
  <2> QED BY <1>3, <1>4, <2>1, <2>2 DEF Roomy, Spacious
<1>6. CASE Timeout \/ Replace
  <2>1. timeouts' + drops' # 0
    BY <1>2, <1>6 DEF Timeout, Replace
  <2>2. ~clean_session
    BY <1>1, <2>1 DEF Roomy
  <2> QED BY <1>3, <1>4, <2>2, MaxInflightAssumption DEF Roomy, Spacious
<1> QED BY <1>1, <1>5, <1>6

LEMMA BudgetStep == ASSUME Sound, Sound', Budget, [ClientsNext]_allVars PROVE Budget'
<1>1. /\ last_pkid \in Nat /\ issued \in Nat /\ Len(commands) \in Nat /\ commands \in Seq(OpId)
      /\ last_pkid' \in Nat /\ issued' \in Nat /\ Len(commands') \in Nat
  <2>1. commands \in Seq(OpId) /\ commands' \in Seq(OpId)
    BY DEF Sound, Typed
  <2>2. last_pkid \in Nat /\ last_pkid' \in Nat
    BY MaxInflightAssumption DEF Sound, OwnerInv, StoreInv, TypeOK, Slot
  <2>3. issued \in Nat /\ issued' \in Nat
    BY Bounds DEF Sound, Typed
  <2> QED BY <2>1, <2>2, <2>3
<1>2. CASE UNCHANGED <<last_pkid, commands, issued>>
  BY <1>2 DEF Budget
<1>3. CASE TakeCommand
  <2>1. commands # <<>> /\ commands' = Tail(commands) /\ last_pkid' = NextCandidate /\ UNCHANGED issued
    BY <1>3, CommandDoes DEF handles
  <2>2. Len(commands') = Len(commands) - 1 /\ Len(commands) >= 1
    BY <1>1, <2>1
  <2>3. NextCandidate <= last_pkid + 1
    BY <1>1 DEF NextCandidate
  <2> QED BY <1>1, <2>1, <2>2, <2>3 DEF Budget
<1>4. ASSUME NEW client \in Client, NEW kind \in Kind, NEW filter \in Filter,
             Issue(client, kind, filter), UNCHANGED last_pkid
      PROVE  Budget'
  <2>1. Len(commands') = Len(commands) + 1 /\ issued' = issued + 1
    BY <1>1, <1>4 DEF Issue
  <2> QED BY <1>1, <1>4, <2>1 DEF Budget
<1>5. CASE Timeout \/ Replace
  <2>1. last_pkid' \in {0, last_pkid} /\ UNCHANGED <<commands, issued>>
    BY <1>5, LossDoes DEF Timeout, Replace, handles
  <2> QED BY <1>1, <2>1 DEF Budget
<1>6. CASE Acknowledged \/ NotAcknowledged
  BY <1>2, <1>6, AckDoes, NotAckDoes DEF handles
<1>7. CASE Restore \/ Resend
  BY <1>2, <1>7, RestoreDoes, ResendDoes DEF handles
<1>8. CASE CommandChannelClosed \/ Published \/ Broker \/ UNCHANGED allVars
  BY <1>2, <1>8 DEF CommandChannelClosed, Published, Receive, Broker, Answer, Grant, Refuse, Withdraw, Reads,
                    Publish, allVars, vars, handles
<1>9. CASE User
  <2>1. UNCHANGED last_pkid
    BY <1>9 DEF User, vars
  <2> QED BY <1>2, <1>4, <1>9, <2>1 DEF User, NewClient, DropHost, DropHandle
<1> QED BY <1>3, <1>5, <1>6, <1>7, <1>8, <1>9 DEF ClientsNext, Runtime, PollIncoming

\* A step gives out one identifier at most, to the command that it takes.
LEMMA NamedMove ==
  ASSUME Sound, Sound', [ClientsNext]_allVars, NEW pkid, NEW id, Named(pkid, id)'
  PROVE  Named(pkid, id) \/ (TakeCommand /\ pkid = NextCandidate /\ id = Head(commands))
<1>1. ASSUME NEW op \in Ops', op.pkid = pkid, op.id = id
      PROVE  Named(pkid, id) \/ (TakeCommand /\ pkid = NextCandidate /\ id = Head(commands))
  BY <1>1, OpsMove DEF Named, Taken
<1>2. ASSUME NEW packet \in ToSet(to_broker'), packet.pkid = pkid, packet.id = id
      PROVE  Named(pkid, id) \/ (TakeCommand /\ pkid = NextCandidate /\ id = Head(commands))
  <2>1. CASE packet \in ToSet(to_broker)
    BY <1>2, <2>1 DEF Named
  <2>2. CASE Posted(packet)'
    <3>1. outgoing'[pkid] \in Ops' /\ outgoing'[pkid].id = id /\ pkid \in Occupied'
      BY <1>2, <2>2 DEF Posted, Ops, Here
    <3>2. outgoing'[pkid].pkid = pkid
      BY <3>1 DEF Sound, OwnerInv, StoreInv, StoreConsistent
    <3> QED BY <1>1, <3>1, <3>2
  <2> QED BY <2>1, <2>2, PacketsMove
<1>3. ASSUME NEW ack \in Acks', ack.pkid = pkid, ack.of = id
      PROVE  Named(pkid, id)
  BY <1>3, AcksMove DEF Named, AnswerTo
<1> QED BY <1>1, <1>2, <1>3 DEF Named

LEMMA NumberedStep ==
  ASSUME Sound, Sound', Orderly, [ClientsNext]_allVars, Roomy'
  PROVE  Numbered' /\ (TakeCommand => NextCandidate = last_pkid + 1)
<1>1. /\ Roomy /\ Numbered /\ issued \in Nat /\ issued <= MaxInflight
      /\ Timeout \/ Replace => ~clean_session
  <2>1. /\ Roomy /\ issued \in Nat /\ issued' \in Nat /\ issued <= issued' /\ issued' <= MaxInflight
        /\ Timeout \/ Replace => ~clean_session
    BY RoomyBefore
  <2> QED BY <2>1, MaxInflightAssumption DEF Orderly
<1>2. last_pkid \in Nat /\ commands \in Seq(OpId)
  BY MaxInflightAssumption DEF Sound, OwnerInv, StoreInv, TypeOK, Slot, Typed
<1>3. CASE TakeCommand
  <2>1. commands # <<>> /\ last_pkid' = NextCandidate
    BY <1>3, CommandDoes
  <2>2. Len(commands) \in Nat /\ Len(commands) >= 1
    BY <1>2, <2>1
  <2>3. NextCandidate = last_pkid + 1
    BY <1>1, <1>2, <2>2, MaxInflightAssumption DEF Orderly, Budget, NextCandidate
  <2>4. \A pkid, x : Named(pkid, x) => pkid \in 1 .. last_pkid
    BY <1>1 DEF Numbered
  <2>5. \A pkid, x : Named(pkid, x)' =>
          (Named(pkid, x) /\ pkid # last_pkid + 1) \/ (pkid = last_pkid + 1 /\ x = Head(commands))
    <3>1. last_pkid + 1 \notin 1 .. last_pkid
      BY <1>2
    <3> QED BY <2>3, <2>4, <3>1, NamedMove
  <2>6. \A pkid, x, y : Named(pkid, x)' /\ Named(pkid, y)' => x = y
    BY <1>1, <2>5 DEF Numbered
  <2>7. \A pkid, x : Named(pkid, x)' => pkid \in 1 .. last_pkid'
    BY <1>2, <2>1, <2>3, <2>4, <2>5
  <2> QED BY <2>3, <2>6, <2>7 DEF Numbered
<1>4. CASE ~TakeCommand
  <2>1. UNCHANGED last_pkid
    <3>1. CASE Timeout \/ Replace
      BY <1>1, <3>1, LossDoes DEF Timeout, Replace
    <3>2. CASE Acknowledged \/ NotAcknowledged \/ Restore \/ Resend
      BY <3>2, AckDoes, NotAckDoes, RestoreDoes, ResendDoes
    <3>3. CASE User \/ CommandChannelClosed \/ Published \/ Broker \/ UNCHANGED allVars
      BY <3>3 DEF User, CommandChannelClosed, Published, Broker, Answer, Grant, Refuse, Withdraw, Reads,
                  Publish, allVars, vars
    <3> QED BY <1>4, <3>1, <3>2, <3>3 DEF ClientsNext, Runtime, PollIncoming
  <2>2. \A pkid, x : Named(pkid, x)' => Named(pkid, x)
    BY <1>4, NamedMove
  <2>3. \A pkid, x, y : Named(pkid, x)' /\ Named(pkid, y)' => x = y
    BY <1>1, <2>2 DEF Numbered
  <2>4. \A pkid, x : Named(pkid, x)' => pkid \in 1 .. last_pkid'
    BY <1>1, <2>1, <2>2 DEF Numbered
  <2> QED BY <1>4, <2>3, <2>4 DEF Numbered
<1> QED BY <1>3, <1>4

\* An operation whose identifier is no other's finds its slot free.
LEMMA FreeSlotAccepts ==
  ASSUME Sound, NEW op \in Operation, op.pkid # 0, outgoing[op.pkid] = None
  PROVE  Accepts(op)
<1>0. inflight = Cardinality(Occupied) /\ op.pkid \in Slot /\ \A i \in Occupied : i # 0 /\ i \in Slot
  BY OpParts, OpsNumbered DEF Sound, OwnerInv, StoreInv, StoreConsistent
<1> DEFINE others == (1 .. MaxInflight) \ {op.pkid}
<1>1. op.pkid \in 1 .. MaxInflight
  BY <1>0 DEF Slot
<1>2. Occupied \subseteq others
  BY <1>0 DEF Slot, Occupied
<1>3. IsFiniteSet(1 .. MaxInflight) /\ Cardinality(1 .. MaxInflight) = MaxInflight
  BY FS_Interval, MaxInflightAssumption
<1>4. IsFiniteSet(others) /\ Cardinality(others) = MaxInflight - 1
  BY <1>1, <1>3, FS_RemoveElement
<1>5. Cardinality(Occupied) <= MaxInflight - 1 /\ Cardinality(Occupied) \in Nat
  <2> HIDE DEF others
  <2> QED BY <1>2, <1>4, FS_Subset, OccupiedFinite
<1> QED BY <1>0, <1>5, MaxInflightAssumption DEF Accepts

LEMMA RoomToSend ==
  ASSUME Sound, Sound', Orderly, [ClientsNext]_allVars, Roomy', NEW op \in Operation, op.pkid # 0,
         \/ Resend /\ op = Head(replay)
         \/ TakeCommand /\ op.pkid = NextCandidate
  PROVE  Accepts(op)
<1>1. Roomy /\ Numbered
  BY RoomyBefore DEF Orderly
<1>2. op.pkid \notin Occupied
  <2> SUFFICES ASSUME op.pkid \in Occupied PROVE FALSE
    OBVIOUS
  <2> DEFINE held == outgoing[op.pkid]
  <2>1. held \in Ops /\ held.pkid = op.pkid
    BY OpsNumbered, InOps DEF Sound, OwnerInv
  <2>2. Named(op.pkid, held.id)
    BY <2>1 DEF Named
  <2>3. CASE TakeCommand /\ op.pkid = NextCandidate
    <3>1. op.pkid = last_pkid + 1
      BY <2>3, NumberedStep
    <3>2. op.pkid \in 1 .. last_pkid
      BY <1>1, <2>2 DEF Numbered
    <3>3. last_pkid \in Nat
      BY MaxInflightAssumption DEF Sound, OwnerInv, StoreInv, TypeOK, Slot
    <3> QED BY <3>1, <3>2, <3>3
  <2>4. CASE Resend /\ op = Head(replay)
    <3>1. replay # <<>> /\ replay \in Seq(Operation)
      BY <2>4, ResendDoes DEF Sound, OwnerInv, StoreInv, TypeOK
    <3>2. 1 \in DOMAIN replay /\ op = replay[1]
      BY <2>4, <3>1
    <3>3. op \in Ops /\ op.id \in ReplayIds
      BY <3>2, InOps DEF ReplayIds
    <3>4. held.id = op.id
      BY <1>1, <2>2, <3>3 DEF Named, Numbered
    <3>5. held.id \in OutgoingIds
      BY DEF OutgoingIds
    <3> QED BY <3>3, <3>4, <3>5 DEF Sound, OwnerInv, SingleOwner, OwnersDisjoint
  <2> QED BY <2>3, <2>4
<1>3. outgoing[op.pkid] = None
  BY <1>2, OpParts DEF Occupied
<1> QED BY <1>3, FreeSlotAccepts

LEMMA UnmistakenStep ==
  ASSUME Sound, Sound', Kinds, Orderly, [ClientsNext]_allVars, Roomy'
  PROVE  Unmistaken'
<1>1. Roomy /\ Numbered /\ Unmistaken
  BY RoomyBefore DEF Orderly
<1>2. CASE UNCHANGED <<mistaken, error>>
  BY <1>1, <1>2 DEF Unmistaken
<1>3. CASE Acknowledged
  <2>1. PICK ack \in FromBroker, op \in Operation :
           /\ ack \in Acks /\ ack.pkid \in Occupied /\ op = outgoing[ack.pkid]
           /\ \/ /\ Answers(ack, op) /\ UNCHANGED error
                 /\ mistaken' = (mistaken \/ op.id # ack.of)
              \/ ~Answers(ack, op)
    BY <1>3, AckDoes
  <2>2. op \in Ops /\ op.pkid = ack.pkid
    BY <2>1, InOps, OpsNumbered DEF Sound, OwnerInv
  <2>3. op.id = ack.of
    BY <1>1, <2>1, <2>2 DEF Named, Numbered
  <2>4. Answers(ack, op)
    BY <2>1, <2>2, <2>3 DEF Kinds, Answers
  <2> QED BY <1>1, <2>1, <2>3, <2>4 DEF Unmistaken
<1>4. CASE NotAcknowledged
  BY <1>1, <1>4, NotAckDoes DEF Unmistaken, task
<1>5. CASE TakeCommand \/ Restore \/ Resend \/ Timeout \/ Replace
  BY <1>2, <1>5, CommandDoes, RestoreDoes, ResendDoes, LossDoes DEF Timeout, Replace, task
<1>6. CASE User \/ CommandChannelClosed \/ Published \/ Broker \/ UNCHANGED allVars
  BY <1>2, <1>6 DEF User, CommandChannelClosed, Published, Broker, Answer, Grant, Refuse, Withdraw, Reads,
                    Publish, allVars, vars, task
<1> QED BY <1>3, <1>4, <1>5, <1>6 DEF ClientsNext, Runtime, PollIncoming

LEMMA NoCollisionStep ==
  ASSUME Sound, Sound', Orderly, [ClientsNext]_allVars, Roomy'
  PROVE  collision' = None
<1>1. Roomy /\ collision = None
  BY RoomyBefore DEF Orderly
<1>2. CASE UNCHANGED collision
  BY <1>1, <1>2
<1>3. CASE TakeCommand
  <2>1. PICK op \in Operation : /\ op.pkid = NextCandidate /\ op.pkid # 0
                                /\ Tracks(op) \/ UNCHANGED collision
    BY <1>3, CommandDoes
  <2>2. Accepts(op)
    BY <1>3, <2>1, RoomToSend
  <2> QED BY <1>2, <2>1, <2>2 DEF Tracks
<1>4. CASE Resend
  <2>1. PICK op \in Operation : op = Head(replay) /\ op \in ToSet(replay) /\ Tracks(op)
    BY <1>4, ResendDoes
  <2>2. op.pkid # 0
    BY <2>1, OpsNumbered DEF Sound, OwnerInv, Ops
  <2>3. Accepts(op)
    BY <1>4, <2>1, <2>2, RoomToSend
  <2> QED BY <1>2, <2>1, <2>3 DEF Tracks
<1>5. CASE Timeout \/ Replace
  BY <1>5, LossDoes DEF Timeout, Replace
<1>6. CASE Acknowledged \/ NotAcknowledged \/ Restore
  BY <1>2, <1>6, AckDoes, NotAckDoes, RestoreDoes
<1>7. CASE User \/ CommandChannelClosed \/ Published \/ Broker \/ UNCHANGED allVars
  BY <1>2, <1>7 DEF User, CommandChannelClosed, Published, Broker, Answer, Grant, Refuse, Withdraw, Reads,
                    Publish, allVars, vars, store
<1> QED BY <1>3, <1>4, <1>5, <1>6, <1>7 DEF ClientsNext, Runtime, PollIncoming

LEMMA AlwaysOrderly == ClientsSpec => [](Sound /\ Causes /\ Orderly)
<1>1. ClientsInit => Sound /\ Causes /\ Orderly
  BY SoundStart, CausesStart, OrderlyStart
<1>2. Sound /\ Causes /\ Orderly /\ [ClientsNext]_allVars => Sound' /\ Causes' /\ Orderly'
  <2> SUFFICES ASSUME Sound, Causes, Orderly, [ClientsNext]_allVars
               PROVE  Sound' /\ Causes' /\ Orderly'
    OBVIOUS
  <2>1. Sound' /\ Causes' /\ Kinds
    BY SoundStep, CausesStep DEF Causes
  <2>2. Budget'
    BY <2>1, BudgetStep DEF Orderly
  <2>3. ASSUME Roomy' PROVE Numbered' /\ Unmistaken' /\ collision' = None
    BY <2>1, <2>3, NumberedStep, UnmistakenStep, NoCollisionStep
  <2> QED BY <2>1, <2>2, <2>3 DEF Orderly
<1> QED BY <1>1, <1>2, PTL DEF ClientsSpec

(***************************************************************************)
(* Without a timeout on a live connection no acknowledgement is taken for  *)
(* another command's; and with one, only if the pool was reset or was too  *)
(* small.                                                                  *)
(***************************************************************************)
THEOREM MistakesCaused == ClientsSpec => []MistakenBecause
<1>1. Sound /\ Causes /\ Orderly => MistakenBecause
  <2> SUFFICES ASSUME Sound, Causes, Orderly, mistaken \/ error = "InvalidCommand"
               PROVE  timeouts > 0 /\ (clean_session \/ ~Spacious)
    BY DEF MistakenBecause
  <2>1. "InvalidCommand" # None
    BY NoneAssumption DEF Error
  <2>2. timeouts > 0
    BY <2>1, Bounds DEF Causes, Calm, Sound, Typed
  <2>3. clean_session \/ ~Spacious
    BY DEF Orderly, Roomy, Unmistaken
  <2> QED BY <2>2, <2>3
<1> QED BY <1>1, AlwaysOrderly, PTL

-----------------------------------------------------------------------------
(***************************************************************************)
(* Each command is in one place: the numbers that CompletedOnce adds up.   *)
(***************************************************************************)
ToldOfIssued(client, token) ==
  {event \in Event : event.event = "Completion" /\ event.of \in Issued(client, token)}

InChannel(client, token) == Count(commands, Issued(client, token))
InState(client, token) == Cardinality(OwnedIds \cap Issued(client, token))
InMailbox(client, token) == Count(mailbox[client], ToldOfIssued(client, token))

PlacesRight(client, token) ==
  LET places == InChannel(client, token) + InState(client, token) + InMailbox(client, token)
      expected == IF token <= next_token[client] THEN 1 ELSE 0
  IN  places <= expected /\ (Roomy => places = expected)

OwnOnly(client) ==
  \A i \in DOMAIN mailbox[client] :
    mailbox[client][i].event = "Completion" => mailbox[client][i].of.client = client

InPlace ==
  /\ IsFiniteSet(OwnedIds)
  /\ Running => \A client \in Client : /\ OwnOnly(client)
                                       /\ \A token \in 1 .. MaxCommands : PlacesRight(client, token)

LEMMA InPlaceIs == ASSUME Typed, InPlace PROVE CompletedOnce
<1>1. ASSUME NEW client \in Client, NEW token
      PROVE  Places(client, token) = InChannel(client, token) + InState(client, token) + InMailbox(client, token)
  <2>1. \A i \in DOMAIN mailbox[client] : mailbox[client][i] \in Event
    BY DEF Typed
  <2>2. {i \in DOMAIN mailbox[client] : /\ mailbox[client][i].event = "Completion"
                                        /\ mailbox[client][i].of \in Issued(client, token)}
          = {i \in DOMAIN mailbox[client] : mailbox[client][i] \in ToldOfIssued(client, token)}
    BY <2>1 DEF ToldOfIssued
  <2> QED BY <2>2, Zenon DEF Places, InChannel, InState, InMailbox, Count
<1>2. ASSUME Running, NEW client \in Client, NEW token \in 1 .. MaxCommands
      PROVE  LET expected == IF token <= next_token[client] THEN 1 ELSE 0
             IN  /\ Places(client, token) <= expected
                 /\ Roomy => Places(client, token) = expected
  <2>1. PlacesRight(client, token)
    BY <1>2 DEF InPlace
  <2> QED BY <1>1, <2>1, Zenon DEF PlacesRight
<1> QED BY <1>2 DEF InPlace, OwnOnly, CompletedOnce

LEMMA IssuedAre ==
  ASSUME NEW command \in OpId, NEW client, NEW token
  PROVE  command \in Issued(client, token) <=> command.client = client /\ command.token = token
BY OpIdAssumption DEF Issued

LEMMA OpsOwnedNext == OwnedIds' = {op.id : op \in Ops'}
BY DEF OwnedIds, OutgoingIds, CollisionIds, PendingIds, ReplayIds, Ops, Here, ToSet

\* What the step owns: nothing new but what it takes, nothing less but what it completes.
LEMMA OwnedMove ==
  ASSUME Sound, Sound', Orderly, [ClientsNext]_allVars, ended' = None
  PROVE  \/ /\ ~TakeCommand /\ OwnedIds' \subseteq OwnedIds
            /\ \A op : ~Finishes(op)
            /\ Roomy' /\ error' = None => OwnedIds' = OwnedIds
         \/ /\ TakeCommand /\ Head(commands) \in OpId \ OwnedIds /\ Quiet
            /\ OwnedIds' \subseteq OwnedIds \cup {Head(commands)}
            /\ Roomy' => OwnedIds' = OwnedIds \cup {Head(commands)}
         \/ \E op : Finishes(op) /\ op.id \in OwnedIds /\ OwnedIds' = OwnedIds \ {op.id} /\ ~TakeCommand
<1>0. StoreInv /\ TypeOK /\ SingleOwner /\ OwnedIds \subseteq submitted
  BY DEF Sound, OwnerInv, StoreInv
<1>1. ASSUME NEW op \in Operation, Accepts(op), Tracks(op), op.id \notin OutgoingIds
      PROVE  OutgoingIds' = OutgoingIds \cup {op.id} /\ UNCHANGED <<CollisionIds, PendingIds>>
  <2>1. outgoing' = [outgoing EXCEPT ![op.pkid] = op] /\ outgoing[op.pkid] = None /\ op.pkid \in Slot
        /\ UNCHANGED <<collision, pending>> /\ op # None
    BY <1>1, OpParts DEF Tracks, Accepts
  <2>2. outgoing \in [Slot -> Operation \cup {None}]
    BY <1>0 DEF TypeOK
  <2>3. Occupied' = Occupied \cup {op.pkid} /\ outgoing'[op.pkid] = op
        /\ \A i \in Occupied : outgoing'[i] = outgoing[i]
    BY <2>1, <2>2 DEF Occupied
  <2> QED BY <2>1, <2>3 DEF OutgoingIds, CollisionIds, PendingIds
<1>2. CASE TakeCommand
  <2>1. PICK op \in Operation :
          /\ op.id = Head(commands) /\ op.pkid = NextCandidate /\ op.pkid # 0
          /\ op.id \in OpId /\ op.id \notin submitted /\ UNCHANGED replay
          /\ \/ Tracks(op)
             \/ pending' = Append(pending, op) /\ UNCHANGED <<outgoing, collision>>
    BY <1>2, CommandDoes
  <2>2. UNCHANGED <<mailbox, entries>>
    BY <1>2, CommandDoes DEF task
  <2>3. op.id \notin OwnedIds /\ Quiet
    BY <1>0, <2>1, <2>2, QuietUnchanged
  <2>4. OwnedIds' \subseteq OwnedIds \cup {op.id}
    <3>1. OwnedIds' = {o.id : o \in Ops'} /\ OwnedIds = {o.id : o \in Ops}
      BY OpsOwned, OpsOwnedNext
    <3>2. \A o \in Ops' : o \in Ops \/ o.id = op.id
      BY <1>2, <2>1, OpsMove DEF Taken
    <3> QED BY <3>1, <3>2
  <2>5. ASSUME Roomy' PROVE OwnedIds' = OwnedIds \cup {op.id}
    <3>1. CASE Tracks(op)
      <4>1. Accepts(op) /\ op.id \notin OutgoingIds
        BY <1>2, <2>1, <2>3, <2>5, RoomToSend DEF OwnedIds
      <4>2. OutgoingIds' = OutgoingIds \cup {op.id} /\ UNCHANGED <<CollisionIds, PendingIds>>
        BY <1>1, <3>1, <4>1
      <4>3. UNCHANGED ReplayIds
        BY <2>1 DEF ReplayIds
      <4> QED BY <4>2, <4>3 DEF OwnedIds
    <3>2. CASE pending' = Append(pending, op) /\ UNCHANGED <<outgoing, collision>>
      <4>1. UNCHANGED <<OutgoingIds, CollisionIds, ReplayIds>>
        BY <2>1, <3>2 DEF OutgoingIds, CollisionIds, ReplayIds, Occupied
      <4>2. PendingIds' = PendingIds \cup {op.id}
        <5>1. op.id \notin PendingIds /\ PendingDistinct
          BY <1>0, <2>3 DEF OwnedIds, SingleOwner
        <5> QED BY <1>0, <3>2, <5>1, AppendPending
      <4> QED BY <4>1, <4>2 DEF OwnedIds
    <3> QED BY <2>1, <3>1, <3>2
  <2> QED BY <1>2, <2>1, <2>3, <2>4, <2>5
<1>3. ASSUME NEW op, Finishes(op)
      PROVE  op.id \in OwnedIds /\ OwnedIds' = OwnedIds \ {op.id} /\ ~TakeCommand
  <2>1. PICK pkid \in Occupied : /\ op = outgoing[pkid]
                                 /\ outgoing' = [outgoing EXCEPT ![pkid] = None]
    BY <1>3 DEF Finishes
  <2>2. op.id \in OutgoingIds
    BY <2>1 DEF OutgoingIds
  <2>3. OutgoingIds' = OutgoingIds \ {op.id}
    BY <1>0, <2>1, EmptiedOwners DEF SingleOwner
  <2>4. UNCHANGED <<CollisionIds, PendingIds, ReplayIds>>
    BY <1>3 DEF Finishes, CollisionIds, PendingIds, ReplayIds
  <2>5. op.id \notin CollisionIds \cup PendingIds \cup ReplayIds
    BY <1>0, <2>2 DEF SingleOwner, OwnersDisjoint
  <2>6. commands' # Tail(commands) \/ commands = <<>>
    <3>1. UNCHANGED commands /\ commands \in Seq(OpId)
      BY <1>3 DEF Finishes, Sound, Typed
    <3> QED BY <3>1
  <2>7. ~TakeCommand
    BY <2>6 DEF TakeCommand
  <2> QED BY <2>2, <2>3, <2>4, <2>5, <2>7 DEF OwnedIds
<1>4. ASSUME ~TakeCommand, \A op : ~Finishes(op)
      PROVE  OwnedIds' \subseteq OwnedIds /\ (Roomy' /\ error' = None => OwnedIds' = OwnedIds)
  <2>1. OwnedIds' \subseteq OwnedIds
    <3>1. OwnedIds' = {o.id : o \in Ops'} /\ OwnedIds = {o.id : o \in Ops}
      BY OpsOwned, OpsOwnedNext
    <3>2. Ops' \subseteq Ops
      BY <1>4, OpsMove DEF Taken
    <3> QED BY <3>1, <3>2
  <2>2. ASSUME Roomy', error' = None PROVE OwnedIds' = OwnedIds
    <3>1. ~Acknowledged
      BY <1>4, <2>2, Tells
    <3>2. CASE Timeout \/ Replace
      BY <3>2, LossDoes DEF Timeout, Replace
    <3>3. CASE Restore
      BY <3>3, RestoreDoes
    <3>4. CASE Resend
      <4>1. PICK op \in Operation : /\ op = Head(replay) /\ op \in ToSet(replay) /\ Tracks(op)
                                    /\ replay # <<>> /\ replay' = Tail(replay)
        BY <3>4, ResendDoes
      <4>2. op.pkid # 0
        BY <4>1, OpsNumbered DEF Sound, OwnerInv, Ops
      <4>3. Accepts(op)
        BY <2>2, <3>4, <4>1, <4>2, RoomToSend
      <4>4. /\ op.id \in ReplayIds /\ ReplayIds' = ReplayIds \ {op.id}
        BY <1>0, <4>1, VisitedOwners DEF SingleOwner
      <4>5. op.id \notin OutgoingIds
        BY <1>0, <4>4 DEF SingleOwner, OwnersDisjoint
      <4>6. OutgoingIds' = OutgoingIds \cup {op.id} /\ UNCHANGED <<CollisionIds, PendingIds>>
        BY <1>1, <4>1, <4>3, <4>5
      <4> QED BY <4>4, <4>6 DEF OwnedIds
    <3>5. CASE NotAcknowledged
      BY <3>5, NotAckDoes DEF OwnedIds, OutgoingIds, CollisionIds, PendingIds, ReplayIds, Occupied
    <3>6. CASE User \/ CommandChannelClosed \/ Published \/ Broker \/ UNCHANGED allVars
      <4>1. UNCHANGED vars
        BY <3>6 DEF User, CommandChannelClosed, Published, Broker, Answer, Grant, Refuse, Withdraw, Reads,
                    Publish, allVars
      <4> QED BY <4>1 DEF vars, store, OwnedIds, OutgoingIds, CollisionIds, PendingIds, ReplayIds, Occupied
    <3> QED BY <1>4, <3>1, <3>2, <3>3, <3>4, <3>5, <3>6 DEF ClientsNext, Runtime, PollIncoming
  <2> QED BY <2>1, <2>2
<1> QED BY <1>2, <1>3, <1>4

LEMMA RunningBefore == ASSUME [ClientsNext]_allVars, Running' PROVE Running
BY DEF ClientsNext, User, Runtime, TakeCommand, CommandChannelClosed, PollIncoming, Acknowledged,
       NotAcknowledged, Published, AtLoop, Receive, Running, Timeout, Replace, LoseConnection,
       Restore, Resend, Broker, Answer, Grant, Refuse, Withdraw, Reads, Publish, allVars, vars, task

LEMMA OwnStep ==
  ASSUME Sound, [ClientsNext]_allVars, ended' = None, NEW client \in Client, OwnOnly(client)
  PROVE  OwnOnly(client)'
<1> DEFINE Own(e) == e.event = "Completion" => e.of.client = client
<1>0. mailbox[client] \in Seq(Event) /\ \A i \in DOMAIN mailbox[client] : Own(mailbox[client][i])
  BY DEF Sound, Typed, OwnOnly
<1>1. ASSUME NEW op, Finishes(op)
      PROVE  \A i \in DOMAIN mailbox'[client] : Own(mailbox'[client][i])
  <2>1. Reported(op) \in Event /\ (client = op.id.client => Own(Reported(op)))
    BY <1>1, EventParts DEF Finishes
  <2>2. mailbox'[client] = IF client = op.id.client THEN Append(mailbox[client], Reported(op))
                                                     ELSE mailbox[client]
    BY <1>1 DEF Finishes
  <2> HIDE DEF Own
  <2> QED BY <1>0, <2>1, <2>2
<1>2. CASE Quiet
  <2>1. PICK t \in Seq(Event) : mailbox'[client] = mailbox[client] \o t /\ Unfinished(t)
    BY <1>2 DEF Quiet
  <2>2. \A i \in DOMAIN t : Own(t[i])
    BY <2>1 DEF Unfinished
  <2> HIDE DEF Own
  <2>3. \A i \in DOMAIN mailbox'[client] : Own(mailbox'[client][i])
    BY <1>0, <2>1, <2>2
  <2> QED BY <2>3 DEF OwnOnly, Own
<1> QED BY <1>1, <1>2, Tells DEF OwnOnly

LEMMA MailboxCount ==
  ASSUME Sound, NEW client \in Client, NEW token
  PROVE  /\ Quiet => InMailbox(client, token)' = InMailbox(client, token)
         /\ \A op : Finishes(op) =>
              InMailbox(client, token)' =
                InMailbox(client, token) + IF op.id \in Issued(client, token) THEN 1 ELSE 0
<1> DEFINE told == ToldOfIssued(client, token)
<1>0. mailbox[client] \in Seq(Event)
  BY DEF Sound, Typed
<1>1. Count(mailbox[client], told) \in Nat
  BY <1>0, CountType, Zenon
<1>2. ASSUME Quiet PROVE Count(mailbox'[client], told) = Count(mailbox[client], told)
  <2>1. PICK t \in Seq(Event) : mailbox'[client] = mailbox[client] \o t /\ Unfinished(t)
    BY <1>2 DEF Quiet
  <2>2. \A i \in DOMAIN t : t[i] \notin told
    BY <2>1 DEF Unfinished, ToldOfIssued
  <2> QED BY <1>0, <2>1, <2>2, CountConcat
<1>3. ASSUME NEW op, Finishes(op)
      PROVE  Count(mailbox'[client], told) =
               Count(mailbox[client], told) + IF op.id \in Issued(client, token) THEN 1 ELSE 0
  <2>1. /\ op \in Operation /\ op.id \in OpId
        /\ mailbox'[client] = IF client = op.id.client THEN Append(mailbox[client], Reported(op))
                                                       ELSE mailbox[client]
    BY <1>3, OpParts DEF Finishes
  <2>2. Reported(op) \in Event /\ (Reported(op) \in told <=> op.id \in Issued(client, token))
    BY <2>1, EventParts DEF ToldOfIssued
  <2>3. op.id \in Issued(client, token) => client = op.id.client
    BY <2>1, IssuedAre
  <2>4. Count(Append(mailbox[client], Reported(op)), told) =
          Count(mailbox[client], told) + IF Reported(op) \in told THEN 1 ELSE 0
    <3> HIDE DEF told
    <3> QED BY <1>0, <2>2, CountAppend
  <2> HIDE DEF told
  <2>5. CASE client = op.id.client
    BY <2>1, <2>2, <2>4, <2>5
  <2>6. CASE client # op.id.client
    BY <1>1, <2>1, <2>3, <2>6
  <2> QED BY <2>5, <2>6
<1> QED BY <1>2, <1>3 DEF InMailbox, ToldOfIssued

\* Only a client's own command, and taking one, change what is in the channel.
LEMMA ChannelCount ==
  ASSUME Sound, [ClientsNext]_allVars, NEW client \in Client, NEW token
  PROVE  LET c == InChannel(client, token)
             n == next_token[client]
         IN  \/ c' = c /\ n' = n /\ ~TakeCommand
             \/ /\ n' = n + 1 /\ c' = c + (IF token = n + 1 THEN 1 ELSE 0) /\ User
             \/ /\ TakeCommand /\ n' = n
                /\ c = c' + IF Head(commands) \in Issued(client, token) THEN 1 ELSE 0
<1> DEFINE I == Issued(client, token)
           c == InChannel(client, token)
           n == next_token[client]
<1>0. commands \in Seq(OpId) /\ next_token \in [Client -> Nat] /\ c \in Nat
  <2>1. commands \in Seq(OpId) /\ next_token \in [Client -> 0 .. issued] /\ issued \in Nat
    BY Bounds DEF Sound, Typed
  <2>2. c \in Nat
    BY <2>1, CountType, Zenon DEF InChannel
  <2> QED BY <2>1, <2>2
<1>1. CASE UNCHANGED <<commands, next_token>> /\ ~TakeCommand
  BY <1>1 DEF InChannel, Issued, Count
<1>2. CASE TakeCommand
  <2>1. commands # <<>> /\ commands' = Tail(commands) /\ next_token' = next_token
    BY <1>2 DEF TakeCommand, handles
  <2>2. Count(commands, I) = Count(Tail(commands), I) + IF Head(commands) \in I THEN 1 ELSE 0
    <3> HIDE DEF I
    <3> QED BY <1>0, <2>1, CountTail
  <2> QED BY <1>2, <2>1, <2>2 DEF InChannel
<1>3. ASSUME NEW other \in Client, NEW kind \in Kind, NEW filter \in Filter, Issue(other, kind, filter), User
      PROVE  \/ c' = c /\ n' = n
             \/ n' = n + 1 /\ c' = c + (IF token = n + 1 THEN 1 ELSE 0)
  <2> DEFINE command == [client |-> other, token |-> next_token'[other], kind |-> kind, filter |-> filter]
  <2>1. /\ next_token' = [next_token EXCEPT ![other] = @ + 1]
        /\ commands' = Append(commands, command)
    BY <1>3 DEF Issue
  <2>2. next_token'[other] = next_token[other] + 1 /\ next_token'[other] \in 1 .. MaxCommands
    BY <1>0, <1>3, <2>1, Bounds DEF Issue, Sound, Typed
  <2>3. command \in OpId /\ command.client = other /\ command.token = next_token[other] + 1
    BY <2>2, OpIdAssumption
  <2> HIDE DEF command
  <2>4. Count(Append(commands, command), I) = Count(commands, I) + IF command \in I THEN 1 ELSE 0
    <3> HIDE DEF I
    <3> QED BY <1>0, <2>3, CountAppend
  <2>5. command \in I <=> other = client /\ token = next_token[other] + 1
    BY <2>3, IssuedAre
  <2>6. c' = c + IF command \in I THEN 1 ELSE 0
    BY <2>1, <2>4 DEF InChannel
  <2> HIDE DEF I, c
  <2>7. CASE other = client
    BY <2>1, <2>2, <2>5, <2>6, <2>7
  <2>8. CASE other # client
    BY <1>0, <2>1, <2>5, <2>6, <2>8
  <2> QED BY <2>7, <2>8
<1>4. CASE User
  <2>1. ~TakeCommand
    BY <1>0, <1>4 DEF User, TakeCommand, NewClient, DropHost, DropHandle, Issue, Transmit, network, Running,
                      Command, CommandOffline, CommandTracked, CommandUntracked, Submit, vars, history
  <2>2. \/ UNCHANGED <<commands, next_token>>
        \/ \E other \in Client, kind \in Kind, filter \in Filter : Issue(other, kind, filter)
    BY <1>4 DEF User, NewClient, DropHost, DropHandle
  <2> HIDE DEF c, n
  <2> QED BY <1>1, <1>3, <1>4, <2>1, <2>2 DEF c, n
<1>5. CASE ~User /\ ~TakeCommand
  BY <1>1, <1>5 DEF ClientsNext, Runtime, CommandChannelClosed, PollIncoming, Acknowledged,
       NotAcknowledged, Published, Receive, Timeout, Replace, LoseConnection, TellReconnected,
       Restore, Resend, Broker, Answer, Grant, Refuse, Withdraw, Reads, Publish, allVars, handles
<1> QED BY <1>2, <1>4, <1>5

LEMMA CountsAre ==
  ASSUME Typed, IsFiniteSet(OwnedIds), NEW client \in Client, NEW token
  PROVE  /\ InChannel(client, token) \in Nat /\ InState(client, token) \in Nat
         /\ InMailbox(client, token) \in Nat /\ next_token[client] \in Nat
<1>1. commands \in Seq(OpId) /\ mailbox[client] \in Seq(Event) /\ next_token[client] \in Nat
  BY Bounds DEF Typed
<1>2. IsFiniteSet(OwnedIds \cap Issued(client, token))
  BY FS_Subset
<1> QED BY <1>1, <1>2, CountType, FS_CardinalityType, Zenon DEF InChannel, InState, InMailbox

LEMMA CountsAreNext ==
  ASSUME Typed', IsFiniteSet(OwnedIds'), NEW client \in Client, NEW token
  PROVE  /\ InChannel(client, token)' \in Nat /\ InState(client, token)' \in Nat
         /\ InMailbox(client, token)' \in Nat /\ next_token'[client] \in Nat
<1>1. commands' \in Seq(OpId) /\ mailbox'[client] \in Seq(Event) /\ next_token'[client] \in Nat
  BY Bounds DEF Typed
<1>2. IsFiniteSet(OwnedIds' \cap Issued(client, token))
  BY FS_Subset
<1>3. Count(commands', Issued(client, token)) \in Nat
  BY <1>1, CountType, Zenon
<1>4. Count(mailbox'[client], ToldOfIssued(client, token)) \in Nat
  BY <1>1, CountType, Zenon
<1>5. Cardinality(OwnedIds' \cap Issued(client, token)) \in Nat
  BY <1>2, FS_CardinalityType
<1> QED BY <1>1, <1>3, <1>4, <1>5 DEF InChannel, InState, InMailbox, Issued, ToldOfIssued

\* Cardinalities of what the state owns.
Whether(x, I) == IF x \in I THEN 1 ELSE 0

LEMMA OwnedMore ==
  ASSUME NEW S, IsFiniteSet(S), NEW x, NEW I
  PROVE  /\ IsFiniteSet(S \cup {x})
         /\ Cardinality((S \cup {x}) \cap I) \in Nat
         /\ Cardinality((S \cup {x}) \cap I) <= Cardinality(S \cap I) + Whether(x, I)
         /\ Whether(x, I) \in {0, 1}
         /\ x \in S \/ Cardinality((S \cup {x}) \cap I) = Cardinality(S \cap I) + Whether(x, I)
<1> USE DEF Whether
<1>1. PICK owned : owned = S \cap I
  OBVIOUS
<1>2. IsFiniteSet(owned)
  BY <1>1, FS_Subset
<1>3. PICK n \in Nat : n = Cardinality(owned)
  BY <1>2, FS_CardinalityType
<1>4. IsFiniteSet(S \cup {x})
  BY FS_AddElement
<1>5. CASE x \in I
  <2>1. (S \cup {x}) \cap I = owned \cup {x} /\ (x \in owned <=> x \in S)
    BY <1>1, <1>5
  <2>2. Cardinality(owned \cup {x}) = IF x \in owned THEN n ELSE n + 1
    BY <1>2, <1>3, FS_AddElement
  <2>3. PICK m : m = Cardinality((S \cup {x}) \cap I)
    OBVIOUS
  <2>4. m = IF x \in S THEN n ELSE n + 1
    BY <2>1, <2>2, <2>3, Zenon
  <2>5. m \in Nat /\ m <= n + 1 /\ (x \notin S => m = n + 1)
    BY <2>4
  <2> QED BY <1>1, <1>3, <1>4, <1>5, <2>3, <2>5
<1>6. CASE x \notin I
  <2>1. (S \cup {x}) \cap I = owned
    BY <1>1, <1>6
  <2> QED BY <1>1, <1>3, <1>4, <1>6, <2>1
<1> QED BY <1>5, <1>6

LEMMA OwnedNew ==
  ASSUME NEW S, IsFiniteSet(S), NEW x, x \notin S, NEW I
  PROVE  Cardinality((S \cup {x}) \cap I) = Cardinality(S \cap I) + Whether(x, I)
BY OwnedMore, Zenon

LEMMA OwnedLess ==
  ASSUME NEW S, IsFiniteSet(S), NEW x, x \in S, NEW I
  PROVE  Cardinality(S \cap I) = Cardinality((S \ {x}) \cap I) + Whether(x, I)
<1> USE DEF Whether
<1>1. PICK owned : owned = S \cap I
  OBVIOUS
<1>2. IsFiniteSet(owned)
  BY <1>1, FS_Subset
<1>3. PICK n \in Nat : n = Cardinality(owned)
  BY <1>2, FS_CardinalityType
<1>4. CASE x \in I
  <2>1. (S \ {x}) \cap I = owned \ {x} /\ x \in owned
    BY <1>1, <1>4
  <2>2. Cardinality(owned \ {x}) = n - 1
    BY <1>2, <1>3, <2>1, FS_RemoveElement
  <2>3. Cardinality((S \ {x}) \cap I) = n - 1
    BY <2>1, <2>2
  <2> QED BY <1>1, <1>3, <1>4, <2>3
<1>5. CASE x \notin I
  <2>1. (S \ {x}) \cap I = owned
    BY <1>1, <1>5
  <2> QED BY <1>1, <1>3, <1>5, <2>1
<1> QED BY <1>4, <1>5

LEMMA OwnedPart ==
  ASSUME NEW S, IsFiniteSet(S), NEW T \in SUBSET S, NEW I
  PROVE  IsFiniteSet(T) /\ Cardinality(T \cap I) <= Cardinality(S \cap I) /\ Cardinality(T \cap I) \in Nat
<1>1. IsFiniteSet(T) /\ IsFiniteSet(S \cap I) /\ T \cap I \in SUBSET (S \cap I)
  BY FS_Subset
<1> QED BY <1>1, FS_Subset, FS_CardinalityType

LEMMA InPlaceStart == ClientsInit => InPlace
<1> SUFFICES ASSUME ClientsInit PROVE InPlace
  OBVIOUS
<1>1. OwnedIds = {}
  BY NoneAtFirst, OpsOwned
<1>2. IsFiniteSet(OwnedIds)
  BY <1>1, FS_EmptySet
<1>3. ASSUME NEW client \in Client
      PROVE  OwnOnly(client) /\ \A token \in 1 .. MaxCommands : PlacesRight(client, token)
  <2>1. commands = <<>> /\ mailbox[client] = <<>> /\ next_token[client] = 0
    BY DEF ClientsInit
  <2>2. OwnOnly(client)
    BY <2>1 DEF OwnOnly
  <2>3. ASSUME NEW token \in 1 .. MaxCommands PROVE PlacesRight(client, token)
    <3>1. \A S : {i \in DOMAIN <<>> : (<<>>)[i] \in S} = {}
      OBVIOUS
    <3>2. InChannel(client, token) = 0 /\ InMailbox(client, token) = 0
      BY <2>1, <3>1, FS_EmptySet DEF InChannel, InMailbox, Count
    <3>3. OwnedIds \cap Issued(client, token) = {}
      BY <1>1
    <3>4. InState(client, token) = 0
      BY <3>3, FS_EmptySet DEF InState
    <3> QED BY <2>1, <3>2, <3>4, token > 0 DEF PlacesRight
  <2> QED BY <2>2, <2>3
<1> QED BY <1>2, <1>3 DEF InPlace

LEMMA OwnedFinite ==
  ASSUME Sound, [ClientsNext]_allVars, IsFiniteSet(OwnedIds)
  PROVE  IsFiniteSet(OwnedIds')
<1>1. OwnedIds' \subseteq OwnedIds \cup {Head(commands)}
  <2>1. OwnedIds' = {o.id : o \in Ops'} /\ OwnedIds = {o.id : o \in Ops}
    BY OpsOwned, OpsOwnedNext
  <2>2. \A o \in Ops' : o \in Ops \/ o.id = Head(commands)
    BY OpsMove DEF Taken
  <2> QED BY <2>1, <2>2
<1> QED BY <1>1, OwnedMore, FS_Subset

\* The sums, as numbers.
LEMMA SumStep ==
  ASSUME NEW c \in Nat, NEW o \in Nat, NEW m \in Nat, NEW n \in Nat,
         NEW x \in Nat, NEW y \in Nat, NEW z \in Nat, NEW w \in Nat,
         NEW t \in Nat \ {0}, NEW roomy \in BOOLEAN,
         c + o + m <= IF t <= n THEN 1 ELSE 0,
         roomy => c + o + m = IF t <= n THEN 1 ELSE 0,
         NEW d \in {0, 1},
         \/ x = c /\ y <= o /\ z = m /\ w = n /\ (roomy => y = o)
         \/ x = c + d /\ y <= o /\ z = m /\ w = n + 1 /\ (roomy => y = o) /\ (d = 1 <=> t = n + 1)
         \/ c = x + d /\ y <= o + d /\ z = m /\ w = n /\ (roomy => y = o + d)
         \/ x = c /\ o = y + d /\ z = m + d /\ w = n
  PROVE  /\ x + y + z <= IF t <= w THEN 1 ELSE 0
         /\ roomy => x + y + z = IF t <= w THEN 1 ELSE 0
<1>1. CASE x = c /\ y <= o /\ z = m /\ w = n /\ (roomy => y = o)
  BY <1>1
<1>2. CASE x = c + d /\ y <= o /\ z = m /\ w = n + 1 /\ (roomy => y = o) /\ (d = 1 <=> t = n + 1)
  BY <1>2
<1>3. CASE c = x + d /\ y <= o + d /\ z = m /\ w = n /\ (roomy => y = o + d)
  BY <1>3
<1>4. CASE x = c /\ o = y + d /\ z = m + d /\ w = n
  BY <1>4
<1> QED BY <1>1, <1>2, <1>3, <1>4

LEMMA PlacesStep ==
  ASSUME Sound, Sound', Orderly, [ClientsNext]_allVars, Running', IsFiniteSet(OwnedIds),
         NEW client \in Client, NEW token \in 1 .. MaxCommands, PlacesRight(client, token)
  PROVE  PlacesRight(client, token)'
<1> DEFINE I == Issued(client, token)
<1>1. PICK c \in Nat, o \in Nat, m \in Nat, n \in Nat :
        /\ c = InChannel(client, token) /\ o = InState(client, token)
        /\ m = InMailbox(client, token) /\ n = next_token[client]
  BY CountsAre, Zenon DEF Sound
<1>2. IsFiniteSet(OwnedIds')
  BY OwnedFinite
<1>3. PICK x \in Nat, y \in Nat, z \in Nat, w \in Nat :
        /\ x = InChannel(client, token)' /\ y = InState(client, token)'
        /\ z = InMailbox(client, token)' /\ w = next_token'[client]
  BY <1>2, CountsAreNext, Zenon DEF Sound
<1>4. ended' = None /\ error' = None /\ (Roomy' => Roomy)
  BY RoomyBefore DEF Running
<1>5. /\ c + o + m <= IF token <= n THEN 1 ELSE 0
      /\ Roomy' => c + o + m = IF token <= n THEN 1 ELSE 0
  BY <1>1, <1>4, Zenon DEF PlacesRight
<1>6. \E d \in {0, 1} :
         \/ x = c /\ y <= o /\ z = m /\ w = n /\ (Roomy' => y = o)
         \/ x = c + d /\ y <= o /\ z = m /\ w = n + 1 /\ (Roomy' => y = o) /\ (d = 1 <=> token = n + 1)
         \/ c = x + d /\ y <= o + d /\ z = m /\ w = n /\ (Roomy' => y = o + d)
         \/ x = c /\ o = y + d /\ z = m + d /\ w = n
  <2>1. \/ x = c /\ w = n /\ ~TakeCommand
        \/ w = n + 1 /\ x = c + (IF token = n + 1 THEN 1 ELSE 0) /\ User
        \/ TakeCommand /\ w = n /\ c = x + IF Head(commands) \in I THEN 1 ELSE 0
    BY <1>1, <1>3, ChannelCount
  <2>2. ASSUME ~TakeCommand, OwnedIds' \subseteq OwnedIds, \A op : ~Finishes(op),
               Roomy' => OwnedIds' = OwnedIds
        PROVE  z = m /\ y <= o /\ (Roomy' => y = o)
    <3>1. Quiet
      BY <1>4, <2>2, Tells
    <3>2. z = m
      BY <1>1, <1>3, <3>1, MailboxCount
    <3>3. y = Cardinality(OwnedIds' \cap I) /\ o = Cardinality(OwnedIds \cap I)
      BY <1>1, <1>3 DEF InState, Issued
    <3>4. y <= o
      BY <2>2, <3>3, OwnedPart
    <3> QED BY <2>2, <3>2, <3>3, <3>4
  <2>3. ASSUME TakeCommand, Head(commands) \in OpId \ OwnedIds, Quiet,
               OwnedIds' \subseteq OwnedIds \cup {Head(commands)},
               Roomy' => OwnedIds' = OwnedIds \cup {Head(commands)}
        PROVE  /\ z = m
               /\ LET d == IF Head(commands) \in I THEN 1 ELSE 0
                  IN  y <= o + d /\ (Roomy' => y = o + d)
    <3>1. z = m
      BY <1>1, <1>3, <2>3, MailboxCount
    <3>2. y = Cardinality(OwnedIds' \cap I) /\ o = Cardinality(OwnedIds \cap I)
      BY <1>1, <1>3 DEF InState, Issued
    <3>3. y <= o + IF Head(commands) \in I THEN 1 ELSE 0
      <4>1. PICK more : more = OwnedIds \cup {Head(commands)}
        OBVIOUS
      <4> HIDE DEF I
      <4>2. /\ Cardinality(more \cap I) \in Nat /\ IsFiniteSet(more)
            /\ Cardinality(more \cap I) <= Cardinality(OwnedIds \cap I) + Whether(Head(commands), I)
            /\ Whether(Head(commands), I) \in {0, 1}
        BY <4>1, OwnedMore, Zenon
      <4>3. OwnedIds' \in SUBSET more
        BY <2>3, <4>1
      <4>4. y <= Cardinality(more \cap I)
        BY <3>2, <4>2, <4>3, OwnedPart
      <4>5. y <= o + Whether(Head(commands), I)
        BY <3>2, <4>2, <4>4
      <4> QED BY <4>5 DEF Whether
    <3>4. ASSUME Roomy' PROVE y = o + IF Head(commands) \in I THEN 1 ELSE 0
      <4>1. OwnedIds' = OwnedIds \cup {Head(commands)} /\ Head(commands) \notin OwnedIds
        BY <2>3, <3>4
      <4>2. Cardinality((OwnedIds \cup {Head(commands)}) \cap I) =
              Cardinality(OwnedIds \cap I) + Whether(Head(commands), I)
        <5> HIDE DEF I
        <5>1. PICK hd, more, owned : hd = Head(commands) /\ owned = OwnedIds /\ more = owned \cup {hd}
          OBVIOUS
        <5>2. IsFiniteSet(owned) /\ hd \notin owned
          BY <4>1, <5>1
        <5>3. Cardinality((owned \cup {hd}) \cap I) = Cardinality(owned \cap I) + Whether(hd, I)
          BY <5>2, OwnedNew, Zenon
        <5> QED BY <5>1, <5>3
      <4> QED BY <3>2, <4>1, <4>2 DEF Whether
    <3> QED BY <3>1, <3>3, <3>4
  <2>4. ASSUME NEW op, Finishes(op), op.id \in OwnedIds, OwnedIds' = OwnedIds \ {op.id}, ~TakeCommand
        PROVE  /\ z = m + IF op.id \in I THEN 1 ELSE 0
               /\ o = y + IF op.id \in I THEN 1 ELSE 0
               /\ ~User
    <3>1. z = m + IF op.id \in I THEN 1 ELSE 0
      BY <1>1, <1>3, <2>4, MailboxCount
    <3>2. y = Cardinality(OwnedIds' \cap I) /\ o = Cardinality(OwnedIds \cap I)
      BY <1>1, <1>3 DEF InState, Issued
    <3>3. o = y + IF op.id \in I THEN 1 ELSE 0
      <4>1. Cardinality(OwnedIds \cap I) =
              Cardinality((OwnedIds \ {op.id}) \cap I) + Whether(op.id, I)
        <5> HIDE DEF I
        <5> QED BY <2>4, OwnedLess, Zenon
      <4> QED BY <2>4, <3>2, <4>1 DEF Whether
    <3>4. ~User
      <4>1. UNCHANGED <<network>> => UNCHANGED to_runtime
        BY DEF network
      <4>2. to_runtime # <<>> /\ to_runtime' = Tail(to_runtime) /\ to_runtime \in Seq(FromBroker)
        BY <2>4, AckDoes DEF Finishes, Sound, Typed
      <4>3. to_runtime' # to_runtime
        BY <4>2
      <4> QED BY <4>1, <4>3 DEF User
    <3> QED BY <3>1, <3>3, <3>4
  <2>5. \/ /\ ~TakeCommand /\ OwnedIds' \subseteq OwnedIds
           /\ \A op : ~Finishes(op)
           /\ Roomy' => OwnedIds' = OwnedIds
        \/ /\ TakeCommand /\ Head(commands) \in OpId \ OwnedIds /\ Quiet
           /\ OwnedIds' \subseteq OwnedIds \cup {Head(commands)}
           /\ Roomy' => OwnedIds' = OwnedIds \cup {Head(commands)}
        \/ \E op : Finishes(op) /\ op.id \in OwnedIds /\ OwnedIds' = OwnedIds \ {op.id} /\ ~TakeCommand
    BY <1>4, OwnedMove
  <2>6. CASE /\ ~TakeCommand /\ OwnedIds' \subseteq OwnedIds
             /\ \A op : ~Finishes(op)
             /\ Roomy' => OwnedIds' = OwnedIds
    <3>1. z = m /\ y <= o /\ (Roomy' => y = o)
      BY <2>2, <2>6
    <3>2. \E d \in {0, 1} : \/ x = c /\ w = n
                            \/ w = n + 1 /\ x = c + d /\ (d = 1 <=> token = n + 1)
      BY <2>1, <2>6
    <3> QED BY <3>1, <3>2
  <2>7. CASE /\ TakeCommand /\ Head(commands) \in OpId \ OwnedIds /\ Quiet
             /\ OwnedIds' \subseteq OwnedIds \cup {Head(commands)}
             /\ Roomy' => OwnedIds' = OwnedIds \cup {Head(commands)}
    <3>1. PICK d \in {0, 1} : /\ d = IF Head(commands) \in I THEN 1 ELSE 0
                              /\ z = m /\ y <= o + d /\ (Roomy' => y = o + d)
      BY <2>3, <2>7
    <3>2. UNCHANGED next_token
      BY <2>7 DEF TakeCommand, handles
    <3>3. w = n /\ w # n + 1
      BY <1>1, <1>3, <3>2
    <3>4. c = x + d
      BY <2>1, <2>7, <3>1, <3>3
    <3> QED BY <3>1, <3>3, <3>4
  <2>8. ASSUME NEW op, Finishes(op), op.id \in OwnedIds, OwnedIds' = OwnedIds \ {op.id}, ~TakeCommand
        PROVE  \E d \in {0, 1} : x = c /\ o = y + d /\ z = m + d /\ w = n
    <3>1. PICK d \in {0, 1} : z = m + d /\ o = y + d /\ ~User
      BY <2>4, <2>8
    <3> QED BY <2>1, <2>8, <3>1
  <2> QED BY <2>5, <2>6, <2>7, <2>8
<1>7. PICK roomy \in BOOLEAN : roomy <=> Roomy'
  OBVIOUS
<1>8. token \in Nat \ {0}
  BY Bounds
<1>9. /\ x + y + z <= IF token <= w THEN 1 ELSE 0
      /\ roomy => x + y + z = IF token <= w THEN 1 ELSE 0
  BY <1>5, <1>6, <1>7, <1>8, SumStep
<1> QED BY <1>3, <1>7, <1>9, Zenon DEF PlacesRight

LEMMA InPlaceStep ==
  ASSUME Sound, Sound', Orderly, InPlace, [ClientsNext]_allVars
  PROVE  InPlace'
<1>1. IsFiniteSet(OwnedIds')
  BY OwnedFinite DEF InPlace
<1>2. ASSUME Running', NEW client \in Client
      PROVE  OwnOnly(client)' /\ \A token \in 1 .. MaxCommands : PlacesRight(client, token)'
  <2>1. Running /\ IsFiniteSet(OwnedIds) /\ ended' = None
    BY <1>2, RunningBefore DEF InPlace, Running
  <2>2. OwnOnly(client) /\ \A token \in 1 .. MaxCommands : PlacesRight(client, token)
    BY <2>1 DEF InPlace
  <2> QED BY <1>2, <2>1, <2>2, OwnStep, PlacesStep
<1> QED BY <1>1, <1>2 DEF InPlace

(***************************************************************************)
(* A command is never in two places and never completed twice, nor for a   *)
(* client that did not issue it.  And with a window as wide as the number  *)
(* of commands and a pool that was not reset, none is lost: whatever the   *)
(* other clients do, over timeouts and replaced connections, commands that *)
(* were sent again and acknowledgements that came twice.                   *)
(***************************************************************************)
THEOREM CommandsKept == ClientsSpec => []CompletedOnce
<1>1. Sound /\ InPlace => CompletedOnce
  BY InPlaceIs DEF Sound
<1>2. Sound /\ Sound' /\ Orderly /\ InPlace /\ [ClientsNext]_allVars => InPlace'
  BY InPlaceStep
<1> QED BY <1>1, <1>2, InPlaceStart, AlwaysOrderly, PTL DEF ClientsSpec

-----------------------------------------------------------------------------
(***************************************************************************)
(* Routes that the broker does not back.  For a filter that was never      *)
(* granted there is neither a route nor a SUBACK on its way.  After an     *)
(* UNSUBSCRIBE of a client's own, every SUBACK still on its way to it is   *)
(* followed by an UNSUBACK, and a route that it has is about to go.        *)
(***************************************************************************)
SubAckOf(i, client, filter) ==
  /\ to_runtime[i].type = "suback"
  /\ to_runtime[i].of.client = client /\ to_runtime[i].of.filter = filter

UnsubAckOf(i, client, filter) ==
  /\ to_runtime[i].type = "unsuback"
  /\ to_runtime[i].of.client = client /\ to_runtime[i].of.filter = filter

Never(filter) == filter \notin granted /\ withdrawn[filter].why = "never"

Gone(client, filter) ==
  /\ filter \notin granted
  /\ withdrawn[filter].why = "unsubscribed" /\ withdrawn[filter].by = client

Backed(client, filter) ==
  /\ Never(filter) => /\ ~HasRoute(entries, client, filter)
                      /\ \A i \in DOMAIN to_runtime : ~SubAckOf(i, client, filter)
  /\ Gone(client, filter) =>
       \A i \in DOMAIN to_runtime :
         SubAckOf(i, client, filter) =>
           \E j \in DOMAIN to_runtime : j > i /\ UnsubAckOf(j, client, filter)
  /\ Gone(client, filter) /\ HasRoute(entries, client, filter) => Unsubscribing(client, filter)

Excused == mistaken \/ ~Running \/ (timeouts > 0 /\ drops > 0)

RoutesHeld == Excused \/ \A client \in Client, filter \in Filter : Backed(client, filter)

LEMMA RoutesHeldStart == ClientsInit => RoutesHeld
<1> SUFFICES ASSUME ClientsInit, NEW client \in Client, NEW filter \in Filter
             PROVE  Backed(client, filter)
  BY DEF RoutesHeld
<1>1. entries = <<>> /\ to_runtime = <<>>
  BY DEF ClientsInit
<1>2. ~HasRoute(entries, client, filter)
  BY <1>1 DEF HasRoute
<1> QED BY <1>1, <1>2 DEF Backed

\* Two ways for an UNSUBSCRIBE to be on its way.
LEMMA UnsubscribingIs ==
  ASSUME Sound, Kinds, NEW client, NEW filter
  PROVE  /\ Unsubscribing(client, filter) <=>
              \/ \E command \in submitted :
                   /\ command.client = client /\ command.kind = "unsubscribe" /\ command.filter = filter
                   /\ finished[command] = 0
              \/ \E i \in DOMAIN to_runtime : UnsubAckOf(i, client, filter)
         /\ \A i \in DOMAIN to_runtime : UnsubAckOf(i, client, filter) => to_runtime[i].of.kind = "unsubscribe"
<1>1. ASSUME NEW i \in DOMAIN to_runtime, to_runtime[i].type = "unsuback"
      PROVE  to_runtime[i].of.kind = "unsubscribe"
  <2>1. to_runtime[i] \in Acks
    BY <1>1 DEF Acks, ToSet
  <2>2. to_runtime[i] \in FromBroker
    BY DEF Sound, Typed
  <2>3. to_runtime[i].of \in OpId
    BY <1>1, <2>2 DEF FromBroker
  <2> QED BY <1>1, <2>1, <2>3, CommandParts, KindParts DEF Kinds
<1> QED BY <1>1 DEF Unsubscribing, UnsubAckOf

\* While an UNSUBSCRIBE is unfinished or its UNSUBACK is there, it stays so.
LEMMA UnsubscribingKept ==
  ASSUME Sound, Sound', Kinds, Kinds', NEW client, NEW filter, Unsubscribing(client, filter),
         submitted \subseteq submitted',
         \A command \in submitted :
           command.client = client /\ command.filter = filter => finished'[command] = finished[command],
         \A i \in DOMAIN to_runtime : UnsubAckOf(i, client, filter) =>
           \E j \in DOMAIN to_runtime' : to_runtime'[j] = to_runtime[i]
  PROVE  Unsubscribing(client, filter)'
<1>1. CASE \E command \in submitted :
             /\ command.client = client /\ command.kind = "unsubscribe" /\ command.filter = filter
             /\ finished[command] = 0
  BY <1>1 DEF Unsubscribing
<1>2. CASE \E i \in DOMAIN to_runtime : UnsubAckOf(i, client, filter)
  <2>1. PICK i \in DOMAIN to_runtime : UnsubAckOf(i, client, filter)
    BY <1>2
  <2>2. PICK j \in DOMAIN to_runtime' : to_runtime'[j] = to_runtime[i]
    BY <2>1
  <2>3. to_runtime[i].of.kind = "unsubscribe"
    BY <2>1, UnsubscribingIs
  <2> QED BY <2>1, <2>2, <2>3 DEF Unsubscribing, UnsubAckOf
<1> QED BY <1>1, <1>2, UnsubscribingIs

\* A step that neither changes routes nor what the broker has, and puts no SUBACK on its way.
LEMMA BackedUnchanged ==
  ASSUME Sound, Sound', Kinds, Kinds', NEW client, NEW filter, Backed(client, filter),
         UNCHANGED <<granted, withdrawn, entries, to_runtime, finished>>, submitted \subseteq submitted'
  PROVE  Backed(client, filter)'
<1>1. UNCHANGED <<Never(filter), Gone(client, filter)>>
  BY DEF Never, Gone
<1>2. \A i \in DOMAIN to_runtime : /\ SubAckOf(i, client, filter)' <=> SubAckOf(i, client, filter)
                                   /\ UnsubAckOf(i, client, filter)' <=> UnsubAckOf(i, client, filter)
  BY DEF SubAckOf, UnsubAckOf
<1>3. Unsubscribing(client, filter) => Unsubscribing(client, filter)'
  BY UnsubscribingKept
<1> QED BY <1>1, <1>2, <1>3 DEF Backed

\* The broker puts something on its way, and has the filter or not as before.
LEMMA BackedAppend ==
  ASSUME Sound, Sound', Kinds, Kinds', NEW client, NEW filter, Backed(client, filter),
         UNCHANGED <<entries, finished, submitted>>,
         NEW packet \in FromBroker, to_runtime' = Append(to_runtime, packet),
         Never(filter)' => Never(filter), Gone(client, filter)' => Gone(client, filter),
         packet.type = "suback" => packet.of.filter # filter \/ filter \in granted' 
                                     \/ withdrawn'[filter].why = "refused"
  PROVE  Backed(client, filter)'
<1>0. /\ DOMAIN to_runtime' = DOMAIN to_runtime \cup {Len(to_runtime) + 1}
      /\ to_runtime'[Len(to_runtime) + 1] = packet
      /\ \A i \in DOMAIN to_runtime : to_runtime'[i] = to_runtime[i]
  BY DEF Sound, Typed
<1>1. \A i \in DOMAIN to_runtime : /\ SubAckOf(i, client, filter)' <=> SubAckOf(i, client, filter)
                                   /\ UnsubAckOf(i, client, filter)' <=> UnsubAckOf(i, client, filter)
  BY <1>0 DEF SubAckOf, UnsubAckOf
<1>2. ASSUME Never(filter)' \/ Gone(client, filter)'
      PROVE  \A i \in DOMAIN to_runtime' : SubAckOf(i, client, filter)' => i \in DOMAIN to_runtime
  BY <1>0, <1>2 DEF SubAckOf, Never, Gone
<1>3. Unsubscribing(client, filter) => Unsubscribing(client, filter)'
  BY <1>0, UnsubscribingKept
<1>4. Never(filter)' => /\ ~HasRoute(entries', client, filter)
                        /\ \A i \in DOMAIN to_runtime' : ~(SubAckOf(i, client, filter)')
  BY <1>1, <1>2 DEF Backed
<1>5. Gone(client, filter)' =>
        \A i \in DOMAIN to_runtime' :
          SubAckOf(i, client, filter)' =>
            \E j \in DOMAIN to_runtime' : j > i /\ UnsubAckOf(j, client, filter)'
  BY <1>0, <1>1, <1>2 DEF Backed
<1>6. Gone(client, filter)' /\ HasRoute(entries', client, filter) => Unsubscribing(client, filter)'
  BY <1>3 DEF Backed
<1> QED BY <1>4, <1>5, <1>6 DEF Backed

\* The runtime takes what comes first.
LEMMA BackedTail ==
  ASSUME Sound, Sound', Kinds, Kinds', NEW client, NEW filter, Backed(client, filter),
         UNCHANGED <<granted, withdrawn>>, submitted \subseteq submitted',
         to_runtime # <<>>, to_runtime' = Tail(to_runtime),
         HasRoute(entries', client, filter) =>
           HasRoute(entries, client, filter) \/ SubAckOf(1, client, filter),
         UnsubAckOf(1, client, filter) => ~HasRoute(entries', client, filter),
         UnsubAckOf(1, client, filter) \/
           \A command \in submitted :
             /\ command.client = client /\ command.filter = filter /\ command.kind = "unsubscribe"
             => finished'[command] = finished[command]
  PROVE  Backed(client, filter)'
<1>01. to_runtime \in Seq(FromBroker) /\ DOMAIN to_runtime = 1 .. Len(to_runtime) /\ Len(to_runtime) \in Nat
  BY DEF Sound, Typed
<1>02. Len(to_runtime) # 0
  BY <1>01
<1>03. /\ DOMAIN to_runtime' = 1 .. (Len(to_runtime) - 1)
       /\ \A i \in DOMAIN to_runtime' : to_runtime'[i] = to_runtime[i + 1]
  BY <1>01, <1>02
<1>0. /\ \A i \in DOMAIN to_runtime' : i + 1 \in DOMAIN to_runtime /\ to_runtime'[i] = to_runtime[i + 1]
      /\ \A i \in DOMAIN to_runtime : i # 1 => i - 1 \in DOMAIN to_runtime' /\ to_runtime'[i - 1] = to_runtime[i]
      /\ 1 \in DOMAIN to_runtime
      /\ \A i \in DOMAIN to_runtime' : i \in Nat
      /\ \A i \in DOMAIN to_runtime : i \in Nat \ {0}
  <2>1. \A i \in DOMAIN to_runtime' : i + 1 \in DOMAIN to_runtime /\ i \in Nat
    BY <1>01, <1>03
  <2>2. \A i \in DOMAIN to_runtime : i \in Nat \ {0} /\ (i # 1 => i - 1 \in DOMAIN to_runtime' /\ (i - 1) + 1 = i)
    BY <1>01, <1>03
  <2>3. 1 \in DOMAIN to_runtime
    BY <1>01, <1>02
  <2> QED BY <2>1, <2>2, <2>3, <1>03
<1>1. \A i \in DOMAIN to_runtime' : /\ SubAckOf(i, client, filter)' <=> SubAckOf(i + 1, client, filter)
                                    /\ UnsubAckOf(i, client, filter)' <=> UnsubAckOf(i + 1, client, filter)
  BY <1>0 DEF SubAckOf, UnsubAckOf
<1>2. UNCHANGED <<Never(filter), Gone(client, filter)>>
  BY DEF Never, Gone
<1>3. \A i \in DOMAIN to_runtime : UnsubAckOf(i, client, filter) /\ i # 1 => Unsubscribing(client, filter)'
  <2> SUFFICES ASSUME NEW i \in DOMAIN to_runtime, UnsubAckOf(i, client, filter), i # 1
               PROVE  Unsubscribing(client, filter)'
    OBVIOUS
  <2>1. to_runtime[i].of.kind = "unsubscribe"
    BY UnsubscribingIs
  <2>2. i - 1 \in DOMAIN to_runtime' /\ to_runtime'[i - 1] = to_runtime[i]
    BY <1>0
  <2> QED BY <2>1, <2>2 DEF Unsubscribing, UnsubAckOf
<1>4. Never(filter)' => /\ ~HasRoute(entries', client, filter)
                        /\ \A i \in DOMAIN to_runtime' : ~(SubAckOf(i, client, filter)')
  BY <1>0, <1>1, <1>2 DEF Backed
<1>5. ASSUME Gone(client, filter)', NEW i \in DOMAIN to_runtime', SubAckOf(i, client, filter)'
      PROVE  \E j \in DOMAIN to_runtime' : j > i /\ UnsubAckOf(j, client, filter)'
  <2>1. PICK k \in DOMAIN to_runtime : k > i + 1 /\ UnsubAckOf(k, client, filter)
    BY <1>0, <1>1, <1>2, <1>5 DEF Backed
  <2>2. k - 1 \in DOMAIN to_runtime' /\ k - 1 > i /\ (k - 1) + 1 = k
    BY <1>0, <2>1
  <2> QED BY <1>1, <2>1, <2>2
<1>6. ASSUME Gone(client, filter)', HasRoute(entries', client, filter)
      PROVE  Unsubscribing(client, filter)'
  <2>1. CASE SubAckOf(1, client, filter)
    <3>1. PICK k \in DOMAIN to_runtime : k > 1 /\ UnsubAckOf(k, client, filter)
      BY <1>0, <1>2, <1>6, <2>1 DEF Backed
    <3> QED BY <1>0, <1>3, <3>1
  <2>2. CASE HasRoute(entries, client, filter)
    <3>1. Unsubscribing(client, filter)
      BY <1>2, <1>6, <2>2 DEF Backed
    <3>2. CASE \E i \in DOMAIN to_runtime : UnsubAckOf(i, client, filter)
      BY <1>3, <1>6, <3>2
    <3>3. CASE \E command \in submitted :
             /\ command.client = client /\ command.kind = "unsubscribe" /\ command.filter = filter
             /\ finished[command] = 0
      BY <1>6, <3>3 DEF Unsubscribing
    <3> QED BY <3>1, <3>2, <3>3, UnsubscribingIs
  <2> QED BY <1>6, <2>1, <2>2
<1> QED BY <1>4, <1>5, <1>6 DEF Backed

\* What the broker's answers do to what is granted.
LEMMA BackedAnswer ==
  ASSUME Sound, Sound', Kinds, Kinds', NEW client, NEW filter, Backed(client, filter),
         filter \in Filter, Answer
  PROVE  Backed(client, filter)'
<1>0. UNCHANGED <<entries, finished, submitted>>
  BY DEF Answer, Grant, Refuse, Withdraw, Reads, vars, history, task
<1>1. CASE Grant
  <2>1. Reads("subscribe", "suback") /\ granted' = granted \cup {ReadFilter} /\ UNCHANGED withdrawn
    BY <1>1 DEF Grant
  <2>2. PICK ack \in FromBroker : ack.of = Packet.id /\ to_runtime' = Append(to_runtime, ack)
    BY <2>1, AnswerDoes
  <2>3. Never(filter)' => Never(filter)
    BY <2>1 DEF Never
  <2>4. Gone(client, filter)' => Gone(client, filter)
    BY <2>1 DEF Gone
  <2>5. ack.of.filter # filter \/ filter \in granted'
    BY <2>1, <2>2 DEF ReadFilter
  <2> QED BY <1>0, <2>2, <2>3, <2>4, <2>5, BackedAppend
<1>2. CASE Refuse
  <2>1. /\ Reads("subscribe", "suback") /\ ReadFilter \notin granted /\ UNCHANGED granted
        /\ withdrawn' = [withdrawn EXCEPT ![ReadFilter] = By("refused", Packet.id.client)]
    BY <1>2 DEF Refuse
  <2>2. PICK ack \in FromBroker : ack.of = Packet.id /\ to_runtime' = Append(to_runtime, ack)
    BY <2>1, AnswerDoes
  <2>3. withdrawn \in [Filter -> Withdrawal]
    BY DEF Sound, Typed
  <2>4. withdrawn'[filter].why = "refused" \/ withdrawn'[filter] = withdrawn[filter]
    BY <2>1, <2>3 DEF By
  <2>5. Never(filter)' => Never(filter)
    BY <2>1, <2>4 DEF Never
  <2>6. Gone(client, filter)' => Gone(client, filter)
    BY <2>1, <2>4 DEF Gone
  <2>7. ack.of.filter # filter \/ withdrawn'[filter].why = "refused"
    BY <2>1, <2>2, <2>3 DEF ReadFilter, By
  <2> QED BY <1>0, <2>2, <2>5, <2>6, <2>7, BackedAppend
<1>3. CASE Withdraw
  <2>1. /\ Reads("unsubscribe", "unsuback") /\ granted' = granted \ {ReadFilter}
        /\ withdrawn' = IF ReadFilter \in granted
                          THEN [withdrawn EXCEPT ![ReadFilter] = By("unsubscribed", Packet.id.client)]
                          ELSE withdrawn
    BY <1>3 DEF Withdraw
  <2>2. PICK ack \in FromBroker : /\ ack.of = Packet.id /\ ack.type = "unsuback"
                                  /\ to_runtime' = Append(to_runtime, ack)
    BY <2>1, AnswerDoes
  <2>3. withdrawn \in [Filter -> Withdrawal]
    BY DEF Sound, Typed
  <2>4. CASE ReadFilter = filter /\ filter \in granted
    <3>1. withdrawn'[filter] = By("unsubscribed", Packet.id.client)
      BY <2>1, <2>3, <2>4
    <3>2. ~Never(filter)'
      BY <3>1 DEF Never, By
    <3>3. CASE Packet.id.client # client
      <4>1. ~Gone(client, filter)'
        BY <3>1, <3>3 DEF Gone, By
      <4> QED BY <3>2, <4>1 DEF Backed
    <3>4. CASE Packet.id.client = client
      <4>1. to_runtime \in Seq(FromBroker)
        BY DEF Sound, Typed
      <4>0. PICK n : n = Len(to_runtime) + 1
        OBVIOUS
      <4>2. /\ n \in DOMAIN to_runtime' /\ to_runtime'[n] = ack
            /\ \A i \in DOMAIN to_runtime' : i = n \/ i < n
        BY <2>2, <4>0, <4>1
      <4>3. UnsubAckOf(n, client, filter)'
        BY <2>2, <2>4, <3>4, <4>2 DEF UnsubAckOf, ReadFilter
      <4>4. ~(SubAckOf(n, client, filter)')
        BY <2>2, <4>2 DEF SubAckOf
      <4>5. \A i \in DOMAIN to_runtime' : SubAckOf(i, client, filter)' =>
              \E j \in DOMAIN to_runtime' : j > i /\ UnsubAckOf(j, client, filter)'
        BY <4>2, <4>3, <4>4
      <4>6. to_runtime'[n].of.kind = "unsubscribe"
        <5>1. Packet.packet = "unsubscribe" /\ Packet \in ToSet(to_broker)
          BY <2>1, AnswerDoes
        <5> QED BY <2>2, <4>2, <5>1 DEF Kinds
      <4>7. Unsubscribing(client, filter)'
        BY <4>2, <4>3, <4>6 DEF Unsubscribing, UnsubAckOf
      <4> QED BY <3>2, <4>5, <4>7 DEF Backed
    <3> QED BY <3>3, <3>4
  <2>5. CASE ~(ReadFilter = filter /\ filter \in granted)
    <3>1. withdrawn'[filter] = withdrawn[filter] /\ (filter \in granted' <=> filter \in granted)
      BY <2>1, <2>3, <2>5
    <3>2. (Never(filter)' => Never(filter)) /\ (Gone(client, filter)' => Gone(client, filter))
      BY <3>1 DEF Never, Gone
    <3> QED BY <1>0, <2>2, <3>2, BackedAppend
  <2> QED BY <2>4, <2>5
<1> QED BY <1>1, <1>2, <1>3 DEF Answer

\* What an acknowledgement that was meant for its command does to the routes.
LEMMA BackedAcknowledged ==
  ASSUME Sound, Sound', Causes, Kinds', NEW client \in Client, NEW filter \in Filter,
         Backed(client, filter), Acknowledged, ~Excused'
  PROVE  Backed(client, filter)'
<1>1. PICK ack \in FromBroker, op \in Operation :
        /\ to_runtime # <<>> /\ ack = Head(to_runtime) /\ to_runtime' = Tail(to_runtime)
        /\ ack.type \in {"suback", "unsuback"}
        /\ ack.pkid \in Occupied /\ op = outgoing[ack.pkid]
        /\ UNCHANGED submitted /\ UNCHANGED broker
        /\ \/ /\ Answers(ack, op) /\ Completes(op)
              /\ finished' = [finished EXCEPT ![op.id] = @ + 1]
              /\ mistaken' = (mistaken \/ op.id # ack.of)
           \/ error' = "InvalidCommand"
  BY AckDoes
<1>2. error' = None /\ ~mistaken'
  BY DEF Excused, Running
<1>3. error' # "InvalidCommand"
  BY <1>2, NoneAssumption DEF Error
<1>4. /\ Answers(ack, op) /\ Completes(op) /\ op.id = ack.of
      /\ finished' = [finished EXCEPT ![op.id] = @ + 1]
  BY <1>1, <1>2, <1>3
<1>5. op \in Ops /\ op.kind = op.id.kind
  BY <1>1, InOps DEF Causes, Kinds
<1>6. PICK c \in Client, f \in Filter : c = op.id.client /\ f = op.id.filter
  BY OpParts, CommandParts
<1>7. op.id \in OpId /\ op.kind \in {"subscribe", "unsubscribe"}
  BY OpParts, KindParts
<1>8. to_runtime[1] = ack
  BY <1>1
<1>9. finished \in [OpId -> Nat] /\ submitted \subseteq OpId
  BY DEF Sound, OwnerInv, StoreInv, TypeOK
<1>10. \A command \in submitted : command # op.id => finished'[command] = finished[command]
  BY <1>4, <1>9
<1>11. Table(entries)
  BY DEF Sound, Typed
<1>12. HasRoute(entries', client, filter) <=>
         IF c = client /\ f = filter THEN op.kind = "subscribe" ELSE HasRoute(entries, client, filter)
  <2>1. CASE op.kind = "subscribe"
    <3>1. entries' = AddSubscription(entries, c, f)
      BY <1>4, <1>6, <2>1 DEF Completes
    <3> QED BY <1>11, <2>1, <3>1, RouteAdded
  <2>2. CASE op.kind # "subscribe"
    <3>1. entries' = RemoveSubscription(entries, c, f)
      BY <1>4, <1>6, <2>2 DEF Completes
    <3> QED BY <1>11, <2>2, <3>1, RouteRemoved
  <2> QED BY <2>1, <2>2
<1>13. HasRoute(entries', client, filter) => HasRoute(entries, client, filter) \/ SubAckOf(1, client, filter)
  BY <1>4, <1>6, <1>8, <1>12 DEF SubAckOf, Answers
<1>14. UnsubAckOf(1, client, filter) => ~HasRoute(entries', client, filter)
  BY <1>4, <1>6, <1>8, <1>12 DEF UnsubAckOf, Answers
<1>15. UnsubAckOf(1, client, filter) \/
         \A command \in submitted :
           /\ command.client = client /\ command.filter = filter /\ command.kind = "unsubscribe"
           => finished'[command] = finished[command]
  <2>1. CASE c = client /\ f = filter /\ op.kind = "unsubscribe"
    BY <1>1, <1>4, <1>6, <1>8, <2>1 DEF UnsubAckOf, Answers
  <2> QED BY <1>5, <1>6, <1>7, <1>10, <2>1
<1>16. UNCHANGED <<granted, withdrawn>> /\ submitted \subseteq submitted'
  BY <1>1 DEF broker
<1> HIDE DEF Backed, Unsubscribing
<1> QED BY <1>1, <1>13, <1>14, <1>15, <1>16, BackedTail DEF Causes

\* A connection that is given up takes what was on its way, but not a timeout before it.
LEMMA BackedReplace ==
  ASSUME Sound, Sound', Causes, Kinds', NEW client \in Client, NEW filter \in Filter,
         Backed(client, filter), Replace, ~Excused'
  PROVE  Backed(client, filter)'
<1>1. /\ to_runtime' = <<>> /\ UNCHANGED <<entries, submitted, finished, timeouts>>
      /\ granted' \subseteq granted /\ drops' = drops + 1
      /\ withdrawn' = [g \in Filter |-> IF g \in granted \ granted' THEN By("forgotten", 0)
                                                                   ELSE withdrawn[g]]
  BY LossDoes DEF Replace, task
<1>2. withdrawn'[filter] = withdrawn[filter] \/ withdrawn'[filter] = By("forgotten", 0)
  BY <1>1
<1>3. withdrawn'[filter] = By("forgotten", 0) => ~Never(filter)' /\ ~Gone(client, filter)'
  BY DEF Never, Gone, By
<1>4. filter \in granted /\ filter \notin granted' => withdrawn'[filter] = By("forgotten", 0)
  BY <1>1
<1>5. (Never(filter)' => Never(filter)) /\ (Gone(client, filter)' => Gone(client, filter))
  BY <1>2, <1>3, <1>4 DEF Never, Gone
<1>6. DOMAIN to_runtime' = {}
  BY <1>1
<1>7. timeouts = 0
  <2>1. timeouts \in Nat /\ drops \in Nat
    BY Bounds DEF Sound, Typed
  <2> QED BY <1>1, <2>1 DEF Excused
<1>8. ASSUME Unsubscribing(client, filter) PROVE Unsubscribing(client, filter)'
  <2>1. CASE \E command \in submitted :
               /\ command.client = client /\ command.kind = "unsubscribe" /\ command.filter = filter
               /\ finished[command] = 0
    BY <1>1, <2>1 DEF Unsubscribing
  <2>2. CASE \E i \in DOMAIN to_runtime : UnsubAckOf(i, client, filter)
    <3>1. PICK i \in DOMAIN to_runtime : UnsubAckOf(i, client, filter)
      BY <2>2
    <3>2. Fitting
      BY <1>7 DEF Causes, Calm
    <3>3. Fits(to_runtime[i].pkid, to_runtime[i].of)
      BY <3>1, <3>2 DEF Fitting, IsAck, UnsubAckOf
    <3>4. PICK op \in Ops : op.id = to_runtime[i].of
      BY <3>3, InOps DEF Fits
    <3>5. op.id \in OwnedIds
      BY <3>4, OpsOwned
    <3>6. op.id \in submitted /\ finished[op.id] = 0
      <4>1. /\ TypeOK /\ FinishedOnce /\ OwnedIds \subseteq submitted
        BY DEF Sound, OwnerInv, StoreInv
      <4>2. submitted \subseteq OpId
        BY <4>1 DEF TypeOK
      <4> QED BY <3>5, <4>1, <4>2, NotFinished
    <3>7. to_runtime[i].of.kind = "unsubscribe"
      BY <3>1, UnsubscribingIs DEF Causes
    <3> QED BY <1>1, <3>1, <3>4, <3>6, <3>7 DEF Unsubscribing, UnsubAckOf
  <2> QED BY <1>8, <2>1, <2>2, UnsubscribingIs DEF Causes
<1> QED BY <1>1, <1>5, <1>6, <1>8 DEF Backed

\* What excuses a route stays.
LEMMA ExcusedBefore ==
  ASSUME Sound, [ClientsNext]_allVars, ~Excused'
  PROVE  ~Excused /\ ended' = None
<1>1. Running' /\ ~mistaken' /\ ~(timeouts' > 0 /\ drops' > 0)
  BY DEF Excused
<1>2. Running
  BY <1>1, RunningBefore
<1>3. timeouts \in Nat /\ drops \in Nat
  BY Bounds DEF Sound, Typed
<1>4. ~mistaken
  <2>1. CASE Acknowledged
    <3>1. \/ mistaken' = mistaken
          \/ \E op, ack : mistaken' = (mistaken \/ op.id # ack.of)
      BY <2>1, AckDoes DEF task
    <3> QED BY <1>1, <3>1
  <2>2. CASE UNCHANGED mistaken
    BY <1>1, <2>2
  <2> QED BY <2>1, <2>2 DEF ClientsNext, User, Runtime, PollIncoming, TakeCommand, NotAcknowledged, Published,
         CommandChannelClosed, Restore, Resend, TellReconnected, Timeout, Replace,
         LoseConnection, Broker, Answer, Grant, Refuse, Withdraw, Reads, Publish, allVars, task
<1>5. ~(timeouts > 0 /\ drops > 0)
  <2>1. CASE Timeout
    <3>1. timeouts' = timeouts + 1 /\ drops' = drops
      BY <2>1 DEF Timeout
    <3> QED BY <1>1, <1>3, <3>1
  <2>2. CASE Replace
    <3>1. drops' = drops + 1 /\ timeouts' = timeouts
      BY <2>2 DEF Replace
    <3> QED BY <1>1, <1>3, <3>1
  <2>3. CASE UNCHANGED <<timeouts, drops>>
    BY <1>1, <2>3
  <2> QED BY <2>1, <2>2, <2>3 DEF ClientsNext, User, Runtime, PollIncoming, TakeCommand, Acknowledged,
         NotAcknowledged, Published, Receive, CommandChannelClosed, Restore, Resend, TellReconnected,
         Broker, Answer, Grant, Refuse, Withdraw, Reads, Publish, allVars, losses
<1> QED BY <1>1, <1>2, <1>4, <1>5 DEF Excused, Running

\* Steps of which no route, no filter and no acknowledgement is part.
LEMMA BackedElsewhere ==
  ASSUME Sound, [ClientsNext]_allVars,
         ~PollIncoming, ~Replace, ~Broker
  PROVE  UNCHANGED <<granted, withdrawn, entries, to_runtime, finished>> /\ submitted \subseteq submitted'
<1>1. CASE User \/ CommandChannelClosed \/ UNCHANGED allVars
  BY <1>1 DEF User, CommandChannelClosed, allVars, vars, network, task, broker, history
<1>2. CASE TakeCommand
  BY <1>2, CommandDoes DEF task, broker
<1>3. CASE Restore
  BY <1>3, RestoreDoes DEF task, broker
<1>4. CASE Resend
  BY <1>4, ResendDoes DEF task, broker
<1>5. CASE Timeout
  <2>1. LoseConnection /\ UNCHANGED <<network, granted, withdrawn>>
    BY <1>5 DEF Timeout
  <2> QED BY <2>1, LossDoes DEF network, task
<1> QED BY <1>1, <1>2, <1>3, <1>4, <1>5 DEF ClientsNext, Runtime

LEMMA RoutesHeldStep ==
  ASSUME Sound, Sound', Causes, Causes', RoutesHeld, [ClientsNext]_allVars
  PROVE  RoutesHeld'
<1> SUFFICES ASSUME ~Excused', NEW client \in Client, NEW filter \in Filter
             PROVE  Backed(client, filter)'
  BY DEF RoutesHeld
<1>1. ~Excused /\ ended' = None
  BY ExcusedBefore
<1>2. Backed(client, filter)
  BY <1>1 DEF RoutesHeld
<1>3. Kinds /\ Kinds'
  BY DEF Causes
<1> HIDE DEF Backed
<1>4. CASE Acknowledged
  BY <1>2, <1>3, <1>4, BackedAcknowledged
<1>5. CASE NotAcknowledged
  <2>1. error' = "UnsolicitedAck"
    BY <1>5, NotAckDoes
  <2> QED BY <2>1, NoneAssumption DEF Excused, Running, Error
<1>6. CASE Published
  <2>1. /\ to_runtime # <<>> /\ to_runtime' = Tail(to_runtime) /\ Head(to_runtime).type = "publish"
        /\ UNCHANGED <<entries, granted, withdrawn, submitted, finished>>
    BY <1>6, PublishedMail DEF broker, vars, history
  <2>2. to_runtime[1].type = "publish"
    BY <2>1
  <2>3. ~UnsubAckOf(1, client, filter)
    BY <2>2 DEF UnsubAckOf
  <2> QED BY <1>2, <1>3, <2>1, <2>3, BackedTail
<1>7. CASE Replace
  BY <1>2, <1>3, <1>7, BackedReplace
<1>8. CASE Answer
  BY <1>2, <1>3, <1>8, BackedAnswer
<1>9. ASSUME NEW topic \in Topic, Publish(topic) PROVE Backed(client, filter)'
  <2>1. /\ to_runtime' = Append(to_runtime, [type |-> "publish", topic |-> topic])
        /\ UNCHANGED <<entries, granted, withdrawn, submitted, finished>>
    BY <1>9 DEF Publish, vars, history, task
  <2>2. PICK packet \in FromBroker : packet.type = "publish" /\ to_runtime' = Append(to_runtime, packet)
    BY <2>1 DEF FromBroker
  <2>3. (Never(filter)' => Never(filter)) /\ (Gone(client, filter)' => Gone(client, filter))
    BY <2>1 DEF Never, Gone
  <2> QED BY <1>2, <1>3, <2>1, <2>2, <2>3, BackedAppend
<1>10. CASE ~PollIncoming /\ ~Replace /\ ~Broker
  BY <1>2, <1>3, <1>10, BackedElsewhere, BackedUnchanged
<1> QED BY <1>4, <1>5, <1>6, <1>7, <1>8, <1>9, <1>10 DEF PollIncoming, Broker

(***************************************************************************)
(* For any number of clients, losses and commands, on any window and over  *)
(* clean and persistent sessions: the causes that RouteBacked lists are    *)
(* all there are for a route without a granted filter.                     *)
(***************************************************************************)
THEOREM RoutesBacked == ClientsSpec => []RouteBacked
<1>1. ClientsInit => RoutesHeld
  BY RoutesHeldStart
<1>2. Sound /\ Sound' /\ Causes /\ Causes' /\ RoutesHeld /\ [ClientsNext]_allVars => RoutesHeld'
  BY RoutesHeldStep
<1>3. Sound /\ Causes /\ RoutesHeld => RouteBacked
  <2> SUFFICES ASSUME Sound, RoutesHeld, NEW client \in Client, NEW filter \in Filter,
                      <<client, filter>> \in Routes(entries)
               PROVE  \/ filter \in granted
                      \/ withdrawn[filter].why \in {"refused", "forgotten"}
                      \/ withdrawn[filter].why = "unsubscribed" /\ withdrawn[filter].by # client
                      \/ Unsubscribing(client, filter)
                      \/ timeouts > 0 /\ drops > 0
                      \/ mistaken
                      \/ ~Running
    BY DEF RouteBacked
  <2>1. HasRoute(entries, client, filter)
    BY RoutesAre
  <2>2. Backed(client, filter) \/ Excused
    BY DEF RoutesHeld
  <2>3. withdrawn[filter] \in Withdrawal
    BY DEF Sound, Typed
  <2>4. withdrawn[filter].why \in {"never", "refused", "forgotten", "unsubscribed"}
    BY <2>3 DEF Withdrawal
  <2> QED BY <2>1, <2>2, <2>4 DEF Backed, Never, Gone, Excused
<1> QED BY <1>1, <1>2, <1>3, AlwaysCauses, PTL DEF ClientsSpec

-----------------------------------------------------------------------------
(***************************************************************************)
(* What a client was sent: retaining commutes with appending.              *)
(***************************************************************************)
LEMMA RetainedIn ==
  ASSUME NEW T, NEW s \in Seq(T), NEW kept \in SUBSET DOMAIN s
  PROVE  /\ Cardinality(kept) \in Nat /\ IsFiniteSet(kept)
         /\ Retain(s, kept) \in Seq(T)
         /\ Len(Retain(s, kept)) = Cardinality(kept)
         /\ \A i \in kept : /\ Rank(kept, i) \in 1 .. Cardinality(kept)
                            /\ Retain(s, kept)[Rank(kept, i)] = s[i]
         /\ \A k \in 1 .. Cardinality(kept) : \E i \in kept : Rank(kept, i) = k
<1>1. PICK place \in Bijection(1 .. Cardinality(kept), kept) :
        \A k \in 1 .. Cardinality(kept) :
          Retain(s, kept)[k] = s[place[k]] /\ Rank(kept, place[k]) = k
  BY Retained
<1>2. \A k \in 1 .. Cardinality(kept) : place[k] \in kept
  BY <1>1, Zenon DEF Bijection, Injection
<1>3. \A i \in kept : \E k \in 1 .. Cardinality(kept) : place[k] = i
  BY <1>1, Zenon DEF Bijection, Surjection
<1>4. IsFiniteSet(kept)
  BY PlacesFinite, Zenon
<1>5. /\ Cardinality(kept) \in Nat /\ Retain(s, kept) \in Seq(T)
      /\ Len(Retain(s, kept)) = Cardinality(kept)
  BY Retained, Zenon
<1>6. \A i \in kept : /\ Rank(kept, i) \in 1 .. Cardinality(kept)
                      /\ Retain(s, kept)[Rank(kept, i)] = s[i]
  <2> SUFFICES ASSUME NEW i \in kept
               PROVE  /\ Rank(kept, i) \in 1 .. Cardinality(kept)
                      /\ Retain(s, kept)[Rank(kept, i)] = s[i]
    OBVIOUS
  <2>1. PICK k \in 1 .. Cardinality(kept) : place[k] = i
    BY <1>3
  <2>2. Rank(kept, i) = k /\ Retain(s, kept)[k] = s[i]
    BY <1>1, <2>1
  <2> QED BY <2>2
<1> QED BY <1>1, <1>2, <1>4, <1>5, <1>6, Zenon

LEMMA RetainAppend ==
  ASSUME NEW T, NEW s \in Seq(T), NEW x \in T, NEW kept \in SUBSET DOMAIN s
  PROVE  /\ Retain(Append(s, x), kept) = Retain(s, kept)
         /\ Retain(Append(s, x), kept \cup {Len(s) + 1}) = Append(Retain(s, kept), x)
<1> DEFINE t == Append(s, x)
           n == Cardinality(kept)
           more == kept \cup {Len(s) + 1}
           r == Retain(s, kept)
           r1 == Retain(t, kept)
           r2 == Retain(t, more)
<1>1. /\ t \in Seq(T) /\ Len(s) \in Nat /\ DOMAIN s = 1 .. Len(s) /\ DOMAIN t = 1 .. Len(s) + 1
      /\ \A i \in DOMAIN s : t[i] = s[i]
      /\ t[Len(s) + 1] = x
  OBVIOUS
<1>2. kept \in SUBSET DOMAIN t /\ more \in SUBSET DOMAIN t /\ Len(s) + 1 \notin kept /\ Len(s) + 1 \in more
  BY <1>1
<1>3. \A i \in kept : t[i] = s[i]
  BY <1>1
<1> HIDE DEF t
<1>4. /\ n \in Nat /\ IsFiniteSet(kept) /\ r \in Seq(T) /\ Len(r) = n
      /\ \A i \in kept : Rank(kept, i) \in 1 .. n /\ r[Rank(kept, i)] = s[i]
      /\ \A k \in 1 .. n : \E i \in kept : Rank(kept, i) = k
  BY RetainedIn
<1>5. /\ r1 \in Seq(T) /\ Len(r1) = n
      /\ \A i \in kept : r1[Rank(kept, i)] = t[i]
  BY <1>1, <1>2, RetainedIn, Zenon
<1>6. /\ r2 \in Seq(T) /\ Len(r2) = Cardinality(more)
      /\ \A i \in more : r2[Rank(more, i)] = t[i]
  BY <1>1, <1>2, RetainedIn, Zenon
<1>7. Cardinality(more) = n + 1
  BY <1>2, <1>4, FS_AddElement, Zenon
<1>8. \A i \in kept : Rank(more, i) = Rank(kept, i)
  <2> SUFFICES ASSUME NEW i \in kept PROVE {j \in more : j <= i} = {j \in kept : j <= i}
    BY DEF Rank
  <2>1. i \in Nat /\ i <= Len(s) /\ ~(Len(s) + 1 <= i)
    BY <1>1
  <2> QED BY <2>1
<1>9. Rank(more, Len(s) + 1) = n + 1
  <2>1. {j \in more : j <= Len(s) + 1} = more
    BY <1>1
  <2> QED BY <2>1, <1>7 DEF Rank
<1> HIDE DEF n, more, r, r1, r2
<1>10. r1 = r
  <2>1. \A k \in 1 .. n : r1[k] = r[k]
    <3> SUFFICES ASSUME NEW k \in 1 .. n PROVE r1[k] = r[k]
      OBVIOUS
    <3>1. PICK i \in kept : Rank(kept, i) = k
      BY <1>4
    <3> QED BY <3>1, <1>3, <1>4, <1>5
  <2> QED BY <1>4, <1>5, <2>1
<1>11. r2 = Append(r, x)
  <2>1. \A k \in 1 .. n : r2[k] = r[k]
    <3> SUFFICES ASSUME NEW k \in 1 .. n PROVE r2[k] = r[k]
      OBVIOUS
    <3>1. PICK i \in kept : Rank(kept, i) = k
      BY <1>4
    <3>2. i \in more
      BY DEF more
    <3>3. Rank(more, i) = k
      BY <3>1, <1>8
    <3>4. r2[k] = t[i]
      BY <3>2, <3>3, <1>6
    <3>5. r[k] = s[i]
      BY <3>1, <1>4
    <3> QED BY <3>4, <3>5, <1>3
  <2>2. r2[n + 1] = x
    BY <1>1, <1>2, <1>6, <1>9
  <2> QED BY <1>4, <1>6, <1>7, <2>1, <2>2
<1> QED BY <1>10, <1>11 DEF r, r1, r2, t, more

InboxOf(s) ==
  LET incoming == Retain(s, {i \in DOMAIN s : s[i].event = "IncomingPublish"})
  IN  [k \in DOMAIN incoming |-> incoming[k].topic]

LEMMA InboxAppend ==
  ASSUME NEW s \in Seq(Event), NEW x \in Event
  PROVE  InboxOf(Append(s, x)) =
           IF x.event = "IncomingPublish" THEN Append(InboxOf(s), x.topic) ELSE InboxOf(s)
<1> DEFINE t == Append(s, x)
           in(u) == {i \in DOMAIN u : u[i].event = "IncomingPublish"}
           topics(u) == [k \in DOMAIN u |-> u[k].topic]
<1>1. /\ Len(s) \in Nat /\ DOMAIN s = 1 .. Len(s) /\ DOMAIN t = 1 .. Len(s) + 1
      /\ \A i \in DOMAIN s : t[i] = s[i]
      /\ t[Len(s) + 1] = x
  OBVIOUS
<1>2. in(t) = in(s) \cup IF x.event = "IncomingPublish" THEN {Len(s) + 1} ELSE {}
  <2> HIDE DEF t
  <2>1. DOMAIN t = DOMAIN s \cup {Len(s) + 1}
    BY <1>1
  <2> QED BY <2>1, <1>1
<1>3. in(s) \in SUBSET DOMAIN s
  OBVIOUS
<1>4. \A u : InboxOf(u) = topics(Retain(u, in(u)))
  BY DEF InboxOf
<1>5. Retain(s, in(s)) \in Seq(Event)
  BY <1>3, RetainedIn, Zenon
<1>6. CASE x.event # "IncomingPublish"
  <2>1. in(t) = in(s)
    BY <1>2, <1>6
  <2> HIDE DEF in
  <2>2. /\ Retain(t, in(s)) = Retain(s, in(s))
        /\ Retain(t, in(s) \cup {Len(s) + 1}) = Append(Retain(s, in(s)), x)
    BY <1>3, RetainAppend
  <2> QED BY <2>1, <2>2, <1>4, <1>6
<1>7. CASE x.event = "IncomingPublish"
  <2>1. in(t) = in(s) \cup {Len(s) + 1}
    BY <1>2, <1>7
  <2> HIDE DEF in
  <2>2. Retain(t, in(t)) = Append(Retain(s, in(s)), x)
    BY <2>1, <1>3, RetainAppend
  <2>3. \A u \in Seq(Event) : topics(Append(u, x)) = Append(topics(u), x.topic)
    OBVIOUS
  <2> HIDE DEF topics
  <2> QED BY <2>2, <2>3, <1>4, <1>5, <1>7
<1> QED BY <1>6, <1>7
-----------------------------------------------------------------------------
(***************************************************************************)
(* Which filters a topic matches: the loop of topic_matches, which stops   *)
(* at the first "#", gives what MQTT says.  Its recursion is dealt with    *)
(* without induction: what it still has to find from a level on satisfies  *)
(* the same equation, so a function that does exists, and it can differ    *)
(* from this one at no level, since there would be a last one.             *)
(***************************************************************************)
\* What topic_matches asks of one level that both have.
LevelFits(filter, topic, k) == filter[k] # "#" /\ filter[k] \in {"+", topic[k]}

\* What its loop still has to find from level i on.
Rest(filter, topic, i) ==
  \/ /\ Len(filter) = Len(topic)
     /\ \A k \in i .. Len(filter) : LevelFits(filter, topic, k)
  \/ /\ i <= Len(filter)
     /\ filter[Len(filter)] = "#"
     /\ \A k \in i .. Len(filter) - 1 : k <= Len(topic) /\ LevelFits(filter, topic, k)

\* One iteration of it, "next" being the result of the following ones.
Level(filter, topic, i, next) ==
  IF i > Len(filter) THEN i = Len(topic) + 1
  ELSE IF filter[i] = "#" THEN i = Len(filter)
  ELSE i <= Len(topic) /\ filter[i] \in {"+", topic[i]} /\ next

Loop(filter, topic, f) == [i \in 1 .. Len(filter) + 1 |-> Level(filter, topic, i, f[i + 1])]

LEMMA LoopIs ==
  ASSUME NEW filter, NEW topic
  PROVE  LET from == CHOOSE f : f = Loop(filter, topic, f)
         IN  TopicMatches(filter, topic) = from[1]
BY Zenon DEF TopicMatches, Loop, Level

LEMMA RestStep ==
  ASSUME NEW T, NEW filter \in Seq(T), NEW topic \in Seq(T), NEW i \in 1 .. Len(filter) + 1
  PROVE  Rest(filter, topic, i) <=> Level(filter, topic, i, Rest(filter, topic, i + 1))
<1> DEFINE n == Len(filter)
           m == Len(topic)
           fits(k) == LevelFits(filter, topic, k)
<1>1. n \in Nat /\ m \in Nat /\ i \in Nat /\ 1 <= i /\ i <= n + 1
  OBVIOUS
<1>2. Rest(filter, topic, i) <=>
        \/ n = m /\ \A k \in i .. n : fits(k)
        \/ i <= n /\ filter[n] = "#" /\ \A k \in i .. n - 1 : k <= m /\ fits(k)
  BY Zenon DEF Rest
<1>3. Rest(filter, topic, i + 1) <=>
        \/ n = m /\ \A k \in i + 1 .. n : fits(k)
        \/ i + 1 <= n /\ filter[n] = "#" /\ \A k \in i + 1 .. n - 1 : k <= m /\ fits(k)
  BY Zenon DEF Rest
<1>4. fits(i) => filter[i] # "#"
  BY DEF LevelFits
<1>5. Level(filter, topic, i, Rest(filter, topic, i + 1)) <=>
        IF i > n THEN i = m + 1
        ELSE IF filter[i] = "#" THEN i = n
        ELSE i <= m /\ fits(i) /\ Rest(filter, topic, i + 1)
  BY DEF Level, LevelFits
<1> HIDE DEF fits, n, m
<1>6. \A b \in Int : i <= b => i \in i .. b /\ (\A k \in i .. b : k = i \/ k \in i + 1 .. b) /\ i + 1 .. b \subseteq i .. b
  BY <1>1
<1>7. CASE i = n + 1
  <2>1. i > n /\ ~(i <= n) /\ i .. n = {} /\ (i = m + 1 <=> n = m)
    BY <1>1, <1>7
  <2> QED BY <2>1, <1>2, <1>5
<1>8. CASE i <= n /\ filter[i] = "#"
  <2>1. ~fits(i) /\ i \in i .. n /\ ~(i > n) /\ (i # n => i \in i .. n - 1) /\ (i = n => i .. n - 1 = {})
    BY <1>1, <1>4, <1>8
  <2> QED BY <2>1, <1>8, <1>2, <1>5
<1>9. CASE i <= n /\ filter[i] # "#"
  <2>1. (\A k \in i .. n : fits(k)) <=> fits(i) /\ \A k \in i + 1 .. n : fits(k)
    BY <1>1, <1>6, <1>9
  <2>2. i # n => ((\A k \in i .. n - 1 : k <= m /\ fits(k)) <=>
          i <= m /\ fits(i) /\ \A k \in i + 1 .. n - 1 : k <= m /\ fits(k))
    BY <1>1, <1>6, <1>9
  <2>3. ~(i > n) /\ (i + 1 <= n <=> i # n) /\ (n = m => i <= m)
    BY <1>1, <1>9
  <2>4. Rest(filter, topic, i) <=> i <= m /\ fits(i) /\ Rest(filter, topic, i + 1)
    <3>1. CASE i = n
      BY <3>1, <2>1, <2>3, <1>2, <1>3, <1>9
    <3>2. CASE i # n
      BY <3>2, <2>1, <2>2, <2>3, <1>2, <1>3, <1>9
    <3> QED BY <3>1, <3>2
  <2> QED BY <2>3, <2>4, <1>5, <1>9
<1> QED BY <1>1, <1>7, <1>8, <1>9

LEMMA LoopFound ==
  ASSUME NEW T, NEW filter \in Seq(T), NEW topic \in Seq(T)
  PROVE  TopicMatches(filter, topic) <=> Rest(filter, topic, 1)
<1> DEFINE from == CHOOSE f : f = Loop(filter, topic, f)
           rest == [i \in 1 .. Len(filter) + 1 |-> Rest(filter, topic, i)]
           places == 1 .. Len(filter) + 1
<1>1. \A i \in places : Rest(filter, topic, i) = Level(filter, topic, i, rest[i + 1])
  <2> SUFFICES ASSUME NEW i \in places
               PROVE  Rest(filter, topic, i) = Level(filter, topic, i, rest[i + 1])
    OBVIOUS
  <2>1. Level(filter, topic, i, rest[i + 1]) <=> Level(filter, topic, i, Rest(filter, topic, i + 1))
    <3>1. CASE i > Len(filter)
      BY <3>1, Zenon DEF Level
    <3>2. CASE i <= Len(filter)
      <4>1. i + 1 \in places
        BY <3>2
      <4>2. rest[i + 1] = Rest(filter, topic, i + 1)
        BY <4>1, Zenon
      <4> QED BY <4>2, Zenon
    <3> QED BY <3>1, <3>2
  <2>2. Rest(filter, topic, i) \in BOOLEAN
    BY Zenon DEF Rest
  <2>3. Level(filter, topic, i, rest[i + 1]) \in BOOLEAN
    BY DEF Level
  <2> QED BY <2>1, <2>2, <2>3, RestStep
<1>2. rest = Loop(filter, topic, rest)
  BY <1>1, Zenon DEF Loop
<1>3. from = Loop(filter, topic, from)
  BY <1>2, Zenon
<1>4. \A i \in places : from[i] = Level(filter, topic, i, from[i + 1])
  BY <1>3, Zenon DEF Loop
<1>5. \A i \in places : from[i] = Rest(filter, topic, i)
  <2> DEFINE last == Len(filter) + 1
             wrong == {d \in Nat : last - d \in places /\ from[last - d] # Rest(filter, topic, last - d)}
  <2> HIDE DEF from
  <2>1. Len(filter) \in Nat
    OBVIOUS
  <2>2. SUFFICES ASSUME wrong # {} PROVE FALSE
    <3> SUFFICES ASSUME NEW i \in places, from[i] # Rest(filter, topic, i) PROVE FALSE
      OBVIOUS
    <3>1. last - i \in Nat /\ last - (last - i) = i
      BY <2>1
    <3> QED BY <3>1, <2>2
  <2>3. PICK d \in wrong : \A e \in wrong : d <= e
    <3>1. wrong \in SUBSET Nat
      OBVIOUS
    <3> HIDE DEF wrong
    <3> QED BY <3>1, <2>2, Smallest
  <2> DEFINE i == last - d
  <2>4. i \in places /\ from[i] # Rest(filter, topic, i) /\ d \in Nat
    BY <2>3
  <2>5. i <= Len(filter) => i + 1 \in places /\ from[i + 1] = Rest(filter, topic, i + 1)
    <3> SUFFICES ASSUME i <= Len(filter), from[i + 1] # Rest(filter, topic, i + 1) PROVE FALSE
      BY <2>1, <2>4
    <3>1. d - 1 \in Nat /\ last - (d - 1) = i + 1 /\ i + 1 \in places /\ ~(d <= d - 1)
      BY <2>1, <2>4
    <3>2. d - 1 \in wrong
      BY <3>1
    <3> QED BY <3>1, <3>2, <2>3
  <2>6. Level(filter, topic, i, from[i + 1]) <=> Level(filter, topic, i, Rest(filter, topic, i + 1))
    <3>1. CASE i > Len(filter)
      BY <3>1, Zenon DEF Level
    <3>2. CASE i <= Len(filter)
      BY <3>2, <2>5, Zenon
    <3> QED BY <3>1, <3>2, <2>1, <2>4
  <2>7. Rest(filter, topic, i) \in BOOLEAN
    BY Zenon DEF Rest
  <2>8. Level(filter, topic, i, from[i + 1]) \in BOOLEAN
    BY DEF Level
  <2>9. Rest(filter, topic, i) <=> Level(filter, topic, i, Rest(filter, topic, i + 1))
    BY <2>4, RestStep
  <2>10. from[i] = Level(filter, topic, i, from[i + 1])
    BY <1>4, <2>4, Zenon
  <2> HIDE DEF i
  <2> QED BY <2>4, <2>6, <2>7, <2>8, <2>9, <2>10, Zenon
<1>6. 1 \in places
  OBVIOUS
<1> QED BY <1>5, <1>6, LoopIs, Zenon

LEMMA MatchesIs ==
  ASSUME NEW T, NEW filter \in Seq(T), filter # <<>>, NEW topic \in Seq(T)
  PROVE  Matches(filter, topic) <=> Rest(filter, topic, 1)
<1> DEFINE n == Len(filter)
           m == Len(topic)
           levels(c) == IF Last(filter) = "#" THEN Front(filter) \o [k \in 1 .. c |-> "+"] ELSE filter
           good(s) == /\ Len(s) = m
                      /\ \A k \in DOMAIN s : s[k] # "#" /\ s[k] \in {"+", topic[k]}
<1>1. n \in Nat /\ m \in Nat /\ n >= 1 /\ DOMAIN filter = 1 .. n
  OBVIOUS
<1>2. Matches(filter, topic) <=> \E c \in 0 .. m : good(levels(c))
  BY Zenon DEF Matches
<1>3. Last(filter) = filter[n]
  BY DEF Last
<1>4. CASE filter[n] # "#"
  <2>1. \A c : levels(c) = filter
    BY <1>3, <1>4
  <2>2. good(filter) <=> n = m /\ \A k \in 1 .. n : LevelFits(filter, topic, k)
    BY <1>1 DEF LevelFits
  <2>3. 0 \in 0 .. m
    BY <1>1
  <2>4. Matches(filter, topic) <=> good(filter)
    <3> HIDE DEF good, levels
    <3> QED BY <1>2, <2>1, <2>3
  <2>5. Rest(filter, topic, 1) <=> n = m /\ \A k \in 1 .. n : LevelFits(filter, topic, k)
    BY <1>4, Zenon DEF Rest
  <2> QED BY <2>2, <2>4, <2>5, Zenon
<1>5. CASE filter[n] = "#"
  <2> DEFINE short == Front(filter)
             plus(c) == [k \in 1 .. c |-> "+"]
  <2>1. short \in Seq(T) /\ Len(short) = n - 1 /\ \A k \in 1 .. n - 1 : short[k] = filter[k]
    BY <1>1 DEF Front
  <2>2. \A c \in Nat : plus(c) \in Seq({"+"}) /\ Len(plus(c)) = c /\ \A k \in 1 .. c : plus(c)[k] = "+"
    OBVIOUS
  <2>3. ASSUME NEW c \in 0 .. m
        PROVE  good(levels(c)) <=> n - 1 + c = m /\ \A k \in 1 .. n - 1 : LevelFits(filter, topic, k)
    <3>1. levels(c) = short \o plus(c)
      BY <1>3, <1>5
    <3> DEFINE s == short \o plus(c)
    <3>2. /\ Len(s) = n - 1 + c /\ DOMAIN s = 1 .. n - 1 + c
          /\ \A k \in 1 .. n - 1 + c : s[k] = IF k <= n - 1 THEN short[k] ELSE plus(c)[k - (n - 1)]
      <4> HIDE DEF short, plus
      <4>1. c \in Nat
        BY <1>1
      <4>2. plus(c) \in Seq({"+"}) /\ Len(plus(c)) = c
        BY <4>1, <2>2
      <4>3. PICK short1, plus1 : short1 = short /\ plus1 = plus(c)
        OBVIOUS
      <4>4. short1 \in Seq(T \cup {"+"}) /\ plus1 \in Seq(T \cup {"+"}) /\ Len(short1) = n - 1 /\ Len(plus1) = c
        BY <2>1, <4>2, <4>3
      <4>5. s = short1 \o plus1
        BY <4>3
      <4> HIDE DEF n, s
      <4>6. n \in Nat /\ n >= 1
        BY <1>1
      <4>7. /\ Len(s) = n - 1 + c /\ DOMAIN s = 1 .. n - 1 + c
            /\ \A k \in 1 .. n - 1 + c : s[k] = IF k <= n - 1 THEN short1[k] ELSE plus1[k - (n - 1)]
        <5>1. Len(short1 \o plus1) = Len(short1) + Len(plus1) /\ DOMAIN (short1 \o plus1) = 1 .. Len(short1) + Len(plus1)
          BY <4>4
        <5>2. \A k \in 1 .. Len(short1) + Len(plus1) :
                (short1 \o plus1)[k] = IF k <= Len(short1) THEN short1[k] ELSE plus1[k - Len(short1)]
          BY <4>4, ConcatProperties, Zenon
        <5> QED BY <4>4, <4>5, <5>1, <5>2
      <4> QED BY <4>3, <4>7
    <3> HIDE DEF s, short, plus
    <3>3. \A k \in 1 .. n - 1 + c :
            IF k <= n - 1 THEN k \in 1 .. n - 1 /\ s[k] = filter[k]
                          ELSE s[k] = "+"
      <4> SUFFICES ASSUME NEW k \in 1 .. n - 1 + c
                   PROVE  IF k <= n - 1 THEN k \in 1 .. n - 1 /\ s[k] = filter[k] ELSE s[k] = "+"
        OBVIOUS
      <4>1. s[k] = IF k <= n - 1 THEN short[k] ELSE plus(c)[k - (n - 1)]
        BY <3>2
      <4>2. c \in Nat /\ k \in Nat /\ k >= 1 /\ k <= n - 1 + c
        BY <1>1
      <4>3. CASE k <= n - 1
        <5>1. k \in 1 .. n - 1
          BY <4>2, <4>3, <1>1
        <5> QED BY <4>1, <4>3, <5>1, <2>1
      <4>4. CASE ~(k <= n - 1)
        <5>1. k - (n - 1) \in 1 .. c
          BY <4>2, <4>4, <1>1
        <5> QED BY <4>1, <4>2, <4>4, <5>1, <2>2
      <4> QED BY <4>3, <4>4
    <3>4. "+" # "#" /\ 1 .. n - 1 \subseteq 1 .. n - 1 + c /\ \A k \in 1 .. n - 1 : k <= n - 1
      BY <1>1
    <3>5. good(s) <=> n - 1 + c = m /\ \A k \in 1 .. n - 1 : LevelFits(filter, topic, k)
      BY <3>2, <3>3, <3>4 DEF LevelFits
    <3>6. levels(c) = s
      BY <3>1 DEF s
    <3> HIDE DEF good, levels
    <3> QED BY <3>5, <3>6
  <2>4. (\E c \in 0 .. m : n - 1 + c = m) <=> n - 1 <= m
    <3>1. n \in Nat /\ m \in Nat /\ n >= 1
      BY <1>1
    <3> HIDE DEF n, m
    <3>2. n - 1 <= m => m - (n - 1) \in 0 .. m /\ n - 1 + (m - (n - 1)) = m
      BY <3>1
    <3>3. \A c \in 0 .. m : n - 1 + c = m => n - 1 <= m
      BY <3>1
    <3> QED BY <3>2, <3>3, Zenon
  <2>5. Matches(filter, topic) <=> n - 1 <= m /\ \A k \in 1 .. n - 1 : LevelFits(filter, topic, k)
    <3> HIDE DEF good, levels
    <3> QED BY <1>2, <2>3, <2>4
  <2>6. ~LevelFits(filter, topic, n) /\ n \in 1 .. n /\ 1 <= n
    BY <1>1, <1>5 DEF LevelFits
  <2>7. (\A k \in 1 .. n - 1 : k <= m) <=> n - 1 <= m
    BY <1>1
  <2>8. Rest(filter, topic, 1) <=> \A k \in 1 .. n - 1 : k <= m /\ LevelFits(filter, topic, k)
    BY <2>6, <1>5, Zenon DEF Rest
  <2> QED BY <2>5, <2>7, <2>8
<1> QED BY <1>4, <1>5

(***************************************************************************)
(* For any filter and any topic, topic_matches gives what MQTT says.       *)
(***************************************************************************)
THEOREM TopicMatchesCorrect ==
  ASSUME NEW T, NEW filter \in Seq(T), filter # <<>>, NEW topic \in Seq(T)
  PROVE  TopicMatches(filter, topic) <=> Matches(filter, topic)
BY LoopFound, MatchesIs

-----------------------------------------------------------------------------
(***************************************************************************)
(* The refinement of Subscriptions.                                        *)
(***************************************************************************)
\* A client with a place that matches is in the list of matching_clients.
LEMMA FirstPlace ==
  ASSUME NEW es, Table(es), NEW topic, NEW q \in MatchingPlaces(es, topic)
  PROVE  \E p \in MatchingClients(es, topic) : ClientAt(es, p) = ClientAt(es, q)
<1> DEFINE Own == {p \in MatchingPlaces(es, topic) : ClientAt(es, p) = ClientAt(es, q)}
           Row == {i \in Nat : \E j \in Nat : <<i, j>> \in Own}
           Column(i) == {j \in Nat : <<i, j>> \in Own}
<1>1. \A p \in Own : \E i, j \in Nat : p = <<i, j>>
  <2> SUFFICES ASSUME NEW p \in Own PROVE \E i, j \in Nat : p = <<i, j>>
    OBVIOUS
  <2>1. PICK i \in DOMAIN es : \E j \in DOMAIN es[i].clients : p = <<i, j>>
    BY PlacesAre
  <2>2. es \in Seq(Entry) /\ es[i] \in Entry
    BY DEF Table
  <2>3. i \in Nat /\ DOMAIN es[i].clients \subseteq Nat
    BY <2>2 DEF Entry
  <2> QED BY <2>1, <2>3
<1>2. PICK i \in Row : \A k \in Row : i <= k
  <2>1. Row \in SUBSET Nat /\ Row # {}
    BY <1>1
  <2> HIDE DEF Row
  <2> QED BY <2>1, Smallest, Zenon
<1>3. PICK j \in Column(i) : \A l \in Column(i) : j <= l
  <2>1. Column(i) \in SUBSET Nat /\ Column(i) # {}
    BY <1>2
  <2> HIDE DEF Column
  <2> QED BY <2>1, Smallest, Zenon
<1>4. <<i, j>> \in Own /\ i \in Nat /\ j \in Nat
  BY <1>2, <1>3
<1>5. ASSUME NEW p \in Own PROVE ~Before(p, <<i, j>>)
  <2>1. PICK k \in Nat, l \in Nat : p = <<k, l>>
    BY <1>1
  <2>2. k \in Row /\ (k = i => l \in Column(i))
    BY <2>1
  <2>3. i <= k /\ (k = i => j <= l)
    BY <2>2, <1>2, <1>3
  <2> QED BY <2>1, <2>3, <1>4 DEF Before
<1>6. \A p \in MatchingPlaces(es, topic) :
        Before(p, <<i, j>>) => ClientAt(es, p) # ClientAt(es, <<i, j>>)
  BY <1>4, <1>5
<1> QED BY <1>4, <1>6 DEF MatchingClients

\* What the fanout hands out, and to whom.
Getters(topic) == {ClientAt(entries, p) : p \in Reached(MatchingClients(entries, topic))}

WantsOf(client, topic) ==
  \E filter \in Filter : HasRoute(entries, client, filter) /\ Matches(filter, topic)

LEMMA GettersWant ==
  ASSUME Table(entries), NEW topic \in Topic
  PROVE  /\ Getters(topic) \subseteq Client
         /\ \A client \in Getters(topic) : WantsOf(client, topic)
         /\ Reached(MatchingClients(entries, topic)) = MatchingClients(entries, topic) =>
              \A client \in Client : WantsOf(client, topic) => client \in Getters(topic)
<1>1. \A filter \in Filter : TopicMatches(filter, topic) <=> Matches(filter, topic)
  <2> SUFFICES ASSUME NEW filter \in Filter
               PROVE  TopicMatches(filter, topic) <=> Matches(filter, topic)
    OBVIOUS
  <2>1. filter \in Seq(STRING) /\ filter # <<>> /\ topic \in Seq(STRING)
    BY LevelsAssumption
  <2> QED BY <2>1, TopicMatchesCorrect
<1>2. ASSUME NEW client \in Getters(topic)
      PROVE  client \in Client /\ WantsOf(client, topic)
  <2>1. PICK p \in Reached(MatchingClients(entries, topic)) : ClientAt(entries, p) = client
    BY DEF Getters
  <2>2. p \in MatchingPlaces(entries, topic)
    BY <2>1 DEF Reached, MatchingClients
  <2> QED BY <2>1, <2>2, <1>1, PlaceClient DEF WantsOf
<1>3. ASSUME Reached(MatchingClients(entries, topic)) = MatchingClients(entries, topic),
             NEW client \in Client, WantsOf(client, topic)
      PROVE  client \in Getters(topic)
  <2>1. PICK filter \in Filter : HasRoute(entries, client, filter) /\ Matches(filter, topic)
    BY <1>3 DEF WantsOf
  <2>2. PICK i \in DOMAIN entries : entries[i].filter = filter /\ Listed(entries[i].clients, client)
    BY <2>1 DEF HasRoute
  <2>3. PICK j \in DOMAIN entries[i].clients : entries[i].clients[j] = client
    BY <2>2 DEF Listed
  <2>4. <<i, j>> \in MatchingPlaces(entries, topic)
    BY <1>1, <2>1, <2>2, PlacesAre
  <2>5. ClientAt(entries, <<i, j>>) = client
    BY <2>3 DEF ClientAt
  <2>6. PICK p \in MatchingClients(entries, topic) : ClientAt(entries, p) = client
    BY <2>4, <2>5, FirstPlace
  <2> QED BY <2>6, <1>3 DEF Getters
<1> QED BY <1>2, <1>3

LEMMA GettersInbox ==
  ASSUME Sound, Published, NEW client \in Client, NEW topic \in Topic, topic = Head(to_runtime).topic
  PROVE  InboxOf(mailbox'[client]) =
           IF client \in Getters(topic) THEN Append(InboxOf(mailbox[client]), topic)
                                        ELSE InboxOf(mailbox[client])
<1>1. mailbox[client] \in Seq(Event)
  BY DEF Sound, Typed
<1>2. mailbox'[client] = mailbox[client] \o Fanned(topic, client)
  BY PublishedMail
<1>3. client \in Getters(topic) <=> At(MatchingClients(entries, topic), client) # {}
  BY DEF Getters, At
<1>4. /\ Fanned(topic, client) = <<>> \/ Fanned(topic, client) = <<IncomingPublish(topic)>>
      /\ At(MatchingClients(entries, topic), client) = {} <=> Fanned(topic, client) = <<>>
  BY FannedIs DEF Sound
<1>5. /\ IncomingPublish(topic) \in Event /\ IncomingPublish(topic).event = "IncomingPublish"
      /\ IncomingPublish(topic).topic = topic
  BY EventParts DEF IncomingPublish
<1>6. CASE client \notin Getters(topic)
  <2>1. Fanned(topic, client) = <<>>
    BY <1>3, <1>4, <1>6
  <2>2. mailbox'[client] = mailbox[client]
    <3>1. \A s \in Seq(Event) : s \o <<>> = s
      OBVIOUS
    <3> QED BY <1>1, <1>2, <2>1, <3>1
  <2> QED BY <1>6, <2>2
<1>7. CASE client \in Getters(topic)
  <2>1. Fanned(topic, client) = <<IncomingPublish(topic)>>
    BY <1>3, <1>4, <1>7
  <2>2. mailbox'[client] = Append(mailbox[client], IncomingPublish(topic))
    <3>1. PICK x \in Event : x = IncomingPublish(topic)
      BY <1>5
    <3>2. mailbox[client] \o <<x>> = Append(mailbox[client], x)
      BY <1>1
    <3> QED BY <1>2, <2>1, <3>1, <3>2
  <2>3. InboxOf(mailbox'[client]) = Append(InboxOf(mailbox[client]), topic)
    BY <1>1, <1>5, <2>2, InboxAppend
  <2> QED BY <1>7, <2>3
<1> QED BY <1>6, <1>7

\* The filters of each client, and what it was sent.
FiltersIn(es) == [client \in Client |-> {filter \in Filter : HasRoute(es, client, filter)}]

Boxes(boxes) == [client \in Client |-> InboxOf(boxes[client])]

LEMMA PromiseVars ==
  /\ [client \in Client |-> {filter \in Filter : <<client, filter>> \in Routes(entries)}]
       = FiltersIn(entries)
  /\ [client \in Client |-> Inbox(client)] = Boxes(mailbox)
<1>1. \A client \in Client, filter \in Filter :
        <<client, filter>> \in Routes(entries) <=> HasRoute(entries, client, filter)
  BY RoutesAre
<1>2. \A client : Inbox(client) = InboxOf(mailbox[client])
  BY DEF Inbox, InboxOf
<1> QED BY <1>1, <1>2 DEF FiltersIn, Boxes

LEMMA PromiseVarsNext ==
  /\ [client \in Client |-> {filter \in Filter : <<client, filter>> \in Routes(entries')}]
       = FiltersIn(entries')
  /\ [client \in Client |-> Inbox(client)]' = Boxes(mailbox')
<1>1. \A client, filter : <<client, filter>> \in Routes(entries') <=> HasRoute(entries', client, filter)
  BY RoutesAre
<1>2. [client \in Client |-> Inbox(client)]' = Boxes(mailbox')
  BY DEF Inbox, InboxOf, Boxes
<1> QED BY <1>1, <1>2 DEF FiltersIn

LEMMA PromiseStart == ClientsInit => Promise!Init
<1> SUFFICES ASSUME ClientsInit PROVE Promise!Init
  OBVIOUS
<1>1. FiltersIn(entries) = [client \in Client |-> {}]
  BY DEF ClientsInit, FiltersIn, HasRoute
<1>2. InboxOf(<<>>) = <<>>
  <2>1. {i \in DOMAIN <<>> : <<>>[i].event = "IncomingPublish"} = {}
    OBVIOUS
  <2>2. Retain(<<>>, {}) = <<>>
    BY FS_EmptySet DEF Retain
  <2> QED BY <2>1, <2>2 DEF InboxOf
<1>3. Boxes(mailbox) = [client \in Client |-> <<>>]
  BY <1>2 DEF ClientsInit, Boxes
<1>4. ~Running = FALSE
  BY DEF ClientsInit, Init, Running
<1> QED BY <1>1, <1>3, <1>4, PromiseVars DEF Promise!Init

\* An acknowledgement changes at most one route, and no inbox.
LEMMA AcknowledgedKeeps ==
  ASSUME Sound, Acknowledged
  PROVE  /\ Boxes(mailbox') = Boxes(mailbox)
         /\ \/ UNCHANGED entries
            \/ \E c \in Client, f \in Filter :
                 \/ FiltersIn(entries') = [FiltersIn(entries) EXCEPT ![c] = @ \cup {f}]
                 \/ FiltersIn(entries') = [FiltersIn(entries) EXCEPT ![c] = @ \ {f}]
<1>1. PICK op \in Operation : Completes(op) \/ UNCHANGED <<task, mailbox>>
  BY AckDoes
<1>2. PICK c \in Client, f \in Filter : c = op.id.client /\ f = op.id.filter
  BY OpParts, CommandParts
<1>3. mailbox \in [Client -> Seq(Event)] /\ Table(entries)
  BY DEF Sound, Typed
<1>4. Reported(op) \in Event /\ Reported(op).event # "IncomingPublish"
  BY EventParts
<1>5. PICK report \in Event : report = Reported(op)
  BY <1>4
<1>6. \A client \in Client : InboxOf(mailbox'[client]) = InboxOf(mailbox[client])
  <2> SUFFICES ASSUME NEW client \in Client
               PROVE  InboxOf(mailbox'[client]) = InboxOf(mailbox[client])
    OBVIOUS
  <2>1. mailbox[client] \in Seq(Event)
    BY <1>3
  <2>2. InboxOf(Append(mailbox[client], report)) = InboxOf(mailbox[client])
    BY <1>4, <1>5, <2>1, InboxAppend
  <2>3. mailbox' = mailbox \/ mailbox' = [mailbox EXCEPT ![c] = Append(@, report)]
    BY <1>1, <1>2, <1>5 DEF Completes
  <2>4. mailbox'[client] = mailbox[client] \/ mailbox'[client] = Append(mailbox[client], report)
    BY <1>3, <2>3
  <2> QED BY <2>2, <2>4, Zenon
<1>7. CASE UNCHANGED <<task, mailbox>>
  BY <1>6, <1>7 DEF Boxes, task
<1>8. CASE Completes(op)
  <2>1. CASE op.kind = "subscribe"
    <3>1. entries' = AddSubscription(entries, c, f)
      BY <1>2, <1>8, <2>1 DEF Completes
    <3>2. \A client, filter : HasRoute(entries', client, filter) <=>
            HasRoute(entries, client, filter) \/ (client = c /\ filter = f)
      BY <1>3, <3>1, RouteAdded
    <3>3. FiltersIn(entries') = [FiltersIn(entries) EXCEPT ![c] = @ \cup {f}]
      BY <3>2 DEF FiltersIn
    <3> QED BY <1>6, <3>3 DEF Boxes
  <2>2. CASE op.kind # "subscribe"
    <3>1. entries' = RemoveSubscription(entries, c, f)
      BY <1>2, <1>8, <2>2 DEF Completes
    <3>2. \A client, filter : HasRoute(entries', client, filter) <=>
            HasRoute(entries, client, filter) /\ ~(client = c /\ filter = f)
      BY <1>3, <3>1, RouteRemoved
    <3>3. FiltersIn(entries') = [FiltersIn(entries) EXCEPT ![c] = @ \ {f}]
      BY <3>2 DEF FiltersIn
    <3> QED BY <1>6, <3>3 DEF Boxes
  <2> QED BY <2>1, <2>2
<1> QED BY <1>1, <1>7, <1>8

LEMMA BroadcastKeeps ==
  ASSUME Sound, NEW event \in {Disconnected, Reconnected}, Broadcast(event)
  PROVE  Boxes(mailbox') = Boxes(mailbox)
<1>1. event \in Event /\ event.event # "IncomingPublish"
  BY EventParts
<1>2. ASSUME NEW client \in Client PROVE InboxOf(mailbox'[client]) = InboxOf(mailbox[client])
  <2>1. mailbox[client] \in Seq(Event)
    BY DEF Sound, Typed
  <2>2. InboxOf(Append(mailbox[client], event)) = InboxOf(mailbox[client])
    BY <1>1, <2>1, InboxAppend
  <2>3. mailbox'[client] = mailbox[client] \/ mailbox'[client] = Append(mailbox[client], event)
    BY DEF Broadcast
  <2> QED BY <2>2, <2>3, Zenon
<1> QED BY <1>2 DEF Boxes

LEMMA OthersKeep ==
  ASSUME Sound, ClientsNext, ~Acknowledged, ~Published
  PROVE  entries' = entries /\ Boxes(mailbox') = Boxes(mailbox)
<1>1. entries' = entries
  BY RoutesMove
<1>2. CASE UNCHANGED mailbox
  BY <1>1, <1>2
<1>3. CASE Timeout \/ Replace
  BY <1>1, <1>3, BroadcastKeeps DEF Timeout, Replace, LoseConnection
<1>4. CASE Restore \/ Resend
  BY <1>1, <1>2, <1>4, BroadcastKeeps DEF Restore, Resend, TellReconnected
<1> QED BY <1>2, <1>3, <1>4 DEF ClientsNext, User, Runtime, TakeCommand, PollIncoming, NotAcknowledged,
         CommandChannelClosed, Broker, Answer, Grant, Refuse, Withdraw, Reads, Publish, allVars

\* A delivery is one of the promised.
LEMMA PublishedKeeps ==
  ASSUME Sound, Published, Running
  PROVE  Promise!Next
<1>1. PICK topic \in Topic : topic = Head(to_runtime).topic
  BY PublishedMail
<1>2. Table(entries) /\ entries' = entries
  BY PublishedMail DEF Sound, Typed
<1>3. /\ Getters(topic) \subseteq Client
      /\ \A client \in Getters(topic) : WantsOf(client, topic)
      /\ Reached(MatchingClients(entries, topic)) = MatchingClients(entries, topic) =>
           \A client \in Client : WantsOf(client, topic) => client \in Getters(topic)
  BY <1>2, GettersWant
<1>4. Running' => Reached(MatchingClients(entries, topic)) = MatchingClients(entries, topic)
  <2>1. ended' = IF Reached(MatchingClients(entries, topic)) = MatchingClients(entries, topic)
                   THEN None ELSE "EventChannelClosed"
    BY <1>1, PublishedMail
  <2> QED BY <2>1, NoTaskErrorAssumption DEF Running, TaskError
<1>5. \A client \in Client :
        InboxOf(mailbox'[client]) =
          IF client \in Getters(topic) THEN Append(InboxOf(mailbox[client]), topic)
                                       ELSE InboxOf(mailbox[client])
  BY <1>1, GettersInbox
<1>6. \A client \in Client : Promise!Wants(client, topic) <=> WantsOf(client, topic)
  <2>1. \A filter : Promise!Matches(filter, topic) <=> Matches(filter, topic)
    BY Zenon DEF Promise!Matches, Promise!Last, Promise!Front, Matches, Last, Front
  <2>2. \A client \in Client :
          FiltersIn(entries)[client] = {filter \in Filter : HasRoute(entries, client, filter)}
    BY DEF FiltersIn
  <2>3. \A client \in Client :
          Promise!Wants(client, topic) <=>
            \E filter \in FiltersIn(entries)[client] : Promise!Matches(filter, topic)
    BY PromiseVars DEF Promise!Wants
  <2> QED BY <2>1, <2>2, <2>3 DEF WantsOf
<1>7. Boxes(mailbox') =
        [client \in Client |->
           IF client \in Getters(topic) THEN Append(Boxes(mailbox)[client], topic)
                                        ELSE Boxes(mailbox)[client]]
  BY <1>5 DEF Boxes
<1>8. Promise!Deliver(topic, Getters(topic))
  <2>1. \A client \in Getters(topic) : Promise!Wants(client, topic)
    BY <1>3, <1>6
  <2>2. ~(~Running') => \A client \in Client : Promise!Wants(client, topic) => client \in Getters(topic)
    BY <1>3, <1>4, <1>6
  <2> QED BY <2>1, <2>2, <1>2, <1>7, PromiseVarsNext, PromiseVars DEF Promise!Deliver
<1> QED BY <1>1, <1>3, <1>8 DEF Promise!Next

LEMMA PromiseStep == ASSUME Sound, [ClientsNext]_allVars PROVE [Promise!Next]_Promise!vars
<1>1. CASE UNCHANGED allVars
  <2>1. UNCHANGED <<entries, mailbox, error, ended>>
    BY <1>1 DEF allVars, vars, task
  <2> QED BY <2>1, PromiseVars, PromiseVarsNext DEF Promise!vars, Running
<1>2. ASSUME ClientsNext PROVE Running
  BY <1>2 DEF ClientsNext, User, Runtime, TakeCommand, PollIncoming, Acknowledged, NotAcknowledged,
              Published, Receive, AtLoop, CommandChannelClosed, Timeout, Replace, LoseConnection,
              Restore, Resend, Broker, Answer, Grant, Refuse, Withdraw, Reads, Publish
<1>3. CASE Acknowledged
  <2>1. Running /\ Boxes(mailbox') = Boxes(mailbox)
    BY <1>3, AcknowledgedKeeps DEF Acknowledged, Receive, AtLoop
  <2>2. CASE UNCHANGED entries
    BY <2>1, <2>2, PromiseVars, PromiseVarsNext DEF Promise!Next
  <2>3. CASE \E c \in Client, f \in Filter :
               \/ FiltersIn(entries') = [FiltersIn(entries) EXCEPT ![c] = @ \cup {f}]
               \/ FiltersIn(entries') = [FiltersIn(entries) EXCEPT ![c] = @ \ {f}]
    <3>1. PICK c \in Client, f \in Filter :
               \/ FiltersIn(entries') = [FiltersIn(entries) EXCEPT ![c] = @ \cup {f}]
               \/ FiltersIn(entries') = [FiltersIn(entries) EXCEPT ![c] = @ \ {f}]
      BY <2>3
    <3>2. Promise!Subscribe(c, f) \/ Promise!Unsubscribe(c, f)
      BY <2>1, <3>1, PromiseVars, PromiseVarsNext DEF Promise!Subscribe, Promise!Unsubscribe
    <3>3. \E client \in Client, filter \in Filter :
            Promise!Subscribe(client, filter) \/ Promise!Unsubscribe(client, filter)
      BY <3>2, Zenon
    <3>4. ~(~Running) /\ (~Running') \in BOOLEAN
      BY <2>1
    <3> QED BY <3>3, <3>4 DEF Promise!Next
  <2> QED BY <1>3, <2>2, <2>3, AcknowledgedKeeps
<1>4. CASE Published
  BY <1>2, <1>4, PublishedKeeps DEF Published, Receive, AtLoop
<1>5. ASSUME ClientsNext, ~Acknowledged, ~Published
      PROVE  Promise!Next
  BY <1>2, <1>5, OthersKeep, PromiseVars, PromiseVarsNext DEF Promise!Next
<1> QED BY <1>1, <1>3, <1>4, <1>5

(***************************************************************************)
(* Every client gets what Subscriptions promises, for any clients, filters *)
(* and topics: matching_clients lists each client once that has a filter   *)
(* which MQTT's rules match, and no other; fanout_publish hands out as     *)
(* many copies; and no step but an acknowledgement changes a client's      *)
(* filters, whatever handles are dropped, connections lost and commands    *)
(* sent again.                                                             *)
(***************************************************************************)
THEOREM KeepsPromise == ClientsSpec => PromiseKept
<1>1. Sound /\ [ClientsNext]_allVars => [Promise!Next]_Promise!vars
  BY PromiseStep
<1> QED BY <1>1, PromiseStart, AlwaysSound, PTL DEF ClientsSpec, PromiseKept, Promise!Spec

-----------------------------------------------------------------------------
(***************************************************************************)
(* A hosted runtime: an inactive state keeps each command in pending, so   *)
(* that there is nothing to answer or to publish for, and only an active   *)
(* one loses its connection.                                               *)
(***************************************************************************)
Silent ==
  /\ ~active /\ actions # <<TriggerReconnect>> /\ replay = <<>>
  /\ to_broker = <<>> /\ to_runtime = <<>> /\ granted = {}
  /\ \A client \in Client : mailbox[client] = <<>>

LEMMA CommandSilent == ASSUME Sound, Silent, TakeCommand PROVE Silent'
<1>1. UNCHANGED <<active, replay, to_broker, to_runtime, granted, mailbox>>
  BY CommandDoes DEF Silent, broker
<1>2. CommandOffline(Head(commands), Head(commands).kind)
  BY DEF TakeCommand, Command, CommandUntracked, CommandTracked, Silent
<1>3. actions' = <<>>
  BY <1>2 DEF CommandOffline, SendNothing
<1> QED BY <1>1, <1>3 DEF Silent

LEMMA SilentStep == ASSUME Sound, Silent, [ClientsNext]_allVars PROVE Silent'
<1>1. CASE User \/ CommandChannelClosed \/ UNCHANGED allVars
  BY <1>1 DEF Silent, User, CommandChannelClosed, allVars, vars, network, broker
<1>2. ~PollIncoming
  BY DEF Silent, PollIncoming, Acknowledged, NotAcknowledged, Published, Receive
<1>3. ~Timeout /\ ~Replace /\ ~Restore /\ ~Resend
  BY DEF Silent, Timeout, Replace, LoseConnection, MayLose, Restore, Reconnecting, Resend, Replay
<1>4. ~Broker
  BY DEF Silent, Broker, Answer, Grant, Refuse, Withdraw, Reads, Publish
<1> QED BY <1>1, <1>2, <1>3, <1>4, CommandSilent DEF ClientsNext, Runtime

(***************************************************************************)
(* RuntimeHost::new leaves the state inactive, and then it stays so: what  *)
(* its clients submit is never sent, and no event ever reaches them.       *)
(***************************************************************************)
THEOREM HostNeverServes ==
  ClientsSpec /\ ~active =>
    [](~active /\ to_broker = <<>> /\ \A client \in Client : mailbox[client] = <<>>)
<1>1. ClientsInit /\ ~active => Silent
  BY DEF ClientsInit, Init, Silent
<1>2. Sound /\ Silent /\ [ClientsNext]_allVars => Silent'
  BY SilentStep
<1>3. Silent => ~active /\ to_broker = <<>> /\ \A client \in Client : mailbox[client] = <<>>
  BY DEF Silent
<1> QED BY <1>1, <1>2, <1>3, AlwaysSound, PTL DEF ClientsSpec
=============================================================================
