----------------------------- MODULE WireProofs -----------------------------
(***************************************************************************)
(* That what goes over a link comes out right, for every number of hosts   *)
(* and NATs, of exchanges, of pings, and of frames in the decoder: each    *)
(* part of MCWire keeps an invariant of its own, and whichever part is at  *)
(* work the others stay as they began.                                     *)
(***************************************************************************)
EXTENDS MCWire, SequenceTheorems, WellFoundedInduction, TLAPS

(* Sequences and numbers. *)

\* What Append and Tail do to a sequence, with its length as a number.
LEMMA Appended ==
    ASSUME NEW S, NEW q \in Seq(S), NEW e \in S
    PROVE  \E n \in Nat : /\ Len(q) = n /\ DOMAIN q = 1 .. n
                          /\ Append(q, e) \in Seq(S) /\ Len(Append(q, e)) = n + 1
                          /\ DOMAIN Append(q, e) = 1 .. n + 1 /\ Append(q, e)[n + 1] = e
                          /\ \A i \in 1 .. n : Append(q, e)[i] = q[i]
PROOF
<1> DEFINE n == Len(q) r == Append(q, e)
<1>1. /\ n \in Nat /\ DOMAIN q = 1 .. n /\ r \in Seq(S) /\ Len(r) = n + 1
      /\ DOMAIN r = 1 .. n + 1 /\ r[n + 1] = e /\ \A i \in 1 .. n : r[i] = q[i]
  BY AppendProperties, LenProperties
<1> QED
  BY <1>1, Zenon

LEMMA HeadGone ==
    ASSUME NEW S, NEW q \in Seq(S), q # <<>>
    PROVE  \E n \in Nat : /\ Len(q) = n + 1 /\ DOMAIN q = 1 .. n + 1 /\ Head(q) = q[1] /\ q[1] \in S
                          /\ Tail(q) \in Seq(S) /\ Len(Tail(q)) = n /\ DOMAIN Tail(q) = 1 .. n
                          /\ \A i \in 1 .. n : Tail(q)[i] = q[i + 1]
PROOF
<1> DEFINE t == Tail(q) n == Len(t)
<1>1. t \in Seq(S) /\ Len(q) \in Nat /\ n = Len(q) - 1 /\ Head(q) \in S /\ Head(q) = q[1]
      /\ \A i \in 1 .. n : t[i] = q[i + 1]
  BY HeadTailProperties, LenProperties
<1>2. n \in Nat /\ DOMAIN t = 1 .. n /\ DOMAIN q = 1 .. Len(q)
  BY <1>1, LenProperties
<1> HIDE DEF n, t
<1>3. Len(q) = n + 1
  BY <1>1, <1>2
<1> QED
  BY <1>1, <1>2, <1>3, Zenon DEF t, n

\* A number that is least among those of a set, and one that is largest among those
\* of a set with a bound.
LEMMA LeastOf ==
    ASSUME NEW T, T \subseteq Nat, T # {}
    PROVE  \E x \in T : \A y \in T : x <= y
PROOF
<1>1. PICK x \in T : \A y \in T : <<y, x>> \notin OpToRel(<, Nat)
  BY WFMin, NatLessThanWellFounded, Zenon
<1>2. \A y \in T : ~ (y < x)
  BY <1>1, Zenon DEF OpToRel
<1> QED
  BY <1>2

LEMMA LargestOf ==
    ASSUME NEW n \in Nat, NEW T, T \subseteq 1 .. n, T # {}
    PROVE  \E x \in T : \A y \in T : y <= x
PROOF
<1> DEFINE D == {n - x : x \in T}
<1>1. D \subseteq Nat /\ D # {}
  OBVIOUS
<1>2. PICK d \in D : \A e \in D : d <= e
  BY <1>1, LeastOf
<1>3. PICK x \in T : d = n - x
  BY <1>2
<1>4. \A y \in T : n - x <= n - y
  BY <1>2, <1>3
<1> QED
  BY <1>4

---------------------------------------------------------------------------
(* The simulated NATs. *)

Kinds4 == {"full cone", "address restricted", "port restricted", "symmetric"}
Places == Insiders \cup Nats \cup {Server}
Addresses2 == [ip : Places, port : Nat]
Mappings2 == [inside : Insiders, to : Addresses2, port : Nat, sentTo : SUBSET Addresses2]
NatStates == [kind : Kinds4, next : Nat, mappings : SUBSET Mappings2]

NetTypes ==
    /\ nats \in [Nats -> NatStates]
    /\ boxes \in [Hosts -> Seq([from : Addresses2, for : Hosts])] /\ waiting \subseteq Hosts
    /\ sawAt \in [Insiders -> SUBSET Addresses2]
    /\ counts \in [sent : 0 .. PacketMost, forgot : Nat]
    /\ DOMAIN owner \subseteq Addresses2 /\ owner \in [DOMAIN owner -> Hosts]
    /\ greeted \subseteq [host : Hosts, to : Addresses2]

\* A packet takes a port of one NAT and a place in one box at most.
PacketsCounted ==
    /\ \A n \in Nats : FirstPort <= nats[n].next /\ nats[n].next <= FirstPort + counts.sent
    /\ \A h \in Hosts : Len(boxes[h]) <= counts.sent

\* A port is a host's once and for all, and every mapping is of that host.
OwnerTrue(o, ns) ==
    \A a \in DOMAIN o : IF a.ip \in Nats THEN a.port < ns[a.ip].next ELSE o[a] = a.ip
MappingTrue(o, n, m) ==
    /\ Inside[m.inside] = n
    /\ [ip |-> n, port |-> m.port] \in DOMAIN o /\ o[[ip |-> n, port |-> m.port]] = m.inside
OneEach(nat) ==
    \A l, m \in nat.mappings : nat.kind # "symmetric" /\ l.inside = m.inside => l = m
PortsOwned ==
    /\ OwnerTrue(owner, nats)
    /\ \A n \in Nats : OneEach(nats[n]) /\ \A m \in nats[n].mappings : MappingTrue(owner, n, m)

\* Whoever sent somewhere through its NAT has a mapping that remembers it.
Remembers(nat, h, to) ==
    \E m \in nat.mappings : m.inside = h /\ (nat.kind = "symmetric" => m.to = to) /\ to \in m.sentTo
GoesOut(h, to) ==
    /\ h \in Insiders /\ to.ip # Inside[h]
    /\ to.ip \in Insiders => Inside[to.ip] # Inside[h]
Opened ==
    \A g \in greeted : GoesOut(g.host, g.to) => Remembers(nats[Inside[g.host]], g.host, g.to)

NetInv ==
    NetTypes /\ PacketsCounted /\ PortsOwned /\ Opened /\ NeverMisdelivered /\ NoSleepOverPackets

LEMMA Named ==
    /\ \A h \in Insiders : Inside[h] \in Nats
    /\ Server \notin Insiders /\ Server \notin Nats /\ \A x \in Insiders : x \notin Nats
    /\ Insiders \subseteq Hosts /\ Server \in Hosts /\ Hosts \subseteq Places
    /\ \A h \in Hosts : OwnAddress(h) \in Addresses2
PROOF BY NatAssumption DEF Nats, Hosts, Places, Addresses2, OwnAddress

LEMMA NetStart == NetInit => NetInv
PROOF
<1> SUFFICES ASSUME NetInit
             PROVE  NetInv
  OBVIOUS
<1>1. nats \in [Nats -> NatStates] /\ \A n \in Nats : nats[n].next = FirstPort /\ nats[n].mappings = {}
  <2>1. PICK k \in [Nats -> UNION {KindsOf[n] : n \in Nats}] :
            /\ \A n \in Nats : k[n] \in KindsOf[n]
            /\ nats = [n \in Nats |-> [kind |-> k[n], next |-> FirstPort, mappings |-> {}]]
    BY DEF NetInit
  <2>2. \A n \in Nats : k[n] \in Kinds4
    BY <2>1, NatAssumption DEF Kinds4
  <2> QED
    BY <2>1, <2>2 DEF NatStates, FirstPort
<1>2. /\ boxes = [h \in Hosts |-> <<>>] /\ waiting = Hosts /\ sawAt = [h \in Insiders |-> {}]
      /\ counts.sent = 0 /\ counts = [sent |-> 0, forgot |-> 0]
      /\ DOMAIN owner = {} /\ greeted = {} /\ owner = [a \in {} |-> Server]
  BY DEF NetInit
<1>3. NetTypes
  <2>1. /\ boxes \in [Hosts -> Seq([from : Addresses2, for : Hosts])] /\ waiting \subseteq Hosts
        /\ sawAt \in [Insiders -> SUBSET Addresses2]
    BY <1>2
  <2>2. counts \in [sent : 0 .. PacketMost, forgot : Nat]
    <3>1. PacketMost \in Nat
      BY NatAssumption, Zenon
    <3> QED
      BY <1>2, <3>1
  <2>3. DOMAIN owner \subseteq Addresses2 /\ greeted \subseteq [host : Hosts, to : Addresses2]
    BY <1>2
  <2>4. owner \in [DOMAIN owner -> Hosts]
    BY <1>2
  <2> QED
    BY <1>1, <2>1, <2>2, <2>3, <2>4 DEF NetTypes
<1>4. PacketsCounted
  BY <1>1, <1>2 DEF PacketsCounted, FirstPort
<1>5. PortsOwned /\ Opened
  BY <1>1, <1>2 DEF PortsOwned, OwnerTrue, OneEach, Opened
<1>6. NeverMisdelivered /\ NoSleepOverPackets
  BY <1>2 DEF NeverMisdelivered, NoSleepOverPackets
<1> QED
  BY <1>3, <1>4, <1>5, <1>6 DEF NetInv

\* Whoever a packet reaches is the owner of the address it was sent to.
LEMMA ArriveRight ==
    ASSUME NetInv, NEW to \in Addresses2, NEW ns, to.ip \in Nats => ns[to.ip] = nats[to.ip],
           NEW from, NEW x \in Arrive(ns, from, to)
    PROVE  x \in Hosts /\ Owner(to) = x
PROOF
<1>1. to.ip \in Places
  BY DEF Addresses2
<1>2. CASE to.ip \in Insiders
  <2>0. to.ip \notin Nats /\ to.ip # Server
    BY <1>2, Named
  <2>1. Arrive(ns, from, to) = {}
    BY <1>2, <2>0, Zenon DEF Arrive
  <2> QED
    BY <2>1
<1>3. CASE to.ip \in Nats
  <2>1. to.ip \notin Insiders /\ to.ip # Server
    BY <1>3, Named
  <2>2. PICK m \in nats[to.ip].mappings : m.port = to.port /\ x = m.inside
    BY <1>3, <2>1 DEF Arrive
  <2>3. [ip |-> to.ip, port |-> m.port] = to
    BY <2>2 DEF Addresses2
  <2>4. MappingTrue(owner, to.ip, m)
    BY <1>3, <2>2 DEF NetInv, PortsOwned
  <2>5. to \in DOMAIN owner /\ owner[to] = x
    BY <2>2, <2>3, <2>4 DEF MappingTrue
  <2>6. x \in Hosts
    BY <2>5 DEF NetInv, NetTypes
  <2> QED
    BY <2>5, <2>6 DEF Owner
<1>4. CASE to.ip = Server
  <2>1. to.ip \notin Insiders /\ to.ip \notin Nats
    BY <1>4, Named
  <2>2. x = Server
    BY <1>4, <2>1 DEF Arrive
  <2>3. to \in DOMAIN owner => owner[to] = to.ip
    BY <2>1 DEF NetInv, PortsOwned, OwnerTrue
  <2> QED
    BY <1>4, <2>2, <2>3, Named DEF Owner
<1> QED
  BY <1>1, <1>2, <1>3, <1>4 DEF Places

LEMMA ReachRight ==
    ASSUME NetInv, NEW h \in Hosts, NEW to \in Addresses2, NEW x \in Travel(h, to).reach
    PROVE  x \in Hosts /\ Owner(to) = x
PROOF
<1>1. CASE h = Server
  BY <1>1, ArriveRight DEF Travel
<1>2. CASE h # Server /\ to.ip \in Insiders /\ Inside[to.ip] = Inside[h]
  <2>1. x = to.ip
    BY <1>2 DEF Travel
  <2>2. to \in DOMAIN owner => owner[to] = to.ip
    BY <1>2, Named DEF NetInv, PortsOwned, OwnerTrue
  <2> QED
    BY <1>2, <2>1, <2>2, Named DEF Owner
<1>3. CASE h # Server /\ ~(to.ip \in Insiders /\ Inside[to.ip] = Inside[h]) /\ to.ip = Inside[h]
  BY <1>3 DEF Travel
<1>4. CASE h # Server /\ ~(to.ip \in Insiders /\ Inside[to.ip] = Inside[h]) /\ to.ip # Inside[h]
  <2> DEFINE ns == [nats EXCEPT ![Inside[h]] = Outbound(Inside[h], h, to)]
             from == [ip |-> Inside[h], port |-> PortFor(Inside[h], h, to)]
  <2>1. x \in Arrive(ns, from, to)
    BY <1>4 DEF Travel
  <2>2. to.ip \in Nats => ns[to.ip] = nats[to.ip]
    BY <1>4 DEF NetInv, NetTypes
  <2> HIDE DEF ns, from
  <2> QED
    BY <2>1, <2>2, ArriveRight
<1> QED
  BY <1>1, <1>2, <1>3, <1>4

(* What a NAT does with a packet out. *)

LEMMA OutboundIs ==
    ASSUME NetInv, NEW h \in Insiders, NEW to \in Addresses2,
           NEW n, n = Inside[h], NEW nat, nat = nats[n],
           NEW new, new = Outbound(n, h, to), NEW p, p = PortFor(n, h, to)
    PROVE  /\ new \in NatStates /\ new.kind = nat.kind
           /\ nat.next <= new.next /\ new.next <= nat.next + 1
           /\ p \in Nat /\ p < new.next
           /\ \/ [ip |-> n, port |-> p] \in DOMAIN owner /\ owner[[ip |-> n, port |-> p]] = h
              \/ p = nat.next
           /\ \A m \in new.mappings : \/ \E l \in nat.mappings : l.inside = m.inside /\ l.port = m.port
                                      \/ m.inside = h /\ m.port = p
           /\ \A l \in nat.mappings : \E m \in new.mappings :
                 l.inside = m.inside /\ l.to = m.to /\ l.sentTo \subseteq m.sentTo
           /\ Remembers(new, h, to) /\ OneEach(new)
PROOF
<1> DEFINE M == MappingOf(n, h, to)
<1>1. n \in Nats /\ nat \in NatStates /\ nat.mappings \subseteq Mappings2 /\ nat.next \in Nat
  BY Named DEF NetInv, NetTypes, NatStates
<1>2. /\ M = {m \in nat.mappings : m.inside = h /\ (nat.kind = "symmetric" => m.to = to)}
      /\ M \subseteq nat.mappings
  BY DEF MappingOf
<1>3. OneEach(nat) /\ \A m \in nat.mappings : MappingTrue(owner, n, m)
  BY <1>1 DEF NetInv, PortsOwned
<1>4. \A a \in DOMAIN owner : a.ip = n => a.port < nat.next
  BY <1>1 DEF NetInv, PortsOwned, OwnerTrue
<1>5. CASE M # {}
  <2> DEFINE again(m) == [m EXCEPT !.sentTo = @ \cup {to}]
             S == (nat.mappings \ M) \cup {again(m) : m \in M}
  <2>1. new = [nat EXCEPT !.mappings = S]
    BY <1>5 DEF Outbound
  <2>2. p = (CHOOSE m \in M : TRUE).port
    BY <1>5 DEF PortFor
  <2> HIDE DEF M
  <2>3. PICK c \in M : p = c.port
    BY <1>5, <2>2
  <2>4. \A m \in M : again(m) \in Mappings2 /\ again(m).inside = m.inside /\ again(m).to = m.to
                     /\ again(m).port = m.port /\ again(m).sentTo = m.sentTo \cup {to}
    BY <1>1, <1>2 DEF Mappings2
  <2>5. S \subseteq Mappings2
    BY <1>1, <2>4
  <2>6. new \in NatStates /\ new.kind = nat.kind /\ new.next = nat.next /\ new.mappings = S
    BY <1>1, <2>1, <2>5 DEF NatStates
  <2>7. [ip |-> n, port |-> p] \in DOMAIN owner /\ owner[[ip |-> n, port |-> p]] = h
    BY <1>2, <1>3, <2>3 DEF MappingTrue
  <2>8. p \in Nat /\ p < nat.next
    <3>1. p \in Nat
      BY <1>1, <1>2, <2>3 DEF Mappings2
    <3> QED
      BY <3>1, <1>4, <2>7
  <2> HIDE DEF again
  <2>9. \A m \in S : \E l \in nat.mappings : l.inside = m.inside /\ l.port = m.port
    <3> SUFFICES ASSUME NEW m \in S
                 PROVE  \E l \in nat.mappings : l.inside = m.inside /\ l.port = m.port
      OBVIOUS
    <3>1. CASE m \in nat.mappings
      BY <3>1
    <3>2. CASE m \notin nat.mappings
      <4>1. PICK l \in M : m = again(l)
        BY <3>2
      <4> QED
        BY <4>1, <2>4, <1>2
    <3> QED
      BY <3>1, <3>2
  <2>10. \A l \in nat.mappings : \E m \in S :
            l.inside = m.inside /\ l.to = m.to /\ l.sentTo \subseteq m.sentTo
    <3> SUFFICES ASSUME NEW l \in nat.mappings
                 PROVE  \E m \in S : l.inside = m.inside /\ l.to = m.to /\ l.sentTo \subseteq m.sentTo
      OBVIOUS
    <3>1. CASE l \in M
      <4>1. again(l) \in S
        BY <3>1
      <4> QED
        BY <3>1, <4>1, <2>4
    <3>2. CASE l \notin M
      BY <3>2
    <3> QED
      BY <3>1, <3>2
  <2>11. Remembers(new, h, to)
    <3>1. again(c) \in S /\ c.inside = h /\ (nat.kind = "symmetric" => c.to = to)
      BY <1>2
    <3> QED
      BY <3>1, <2>4, <2>6 DEF Remembers
  <2>12. OneEach(new)
    <3> SUFFICES ASSUME NEW l \in S, NEW m \in S, nat.kind # "symmetric", l.inside = m.inside
                 PROVE  l = m
      BY <2>6 DEF OneEach
    <3>1. PICK l0 \in nat.mappings : l0.inside = l.inside /\ (l0 \in M => l = again(l0)) /\ (l0 \notin M => l = l0)
      BY <1>2, <2>4
    <3>2. PICK m0 \in nat.mappings : m0.inside = m.inside /\ (m0 \in M => m = again(m0)) /\ (m0 \notin M => m = m0)
      BY <1>2, <2>4
    <3>3. l0 = m0
      BY <3>1, <3>2, <1>3 DEF OneEach
    <3> QED
      BY <3>1, <3>2, <3>3
  <2> HIDE DEF S
  <2>13. nat.next <= new.next /\ new.next <= nat.next + 1 /\ p < new.next
    BY <1>1, <2>6, <2>8
  <2> QED
    BY <2>6, <2>7, <2>8, <2>9, <2>10, <2>11, <2>12, <2>13
<1>6. CASE M = {}
  <2> DEFINE z == [inside |-> h, to |-> to, port |-> nat.next, sentTo |-> {to}]
             S == nat.mappings \cup {z}
  <2>1. new = [nat EXCEPT !.next = @ + 1, !.mappings = S]
    BY <1>6 DEF Outbound
  <2>2. p = nat.next
    BY <1>6 DEF PortFor
  <2> HIDE DEF M
  <2>3. z \in Mappings2 /\ z.inside = h /\ z.to = to /\ z.port = nat.next /\ to \in z.sentTo
    BY <1>1 DEF Mappings2
  <2> HIDE DEF z
  <2>4. S \subseteq Mappings2
    BY <1>1, <2>3
  <2>5. new \in NatStates /\ new.kind = nat.kind /\ new.next = nat.next + 1 /\ new.mappings = S
    <3>1. nat.kind \in Kinds4 /\ new = [nat EXCEPT !.next = nat.next + 1, !.mappings = S]
      BY <1>1, <2>1 DEF NatStates
    <3>2. nat.next + 1 \in Nat
      BY <1>1
    <3> HIDE DEF S
    <3>3. new = [kind |-> nat.kind, next |-> nat.next + 1, mappings |-> S]
      BY <1>1, <3>1 DEF NatStates
    <3> QED
      BY <2>4, <3>1, <3>2, <3>3 DEF NatStates
  <2>6. \A m \in S : \/ \E l \in nat.mappings : l.inside = m.inside /\ l.port = m.port
                     \/ m.inside = h /\ m.port = p
    BY <2>2, <2>3
  <2>7. Remembers(new, h, to)
    BY <2>3, <2>5 DEF Remembers
  <2>8. OneEach(new)
    <3> SUFFICES ASSUME NEW l \in S, NEW m \in S, nat.kind # "symmetric", l.inside = m.inside
                 PROVE  l = m
      BY <2>5 DEF OneEach
    <3>1. \A q \in nat.mappings : q.inside # h
      BY <1>2, <1>6
    <3> QED
      BY <3>1, <2>3, <1>3 DEF OneEach
  <2>9. nat.next <= new.next /\ new.next <= nat.next + 1 /\ p < new.next /\ p \in Nat
    BY <1>1, <2>2, <2>5
  <2>10. \A l \in nat.mappings : \E m \in S :
            l.inside = m.inside /\ l.to = m.to /\ l.sentTo \subseteq m.sentTo
    OBVIOUS
  <2> HIDE DEF S
  <2> QED
    BY <2>2, <2>5, <2>6, <2>7, <2>8, <2>9, <2>10
<1> QED
  BY <1>5, <1>6

\* The same of a packet sent, wherever it goes: the NATs may change by one mapping,
\* and no port is of two hosts.
LEMMA TravelIs ==
    ASSUME NetInv, NEW h \in Hosts, NEW to \in Addresses2, NEW t, t = Travel(h, to)
    PROVE  /\ t.ns \in [Nats -> NatStates] /\ t.from \in Addresses2
           /\ \A n \in Nats : /\ nats[n].next <= t.ns[n].next /\ t.ns[n].next <= nats[n].next + 1
                             /\ OneEach(t.ns[n])
                             /\ \A m \in t.ns[n].mappings :
                                   \/ \E l \in nats[n].mappings : l.inside = m.inside /\ l.port = m.port
                                   \/ m.inside = h /\ n = Inside[h] /\ [ip |-> n, port |-> m.port] = t.from
           /\ t.from \in DOMAIN owner => owner[t.from] = h
           /\ t.from.ip \in Nats => t.from.port < t.ns[t.from.ip].next
           /\ t.from.ip \notin Nats => t.from.ip = h
           /\ \A g \in greeted \cup {[host |-> h, to |-> to]} :
                 GoesOut(g.host, g.to) => Remembers(t.ns[Inside[g.host]], g.host, g.to)
PROOF
<1>1. /\ nats \in [Nats -> NatStates] /\ OwnerTrue(owner, nats) /\ Opened
      /\ \A n \in Nats : nats[n].next \in Nat /\ OneEach(nats[n])
  BY DEF NetInv, NetTypes, PortsOwned, NatStates
<1>2. ASSUME t.ns = nats, t.from = OwnAddress(h), ~GoesOut(h, to)
      PROVE  /\ t.ns \in [Nats -> NatStates] /\ t.from \in Addresses2
             /\ \A n \in Nats : /\ nats[n].next <= t.ns[n].next /\ t.ns[n].next <= nats[n].next + 1
                               /\ OneEach(t.ns[n])
                               /\ \A m \in t.ns[n].mappings :
                                     \/ \E l \in nats[n].mappings : l.inside = m.inside /\ l.port = m.port
                                     \/ m.inside = h /\ n = Inside[h] /\ [ip |-> n, port |-> m.port] = t.from
             /\ t.from \in DOMAIN owner => owner[t.from] = h
             /\ t.from.ip \in Nats => t.from.port < t.ns[t.from.ip].next
             /\ t.from.ip \notin Nats => t.from.ip = h
             /\ \A g \in greeted \cup {[host |-> h, to |-> to]} :
                   GoesOut(g.host, g.to) => Remembers(t.ns[Inside[g.host]], g.host, g.to)
  <2>1. t.from \in Addresses2 /\ t.from.ip = h /\ h \notin Nats
    BY <1>2, Named DEF OwnAddress, Hosts
  <2>2. t.from \in DOMAIN owner => owner[t.from] = h
    BY <1>1, <2>1 DEF OwnerTrue
  <2>3. \A n \in Nats : nats[n].next <= nats[n].next /\ nats[n].next <= nats[n].next + 1
    BY <1>1
  <2>4. \A g \in greeted \cup {[host |-> h, to |-> to]} :
           GoesOut(g.host, g.to) => Remembers(nats[Inside[g.host]], g.host, g.to)
    BY <1>1, <1>2 DEF Opened
  <2> QED
    BY <1>1, <1>2, <2>1, <2>2, <2>3, <2>4
<1>3. CASE GoesOut(h, to)
  <2>1. h \in Insiders /\ h # Server /\ to.ip # Inside[h]
        /\ ~(to.ip \in Insiders /\ Inside[to.ip] = Inside[h])
    BY <1>3, Named DEF GoesOut
  <2>2. PICK n : n = Inside[h]
    OBVIOUS
  <2>3. PICK new : new = Outbound(n, h, to)
    OBVIOUS
  <2>4. PICK p : p = PortFor(n, h, to)
    OBVIOUS
  <2>5. t.ns = [nats EXCEPT ![n] = new] /\ t.from = [ip |-> n, port |-> p]
    BY <2>1, <2>2, <2>3, <2>4 DEF Travel
  <2>6. /\ new \in NatStates /\ new.kind = nats[n].kind
        /\ nats[n].next <= new.next /\ new.next <= nats[n].next + 1
        /\ p \in Nat /\ p < new.next
        /\ \/ [ip |-> n, port |-> p] \in DOMAIN owner /\ owner[[ip |-> n, port |-> p]] = h
           \/ p = nats[n].next
        /\ \A m \in new.mappings : \/ \E l \in nats[n].mappings : l.inside = m.inside /\ l.port = m.port
                                   \/ m.inside = h /\ m.port = p
        /\ \A l \in nats[n].mappings : \E m \in new.mappings :
              l.inside = m.inside /\ l.to = m.to /\ l.sentTo \subseteq m.sentTo
        /\ Remembers(new, h, to) /\ OneEach(new)
    BY <2>1, <2>2, <2>3, <2>4, OutboundIs
  <2>7. n \in Nats /\ t.ns[n] = new /\ \A k \in Nats : k # n => t.ns[k] = nats[k]
    BY <1>1, <2>1, <2>2, <2>5, Named
  <2>8. t.ns \in [Nats -> NatStates]
    BY <1>1, <2>5, <2>6
  <2>9. t.from \in Addresses2 /\ t.from.ip = n /\ t.from.port = p
    BY <2>5, <2>6, <2>7, Named DEF Addresses2, Places
  <2>10. \A k \in Nats : /\ nats[k].next <= t.ns[k].next /\ t.ns[k].next <= nats[k].next + 1
                         /\ OneEach(t.ns[k])
    BY <1>1, <2>6, <2>7
  <2>11. \A k \in Nats : \A m \in t.ns[k].mappings :
            \/ \E l \in nats[k].mappings : l.inside = m.inside /\ l.port = m.port
            \/ m.inside = h /\ k = Inside[h] /\ [ip |-> k, port |-> m.port] = t.from
    BY <2>2, <2>5, <2>6, <2>7
  <2>12. t.from \in DOMAIN owner => owner[t.from] = h
    <3>1. t.from \in DOMAIN owner => p < nats[n].next
      BY <1>1, <2>7, <2>9 DEF OwnerTrue
    <3>2. t.from \in DOMAIN owner => p # nats[n].next
      BY <1>1, <2>6, <2>7, <3>1
    <3> QED
      BY <2>5, <2>6, <3>2
  <2>13. \A g \in greeted \cup {[host |-> h, to |-> to]} :
           GoesOut(g.host, g.to) => Remembers(t.ns[Inside[g.host]], g.host, g.to)
    <3> SUFFICES ASSUME NEW g \in greeted \cup {[host |-> h, to |-> to]}, GoesOut(g.host, g.to)
                 PROVE  Remembers(t.ns[Inside[g.host]], g.host, g.to)
      OBVIOUS
    <3>1. CASE g \in greeted
      <4>1. Remembers(nats[Inside[g.host]], g.host, g.to)
        BY <1>1, <3>1 DEF Opened
      <4>2. CASE Inside[g.host] = n
        BY <4>1, <4>2, <2>6, <2>7 DEF Remembers
      <4>3. CASE Inside[g.host] # n
        <5>1. Inside[g.host] \in Nats
          BY Named DEF GoesOut
        <5> QED
          BY <4>1, <4>3, <5>1, <2>7
      <4> QED
        BY <4>2, <4>3
    <3>2. CASE g = [host |-> h, to |-> to]
      BY <3>2, <2>2, <2>6, <2>7
    <3> QED
      BY <3>1, <3>2
  <2> QED
    BY <2>6, <2>7, <2>8, <2>9, <2>10, <2>11, <2>12, <2>13
<1>4. CASE ~GoesOut(h, to)
  <2>1. t.ns = nats /\ t.from = OwnAddress(h)
    <3>1. CASE h = Server
      BY <3>1 DEF Travel
    <3>2. CASE h # Server /\ to.ip \in Insiders /\ Inside[to.ip] = Inside[h]
      BY <3>2 DEF Travel
    <3>3. CASE h # Server /\ ~(to.ip \in Insiders /\ Inside[to.ip] = Inside[h]) /\ to.ip = Inside[h]
      BY <3>3 DEF Travel
    <3> QED
      BY <1>4, <3>1, <3>2, <3>3 DEF GoesOut, Hosts
  <2> QED
    BY <1>2, <1>4, <2>1
<1> QED
  BY <1>3, <1>4

LEMMA SendStep ==
    ASSUME NetInv, NEW h \in Hosts, NEW to \in Addresses2, Send(h, to)
    PROVE  NetInv'
PROOF
<1>1. PICK t : t = Travel(h, to)
  OBVIOUS
<1>2. /\ t.ns \in [Nats -> NatStates] /\ t.from \in Addresses2
      /\ \A n \in Nats : /\ nats[n].next <= t.ns[n].next /\ t.ns[n].next <= nats[n].next + 1
                        /\ OneEach(t.ns[n])
                        /\ \A m \in t.ns[n].mappings :
                              \/ \E l \in nats[n].mappings : l.inside = m.inside /\ l.port = m.port
                              \/ m.inside = h /\ n = Inside[h] /\ [ip |-> n, port |-> m.port] = t.from
      /\ t.from \in DOMAIN owner => owner[t.from] = h
      /\ t.from.ip \in Nats => t.from.port < t.ns[t.from.ip].next
      /\ t.from.ip \notin Nats => t.from.ip = h
      /\ \A g \in greeted \cup {[host |-> h, to |-> to]} :
            GoesOut(g.host, g.to) => Remembers(t.ns[Inside[g.host]], g.host, g.to)
  BY <1>1, TravelIs
<1>3. /\ counts.sent < PacketMost /\ counts' = [counts EXCEPT !.sent = @ + 1]
      /\ nats' = t.ns /\ sawAt' = sawAt
      /\ owner' = [a \in DOMAIN owner \cup {t.from} |-> IF a \in DOMAIN owner THEN owner[a] ELSE h]
      /\ greeted' = greeted \cup {[host |-> h, to |-> to]}
      /\ \/ boxes' = boxes /\ waiting' = waiting
         \/ \E x \in t.reach : /\ boxes' = [boxes EXCEPT ![x] = Append(@, [from |-> t.from, for |-> Owner(to)])]
                               /\ waiting' = waiting \ {x}
  BY <1>1 DEF Send, Push
<1>4. NetTypes /\ PacketsCounted /\ PortsOwned /\ NeverMisdelivered /\ NoSleepOverPackets
  BY DEF NetInv
<1>5. /\ counts.sent \in Nat /\ counts.sent + 1 \in 0 .. PacketMost /\ counts'.sent = counts.sent + 1
      /\ counts' \in [sent : 0 .. PacketMost, forgot : Nat]
  <2>1. PacketMost \in Nat
    BY NatAssumption, Zenon
  <2>2. counts \in [sent : 0 .. PacketMost, forgot : Nat]
    BY <1>4 DEF NetTypes
  <2>3. counts.sent \in Nat /\ counts.sent + 1 \in 0 .. PacketMost
    BY <1>3, <2>1, <2>2
  <2> QED
    BY <1>3, <2>2, <2>3
<1>6. \A n \in Nats : FirstPort <= nats'[n].next /\ nats'[n].next <= FirstPort + counts'.sent
  <2> SUFFICES ASSUME NEW n \in Nats
               PROVE  FirstPort <= t.ns[n].next /\ t.ns[n].next <= FirstPort + (counts.sent + 1)
    BY <1>3, <1>5
  <2>1. nats[n].next \in Nat /\ t.ns[n].next \in Nat
    BY <1>2, <1>4 DEF NetTypes, NatStates
  <2>2. FirstPort <= nats[n].next /\ nats[n].next <= FirstPort + counts.sent /\ FirstPort \in Nat
    BY <1>4 DEF PacketsCounted, FirstPort
  <2>3. nats[n].next <= t.ns[n].next /\ t.ns[n].next <= nats[n].next + 1
    BY <1>2
  <2> QED
    BY <1>5, <2>1, <2>2, <2>3
<1>7. DOMAIN owner' = DOMAIN owner \cup {t.from} /\ owner'[t.from] = h
      /\ \A a \in DOMAIN owner : owner'[a] = owner[a]
  BY <1>2, <1>3
<1>8. DOMAIN owner' \subseteq Addresses2 /\ owner' \in [DOMAIN owner' -> Hosts]
      /\ greeted' \subseteq [host : Hosts, to : Addresses2]
  BY <1>2, <1>3, <1>4, <1>7 DEF NetTypes
<1>9. OwnerTrue(owner', nats')
  <2> SUFFICES ASSUME NEW a \in DOMAIN owner'
               PROVE  IF a.ip \in Nats THEN a.port < t.ns[a.ip].next ELSE owner'[a] = a.ip
    BY <1>3 DEF OwnerTrue
  <2>1. CASE a = t.from
    BY <2>1, <1>2, <1>7
  <2>2. CASE a \in DOMAIN owner
    <3>1. CASE a.ip \in Nats
      <4>1. a.port < nats[a.ip].next /\ nats[a.ip].next <= t.ns[a.ip].next
        BY <1>2, <1>4, <2>2, <3>1 DEF PortsOwned, OwnerTrue
      <4>2. a.port \in Nat /\ nats[a.ip].next \in Nat /\ t.ns[a.ip].next \in Nat
        BY <1>2, <1>4, <2>2, <3>1 DEF NetTypes, NatStates, Addresses2
      <4> QED
        BY <3>1, <4>1, <4>2
    <3>2. CASE a.ip \notin Nats
      BY <1>4, <1>7, <2>2, <3>2 DEF PortsOwned, OwnerTrue
    <3> QED
      BY <3>1, <3>2
  <2> QED
    BY <1>7, <2>1, <2>2
<1>10. \A n \in Nats : OneEach(nats'[n]) /\ \A m \in nats'[n].mappings : MappingTrue(owner', n, m)
  <2> SUFFICES ASSUME NEW n \in Nats, NEW m \in t.ns[n].mappings
               PROVE  MappingTrue(owner', n, m)
    BY <1>2, <1>3
  <2>1. CASE \E l \in nats[n].mappings : l.inside = m.inside /\ l.port = m.port
    BY <1>4, <1>7, <2>1 DEF PortsOwned, MappingTrue
  <2>2. CASE m.inside = h /\ n = Inside[h] /\ [ip |-> n, port |-> m.port] = t.from
    BY <1>7, <2>2 DEF MappingTrue
  <2> QED
    BY <1>2, <2>1, <2>2
<1>11. PortsOwned'
  BY <1>9, <1>10 DEF PortsOwned, OwnerTrue, OneEach, MappingTrue
<1>12. Opened'
  BY <1>2, <1>3 DEF Opened, Remembers, GoesOut
<1>13. /\ boxes' \in [Hosts -> Seq([from : Addresses2, for : Hosts])] /\ waiting' \subseteq Hosts
       /\ \A k \in Hosts : Len(boxes'[k]) <= counts'.sent
       /\ \A k \in Hosts : \A i \in DOMAIN boxes'[k] : boxes'[k][i].for = k
       /\ \A k \in waiting' : boxes'[k] = <<>>
  <2>1. /\ boxes \in [Hosts -> Seq([from : Addresses2, for : Hosts])] /\ waiting \subseteq Hosts
        /\ \A k \in Hosts : Len(boxes[k]) <= counts.sent /\ Len(boxes[k]) \in Nat
        /\ \A k \in Hosts : \A i \in DOMAIN boxes[k] : boxes[k][i].for = k
        /\ \A k \in waiting : boxes[k] = <<>>
    <3>1. /\ boxes \in [Hosts -> Seq([from : Addresses2, for : Hosts])] /\ waiting \subseteq Hosts
      BY <1>4 DEF NetTypes
    <3>2. \A k \in Hosts : Len(boxes[k]) \in Nat
      BY <3>1, LenProperties
    <3> QED
      BY <3>1, <3>2, <1>4 DEF PacketsCounted, NeverMisdelivered, NoSleepOverPackets
  <2>2. CASE boxes' = boxes /\ waiting' = waiting
    <3>1. \A k \in Hosts : Len(boxes[k]) <= counts.sent + 1
      BY <2>1, <1>5
    <3> QED
      BY <2>1, <2>2, <3>1, <1>5
  <2>3. ASSUME NEW x \in t.reach, waiting' = waiting \ {x},
               boxes' = [boxes EXCEPT ![x] = Append(@, [from |-> t.from, for |-> Owner(to)])]
        PROVE  /\ boxes' \in [Hosts -> Seq([from : Addresses2, for : Hosts])] /\ waiting' \subseteq Hosts
               /\ \A k \in Hosts : Len(boxes'[k]) <= counts'.sent
               /\ \A k \in Hosts : \A i \in DOMAIN boxes'[k] : boxes'[k][i].for = k
               /\ \A k \in waiting' : boxes'[k] = <<>>
    <3>1. x \in Hosts /\ Owner(to) = x
      BY <1>1, ReachRight
    <3>2. PICK e : e = [from |-> t.from, for |-> Owner(to)]
      OBVIOUS
    <3>3. e \in [from : Addresses2, for : Hosts] /\ e.for = x
      BY <1>2, <3>1, <3>2
    <3>4. PICK q : q = Append(boxes[x], e)
      OBVIOUS
    <3>5. PICK n \in Nat : /\ Len(boxes[x]) = n /\ DOMAIN boxes[x] = 1 .. n
                           /\ q \in Seq([from : Addresses2, for : Hosts]) /\ Len(q) = n + 1
                           /\ DOMAIN q = 1 .. n + 1 /\ q[n + 1] = e
                           /\ \A i \in 1 .. n : q[i] = boxes[x][i]
      <4>1. boxes[x] \in Seq([from : Addresses2, for : Hosts])
        BY <2>1, <3>1
      <4>2. PICK b : b = boxes[x]
        OBVIOUS
      <4>3. q = Append(b, e) /\ b \in Seq([from : Addresses2, for : Hosts])
        BY <4>1, <4>2, <3>4
      <4> QED
        BY <3>3, <4>2, <4>3, Appended
    <3>6. boxes' = [boxes EXCEPT ![x] = q]
      BY <2>3, <3>2, <3>4
    <3>7. boxes'[x] = q /\ \A k \in Hosts : k # x => boxes'[k] = boxes[k]
      BY <2>1, <3>1, <3>6
    <3>8. boxes' \in [Hosts -> Seq([from : Addresses2, for : Hosts])]
      BY <2>1, <3>5, <3>6, Zenon
    <3>9. \A k \in Hosts : Len(boxes'[k]) <= counts'.sent
      <4>1. Len(q) <= counts.sent + 1
        BY <2>1, <3>1, <3>5, <1>5
      <4>2. \A k \in Hosts : Len(boxes[k]) <= counts.sent + 1
        BY <2>1, <1>5
      <4> QED
        BY <3>7, <4>1, <4>2, <1>5
    <3>10. \A k \in Hosts : \A i \in DOMAIN boxes'[k] : boxes'[k][i].for = k
      <4>1. \A i \in DOMAIN q : q[i].for = x
        <5> SUFFICES ASSUME NEW i \in 1 .. n + 1
                     PROVE  q[i].for = x
          BY <3>5
        <5>1. i = n + 1 \/ i \in 1 .. n
          OBVIOUS
        <5> QED
          BY <5>1, <2>1, <3>1, <3>3, <3>5
      <4> QED
        BY <2>1, <3>7, <4>1
    <3> QED
      BY <2>1, <2>3, <3>7, <3>8, <3>9, <3>10
  <2> QED
    BY <1>3, <2>2, <2>3
<1>14. sawAt' \in [Insiders -> SUBSET Addresses2] /\ nats' \in [Nats -> NatStates]
  BY <1>2, <1>3, <1>4 DEF NetTypes
<1>15. NetTypes'
  BY <1>5, <1>8, <1>13, <1>14 DEF NetTypes
<1>16. PacketsCounted' /\ NeverMisdelivered' /\ NoSleepOverPackets'
  BY <1>6, <1>13 DEF PacketsCounted, NeverMisdelivered, NoSleepOverPackets
<1> QED
  BY <1>11, <1>12, <1>15, <1>16 DEF NetInv

LEMMA PollStep ==
    ASSUME NetInv, NEW h \in Hosts, PollsSocket(h)
    PROVE  NetInv'
PROOF
<1>1. /\ nats' = nats /\ counts' = counts /\ owner' = owner /\ greeted' = greeted
      /\ PollRecv(h)
  BY DEF PollsSocket
<1>2. NetTypes /\ PacketsCounted /\ PortsOwned /\ Opened /\ NeverMisdelivered /\ NoSleepOverPackets
  BY DEF NetInv
<1>3. PortsOwned' /\ Opened'
  BY <1>1, <1>2 DEF PortsOwned, OwnerTrue, OneEach, MappingTrue, Opened, Remembers, GoesOut
<1>4. /\ boxes \in [Hosts -> Seq([from : Addresses2, for : Hosts])]
      /\ sawAt \in [Insiders -> SUBSET Addresses2] /\ waiting \subseteq Hosts
      /\ counts.sent \in Nat
  <2>1. PacketMost \in Nat
    BY NatAssumption, Zenon
  <2>2. /\ boxes \in [Hosts -> Seq([from : Addresses2, for : Hosts])]
        /\ sawAt \in [Insiders -> SUBSET Addresses2] /\ waiting \subseteq Hosts
        /\ counts \in [sent : 0 .. PacketMost, forgot : Nat]
    BY <1>2 DEF NetTypes
  <2>3. counts.sent \in 0 .. PacketMost
    BY <2>2
  <2>4. counts.sent \in Nat
    BY <2>1, <2>3
  <2> QED
    BY <2>2, <2>4
<1>5. CASE boxes[h] # <<>> /\ boxes' = [boxes EXCEPT ![h] = <<>>] /\ waiting' = waiting
           /\ sawAt' = IF h = Server
                       THEN [x \in Insiders |->
                         LET mine == {i \in DOMAIN boxes[h] : Owner(boxes[h][i].from) = x}
                         IN  IF mine = {} THEN sawAt[x]
                             ELSE {boxes[h][CHOOSE i \in mine : \A j \in mine : j <= i].from}]
                       ELSE sawAt
  <2>1. boxes' \in [Hosts -> Seq([from : Addresses2, for : Hosts])]
        /\ boxes'[h] = <<>> /\ \A k \in Hosts : k # h => boxes'[k] = boxes[k]
    <3>1. boxes' = [boxes EXCEPT ![h] = <<>>]
      BY <1>5
    <3>2. <<>> \in Seq([from : Addresses2, for : Hosts])
      OBVIOUS
    <3> QED
      BY <1>4, <3>1, <3>2, Zenon
  <2>2. ASSUME NEW x \in Insiders,
               NEW T, T = {i \in DOMAIN boxes[h] : Owner(boxes[h][i].from) = x}, T # {}
        PROVE  boxes[h][CHOOSE i \in T : \A j \in T : j <= i].from \in Addresses2
    <3>1. PICK n \in Nat : DOMAIN boxes[h] = 1 .. n
      BY <1>4, LenProperties
    <3>2. T \subseteq 1 .. n
      BY <2>2, <3>1
    <3>3. \E i \in T : \A j \in T : j <= i
      BY <2>2, <3>2, LargestOf
    <3>4. (CHOOSE i \in T : \A j \in T : j <= i) \in DOMAIN boxes[h]
      BY <3>1, <3>2, <3>3, Zenon
    <3>5. \A i \in DOMAIN boxes[h] : boxes[h][i] \in [from : Addresses2, for : Hosts]
      BY <1>4, <3>1, ElementOfSeq, LenProperties
    <3> QED
      BY <3>4, <3>5
  <2>3. sawAt' \in [Insiders -> SUBSET Addresses2]
    <3>1. CASE h = Server
      <4> DEFINE T(x) == {i \in DOMAIN boxes[h] : Owner(boxes[h][i].from) = x}
                 at(x) == IF T(x) = {} THEN sawAt[x]
                          ELSE {boxes[h][CHOOSE i \in T(x) : \A j \in T(x) : j <= i].from}
      <4>1. sawAt' = [x \in Insiders |-> at(x)]
        BY <1>5, <3>1
      <4>2. \A x \in Insiders : T(x) # {} =>
               boxes[h][CHOOSE i \in T(x) : \A j \in T(x) : j <= i].from \in Addresses2
        BY <2>2
      <4> HIDE DEF T
      <4>3. \A x \in Insiders : at(x) \subseteq Addresses2
        BY <4>2, <1>4
      <4> HIDE DEF at
      <4> QED
        BY <4>1, <4>3
    <3>2. CASE h # Server
      BY <1>4, <1>5, <3>2
    <3> QED
      BY <3>1, <3>2
  <2>4. NetTypes'
    BY <1>1, <1>2, <1>5, <2>1, <2>3 DEF NetTypes
  <2>5. PacketsCounted'
    <3>1. Len(<<>>) <= counts.sent
      BY <1>4
    <3>2. \A k \in Hosts : Len(boxes'[k]) <= counts'.sent
      BY <1>1, <1>2, <2>1, <3>1, Zenon DEF PacketsCounted
    <3> QED
      BY <1>1, <1>2, <3>2, Zenon DEF PacketsCounted
  <2>6. NeverMisdelivered' /\ NoSleepOverPackets'
    BY <1>2, <1>4, <1>5, <2>1 DEF NeverMisdelivered, NoSleepOverPackets
  <2> QED
    BY <1>3, <2>4, <2>5, <2>6 DEF NetInv
<1>6. CASE boxes[h] = <<>> /\ waiting' = waiting \cup {h} /\ boxes' = boxes /\ sawAt' = sawAt
  <2>1. NetTypes' /\ PacketsCounted'
    BY <1>1, <1>2, <1>6 DEF NetTypes, PacketsCounted
  <2>2. NeverMisdelivered' /\ NoSleepOverPackets'
    BY <1>2, <1>6 DEF NeverMisdelivered, NoSleepOverPackets
  <2> QED
    BY <1>3, <2>1, <2>2 DEF NetInv
<1>7. (\/ boxes[h] # <<>> /\ boxes' = [boxes EXCEPT ![h] = <<>>] /\ waiting' = waiting
          /\ sawAt' = IF h = Server
                      THEN [x \in Insiders |->
                        LET mine == {i \in DOMAIN boxes[h] : Owner(boxes[h][i].from) = x}
                        IN  IF mine = {} THEN sawAt[x]
                            ELSE {boxes[h][CHOOSE i \in mine : \A j \in mine : j <= i].from}]
                      ELSE sawAt
       \/ boxes[h] = <<>> /\ waiting' = waiting \cup {h} /\ boxes' = boxes /\ sawAt' = sawAt)
  BY <1>1 DEF PollRecv
<1> QED
  BY <1>5, <1>6, <1>7

\* A NAT that forgets its mappings keeps its ports, and what was sent through it has
\* to be sent again.
LEMMA ForgetStep ==
    ASSUME NetInv, NEW n \in Nats, ForgetMappings(n)
    PROVE  NetInv'
PROOF
<1>1. /\ nats' = [nats EXCEPT ![n].mappings = {}]
      /\ greeted' = {g \in greeted : g.host = Server \/ Inside[g.host] # n}
      /\ counts' = [counts EXCEPT !.forgot = @ + 1]
      /\ boxes' = boxes /\ waiting' = waiting /\ sawAt' = sawAt /\ owner' = owner
  BY DEF ForgetMappings
<1>2. NetTypes /\ PacketsCounted /\ PortsOwned /\ Opened /\ NeverMisdelivered /\ NoSleepOverPackets
  BY DEF NetInv
<1>3. nats \in [Nats -> NatStates] /\ counts \in [sent : 0 .. PacketMost, forgot : Nat]
  BY <1>2 DEF NetTypes
<1>4. /\ nats' \in [Nats -> NatStates] /\ nats'[n].mappings = {}
      /\ \A k \in Nats : nats'[k].next = nats[k].next
      /\ \A k \in Nats : k # n => nats'[k] = nats[k]
  <2>1. PICK z : z = [nats[n] EXCEPT !.mappings = {}]
    OBVIOUS
  <2>2. z \in NatStates /\ z.mappings = {} /\ z.next = nats[n].next
    BY <1>3, <2>1 DEF NatStates
  <2>3. nats' = [nats EXCEPT ![n] = z]
    BY <1>1, <2>1
  <2> QED
    BY <1>3, <2>2, <2>3
<1>5. counts' \in [sent : 0 .. PacketMost, forgot : Nat] /\ counts'.sent = counts.sent
  BY <1>1, <1>3
<1>6. NetTypes'
  BY <1>1, <1>2, <1>4, <1>5 DEF NetTypes
<1>7. PacketsCounted'
  BY <1>1, <1>2, <1>4, <1>5 DEF PacketsCounted
<1>8. PortsOwned'
  <2>1. OwnerTrue(owner', nats')
    BY <1>1, <1>2, <1>4 DEF PortsOwned, OwnerTrue
  <2>2. \A k \in Nats : OneEach(nats'[k]) /\ \A m \in nats'[k].mappings : MappingTrue(owner', k, m)
    <3> SUFFICES ASSUME NEW k \in Nats
                 PROVE  OneEach(nats'[k]) /\ \A m \in nats'[k].mappings : MappingTrue(owner', k, m)
      OBVIOUS
    <3>1. CASE k = n
      BY <3>1, <1>4 DEF OneEach
    <3>2. CASE k # n
      BY <3>2, <1>1, <1>2, <1>4 DEF PortsOwned
    <3> QED
      BY <3>1, <3>2
  <2> QED
    BY <2>1, <2>2 DEF PortsOwned, OwnerTrue, OneEach, MappingTrue
<1>9. Opened'
  <2> SUFFICES ASSUME NEW g \in greeted', GoesOut(g.host, g.to)
               PROVE  Remembers(nats'[Inside[g.host]], g.host, g.to)
    BY DEF Opened, GoesOut, Remembers
  <2>1. g \in greeted /\ g.host \in Insiders /\ Inside[g.host] # n /\ Inside[g.host] \in Nats
    BY <1>1, Named DEF GoesOut
  <2> QED
    BY <1>2, <1>4, <2>1 DEF Opened
<1> QED
  BY <1>1, <1>2, <1>6, <1>7, <1>8, <1>9 DEF NetInv, NeverMisdelivered, NoSleepOverPackets

LEMMA NetStep == NetInv /\ [NetNext]_netVars => NetInv'
PROOF
<1> SUFFICES ASSUME NetInv, [NetNext]_netVars
             PROVE  NetInv'
  OBVIOUS
<1>1. \A x \in Insiders : x \in Hosts /\ sawAt[x] \subseteq Addresses2
  BY Named DEF NetInv, NetTypes
<1>2. ASSUME NEW h \in Insiders, SendsToServer(h)
      PROVE  NetInv'
  BY <1>1, <1>2, Named, SendStep DEF SendsToServer
<1>3. ASSUME NEW h \in Insiders, NEW x \in Insiders, SendsToPeer(h, x)
      PROVE  NetInv'
  BY <1>1, <1>3, SendStep DEF SendsToPeer
<1>4. ASSUME NEW h \in Insiders, NEW x \in Insiders, SendsPrivately(h, x)
      PROVE  NetInv'
  BY <1>1, <1>4, Named, SendStep DEF SendsPrivately
<1>5. ASSUME NEW x \in Insiders, ServerAnswers(x)
      PROVE  NetInv'
  BY <1>1, <1>5, Named, SendStep DEF ServerAnswers
<1>6. ASSUME NEW h \in Hosts, PollsSocket(h)
      PROVE  NetInv'
  BY <1>6, PollStep
<1>7. ASSUME NEW n \in Nats, ForgetMappings(n)
      PROVE  NetInv'
  BY <1>7, ForgetStep
<1>8. CASE UNCHANGED netVars
  <2>1. /\ nats' = nats /\ boxes' = boxes /\ waiting' = waiting /\ sawAt' = sawAt
        /\ counts' = counts /\ owner' = owner /\ greeted' = greeted
    BY <1>8 DEF netVars
  <2>2. NetTypes' /\ PacketsCounted'
    BY <2>1 DEF NetInv, NetTypes, PacketsCounted
  <2>3. PortsOwned'
    BY <2>1 DEF NetInv, PortsOwned, OwnerTrue, OneEach, MappingTrue
  <2>4. Opened' /\ NeverMisdelivered' /\ NoSleepOverPackets'
    BY <2>1 DEF NetInv, Opened, Remembers, GoesOut, NeverMisdelivered, NoSleepOverPackets
  <2> QED
    BY <2>2, <2>3, <2>4 DEF NetInv
<1> QED
  BY <1>2, <1>3, <1>4, <1>5, <1>6, <1>7, <1>8 DEF NetNext

\* A hole is punched: each end's mapping is the one the server saw, and remembers
\* the other.
LEMMA HolePunched == NetInv => PunchGetsThrough
PROOF
<1> SUFFICES ASSUME NetInv, NEW h \in Insiders, NEW x \in Insiders,
                    NEW a \in sawAt[h], NEW b \in sawAt[x], Inside[h] # Inside[x],
                    nats[Inside[h]].kind # "symmetric", nats[Inside[x]].kind # "symmetric",
                    HasOpened(h, a, b), HasOpened(x, b, a)
             PROVE  Travel(h, b).reach = {x}
  BY DEF PunchGetsThrough
<1>1. PICK n \in Nats : n = Inside[h]
  BY Named
<1>2. PICK k \in Nats : k = Inside[x]
  BY Named
<1>3. /\ a.ip = n /\ a = [ip |-> n, port |-> PortFor(n, h, b)] /\ [host |-> x, to |-> a] \in greeted
      /\ b.ip = k /\ b.port = PortFor(k, x, a)
  BY <1>1, <1>2 DEF HasOpened
<1>4. /\ nats \in [Nats -> NatStates] /\ OneEach(nats[k])
      /\ \A m \in nats[k].mappings : MappingTrue(owner, k, m)
  BY DEF NetInv, NetTypes, PortsOwned
<1>5. Remembers(nats[k], x, a)
  <2>1. GoesOut(x, a)
    BY <1>1, <1>2, <1>3, Named DEF GoesOut
  <2> QED
    BY <1>2, <1>3, <2>1 DEF NetInv, Opened
<1>6. PICK m \in nats[k].mappings : m.inside = x /\ a \in m.sentTo
  BY <1>5 DEF Remembers
<1>7. MappingOf(k, x, a) = {m}
  BY <1>2, <1>4, <1>6 DEF MappingOf, OneEach
<1>8. b.port = m.port
  <2>1. (CHOOSE l \in {m} : TRUE) = m
    OBVIOUS
  <2>2. PortFor(k, x, a) = (CHOOSE l \in {m} : TRUE).port
    BY <1>7 DEF PortFor
  <2> QED
    BY <1>3, <2>1, <2>2
<1>9. PICK ns : ns = [nats EXCEPT ![n] = Outbound(n, h, b)]
  OBVIOUS
<1>10. ns[k] = nats[k]
  BY <1>1, <1>2, <1>4, <1>9
<1>11. Travel(h, b).reach = Arrive(ns, a, b)
  <2>1. h # Server /\ b.ip \notin Insiders /\ b.ip # Inside[h]
    BY <1>1, <1>2, <1>3, Named
  <2> QED
    BY <2>1, <1>1, <1>3, <1>9 DEF Travel
<1>12. Arrive(ns, a, b) = {l.inside : l \in {q \in nats[k].mappings :
                              q.port = b.port /\ LetsIn(nats[k].kind, q, a)}}
  <2>1. b.ip \notin Insiders /\ b.ip # Server /\ b.ip \in Nats
    BY <1>3, Named
  <2> QED
    BY <2>1, <1>3, <1>10 DEF Arrive
<1>13. LetsIn(nats[k].kind, m, a)
  <2>1. nats[k].kind \in Kinds4
    BY <1>4 DEF NatStates
  <2> QED
    BY <2>1, <1>6 DEF LetsIn, Kinds4
<1>14. \A q \in nats[k].mappings : q.port = b.port => q.inside = x
  BY <1>4, <1>6, <1>8 DEF MappingTrue
<1> QED
  BY <1>6, <1>8, <1>11, <1>12, <1>13, <1>14

LEMMA NetSafe == NetInv => NetTypeOK /\ NeverMisdelivered /\ PunchGetsThrough /\ NoSleepOverPackets
PROOF
<1> SUFFICES ASSUME NetInv
             PROVE  NetTypeOK
  BY HolePunched DEF NetInv
<1>1. PacketMost \in Nat
  BY NatAssumption, Zenon
<1>2. NetTypes /\ PacketsCounted
  BY DEF NetInv
<1>3. counts.sent \in 0 .. PacketMost /\ \A n \in Nats : nats[n].next \in Nat
  BY <1>2 DEF NetTypes, NatStates
<1>4. \A h \in Hosts : Len(boxes[h]) \in Nat
  BY <1>2, LenProperties DEF NetTypes
<1>5. \A n \in Nats : nats[n].next \in Ports
  BY <1>1, <1>2, <1>3 DEF PacketsCounted, Ports, FirstPort
<1>6. \A h \in Hosts : Len(boxes[h]) <= PacketMost
  BY <1>1, <1>2, <1>3, <1>4 DEF PacketsCounted
<1> QED
  BY <1>2, <1>5, <1>6 DEF NetTypeOK, NetTypes

THEOREM NetworkSafe ==
    NetSpec => [](NetTypeOK /\ NeverMisdelivered /\ PunchGetsThrough /\ NoSleepOverPackets)
PROOF
<1>1. NetInit => NetInv
  BY NetStart
<1>2. NetInv /\ [NetNext]_netVars => NetInv'
  BY NetStep
<1>3. NetInv => NetTypeOK /\ NeverMisdelivered /\ PunchGetsThrough /\ NoSleepOverPackets
  BY NetSafe
<1> QED
  BY <1>1, <1>2, <1>3, PTL DEF NetSpec

---------------------------------------------------------------------------
(* The proof of a password. Every message and every proof that is about is *)
(* the one its end made, and an end keeps what it made and what it took.   *)

Materials == {<<>>} \cup {Material(k, t) : k \in SecretKinds, t \in Typed}
Pakes == [side : {"viewer", "agent", "none"}, by : Ends2 \cup {"none"}, material : Materials]
EndStates ==
    [at : {"new", "started", "answered", "proved", "admitted", "refused"},
     kind : SecretKinds, typed : Typed, binding : Bindings, mine : Pakes, theirs : Pakes]
EndTypes == ends \in [Ends2 -> EndStates]

\* What an end's own message is.
Own(side, e) == [side |-> side, by |-> e, material |-> Material(ends[e].kind, ends[e].typed)]
ProofAt(whose, e) == ProofOf(whose, ends[e].mine, ends[e].theirs, ends[e].binding)

SentOK(x) ==
    \/ x.side = "viewer" /\ x.by \in ViewerEnds /\ x = ends[x.by].mine
    \/ x.side = "agent" /\ x.by \in AgentEnds /\ x = ends[x.by].mine

\* A viewer that took a message made its own before and sent its proof.
ViewerDid(v) ==
    /\ ends[v].at = "new" => ends[v].mine = NoPake
    /\ ends[v].mine # NoPake => ends[v].mine = Own("viewer", v)
    /\ ends[v].at \in {"started", "proved", "admitted"} => ends[v].mine # NoPake
    /\ ends[v].at \in {"new", "started"} => ends[v].theirs = NoPake
    /\ ends[v].at \in {"proved", "admitted"} => ends[v].theirs # NoPake
    /\ ends[v].theirs # NoPake =>
          /\ ends[v].mine # NoPake
          /\ ends[v].theirs \in pakes /\ ends[v].theirs.side = "agent"
          /\ ProofAt("viewer", v) \in proofs
    /\ ends[v].at = "admitted" => ProofAt("agent", v) \in proofs

\* An agent makes its message when it takes one, and admits only on a proof.
AgentDid(a) ==
    /\ ends[a].at = "new" => ends[a].mine = NoPake /\ ends[a].theirs = NoPake
    /\ ends[a].at \in {"answered", "admitted"} => ends[a].theirs # NoPake
    /\ ends[a].theirs = NoPake <=> ends[a].mine = NoPake
    /\ ends[a].theirs # NoPake =>
          /\ ends[a].mine = Own("agent", a)
          /\ ends[a].theirs \in pakes /\ ends[a].theirs.side = "viewer"
    /\ ends[a].at = "admitted" => ProofAt("viewer", a) \in proofs

ProvedOK(p) ==
    \/ \E v \in ViewerEnds : ends[v].theirs # NoPake /\ p = ProofAt("viewer", v)
    \/ \E a \in AgentEnds : ends[a].at = "admitted" /\ p = ProofAt("agent", a)

SentByEnds == \A x \in pakes : SentOK(x)
ProvedByEnds == \A p \in proofs : ProvedOK(p)
ViewersDid == \A v \in ViewerEnds : ViewerDid(v)
AgentsDid == \A a \in AgentEnds : AgentDid(a)

PakeInv == EndTypes /\ SentByEnds /\ ViewersDid /\ AgentsDid /\ ProvedByEnds

LEMMA PakeStart == PakeInit => PakeInv
PROOF
<1> SUFFICES ASSUME PakeInit
             PROVE  PakeInv
  OBVIOUS
<1>1. NoPake \in Pakes
  BY DEF NoPake, Pakes, Materials
<1>2. EndTypes
  BY <1>1 DEF PakeInit, EndTypes, EndStates, End
<1>3. \A e \in Ends2 : ends[e].at = "new" /\ ends[e].mine = NoPake /\ ends[e].theirs = NoPake
  BY DEF PakeInit, End
<1>4. pakes = {} /\ proofs = {}
  BY DEF PakeInit
<1> QED
  BY <1>2, <1>3, <1>4 DEF PakeInv, SentByEnds, ViewersDid, AgentsDid, ProvedByEnds, Ends2,
     ViewerDid, AgentDid

\* An end that goes on keeps what it is, what it was told to use, where it is
\* connected, the messages it has and its decision.
GoesOn(e) ==
    /\ ends'[e].kind = ends[e].kind /\ ends'[e].typed = ends[e].typed
    /\ ends'[e].binding = ends[e].binding
    /\ ends[e].mine # NoPake => ends'[e].mine = ends[e].mine
    /\ ends[e].theirs # NoPake => ends'[e].theirs = ends[e].theirs
    /\ ends[e].at = "admitted" => ends'[e].at = "admitted"

LEMMA OthersStay ==
    ASSUME EndTypes, NEW e \in Ends2, NEW r, ends' = [ends EXCEPT ![e] = r]
    PROVE  ends'[e] = r /\ \A f \in Ends2 : f # e => ends'[f] = ends[f]
PROOF BY DEF EndTypes, EndStates

\* Then what was true of the messages, the proofs and the other ends still is.
LEMMA OthersKept ==
    ASSUME PakeInv, NEW e \in Ends2, GoesOn(e), \A f \in Ends2 : f # e => ends'[f] = ends[f],
           pakes \subseteq pakes', proofs \subseteq proofs'
    PROVE  /\ \A x \in pakes : SentOK(x)'
           /\ \A p \in proofs : ProvedOK(p)'
           /\ \A v \in ViewerEnds : v # e => ViewerDid(v)'
           /\ \A a \in AgentEnds : a # e => AgentDid(a)'
PROOF
<1>1. \A f \in Ends2 : GoesOn(f)
  BY DEF GoesOn
<1>2. \A x \in pakes : x # NoPake
  BY DEF PakeInv, SentByEnds, SentOK, NoPake
<1>3. \A x \in pakes : SentOK(x)'
  BY <1>1, <1>2 DEF PakeInv, SentByEnds, SentOK, GoesOn, Ends2
<1>4. ASSUME NEW p \in proofs
      PROVE  ProvedOK(p)'
  <2>1. CASE \E v \in ViewerEnds : ends[v].theirs # NoPake /\ p = ProofAt("viewer", v)
    <3>1. PICK v \in ViewerEnds : ends[v].theirs # NoPake /\ p = ProofAt("viewer", v)
      BY <2>1
    <3>2. ends[v].mine # NoPake /\ GoesOn(v)
      BY <1>1, <3>1 DEF PakeInv, ViewersDid, ViewerDid, Ends2
    <3> QED
      BY <3>1, <3>2 DEF GoesOn, ProofAt, ProvedOK
  <2>2. CASE \E a \in AgentEnds : ends[a].at = "admitted" /\ p = ProofAt("agent", a)
    <3>1. PICK a \in AgentEnds : ends[a].at = "admitted" /\ p = ProofAt("agent", a)
      BY <2>2
    <3>2. ends[a].mine # NoPake /\ ends[a].theirs # NoPake /\ GoesOn(a)
      BY <1>1, <3>1 DEF PakeInv, AgentsDid, AgentDid, Ends2
    <3> QED
      BY <3>1, <3>2 DEF GoesOn, ProofAt, ProvedOK
  <2> QED
    BY <2>1, <2>2 DEF PakeInv, ProvedByEnds, ProvedOK
<1>5. \A v \in ViewerEnds : v # e => ViewerDid(v)'
  BY DEF PakeInv, ViewersDid, ViewerDid, Own, ProofAt, Ends2
<1>6. \A a \in AgentEnds : a # e => AgentDid(a)'
  BY DEF PakeInv, AgentsDid, AgentDid, Own, ProofAt, Ends2
<1> QED
  BY <1>3, <1>4, <1>5, <1>6

\* A step of one end that goes on is right if what is new is.
LEMMA OneStep ==
    ASSUME PakeInv, NEW e \in Ends2, GoesOn(e), EndTypes', \A f \in Ends2 : f # e => ends'[f] = ends[f],
           pakes \subseteq pakes', proofs \subseteq proofs',
           \A x \in pakes' \ pakes : SentOK(x)', \A p \in proofs' \ proofs : ProvedOK(p)',
           e \in ViewerEnds => ViewerDid(e)', e \in AgentEnds => AgentDid(e)'
    PROVE  PakeInv'
PROOF
<1>1. /\ \A x \in pakes : SentOK(x)'
      /\ \A p \in proofs : ProvedOK(p)'
      /\ \A v \in ViewerEnds : v # e => ViewerDid(v)'
      /\ \A a \in AgentEnds : a # e => AgentDid(a)'
  BY OthersKept
<1>2. \A x \in pakes' : SentOK(x)'
  BY <1>1
<1>3. \A p \in proofs' : ProvedOK(p)'
  BY <1>1
<1> QED
  BY <1>1, <1>2, <1>3, Zenon DEF PakeInv, SentByEnds, ProvedByEnds, ViewersDid, AgentsDid

LEMMA OneMoves ==
    ASSUME EndTypes, NEW e \in Ends2, NEW z \in EndStates, ends' = [ends EXCEPT ![e] = z]
    PROVE  EndTypes' /\ ends'[e] = z /\ \A f \in Ends2 : f # e => ends'[f] = ends[f]
PROOF BY DEF EndTypes

LEMMA PakesAre ==
    ASSUME PakeInv
    PROVE  /\ \A x \in pakes : x \in Pakes /\ x # NoPake /\ x.side \in {"viewer", "agent"}
           /\ \A e \in Ends2 : /\ Own("viewer", e) \in Pakes /\ Own("viewer", e) # NoPake
                               /\ Own("agent", e) \in Pakes /\ Own("agent", e) # NoPake
PROOF
<1>1. \A e \in Ends2 : ends[e].kind \in SecretKinds /\ ends[e].typed \in Typed /\ ends[e].mine \in Pakes
  BY DEF PakeInv, EndTypes, EndStates
<1>2. \A e \in Ends2 : Material(ends[e].kind, ends[e].typed) \in Materials
  BY <1>1 DEF Materials
<1>3. \A e \in Ends2 : /\ Own("viewer", e) \in Pakes /\ Own("viewer", e) # NoPake
                       /\ Own("agent", e) \in Pakes /\ Own("agent", e) # NoPake
  BY <1>2 DEF Own, Pakes, NoPake
<1>4. \A x \in pakes : x \in Pakes /\ x # NoPake /\ x.side \in {"viewer", "agent"}
  BY <1>1 DEF PakeInv, SentByEnds, SentOK, NoPake, Ends2
<1> QED
  BY <1>3, <1>4

LEMMA StartsStep == PakeInv /\ (\E v \in ViewerEnds : ViewerStarts(v)) => PakeInv'
PROOF
<1> SUFFICES ASSUME PakeInv, NEW v \in ViewerEnds, ViewerStarts(v)
             PROVE  PakeInv'
  OBVIOUS
<1>0. PICK x : x = Own("viewer", v)
  OBVIOUS
<1>1. v \in Ends2 /\ v \notin AgentEnds /\ EndTypes /\ ViewerDid(v) /\ x \in Pakes /\ x # NoPake
  BY <1>0, PakesAre, EndsAssumption DEF PakeInv, ViewersDid, Ends2
<1>2. ends[v].at = "new" /\ ends[v].mine = NoPake /\ ends[v].theirs = NoPake
  BY <1>1 DEF ViewerStarts, ViewerDid
<1>3. proofs' = proofs
  BY DEF ViewerStarts
<1>4. CASE ends[v].kind = "unreasonable"
  <2>1. ends' = [ends EXCEPT ![v].at = "refused"] /\ pakes' = pakes
    BY <1>4 DEF ViewerStarts
  <2>2. EndTypes' /\ ends'[v] = [ends[v] EXCEPT !.at = "refused"]
        /\ \A f \in Ends2 : f # v => ends'[f] = ends[f]
    <3>1. PICK z : z = [ends[v] EXCEPT !.at = "refused"]
      OBVIOUS
    <3>2. z \in EndStates
      BY <1>1, <3>1 DEF EndTypes, EndStates
    <3>3. ends' = [ends EXCEPT ![v] = z]
      BY <2>1, <3>1
    <3> QED
      BY <1>1, <3>1, <3>2, <3>3, OneMoves
  <2>3. ends'[v].at = "refused" /\ ends'[v].mine = NoPake /\ ends'[v].theirs = NoPake /\ GoesOn(v)
    BY <1>1, <1>2, <2>2 DEF GoesOn, EndTypes, EndStates
  <2>4. ViewerDid(v)'
    BY <2>3 DEF ViewerDid
  <2> QED
    BY <1>1, <1>3, <2>1, <2>2, <2>3, <2>4, OneStep
<1>5. CASE ends[v].kind # "unreasonable"
  <2>1. ends' = [ends EXCEPT ![v].at = "started", ![v].mine = x] /\ pakes' = pakes \cup {x}
    BY <1>0, <1>5 DEF ViewerStarts, Own
  <2>2. EndTypes' /\ ends'[v] = [ends[v] EXCEPT !.at = "started", !.mine = x]
        /\ \A f \in Ends2 : f # v => ends'[f] = ends[f]
    <3>1. PICK z : z = [ends[v] EXCEPT !.at = "started", !.mine = x]
      OBVIOUS
    <3>2. z \in EndStates
      BY <1>1, <3>1 DEF EndTypes, EndStates
    <3>3. ends' = [ends EXCEPT ![v] = z]
      BY <2>1, <3>1
    <3> QED
      BY <1>1, <3>1, <3>2, <3>3, OneMoves
  <2>3. ends'[v].at = "started" /\ ends'[v].mine = x /\ ends'[v].theirs = NoPake /\ GoesOn(v)
    BY <1>1, <1>2, <2>2 DEF GoesOn, EndTypes, EndStates
  <2>4. x.side = "viewer" /\ x.by = v /\ x = Own("viewer", v)'
    BY <1>0, <2>3 DEF Own, GoesOn
  <2>5. ViewerDid(v)' /\ SentOK(x)'
    BY <1>1, <2>3, <2>4 DEF ViewerDid, SentOK
  <2> QED
    BY <1>1, <1>3, <2>1, <2>2, <2>3, <2>5, OneStep
<1> QED
  BY <1>4, <1>5

LEMMA AnswersStep == PakeInv /\ (\E a \in AgentEnds : \E y \in pakes : AgentAnswers(a, y)) => PakeInv'
PROOF
<1> SUFFICES ASSUME PakeInv, NEW a \in AgentEnds, NEW y \in pakes, AgentAnswers(a, y)
             PROVE  PakeInv'
  OBVIOUS
<1>0. PICK x : x = Own("agent", a)
  OBVIOUS
<1>1. /\ a \in Ends2 /\ a \notin ViewerEnds /\ EndTypes /\ AgentDid(a) /\ x \in Pakes /\ x # NoPake
      /\ y \in Pakes /\ y # NoPake /\ y.side \in {"viewer", "agent"}
  BY <1>0, PakesAre, EndsAssumption DEF PakeInv, AgentsDid, Ends2
<1>2. ends[a].at = "new" /\ ends[a].mine = NoPake /\ ends[a].theirs = NoPake
  BY <1>1 DEF AgentAnswers, AgentDid
<1>3. proofs' = proofs
  BY DEF AgentAnswers
<1>4. CASE y.side = "agent"
  <2>1. ends' = [ends EXCEPT ![a].at = "refused"] /\ pakes' = pakes
    BY <1>4 DEF AgentAnswers
  <2>2. EndTypes' /\ ends'[a] = [ends[a] EXCEPT !.at = "refused"]
        /\ \A f \in Ends2 : f # a => ends'[f] = ends[f]
    <3>1. PICK z : z = [ends[a] EXCEPT !.at = "refused"]
      OBVIOUS
    <3>2. z \in EndStates
      BY <1>1, <3>1 DEF EndTypes, EndStates
    <3>3. ends' = [ends EXCEPT ![a] = z]
      BY <2>1, <3>1
    <3> QED
      BY <1>1, <3>1, <3>2, <3>3, OneMoves
  <2>3. ends'[a].at = "refused" /\ ends'[a].mine = NoPake /\ ends'[a].theirs = NoPake /\ GoesOn(a)
    BY <1>1, <1>2, <2>2 DEF GoesOn, EndTypes, EndStates
  <2>4. AgentDid(a)'
    BY <2>3 DEF AgentDid
  <2> QED
    BY <1>1, <1>3, <2>1, <2>2, <2>3, <2>4, OneStep
<1>5. CASE y.side # "agent"
  <2>1. /\ ends' = [ends EXCEPT ![a].at = "answered", ![a].mine = x, ![a].theirs = y]
        /\ pakes' = pakes \cup {x}
    BY <1>0, <1>5 DEF AgentAnswers, Own
  <2>2. EndTypes' /\ ends'[a] = [ends[a] EXCEPT !.at = "answered", !.mine = x, !.theirs = y]
        /\ \A f \in Ends2 : f # a => ends'[f] = ends[f]
    <3>1. PICK z : z = [ends[a] EXCEPT !.at = "answered", !.mine = x, !.theirs = y]
      OBVIOUS
    <3>2. z \in EndStates
      BY <1>1, <3>1 DEF EndTypes, EndStates
    <3>3. ends' = [ends EXCEPT ![a] = z]
      BY <2>1, <3>1
    <3> QED
      BY <1>1, <3>1, <3>2, <3>3, OneMoves
  <2>3. ends'[a].at = "answered" /\ ends'[a].mine = x /\ ends'[a].theirs = y /\ GoesOn(a)
    BY <1>1, <1>2, <2>2 DEF GoesOn, EndTypes, EndStates
  <2>4. x.side = "agent" /\ x.by = a /\ x = Own("agent", a)'
    BY <1>0, <2>3 DEF Own, GoesOn
  <2>5. AgentDid(a)' /\ SentOK(x)'
    BY <1>1, <1>5, <2>1, <2>3, <2>4 DEF AgentDid, SentOK
  <2> QED
    BY <1>1, <1>3, <2>1, <2>2, <2>3, <2>5, OneStep
<1> QED
  BY <1>4, <1>5

LEMMA ProvesStep == PakeInv /\ (\E v \in ViewerEnds : \E y \in pakes : ViewerProves(v, y)) => PakeInv'
PROOF
<1> SUFFICES ASSUME PakeInv, NEW v \in ViewerEnds, NEW y \in pakes, ViewerProves(v, y)
             PROVE  PakeInv'
  OBVIOUS
<1>1. /\ v \in Ends2 /\ v \notin AgentEnds /\ EndTypes /\ ViewerDid(v)
      /\ y \in Pakes /\ y # NoPake /\ y.side \in {"viewer", "agent"}
  BY PakesAre, EndsAssumption DEF PakeInv, ViewersDid, Ends2
<1>2. /\ ends[v].at = "started" /\ ends[v].mine = Own("viewer", v) /\ ends[v].mine # NoPake
      /\ ends[v].theirs = NoPake
  BY <1>1 DEF ViewerProves, ViewerDid
<1>3. pakes' = pakes
  BY DEF ViewerProves
<1>4. CASE y.side = "viewer"
  <2>1. ends' = [ends EXCEPT ![v].at = "refused"] /\ proofs' = proofs
    BY <1>4 DEF ViewerProves
  <2>2. EndTypes' /\ ends'[v] = [ends[v] EXCEPT !.at = "refused"]
        /\ \A f \in Ends2 : f # v => ends'[f] = ends[f]
    <3>1. PICK z : z = [ends[v] EXCEPT !.at = "refused"]
      OBVIOUS
    <3>2. z \in EndStates
      BY <1>1, <3>1 DEF EndTypes, EndStates
    <3>3. ends' = [ends EXCEPT ![v] = z]
      BY <2>1, <3>1
    <3> QED
      BY <1>1, <3>1, <3>2, <3>3, OneMoves
  <2>3. ends'[v].at = "refused" /\ ends'[v].mine = ends[v].mine /\ ends'[v].theirs = NoPake /\ GoesOn(v)
    BY <1>1, <1>2, <2>2 DEF GoesOn, EndTypes, EndStates
  <2>4. ViewerDid(v)'
    BY <1>2, <2>3 DEF ViewerDid, Own, GoesOn
  <2> QED
    BY <1>1, <1>3, <2>1, <2>2, <2>3, <2>4, OneStep
<1>5. CASE y.side # "viewer"
  <2>0. PICK p : p = ProofOf("viewer", ends[v].mine, y, ends[v].binding)
    OBVIOUS
  <2>1. ends' = [ends EXCEPT ![v].at = "proved", ![v].theirs = y] /\ proofs' = proofs \cup {p}
    BY <2>0, <1>5 DEF ViewerProves
  <2>2. EndTypes' /\ ends'[v] = [ends[v] EXCEPT !.at = "proved", !.theirs = y]
        /\ \A f \in Ends2 : f # v => ends'[f] = ends[f]
    <3>1. PICK z : z = [ends[v] EXCEPT !.at = "proved", !.theirs = y]
      OBVIOUS
    <3>2. z \in EndStates
      BY <1>1, <3>1 DEF EndTypes, EndStates
    <3>3. ends' = [ends EXCEPT ![v] = z]
      BY <2>1, <3>1
    <3> QED
      BY <1>1, <3>1, <3>2, <3>3, OneMoves
  <2>3. ends'[v].at = "proved" /\ ends'[v].mine = ends[v].mine /\ ends'[v].theirs = y /\ GoesOn(v)
    BY <1>1, <1>2, <2>2 DEF GoesOn, EndTypes, EndStates
  <2>4. p = ProofAt("viewer", v)'
    BY <2>0, <2>3 DEF ProofAt, GoesOn
  <2>5. ViewerDid(v)'
    <3>1. ends'[v].mine = Own("viewer", v)' /\ ends'[v].mine # NoPake
      BY <1>2, <2>3 DEF Own, GoesOn
    <3>2. y \in pakes' /\ y.side = "agent" /\ ProofAt("viewer", v)' \in proofs'
      BY <1>1, <1>3, <1>5, <2>1, <2>4
    <3> QED
      BY <1>1, <2>3, <3>1, <3>2 DEF ViewerDid
  <2>6. ProvedOK(p)'
    BY <1>1, <2>3, <2>4 DEF ProvedOK
  <2> QED
    BY <1>1, <1>3, <2>1, <2>2, <2>3, <2>5, <2>6, OneStep
<1> QED
  BY <1>4, <1>5

LEMMA AgentChecksStep == PakeInv /\ (\E a \in AgentEnds : \E p \in proofs : AgentChecks(a, p)) => PakeInv'
PROOF
<1> SUFFICES ASSUME PakeInv, NEW a \in AgentEnds, NEW p \in proofs, AgentChecks(a, p)
             PROVE  PakeInv'
  OBVIOUS
<1>1. a \in Ends2 /\ a \notin ViewerEnds /\ EndTypes /\ AgentDid(a)
  BY EndsAssumption DEF PakeInv, AgentsDid, Ends2
<1>2. /\ ends[a].at = "answered" /\ ends[a].theirs # NoPake /\ ends[a].mine # NoPake
      /\ ends[a].mine = Own("agent", a) /\ ends[a].theirs \in pakes /\ ends[a].theirs.side = "viewer"
  BY <1>1 DEF AgentChecks, AgentDid
<1>3. pakes' = pakes
  BY DEF AgentChecks
<1>4. PICK d \in {"admitted", "refused"} :
          /\ ends' = [ends EXCEPT ![a].at = d]
          /\ d = "admitted" => /\ ProofAt("viewer", a) \in proofs
                               /\ proofs' = proofs \cup {ProofAt("agent", a)}
          /\ d = "refused" => proofs' = proofs
  BY DEF AgentChecks, ProofAt
<1>5. EndTypes' /\ ends'[a] = [ends[a] EXCEPT !.at = d] /\ \A f \in Ends2 : f # a => ends'[f] = ends[f]
  BY <1>1, <1>4 DEF EndTypes, EndStates
<1>6. /\ ends'[a].at = d /\ ends'[a].mine = ends[a].mine /\ ends'[a].theirs = ends[a].theirs
      /\ ends'[a].binding = ends[a].binding /\ GoesOn(a)
  BY <1>1, <1>2, <1>5 DEF GoesOn, EndTypes, EndStates
<1>7. /\ Own("agent", a)' = Own("agent", a) /\ ProofAt("viewer", a)' = ProofAt("viewer", a)
      /\ ProofAt("agent", a)' = ProofAt("agent", a)
  BY <1>6 DEF Own, ProofAt, GoesOn
<1>8. AgentDid(a)'
  BY <1>2, <1>3, <1>4, <1>6, <1>7 DEF AgentDid
<1>9. \A q \in proofs' \ proofs : ProvedOK(q)'
  BY <1>4, <1>6, <1>7 DEF ProvedOK
<1>10. proofs \subseteq proofs'
  BY <1>4
<1> QED
  BY <1>1, <1>3, <1>5, <1>6, <1>8, <1>9, <1>10, OneStep

LEMMA ViewerChecksStep == PakeInv /\ (\E v \in ViewerEnds : \E p \in proofs : ViewerChecks(v, p)) => PakeInv'
PROOF
<1> SUFFICES ASSUME PakeInv, NEW v \in ViewerEnds, NEW p \in proofs, ViewerChecks(v, p)
             PROVE  PakeInv'
  OBVIOUS
<1>1. v \in Ends2 /\ v \notin AgentEnds /\ EndTypes /\ ViewerDid(v)
  BY EndsAssumption DEF PakeInv, ViewersDid, Ends2
<1>2. /\ ends[v].at = "proved" /\ ends[v].mine = Own("viewer", v) /\ ends[v].mine # NoPake
      /\ ends[v].theirs # NoPake /\ ends[v].theirs \in pakes /\ ends[v].theirs.side = "agent"
      /\ ProofAt("viewer", v) \in proofs
  BY <1>1 DEF ViewerChecks, ViewerDid
<1>3. pakes' = pakes /\ proofs' = proofs
  BY DEF ViewerChecks
<1>4. PICK d \in {"admitted", "refused"} :
          /\ ends' = [ends EXCEPT ![v].at = d]
          /\ d = "admitted" => ProofAt("agent", v) \in proofs
  BY DEF ViewerChecks, ProofAt
<1>5. EndTypes' /\ ends'[v] = [ends[v] EXCEPT !.at = d] /\ \A f \in Ends2 : f # v => ends'[f] = ends[f]
  BY <1>1, <1>4 DEF EndTypes, EndStates
<1>6. /\ ends'[v].at = d /\ ends'[v].mine = ends[v].mine /\ ends'[v].theirs = ends[v].theirs
      /\ ends'[v].binding = ends[v].binding /\ GoesOn(v)
  BY <1>1, <1>2, <1>5 DEF GoesOn, EndTypes, EndStates
<1>7. /\ Own("viewer", v)' = Own("viewer", v) /\ ProofAt("viewer", v)' = ProofAt("viewer", v)
      /\ ProofAt("agent", v)' = ProofAt("agent", v)
  BY <1>6 DEF Own, ProofAt, GoesOn
<1>8. ViewerDid(v)'
  BY <1>2, <1>3, <1>4, <1>6, <1>7 DEF ViewerDid
<1> QED
  BY <1>1, <1>3, <1>5, <1>6, <1>8, OneStep

LEMMA PakeStep == PakeInv /\ [PakeNext]_pakeVars => PakeInv'
PROOF
<1>1. PakeInv /\ UNCHANGED pakeVars => PakeInv'
  BY DEF pakeVars, PakeInv, EndTypes, EndStates, SentByEnds, SentOK, ViewersDid, ViewerDid, AgentsDid, AgentDid,
     ProvedByEnds, ProvedOK, ProofAt, Own
<1> QED
  BY <1>1, StartsStep, AnswersStep, ProvesStep, AgentChecksStep, ViewerChecksStep DEF PakeNext

\* Two ends whose proofs are the same one met: each has the other's message, they
\* are on one connection and had the same material.
LEMMA SameProofMet ==
    ASSUME PakeInv, NEW v \in ViewerEnds, NEW a \in AgentEnds, NEW whose,
           ends[v].theirs # NoPake, ends[a].theirs # NoPake, ProofAt(whose, v) = ProofAt(whose, a)
    PROVE  Met(v, a)
PROOF
<1>1. /\ ends[v].mine = Own("viewer", v) /\ ends[v].theirs.side = "agent"
      /\ ends[a].mine = Own("agent", a) /\ ends[a].theirs.side = "viewer" /\ v # a
  BY EndsAssumption DEF PakeInv, ViewersDid, ViewerDid, AgentsDid, AgentDid
<1>2. /\ ends[v].mine.side = "viewer" /\ ends[v].mine.by = v
      /\ ends[a].mine.side = "agent" /\ ends[a].mine.by = a
  BY <1>1 DEF Own
<1>3. /\ KeyOf(ends[v].mine, ends[v].theirs) = KeyOf(ends[a].mine, ends[a].theirs)
      /\ ends[v].binding = ends[a].binding
  BY DEF ProofAt, ProofOf
<1>4. ends[v].mine = ends[a].theirs /\ ends[v].theirs = ends[a].mine
  BY <1>2, <1>3 DEF KeyOf
<1>5. ends[v].mine.material = ends[a].mine.material
  BY <1>1, <1>2, <1>3, <1>4 DEF KeyOf
<1> QED
  BY <1>3, <1>4, <1>5 DEF Met

LEMMA PakeSafe == PakeInv => PakeTypeOK /\ AdmittedMet /\ ViewerMet /\ RightPasswordWorks
PROOF
<1> SUFFICES ASSUME PakeInv
             PROVE  PakeTypeOK /\ AdmittedMet /\ ViewerMet /\ RightPasswordWorks
  OBVIOUS
<1>1. PakeTypeOK
  BY DEF PakeInv, EndTypes, EndStates, SentByEnds, SentOK, PakeTypeOK, Ends2
<1>2. ASSUME NEW a \in AgentEnds, ends[a].at = "admitted"
      PROVE  \E v \in ViewerEnds : Met(v, a)
  <2>1. ends[a].theirs # NoPake /\ ProofAt("viewer", a) \in proofs
    BY <1>2 DEF PakeInv, AgentsDid, AgentDid
  <2>2. ProofAt("viewer", a).whose = "viewer"
    BY DEF ProofAt, ProofOf
  <2>3. \A b \in AgentEnds : ProofAt("viewer", a) # ProofAt("agent", b)
    BY DEF ProofAt, ProofOf
  <2>4. PICK v \in ViewerEnds : ends[v].theirs # NoPake /\ ProofAt("viewer", a) = ProofAt("viewer", v)
    BY <2>1, <2>3 DEF PakeInv, ProvedByEnds, ProvedOK
  <2> QED
    BY <2>1, <2>4, SameProofMet
<1>3. ASSUME NEW v \in ViewerEnds, ends[v].at = "admitted"
      PROVE  \E a \in AgentEnds : Met(v, a) /\ ends[a].at = "admitted"
  <2>1. ends[v].theirs # NoPake /\ ProofAt("agent", v) \in proofs
    BY <1>3 DEF PakeInv, ViewersDid, ViewerDid
  <2>2. \A w \in ViewerEnds : ProofAt("agent", v) # ProofAt("viewer", w)
    BY DEF ProofAt, ProofOf
  <2>3. PICK a \in AgentEnds : ends[a].at = "admitted" /\ ProofAt("agent", v) = ProofAt("agent", a)
    BY <2>1, <2>2 DEF PakeInv, ProvedByEnds, ProvedOK
  <2>4. ends[a].theirs # NoPake
    BY <2>3 DEF PakeInv, AgentsDid, AgentDid
  <2> QED
    BY <2>1, <2>3, <2>4, SameProofMet
<1>4. ASSUME NEW v \in ViewerEnds, NEW a \in AgentEnds, ends[v].binding = ends[a].binding,
             ends[v].kind = "one time", ends[a].kind = "one time",
             ends[v].typed[1] = ends[a].typed[1], ends[v].theirs.by = a, ends[a].theirs.by = v
      PROVE  \E p \in proofs : p = ProofOf("viewer", ends[a].mine, ends[a].theirs, ends[a].binding)
  <2>1. ends[v].theirs # NoPake /\ ends[a].theirs # NoPake
    <3>1. v # "none" /\ a # "none"
      BY EndsAssumption
    <3>2. NoPake.by = "none"
      BY DEF NoPake
    <3> QED
      BY <1>4, <3>1, <3>2
  <2>2. /\ ends[v].mine = Own("viewer", v) /\ ends[v].theirs \in pakes /\ ends[v].theirs.side = "agent"
        /\ ends[a].mine = Own("agent", a) /\ ends[a].theirs \in pakes /\ ends[a].theirs.side = "viewer"
        /\ ProofAt("viewer", v) \in proofs
    BY <2>1 DEF PakeInv, ViewersDid, ViewerDid, AgentsDid, AgentDid
  <2>3. ends[v].theirs = ends[a].mine /\ ends[a].theirs = ends[v].mine
    BY <1>4, <2>2 DEF PakeInv, SentByEnds, SentOK
  <2>4. Material(ends[v].kind, ends[v].typed) = Material(ends[a].kind, ends[a].typed)
    BY <1>4 DEF Material
  <2>5. /\ ends[v].mine.side = "viewer" /\ ends[a].mine.side = "agent"
        /\ ends[v].mine.material = ends[a].mine.material
    BY <2>2, <2>4 DEF Own
  <2>6. KeyOf(ends[v].mine, ends[v].theirs) = KeyOf(ends[a].mine, ends[a].theirs)
    BY <2>3, <2>5 DEF KeyOf
  <2> QED
    BY <1>4, <2>2, <2>6 DEF ProofAt, ProofOf
<1> QED
  BY <1>1, <1>2, <1>3, <1>4 DEF AdmittedMet, ViewerMet, RightPasswordWorks

\* An agent admits only the viewer at the other end of its own connection, a viewer
\* goes on only with an agent there that has the password and let it in, and a
\* one-time password is right however it was spaced: for any number of exchanges,
\* whatever turns up late, twice or on another connection (access.rs: Viewer, Agent,
\* Proven; prove in session.rs and direct.rs).
THEOREM PasswordAlwaysProved ==
    PakeSpec => [](PakeTypeOK /\ AdmittedMet /\ ViewerMet /\ RightPasswordWorks)
PROOF BY PakeStart, PakeStep, PakeSafe, PTL DEF PakeSpec

---------------------------------------------------------------------------
(* The clocks. *)

Sample == [rtt : Int, offset : Int]

ClockTypes ==
    /\ nowUs \in 0 .. NowBound /\ skew \in Int /\ drifts \in Nat /\ links \in Nat /\ pinged \in Nat
    /\ pings \in Seq(Int) /\ pongs \in Seq([sent : Int, agent : Int, since : Nat])
    /\ samples \in Seq(Sample) /\ fresh \in Nat

\* An exchange answered while the clocks were as they are now is off by at most half
\* its round trip.
Good(s, k) == s.offset - k <= (s.rtt + 1) \div 2 /\ k - s.offset <= (s.rtt + 1) \div 2

\* What is on the way was sent before now, and answered in between by a clock that
\* has drifted since or is as it was.
OnTheLine ==
    /\ Len(pings) + Len(pongs) <= pinged
    /\ \A i \in DOMAIN pings : 0 <= pings[i] /\ pings[i] <= nowUs
    /\ \A i \in DOMAIN pongs :
          /\ 0 <= pongs[i].sent /\ pongs[i].sent <= nowUs /\ pongs[i].since <= drifts
          /\ pongs[i].since = drifts =>
                pongs[i].sent <= pongs[i].agent - skew /\ pongs[i].agent - skew <= nowUs

\* The newest samples, as many as are fresh, are good ones.
FreshGood ==
    /\ Len(samples) <= ClockWindow
    /\ \A i \in DOMAIN samples :
          /\ samples[i].rtt \in 0 .. NowBound
          /\ i + fresh > Len(samples) => Good(samples[i], skew)

ClockInv == ClockTypes /\ OnTheLine /\ FreshGood

LEMMA ClockStart == ClockInit => ClockInv
PROOF
<1> SUFFICES ASSUME ClockInit
             PROVE  ClockInv
  OBVIOUS
<1>1. pings = <<>> /\ pongs = <<>> /\ samples = <<>> /\ nowUs = 0 /\ skew = 3 /\ drifts = 0
      /\ links = 1 /\ pinged = 0 /\ fresh = 0
  BY DEF ClockInit
<1>2. ClockTypes
  BY <1>1, ClockAssumption DEF ClockTypes
<1> QED
  BY <1>1, <1>2, ClockAssumption DEF ClockInv, OnTheLine, FreshGood

\* The best of some samples is one of them.
LEMMA BestIsOne ==
    ASSUME NEW q \in Seq(Sample), q # <<>>, \A i \in DOMAIN q : q[i].rtt \in Nat
    PROVE  \E i \in DOMAIN q : Best(q) = q[i]
PROOF
<1>1. DOMAIN q \subseteq Nat /\ DOMAIN q # {}
  BY LenProperties, EmptySeq
<1> DEFINE R == {q[i].rtt : i \in DOMAIN q}
<1>2. R \subseteq Nat /\ R # {}
  BY <1>1
<1>3. PICK r \in R : \A y \in R : r <= y
  BY <1>2, LeastOf
<1> DEFINE F == {i \in DOMAIN q : q[i].rtt = r}
<1>4. F \subseteq Nat /\ F # {}
  BY <1>1, <1>3
<1>5. PICK f \in F : \A y \in F : f <= y
  BY <1>4, LeastOf
<1>6. f \in DOMAIN q /\ \A j \in DOMAIN q : q[f].rtt <= q[j].rtt /\ (q[f].rtt = q[j].rtt => f <= j)
  BY <1>3, <1>5
<1> QED
  BY <1>6, Zenon DEF Best

LEMMA ClockStep == ClockInv /\ [ClockNext]_clockVars => ClockInv'
PROOF
<1> SUFFICES ASSUME ClockInv, [ClockNext]_clockVars
             PROVE  ClockInv'
  OBVIOUS
<1>0. /\ nowUs \in 0 .. NowBound /\ skew \in Int /\ drifts \in Nat /\ links \in Nat /\ pinged \in Nat
      /\ fresh \in Nat /\ NowBound \in Nat /\ ClockWindow \in Nat \ {0}
  BY ClockAssumption DEF ClockInv, ClockTypes
<1>1. CASE UNCHANGED clockVars
  BY <1>1 DEF clockVars, ClockInv, ClockTypes, OnTheLine, FreshGood
<1>2. CASE PingLeaves
  <2>1. /\ pinged' = pinged + 1 /\ pings' = Append(pings, nowUs)
        /\ UNCHANGED <<nowUs, skew, drifts, links, pongs, samples, shared, fresh>>
    BY <1>2 DEF PingLeaves
  <2>2. PICK n \in Nat : /\ Len(pings) = n /\ DOMAIN pings = 1 .. n
                         /\ pings' \in Seq(Int) /\ Len(pings') = n + 1
                         /\ DOMAIN pings' = 1 .. n + 1 /\ pings'[n + 1] = nowUs
                         /\ \A i \in 1 .. n : pings'[i] = pings[i]
    <3>1. pings \in Seq(Int) /\ nowUs \in Int
      BY <1>0 DEF ClockInv, ClockTypes
    <3> QED
      BY <2>1, <3>1, Appended, SMTT(30)
  <2>3. PICK m \in Nat : m = Len(pongs) /\ n + m <= pinged
    <3>1. pongs \in Seq([sent : Int, agent : Int, since : Nat])
      BY DEF ClockInv, ClockTypes
    <3>2. Len(pongs) \in Nat
      BY <3>1, LenProperties
    <3> QED
      BY <2>2, <3>2 DEF ClockInv, OnTheLine
  <2>4. ClockTypes'
    BY <1>0, <2>1, <2>2 DEF ClockInv, ClockTypes
  <2>5. \A i \in DOMAIN pings' : 0 <= pings'[i] /\ pings'[i] <= nowUs'
    <3>1. \A i \in 1 .. n : 0 <= pings[i] /\ pings[i] <= nowUs
      BY <2>2, Zenon DEF ClockInv, OnTheLine
    <3> QED
      BY <1>0, <2>1, <2>2, <3>1
  <2>6. OnTheLine'
    <3>1. Len(pings') + Len(pongs') <= pinged'
      BY <1>0, <2>1, <2>2, <2>3
    <3> QED
      BY <2>1, <2>5, <3>1, Zenon DEF ClockInv, OnTheLine
  <2>7. FreshGood'
    BY <2>1, Zenon DEF ClockInv, FreshGood
  <2> QED
    BY <2>4, <2>6, <2>7 DEF ClockInv
<1>3. CASE PongLeaves
  <2> DEFINE p == [sent |-> pings[1], agent |-> nowUs + skew, since |-> drifts]
             Q == [sent : Int, agent : Int, since : Nat]
  <2>0. pings \in Seq(Int) /\ pongs \in Seq(Q) /\ pings # <<>>
    BY <1>3 DEF ClockInv, ClockTypes, PongLeaves
  <2>1. PICK n \in Nat : /\ Len(pings) = n + 1 /\ DOMAIN pings = 1 .. n + 1 /\ Head(pings) = pings[1]
                         /\ pings[1] \in Int /\ Tail(pings) \in Seq(Int) /\ Len(Tail(pings)) = n
                         /\ DOMAIN Tail(pings) = 1 .. n
                         /\ \A i \in 1 .. n : Tail(pings)[i] = pings[i + 1]
    BY <2>0, HeadGone, Zenon
  <2>2. /\ pings' = Tail(pings) /\ pongs' = Append(pongs, p)
        /\ UNCHANGED <<nowUs, skew, drifts, links, pinged, samples, shared, fresh>>
    BY <1>3, <2>1 DEF PongLeaves
  <2>3. p \in Q
    BY <1>0, <2>1
  <2>4. 0 <= p.sent /\ p.sent <= nowUs /\ p.since = drifts /\ p.agent - skew = nowUs
    <3>1. 1 \in DOMAIN pings
      BY <2>1
    <3>2. 0 <= pings[1] /\ pings[1] <= nowUs
      BY <3>1, Zenon DEF ClockInv, OnTheLine
    <3> QED
      BY <1>0, <3>2
  <2> HIDE DEF p, Q
  <2>5. PICK m \in Nat : /\ Len(pongs) = m /\ DOMAIN pongs = 1 .. m
                         /\ Append(pongs, p) \in Seq(Q) /\ Len(Append(pongs, p)) = m + 1
                         /\ DOMAIN Append(pongs, p) = 1 .. m + 1 /\ Append(pongs, p)[m + 1] = p
                         /\ \A i \in 1 .. m : Append(pongs, p)[i] = pongs[i]
    BY <2>0, <2>3, Appended, SMTT(30)
  <2>6. ClockTypes'
    BY <1>0, <2>1, <2>2, <2>5 DEF ClockInv, ClockTypes, Q
  <2>7. Len(pings') + Len(pongs') <= pinged'
    <3>1. Len(pings) + Len(pongs) <= pinged
      BY Zenon DEF ClockInv, OnTheLine
    <3> QED
      BY <1>0, <2>1, <2>2, <2>5, <3>1
  <2>8. \A i \in DOMAIN pings' : 0 <= pings'[i] /\ pings'[i] <= nowUs'
    <3>1. \A i \in 1 .. n + 1 : 0 <= pings[i] /\ pings[i] <= nowUs
      BY <2>1, Zenon DEF ClockInv, OnTheLine
    <3>2. \A i \in 1 .. n : i + 1 \in 1 .. n + 1
      OBVIOUS
    <3> QED
      BY <2>1, <2>2, <3>1, <3>2, Zenon
  <2>9. ASSUME NEW i \in DOMAIN pongs'
        PROVE  /\ 0 <= pongs'[i].sent /\ pongs'[i].sent <= nowUs' /\ pongs'[i].since <= drifts'
               /\ pongs'[i].since = drifts' =>
                     pongs'[i].sent <= pongs'[i].agent - skew' /\ pongs'[i].agent - skew' <= nowUs'
    <3>1. i \in 1 .. m \/ i = m + 1
      BY <2>2, <2>5
    <3>2. CASE i \in 1 .. m
      <4>1. pongs'[i] = pongs[i] /\ i \in DOMAIN pongs
        BY <2>2, <2>5, <3>2
      <4> QED
        BY <2>2, <4>1, Zenon DEF ClockInv, OnTheLine
    <3>3. CASE i = m + 1
      <4>1. pongs'[i] = p
        BY <2>2, <2>5, <3>3
      <4> QED
        BY <1>0, <2>2, <2>4, <4>1
    <3> QED
      BY <3>1, <3>2, <3>3
  <2>10. FreshGood'
    BY <2>2, Zenon DEF ClockInv, FreshGood
  <2> QED
    BY <2>6, <2>7, <2>8, <2>9, <2>10 DEF ClockInv, OnTheLine
<1>4. CASE PongArrives
  <2> DEFINE Q == [sent : Int, agent : Int, since : Nat]
  <2>0. pongs \in Seq(Q) /\ pongs # <<>> /\ samples \in Seq(Sample) /\ pings \in Seq(Int)
    BY <1>4 DEF ClockInv, ClockTypes, PongArrives
  <2>1. PICK n \in Nat : /\ Len(pongs) = n + 1 /\ DOMAIN pongs = 1 .. n + 1 /\ Head(pongs) = pongs[1]
                         /\ pongs[1] \in Q /\ Tail(pongs) \in Seq(Q) /\ Len(Tail(pongs)) = n
                         /\ DOMAIN Tail(pongs) = 1 .. n
                         /\ \A i \in 1 .. n : Tail(pongs)[i] = pongs[i + 1]
    BY <2>0, HeadGone, Zenon
  <2>2. PICK p \in Q : p = pongs[1]
    BY <2>1
  <2>3. /\ p.sent \in Int /\ p.agent \in Int /\ p.since \in Nat
        /\ 0 <= p.sent /\ p.sent <= nowUs
        /\ p.since = drifts => p.sent <= p.agent - skew /\ p.agent - skew <= nowUs
    <3>1. 1 \in DOMAIN pongs
      BY <2>1
    <3>2. /\ 0 <= p.sent /\ p.sent <= nowUs
          /\ p.since = drifts => p.sent <= p.agent - skew /\ p.agent - skew <= nowUs
      BY <2>2, <3>1, Zenon DEF ClockInv, OnTheLine
    <3> QED
      BY <3>2
  <2> DEFINE rtt == nowUs - p.sent
             offset == p.agent - (p.sent + rtt \div 2)
             s == [rtt |-> rtt, offset |-> offset]
             kept == IF Len(samples) = ClockWindow THEN Tail(samples) ELSE samples
  <2>4. /\ pongs' = Tail(pongs) /\ samples' = Append(kept, s)
        /\ fresh' = (IF p.since = drifts THEN fresh + 1 ELSE 0)
        /\ UNCHANGED <<nowUs, skew, drifts, links, pings, pinged>>
    <3>1. ~(nowUs < p.sent)
      BY <1>0, <2>3
    <3> QED
      BY <1>4, <2>1, <2>2, <3>1, Zenon DEF PongArrives, AddSample
  <2>5. rtt \in 0 .. NowBound /\ offset \in Int /\ rtt \div 2 \in Int
    BY <1>0, <2>3
  <2>6. s \in Sample /\ s.rtt \in 0 .. NowBound
    BY <2>5 DEF Sample
  <2>7. p.since = drifts => Good(s, skew)
    BY <1>0, <2>3, <2>5 DEF Good
  <2>8. PICK m \in Nat, d \in {0, 1} :
            /\ Len(samples) = m + d /\ m + 1 <= ClockWindow /\ kept \in Seq(Sample) /\ Len(kept) = m
            /\ DOMAIN samples = 1 .. m + d /\ \A i \in 1 .. m : kept[i] = samples[i + d]
    <3>1. Len(samples) \in Nat /\ DOMAIN samples = 1 .. Len(samples) /\ Len(samples) <= ClockWindow
      BY <2>0, LenProperties DEF ClockInv, FreshGood
    <3>2. CASE Len(samples) = ClockWindow
      <4>1. samples # <<>>
        BY <1>0, <3>2
      <4>2. PICK k \in Nat : /\ Len(samples) = k + 1 /\ DOMAIN samples = 1 .. k + 1
                             /\ Tail(samples) \in Seq(Sample) /\ Len(Tail(samples)) = k
                             /\ \A i \in 1 .. k : Tail(samples)[i] = samples[i + 1]
        BY <2>0, <4>1, HeadGone, Zenon
      <4>3. kept = Tail(samples) /\ k + 1 <= ClockWindow
        BY <3>2, <4>2
      <4> HIDE DEF kept
      <4> QED
        BY <4>2, <4>3
    <3>3. CASE Len(samples) # ClockWindow
      <4>0. kept = samples
        BY <3>3, Zenon
      <4>1. kept = samples /\ Len(samples) + 1 <= ClockWindow /\ Len(samples) = Len(samples) + 0
        <5>1. ASSUME NEW a \in Nat, a <= ClockWindow, a # ClockWindow
              PROVE  a + 1 <= ClockWindow /\ a = a + 0
          BY <1>0, <5>1
        <5> HIDE DEF kept
        <5> QED
          BY <3>1, <3>3, <4>0, <5>1
      <4>2. \A i \in 1 .. Len(samples) : i = i + 0
        BY <3>1
      <4> HIDE DEF kept
      <4> QED
        BY <2>0, <3>1, <4>1, <4>2
    <3> QED
      BY <3>2, <3>3
  <2> HIDE DEF kept, s, Q
  <2>9. /\ samples' \in Seq(Sample) /\ Len(samples') = m + 1
        /\ DOMAIN samples' = 1 .. m + 1 /\ samples'[m + 1] = s
        /\ \A i \in 1 .. m : samples'[i] = kept[i]
    BY <2>4, <2>6, <2>8, Appended, SMTT(30)
  <2>10. fresh' \in Nat /\ ClockTypes'
    BY <1>0, <2>1, <2>4, <2>9 DEF ClockInv, ClockTypes, Q
  <2>11. OnTheLine'
    <3>1. \A i \in 1 .. n : i + 1 \in DOMAIN pongs
      BY <2>1
    <3>2. \A i \in DOMAIN pongs' :
            /\ 0 <= pongs'[i].sent /\ pongs'[i].sent <= nowUs' /\ pongs'[i].since <= drifts'
            /\ pongs'[i].since = drifts' =>
                  pongs'[i].sent <= pongs'[i].agent - skew' /\ pongs'[i].agent - skew' <= nowUs'
      BY <2>1, <2>4, <3>1, ZenonT(40) DEF ClockInv, OnTheLine
    <3>3. Len(pings') + Len(pongs') <= pinged'
      <4>1. Len(pings) \in Nat /\ Len(pings) + Len(pongs) <= pinged
        BY <2>0, LenProperties DEF ClockInv, OnTheLine
      <4> QED
        BY <1>0, <2>1, <2>4, <4>1
    <3> QED
      BY <2>4, <3>2, <3>3, Zenon DEF ClockInv, OnTheLine
  <2>12. ASSUME NEW i \in DOMAIN samples'
         PROVE  /\ samples'[i].rtt \in 0 .. NowBound
                /\ i + fresh' > Len(samples') => Good(samples'[i], skew')
    <3>1. CASE i \in 1 .. m
      <4>0. i + d \in 1 .. m + d
        BY <3>1
      <4>1. i + d \in DOMAIN samples /\ samples'[i] = samples[i + d]
        BY <2>8, <2>9, <3>1, <4>0, Zenon
      <4>2. samples[i + d].rtt \in 0 .. NowBound
            /\ (i + d + fresh > Len(samples) => Good(samples[i + d], skew))
        BY <4>1, Zenon DEF ClockInv, FreshGood
      <4>3. i + fresh' > Len(samples') => i + d + fresh > Len(samples)
        BY <1>0, <2>4, <2>8, <2>9, <3>1
      <4> QED
        BY <2>4, <4>1, <4>2, <4>3, Zenon
    <3>2. CASE i = m + 1
      <4>1. samples'[i] = s
        BY <2>9, <3>2
      <4>2. i + fresh' > Len(samples') => p.since = drifts
        BY <2>4, <2>9, <3>2
      <4> QED
        BY <2>4, <2>6, <2>7, <4>1, <4>2, Zenon
    <3> QED
      BY <2>9, <3>1, <3>2
  <2>13. Len(samples') <= ClockWindow'
    BY <2>8, <2>9
  <2> QED
    BY <2>10, <2>11, <2>12, <2>13, Zenon DEF ClockInv, FreshGood
<1>5. ASSUME NEW k \in {skew, 0}, LinkAgain(k)
      PROVE  ClockInv'
  <2>1. /\ links' = links + 1 /\ skew' = k /\ pings' = <<>> /\ pongs' = <<>> /\ pinged' = 0
        /\ samples' = <<>> /\ fresh' = 0 /\ UNCHANGED <<nowUs, drifts, shared>>
    BY <1>5 DEF LinkAgain
  <2> QED
    BY <1>0, <2>1 DEF ClockInv, ClockTypes, OnTheLine, FreshGood
<1>6. CASE TimeGoesOn
  <2>1. /\ nowUs' = nowUs + 1 /\ nowUs' \in 0 .. NowBound
        /\ UNCHANGED <<skew, drifts, links, pings, pongs, pinged, samples, shared, fresh>>
    BY <1>0, <1>6 DEF TimeGoesOn
  <2>2. ClockTypes' /\ FreshGood'
    BY <2>1, Zenon DEF ClockInv, ClockTypes, FreshGood
  <2>3. \A i \in DOMAIN pings : pings[i] \in Int
    <3>1. pings \in Seq(Int)
      BY DEF ClockInv, ClockTypes
    <3> QED
      BY <3>1, LenProperties, ElementOfSeq
  <2>4. \A i \in DOMAIN pongs : pongs[i].sent \in Int /\ pongs[i].agent \in Int
    <3>1. pongs \in Seq([sent : Int, agent : Int, since : Nat])
      BY DEF ClockInv, ClockTypes
    <3>2. \A i \in DOMAIN pongs : pongs[i] \in [sent : Int, agent : Int, since : Nat]
      BY <3>1, LenProperties, ElementOfSeq
    <3> QED
      BY <3>2
  <2>5. \A x \in Int : x <= nowUs => x <= nowUs'
    BY <1>0, <2>1
  <2>6. \A i \in DOMAIN pongs : pongs[i].agent - skew \in Int
    BY <1>0, <2>4
  <2> QED
    BY <2>1, <2>2, <2>3, <2>4, <2>5, <2>6, Zenon DEF ClockInv, OnTheLine
<1>7. CASE ClocksDrift
  <2>1. /\ drifts' = drifts + 1 /\ skew' = skew + 1 /\ fresh' = 0
        /\ UNCHANGED <<nowUs, links, pings, pongs, pinged, samples, shared>>
    BY <1>7 DEF ClocksDrift
  <2>2. ClockTypes'
    BY <1>0, <2>1 DEF ClockInv, ClockTypes
  <2>3. \A i \in DOMAIN pongs : pongs[i].since <= drifts' /\ pongs[i].since # drifts'
    <3>1. pongs \in Seq([sent : Int, agent : Int, since : Nat])
      BY DEF ClockInv, ClockTypes
    <3>2. \A i \in DOMAIN pongs : pongs[i] \in [sent : Int, agent : Int, since : Nat]
      BY <3>1, LenProperties, ElementOfSeq
    <3>3. \A i \in DOMAIN pongs : pongs[i].since \in Nat /\ pongs[i].since <= drifts
      BY <3>2 DEF ClockInv, OnTheLine
    <3> QED
      BY <1>0, <2>1, <3>3
  <2>4. OnTheLine'
    BY <2>1, <2>3, Zenon DEF ClockInv, OnTheLine
  <2>5. \A i \in DOMAIN samples' : ~(i + fresh' > Len(samples'))
    <3>1. samples \in Seq(Sample)
      BY DEF ClockInv, ClockTypes
    <3>2. Len(samples) \in Nat /\ DOMAIN samples = 1 .. Len(samples)
      BY <3>1, LenProperties
    <3> QED
      BY <2>1, <3>2
  <2>6. FreshGood'
    BY <2>1, <2>5, Zenon DEF ClockInv, FreshGood
  <2> QED
    BY <2>2, <2>4, <2>6 DEF ClockInv
<1> QED
  BY <1>1, <1>2, <1>3, <1>4, <1>5, <1>6, <1>7 DEF ClockNext

LEMMA ClockSafe == ClockInv => ClockTypeOK /\ OffsetWithin
PROOF
<1> SUFFICES ASSUME ClockInv
             PROVE  ClockTypeOK /\ OffsetWithin
  OBVIOUS
<1>1. ClockTypeOK
  BY DEF ClockInv, FreshGood, OnTheLine, ClockTypeOK
<1>2. ASSUME samples # <<>>, fresh >= ClockWindow \/ fresh >= Len(samples)
      PROVE  Distance(Best(samples).offset, skew) <= (Best(samples).rtt + 1) \div 2
  <2>1. samples \in Seq(Sample) /\ fresh \in Nat /\ skew \in Int
    BY DEF ClockInv, ClockTypes
  <2>2. Len(samples) \in Nat /\ DOMAIN samples = 1 .. Len(samples)
    BY <2>1, LenProperties
  <2>3. \A i \in DOMAIN samples : samples[i].rtt \in 0 .. NowBound
    BY Zenon DEF ClockInv, FreshGood
  <2>4. \A i \in DOMAIN samples : samples[i].rtt \in Nat /\ samples[i] \in Sample
    BY <2>1, <2>2, <2>3, ElementOfSeq, ClockAssumption
  <2>5. PICK i \in DOMAIN samples : Best(samples) = samples[i]
    BY <1>2, <2>1, <2>4, BestIsOne
  <2>6. i + fresh > Len(samples)
    <3>1. Len(samples) <= ClockWindow
      BY DEF ClockInv, FreshGood
    <3> QED
      BY <1>2, <2>1, <2>2, <3>1, ClockAssumption
  <2>7. Good(samples[i], skew)
    BY <2>6 DEF ClockInv, FreshGood
  <2> QED
    BY <2>1, <2>4, <2>5, <2>7 DEF Good, Distance, Sample
<1> QED
  BY <1>1, <1>2 DEF OffsetWithin

\* The offset a viewer trusts is off by at most half the round trip it trusts, rounded
\* up, once its window holds nothing from before the clocks last drifted apart: for
\* any window, however late pings and pongs are (core/src/clock.rs: add, best).
THEOREM OffsetTrusted == ClockSpec => [](ClockTypeOK /\ OffsetWithin)
PROOF BY ClockStart, ClockStep, ClockSafe, PTL DEF ClockSpec

---------------------------------------------------------------------------
(* The times of the decoder. *)

\* Every frame of a sequence is no later than n.
UpTo(q, n) == \A i \in DOMAIN q : q[i] <= n
InOrder(q) == \A i, j \in DOMAIN q : i < j => q[i] <= q[j]

DecTypes ==
    /\ newestSeen \in 0 .. FrameBound2 /\ lag \in 0 .. Behind /\ misses \in Nat
    /\ received \in Seq(Nat) /\ batch \in Seq(Nat) /\ inFlight \in Seq(Nat) /\ within \in Seq(Nat)

\* Frames come in order: the times kept, the batch, what waits, the newest.
Ordered ==
    /\ InOrder(batch) /\ InOrder(received)
    /\ UpTo(inFlight, newestSeen) /\ UpTo(batch, newestSeen) /\ UpTo(received, newestSeen)
    /\ \A j \in DOMAIN batch : UpTo(inFlight, batch[j])
    /\ \A j \in DOMAIN received : UpTo(inFlight, received[j]) /\ UpTo(batch, received[j])

\* The decoder missed few enough for the queue of times.
Few == misses + lag < InFlightMost

\* Then no time of a frame inside was trimmed: each frame inside has a time no
\* later than its own at its place in the queue.
Paired ==
    /\ Len(inFlight) <= InFlightMost /\ Len(within) <= lag
    /\ Few => Len(inFlight) <= Len(within) + misses
    /\ lag = 0 \/ Few =>
          /\ Len(within) <= Len(inFlight)
          /\ \A i \in DOMAIN within : inFlight[i] <= within[i]
          /\ result.time <= result.frame /\ onScreen.time <= onScreen.frame

DecInv == DecTypes /\ Ordered /\ Paired

LEMMA DecStart == DecInit => DecInv
PROOF
<1> SUFFICES ASSUME DecInit
             PROVE  DecInv
  OBVIOUS
<1>1. /\ received = <<>> /\ batch = <<>> /\ inFlight = <<>> /\ within = <<>> /\ newestSeen = 0
      /\ misses = 0 /\ lag \in 0 .. Behind /\ result.time = 0 /\ result.frame = 0
      /\ onScreen.time = 0 /\ onScreen.frame = 0
  BY DEF DecInit, NoPicture
<1>2. Behind \in Nat /\ InFlightMost \in Nat /\ FrameBound2 \in Nat
  BY DecoderAssumption
<1>3. DecTypes
  BY <1>1, <1>2 DEF DecTypes
<1>4. Ordered
  BY <1>1 DEF Ordered, InOrder, UpTo
<1>5. Paired
  BY <1>1, <1>2 DEF Paired, Few
<1> QED
  BY <1>3, <1>4, <1>5 DEF DecInv

\* The first of the batch, and the queue once its time joined it: it is not empty, no
\* time is later, and nothing is trimmed where there is room.
LEMMA TimesAre ==
    ASSUME DecInv, batch # <<>>
    PROVE  \E h \in Nat, n \in Nat, m \in Nat :
              /\ Head(batch) = h
              /\ Times \in Seq(Nat) /\ Len(inFlight) = n /\ Len(Times) = m /\ DOMAIN Times = 1 .. m
              /\ 1 <= m /\ m <= InFlightMost
              /\ UpTo(Times, h)
              /\ n + 1 <= InFlightMost =>
                    m = n + 1 /\ \A i \in 1 .. n : Times[i] = inFlight[i]
PROOF
<1>0. batch \in Seq(Nat) /\ inFlight \in Seq(Nat) /\ batch # <<>>
  BY DEF DecInv, DecTypes
<1>1. /\ InFlightMost \in Nat \ {0}
      /\ \A i \in DOMAIN inFlight, j \in DOMAIN batch : inFlight[i] <= batch[j]
  BY DecoderAssumption DEF DecInv, DecTypes, Ordered, UpTo
<1>2. PICK b \in Nat : /\ Len(batch) = b + 1 /\ DOMAIN batch = 1 .. b + 1 /\ Head(batch) = batch[1]
                       /\ batch[1] \in Nat /\ Tail(batch) \in Seq(Nat) /\ Len(Tail(batch)) = b
                       /\ DOMAIN Tail(batch) = 1 .. b
                       /\ \A i \in 1 .. b : Tail(batch)[i] = batch[i + 1]
  BY <1>0, HeadGone, Zenon
<1>3. PICK h \in Nat : h = Head(batch) /\ h = batch[1]
  BY <1>2
<1> DEFINE a == Append(inFlight, h)
<1>3a. inFlight \in Seq(Nat) /\ h \in Nat
  BY <1>0
<1>4. PICK n \in Nat : /\ Len(inFlight) = n /\ DOMAIN inFlight = 1 .. n
                       /\ a \in Seq(Nat) /\ Len(a) = n + 1
                       /\ DOMAIN a = 1 .. n + 1 /\ a[n + 1] = h
                       /\ \A i \in 1 .. n : a[i] = inFlight[i]
  BY <1>3a, Appended
<1>5. \A i \in 1 .. n + 1 : a[i] \in Nat /\ a[i] <= h
  <2>1. 1 \in DOMAIN batch
    BY <1>2
  <2>2. \A i \in 1 .. n : inFlight[i] <= h
    <3>1. \A i \in DOMAIN inFlight : inFlight[i] <= batch[1]
      BY <1>1, <2>1, Zenon
    <3> QED
      BY <1>3, <1>4, <3>1, Zenon
  <2>3. \A i \in 1 .. n + 1 : a[i] \in Nat
    BY <1>4, ElementOfSeq
  <2>4. \A i \in 1 .. n + 1 : i \in 1 .. n \/ i = n + 1
    OBVIOUS
  <2>5. h <= h
    OBVIOUS
  <2> QED
    BY <1>4, <2>2, <2>3, <2>4, <2>5, Zenon
<1>6. Times = IF Len(a) > InFlightMost THEN SubSeq(a, Len(a) - InFlightMost + 1, Len(a)) ELSE a
  <2>1. Times = Trimmed(a)
    BY <1>3 DEF Times
  <2> HIDE DEF a
  <2> QED
    BY <2>1, Zenon DEF Trimmed
<1> HIDE DEF a
<1>7. CASE n + 1 > InFlightMost
  <2>1. PICK f \in Int, l \in Int : f = l - InFlightMost + 1 /\ l = Len(a) /\ l = n + 1
    BY <1>1, <1>4
  <2>2. \A i \in f .. n + 1 : a[i] \in Nat /\ a[i] <= h
    BY <1>1, <1>5, <1>7, <2>1
  <2>3. Times = SubSeq(a, f, n + 1)
    <3>1. Len(a) > InFlightMost
      BY <1>4, <1>7
    <3>2. Times = SubSeq(a, f, l)
      BY <1>6, <2>1, <3>1, Zenon
    <3> QED
      BY <2>1, <3>2, Zenon
  <2>4. /\ SubSeq(a, f, n + 1) \in Seq(Nat) /\ Len(SubSeq(a, f, n + 1)) = IF f <= n + 1 THEN n + 1 - f + 1 ELSE 0
        /\ \A i \in 1 .. n + 1 - f + 1 : SubSeq(a, f, n + 1)[i] = a[f + i - 1]
    <3>1. n + 1 \in Int
      OBVIOUS
    <3> QED
      BY <2>2, <3>1, SubSeqProperties
  <2>5. f <= n + 1 /\ n + 1 - f + 1 = InFlightMost
    BY <1>1, <1>7, <2>1
  <2>6. Times \in Seq(Nat) /\ Len(Times) = InFlightMost /\ \A i \in 1 .. InFlightMost : Times[i] = a[f + i - 1]
    BY <2>3, <2>4, <2>5
  <2>7. DOMAIN Times = 1 .. InFlightMost
    BY <2>6, LenProperties
  <2>8. \A i \in 1 .. InFlightMost : f + i - 1 \in f .. n + 1
    BY <1>1, <2>1
  <2>9. UpTo(Times, h)
    BY <2>2, <2>6, <2>7, <2>8, Zenon DEF UpTo
  <2>10. ~(n + 1 <= InFlightMost) /\ 1 <= InFlightMost /\ InFlightMost <= InFlightMost
    BY <1>1, <1>7
  <2> QED
    BY <1>1, <1>2, <1>3, <1>4, <2>6, <2>7, <2>9, <2>10
<1>8. CASE ~(n + 1 > InFlightMost)
  <2>1. Times = a
    <3>1. ~(Len(a) > InFlightMost)
      BY <1>4, <1>8
    <3> QED
      BY <1>6, <3>1, Zenon
  <2>2. UpTo(Times, h)
    BY <1>4, <1>5, <2>1, Zenon DEF UpTo
  <2>3. n + 1 <= InFlightMost /\ 1 <= n + 1 /\ n + 1 \in Nat
    BY <1>1, <1>8
  <2> QED
    BY <1>2, <1>3, <1>4, <2>1, <2>2, <2>3, Zenon
<1> QED
  BY <1>7, <1>8

\* What the frames' order says once the first of the batch is decoded.
LEMMA OrderKept ==
    ASSUME DecInv, batch # <<>>, batch' = Tail(batch), received' = received, newestSeen' = newestSeen,
           NEW h \in Nat, Head(batch) = h, inFlight' \in Seq(Nat), UpTo(inFlight', h)
    PROVE  Ordered' /\ batch' \in Seq(Nat)
PROOF
<1>0. batch \in Seq(Nat) /\ batch # <<>>
  BY DEF DecInv, DecTypes
<1>1. PICK b \in Nat : /\ Len(batch) = b + 1 /\ DOMAIN batch = 1 .. b + 1 /\ Head(batch) = batch[1]
                       /\ batch[1] \in Nat /\ Tail(batch) \in Seq(Nat) /\ Len(Tail(batch)) = b
                       /\ DOMAIN Tail(batch) = 1 .. b
                       /\ \A i \in 1 .. b : Tail(batch)[i] = batch[i + 1]
  BY <1>0, HeadGone, Zenon
<1>2. /\ InOrder(batch) /\ InOrder(received) /\ UpTo(batch, newestSeen) /\ UpTo(received, newestSeen)
      /\ \A j \in DOMAIN received : UpTo(batch, received[j])
  BY DEF DecInv, Ordered
<1>3. received \in Seq(Nat) /\ newestSeen \in Nat
  BY DecoderAssumption DEF DecInv, DecTypes
<1>4. \A j \in DOMAIN received : received[j] \in Nat
  BY <1>3, LenProperties, ElementOfSeq
<1>5. \A i \in 1 .. b + 1 : batch[i] \in Nat
  BY <1>0, <1>1, ElementOfSeq
<1>6. batch[1] = h /\ 1 \in 1 .. b + 1 /\ \A i \in 1 .. b : i + 1 \in 1 .. b + 1 /\ 1 < i + 1
  BY <1>1
<1>7. \A i \in DOMAIN inFlight' : inFlight'[i] \in Nat /\ inFlight'[i] <= h
  <2>1. \A i \in DOMAIN inFlight' : inFlight'[i] \in Nat
    BY LenProperties, ElementOfSeq
  <2> QED
    BY <2>1 DEF UpTo
<1>8. \A m \in Nat : h <= m => UpTo(inFlight', m)
  BY <1>7 DEF UpTo
<1>9. UpTo(inFlight', newestSeen) /\ \A j \in DOMAIN received : UpTo(inFlight', received[j])
  <2>1. h <= newestSeen /\ \A j \in DOMAIN received : h <= received[j]
    BY <1>1, <1>2, <1>6, Zenon DEF UpTo
  <2> QED
    BY <1>3, <1>4, <1>8, <2>1
<1>10. \A j \in 1 .. b : UpTo(inFlight', Tail(batch)[j])
  <2>1. \A j \in 1 .. b : h <= batch[j + 1]
    BY <1>1, <1>2, <1>6, Zenon DEF InOrder
  <2> QED
    BY <1>1, <1>5, <1>6, <1>8, <2>1, Zenon
<1>11. InOrder(Tail(batch))
  <2>1. \A i, j \in 1 .. b : i < j => i + 1 < j + 1
    OBVIOUS
  <2> QED
    BY <1>1, <1>2, <1>6, <2>1, Zenon DEF InOrder
<1>12. UpTo(Tail(batch), newestSeen) /\ \A j \in DOMAIN received : UpTo(Tail(batch), received[j])
  BY <1>1, <1>2, <1>6, Zenon DEF UpTo
<1> QED
  BY <1>1, <1>2, <1>9, <1>10, <1>11, <1>12, Zenon DEF Ordered

\* A frame that is refused or never comes out leaves its time, and is one missed.
LEMMA MissesStep == DecInv /\ (DecodeFails \/ DecodeDrops) => DecInv'
PROOF
<1> SUFFICES ASSUME DecInv, DecodeFails \/ DecodeDrops
             PROVE  DecInv'
  OBVIOUS
<1>1. /\ batch # <<>> /\ batch' = Tail(batch) /\ inFlight' = Times /\ misses' = misses + 1
      /\ UNCHANGED <<received, newestSeen, within, result, onScreen, lag>>
  BY DEF DecodeFails, DecodeDrops
<1>2. PICK h \in Nat, n \in Nat, m \in Nat :
              /\ Head(batch) = h
              /\ Times \in Seq(Nat) /\ Len(inFlight) = n /\ Len(Times) = m /\ DOMAIN Times = 1 .. m
              /\ 1 <= m /\ m <= InFlightMost
              /\ UpTo(Times, h)
              /\ n + 1 <= InFlightMost =>
                    m = n + 1 /\ \A i \in 1 .. n : Times[i] = inFlight[i]
  BY <1>1, TimesAre, Zenon
<1>3. inFlight' \in Seq(Nat) /\ UpTo(inFlight', h) /\ Len(inFlight') = m
  BY <1>1, <1>2, Zenon
<1>4. Ordered' /\ batch' \in Seq(Nat)
  BY <1>1, <1>2, <1>3, OrderKept, Zenon
<1>5. /\ misses \in Nat /\ lag \in Nat /\ InFlightMost \in Nat /\ within \in Seq(Nat)
      /\ lag \in 0 .. Behind
  BY DecoderAssumption DEF DecInv, DecTypes
<1>5a. misses' \in Nat
  BY <1>1, <1>5
<1>6. DecTypes'
  BY <1>1, <1>3, <1>4, <1>5a, Zenon DEF DecInv, DecTypes
<1>7. PICK w \in Nat : w = Len(within) /\ DOMAIN within = 1 .. w /\ w <= lag
  BY <1>5, LenProperties DEF DecInv, Paired
<1>8. Few' => Few
  BY <1>1, <1>5 DEF Few
<1>9. ASSUME Few'
      PROVE  n + 1 <= InFlightMost /\ n <= w + misses /\ m <= w + (misses + 1)
  <2>1. n <= w + misses
    BY <1>2, <1>7, <1>8, <1>9 DEF DecInv, Paired
  <2>2. misses + 1 + lag < InFlightMost
    BY <1>1, <1>9 DEF Few
  <2> QED
    BY <1>2, <1>5, <1>7, <2>1, <2>2
<1>10. Few' => Len(inFlight') <= Len(within') + misses'
  BY <1>1, <1>3, <1>7, <1>9
<1>11. ASSUME lag = 0 \/ Few'
       PROVE  Len(within') <= Len(inFlight') /\ \A i \in DOMAIN within' : inFlight'[i] <= within'[i]
  <2>1. CASE lag = 0
    BY <1>1, <1>3, <1>7, <2>1
  <2>2. CASE Few'
    <3>1. w <= n /\ \A i \in 1 .. w : inFlight[i] <= within[i]
      BY <1>2, <1>7, <1>8, <2>2, Zenon DEF DecInv, Paired
    <3>2. w <= m /\ \A i \in 1 .. w : i \in 1 .. n
      BY <1>2, <1>9, <2>2, <3>1
    <3>3. \A i \in 1 .. w : inFlight'[i] = inFlight[i]
      BY <1>1, <1>2, <1>9, <2>2, <3>2, Zenon
    <3> QED
      BY <1>1, <1>3, <1>7, <3>1, <3>2, <3>3, Zenon
  <2> QED
    BY <1>11, <2>1, <2>2
<1>12. lag' = 0 \/ Few' => result'.time <= result'.frame /\ onScreen'.time <= onScreen'.frame
  BY <1>1, <1>8, Zenon DEF DecInv, Paired
<1>13. Len(inFlight') <= InFlightMost /\ Len(within') <= lag'
  BY <1>1, <1>2, <1>3, <1>7
<1> QED
  BY <1>1, <1>4, <1>6, <1>10, <1>11, <1>12, <1>13, Zenon DEF DecInv, Paired

\* The other steps but decoding.
LEMMA FeedsStep == DecInv /\ (ReceivesFrame \/ TakesBatch \/ ShowsNewest) => DecInv'
PROOF
<1> SUFFICES ASSUME DecInv, ReceivesFrame \/ TakesBatch \/ ShowsNewest
             PROVE  DecInv'
  OBVIOUS
<1>0. /\ newestSeen \in 0 .. FrameBound2 /\ FrameBound2 \in Nat
      /\ received \in Seq(Nat) /\ batch \in Seq(Nat) /\ inFlight \in Seq(Nat)
  BY DecoderAssumption DEF DecInv, DecTypes
<1>1. CASE ReceivesFrame
  <2>1. /\ newestSeen' = newestSeen + 1 /\ newestSeen' \in 0 .. FrameBound2
        /\ received' = Append(received, newestSeen + 1) /\ newestSeen + 1 \in Nat /\ received \in Seq(Nat)
        /\ UNCHANGED <<batch, inFlight, within, lent, result, onScreen, lag, misses>>
    BY <1>0, <1>1 DEF ReceivesFrame
  <2>2. PICK k \in Nat : k = newestSeen + 1 /\ newestSeen' = k /\ received' = Append(received, k)
    BY <2>1
  <2>2a. received \in Seq(Nat) /\ k \in Nat
    BY <2>1
  <2>3. PICK n \in Nat : /\ Len(received) = n /\ DOMAIN received = 1 .. n
                         /\ Append(received, k) \in Seq(Nat) /\ Len(Append(received, k)) = n + 1
                         /\ DOMAIN Append(received, k) = 1 .. n + 1 /\ Append(received, k)[n + 1] = k
                         /\ \A i \in 1 .. n : Append(received, k)[i] = received[i]
    BY <2>2a, Appended
  <2>4. DecTypes'
    BY <2>1, <2>2, <2>3, Zenon DEF DecInv, DecTypes
  <2>5. Paired'
    BY <2>1, Zenon DEF DecInv, Paired, Few
  <2>6. \A q \in Seq(Nat) : UpTo(q, newestSeen) => UpTo(q, k)
    <3>1. \A x \in Nat : x <= newestSeen => x <= k
      BY <1>0, <2>2
    <3>2. \A q \in Seq(Nat) : \A i \in DOMAIN q : q[i] \in Nat
      BY LenProperties, ElementOfSeq
    <3> QED
      BY <3>1, <3>2, Zenon DEF UpTo
  <2>7. UpTo(inFlight, k) /\ UpTo(batch, k) /\ UpTo(received, k)
    BY <1>0, <2>6, Zenon DEF DecInv, Ordered
  <2>8. \A i \in 1 .. n + 1 : i \in 1 .. n \/ i = n + 1
    OBVIOUS
  <2>9. UpTo(received', k)
    <3>1. k <= k
      BY <2>2
    <3> QED
      BY <2>2, <2>3, <2>7, <2>8, <3>1, Zenon DEF UpTo
  <2>10. InOrder(received')
    <3>1. ASSUME NEW i \in 1 .. n + 1, NEW j \in 1 .. n + 1, i < j
          PROVE  received'[i] <= received'[j]
      <4>1. i \in 1 .. n
        BY <3>1
      <4>2. CASE j \in 1 .. n
        BY <2>2, <2>3, <3>1, <4>1, <4>2, Zenon DEF DecInv, Ordered, InOrder
      <4>3. CASE j = n + 1
        BY <2>2, <2>3, <2>9, <4>3, Zenon DEF UpTo
      <4> QED
        BY <2>8, <4>2, <4>3
    <3> QED
      BY <2>2, <2>3, <3>1, Zenon DEF InOrder
  <2>11. \A j \in DOMAIN received' : UpTo(inFlight, received'[j]) /\ UpTo(batch, received'[j])
    BY <2>2, <2>3, <2>7, <2>8, Zenon DEF DecInv, Ordered
  <2>12. Ordered'
    BY <2>1, <2>2, <2>7, <2>9, <2>10, <2>11, Zenon DEF DecInv, Ordered
  <2> QED
    BY <2>4, <2>5, <2>12 DEF DecInv
<1>2. CASE TakesBatch
  <2>1. /\ batch' = received /\ received' = <<>>
        /\ UNCHANGED <<newestSeen, inFlight, within, lent, result, onScreen, lag, misses>>
    BY <1>2 DEF TakesBatch
  <2>2. DecTypes' /\ Paired'
    BY <2>1 DEF DecInv, DecTypes, Paired, Few
  <2>3. DOMAIN received' = {}
    BY <2>1
  <2>4. Ordered'
    BY <2>1, <2>3, Zenon DEF DecInv, Ordered, InOrder, UpTo
  <2> QED
    BY <2>2, <2>4 DEF DecInv
<1>3. CASE ShowsNewest
  <2>1. /\ onScreen'.frame = result.frame /\ onScreen'.time = result.time
        /\ result'.frame = 0 /\ result'.time = 0
        /\ UNCHANGED <<received, newestSeen, batch, inFlight, within, lent, lag, misses>>
    BY <1>3 DEF ShowsNewest, NoPicture
  <2>2. result'.time <= result'.frame
    BY <2>1
  <2> QED
    BY <2>1, <2>2, Zenon DEF DecInv, DecTypes, Ordered, Paired, Few
<1> QED
  BY <1>1, <1>2, <1>3

\* A frame decoded, k pictures out: the first k inside go with the first k times.
LEMMA DecodesStep == ASSUME NEW k \in 0 .. (Behind + 1) PROVE DecInv /\ Decodes(k) => DecInv'
PROOF
<1> SUFFICES ASSUME DecInv, Decodes(k)
             PROVE  DecInv'
  OBVIOUS
<1>0. k \in Nat
  BY DecoderAssumption
<1> DEFINE inside == Append(within, Head(batch))
<1>1. /\ batch # <<>> /\ batch' = Tail(batch)
      /\ k <= Len(inside) /\ Len(inside) - k <= lag
      /\ within' = SubSeq(inside, k + 1, Len(inside))
      /\ inFlight' = SubSeq(Times, k + 1, Len(Times))
      /\ result' = (IF k = 0 THEN result
                    ELSE [frame |-> inside[k], time |-> Times[k]])
      /\ UNCHANGED <<received, newestSeen, onScreen, lag, misses>>
  BY Zenon DEF Decodes, PairedWith
<1>2. PICK h \in Nat, n \in Nat, m \in Nat :
              /\ Head(batch) = h
              /\ Times \in Seq(Nat) /\ Len(inFlight) = n /\ Len(Times) = m /\ DOMAIN Times = 1 .. m
              /\ 1 <= m /\ m <= InFlightMost
              /\ UpTo(Times, h)
              /\ n + 1 <= InFlightMost =>
                    m = n + 1 /\ \A i \in 1 .. n : Times[i] = inFlight[i]
  BY <1>1, TimesAre, Zenon
<1>3. /\ misses \in Nat /\ lag \in Nat /\ InFlightMost \in Nat /\ within \in Seq(Nat) /\ h \in Nat
      /\ inside = Append(within, h)
  BY <1>2, DecoderAssumption DEF DecInv, DecTypes
<1> HIDE DEF inside
<1>3a. within \in Seq(Nat) /\ h \in Nat
  BY <1>3
<1>4. PICK w \in Nat : /\ Len(within) = w /\ DOMAIN within = 1 .. w
                       /\ Append(within, h) \in Seq(Nat) /\ Len(Append(within, h)) = w + 1
                       /\ DOMAIN Append(within, h) = 1 .. w + 1 /\ Append(within, h)[w + 1] = h
                       /\ \A i \in 1 .. w : Append(within, h)[i] = within[i]
  BY <1>3a, Appended
<1>5. PICK ins \in Seq(Nat) :
          /\ ins = inside /\ Len(ins) = w + 1 /\ DOMAIN ins = 1 .. w + 1 /\ ins[w + 1] = h
          /\ \A i \in 1 .. w : ins[i] = within[i]
  BY <1>3, <1>4
<1>6. k <= w + 1 /\ w + 1 - k <= lag /\ within' = SubSeq(ins, k + 1, w + 1)
      /\ inFlight' = SubSeq(Times, k + 1, m)
  BY <1>1, <1>2, <1>5
<1>7. PICK v \in Nat : v = w + 1 - k
  BY <1>0, <1>6
<1>8. within' \in Seq(Nat) /\ Len(within') = v /\ DOMAIN within' = 1 .. v
      /\ \A i \in 1 .. v : within'[i] = ins[i + k]
  <2>1. \A i \in (k + 1) .. (w + 1) : ins[i] \in Nat
    <3>1. \A i \in (k + 1) .. (w + 1) : i \in 1 .. Len(ins)
      BY <1>0, <1>5
    <3> QED
      BY <3>1, ElementOfSeq
  <2>2. /\ SubSeq(ins, k + 1, w + 1) \in Seq(Nat)
        /\ Len(SubSeq(ins, k + 1, w + 1)) = (IF k + 1 <= w + 1 THEN (w + 1) - (k + 1) + 1 ELSE 0)
        /\ \A i \in 1 .. (w + 1) - (k + 1) + 1 : SubSeq(ins, k + 1, w + 1)[i] = ins[k + 1 + i - 1]
    <3>1. k + 1 \in Int /\ w + 1 \in Int
      BY <1>0
    <3> QED
      BY <2>1, <3>1, SubSeqProperties
  <2>3. /\ (IF k + 1 <= w + 1 THEN (w + 1) - (k + 1) + 1 ELSE 0) = v /\ (w + 1) - (k + 1) + 1 = v
        /\ \A i \in 1 .. v : k + 1 + i - 1 = i + k
    BY <1>0, <1>6, <1>7
  <2>4. within' \in Seq(Nat) /\ Len(within') = v /\ \A i \in 1 .. v : within'[i] = ins[i + k]
    BY <1>6, <2>2, <2>3, Zenon
  <2> QED
    BY <2>4, LenProperties
<1>9. /\ inFlight' \in Seq(Nat) /\ Len(inFlight') = (IF k <= m THEN m - k ELSE 0)
      /\ DOMAIN inFlight' = 1 .. Len(inFlight')
      /\ \A i \in 1 .. (m - k) : inFlight'[i] = Times[i + k]
  <2>1. \A i \in (k + 1) .. m : Times[i] \in Nat
    <3>1. \A i \in (k + 1) .. m : i \in 1 .. Len(Times)
      BY <1>0, <1>2
    <3> QED
      BY <1>2, <3>1, ElementOfSeq
  <2>2. /\ SubSeq(Times, k + 1, m) \in Seq(Nat)
        /\ Len(SubSeq(Times, k + 1, m)) = (IF k + 1 <= m THEN m - (k + 1) + 1 ELSE 0)
        /\ \A i \in 1 .. m - (k + 1) + 1 : SubSeq(Times, k + 1, m)[i] = Times[k + 1 + i - 1]
    <3>1. k + 1 \in Int /\ m \in Int
      BY <1>0
    <3> QED
      BY <2>1, <3>1, SubSeqProperties
  <2>3. /\ (IF k + 1 <= m THEN m - (k + 1) + 1 ELSE 0) = (IF k <= m THEN m - k ELSE 0)
        /\ m - (k + 1) + 1 = m - k
        /\ \A i \in 1 .. (m - k) : k + 1 + i - 1 = i + k
    BY <1>0
  <2>4. /\ inFlight' \in Seq(Nat) /\ Len(inFlight') = (IF k <= m THEN m - k ELSE 0)
        /\ \A i \in 1 .. (m - k) : inFlight'[i] = Times[i + k]
    BY <1>6, <2>2, <2>3, Zenon
  <2> QED
    BY <2>4, LenProperties
<1>10. PICK r \in Nat : r = Len(inFlight') /\ r <= m /\ (k <= m => r = m - k)
                        /\ \A i \in 1 .. r : i \in 1 .. (m - k) /\ i + k \in 1 .. m
  <2>1. (IF k <= m THEN m - k ELSE 0) \in Nat
    BY <1>0
  <2>2. PICK r \in Nat : r = (IF k <= m THEN m - k ELSE 0)
    BY <2>1
  <2>3. r <= m /\ (k <= m => r = m - k) /\ \A i \in 1 .. r : i \in 1 .. (m - k) /\ i + k \in 1 .. m
    BY <1>0, <2>2
  <2> QED
    BY <1>9, <2>2, <2>3
<1>11. UpTo(inFlight', h)
  BY <1>2, <1>9, <1>10, Zenon DEF UpTo
<1>12. Ordered' /\ batch' \in Seq(Nat)
  BY <1>1, <1>2, <1>9, <1>11, OrderKept, Zenon
<1>13. DecTypes'
  BY <1>1, <1>8, <1>9, <1>12, Zenon DEF DecInv, DecTypes
<1>14. Len(inFlight') <= InFlightMost /\ Len(within') <= lag
  BY <1>2, <1>3, <1>6, <1>7, <1>8, <1>10
<1>15. Few' <=> Few
  BY <1>1 DEF Few
<1>16. ASSUME Few
       PROVE  m = n + 1 /\ n <= w + misses /\ w <= n /\ \A i \in 1 .. n : Times[i] = inFlight[i]
  <2>1. n <= w + misses /\ w <= lag /\ w <= n
    BY <1>2, <1>4, <1>16 DEF DecInv, Paired
  <2>2. misses + lag < InFlightMost
    BY <1>16 DEF Few
  <2>3. n + 1 <= InFlightMost
    BY <1>3, <2>1, <2>2
  <2> QED
    BY <1>2, <2>1, <2>3
<1>17. Few' => Len(inFlight') <= Len(within') + misses'
  <2>1. ASSUME Few
        PROVE  r <= v + misses
    BY <1>0, <1>3, <1>6, <1>7, <1>10, <1>16, <2>1
  <2> QED
    BY <1>1, <1>8, <1>10, <1>15, <2>1
<1>18. ASSUME lag = 0 \/ Few
       PROVE  /\ k <= m /\ v <= r
              /\ \A i \in 1 .. w + 1 : i <= m => Times[i] <= ins[i]
  <2>1. CASE Few
    <3>1. k <= m /\ v <= r
      BY <1>0, <1>6, <1>7, <1>10, <1>16, <2>1
    <3>2. \A i \in 1 .. w : inFlight[i] <= within[i]
      BY <1>4, <2>1, Zenon DEF DecInv, Paired
    <3>3. \A i \in 1 .. w : i \in 1 .. n
      BY <1>16, <2>1
    <3>4. \A i \in 1 .. w : Times[i] <= ins[i]
      BY <1>5, <1>16, <2>1, <3>2, <3>3, Zenon
    <3>5. w + 1 \in 1 .. m
      BY <1>16, <2>1
    <3>6. Times[w + 1] <= ins[w + 1]
      BY <1>2, <1>5, <3>5, Zenon DEF UpTo
    <3>7. \A i \in 1 .. w + 1 : i \in 1 .. w \/ i = w + 1
      OBVIOUS
    <3> QED
      BY <3>1, <3>4, <3>6, <3>7, Zenon
  <2>2. CASE lag = 0
    <3>1. w = 0 /\ k = 1 /\ v = 0
      <4>1. w <= lag
        BY <1>4 DEF DecInv, Paired
      <4> QED
        BY <1>0, <1>6, <1>7, <2>2, <4>1
    <3>2. k <= m /\ v <= r
      BY <1>2, <3>1
    <3>3. \A i \in 1 .. w + 1 : i = w + 1
      BY <3>1
    <3>4. w + 1 \in 1 .. m
      BY <1>2, <3>1
    <3>5. Times[w + 1] <= ins[w + 1]
      BY <1>2, <1>5, <3>4, Zenon DEF UpTo
    <3> QED
      BY <3>2, <3>3, <3>5, Zenon
  <2> QED
    BY <1>18, <2>1, <2>2
<1>19. ASSUME lag = 0 \/ Few
       PROVE  /\ Len(within') <= Len(inFlight')
              /\ \A i \in DOMAIN within' : inFlight'[i] <= within'[i]
  <2>1. v <= r
    BY <1>18, <1>19, Zenon
  <2>2. \A i \in 1 .. v : i \in 1 .. r /\ i + k \in 1 .. w + 1 /\ i + k <= m
    BY <1>0, <1>7, <1>10, <2>1
  <2>3. \A i \in 1 .. v : Times[i + k] <= ins[i + k]
    BY <1>18, <1>19, <2>2, Zenon
  <2>4. \A i \in 1 .. v : inFlight'[i] = Times[i + k] /\ within'[i] = ins[i + k]
    BY <1>8, <1>9, <1>10, <2>2, Zenon
  <2> QED
    BY <1>8, <1>10, <2>1, <2>3, <2>4, Zenon
<1>20. ASSUME lag = 0 \/ Few
       PROVE  result'.time <= result'.frame
  <2>1. CASE k = 0
    <3>1. result' = result
      BY <1>1, <2>1
    <3> QED
      BY <1>20, <3>1, Zenon DEF DecInv, Paired
  <2>2. CASE k # 0
    <3>1. result'.time = Times[k] /\ result'.frame = ins[k]
      BY <1>1, <1>5, <2>2
    <3>2. k \in 1 .. w + 1 /\ k <= m
      BY <1>0, <1>6, <1>18, <1>20, <2>2
    <3> QED
      BY <1>18, <1>20, <3>1, <3>2, Zenon
  <2> QED
    BY <2>1, <2>2
<1>21. lag = 0 \/ Few => onScreen'.time <= onScreen'.frame
  BY <1>1, Zenon DEF DecInv, Paired
<1>22. Paired'
  BY <1>1, <1>14, <1>15, <1>17, <1>19, <1>20, <1>21, Zenon DEF Paired
<1> QED
  BY <1>12, <1>13, <1>22 DEF DecInv

LEMMA DecStep == DecInv /\ [DecNext]_decVars => DecInv'
PROOF
<1>1. DecInv /\ UNCHANGED decVars => DecInv'
  BY Zenon DEF decVars, DecInv, DecTypes, Ordered, InOrder, UpTo, Paired, Few
<1> QED
  BY <1>1, FeedsStep, MissesStep, DecodesStep, Zenon DEF DecNext

LEMMA DecSafe == DecInv => DecTypeOK /\ TimeNeverNewer
PROOF BY Zenon DEF DecInv, DecTypes, Paired, Few, DecTypeOK, TimeNeverNewer

\* No picture is shown with a time later than its own, however many frames a decoder
\* in low-latency mode drops or refuses, and for any number of frames held back while
\* those missed have room in the queue (decoder.rs: decode, process_output).
THEOREM TimesNeverNewer == DecSpec => [](DecTypeOK /\ TimeNeverNewer)
PROOF BY DecStart, DecStep, DecSafe, PTL DEF DecSpec

---------------------------------------------------------------------------
(* The parts together. *)

\* Where the password is not at work, nobody has said anything.
NobodySpoke ==
    pakes = {} /\ proofs = {} /\ \A e \in Ends2 : ends[e].at = "new" /\ ends[e].theirs = NoPake

WireInv ==
    /\ NetInv /\ ClockInv /\ DecInv
    /\ IF part = "proof" THEN PakeInv ELSE NobodySpoke

LEMMA WireStart == WireInit => WireInv
PROOF
<1> SUFFICES ASSUME WireInit
             PROVE  WireInv
  OBVIOUS
<1>1. NetInv /\ ClockInv /\ DecInv
  BY NetStart, ClockStart, DecStart DEF WireInit
<1>2. CASE part = "proof"
  BY <1>1, <1>2, PakeStart DEF WireInit, WireInv
<1>3. CASE part # "proof"
  <2>1. PICK e0 : e0 = End("one time", <<1, TRUE>>, 1)
    OBVIOUS
  <2>2. ends = [e \in Ends2 |-> e0] /\ pakes = {} /\ proofs = {}
    BY <1>3, <2>1, Zenon DEF WireInit
  <2>3. e0.at = "new" /\ e0.theirs = NoPake
    BY <2>1 DEF End
  <2>4. NobodySpoke
    BY <2>2, <2>3, Zenon DEF NobodySpoke
  <2> QED
    BY <1>1, <1>3, <2>4, Zenon DEF WireInv
<1> QED
  BY <1>2, <1>3

\* A step of one part is a step of it and of no other.
LEMMA PartsStep ==
    ASSUME [WireNext]_wireVars
    PROVE  /\ [NetNext]_netVars /\ [ClockNext]_clockVars /\ [DecNext]_decVars
           /\ part' = part
           /\ IF part = "proof" THEN [PakeNext]_pakeVars ELSE UNCHANGED pakeVars
PROOF
<1>1. CASE part = "net" /\ NetNext /\ Others
  BY <1>1, Zenon DEF Others
<1>2. CASE part = "proof" /\ PakeNext /\ Others
  BY <1>2, Zenon DEF Others
<1>3. CASE part = "streams" /\ StreamNext /\ Others
  BY <1>3, Zenon DEF Others
<1>4. CASE part = "clock" /\ ClockNext /\ Others
  BY <1>4, Zenon DEF Others
<1>5. CASE part = "units" /\ AnnexNext /\ Others
  BY <1>5, Zenon DEF Others
<1>6. CASE part = "decoder" /\ DecNext /\ Others
  BY <1>6, Zenon DEF Others
<1>7. CASE UNCHANGED wireVars
  BY <1>7 DEF wireVars
<1> QED
  BY <1>1, <1>2, <1>3, <1>4, <1>5, <1>6, <1>7, Zenon DEF WireNext

LEMMA WireStep == WireInv /\ [WireNext]_wireVars => WireInv'
PROOF
<1> SUFFICES ASSUME WireInv, [WireNext]_wireVars
             PROVE  WireInv'
  OBVIOUS
<1>1. /\ [NetNext]_netVars /\ [ClockNext]_clockVars /\ [DecNext]_decVars
      /\ part' = part
      /\ IF part = "proof" THEN [PakeNext]_pakeVars ELSE UNCHANGED pakeVars
  BY PartsStep
<1>2. NetInv' /\ ClockInv' /\ DecInv'
  <2>1. NetInv /\ ClockInv /\ DecInv
    BY Zenon DEF WireInv
  <2> QED
    BY <1>1, <2>1, NetStep, ClockStep, DecStep, Zenon
<1>3. CASE part = "proof"
  <2>1. PakeInv /\ [PakeNext]_pakeVars
    BY <1>1, <1>3, Zenon DEF WireInv
  <2>2. PakeInv'
    BY <2>1, PakeStep, Zenon
  <2> QED
    BY <1>1, <1>2, <1>3, <2>2, Zenon DEF WireInv
<1>4. CASE part # "proof"
  <2>1. ends' = ends /\ pakes' = pakes /\ proofs' = proofs /\ NobodySpoke
    BY <1>1, <1>4 DEF pakeVars, WireInv
  <2>2. NobodySpoke'
    BY <2>1 DEF NobodySpoke
  <2> QED
    BY <1>1, <1>2, <1>4, <2>2, Zenon DEF WireInv
<1> QED
  BY <1>3, <1>4

\* What goes over a link comes out as it went in, for every instance: addresses and
\* punched holes, the proof of a password, the offset between the clocks and the times
\* of what is shown (server/src/netsim.rs; core/src/access.rs, clock.rs;
\* codec/src/mediafoundation/decoder.rs).
THEOREM WireAlwaysSafe == WireSpec => []WireSafe
PROOF
<1>1. WireInit => WireInv
  BY WireStart
<1>2. WireInv /\ [WireNext]_wireVars => WireInv'
  BY WireStep
<1>3. WireInv => WireSafe
  <2> SUFFICES ASSUME WireInv
               PROVE  WireSafe
    OBVIOUS
  <2>1. /\ NetTypeOK /\ NeverMisdelivered /\ PunchGetsThrough /\ NoSleepOverPackets
        /\ ClockTypeOK /\ OffsetWithin /\ DecTypeOK /\ TimeNeverNewer
    BY NetSafe, ClockSafe, DecSafe, Zenon DEF WireInv
  <2>2. PakeTypeOK /\ AdmittedMet /\ ViewerMet /\ RightPasswordWorks
    <3>1. CASE part = "proof"
      BY <3>1, PakeSafe, Zenon DEF WireInv
    <3>2. CASE part # "proof"
      <4>1. NobodySpoke
        BY <3>2, Zenon DEF WireInv
      <4>2. PakeTypeOK /\ AdmittedMet /\ ViewerMet
        BY <4>1 DEF NobodySpoke, PakeTypeOK, AdmittedMet, ViewerMet, Ends2
      <4>3. \A v \in ViewerEnds, a \in AgentEnds : ends[v].theirs.by # a
        BY <4>1, EndsAssumption DEF NobodySpoke, Ends2, NoPake
      <4> QED
        BY <4>2, <4>3 DEF RightPasswordWorks
    <3> QED
      BY <3>1, <3>2
  <2> QED
    BY <2>1, <2>2, Zenon DEF WireSafe
<1> QED
  BY <1>1, <1>2, <1>3, PTL DEF WireSpec

=============================================================================
