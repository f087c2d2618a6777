-------------------------------- MODULE Nat --------------------------------
(***************************************************************************)
(* The simulated internet the server's tests run real QUIC endpoints over  *)
(* (server/src/netsim.rs): hosts with public addresses, hosts behind NATs  *)
(* of the four kinds, and the inboxes packets are delivered to.  Hosts     *)
(* send to the server, which sees the address a NAT gave them, and to the  *)
(* address the server saw of another host: how a connection is punched     *)
(* through.                                                                *)
(*                                                                         *)
(* An address is [ip, port].  A private host's ip is its own name, and its *)
(* only port is 0; a NAT's ip is the NAT.                                  *)
(***************************************************************************)
EXTENDS Integers, Sequences, FiniteSets

CONSTANTS
    Inside,      \* [host -> the NAT it sits behind]: State::realm
    Server,      \* the one public host
    KindsOf,     \* [NAT -> the kinds it may be of]
    PacketMost,  \* bound: packets sent
    ForgetBound  \* bound: times a NAT forgets its mappings

Insiders == DOMAIN Inside
Hosts == Insiders \cup {Server}
Nats == {Inside[h] : h \in Insiders}
OwnAddress(h) == [ip |-> h, port |-> 0]
FirstPort == 40000
Ports == FirstPort..(FirstPort + PacketMost)

(* Names are of one thing, and a NAT is of one of the four kinds. *)
ASSUME NatAssumption ==
    /\ Inside = [h \in Insiders |-> Inside[h]]
    /\ Server \notin Insiders \cup Nats /\ Insiders \cap Nats = {}
    /\ \A n \in Nats : KindsOf[n] \subseteq
          {"full cone", "address restricted", "port restricted", "symmetric"}
    /\ PacketMost \in Nat /\ ForgetBound \in Nat

VARIABLES
    nats,     \* each NAT: its kind, next_port and mappings
    boxes,    \* each socket's queue: source and the host it was meant for
    waiting,  \* the sockets with a waker stored
    sawAt,     \* the address the server last saw of each host, if any
    counts,   \* packets sent, mappings forgotten
    owner,    \* history: whose each address has been
    greeted   \* history: who sent where since its NAT last forgot

netVars == <<nats, boxes, waiting, sawAt, counts, owner, greeted>>

(* The mapping of a NAT that h uses for `to`: one per destination when it is
   symmetric, else one for all. *)
MappingOf(n, h, to) ==
    {m \in nats[n].mappings : m.inside = h /\ (nats[n].kind = "symmetric" => m.to = to)}

Outbound_SentOnce(n, h, to) ==
    IF MappingOf(n, h, to) # {}
    THEN nats[n]
    ELSE [nats[n] EXCEPT !.next = @ + 1,
            !.mappings = @ \cup {[inside |-> h, to |-> to, port |-> nats[n].next, sentTo |-> {to}]}]

(* Nat::outbound: the mapping is found or made, and remembers `to`. *)
Outbound(n, h, to) ==
    IF MappingOf(n, h, to) # {}
    THEN [nats[n] EXCEPT !.mappings = (@ \ MappingOf(n, h, to)) \cup
            {[m EXCEPT !.sentTo = @ \cup {to}] : m \in MappingOf(n, h, to)}]
    ELSE [nats[n] EXCEPT !.next = @ + 1,
            !.mappings = @ \cup {[inside |-> h, to |-> to, port |-> nats[n].next, sentTo |-> {to}]}]

(* The public port that mapping has. *)
PortFor(n, h, to) ==
    IF MappingOf(n, h, to) # {} THEN (CHOOSE m \in MappingOf(n, h, to) : TRUE).port
                                ELSE nats[n].next

(* Whether the NAT lets a packet in through a mapping, by its kind. *)
LetsIn(kind, m, from) ==
    CASE kind = "full cone" -> TRUE
      [] kind = "address restricted" -> \E a \in m.sentTo : a.ip = from.ip
      [] kind \in {"port restricted", "symmetric"} -> from \in m.sentTo

(* State::arrive and Nat::inbound, with the NATs as ns: the hosts a packet
   from public `from` to `to` reaches. *)
Arrive(ns, from, to) ==
    CASE to.ip \in Insiders -> {}
      [] to.ip \in Nats -> {m.inside : m \in {x \in ns[to.ip].mappings :
                                x.port = to.port /\ LetsIn(ns[to.ip].kind, x, from)}}
      [] to.ip = Server -> {Server}

(* Net::send: straight there on one private network; not back in through
   one's own NAT; out through the NAT; or from a public host. *)
Travel(h, to) ==
    IF h = Server
    THEN [ns |-> nats, from |-> OwnAddress(h), reach |-> Arrive(nats, OwnAddress(h), to)]
    ELSE IF to.ip \in Insiders /\ Inside[to.ip] = Inside[h]
    THEN [ns |-> nats, from |-> OwnAddress(h), reach |-> {to.ip}]
    ELSE IF to.ip = Inside[h]
    THEN [ns |-> nats, from |-> OwnAddress(h), reach |-> {}]
    ELSE LET n == Inside[h]
             ns == [nats EXCEPT ![n] = Outbound(n, h, to)]
             from == [ip |-> n, port |-> PortFor(n, h, to)]
         IN  [ns |-> ns, from |-> from, reach |-> Arrive(ns, from, to)]

(* Whose an address is, or was: a port is a host's from the first packet. *)
Owner(a) == IF a \in DOMAIN owner THEN owner[a] ELSE a.ip

Push_NotWoken(h, from, for) ==
    /\ boxes' = [boxes EXCEPT ![h] = Append(@, [from |-> from, for |-> for])]
    /\ UNCHANGED waiting

(* Inbox::push: the packet is queued and whoever waits for one is woken. *)
Push(h, from, for) ==
    /\ boxes' = [boxes EXCEPT ![h] = Append(@, [from |-> from, for |-> for])]
    /\ waiting' = waiting \ {h}

Send(h, to) ==
    LET t == Travel(h, to)
    IN  /\ counts.sent < PacketMost
        /\ counts' = [counts EXCEPT !.sent = @ + 1]
        /\ nats' = t.ns
        /\ owner' = [a \in DOMAIN owner \cup {t.from} |-> IF a \in DOMAIN owner THEN owner[a] ELSE h]
        /\ greeted' = greeted \cup {[host |-> h, to |-> to]}
        /\ \/ t.reach = {} /\ UNCHANGED <<boxes, waiting>>
           \/ \E x \in t.reach : Push(x, t.from, Owner(to))
        /\ UNCHANGED sawAt

(* A host registers with the server, or greets a host the server named; the
   server answers where it heard from.  A host may also try another's private
   address, one of the candidates it is given. *)
SendsToServer(h) == h \in Insiders /\ Send(h, OwnAddress(Server))
SendsToPeer(h, x) == h \in Insiders /\ x # h /\ sawAt[x] # {} /\ \E a \in sawAt[x] : Send(h, a)
SendsPrivately(h, x) == h \in Insiders /\ x # h /\ Send(h, OwnAddress(x))
ServerAnswers(x) == sawAt[x] # {} /\ \E a \in sawAt[x] : Send(Server, a)

(* Socket::poll_recv: what is queued is taken, or a waker stored. *)
PollRecv(h) ==
    \/ /\ boxes[h] # <<>>
       /\ boxes' = [boxes EXCEPT ![h] = <<>>]
       /\ sawAt' = IF h = Server
                  THEN [x \in Insiders |->
                    LET mine == {i \in DOMAIN boxes[h] : Owner(boxes[h][i].from) = x}
                    IN  IF mine = {} THEN sawAt[x]
                        ELSE {boxes[h][CHOOSE i \in mine : \A j \in mine : j <= i].from}]
                  ELSE sawAt
       /\ UNCHANGED waiting
    \/ /\ boxes[h] = <<>> /\ h \notin waiting
       /\ waiting' = waiting \cup {h}
       /\ UNCHANGED <<boxes, sawAt>>

PollsSocket(h) == PollRecv(h) /\ UNCHANGED <<nats, counts, owner, greeted>>

ForgetMappings_PortsAgain(n) ==
    /\ counts.forgot < ForgetBound
    /\ counts' = [counts EXCEPT !.forgot = @ + 1]
    /\ nats' = [nats EXCEPT ![n].mappings = {}, ![n].next = FirstPort]
    /\ greeted' = {g \in greeted : g.host = Server \/ Inside[g.host] # n}
    /\ UNCHANGED <<boxes, waiting, sawAt, owner>>

(* Net::forget_mappings: the mappings go, and no port is given out again. *)
ForgetMappings(n) ==
    /\ counts.forgot < ForgetBound
    /\ counts' = [counts EXCEPT !.forgot = @ + 1]
    /\ nats' = [nats EXCEPT ![n].mappings = {}]
    /\ greeted' = {g \in greeted : g.host = Server \/ Inside[g.host] # n}
    /\ UNCHANGED <<boxes, waiting, sawAt, owner>>

(* Net::add_nat and Net::socket; every endpoint has polled its socket once. *)
NetInit ==
    /\ nats \in {[n \in Nats |-> [kind |-> k[n], next |-> FirstPort, mappings |-> {}]] :
                    k \in {f \in [Nats -> UNION {KindsOf[n] : n \in Nats}] : \A n \in Nats : f[n] \in KindsOf[n]}}
    /\ boxes = [h \in Hosts |-> <<>>] /\ waiting = Hosts
    /\ sawAt = [h \in Insiders |-> {}]
    /\ counts = [sent |-> 0, forgot |-> 0]
    /\ owner = [a \in {} |-> Server] /\ greeted = {}

NetNext ==
    \/ \E h \in Insiders : SendsToServer(h) \/ \E x \in Insiders : SendsToPeer(h, x) \/ SendsPrivately(h, x)
    \/ \E x \in Insiders : ServerAnswers(x)
    \/ \E h \in Hosts : PollsSocket(h)
    \/ \E n \in Nats : ForgetMappings(n)

NetSpec == NetInit /\ [][NetNext]_netVars

NetTypeOK ==
    /\ \A n \in Nats : nats[n].next \in Ports
    /\ \A h \in Hosts : Len(boxes[h]) <= PacketMost
    /\ waiting \subseteq Hosts

(* A packet never reaches a host other than the one whose address it was
   sent to, however old the address and whatever its NAT forgot since:
   ports are not given out twice. *)
NeverMisdelivered ==
    \A h \in Hosts : \A i \in DOMAIN boxes[h] : boxes[h][i].for = h

(* h has sent to `to` since its NAT last forgot, from the address `mine`. *)
HasOpened(h, mine, to) ==
    /\ [host |-> h, to |-> to] \in greeted
    /\ mine = [ip |-> Inside[h], port |-> PortFor(Inside[h], h, to)]

(* A hole is punched: once two hosts behind different NATs, neither of them
   symmetric, have each sent to the address the server saw of the other,
   what either sends there arrives, whether or not the first packets did. *)
PunchGetsThrough ==
    \A h \in Insiders : \A x \in Insiders : \A a \in sawAt[h] : \A b \in sawAt[x] :
        (/\ Inside[h] # Inside[x]
         /\ nats[Inside[h]].kind # "symmetric" /\ nats[Inside[x]].kind # "symmetric"
         /\ HasOpened(h, a, b) /\ HasOpened(x, b, a)) => Travel(h, b).reach = {x}

(* No wakeup is lost: a socket with packets queued has nobody asleep on it. *)
NoSleepOverPackets ==
    \A h \in waiting : boxes[h] = <<>>
=============================================================================
