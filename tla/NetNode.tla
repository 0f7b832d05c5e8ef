------------------------------- MODULE NetNode -------------------------------
(***************************************************************************)
(* nodetool::node_server: the connections of a node, its peer lists and    *)
(* its lists of failed and blocked addresses.  One thread runs idle_worker *)
(* and in it connections_maker, which waits for each handshake it starts;  *)
(* the others run the handlers of incoming requests and the callbacks of   *)
(* answers.  A handler or a callback is one step; what waits for the far   *)
(* end (a connect, a handshake, a back ping) is several.  The maintainers  *)
(* entry that the same messages carry is left out.                         *)
(*                                                                         *)
(* The remote nodes are the environment: they accept or refuse, answer,    *)
(* answer wrongly, or close.  When this node connects to itself only the   *)
(* outgoing end is kept.  Every node has an ip of its own.  Options of the *)
(* command line (priority peers, offline mode, added peers) are left at    *)
(* their defaults.                                                         *)
(***************************************************************************)
EXTENDS PeerList, FiniteSets

CONSTANTS
  Addrs,             \* addresses of nodes, Self among them
  Self,              \* the address this node listens at
  Ephemeral,         \* the address of the far end of an incoming connection
  PeerId,            \* PeerId[a]: the id of the node behind a # Self
  my_id,             \* m_config.m_peer_id, drawn anew at every start
  OldIds,            \* ids this node had before
  StoredLists,       \* the peer lists init_config may load
  NoId,              \* peer_id of a connection without a handshake
  Alive,             \* nodes that accept connections and answer correctly
  Flaky,             \* nodes that may do so
  Claims,            \* Claims[a]: ids a node may claim in its handshake
  SentLists,         \* peer lists a node may send: sequences of Entry
  m_seed_nodes,      \* sequence of addresses
  connections_count, \* P2P_DEFAULT_CONNECTIONS_COUNT
  IpFailsLimit,      \* P2P_IP_FAILS_BEFOR_BLOCK
  MaxConnections,    \* bound on connections open at a time
  MaxAccepts,        \* bound on incoming connections, over the whole run
  Unsteady,          \* nodes that close connections as often as they like
  MaxFaults          \* bound on what goes wrong besides: closes by the others,
                     \* refused handshakes, lists from the future

ASSUME NodeAssumption ==
  /\ Self \in Addrs
  /\ Ephemeral \notin Addrs
  /\ Alive \cup Flaky \subseteq Addrs \ {Self} /\ Unsteady \subseteq Addrs
  /\ m_seed_nodes \in Seq(Addrs)
  /\ connections_count \in Nat \ {0}
  /\ {IpFailsLimit, MaxConnections, MaxAccepts, MaxFaults} \subseteq Nat

Ids == {PeerId[a] : a \in Addrs \ {Self}} \cup OldIds \cup {my_id, NoId}

(* The two lists: an address is in one of them at most, and there once.    *)
Listed == [adr : Addrs, id : Ids]

OncePerAddr(list) == \A i, j \in DOMAIN list : list[i].adr = list[j].adr => i = j

ArePeerLists(p) ==
  /\ p \in [white : Seq(Listed), gray : Seq(Listed)]
  /\ OncePerAddr(p.white) /\ OncePerAddr(p.gray)
  /\ AddrsOf(p.white) \cap AddrsOf(p.gray) = {}

(***************************************************************************)
(* A node claims and sends addresses and ids, of whatever age; what is     *)
(* loaded is what an earlier run of the node has stored.                   *)
(***************************************************************************)
ASSUME ListAssumption ==
  /\ \A a \in Addrs \ {Self} : Claims[a] \subseteq Ids
  /\ SentLists \subseteq Seq([adr : Addrs, id : Ids, younger : Int])
  /\ \A p \in StoredLists : ArePeerLists(p)

VARIABLES
  m_peerlist,          \* [white, gray], see PeerList
  conns,               \* open connections, see Connection
  closing,             \* closed by connections_maker, the object still there
  m_conn_fails_cache,  \* addresses that failed less than an hour ago
  m_ip_fails_score,
  m_blocked_ips,
  pings,               \* back pings under way: [adr, id, n], n = 0: not connected
  maker,               \* where connections_maker is
  accepts, faults,     \* how much of its bounds the environment has used
  answered             \* history: <<a, id>> if a answered this node as id

netVars == <<conns, closing, pings>>
ipVars  == <<m_conn_fails_cache, m_ip_fails_score, m_blocked_ips>>
envVars == <<accepts, faults>>
vars    == <<m_peerlist, netVars, ipVars, maker, envVars, answered>>

(***************************************************************************)
(* A connection: n tells connections apart, adr is the node at the far     *)
(* end, use is what this node opened it for.                               *)
(***************************************************************************)
Connection == [n : Nat \ {0}, adr : Addrs, income : BOOLEAN,
               peer_id : Ids,
               use : {"seed", "peer", "ping", "income"}]

Idle == [pc |-> "idle", adr |-> Self, plan |-> <<>>, seed |-> 0, tries |-> 0,
         max |-> 0, tried |-> {}, n |-> 0, ok |-> FALSE]

Init ==
  /\ m_peerlist \in StoredLists
  /\ conns = {} /\ closing = {}
  /\ m_conn_fails_cache = {}
  /\ m_ip_fails_score = [a \in Addrs |-> 0]
  /\ m_blocked_ips = {}
  /\ pings = {}
  /\ maker = Idle
  /\ accepts = 0 /\ faults = 0
  /\ answered = {<<e.adr, e.id>> : e \in Range(m_peerlist.white)}

IdOf(a) == IF a = Self THEN my_id ELSE PeerId[a]
-----------------------------------------------------------------------------
(***************************************************************************)
(* Connections.                                                            *)
(***************************************************************************)
NumbersInUse == {c.n : c \in conns \cup closing} \cup {p.n : p \in pings} \cup {maker.n}

FreeNumber ==
  CHOOSE n \in 1..(Cardinality(NumbersInUse) + 1) : n \notin NumbersInUse

Open(adr, income, use) ==
  /\ Cardinality(conns \cup closing) < MaxConnections
  /\ conns' = conns \cup {[n |-> FreeNumber, adr |-> adr, income |-> income,
                            peer_id |-> NoId, use |-> use]}
  /\ UNCHANGED closing

(***************************************************************************)
(* close shuts the socket down; the connection is in m_connects, and       *)
(* counted, until its last handler has run.  Told apart for connections    *)
(* of the maker, which goes on at once; the other closes are one step,     *)
(* that of the last handler.                                               *)
(***************************************************************************)
Close(cs) == conns' = conns \ cs /\ closing' = closing \cup cs

Outgoing == {c \in conns : ~c.income}
get_outgoing_connections_count == Cardinality({c \in conns \cup closing : ~c.income})

(* What a connection's m_remote_ip and m_remote_port say.                  *)
RemoteAddr(c) == IF c.income THEN Ephemeral ELSE c.adr

UsedById(pe) == pe.id = my_id \/ \E c \in conns \cup closing : c.peer_id = pe.id

is_peer_used(pe) ==
  \/ pe.id = my_id
  \/ \E c \in conns \cup closing : c.peer_id = pe.id \/ (~c.income /\ c.adr = pe.adr)

(* add_ip_fail, and block_ip in it.                                        *)
add_ip_fail(adr) ==
  IF m_ip_fails_score[adr] + 1 > IpFailsLimit
  THEN /\ m_ip_fails_score' = [m_ip_fails_score EXCEPT ![adr] = IpFailsLimit \div 2]
       /\ m_blocked_ips' = m_blocked_ips \cup {adr}
  ELSE /\ m_ip_fails_score' = [m_ip_fails_score EXCEPT ![adr] = @ + 1]
       /\ UNCHANGED m_blocked_ips

(***************************************************************************)
(* handle_remote_peerlist.  A peer sends last_seen by its own clock and    *)
(* that clock's time; the difference of the clocks is added to each entry, *)
(* so what arrives is how long ago it was seen.  One entry from the        *)
(* sender's future, here with a negative place, and the list is refused.   *)
(***************************************************************************)
fix_time_delta(list) == \A i \in DOMAIN list : list[i].younger >= 0

set_peer_just_seen(p, adr, id) == append_with_peer_white(p, Entry(adr, id, 0))
-----------------------------------------------------------------------------
(***************************************************************************)
(* connections_maker.  Its plan is a list of calls of                      *)
(* make_expected_connections_count: which list, and how many connections.  *)
(***************************************************************************)
expected_white_connections == (connections_count * 70) \div 100

Call(white, target) == [white |-> white, target |-> target]

PlanFor(conn_count) ==
  IF conn_count >= connections_count THEN <<>>
  ELSE IF conn_count < expected_white_connections
       THEN <<Call(TRUE, expected_white_connections), Call(FALSE, connections_count)>>
       ELSE <<Call(FALSE, connections_count), Call(TRUE, connections_count)>>

(* The seeds are asked only while the white list is empty.                 *)
StartMaker ==
  /\ maker.pc = "idle"
  /\ IF m_peerlist.white = <<>> /\ m_seed_nodes # <<>>
     THEN \E i \in DOMAIN m_seed_nodes :
            maker' = [Idle EXCEPT !.pc = "connect", !.seed = i, !.adr = m_seed_nodes[i]]
     ELSE maker' = [Idle EXCEPT !.pc = "lists"]
  /\ UNCHANGED <<m_peerlist, netVars, ipVars, envVars, answered>>

AtCall(plan) == [Idle EXCEPT !.pc = "count", !.plan = plan]

PlanCalls ==
  /\ maker.pc = "lists"
  /\ maker' = AtCall(PlanFor(get_outgoing_connections_count))
  /\ UNCHANGED <<m_peerlist, netVars, ipVars, envVars, answered>>

NextCall     == AtCall(Tail(maker.plan))

(* The loop's condition in make_expected_connections_count.                *)
TargetPassed(target)  == get_outgoing_connections_count > target
TargetReached(target) == get_outgoing_connections_count >= target

ListOf(white) == IF white THEN m_peerlist.white ELSE m_peerlist.gray

(* One turn of the loop of make_expected_connections_count.                *)
CountConnections ==
  /\ maker.pc = "count"
  /\ IF maker.plan = <<>> THEN maker' = Idle
     ELSE LET call == Head(maker.plan)
              size == Len(ListOf(call.white))
          IN  maker' = IF TargetReached(call.target) \/ size = 0
                       THEN NextCall
                       ELSE [maker EXCEPT !.pc = "pick", !.max = IF size - 1 <= 50 THEN size - 1 ELSE 50]
  /\ UNCHANGED <<m_peerlist, netVars, ipVars, envVars, answered>>

(* get_random_index_with_fixed_probability: what it can return.            *)
RandomIndexes(max) ==
  IF max = 0 THEN {0} ELSE {(x * x * x) \div (max * max) : x \in 0..max}

is_remote_ip_allowed(adr) == adr \notin m_blocked_ips

(***************************************************************************)
(* One turn of the loop of make_new_connection_from_peerlist.  The list    *)
(* may have become shorter than it was when max was read.                  *)
(***************************************************************************)
PickPeer(i) ==
  /\ maker.pc = "pick"
  /\ i \in RandomIndexes(maker.max) \ maker.tried
  /\ LET list == ListOf(Head(maker.plan).white)
     IN  IF i >= Len(list) THEN maker' = NextCall
         ELSE LET pe == PeerByIndex(list, i)
              IN  IF \/ is_peer_used(pe)
                     \/ ~is_remote_ip_allowed(pe.adr)
                     \/ pe.adr \in m_conn_fails_cache
                  THEN maker' = [maker EXCEPT !.tried = @ \cup {i}]
                  ELSE maker' = [maker EXCEPT !.tried = @ \cup {i}, !.pc = "connect",
                                              !.adr = pe.adr]
  /\ UNCHANGED <<m_peerlist, netVars, ipVars, envVars, answered>>

(* rand_count or try_count is used up: any time after the first draw.      *)
GiveUp ==
  /\ maker.pc = "pick"
  /\ maker.tried # {}
  /\ maker' = NextCall
  /\ UNCHANGED <<m_peerlist, netVars, ipVars, envVars, answered>>

Seeding == maker.seed # 0

(***************************************************************************)
(* try_to_connect_and_handshake_with_new_peer has returned false: the next *)
(* seed, up to one more try than there are seeds, or the next pick.        *)
(***************************************************************************)
SeedsForever ==
  [maker EXCEPT !.pc = "connect", !.adr = m_seed_nodes[maker.seed], !.n = 0]

NextSeed ==
  IF maker.tries + 1 > Len(m_seed_nodes) THEN [Idle EXCEPT !.pc = "lists"]
  ELSE LET i == IF maker.seed = Len(m_seed_nodes) THEN 1 ELSE maker.seed + 1
       IN  [maker EXCEPT !.pc = "connect", !.tries = @ + 1, !.seed = i,
                         !.adr = m_seed_nodes[i], !.n = 0]

TryFailed ==
  IF Seeding
  THEN /\ maker' = NextSeed
       /\ UNCHANGED m_conn_fails_cache
  ELSE /\ maker' = [maker EXCEPT !.pc = "pick", !.adr = Self, !.n = 0]
       /\ m_conn_fails_cache' = m_conn_fails_cache \cup {maker.adr}

ConnectFails ==
  /\ maker.pc = "connect"
  /\ maker.adr \in Alive \cup {Self} => Cardinality(conns \cup closing) >= MaxConnections
  /\ TryFailed
  /\ UNCHANGED <<m_peerlist, netVars, m_ip_fails_score, m_blocked_ips, envVars, answered>>

Connect ==
  /\ maker.pc = "connect"
  /\ maker.adr \in Alive \cup Flaky \cup {Self}
  /\ Open(maker.adr, FALSE, IF Seeding THEN "seed" ELSE "peer")
  /\ maker' = [maker EXCEPT !.pc = "handshake", !.n = FreeNumber]
  /\ UNCHANGED <<m_peerlist, pings, ipVars, envVars, answered>>

(* The connection do_handshake_with_peer was given, if it is still open.   *)
MakersConn == {c \in conns : c.n = maker.n}

Associated(c, id) == (conns \ {c}) \cup {[c EXCEPT !.peer_id = id]}

(***************************************************************************)
(* The callback of the handshake: no usable answer (none in time, another  *)
(* network, a wrong signature), a list from the future, or an answer.  A   *)
(* seed's answer is used for its list only.  The peer is noted as seen     *)
(* before its id is compared with this node's own.                         *)
(***************************************************************************)
HandshakeRefused ==
  /\ maker.pc = "handshake"
  /\ maker.adr \in Flaky \/ MakersConn = {}
  /\ maker' = [maker EXCEPT !.pc = "shaken", !.ok = FALSE]
  /\ UNCHANGED <<m_peerlist, netVars, ipVars, envVars, answered>>

HandshakeBadList ==
  /\ maker.pc = "handshake"
  /\ maker.adr \in Flaky
  /\ MakersConn # {}
  /\ \E list \in SentLists : ~fix_time_delta(list)
  /\ add_ip_fail(maker.adr)
  /\ maker' = [maker EXCEPT !.pc = "shaken", !.ok = FALSE]
  /\ UNCHANGED <<m_peerlist, netVars, m_conn_fails_cache, envVars, answered>>

HandshakeAnswered(list, payloadOk) ==
  /\ maker.pc = "handshake"
  /\ fix_time_delta(list)
  /\ payloadOk \/ maker.adr \in Flaky
  /\ \E c \in MakersConn :
       LET id == IdOf(c.adr)
           merged == merge_peerlist(m_peerlist, list)
       IN  IF Seeding \/ ~payloadOk
           THEN /\ m_peerlist' = merged
                /\ maker' = [maker EXCEPT !.pc = "shaken", !.ok = Seeding]
                /\ UNCHANGED <<conns, answered>>
           ELSE /\ m_peerlist' = set_peer_just_seen(merged, RemoteAddr(c), id)
                /\ conns' = Associated(c, id)
                /\ answered' = answered \cup {<<c.adr, id>>}
                /\ maker' = [maker EXCEPT !.pc = "shaken", !.ok = id # my_id]
  /\ UNCHANGED <<closing, pings, ipVars, envVars>>

(* The rest of do_handshake_with_peer and of its caller.                   *)
HandshakeDone ==
  /\ maker.pc = "shaken"
  /\ IF ~maker.ok
     THEN /\ Close(MakersConn)
          /\ TryFailed
          /\ UNCHANGED m_peerlist
     ELSE IF Seeding
     THEN /\ Close(MakersConn)
          /\ maker' = [Idle EXCEPT !.pc = "lists"]
          /\ UNCHANGED <<m_peerlist, m_conn_fails_cache>>
     ELSE /\ m_peerlist' = append_with_peer_white(m_peerlist, Entry(maker.adr, IdOf(maker.adr), 0))
          /\ maker' = AtCall(maker.plan)
          /\ UNCHANGED <<conns, closing, m_conn_fails_cache>>
  /\ UNCHANGED <<pings, m_ip_fails_score, m_blocked_ips, envVars, answered>>
-----------------------------------------------------------------------------
Fault == faults < MaxFaults /\ faults' = faults + 1

(***************************************************************************)
(* Incoming connections: the filter, handle_handshake and the back ping.   *)
(***************************************************************************)
Accept(a) ==
  /\ a \in Addrs \ {Self}
  /\ is_remote_ip_allowed(a)
  /\ accepts < MaxAccepts
  /\ accepts' = accepts + 1
  /\ Open(a, TRUE, "income")
  /\ UNCHANGED <<m_peerlist, pings, ipVars, maker, faults, answered>>

(***************************************************************************)
(* handle_handshake refuses: another network or an outgoing connection     *)
(* (counted as a failure of the address), a second handshake or payload    *)
(* data that are refused (not counted).                                    *)
(***************************************************************************)
RefuseHandshake(c) ==
  /\ c.adr \notin Alive \cup {Self}
  /\ Fault
  /\ conns' = conns \ {c}
  /\ \/ add_ip_fail(c.adr)
     \/ c.income /\ UNCHANGED <<m_ip_fails_score, m_blocked_ips>>
  /\ UNCHANGED <<m_peerlist, closing, pings, m_conn_fails_cache, maker, accepts, answered>>

(* The listening port is sent in the handshake, 0 if it is hidden.         *)
handle_handshake(c, id, my_port) ==
  /\ c.income
  /\ c.peer_id = NoId
  /\ conns' = Associated(c, id)
  /\ pings' = IF id # my_id /\ my_port /\ is_ip_allowed(c.adr)
              THEN pings \cup {[adr |-> c.adr, id |-> id, n |-> 0]}
              ELSE pings
  /\ UNCHANGED <<m_peerlist, closing, ipVars, maker, envVars, answered>>

PingConnects(p) ==
  /\ p.n = 0
  /\ p.adr \in Alive \cup Flaky
  /\ Open(p.adr, FALSE, "ping")
  /\ pings' = (pings \ {p}) \cup {[p EXCEPT !.n = FreeNumber]}
  /\ UNCHANGED <<m_peerlist, ipVars, maker, envVars, answered>>

PingFails(p) ==
  /\ pings' = pings \ {p}
  /\ conns' = {c \in conns : c.n # p.n}
  /\ UNCHANGED <<m_peerlist, closing, ipVars, maker, envVars, answered>>

(* The ids must agree for the callback that adds the peer to be called.    *)
ClaimBelieved(p) == TRUE
PingAgrees(p)    == p.id = IdOf(p.adr)

PingAnswered(p) ==
  /\ \E c \in conns : c.n = p.n
  /\ pings' = pings \ {p}
  /\ conns' = {c \in conns : c.n # p.n}
  /\ answered' = answered \cup {<<p.adr, IdOf(p.adr)>>}
  /\ m_peerlist' = IF PingAgrees(p) THEN set_peer_just_seen(m_peerlist, p.adr, p.id)
                                    ELSE m_peerlist
  /\ UNCHANGED <<closing, ipVars, maker, envVars>>
-----------------------------------------------------------------------------
(***************************************************************************)
(* do_peer_timed_sync, its answer: a list from the future closes the       *)
(* connection, and the peer is noted as seen all the same.                 *)
(***************************************************************************)
TimedSync(c, list) ==
  /\ c.peer_id # NoId
  /\ LET good == fix_time_delta(list)
         merged == IF good THEN merge_peerlist(m_peerlist, list) ELSE m_peerlist
     IN  /\ good \/ c.adr \notin Alive
         /\ IF good
            THEN UNCHANGED <<conns, closing, m_ip_fails_score, m_blocked_ips, faults>>
            ELSE conns' = conns \ {c} /\ add_ip_fail(c.adr) /\ Fault /\ UNCHANGED closing
         /\ m_peerlist' = IF c.income THEN merged ELSE set_peer_just_seen(merged, RemoteAddr(c), c.peer_id)
  /\ UNCHANGED <<pings, m_conn_fails_cache, maker, accepts, answered>>

(***************************************************************************)
(* The far end closes, the line breaks, process_payload_sync_data has      *)
(* dropped a busy node (and returned true), handle_timed_sync refuses the  *)
(* payload data, or remove_dead_connections; any time, the moment after    *)
(* the handshake too.                                                      *)
(***************************************************************************)
CloseConnection(c) ==
  /\ IF c.adr \in Unsteady THEN UNCHANGED faults ELSE Fault
  /\ conns' = conns \ {c}
  /\ UNCHANGED <<m_peerlist, closing, pings, ipVars, maker, accepts, answered>>

(* del_connection: the last handler of a closed connection has run.        *)
ConnectionGone(c) ==
  /\ closing' = closing \ {c}
  /\ UNCHANGED <<m_peerlist, conns, pings, ipVars, maker, envVars, answered>>

(* An hour after the failure, or a day after the block.                    *)
Forget(a) ==
  /\ a \in m_conn_fails_cache \cup m_blocked_ips
  /\ \/ m_conn_fails_cache' = m_conn_fails_cache \ {a} /\ UNCHANGED m_blocked_ips
     \/ m_blocked_ips' = m_blocked_ips \ {a} /\ UNCHANGED m_conn_fails_cache
  /\ UNCHANGED <<m_peerlist, netVars, m_ip_fails_score, maker, envVars, answered>>

-----------------------------------------------------------------------------
MakerStep ==
  \/ StartMaker \/ PlanCalls \/ CountConnections \/ GiveUp
  \/ \E i \in 0..50 : PickPeer(i)
  \/ ConnectFails \/ Connect \/ HandshakeDone

HandshakeAnswer ==
  \/ HandshakeRefused
  \/ HandshakeBadList
  \/ \E list \in SentLists, ok \in BOOLEAN :
       HandshakeAnswered(list, ok)

IncomingStep ==
  \/ \E a \in Addrs : Accept(a)
  \/ \E c \in conns : RefuseHandshake(c)
  \/ \E c \in {d \in conns : d.income}, port \in BOOLEAN :
       \E id \in Claims[c.adr] : handle_handshake(c, id, port)
  \/ \E p \in pings : PingConnects(p) \/ PingFails(p) \/ PingAnswered(p)

OtherStep ==
  \/ \E c \in conns, list \in SentLists : TimedSync(c, list)
  \/ \E c \in conns : CloseConnection(c)
  \/ \E c \in closing : ConnectionGone(c)
  \/ \E a \in Addrs : Forget(a)

Next == MakerStep \/ HandshakeAnswer \/ IncomingStep \/ OtherStep

Spec == Init /\ [][Next]_vars

(***************************************************************************)
(* The thread of the maker runs, a connect attempt ends, and a handshake   *)
(* ends with an answer, a closed connection or its timeout.                *)
(***************************************************************************)
FairSpec == Spec /\ WF_vars(MakerStep \/ HandshakeAnswer)
-----------------------------------------------------------------------------
MakerStates ==
  [pc : {"idle", "lists", "count", "pick", "connect", "handshake", "shaken"},
   adr : Addrs, plan : Seq([white : BOOLEAN, target : 0..connections_count]),
   seed : 0..Len(m_seed_nodes), tries : Nat, max : Nat, tried : SUBSET Nat,
   n : Nat, ok : BOOLEAN]

(***************************************************************************)
(* The types.                                                              *)
(***************************************************************************)
TypeOK ==
  /\ m_peerlist \in [white : Seq(Listed), gray : Seq(Listed)]
  /\ conns \subseteq Connection /\ closing \subseteq Connection
  /\ m_conn_fails_cache \subseteq Addrs /\ m_blocked_ips \subseteq Addrs
  /\ m_ip_fails_score \in [Addrs -> 0..IpFailsLimit]
  /\ pings \subseteq [adr : Addrs, id : Ids, n : Nat]
  /\ maker \in MakerStates
  /\ accepts \in 0..MaxAccepts
  /\ faults \in 0..MaxFaults

(***************************************************************************)
(* No address is twice in a list or in both (append_with_peer_white        *)
(* erases, and append_with_peer_gray refuses), whatever is trimmed or      *)
(* replaced in between.                                                    *)
(***************************************************************************)
ListsDisjoint ==
  /\ \A list \in {m_peerlist.white, m_peerlist.gray} : Cardinality(AddrsOf(list)) = Len(list)
  /\ AddrsOf(m_peerlist.white) \cap AddrsOf(m_peerlist.gray) = {}

(***************************************************************************)
(* What the white list promises: a white entry is an address this node has *)
(* itself connected to and that answered with that id; neither the id an   *)
(* incoming handshake claims nor the short-lived port of an incoming       *)
(* connection gets there, and nor does a rumour.                           *)
(***************************************************************************)
WhiteAnswered ==
  \A i \in DOMAIN m_peerlist.white :
    <<m_peerlist.white[i].adr, m_peerlist.white[i].id>> \in answered

(***************************************************************************)
(* The maker opens no more connections than connections_count, although    *)
(* pings, lost connections and asked seeds change the count it compares.   *)
(***************************************************************************)
OutgoingBounded == Cardinality({c \in Outgoing : c.use # "ping"}) <= connections_count

(***************************************************************************)
(* Two connections that the maker opened never lead to the same address,   *)
(* and none that it keeps leads back to this node, whatever id the lists   *)
(* give for it.                                                            *)
(***************************************************************************)
KeptConns == {c \in Outgoing : c.use # "ping" /\ c.n # maker.n}

DistinctPeers ==
  /\ \A c \in KeptConns : c.peer_id # my_id
  /\ \A c, d \in Outgoing : c.adr = d.adr /\ c.use # "ping" /\ d.use # "ping" => c = d

(***************************************************************************)
(* A round of connections_maker ends: idle_worker, which also stores the   *)
(* lists and starts the timed syncs, waits for it.  Unless connections to  *)
(* peers are lost again and again: a peer that answers the handshake and   *)
(* is gone before the next count is neither used nor failed, and           *)
(* make_expected_connections_count may pick it for ever.                   *)
(***************************************************************************)
PeerLost == \E c \in conns : c.use = "peer" /\ c.n \notin {d.n : d \in conns'}

MakerReturns ==
  \/ (maker.pc # "idle") ~> (maker.pc = "idle")
  \/ []<><<PeerLost>>_vars

(***************************************************************************)
(* Neither list is longer than its limit.                                  *)
(***************************************************************************)
ListsWithinLimits ==
  Len(m_peerlist.white) <= WhiteLimit /\ Len(m_peerlist.gray) <= GrayLimit
=============================================================================
