-------------------------------- MODULE Proxy --------------------------------
(***************************************************************************)
(* proxy/src/main.rs: the single-threaded loop that ends the DTLS sessions *)
(* of the nodes and exchanges plain CoAP with the backend.  Each turn      *)
(* polls the DTLS socket once and then the backend socket once; a socket   *)
(* is the queue of what the kernel has received for it.                    *)
(*                                                                         *)
(* tinydtls and the DTLS clients of the nodes are external: a handshake    *)
(* with a node is one datagram, which gives proxy and node the same key.   *)
(* A key is named after the boot of the node that asked for it.            *)
(***************************************************************************)
EXTENDS Queues, FiniteSets

CONSTANTS
    Nodes, Posts, Commands,
    MAX_SESSIONS,
    NoKey,               \* the key of a node without a finished handshake
    SocketBuffer,        \* bound: what the kernel keeps for a socket
    MaxResets,           \* bound: resets of nodes
    MaxLost,             \* bound: handshakes whose last flight is lost
    MaxPosts,            \* bound: posts
    MaxCommands          \* bound: commands

ASSUME ProxyAssumption ==
    /\ MAX_SESSIONS \in Nat \ {0}
    /\ NoKey \notin Nat
    /\ SocketBuffer \in Nat /\ MaxResets \in Nat /\ MaxLost \in Nat
    /\ MaxPosts \in Nat /\ MaxCommands \in Nat

VARIABLES
    dtls_socket,         \* datagrams of the nodes not yet received
    backend_socket,      \* packets of the backend not yet received
    sessions,            \* addresses of the sessions, in order of creation
    peers,               \* the key tinydtls has for each node
    polling,             \* the socket the loop polls next
    boots,               \* how often each node has booted
    keys,                \* the key each node uses
    at_backend,          \* the posts sent on to the backend, with addresses
    at_node,             \* the commands each node has decrypted
    left                 \* posts, commands, losses, resets to come

proxyVars == <<sessions, peers, polling>>
nodeVars == <<boots, keys>>
vars == <<dtls_socket, backend_socket, proxyVars, nodeVars, at_backend,
          at_node, left>>

Hello(n, b) == [kind |-> "hello", node |-> n, key |-> b]
Record(n, k, p) == [kind |-> "record", node |-> n, key |-> k, post |-> p]
CommandPacket(n, c) == [node |-> n, command |-> c]

Datagram == [kind : {"hello"}, node : Nodes, key : Nat]
            \cup [kind : {"record"}, node : Nodes, key : Nat, post : Posts]

Counted == {"post", "command", "loss", "reset"}

TypeOK ==
    /\ dtls_socket \in Seq(Datagram)
    /\ backend_socket \in Seq([node : Nodes, command : Commands])
    /\ sessions \in Seq(Nodes)
    /\ peers \in [Nodes -> Nat \cup {NoKey}]
    /\ polling \in {"dtls", "backend"}
    /\ boots \in [Nodes -> Nat]
    /\ keys \in [Nodes -> Nat \cup {NoKey}]
    /\ at_backend \in Seq([node : Nodes, post : Posts])
    /\ at_node \in [Nodes -> Seq(Commands)]
    /\ left \in [Counted -> Nat]

Init ==
    /\ dtls_socket = <<>> /\ backend_socket = <<>>
    /\ sessions = <<>>
    /\ peers = [n \in Nodes |-> NoKey]
    /\ polling = "dtls"
    /\ boots = [n \in Nodes |-> 0]
    /\ keys = [n \in Nodes |-> NoKey]
    /\ at_backend = <<>>
    /\ at_node = [n \in Nodes |-> <<>>]
    /\ left = [post |-> MaxPosts, command |-> MaxCommands, loss |-> MaxLost,
               reset |-> MaxResets]

Spend(what) ==
    left[what] > 0 /\ left' = [left EXCEPT ![what] = @ - 1]

(***************************************************************************)
(* Nodes and backend (external).  A node without a key asks for one        *)
(* whenever data_thread posts; what finds no room in a socket is dropped.  *)
(***************************************************************************)
Handshake(n) ==
    /\ keys[n] = NoKey
    /\ Len(dtls_socket) < SocketBuffer
    /\ dtls_socket' = Append(dtls_socket, Hello(n, boots[n]))
    /\ UNCHANGED <<backend_socket, proxyVars, nodeVars, at_backend, at_node, left>>

Post(n, p) ==
    /\ keys[n] # NoKey
    /\ Len(dtls_socket) < SocketBuffer
    /\ dtls_socket' = Append(dtls_socket, Record(n, keys[n], p))
    /\ Spend("post")
    /\ UNCHANGED <<backend_socket, proxyVars, nodeVars, at_backend, at_node>>

Reset(n) ==
    /\ Spend("reset")
    /\ boots' = [boots EXCEPT ![n] = @ + 1]
    /\ keys' = [keys EXCEPT ![n] = NoKey]
    /\ UNCHANGED <<dtls_socket, backend_socket, proxyVars, at_backend, at_node>>

SendCommand(n, c) ==
    /\ Len(backend_socket) < SocketBuffer
    /\ backend_socket' = Append(backend_socket, CommandPacket(n, c))
    /\ Spend("command")
    /\ UNCHANGED <<dtls_socket, proxyVars, nodeVars, at_backend, at_node>>

(***************************************************************************)
(* The first half of a turn: the DTLS socket.                              *)
(***************************************************************************)
(* Mutants: sessions are compared by something that is always different,   *)
(* such as the port of the sender; and they are not compared at all.       *)
SessionsOfNone(n) == {}
SessionsOfAny(n) == DOMAIN sessions

SessionsOf(n) == {i \in DOMAIN sessions : sessions[i] = n}

(* Mutant: the post is sent on as it came.                                 *)
server_read_callback_bare(session, post) ==
    at_backend' \in {at_backend, Append(at_backend, [post |-> post])}

(* The post is sent on with the address of the session; a backend that is  *)
(* not there does not get it.                                              *)
server_read_callback(session, post) ==
    at_backend' \in {at_backend,
                     Append(at_backend, [node |-> session, post |-> post])}

(* tinydtls: a handshake replaces the key of the node, whose own side is   *)
(* finished unless the node has booted since or the last flight is lost;   *)
(* a record under another key than the present one is dropped.             *)
dtls_handle_message(session, d) ==
    \/ /\ d.kind = "hello"
       /\ peers' = [peers EXCEPT ![session] = d.key]
       /\ \/ /\ keys' = IF boots[d.node] = d.key
                        THEN [keys EXCEPT ![d.node] = d.key] ELSE keys
             /\ UNCHANGED left
          \/ Spend("loss") /\ UNCHANGED keys
       /\ UNCHANGED at_backend
    \/ /\ d.kind = "record" /\ peers[session] = d.key
       /\ server_read_callback(session, d.post)
       /\ UNCHANGED <<peers, keys, left>>
    \/ /\ d.kind = "record" /\ peers[session] # d.key
       /\ UNCHANGED <<peers, keys, at_backend, left>>

DtlsWouldBlock ==
    /\ polling = "dtls" /\ dtls_socket = <<>>
    /\ polling' = "backend"
    /\ UNCHANGED <<dtls_socket, backend_socket, sessions, peers, nodeVars,
                   at_backend, at_node, left>>

(* A known address uses its session, a new one gets a session.             *)
DtlsReceive ==
    /\ polling = "dtls" /\ dtls_socket # <<>>
    /\ LET d == Head(dtls_socket)
       IN  \/ \E i \in SessionsOf(d.node) :
                /\ dtls_handle_message(sessions[i], d)
                /\ UNCHANGED sessions
           \/ /\ SessionsOf(d.node) = {} /\ Len(sessions) # MAX_SESSIONS
              /\ sessions' = Append(sessions, d.node)
              /\ dtls_handle_message(d.node, d)
    /\ dtls_socket' = Tail(dtls_socket)
    /\ polling' = "backend"
    /\ UNCHANGED <<backend_socket, boots, at_node>>

(* No session is left: the loop continues without polling the backend.     *)
DtlsRefuse ==
    /\ polling = "dtls" /\ dtls_socket # <<>>
    /\ SessionsOf(Head(dtls_socket).node) = {} /\ Len(sessions) = MAX_SESSIONS
    /\ dtls_socket' = Tail(dtls_socket)
    /\ UNCHANGED <<backend_socket, proxyVars, nodeVars, at_backend, at_node, left>>

(***************************************************************************)
(* The second half: the backend socket.                                    *)
(***************************************************************************)
BackendWouldBlock ==
    /\ polling = "backend" /\ backend_socket = <<>>
    /\ polling' = "dtls"
    /\ UNCHANGED <<dtls_socket, backend_socket, sessions, peers, nodeVars,
                   at_backend, at_node, left>>

(* tinydtls encrypts under the key of the session; a node with another key *)
(* or none drops what it gets.                                             *)
dtls_write(session, command) ==
    IF peers[session] # NoKey /\ peers[session] = keys[session]
    THEN at_node' = [at_node EXCEPT ![session] = Append(@, command)]
    ELSE UNCHANGED at_node

(* Mutant: the loop looks at a packet without taking it, and serves a      *)
(* retransmission to the node.                                             *)
BackendReceiveTwice ==
    /\ polling = "backend" /\ backend_socket # <<>>
    /\ LET packet == Head(backend_socket)
       IN  /\ SessionsOf(packet.node) # {}
           /\ dtls_write(packet.node, packet.command)
    /\ polling' = "dtls"
    /\ UNCHANGED <<dtls_socket, backend_socket, sessions, peers, nodeVars,
                   at_backend, left>>

BackendReceive ==
    /\ polling = "backend" /\ backend_socket # <<>>
    /\ LET packet == Head(backend_socket)
       IN  \/ \E i \in SessionsOf(packet.node) :
                dtls_write(sessions[i], packet.command)
           \/ SessionsOf(packet.node) = {} /\ UNCHANGED at_node
    /\ backend_socket' = Tail(backend_socket)
    /\ polling' = "dtls"
    /\ UNCHANGED <<dtls_socket, sessions, peers, nodeVars, at_backend, left>>

NodeStep(n) ==
    \/ Handshake(n) \/ Reset(n)
    \/ \E p \in Posts : Post(n, p)

ProxyStep ==
    \/ DtlsWouldBlock \/ DtlsReceive \/ DtlsRefuse
    \/ BackendWouldBlock \/ BackendReceive

Next ==
    \/ \E n \in Nodes : NodeStep(n) \/ \E c \in Commands : SendCommand(n, c)
    \/ ProxyStep

Spec == Init /\ [][Next]_vars

(***************************************************************************)
(* Fairness.  The loop turns every 16 ms (main.rs:35, 258), and data_thread *)
(* posts every five seconds, so that a board without a key asks for one    *)
(* again; it finds room in the socket again and again.                     *)
(***************************************************************************)
Fairness ==
    /\ WF_vars(ProxyStep)
    /\ \A n \in Nodes : SF_vars(Handshake(n))

FairSpec == Spec /\ Fairness

(***************************************************************************)
(* Properties.                                                             *)
(***************************************************************************)
(* A session per address, at most MAX_SESSIONS of them, and no key without *)
(* a session (main.rs:263-296).                                            *)
SessionsOK ==
    /\ Len(sessions) <= MAX_SESSIONS
    /\ \A i, j \in DOMAIN sessions : sessions[i] = sessions[j] => i = j
    /\ \A n \in Nodes : peers[n] # NoKey => \E i \in DOMAIN sessions : sessions[i] = n

(* The posts of a node in the DTLS socket, the commands for it in the      *)
(* backend socket.                                                         *)
PostsOf(n) ==
    LET records == Only(dtls_socket, [kind : {"record"}, node : {n}, key : Nat, post : Posts])
    IN  [i \in DOMAIN records |-> records[i].post]

CommandsFor(n) ==
    LET packets == Only(backend_socket, [node : {n}, command : Commands])
    IN  [i \in DOMAIN packets |-> packets[i].command]

R == INSTANCE Relay WITH up <- [n \in Nodes |-> PostsOf(n)],
                         down <- [n \in Nodes |-> CommandsFor(n)]

(* The proxy is a relay: right addressee, no duplicate, no reordering,     *)
(* whatever handshakes, resets and refusals happen (main.rs:254-433).      *)
Relays == R!Spec

(* A board that keeps trying gets a key in the end, unless others have all *)
(* the sessions (main.rs:274-296).                                         *)
Connected(n) == keys[n] # NoKey /\ keys[n] = peers[n]

BoardsConnect ==
    \A n \in Nodes :
        <>[](Connected(n) \/ (Len(sessions) = MAX_SESSIONS /\ SessionsOf(n) = {}))

=============================================================================
