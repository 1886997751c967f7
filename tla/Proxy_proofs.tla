---------------------------- MODULE Proxy_proofs ----------------------------
(***************************************************************************)
(* Proofs about the proxy: its types; that it has at most one session per  *)
(* address, at most MAX_SESSIONS sessions and no key without one; and that *)
(* it implements the relay of Relay.tla.                                   *)
(***************************************************************************)
EXTENDS Proxy, Queues_proofs, SequenceTheorems, TLAPS

(* The constants have the types the module assumes (main.rs:33).           *)
LEMMA Constants ==
    /\ MAX_SESSIONS \in Nat \ {0} /\ NoKey \notin Nat
    /\ SocketBuffer \in Nat /\ MaxResets \in Nat /\ MaxLost \in Nat
    /\ MaxPosts \in Nat /\ MaxCommands \in Nat
  BY ProxyAssumption

(* Receiving the first datagram of a socket leaves the rest of it.         *)
LEMMA Received ==
  ASSUME NEW T, NEW s \in Seq(T), s # <<>>
  PROVE  Head(s) \in T /\ Tail(s) \in Seq(T)
  BY HeadTailProperties

(* Spending a budget leaves the budgets natural numbers.                   *)
LEMMA Spent ==
  ASSUME TypeOK, NEW what \in Counted, Spend(what)
  PROVE  left' \in [Counted -> Nat]
  BY DEF TypeOK, Spend

(* What tinydtls does with a datagram of a node whose session it is given  *)
(* keeps the types (main.rs:299-306).                                      *)
LEMMA HandledTypes ==
  ASSUME TypeOK, NEW n \in Nodes, NEW d \in Datagram, d.node = n,
         dtls_handle_message(n, d)
  PROVE  /\ peers' \in [Nodes -> Nat \cup {NoKey}]
         /\ keys' \in [Nodes -> Nat \cup {NoKey}]
            /\ at_backend' \in Seq([node : Nodes, post : Posts])
         /\ left' \in [Counted -> Nat]
<1>0. d.key \in Nat
  BY DEF Datagram
<1>1. CASE /\ d.kind = "hello"
           /\ peers' = [peers EXCEPT ![n] = d.key]
           /\ \/ /\ keys' = IF boots[d.node] = d.key
                            THEN [keys EXCEPT ![d.node] = d.key] ELSE keys
                 /\ UNCHANGED left
              \/ Spend("loss") /\ UNCHANGED keys
           /\ UNCHANGED at_backend
  <2>1. left' \in [Counted -> Nat]
    BY <1>1, Spent DEF TypeOK, Counted
  <2>2. QED
    BY <1>0, <1>1, <2>1 DEF TypeOK
<1>2. CASE /\ d.kind = "record" /\ peers[n] = d.key
           /\ server_read_callback(n, d.post)
           /\ UNCHANGED <<peers, keys, left>>
  <2>1. d.post \in Posts
    BY <1>2 DEF Datagram
  <2>2. Append(at_backend, [node |-> n, post |-> d.post])
          \in Seq([node : Nodes, post : Posts])
    BY <2>1, AppendProperties DEF TypeOK
  <2>3. QED
    BY <1>2, <2>2 DEF TypeOK, server_read_callback
<1>3. CASE /\ d.kind = "record" /\ peers[n] # d.key
           /\ UNCHANGED <<peers, keys, at_backend, left>>
  BY <1>3 DEF TypeOK
<1>4. QED
  BY <1>1, <1>2, <1>3 DEF dtls_handle_message

(* A message the proxy encrypts keeps the types of what boards got.        *)
LEMMA WrittenTypes ==
  ASSUME TypeOK, NEW n \in Nodes, NEW c \in Commands, dtls_write(n, c)
  PROVE  at_node' \in [Nodes -> Seq(Commands)]
<1>1. Append(at_node[n], c) \in Seq(Commands)
  BY AppendProperties DEF TypeOK
<1>2. QED
  BY <1>1 DEF TypeOK, dtls_write

(* Every step keeps the types.                                             *)
LEMMA TypeStep ==
  ASSUME TypeOK, [Next]_vars
  PROVE  TypeOK'
<1>1. ASSUME NEW n \in Nodes, Handshake(n)
      PROVE  TypeOK'
  <2>1. Hello(n, boots[n]) \in Datagram
    BY DEF TypeOK, Hello, Datagram
  <2>2. dtls_socket' \in Seq(Datagram)
    BY <1>1, <2>1, AppendProperties DEF TypeOK, Handshake
  <2>3. QED
    BY <1>1, <2>2 DEF TypeOK, Handshake, proxyVars, nodeVars
<1>2. ASSUME NEW n \in Nodes, NEW p \in Posts, Post(n, p)
      PROVE  TypeOK'
  <2>1. Record(n, keys[n], p) \in Datagram
    BY <1>2 DEF TypeOK, Record, Datagram, Post
  <2>2. dtls_socket' \in Seq(Datagram)
    BY <1>2, <2>1, AppendProperties DEF TypeOK, Post
  <2>3. left' \in [Counted -> Nat]
    BY <1>2, Spent DEF Post, Counted
  <2>4. QED
    BY <1>2, <2>2, <2>3 DEF TypeOK, Post, proxyVars, nodeVars
<1>3. ASSUME NEW n \in Nodes, Reset(n)
      PROVE  TypeOK'
  <2>1. left' \in [Counted -> Nat]
    BY <1>3, Spent DEF Reset, Counted
  <2>2. QED
    BY <1>3, <2>1 DEF TypeOK, Reset, proxyVars
<1>4. ASSUME NEW n \in Nodes, NEW c \in Commands, SendCommand(n, c)
      PROVE  TypeOK'
  <2>1. backend_socket' \in Seq([node : Nodes, command : Commands])
    BY <1>4, AppendProperties DEF TypeOK, SendCommand, CommandPacket
  <2>2. left' \in [Counted -> Nat]
    BY <1>4, Spent DEF SendCommand, Counted
  <2>3. QED
    BY <1>4, <2>1, <2>2 DEF TypeOK, SendCommand, proxyVars, nodeVars
<1>5. CASE DtlsWouldBlock
  BY <1>5 DEF TypeOK, DtlsWouldBlock, nodeVars
<1>6. CASE DtlsReceive
  <2> DEFINE d == Head(dtls_socket)
  <2>1. d \in Datagram /\ dtls_socket' \in Seq(Datagram)
    BY <1>6, Received DEF TypeOK, DtlsReceive
  <2>2. d.node \in Nodes
    BY <2>1 DEF Datagram
  <2>3. dtls_handle_message(d.node, d)
    BY <1>6 DEF DtlsReceive, SessionsOf
  <2>4. sessions' = sessions \/ sessions' = Append(sessions, d.node)
    BY <1>6 DEF DtlsReceive
  <2> HIDE DEF d
  <2>7. sessions' \in Seq(Nodes)
    <3>1. sessions \in Seq(Nodes)
      BY DEF TypeOK
    <3>2. Append(sessions, d.node) \in Seq(Nodes)
      BY <2>2, <3>1, AppendProperties
    <3>3. QED
      BY <2>4, <3>1, <3>2
  <2>5. /\ peers' \in [Nodes -> Nat \cup {NoKey}]
        /\ keys' \in [Nodes -> Nat \cup {NoKey}]
           /\ at_backend' \in Seq([node : Nodes, post : Posts])
        /\ left' \in [Counted -> Nat]
    BY <2>1, <2>2, <2>3, HandledTypes
  <2>6. QED
    BY <1>6, <2>1, <2>7, <2>5 DEF TypeOK, DtlsReceive
<1>7. CASE DtlsRefuse
  <2>1. dtls_socket' \in Seq(Datagram)
    BY <1>7, Received DEF TypeOK, DtlsRefuse
  <2>2. QED
    BY <1>7, <2>1 DEF TypeOK, DtlsRefuse, proxyVars, nodeVars
<1>8. CASE BackendWouldBlock
  BY <1>8 DEF TypeOK, BackendWouldBlock, nodeVars
<1>9. CASE BackendReceive
  <2> DEFINE packet == Head(backend_socket)
  <2>1. /\ packet \in [node : Nodes, command : Commands]
        /\ backend_socket' \in Seq([node : Nodes, command : Commands])
    BY <1>9, Received DEF TypeOK, BackendReceive
  <2>2. packet.node \in Nodes /\ packet.command \in Commands
    BY <2>1
  <2>3. dtls_write(packet.node, packet.command) \/ UNCHANGED at_node
    BY <1>9 DEF BackendReceive, SessionsOf
  <2> HIDE DEF packet
  <2>4. at_node' \in [Nodes -> Seq(Commands)]
    BY <2>2, <2>3, WrittenTypes DEF TypeOK
  <2>5. QED
    BY <1>9, <2>1, <2>4 DEF TypeOK, BackendReceive, nodeVars
<1>10. CASE UNCHANGED vars
  BY <1>10 DEF TypeOK, vars, proxyVars, nodeVars
<1>11. QED
  BY <1>1, <1>2, <1>3, <1>4, <1>5, <1>6, <1>7, <1>8, <1>9, <1>10
     DEF Next, NodeStep, ProxyStep

(* Every state of the proxy has the types of its module.                   *)
THEOREM ProxyTypes == Spec => []TypeOK
<1>1. Init => TypeOK
  BY Constants DEF Init, TypeOK, Counted
<1>2. TypeOK /\ [Next]_vars => TypeOK'
  BY TypeStep
<1>3. QED
  BY <1>1, <1>2, PTL DEF Spec

(* A step that neither creates a session nor gives out a key keeps what is *)
(* said of the sessions.                                                   *)
LEMMA SessionsStay ==
  ASSUME SessionsOK, UNCHANGED <<sessions, peers>>
  PROVE  SessionsOK'
  BY DEF SessionsOK

(* Only the proxy handling a datagram touches sessions and keys.           *)
LEMMA OnlyReceiveTouches ==
  ASSUME [Next]_vars, ~DtlsReceive
  PROVE  UNCHANGED <<sessions, peers>>
  BY DEF Next, NodeStep, ProxyStep, Handshake, Post, Reset, SendCommand,
         DtlsWouldBlock, DtlsRefuse, BackendWouldBlock, BackendReceive,
         vars, proxyVars

(* tinydtls gives a key only to the address whose session it was called    *)
(* with (main.rs:299-306).                                                 *)
LEMMA KeyForSession ==
  ASSUME TypeOK, NEW n \in Nodes, NEW d, dtls_handle_message(n, d)
  PROVE  \A m \in Nodes : m # n => peers'[m] = peers[m]
  BY DEF TypeOK, dtls_handle_message

(* One session per address, MAX_SESSIONS at most, and no key without a     *)
(* session: the lookup of main.rs:263-272 is made before every creation.   *)
THEOREM Sessions == Spec => []SessionsOK
<1>1. Init => SessionsOK
  BY Constants DEF Init, SessionsOK
<1>2. TypeOK /\ SessionsOK /\ [Next]_vars => SessionsOK'
  <2> SUFFICES ASSUME TypeOK, SessionsOK, [Next]_vars
               PROVE  SessionsOK'
    OBVIOUS
  <2>1. CASE ~DtlsReceive
    BY <2>1, OnlyReceiveTouches, SessionsStay
  <2>2. CASE DtlsReceive
    <3> DEFINE d == Head(dtls_socket)
    <3>1. d.node \in Nodes
      BY <2>2, Received DEF TypeOK, DtlsReceive, Datagram
    <3>2. dtls_handle_message(d.node, d)
      BY <2>2 DEF DtlsReceive, SessionsOf
    <3>3. \A m \in Nodes : m # d.node => peers'[m] = peers[m]
      BY <3>1, <3>2, KeyForSession
    <3>4. CASE /\ \E i \in DOMAIN sessions : sessions[i] = d.node
               /\ UNCHANGED sessions
      BY <3>3, <3>4 DEF SessionsOK
    <3>5. CASE /\ SessionsOf(d.node) = {} /\ Len(sessions) # MAX_SESSIONS
               /\ sessions' = Append(sessions, d.node)
      <4>1. Len(sessions) \in Nat /\ DOMAIN sessions = 1 .. Len(sessions)
        BY LenProperties DEF TypeOK
      <4>2. /\ Len(sessions') = Len(sessions) + 1
            /\ DOMAIN sessions' = 1 .. Len(sessions) + 1
            /\ \A i \in 1 .. Len(sessions) : sessions'[i] = sessions[i]
            /\ sessions'[Len(sessions) + 1] = d.node
        BY <3>1, <3>5, <4>1, AppendProperties, LenProperties DEF TypeOK
      <4>3. \A i \in DOMAIN sessions : sessions[i] # d.node
        BY <3>5 DEF SessionsOf
      <4>4. Len(sessions') <= MAX_SESSIONS
        <5>1. Len(sessions) <= MAX_SESSIONS /\ Len(sessions) # MAX_SESSIONS
          BY <3>5 DEF SessionsOK
        <5>2. \A x, y \in Nat : x <= y /\ x # y => x + 1 <= y
          OBVIOUS
        <5>3. Len(sessions) + 1 <= MAX_SESSIONS
          BY <5>1, <5>2, <4>1, Constants
        <5>4. QED
          BY <5>3, <4>2
      <4>5. \A i, j \in DOMAIN sessions' : sessions'[i] = sessions'[j] => i = j
        BY <4>1, <4>2, <4>3 DEF SessionsOK
      <4>6. \A m \in Nodes : peers'[m] # NoKey =>
                \E i \in DOMAIN sessions' : sessions'[i] = m
        BY <3>3, <4>1, <4>2 DEF SessionsOK
      <4>7. QED
        BY <4>4, <4>5, <4>6 DEF SessionsOK
    <3>6. QED
      BY <2>2, <3>4, <3>5 DEF DtlsReceive, SessionsOf
  <2>3. QED
    BY <2>1, <2>2
<1>3. QED
  BY <1>1, <1>2, ProxyTypes, PTL DEF Spec

(***************************************************************************)
(* The proxy implements a relay.  The posts of a node that are on their    *)
(* way are its records in the DTLS socket, and what is received is the     *)
(* first of them or no record of that node at all.                         *)
(***************************************************************************)
Packet == [node : Nodes, command : Commands]
AnyRecord == [kind : {"record"}, node : Nodes, key : Nat, post : Posts]

RecordsOf(n) == [kind : {"record"}, node : {n}, key : Nat, post : Posts]
PacketsFor(n) == [node : {n}, command : Commands]

ThePost == [d \in AnyRecord |-> d.post]
TheCommand == [packet \in Packet |-> packet.command]

PostsIn(s, n) == Through(Only(s, RecordsOf(n)), ThePost)
CommandsIn(s, n) == Through(Only(s, PacketsFor(n)), TheCommand)

(* Records and packets on their way, one by one.                           *)
LEMMA RecordsFound ==
  ASSUME NEW n \in Nodes, NEW s \in Seq(Datagram)
  PROVE  /\ Only(s, RecordsOf(n)) \in Seq(AnyRecord)
         /\ ThePost \in [AnyRecord -> Posts]
         /\ \A d \in Datagram : d \in RecordsOf(n) <=> d.kind = "record" /\ d.node = n
         /\ \A d \in Datagram : d.kind = "record" => d \in AnyRecord /\ ThePost[d] = d.post
<1>1. Only(s, RecordsOf(n)) \in Seq(Datagram \cap RecordsOf(n))
  BY OnlyType
<1>2. Datagram \cap RecordsOf(n) \subseteq AnyRecord
  BY DEF RecordsOf, AnyRecord
<1>3. Only(s, RecordsOf(n)) \in Seq(AnyRecord)
  BY <1>1, <1>2
<1>4. \A d \in Datagram : d.kind = "record" => d \in AnyRecord /\ ThePost[d] = d.post
  BY DEF Datagram, AnyRecord, ThePost
<1>5. \A d \in Datagram : d \in RecordsOf(n) <=> d.kind = "record" /\ d.node = n
  BY DEF Datagram, RecordsOf
<1>. QED
  BY <1>3, <1>4, <1>5 DEF AnyRecord, ThePost

(* The commands for a board among the packets of the backend socket.       *)
LEMMA PacketsFound ==
  ASSUME NEW n \in Nodes, NEW s \in Seq(Packet)
  PROVE  /\ Only(s, PacketsFor(n)) \in Seq(Packet)
         /\ TheCommand \in [Packet -> Commands]
         /\ \A p \in Packet : (p \in PacketsFor(n) <=> p.node = n) /\ TheCommand[p] = p.command
<1>1. Only(s, PacketsFor(n)) \in Seq(Packet \cap PacketsFor(n))
  BY OnlyType
<1>2. Packet \cap PacketsFor(n) \subseteq Packet
  OBVIOUS
<1>3. Only(s, PacketsFor(n)) \in Seq(Packet)
  BY <1>1, <1>2
<1>. QED
  BY <1>3 DEF Packet, PacketsFor, TheCommand

OnTheirWayOK ==
  \A n \in Nodes : /\ PostsOf(n) = PostsIn(dtls_socket, n)
                   /\ CommandsFor(n) = CommandsIn(backend_socket, n)

(* What the relay has of them.                                             *)
LEMMA OnTheirWay == TypeOK => OnTheirWayOK
<1> SUFFICES ASSUME TypeOK, NEW n \in Nodes
             PROVE  /\ PostsOf(n) = PostsIn(dtls_socket, n)
                    /\ CommandsFor(n) = CommandsIn(backend_socket, n)
  BY DEF OnTheirWayOK
<1>1. PostsOf(n) = PostsIn(dtls_socket, n)
  <2> DEFINE r == Only(dtls_socket, RecordsOf(n))
  <2>1. r \in Seq(AnyRecord)
    BY RecordsFound DEF TypeOK
  <2>2. PostsOf(n) = [i \in DOMAIN r |-> r[i].post]
    BY DEF PostsOf, RecordsOf
  <2> HIDE DEF r
  <2>3. \A i \in DOMAIN r : r[i].post = ThePost[r[i]]
    BY <2>1 DEF ThePost
  <2>. QED
    BY <2>2, <2>3 DEF PostsIn, Through, r
<1>2. CommandsFor(n) = CommandsIn(backend_socket, n)
  <2> DEFINE r == Only(backend_socket, PacketsFor(n))
  <2>1. r \in Seq(Packet)
    BY PacketsFound DEF TypeOK, Packet
  <2>2. CommandsFor(n) = [i \in DOMAIN r |-> r[i].command]
    BY DEF CommandsFor, PacketsFor
  <2> HIDE DEF r
  <2>3. \A i \in DOMAIN r : r[i].command = TheCommand[r[i]]
    BY <2>1 DEF TheCommand
  <2>. QED
    BY <2>2, <2>3 DEF CommandsIn, Through, r
<1>. QED
  BY <1>1, <1>2

(* A datagram or a packet that arrives.                                    *)
LEMMA PostArrives ==
  ASSUME NEW n \in Nodes, NEW s \in Seq(Datagram), NEW d \in Datagram
  PROVE  PostsIn(Append(s, d), n) =
           IF d.kind = "record" /\ d.node = n THEN Append(PostsIn(s, n), d.post) ELSE PostsIn(s, n)
<1>1. CASE d \in RecordsOf(n)
  <2>1. d.kind = "record" /\ d.node = n /\ d \in AnyRecord /\ ThePost[d] = d.post
    BY <1>1, RecordsFound
  <2> DEFINE r == Only(s, RecordsOf(n))
  <2>2. Only(Append(s, d), RecordsOf(n)) = Append(r, d)
    BY <1>1, OnlyAppend
  <2>3. r \in Seq(AnyRecord) /\ ThePost \in [AnyRecord -> Posts]
    BY RecordsFound
  <2> HIDE DEF r
  <2>4. Through(Append(r, d), ThePost) = Append(Through(r, ThePost), ThePost[d])
    <3>1. d \in AnyRecord
      BY <2>1
    <3>2. \A q : q = Append(r, d) => Through(q, ThePost) = Append(Through(r, ThePost), ThePost[d])
      BY <3>1, <2>3, ThroughAppend
    <3>. QED
      BY <3>2
  <2>. QED
    BY <2>1, <2>2, <2>4 DEF PostsIn, r
<1>2. CASE d \notin RecordsOf(n)
  <2>1. ~(d.kind = "record" /\ d.node = n)
    BY <1>2, RecordsFound
  <2>2. Only(Append(s, d), RecordsOf(n)) = Only(s, RecordsOf(n))
    BY <1>2, OnlyAppend
  <2>. QED
    BY <2>1, <2>2 DEF PostsIn
<1>. QED
  BY <1>1, <1>2

(* A command that arrives, and one that leaves.                            *)
LEMMA CommandArrives ==
  ASSUME NEW n \in Nodes, NEW s \in Seq(Packet), NEW p \in Packet
  PROVE  CommandsIn(Append(s, p), n) =
           IF p.node = n THEN Append(CommandsIn(s, n), p.command) ELSE CommandsIn(s, n)
<1>1. CASE p \in PacketsFor(n)
  <2>1. p.node = n /\ TheCommand[p] = p.command
    BY <1>1, PacketsFound
  <2> DEFINE r == Only(s, PacketsFor(n))
  <2>2. Only(Append(s, p), PacketsFor(n)) = Append(r, p)
    BY <1>1, OnlyAppend
  <2>3. r \in Seq(Packet) /\ TheCommand \in [Packet -> Commands]
    BY PacketsFound
  <2> HIDE DEF r
  <2>4. Through(Append(r, p), TheCommand) = Append(Through(r, TheCommand), TheCommand[p])
    <3>1. \A q : q = Append(r, p) => Through(q, TheCommand) = Append(Through(r, TheCommand), TheCommand[p])
      BY <2>3, ThroughAppend
    <3>. QED
      BY <3>1
  <2>. QED
    BY <2>1, <2>2, <2>4 DEF CommandsIn, r
<1>2. CASE p \notin PacketsFor(n)
  <2>1. p.node # n
    BY <1>2, PacketsFound
  <2>2. Only(Append(s, p), PacketsFor(n)) = Only(s, PacketsFor(n))
    BY <1>2, OnlyAppend
  <2>. QED
    BY <2>1, <2>2 DEF CommandsIn
<1>. QED
  BY <1>1, <1>2

(* A datagram or a packet that is received.                                *)
LEMMA PostLeaves ==
  ASSUME NEW n \in Nodes, NEW s \in Seq(Datagram), s # <<>>
  PROVE  IF Head(s).kind = "record" /\ Head(s).node = n
         THEN /\ PostsIn(s, n) # <<>> /\ Head(PostsIn(s, n)) = Head(s).post
              /\ PostsIn(Tail(s), n) = Tail(PostsIn(s, n))
         ELSE PostsIn(Tail(s), n) = PostsIn(s, n)
<1>0. Head(s) \in Datagram
  BY Received
<1>1. CASE Head(s) \in RecordsOf(n)
  <2>1. Head(s).kind = "record" /\ Head(s).node = n /\ ThePost[Head(s)] = Head(s).post
    BY <1>0, <1>1, RecordsFound
  <2> DEFINE r == Only(s, RecordsOf(n))
  <2>2. r # <<>> /\ Head(r) = Head(s) /\ Only(Tail(s), RecordsOf(n)) = Tail(r)
    BY <1>1, OnlyTail
  <2>3. r \in Seq(AnyRecord) /\ ThePost \in [AnyRecord -> Posts]
    BY RecordsFound
  <2> HIDE DEF r
  <2>4. Through(r, ThePost) # <<>> /\ Head(Through(r, ThePost)) = ThePost[Head(r)]
        /\ Through(Tail(r), ThePost) = Tail(Through(r, ThePost))
    BY <2>2, <2>3, ThroughTail
  <2>. QED
    BY <2>1, <2>2, <2>4 DEF PostsIn, r
<1>2. CASE Head(s) \notin RecordsOf(n)
  <2>1. ~(Head(s).kind = "record" /\ Head(s).node = n)
    BY <1>0, <1>2, RecordsFound
  <2>2. Only(Tail(s), RecordsOf(n)) = Only(s, RecordsOf(n))
    BY <1>2, OnlyTail
  <2>. QED
    BY <2>1, <2>2 DEF PostsIn
<1>. QED
  BY <1>1, <1>2

(* A packet taken from the backend socket is the first command for its     *)
(* board (main.rs:313-425).                                                *)
LEMMA CommandLeaves ==
  ASSUME NEW n \in Nodes, NEW s \in Seq(Packet), s # <<>>
  PROVE  IF Head(s).node = n
         THEN /\ CommandsIn(s, n) # <<>> /\ Head(CommandsIn(s, n)) = Head(s).command
              /\ CommandsIn(Tail(s), n) = Tail(CommandsIn(s, n))
         ELSE CommandsIn(Tail(s), n) = CommandsIn(s, n)
<1>0. Head(s) \in Packet
  BY Received
<1>1. CASE Head(s) \in PacketsFor(n)
  <2>1. Head(s).node = n /\ TheCommand[Head(s)] = Head(s).command
    BY <1>0, <1>1, PacketsFound
  <2> DEFINE r == Only(s, PacketsFor(n))
  <2>2. r # <<>> /\ Head(r) = Head(s) /\ Only(Tail(s), PacketsFor(n)) = Tail(r)
    BY <1>1, OnlyTail
  <2>3. r \in Seq(Packet) /\ TheCommand \in [Packet -> Commands]
    BY PacketsFound
  <2> HIDE DEF r
  <2>4. Through(r, TheCommand) # <<>> /\ Head(Through(r, TheCommand)) = TheCommand[Head(r)]
        /\ Through(Tail(r), TheCommand) = Tail(Through(r, TheCommand))
    BY <2>2, <2>3, ThroughTail
  <2>. QED
    BY <2>1, <2>2, <2>4 DEF CommandsIn, r
<1>2. CASE Head(s) \notin PacketsFor(n)
  <2>1. Head(s).node # n
    BY <1>0, <1>2, PacketsFound
  <2>2. Only(Tail(s), PacketsFor(n)) = Only(s, PacketsFor(n))
    BY <1>2, OnlyTail
  <2>. QED
    BY <2>1, <2>2 DEF CommandsIn
<1>. QED
  BY <1>1, <1>2

UpVar == [n \in Nodes |-> PostsOf(n)]
DownVar == [n \in Nodes |-> CommandsFor(n)]

(* What a step leaves alone is still on its way.                           *)
LEMMA StillOnTheirWay ==
  ASSUME TypeOK, TypeOK'
  PROVE  /\ UNCHANGED dtls_socket => UNCHANGED UpVar
         /\ UNCHANGED backend_socket => UNCHANGED DownVar
<1>1. OnTheirWayOK
  BY OnTheirWay
<1>2. OnTheirWayOK'
  BY OnTheirWay, PTL
<1>3. UNCHANGED dtls_socket => \A n \in Nodes : PostsIn(dtls_socket, n)' = PostsIn(dtls_socket, n)
  BY DEF PostsIn
<1>4. UNCHANGED backend_socket => \A n \in Nodes : CommandsIn(backend_socket, n)' = CommandsIn(backend_socket, n)
  BY DEF CommandsIn
<1>. QED
  BY <1>1, <1>2, <1>3, <1>4 DEF UpVar, DownVar, OnTheirWayOK

(* A datagram is appended to its socket.                                   *)
LEMMA UpGrows ==
  ASSUME TypeOK, TypeOK', NEW d \in Datagram, dtls_socket' = Append(dtls_socket, d)
  PROVE  UpVar' = IF d.kind = "record" THEN [UpVar EXCEPT ![d.node] = Append(@, d.post)] ELSE UpVar
<1>1. OnTheirWayOK
  BY OnTheirWay
<1>2. OnTheirWayOK'
  BY OnTheirWay, PTL
<1>3. dtls_socket \in Seq(Datagram)
  BY DEF TypeOK
<1>4. \A n \in Nodes : PostsOf(n)' =
        IF d.kind = "record" /\ d.node = n THEN Append(PostsOf(n), d.post) ELSE PostsOf(n)
  BY <1>1, <1>2, <1>3, PostArrives DEF OnTheirWayOK
<1>5. d.kind = "record" => d.node \in Nodes
  BY DEF Datagram
<1>. QED
  BY <1>4, <1>5 DEF UpVar

(* The commands for a board, when one arrives and when one is taken.       *)
LEMMA DownGrows ==
  ASSUME TypeOK, TypeOK', NEW p \in Packet, backend_socket' = Append(backend_socket, p)
  PROVE  DownVar' = [DownVar EXCEPT ![p.node] = Append(@, p.command)]
<1>1. OnTheirWayOK
  BY OnTheirWay
<1>2. OnTheirWayOK'
  BY OnTheirWay, PTL
<1>3. backend_socket \in Seq(Packet)
  BY DEF TypeOK, Packet
<1>4. \A n \in Nodes : CommandsFor(n)' =
        IF p.node = n THEN Append(CommandsFor(n), p.command) ELSE CommandsFor(n)
  BY <1>1, <1>2, <1>3, CommandArrives DEF OnTheirWayOK
<1>5. p.node \in Nodes
  BY DEF Packet
<1>. QED
  BY <1>4, <1>5 DEF DownVar

(* The first datagram leaves its socket.                                   *)
LEMMA UpShrinks ==
  ASSUME TypeOK, TypeOK', dtls_socket # <<>>, dtls_socket' = Tail(dtls_socket), NEW d, d = Head(dtls_socket)
  PROVE  IF d.kind = "record"
         THEN /\ d.node \in Nodes /\ UpVar[d.node] # <<>> /\ Head(UpVar[d.node]) = d.post
              /\ UpVar' = [UpVar EXCEPT ![d.node] = Tail(@)]
         ELSE UNCHANGED UpVar
<1>1. OnTheirWayOK
  BY OnTheirWay
<1>2. OnTheirWayOK'
  BY OnTheirWay, PTL
<1>3. dtls_socket \in Seq(Datagram)
  BY DEF TypeOK
<1>4. \A n \in Nodes :
        IF d.kind = "record" /\ d.node = n
        THEN PostsOf(n) # <<>> /\ Head(PostsOf(n)) = d.post /\ PostsOf(n)' = Tail(PostsOf(n))
        ELSE PostsOf(n)' = PostsOf(n)
  BY <1>1, <1>2, <1>3, PostLeaves DEF OnTheirWayOK
<1>5. d.kind = "record" => d.node \in Nodes
  BY <1>3, Received DEF Datagram
<1>. QED
  BY <1>4, <1>5 DEF UpVar

(* Taking a packet shortens the queue of its board only (main.rs:313-425). *)
LEMMA DownShrinks ==
  ASSUME TypeOK, TypeOK', backend_socket # <<>>, backend_socket' = Tail(backend_socket),
         NEW p, p = Head(backend_socket)
  PROVE  /\ p.node \in Nodes /\ DownVar[p.node] # <<>> /\ Head(DownVar[p.node]) = p.command
         /\ DownVar' = [DownVar EXCEPT ![p.node] = Tail(@)]
<1>1. OnTheirWayOK
  BY OnTheirWay
<1>2. OnTheirWayOK'
  BY OnTheirWay, PTL
<1>3. backend_socket \in Seq(Packet)
  BY DEF TypeOK, Packet
<1>4. \A n \in Nodes :
        IF p.node = n
        THEN CommandsFor(n) # <<>> /\ Head(CommandsFor(n)) = p.command /\ CommandsFor(n)' = Tail(CommandsFor(n))
        ELSE CommandsFor(n)' = CommandsFor(n)
  BY <1>1, <1>2, <1>3, CommandLeaves DEF OnTheirWayOK
<1>5. p.node \in Nodes
  <2>1. p \in Packet
    BY <1>3, Received
  <2>. QED
    BY <2>1 DEF Packet
<1>. QED
  BY <1>4, <1>5 DEF DownVar

(* What amounts to a step of the relay.                                    *)
LEMMA RelaySteps ==
  /\ \A n \in Nodes, p \in Posts :
       UpVar' = [UpVar EXCEPT ![n] = Append(@, p)] /\ UNCHANGED <<DownVar, at_backend, at_node>> => R!Next
  /\ \A n \in Nodes, c \in Commands :
       DownVar' = [DownVar EXCEPT ![n] = Append(@, c)] /\ UNCHANGED <<UpVar, at_backend, at_node>> => R!Next
  /\ \A n \in Nodes :
          /\ UpVar[n] # <<>> /\ UpVar' = [UpVar EXCEPT ![n] = Tail(@)]
          /\ at_backend' \in {at_backend, Append(at_backend, [node |-> n, post |-> Head(UpVar[n])])}
          /\ UNCHANGED <<DownVar, at_node>>
       => R!Next
  /\ \A n \in Nodes :
          /\ DownVar[n] # <<>> /\ DownVar' = [DownVar EXCEPT ![n] = Tail(@)]
          /\ at_node' \in {at_node, [at_node EXCEPT ![n] = Append(@, Head(DownVar[n]))]}
          /\ UNCHANGED <<UpVar, at_backend>>
       => R!Next
  /\ UNCHANGED <<UpVar, DownVar, at_backend, at_node>> => UNCHANGED R!vars
<1>1. \A n \in Nodes, p \in Posts :
       UpVar' = [UpVar EXCEPT ![n] = Append(@, p)] /\ UNCHANGED <<DownVar, at_backend, at_node>> => R!Next
  BY DEF R!Next, R!AcceptPost, UpVar, DownVar
<1>2. \A n \in Nodes, c \in Commands :
       DownVar' = [DownVar EXCEPT ![n] = Append(@, c)] /\ UNCHANGED <<UpVar, at_backend, at_node>> => R!Next
  BY DEF R!Next, R!AcceptCommand, UpVar, DownVar
<1>3. \A n \in Nodes :
          /\ UpVar[n] # <<>> /\ UpVar' = [UpVar EXCEPT ![n] = Tail(@)]
          /\ at_backend' \in {at_backend, Append(at_backend, [node |-> n, post |-> Head(UpVar[n])])}
          /\ UNCHANGED <<DownVar, at_node>>
       => R!Next
  <2> SUFFICES ASSUME NEW n \in Nodes,
                      UpVar[n] # <<>>, UpVar' = [UpVar EXCEPT ![n] = Tail(@)],
                      at_backend' \in {at_backend, Append(at_backend, [node |-> n, post |-> Head(UpVar[n])])},
                      UNCHANGED <<DownVar, at_node>>
               PROVE  R!Next
    OBVIOUS
  <2>1. CASE at_backend' = at_backend
    <3>1. R!Lose(n)
      BY <2>1 DEF R!Lose, UpVar, DownVar
    <3>. QED
      BY <3>1 DEF R!Next
  <2>2. CASE at_backend' = Append(at_backend, [node |-> n, post |-> Head(UpVar[n])])
    <3>1. R!ForwardPost(n)
      BY <2>2 DEF R!ForwardPost, UpVar, DownVar
    <3>. QED
      BY <3>1 DEF R!Next
  <2>. QED
    BY <2>1, <2>2
<1>4. \A n \in Nodes :
          /\ DownVar[n] # <<>> /\ DownVar' = [DownVar EXCEPT ![n] = Tail(@)]
          /\ at_node' \in {at_node, [at_node EXCEPT ![n] = Append(@, Head(DownVar[n]))]}
          /\ UNCHANGED <<UpVar, at_backend>>
       => R!Next
  <2> SUFFICES ASSUME NEW n \in Nodes,
                      DownVar[n] # <<>>, DownVar' = [DownVar EXCEPT ![n] = Tail(@)],
                      at_node' \in {at_node, [at_node EXCEPT ![n] = Append(@, Head(DownVar[n]))]},
                      UNCHANGED <<UpVar, at_backend>>
               PROVE  R!Next
    OBVIOUS
  <2>1. CASE at_node' = at_node
    <3>1. R!Lose(n)
      BY <2>1 DEF R!Lose, UpVar, DownVar
    <3>. QED
      BY <3>1 DEF R!Next
  <2>2. CASE at_node' = [at_node EXCEPT ![n] = Append(@, Head(DownVar[n]))]
    <3>1. R!ForwardCommand(n)
      BY <2>2 DEF R!ForwardCommand, UpVar, DownVar
    <3>. QED
      BY <3>1 DEF R!Next
  <2>. QED
    BY <2>1, <2>2
<1>5. UNCHANGED <<UpVar, DownVar, at_backend, at_node>> => UNCHANGED R!vars
  BY DEF R!vars, UpVar, DownVar
<1>. QED
  BY <1>1, <1>2, <1>3, <1>4, <1>5

(* At first nothing is on its way.                                         *)
LEMMA RelayInit == Init => R!Init
<1> SUFFICES ASSUME Init
             PROVE  R!Init
  OBVIOUS
<1>1. \A n \in Nodes : PostsOf(n) = <<>> /\ CommandsFor(n) = <<>>
  <2> TAKE n \in Nodes
  <2>1. Only(dtls_socket, [kind : {"record"}, node : {n}, key : Nat, post : Posts]) = <<>>
    BY OnlyEmpty DEF Init
  <2>2. Only(backend_socket, [node : {n}, command : Commands]) = <<>>
    BY OnlyEmpty DEF Init
  <2>3. \A r : r = <<>> => /\ [i \in DOMAIN r |-> r[i].post] = <<>>
                           /\ [i \in DOMAIN r |-> r[i].command] = <<>>
    OBVIOUS
  <2>. QED
    BY <2>1, <2>2, <2>3 DEF PostsOf, CommandsFor
<1>. QED
  BY <1>1 DEF Init, R!Init

(* What is received is sent on for the sender or the addressee, or lost,   *)
(* and what has arrived is accepted (main.rs:254-433).                     *)
LEMMA RelayStep ==
  ASSUME TypeOK, TypeOK', [Next]_vars
  PROVE  R!Next \/ UNCHANGED R!vars
<1>1. ASSUME NEW n \in Nodes, Handshake(n)
      PROVE  UNCHANGED R!vars
  <2>1. Hello(n, boots[n]) \in Datagram /\ Hello(n, boots[n]).kind # "record"
    BY DEF TypeOK, Hello, Datagram
  <2>2. UNCHANGED UpVar
    BY <1>1, <2>1, UpGrows DEF Handshake
  <2>3. UNCHANGED DownVar
    BY <1>1, StillOnTheirWay DEF Handshake
  <2>. QED
    BY <1>1, <2>2, <2>3, RelaySteps DEF Handshake
<1>2. ASSUME NEW n \in Nodes, NEW p \in Posts, Post(n, p)
      PROVE  R!Next
  <2> DEFINE d == Record(n, keys[n], p)
  <2>1. d \in Datagram /\ d.kind = "record" /\ d.node = n /\ d.post = p
    BY <1>2 DEF TypeOK, Record, Datagram, Post
  <2>2. dtls_socket' = Append(dtls_socket, d)
    BY <1>2 DEF Post
  <2> HIDE DEF d
  <2>3. UpVar' = [UpVar EXCEPT ![n] = Append(@, p)]
    BY <2>1, <2>2, UpGrows
  <2>4. UNCHANGED DownVar
    BY <1>2, StillOnTheirWay DEF Post
  <2>. QED
    BY <1>2, <2>3, <2>4, RelaySteps DEF Post
<1>3. ASSUME NEW n \in Nodes, Reset(n)
      PROVE  UNCHANGED R!vars
  BY <1>3, StillOnTheirWay, RelaySteps DEF Reset
<1>4. ASSUME NEW n \in Nodes, NEW c \in Commands, SendCommand(n, c)
      PROVE  R!Next
  <2> DEFINE q == CommandPacket(n, c)
  <2>1. q \in Packet /\ q.node = n /\ q.command = c
    BY DEF CommandPacket, Packet
  <2>2. backend_socket' = Append(backend_socket, q)
    BY <1>4 DEF SendCommand
  <2> HIDE DEF q
  <2>3. DownVar' = [DownVar EXCEPT ![n] = Append(@, c)]
    BY <2>1, <2>2, DownGrows
  <2>4. UNCHANGED UpVar
    BY <1>4, StillOnTheirWay DEF SendCommand
  <2>. QED
    BY <1>4, <2>3, <2>4, RelaySteps DEF SendCommand
<1>5. CASE DtlsWouldBlock
  BY <1>5, StillOnTheirWay, RelaySteps DEF DtlsWouldBlock
<1>6. CASE DtlsReceive
  <2>0. PICK d : d = Head(dtls_socket)
    OBVIOUS
  <2>1. d \in Datagram /\ dtls_socket # <<>> /\ dtls_socket' = Tail(dtls_socket)
    BY <1>6, <2>0, Received DEF TypeOK, DtlsReceive
  <2>2. UNCHANGED <<backend_socket, at_node>>
    BY <1>6 DEF DtlsReceive
  <2>3. UNCHANGED DownVar
    BY <2>2, StillOnTheirWay
  <2>4. dtls_handle_message(d.node, d)
    BY <1>6, <2>0 DEF DtlsReceive, SessionsOf
  <2>5. CASE d.kind = "record"
    <3>1. /\ d.node \in Nodes /\ UpVar[d.node] # <<>> /\ Head(UpVar[d.node]) = d.post
          /\ UpVar' = [UpVar EXCEPT ![d.node] = Tail(@)]
      BY <2>0, <2>1, <2>5, UpShrinks
    <3>2. at_backend' \in {at_backend, Append(at_backend, [node |-> d.node, post |-> d.post])}
      BY <2>4, <2>5 DEF dtls_handle_message, server_read_callback
    <3>. QED
      BY <2>2, <2>3, <3>1, <3>2, RelaySteps
  <2>6. CASE d.kind # "record"
    <3>1. UNCHANGED UpVar
      BY <2>0, <2>1, <2>6, UpShrinks
    <3>2. UNCHANGED at_backend
      BY <2>4, <2>6 DEF dtls_handle_message
    <3>. QED
      BY <2>2, <2>3, <3>1, <3>2, RelaySteps
  <2>. QED
    BY <2>5, <2>6
<1>7. CASE DtlsRefuse
  <2>0. PICK d : d = Head(dtls_socket)
    OBVIOUS
  <2>1. dtls_socket # <<>> /\ dtls_socket' = Tail(dtls_socket)
        /\ UNCHANGED <<backend_socket, at_backend, at_node>>
    BY <1>7 DEF DtlsRefuse
  <2>2. UNCHANGED DownVar
    BY <2>1, StillOnTheirWay
  <2>3. CASE d.kind = "record"
    <3>1. d.node \in Nodes /\ UpVar[d.node] # <<>> /\ UpVar' = [UpVar EXCEPT ![d.node] = Tail(@)]
      BY <2>0, <2>1, <2>3, UpShrinks
    <3>. QED
      BY <2>1, <2>2, <3>1, RelaySteps
  <2>4. CASE d.kind # "record"
    <3>1. UNCHANGED UpVar
      BY <2>0, <2>1, <2>4, UpShrinks
    <3>. QED
      BY <2>1, <2>2, <3>1, RelaySteps
  <2>. QED
    BY <2>3, <2>4
<1>8. CASE BackendWouldBlock
  BY <1>8, StillOnTheirWay, RelaySteps DEF BackendWouldBlock
<1>9. CASE BackendReceive
  <2>0. PICK packet : packet = Head(backend_socket)
    OBVIOUS
  <2>1. backend_socket # <<>> /\ backend_socket' = Tail(backend_socket)
        /\ UNCHANGED <<dtls_socket, at_backend>>
    BY <1>9 DEF BackendReceive
  <2>2. UNCHANGED UpVar
    BY <2>1, StillOnTheirWay
  <2>3. /\ packet.node \in Nodes /\ DownVar[packet.node] # <<>>
        /\ Head(DownVar[packet.node]) = packet.command
        /\ DownVar' = [DownVar EXCEPT ![packet.node] = Tail(@)]
    BY <2>0, <2>1, DownShrinks
  <2>4. dtls_write(packet.node, packet.command) \/ UNCHANGED at_node
    BY <1>9, <2>0 DEF BackendReceive, SessionsOf
  <2>5. at_node' \in {at_node, [at_node EXCEPT ![packet.node] = Append(@, packet.command)]}
    BY <2>4 DEF dtls_write
  <2>. QED
    BY <2>1, <2>2, <2>3, <2>5, RelaySteps
<1>10. CASE UNCHANGED vars
  BY <1>10, StillOnTheirWay, RelaySteps DEF vars
<1>. QED
  BY <1>1, <1>2, <1>3, <1>4, <1>5, <1>6, <1>7, <1>8, <1>9, <1>10
     DEF Next, NodeStep, ProxyStep

(* The proxy implements the relay: whatever handshakes, resets, refusals   *)
(* and losses there are, a packet goes to its addressee, at most once and  *)
(* in the order it was sent (main.rs:254-433).                             *)
THEOREM ProxyIsRelay == Spec => Relays
<1>1. TypeOK /\ TypeOK' /\ [Next]_vars => [R!Next]_R!vars
  BY RelayStep
<1>2. QED
  BY RelayInit, <1>1, ProxyTypes, PTL DEF Spec, Relays, R!Spec

=============================================================================
