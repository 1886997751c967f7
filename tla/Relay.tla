-------------------------------- MODULE Relay --------------------------------
(***************************************************************************)
(* What the proxy promises (report.tex:307): a post of a node reaches the  *)
(* backend under the address of that node, a command of the backend        *)
(* reaches the node it is for, each at most once and in the order they     *)
(* were sent.  Any of them may be lost.                                    *)
(***************************************************************************)
EXTENDS Sequences

CONSTANTS
    Nodes,       \* the addresses of the node boards
    Posts,       \* the CoAP packets nodes send
    Commands     \* the CoAP packets the backend sends

VARIABLES
    up,          \* posts of each node on their way
    down,        \* commands for each node on their way
    at_backend,  \* posts that reached the backend, with the address
    at_node      \* commands that reached each node

vars == <<up, down, at_backend, at_node>>

Init ==
    /\ up = [n \in Nodes |-> <<>>]
    /\ down = [n \in Nodes |-> <<>>]
    /\ at_backend = <<>>
    /\ at_node = [n \in Nodes |-> <<>>]

AcceptPost(n, p) ==
    /\ up' = [up EXCEPT ![n] = Append(@, p)]
    /\ UNCHANGED <<down, at_backend, at_node>>

AcceptCommand(n, c) ==
    /\ down' = [down EXCEPT ![n] = Append(@, c)]
    /\ UNCHANGED <<up, at_backend, at_node>>

ForwardPost(n) ==
    /\ up[n] # <<>>
    /\ up' = [up EXCEPT ![n] = Tail(@)]
    /\ at_backend' = Append(at_backend, [node |-> n, post |-> Head(up[n])])
    /\ UNCHANGED <<down, at_node>>

ForwardCommand(n) ==
    /\ down[n] # <<>>
    /\ down' = [down EXCEPT ![n] = Tail(@)]
    /\ at_node' = [at_node EXCEPT ![n] = Append(@, Head(down[n]))]
    /\ UNCHANGED <<up, at_backend>>

Lose(n) ==
    /\ \/ up[n] # <<>> /\ up' = [up EXCEPT ![n] = Tail(@)] /\ UNCHANGED down
       \/ down[n] # <<>> /\ down' = [down EXCEPT ![n] = Tail(@)] /\ UNCHANGED up
    /\ UNCHANGED <<at_backend, at_node>>

Next ==
    \E n \in Nodes :
      \/ \E p \in Posts : AcceptPost(n, p)
      \/ \E c \in Commands : AcceptCommand(n, c)
      \/ ForwardPost(n) \/ ForwardCommand(n) \/ Lose(n)

Spec == Init /\ [][Next]_vars

=============================================================================
