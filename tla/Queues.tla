-------------------------------- MODULE Queues --------------------------------
(***************************************************************************)
(* Queues: sequences whose order of arrival matters.                       *)
(***************************************************************************)
EXTENDS Integers, Sequences

In(q, e) == \E i \in DOMAIN q : q[i] = e

Distinct(q) == \A i, j \in DOMAIN q : q[i] = q[j] => i = j

(* No a comes before a b.                                                  *)
NotBefore(q, a, b) == \A i, j \in DOMAIN q : q[i] = a /\ q[j] = b => j <= i

(* What of q is in S, in the order of q.                                   *)
Only(q, S) ==
    LET kept[i \in 0 .. Len(q)] ==
          IF i = 0 THEN <<>>
          ELSE IF q[i] \in S THEN Append(kept[i - 1], q[i]) ELSE kept[i - 1]
    IN  kept[Len(q)]

=============================================================================
