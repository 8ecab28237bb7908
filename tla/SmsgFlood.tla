------------------------------ MODULE SmsgFlood ------------------------------
(***************************************************************************)
(* What the bucket synchronisation of secure messaging promises, for one  *)
(* bucket: a message comes into the network once, at one node, and a node *)
(* otherwise only gains messages another node holds.  No node ever loses  *)
(* a message of the bucket (expiry is outside this spec).                  *)
(***************************************************************************)
CONSTANTS Nodes, Msgs

VARIABLES
    holds,      \* holds[n]: the messages node n holds
    created     \* the messages that have entered the network

Init ==
    /\ holds = [n \in Nodes |-> {}]
    /\ created = {}

\* A node's proof-of-work thread stores a new message.
Create(n, m) ==
    /\ m \notin created
    /\ created' = created \cup {m}
    /\ holds' = [holds EXCEPT ![n] = @ \cup {m}]

\* Node n takes some of the messages peer p holds and n lacks.
Copy(n, p) ==
    /\ n # p
    /\ \E s \in SUBSET (holds[p] \ holds[n]) :
          /\ s # {}
          /\ holds' = [holds EXCEPT ![n] = @ \cup s]
    /\ UNCHANGED created

Next == \E n \in Nodes : (\E m \in Msgs : Create(n, m)) \/ (\E p \in Nodes : Copy(n, p))

Spec == Init /\ [][Next]_<<holds, created>>
=============================================================================
