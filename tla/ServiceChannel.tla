--------------------------- MODULE ServiceChannel ---------------------------
(***************************************************************************)
(* What the transport protocol of openSYDE promises its user: SendRequest() *)
(* hands over a service, and the other side either reads it once, whole,    *)
(* and after every service of the same kind handed over before that it     *)
(* reads at all - or it never reads it.  A service may be lost, but it is   *)
(* never mixed with another, doubled or overtaken.                         *)
(***************************************************************************)
EXTENDS Naturals, Sequences

CONSTANTS
    Nodes,      \* users of the channel
    Services,   \* what is ever sent, each once
    Kind        \* requests keep their order, and event-driven services keep theirs

VARIABLES
    sent,       \* the services each node has handed over, in this order
    got         \* the services each node has been given, in this order

Elements(q) == {q[i] : i \in DOMAIN q}

Init ==
    /\ sent = [n \in Nodes |-> <<>>]
    /\ got = [n \in Nodes |-> <<>>]

Hand(n, s) ==
    /\ \A m \in Nodes : s \notin Elements(sent[m])
    /\ sent' = [sent EXCEPT ![n] = Append(@, s)]
    /\ UNCHANGED got

\* Node m is given the i-th service of node n; neither it nor a later one of
\* its kind has been given to m before.
Give(n, m, i) ==
    /\ \A j \in i .. Len(sent[n]) :
          Kind[sent[n][j]] = Kind[sent[n][i]] => sent[n][j] \notin Elements(got[m])
    /\ got' = [got EXCEPT ![m] = Append(@, sent[n][i])]
    /\ UNCHANGED sent

Next ==
    /\ sent' # sent \/ got' # got
    /\ \E n \in Nodes :
           \/ \E s \in Services : Hand(n, s)
           \/ \E m \in Nodes : \E i \in DOMAIN sent[n] : Give(n, m, i)

Spec == Init /\ [][Next]_<<sent, got>>
=============================================================================
