------------------------------- MODULE Board -------------------------------
(***************************************************************************)
(* What the broadcasts promise: a board with one current version, and for  *)
(* each client the versions still on their way to it.  Posting puts the    *)
(* current version at the end of some of these feeds; a version leaves a   *)
(* feed when the client takes it or when it is dropped, from any place and *)
(* several at a time.  Nothing ever reaches a feed from the past.          *)
(***************************************************************************)
EXTENDS Naturals, Sequences

CONSTANT Clients
VARIABLES version, feed

Init ==
    /\ version \in Nat
    /\ feed = [c \in Clients |-> <<>>]

\* r is q with some of its elements left out.
Thinned(q, r) ==
    \E at \in [DOMAIN r -> DOMAIN q] :
        /\ \A i, j \in DOMAIN r : i < j => at[i] < at[j]
        /\ \A i \in DOMAIN r : r[i] = q[at[i]]

Post ==
    /\ version' \in {version, version + 1}
    /\ \A c \in Clients : feed'[c] \in {feed[c], Append(feed[c], version')}

Take ==
    /\ \A c \in Clients : Thinned(feed[c], feed'[c])
    /\ UNCHANGED version

Next == /\ feed' \in [Clients -> Seq(Nat)]
        /\ Post \/ Take

Spec == Init /\ [][Next]_<<version, feed>>

\* Versions on their way to one client are ever newer, and none is newer than
\* the board's.
InOrder ==
    \A c \in Clients :
        /\ \A i \in DOMAIN feed[c] : feed[c][i] <= version
        /\ \A i, j \in DOMAIN feed[c] : i < j => feed[c][i] <= feed[c][j]
=============================================================================
