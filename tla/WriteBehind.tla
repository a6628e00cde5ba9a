----------------------------- MODULE WriteBehind -----------------------------
(***************************************************************************)
(* What a browser that keeps a copy of the server's collections promises:  *)
(* each copy only moves forward, and only to what someone wrote.  Edits    *)
(* are numbered in the order they are made, here or on another device.     *)
(***************************************************************************)
EXTENDS Naturals

CONSTANT Colls
VARIABLES local, server  \* the edit each copy of a collection holds

Init == local \in [Colls -> Nat] /\ server \in [Colls -> Nat]

\* Someone edits a collection, newer than what either side holds of it.
Edit(c) ==
    /\ local'[c] > local[c] /\ local'[c] > server[c]
    /\ local' = [local EXCEPT ![c] = local'[c]]
    /\ UNCHANGED server

Elsewhere(c) ==
    /\ server'[c] > local[c] /\ server'[c] > server[c]
    /\ server' = [server EXCEPT ![c] = server'[c]]
    /\ UNCHANGED local

\* "to" catches up with "from", on any of the collections and no further.
CatchUp(to, from, to2) ==
    \A c \in Colls : to2[c] = to[c] \/ (to[c] < to2[c] /\ to2[c] <= from[c])

Push == CatchUp(server, local, server') /\ UNCHANGED local
Pull == CatchUp(local, server, local') /\ UNCHANGED server

Next == (\E c \in Colls : Edit(c) \/ Elsewhere(c)) \/ Push \/ Pull

Spec == Init /\ [][Next]_<<local, server>>
=============================================================================
