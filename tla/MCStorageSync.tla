---------------------------- MODULE MCStorageSync ----------------------------
(* Two collections when the browser opens, and where the search ends. *)
EXTENDS StorageSync, TLC

CONSTANTS a, b

\* Of one the browser holds an edit that the server's row does not have, and
\* the other only the server has.
Meetings == {a :> <<2, 1>> @@ b :> <<0, 1>>}

\* A state in which a race has just happened is not followed further.
UpToARace == raced = {}
=============================================================================
