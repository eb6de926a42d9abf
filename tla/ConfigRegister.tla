--------------------------- MODULE ConfigRegister ---------------------------
(***************************************************************************)
(* What config delivery promises, without saying how: configs are issued   *)
(* one after the other under ever larger versions, a replica only ever     *)
(* moves forward through the issued configs, and a replica that restarts   *)
(* starts empty.  Version numbers are all that orders configs, as they are *)
(* all that GET /config reveals.                                           *)
(***************************************************************************)
EXTENDS Naturals

CONSTANTS Replicas, Configs, Empty

VARIABLES
    store,   \* the configs issued so far
    held     \* held[r]: the config replica r serves, or Empty

Init == store = {} /\ held = [r \in Replicas |-> Empty]

\* (The new config is named through store' so that a checker need not
\* enumerate Configs.)
Issue ==
    /\ \E c \in store' \ store :
         /\ c \in Configs
         /\ \A d \in store : c.version > d.version
         /\ store' = store \cup {c}
    /\ UNCHANGED held

Adopt(r) ==
    /\ \E c \in store :
         /\ c.version >= held[r].version
         /\ held' = [held EXCEPT ![r] = c]
    /\ UNCHANGED store

Lose(r) ==
    /\ held' = [held EXCEPT ![r] = Empty]
    /\ UNCHANGED store

Next == Issue \/ \E r \in Replicas : Adopt(r) \/ Lose(r)

Spec == Init /\ [][Next]_<<store, held>>
=============================================================================
