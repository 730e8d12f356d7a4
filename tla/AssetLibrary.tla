---------------------------- MODULE AssetLibrary ---------------------------
(***************************************************************************)
(* What the shared asset pool of Confab promises about file assets, with   *)
(* nothing of requests, records, chunks or files: an asset is in the       *)
(* library once it can be read from it whole, it never leaves it, and a    *)
(* client holds a copy only of assets of the library.  A client gets a     *)
(* copy by fetching it; when it stops it holds nothing, and when it comes  *)
(* back it has again some of the copies it can vouch for.                  *)
(***************************************************************************)
CONSTANTS Clients, Assets

VARIABLES
    library,           \* the assets that can be read whole
    held               \* client -> the assets it has a copy of

vars == <<library, held>>

Init ==
    /\ library = {}
    /\ held = [c \in Clients |-> {}]

Publish(a) ==
    /\ library' = library \cup {a}
    /\ UNCHANGED held

Fetch(c, a) ==
    /\ a \in library
    /\ held' = [held EXCEPT ![c] = @ \cup {a}]
    /\ UNCHANGED library

Stop(c) ==
    /\ held' = [held EXCEPT ![c] = {}]
    /\ UNCHANGED library

Recover(c) ==
    /\ held[c] = {}
    /\ \E S \in SUBSET library : held' = [held EXCEPT ![c] = S]
    /\ UNCHANGED library

Next ==
    \/ \E a \in Assets : Publish(a)
    \/ \E c \in Clients : Stop(c) \/ Recover(c) \/ \E a \in Assets : Fetch(c, a)

Spec == Init /\ [][Next]_vars
=============================================================================
