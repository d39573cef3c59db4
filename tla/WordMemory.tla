----------------------------- MODULE WordMemory ------------------------------
(***************************************************************************)
(* What the s0 slave promises its master: a memory of words, one request   *)
(* at a time.  A read is answered with the word last written at its        *)
(* address, a write changes that word and no other.                        *)
(***************************************************************************)
CONSTANTS Locations, Words, None

VARIABLES
    memory,     \* Locations -> Words
    request,    \* None, <<"read", a>> or <<"write", a, w>>
    answer      \* None or the word a read is answered with

memoryVars == <<memory, request, answer>>

Init ==
    /\ memory \in [Locations -> Words]
    /\ request = None
    /\ answer = None

Ask ==
    /\ request = None
    /\ \/ request' \in {"read"} \X Locations
       \/ request' \in {"write"} \X Locations \X Words
    /\ UNCHANGED <<memory, answer>>

Reply ==
    /\ request # None /\ request[1] = "read"
    /\ answer = None
    /\ answer' = memory[request[2]]
    /\ request' = None
    /\ UNCHANGED memory

Store ==
    /\ request # None /\ request[1] = "write"
    /\ memory' = [memory EXCEPT ![request[2]] = request[3]]
    /\ request' = None
    /\ UNCHANGED answer

Take ==
    /\ answer # None
    /\ answer' = None
    /\ UNCHANGED <<memory, request>>

Next == Ask \/ Reply \/ Store \/ Take

Spec == Init /\ [][Next]_memoryVars

\* No request is left unserved.
Serves == request # None ~> request = None
=============================================================================
