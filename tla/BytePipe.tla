------------------------------ MODULE BytePipe ------------------------------
(***************************************************************************)
(* What a character stream promises: the characters offered at one end are *)
(* taken at the other, each once and in order, however they are cut into   *)
(* chunks on the way.                                                      *)
(***************************************************************************)
EXTENDS Naturals, Sequences

CONSTANT Bytes

VARIABLES
    offer,  \* what the sender has ready
    queue,  \* what has been accepted and not yet taken
    last    \* the chunk taken last

Init == offer \in Seq(Bytes) /\ queue = <<>> /\ last \in Seq(Bytes)

\* A new offer replaces the old one: its sender gave up or finished.
Offer == offer' \in Seq(Bytes) /\ UNCHANGED <<queue, last>>

\* The first n characters of the offer are accepted; the rest stays on offer.
Put(n) ==
    LET rest == SubSeq(offer, n + 1, Len(offer)) IN
    /\ queue' = queue \o SubSeq(offer, 1, n)
    /\ offer' = rest \/ (rest = <<>> /\ offer' \in Seq(Bytes))
    /\ UNCHANGED last

\* The n oldest characters are taken.
Take(n) ==
    /\ last' = SubSeq(queue, 1, n)
    /\ queue' = SubSeq(queue, n + 1, Len(queue))
    /\ UNCHANGED offer

Next ==
    \/ Offer
    \/ \E n \in 1 .. Len(offer) : Put(n)
    \/ \E n \in 1 .. Len(queue) : Take(n)

Spec == Init /\ [][Next]_<<offer, queue, last>>
=============================================================================
