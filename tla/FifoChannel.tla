---------------------------- MODULE FifoChannel ----------------------------
(***************************************************************************)
(* What a send queue promises its users: what it accepted is delivered     *)
(* once, whole and in order, however it is batched on the way.             *)
(***************************************************************************)
EXTENDS Naturals, Sequences

VARIABLES accepted, delivered

Init == accepted = <<>> /\ delivered = <<>>

Accept ==
    /\ Len(accepted') > Len(accepted)
    /\ SubSeq(accepted', 1, Len(accepted)) = accepted
    /\ UNCHANGED delivered

Deliver ==
    /\ \E n \in Len(delivered) + 1 .. Len(accepted) :
          delivered' = SubSeq(accepted, 1, n)
    /\ UNCHANGED accepted

Next == Accept \/ Deliver

Spec == Init /\ [][Next]_<<accepted, delivered>>
=============================================================================
