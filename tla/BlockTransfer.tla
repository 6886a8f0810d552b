--------------------------- MODULE BlockTransfer ---------------------------
(***************************************************************************)
(* What one block of the codec promises its caller, whatever the wire form *)
(* (pivco_encode and pivco_decode in src/include/pivco_huffman.h): a block  *)
(* of symbols goes in, and the same block comes out.                       *)
(***************************************************************************)
CONSTANTS Block,    \* the blocks a caller may send
          Nothing   \* no block

VARIABLES sent, received

transfer == <<sent, received>>

Init == sent = Nothing /\ received = Nothing

Send(b) == sent = Nothing /\ sent' = b /\ UNCHANGED received

Deliver == sent # Nothing /\ received = Nothing /\ received' = sent /\ UNCHANGED sent

\* The caller has used what it received and turns to its next block.
Forget == received # Nothing /\ sent' = Nothing /\ received' = Nothing

Next == (\E b \in Block : Send(b)) \/ Deliver \/ Forget

Spec == Init /\ [][Next]_transfer /\ WF_transfer(Deliver)
=============================================================================
