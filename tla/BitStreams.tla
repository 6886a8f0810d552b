----------------------------- MODULE BitStreams -----------------------------
(***************************************************************************)
(* The coders that write symbols into one stream of bits: the tANS coders  *)
(* with bits of context, the wide FSE coders and the traditional Huffman   *)
(* coder.  A call of one of them returns before another is made and they   *)
(* share no state but tables nobody writes, so a behaviour is one call of  *)
(* one coder, while the others are at rest.                                *)
(***************************************************************************)
EXTENDS CursorFse, TraditionalHuffman

StreamsInit == Init /\ CursorInit /\ TradInit

\* The context coder at rest: no catalog yet, and one coder stands for all.
ContextRests == pc = "build" /\ coder = CHOOSE c \in Coders : TRUE
CursorRests == stage = "idle"
TradRests == phase = "idle"

ContextTurn == CursorRests /\ TradRests /\ Next /\ UNCHANGED <<cursorVars, tradVars>>
CursorTurns == ContextRests /\ TradRests /\ CursorNext /\ UNCHANGED <<vars, tradVars>>
TradTurn == ContextRests /\ CursorRests /\ TradNext /\ UNCHANGED <<vars, cursorVars>>

StreamsNext == ContextTurn \/ CursorTurns \/ TradTurn

streamsVars == <<vars, cursorVars, tradVars>>
StreamsSpec == StreamsInit /\ [][StreamsNext]_streamsVars
=============================================================================
