------------------------- MODULE MCTelegramDelivery -------------------------
(***************************************************************************)
(* Two treasuries, each connected to a chat of its own, and a token for    *)
(* the first one's chat.                                                   *)
(***************************************************************************)
EXTENDS TelegramDelivery

CONSTANTS d1, d2, c1, c2, t1, k1

MCApart == [d \in {d1, d2} |-> IF d = d1 THEN c1 ELSE c2]
MCTokenChat == [t \in ConnectTokens |-> c1]
=============================================================================
