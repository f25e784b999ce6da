--------------------------- MODULE MCWatchChannel ---------------------------
(***************************************************************************)
(* Instance of WatchChannel for TLC: two symbols and two watchers of one   *)
(* channel.  When it carries trades each watcher is for a symbol of its    *)
(* own and steals the other's items, when it carries books both are for    *)
(* the same symbol and discard the other symbol's.                         *)
(***************************************************************************)
EXTENDS WatchChannel

CONSTANTS btc, eth, w1, w2

MCWants ==
  [p \in Payload |-> IF p = "trades" THEN [w \in Watcher |-> IF w = w1 THEN {btc} ELSE {eth}]
                                    ELSE [w \in Watcher |-> {btc}]]
=============================================================================
