------------------------- MODULE MCWsSubscriptions -------------------------
(* A bounded instance of WsSubscriptions for TLC.                          *)
EXTENDS WsSubscriptions, TLC

CONSTANTS tracking, autonomy, hip4

(* Two services share the feed of all prices, one has a book of its own.   *)
Services == {tracking, autonomy, hip4}
SharedFeed == (tracking :> "allMids") @@ (autonomy :> "allMids") @@ (hip4 :> "l2Book")
=============================================================================
