------------------------- MODULE MCWebSocketHandshake -------------------------
(***************************************************************************)
(* Instances of WebSocketHandshake for TLC: with Field = 5 and Base = 2,   *)
(* payloads of up to two bytes have the short length, those of three the   *)
(* middle one, four and more the long one. Answers accept, repeat a field, *)
(* lack or break each field in turn, have one without a space, refuse.     *)
(***************************************************************************)
EXTENDS WebSocketHandshake

Payloads == {<<>>, <<0, 1>>, <<1, 1, 0>>, <<0, 1, 1, 0, 1, 1>>}
Keys == {<<0, 1, 0, 0>>, <<1, 0, 1, 1>>}

Answers ==
  {<<SWITCHING_PROTOCOLS, UPGRADE_WEBSOCKET, CONNECTION_UPGRADE, EMPTY>>,
   <<SWITCHING_PROTOCOLS, UPGRADE_OTHER, CONNECTION_UPGRADE, UPGRADE_WEBSOCKET, EMPTY>>,
   <<SWITCHING_PROTOCOLS, UPGRADE_WEBSOCKET, CONNECTION_UPGRADE, CONNECTION_OTHER, EMPTY>>,
   <<SWITCHING_PROTOCOLS, UPGRADE_WEBSOCKET, FIELD, EMPTY>>,
   <<SWITCHING_PROTOCOLS, CONNECTION_UPGRADE, EMPTY>>,
   <<SWITCHING_PROTOCOLS, UPGRADE_WEBSOCKET, NO_FIELD, CONNECTION_UPGRADE, EMPTY>>,
   <<SWITCHING_PROTOCOLS, UNSPACED_FIELD, UPGRADE_WEBSOCKET, CONNECTION_UPGRADE, EMPTY>>,
   <<OTHER_STATUS, FIELD, EMPTY>>}
===============================================================================
