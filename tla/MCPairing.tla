------------------------------ MODULE MCPairing ------------------------------
(* Instances of Pairing for TLC.                                           *)
EXTENDS Pairing

PairLogin == <<"ListWifi">>                        \* pair.on_login
PairReplies == {<<>>, <<"WifiSettingsSet">>}       \* pair.on_list_wifi
=============================================================================
