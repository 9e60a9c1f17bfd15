------------------------------ MODULE MCSession ------------------------------
(* Instances of Session for TLC: values for the constants that a .cfg      *)
(* cannot write down.  Two tickets, one of them the zeros of a refusal,    *)
(* tell any two logins apart.                                              *)
EXTENDS Session

CONSTANT t1

VideoLogin == <<"VideoParamSet", "StartVideo">>    \* start_video_stream
PairLogin == <<"ListWifi">>                        \* pair.on_login
NoReply == {<<>>}                                  \* no ListWifi listener
PairReplies == {<<>>, <<"WifiSettingsSet">>}       \* pair.on_list_wifi
=============================================================================
