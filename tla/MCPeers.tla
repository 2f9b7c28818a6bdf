------------------------------ MODULE MCPeers ------------------------------
(***************************************************************************)
(* Instances of Peers for TLC: users of whom one's name is a hyphenated    *)
(* prefix of the other's, tags with and without a hyphen, so that one name *)
(* can be a device of either, and the sets of faults.                      *)
(***************************************************************************)
EXTENDS Peers

TwoUsers == {<<"bob">>, <<"bob", "x">>}
OneUser == {<<"ann">>}
TwoTags == {<<"phone">>, <<"tab", "2">>}
PrefixTags == {<<"phone">>, <<"x", "phone">>}
OneScriptName == {<<"laptop", "2">>}

AllFaults == {"conf_write", "meta_load", "meta_write", "reload", "archive",
              "users_write", "crash"}
=============================================================================
