------------------------------ MODULE MCScrub ------------------------------
(* A text with a header on one line and a user's name on another.          *)
EXTENDS ScrubPass

HeaderAndUser == {<<"hdr", "s", "x", "s", "x", "s">>, <<"nl">>, <<"user", "s">>, <<"x">>, <<"env", "s">>}
OneKey == {"K1"}
=============================================================================
