---------------------------- MODULE MCTranscoder ----------------------------
(* A Transcoder that is given one byte at a time, or whole characters. *)
EXTENDS Transcoder

MCBytes == {<<"a">>, <<"L">>, <<"T">>}

\* The last text needs more room than the first estimate gives it.
MCWhole == {<<"a">>, <<"L", "T">>, <<"L", "T", "a", "L", "T", "a">>}
=============================================================================
