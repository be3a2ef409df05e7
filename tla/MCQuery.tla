------------------------------- MODULE MCQuery -------------------------------
(* Query for TLC: texts that contain a key, separators, a space or a Cyrillic *)
(* letter.                                                                    *)
EXTENDS Query

MCTexts == {<<>>, <<"a">>, <<"city">>, <<"=", "h", " ">>}

=============================================================================
