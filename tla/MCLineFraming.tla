--------------------------- MODULE MCLineFraming ---------------------------
(* The lines sent in the runs of LineFraming: a short one, one with a      *)
(* character of two bytes, a blank one.                                    *)
EXTENDS LineFraming

MCPayload == {<<"ascii">>, <<"ascii", "lead", "cont">>, << >>}
=============================================================================
