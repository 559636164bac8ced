------------------------------ MODULE MCLoginProbe ------------------------------
(***************************************************************************)
(* Calls that read up to three frames, three frames beside the answers,    *)
(* one of which may be a resent answer, and containers of at most two.     *)
(***************************************************************************)
EXTENDS LoginProbe
===============================================================================
