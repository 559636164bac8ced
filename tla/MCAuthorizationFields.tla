------------------------ MODULE MCAuthorizationFields ------------------------
(***************************************************************************)
(* The login answers in which auth.authorization carries both of its       *)
(* integers.                                                               *)
(***************************************************************************)
EXTENDS AuthResponse

Swapped == {w \in Wires : \E i, j \in DOMAIN w :
               /\ w[i].value = "otherwise_relogin_days"
               /\ w[j].value = "tmp_sessions"}
===============================================================================
