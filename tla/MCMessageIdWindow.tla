-------------------------- MODULE MCMessageIdWindow --------------------------
(* A three-slot window and six identifiers, zero among them: the array's   *)
(* unused slots hold zero too.                                             *)
EXTENDS MessageIdWindow

MCMessageIds == 0 .. 6
=============================================================================
