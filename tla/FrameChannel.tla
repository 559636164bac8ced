----------------------------- MODULE FrameChannel -----------------------------
(***************************************************************************)
(* What a connection promises to the application, without bytes: the       *)
(* frames a peer wrote are handed over one by one, whole and in order, and *)
(* the connection fails only at a frame that is not acceptable.            *)
(***************************************************************************)
EXTENDS Naturals, Sequences

CONSTANTS
    Scripts,            \* the sequences of frames a peer may write
    Acceptable(_)       \* the frames the receiver's rules admit

VARIABLES
    script,             \* what the peer writes on this connection
    delivered,          \* what the application got
    open                \* FALSE once the connection failed

vars == <<script, delivered, open>>

Init ==
    /\ script \in Scripts
    /\ delivered = <<>>
    /\ open = TRUE

Pending == open /\ Len(delivered) < Len(script)
Front == script[Len(delivered) + 1]

Deliver ==
    /\ Pending
    /\ Acceptable(Front)
    /\ delivered' = Append(delivered, Front)
    /\ UNCHANGED <<script, open>>

Fail ==
    /\ Pending
    /\ ~Acceptable(Front)
    /\ open' = FALSE
    /\ UNCHANGED <<script, delivered>>

Next == Deliver \/ Fail

Spec == Init /\ [][Next]_vars /\ WF_vars(Next)
===============================================================================
