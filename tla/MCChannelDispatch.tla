------------------------- MODULE MCChannelDispatch -------------------------
(***************************************************************************)
(* Instances of ChannelDispatch for TLC: messages of two chats, a and b,   *)
(* with as many permits as the run needs to fill.                          *)
(***************************************************************************)
EXTENDS ChannelDispatch, TLC

CONSTANTS m1, m2, m3, a, b

\* Two messages of chat a and one of chat b.
TwoChats == (m1 :> a) @@ (m2 :> a) @@ (m3 :> b)

\* Three messages of one chat.
OneChat == [m \in {m1, m2, m3} |-> a]

=============================================================================
