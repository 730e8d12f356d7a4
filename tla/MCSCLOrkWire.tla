---------------------------- MODULE MCSCLOrkWire ----------------------------
(***************************************************************************)
(* SCLOrkWire for TLC: which wires there are and which calls are made.     *)
(***************************************************************************)
EXTENDS SCLOrkWire

CONSTANTS a, b, s1

NoServerWire == <<>>
OneServerWire == <<s1>>

(* Each of these calls is made at most once on the wire it comes with.     *)
Once(made) ==
    [c \in Calls |-> [w \in Wires |-> IF <<c, w>> \in made THEN 1 ELSE 0]]

(* A client and the wire that answers its knock: until one of them hangs   *)
(* up, the client after it has sent a message; or when the client tries    *)
(* again and the server wire goes away.                                    *)
ClientAndServer ==
    {Once({<<"knock", a>>, <<"send", a>>, <<"disconnect", a>>}),
     Once({<<"knock", a>>, <<"disconnect", s1>>}),
     Once({<<"knock", a>>, <<"connect", a>>, <<"drop", s1>>})}

(* A client that connects to another and sends it two messages.            *)
TwoMessages ==
    {[c \in Calls |-> [w \in Wires |->
        CASE w = a /\ c = "connect" -> 1
          [] w = a /\ c = "send" -> 2
          [] OTHER -> 0]]}

(* A client knocks, and that is all.                                       *)
OneKnock == {Once({<<"knock", a>>})}
=============================================================================
