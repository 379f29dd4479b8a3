------------------------------ MODULE MCSystem ------------------------------
(* Instances of FencingSystem.tla. *)
EXTENDS FencingSystem

CONSTANTS k1, k2, n1

OneClient  == {k1}
TwoClients == {k1, k2}
MCNodenames == {n1}

MCNoRequest == [type |-> "NONE", body |-> NoName]
MCNoCall == [op |-> "NONE", node |-> NoName, state |-> "none"]

Line(a, c) == [action |-> a, node |-> n1, complete |-> c]

EveryAction == {Line(a, TRUE) : a \in FenceActions \union EchoActions
                                        \union LocalActions \union {"invalid"}}
                 \union {Line("off", FALSE)}

OffOrStatus == {Line("off", TRUE), Line("status", TRUE)}
=============================================================================
