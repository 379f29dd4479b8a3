------------------------------ MODULE MCServer ------------------------------
(* The requests the instances of ServerConnector.tla use. *)
EXTENDS ServerConnector, TLC

CONSTANTS c1, c2, w1, w2, n1, n2

MCClients == {c1, c2}
OneWorker == {w1}
TwoWorkers == {w1, w2}
MCNodenames == {n1, n2}

Echo      == [type |-> "ECHO_REQUEST", body |-> NoName]
Version   == [type |-> "VERSION_REQUEST", body |-> NoName]
Invalid   == [type |-> "INVALID", body |-> NoName]
Off       == [type |-> "FENCE_OFF", body |-> n1]
On        == [type |-> "FENCE_ON", body |-> n2]
Unnamed   == [type |-> "FENCE_OFF", body |-> NoName]
Broken    == [type |-> "FENCE_OFF", body |-> Malformed]
Oversized == [type |-> "FENCE_OFF", body |-> TooLong]

GoodRequests == {Echo, Off}
HostileRequests == {Echo, Off, On, Unnamed, Broken, Oversized}

EchoVersion == {Echo, Version}

StopRequests == {Off, Version, Invalid}

Symmetry == Permutations(MCClients) \union Permutations(TwoWorkers)
=============================================================================
