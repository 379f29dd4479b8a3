------------------------------- MODULE Fencing -------------------------------
(***************************************************************************)
(* What the server promises to each connection, without threads, queues or *)
(* sockets: a fencing request makes the plugin act at most once, on the    *)
(* node and with the operation the request names; the reply is the         *)
(* plugin's verdict; a connection may be dropped at any time, but never    *)
(* while the plugin acts for it.  ServerConnector.tla implements this.     *)
(***************************************************************************)
CONSTANTS Connections, Requests, NoRequest, FenceType, NoCall

VARIABLES request,   \* the request each connection waits on, or NoRequest
          call,      \* the plugin call made for it: NoCall, or op, node and state
          reply      \* the reply that goes out to it, or "NONE"

vars == <<request, call, reply>>

Init == /\ request = [c \in Connections |-> NoRequest]
        /\ call = [c \in Connections |-> NoCall]
        /\ reply = [c \in Connections |-> "NONE"]

Ask(c) == /\ request[c] = NoRequest
          /\ \E r \in Requests : request' = [request EXCEPT ![c] = r]
          /\ call' = [call EXCEPT ![c] = NoCall]
          /\ UNCHANGED reply

\* Only the connection's own request starts the plugin, and only once.
Begin(c) == /\ request[c].type \in FenceType
            /\ call[c] = NoCall
            /\ call' = [call EXCEPT ![c] = [op |-> request[c].type,
                                            node |-> request[c].body,
                                            state |-> "running"]]
            /\ UNCHANGED <<request, reply>>

Finish(c) == /\ call[c].state = "running"
             /\ \/ /\ call' = [call EXCEPT ![c].state = "succeeded"]
                   /\ reply' = [reply EXCEPT ![c] = "FENCE_SUCCESS"]
                \/ /\ call' = [call EXCEPT ![c].state = "failed"]
                   /\ reply' = [reply EXCEPT ![c] = "FENCE_FAIL"]
             /\ UNCHANGED request

Echo(c) == /\ request[c].type = "ECHO_REQUEST"
           /\ reply[c] = "NONE"
           /\ reply' = [reply EXCEPT ![c] = "ECHO_REPLY"]
           /\ UNCHANGED <<request, call>>

\* The peer has the reply and may ask again.
Answer(c) == /\ reply[c] # "NONE"
             /\ request' = [request EXCEPT ![c] = NoRequest]
             /\ reply' = [reply EXCEPT ![c] = "NONE"]
             /\ UNCHANGED call

Drop(c) == /\ call[c].state # "running"
           /\ request' = [request EXCEPT ![c] = NoRequest]
           /\ call' = [call EXCEPT ![c] = NoCall]
           /\ reply' = [reply EXCEPT ![c] = "NONE"]

Next == \E c \in Connections :
          \/ Ask(c) \/ Begin(c) \/ Finish(c) \/ Echo(c) \/ Answer(c) \/ Drop(c)

Spec == Init /\ [][Next]_vars
=============================================================================
