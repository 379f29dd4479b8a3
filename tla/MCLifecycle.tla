----------------------------- MODULE MCLifecycle -----------------------------
(* Command lines that are complete, and with one argument too few, too many *)
(* or not accepted.                                                         *)
EXTENDS Lifecycle

MCKeys == {"protocol", "bind_address", "tcp_port", "fence_module"}
MCCapacity == [k \in MCKeys |-> 1]

Given(k, v) == [split |-> TRUE, key |-> k, value |-> v, fits |-> TRUE]

Complete == << Given("protocol", <<6>>), Given("bind_address", <<0>>),
               Given("tcp_port", <<7>>), Given("fence_module", <<8>>) >>

MCCommandLines ==
  {Complete, Tail(Complete), Append(Complete, Given("protocol", <<4>>)),
   [Complete EXCEPT ![3].split = FALSE], [Complete EXCEPT ![3].key = "unknown"],
   [Complete EXCEPT ![3].value = <<7, 7>>], [Complete EXCEPT ![4].fits = FALSE]}
=============================================================================
