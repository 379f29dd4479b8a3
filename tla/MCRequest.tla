----------------------------- MODULE MCRequest -----------------------------
(* Bytes of five values and a buffer that the longest request just fills.  *)
EXTENDS RequestPath

MCKeys == {"action", "server", "nodename", "secret"}
MCCapacity == [k \in MCKeys |-> IF k = "nodename" THEN 2 ELSE 1]

\* off and on.
MCFenceActions == [a \in {<<2>>, <<3>>} |-> IF a = <<2>> THEN 11 ELSE 12]
MCNodename == <<2>>
MCSecret == <<3>>

Good(k, v) == [form |-> "pair", key |-> k, value |-> v, ended |-> TRUE]

\* Values that are empty, hold the split byte, or are too long by one.
MCLines ==
  {Good("action", <<2>>), Good("action", <<4>>), Good("server", <<4>>)}
    \union {Good("nodename", v) : v \in {<< >>, <<4>>, <<1, 4>>, <<4, 1>>, <<4, 4, 4>>}}
    \union {Good("secret", v) : v \in {<< >>, <<1>>, <<2, 2>>}}
    \union {Good("unknown", <<4>>),
            [Good("nodename", <<4>>) EXCEPT !.ended = FALSE],
            [Good("nodename", <<4>>) EXCEPT !.form = "malformed"],
            [Good("nodename", << >>) EXCEPT !.form = "blank"]}

Sends(t, n, b) == [msg_type |-> t, data_length |-> n, body |-> b]

MCOtherMessages ==
  {Sends(0, 4, << >>), Sends(0, 0, << >>), Sends(2, 4, << >>),  \* echo, version
   Sends(11, 9, <<0, 3, 2, 1, 4>>),                             \* a node name
   Sends(12, 14, <<0, 3, 2, 1, 4, 0, 3, 2, 1, 2>>),             \* two of them
   Sends(11, 9, <<0, 3, 3, 1, 4>>),                             \* a secret only
   Sends(11, 9, <<0, 4, 2, 1, 4>>),                             \* a length too great
   Sends(11, 8, <<0, 2, 2, 4>>),                                \* no split byte
   Sends(11, 11, <<1, 0, 2, 1, 4, 4, 4>>),                      \* a name too long
   Sends(0, 20, [i \in 1 .. 16 |-> 0])}                         \* beyond the buffer
=============================================================================
