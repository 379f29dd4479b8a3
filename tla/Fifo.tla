-------------------------------- MODULE Fifo --------------------------------
(***************************************************************************)
(* What the lists of Queue.h promise their callers: each list is a         *)
(* sequence of distinct nodes, a node is in at most one list at a time,    *)
(* and every operation that takes a node out hands out the node at the end *)
(* it names.  IntrusiveQueue.tla is shown to implement this specification. *)
(***************************************************************************)
EXTENDS Sequences, SequencesExt

CONSTANTS Node, NULL, Lists

VARIABLES content,   \* the sequence of nodes of each list
          taken      \* the node the last operation handed out, or NULL

vars == <<content, taken>>

Queued == UNION {ToSet(content[k]) : k \in Lists}

Init == /\ content = [k \in Lists |-> << >>]
        /\ taken = NULL

Change(k, s, n) == /\ content' = [content EXCEPT ![k] = s]
                   /\ taken' = n

PutFirst(k, n) == /\ n \notin Queued
                  /\ Change(k, <<n>> \o content[k], NULL)

PutLast(k, n) == /\ n \notin Queued
                 /\ Change(k, Append(content[k], n), NULL)

TakeFirst(k) == \/ /\ content[k] # << >>
                   /\ Change(k, Tail(content[k]), Head(content[k]))
                \/ /\ content[k] = << >>
                   /\ Change(k, << >>, NULL)

TakeLast(k) == \/ /\ content[k] # << >>
                  /\ Change(k, Front(content[k]), Last(content[k]))
               \/ /\ content[k] = << >>
                  /\ Change(k, << >>, NULL)

TakeOut(k, n) == \E i \in 1 .. Len(content[k]) :
                   /\ content[k][i] = n
                   /\ Change(k, RemoveAt(content[k], i), NULL)

Empty(k) == Change(k, << >>, NULL)

Next == \E k \in Lists :
          \/ \E n \in Node : PutFirst(k, n) \/ PutLast(k, n) \/ TakeOut(k, n)
          \/ TakeFirst(k)
          \/ TakeLast(k)
          \/ Empty(k)

Spec == Init /\ [][Next]_vars
=============================================================================
