----------------------------- MODULE Arguments -----------------------------
(***************************************************************************)
(* Arguments.cpp: the map from the keys a program knows to their values.   *)
(* An argument is a record: has it a split character, its key, its value.  *)
(* The programs read theirs from stdin (RequestPath.tla) and from the      *)
(* command line (Lifecycle.tla), with keys and capacities of their own.    *)
(***************************************************************************)
EXTENDS Naturals, Sequences

CONSTANTS Keys,       \* the keys add_entry put into the map
          Capacity    \* the greatest length of the value of each

NoEntries == [k \in Keys |-> [value |-> << >>, present |-> FALSE, required |-> FALSE]]

\* mark_required for the keys of a set.
MarkRequired(m, ks) ==
  [k \in Keys |-> [m[k] EXCEPT !.required = @ \/ k \in ks]]

\* Mutant of Accepts: a key may come twice, the second value is taken.
Accepts_Duplicate(m, a) ==
  a.split /\ a.key \in Keys /\ Len(a.value) <= Capacity[a.key]

\* process_argument throws ArgumentsException for an argument without a split
\* character, with an unknown key, a key it had before, or too long a value.
Accepts(m, a) ==
  a.split /\ a.key \in Keys /\ ~m[a.key].present /\ Len(a.value) <= Capacity[a.key]

ProcessArgument(m, a) ==
  [m EXCEPT ![a.key].value = a.value, ![a.key].present = TRUE]

\* check_required throws unless this holds.
CheckRequired(m) == \A k \in Keys : m[k].required => m[k].present

\* get_value of a key the map has.
Value(m, k) == m[k].value
=============================================================================
