--------------------------- MODULE MCShardHandles ---------------------------
(***************************************************************************)
(* Instances of ShardHandles for TLC: shards one tick wide, at the         *)
(* instants 0 and 1; records are named <<timestamp, name>>.                *)
(***************************************************************************)
EXTENDS ShardHandles, TLC

CONSTANTS
    Early,          \* the names of the records stamped 0
    Late            \* the names of those stamped 1

MCTimes   == {0, 1}
MCRecords == ({0} \X Early) \cup ({1} \X Late)
MCTimeOf  == [r \in MCRecords |-> r[1]]

NameSymmetry == Permutations(Workers) \cup Permutations(Early)

=============================================================================
