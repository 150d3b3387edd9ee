--------------------------- MODULE MCShardsCache ---------------------------
(***************************************************************************)
(* Instances of ShardsCache for TLC.                                       *)
(***************************************************************************)
EXTENDS ShardsCache

CONSTANT
    MaxList         \* bound on the LRU list: it may grow for ever when the
                    \* shard width was changed (see the README)

ListBound == Len(lru) <= MaxList

=============================================================================
