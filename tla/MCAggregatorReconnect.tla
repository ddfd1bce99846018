----------------------- MODULE MCAggregatorReconnect -----------------------
(***************************************************************************)
(* Blocks for model checking a block handler that outlives its connection. *)
(***************************************************************************)
EXTENDS AggregatorReconnect

EmptyBlocks == {<<>>}
=============================================================================
