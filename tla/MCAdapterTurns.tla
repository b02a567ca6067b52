--------------------------- MODULE MCAdapterTurns ---------------------------
(***************************************************************************)
(* Instances of AdapterTurns for TLC.                                       *)
(***************************************************************************)
EXTENDS AdapterTurns, TLC

AllKinds == {"turn", "review", "compact", "list"}

\* A turn of turn/start beside a turn of any kind, in both orders: what
\* starts first is a turn or a compaction, what starts second is any but a
\* compaction.
MixedKinds == (1 :> {"turn", "compact"}) @@ (2 :> {"turn", "review", "list"})

\* Reviews only.
Reviews == (1 :> {"review"})
=============================================================================
