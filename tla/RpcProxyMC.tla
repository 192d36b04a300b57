------------------------------- MODULE RpcProxyMC -------------------------------
(* Bodies that tell the normalizer's cases apart: two that are refused     *)
(* whole, one whose entries are all refused, and a batch with a refused    *)
(* entry between the forwarded ones.                                       *)
EXTENDS RpcProxy

Batch(kinds) == [isBatch |-> TRUE, entries |-> kinds]

MCUpstreams == <<"u1", "u2">>

MCBodies ==
    {Unparsable, Batch(<<"ok", "ok", "ok", "ok", "ok">>),
     Batch(<<"notAnObject", "malformed", "unknownMethod", "badFilter">>),
     Batch(<<"ok", "badFilter", "ok">>)}
=============================================================================
