---------------------------- MODULE WyndexOracle ----------------------------
(***************************************************************************)
(* The oracle: which pair contract of the exchange prices two tokens.      *)
(*                                                                         *)
(* An oracle o is a record: its controller, the POOLS that were            *)
(* registered, keyed by the two tokens in either order, and what the       *)
(* exchange's pairs answer to a TWAP query.  A pair is the tuple <<a, b>>  *)
(* of its assets, in the order in which it was created; its TWAP is the    *)
(* price of one b in tokens of a, or 0 while the pair has no observations. *)
(***************************************************************************)
EXTENDS Arithmetic, TLC

\* Map::save of the storage: the key is added, or its value replaced.
Saved(map, key, value) ==
    [k \in {key} \cup DOMAIN map |-> IF k = key THEN value ELSE map[k]]

instantiate_oracle(controller, twaps) ==
    [controller |-> controller, pools |-> <<>>, twaps |-> twaps]

\* The key of two tokens in POOLS: their sorted tuple.
PoolKey(denom1, denom2) == {denom1, denom2}

\* The denominations are not compared with the assets of the pair.
register_pool(o, pair, denom1, denom2) ==
    [o EXCEPT !.pools = Saved(@, PoolKey(denom1, denom2), pair)]

RegisterPoolOK(o, sender) == sender = o.controller

PoolAddressOK(o, denom1, denom2) == PoolKey(denom1, denom2) \in DOMAIN o.pools

pool_address(o, denom1, denom2) == o.pools[PoolKey(denom1, denom2)]

\* The query fails while the pair has recorded no price.
TwapOK(o, offer, ask) ==
    PoolAddressOK(o, offer, ask) /\ o.twaps[pool_address(o, offer, ask)] > 0

\* The answer is the pair's, whichever of its assets is offered.
twap(o, offer, ask) ==
    LET pair == pool_address(o, offer, ask)
    IN  [a |-> pair[1],
         b |-> pair[2],
         a_per_b |-> o.twaps[pair],
         b_per_a |-> DivDec(One, o.twaps[pair])]
=============================================================================
