-------------------------- MODULE MCFrequencyCache --------------------------
(* Small instances of FrequencyCache for TLC.  A purge of two out of four  *)
(* leaves two old elements beside the new one, so that ties, order and the *)
(* decay all matter.                                                       *)
EXTENDS FrequencyCache, TLC

CONSTANTS k1, k2, k3, k4, k5, v1, v2

FiveKeys == {k1, k2, k3, k4, k5}
TwoValues == {v1, v2}

\* decay_factor 0.7 (cache) and 0.75 (cache_primitive, as dump_channels_cache).
SevenTenths == [f \in 0 .. MaxFrequency |-> (7 * f) \div 10]
ThreeQuarters == [f \in 0 .. MaxFrequency |-> (3 * f) \div 4]

KeySymmetry == Permutations(Keys) \cup Permutations(Values)
=============================================================================
