--------------------------- MODULE FrequencyCache ---------------------------
(***************************************************************************)
(* mln::cache and mln::cache_primitive (utility/cache.h): a bounded cache  *)
(* that drops, when it is full, the elements that were asked for least.    *)
(* Two containers are kept in step under one mutex: mapped_storage, from   *)
(* keys to an element and the number of times it was asked for, and        *)
(* mapped_frequencies, a multimap from these numbers to keys.              *)
(*                                                                         *)
(* Every operation holds storage_mutex from beginning to end and is one    *)
(* step.  The multimap is the sequence in which it is iterated: ascending, *)
(* and an entry comes after those with an equal number.                    *)
(***************************************************************************)
EXTENDS Naturals, Sequences, FiniteSets

CONSTANTS
  Keys,
  Values,            \* the elements
  Null,              \* what operator[] of mapped_storage creates
  PurgeLimit,        \* purge_limit and purge_count
  PurgeCount,
  AutomaticDecay,    \* automatic_decay_on_resize
  UpdateCounts,      \* update_element counts as a retrieval: cache_primitive
  MaxFrequency,      \* bound: how often an element is asked for
  Decayed            \* a number of retrievals times decay_factor

ASSUME CacheAssumption ==
  /\ IsFiniteSet(Keys)
  /\ Null \notin Values
  /\ PurgeLimit \in Nat \ {0}
  /\ PurgeCount \in 1 .. PurgeLimit
  /\ AutomaticDecay \in BOOLEAN
  /\ UpdateCounts \in BOOLEAN
  /\ MaxFrequency \in Nat
  /\ Decayed \in [0 .. MaxFrequency -> 0 .. MaxFrequency]
  /\ \A f, g \in 0 .. MaxFrequency : f <= g => Decayed[f] <= Decayed[g]

VARIABLES
  mapped_storage,
  mapped_frequencies

vars == <<mapped_storage, mapped_frequencies>>

Frequencies == 0 .. MaxFrequency
Entry(f, k) == [freq |-> f, key |-> k]
Lesser(a, b) == IF a <= b THEN a ELSE b

\* A cache: both containers, as one value that the operations transform.
Cache(storage, index) == [storage |-> storage, index |-> index]
Current == Cache(mapped_storage, mapped_frequencies)

Become(c) ==
  /\ mapped_storage' = c.storage
  /\ mapped_frequencies' = c.index

Init ==
  /\ mapped_storage = [k \in {} |-> Null]
  /\ mapped_frequencies = <<>>

-----------------------------------------------------------------------------
(* The multimap.                                                           *)

\* How many entries have a number of at most f: they all come first.
UpperBound(index, f) ==
  CHOOSE p \in 0 .. Len(index) :
    /\ \A i \in 1 .. p : index[i].freq <= f
    /\ \A i \in p + 1 .. Len(index) : f < index[i].freq

Emplace(index, f, k) ==
  LET p == UpperBound(index, f)
  IN [i \in 1 .. Len(index) + 1 |->
        IF i <= p THEN index[i] ELSE IF i = p + 1 THEN Entry(f, k) ELSE index[i - 1]]

Places(index, f, k) == {i \in DOMAIN index : index[i] = Entry(f, k)}

EraseAt(index, at) ==
  [i \in 1 .. Len(index) - 1 |-> IF i < at THEN index[i] ELSE index[i + 1]]

\* The first entry for f and k goes, if there is one.
Erase(index, f, k) ==
  IF Places(index, f, k) = {}
    THEN index
    ELSE EraseAt(index, CHOOSE i \in Places(index, f, k) :
                          \A j \in Places(index, f, k) : i <= j)

\* As above, but a search that fails ends behind the last entry for f, and the
\* code compares with the end of the whole multimap: the entry there, whoever
\* owns it, is erased.
EraseFound(index, f, k) ==
  IF Places(index, f, k) = {} /\ UpperBound(index, f) < Len(index)
    THEN EraseAt(index, UpperBound(index, f) + 1)
    ELSE Erase(index, f, k)

-----------------------------------------------------------------------------
(* The private operations, which run under the lock.                       *)

\* Mutant: only the element's own number is counted up.
BumpedOutOfStep(c, k) ==
  Cache([c.storage EXCEPT ![k].freq = @ + 1], c.index)

\* Mutant: the old entry stays.
BumpedTwice(c, k) ==
  LET f == c.storage[k].freq
  IN Cache([c.storage EXCEPT ![k].freq = f + 1], Emplace(c.index, f + 1, k))

\* update_frequency_locked.
Bumped(c, k) ==
  LET f == c.storage[k].freq
  IN Cache([c.storage EXCEPT ![k].freq = f + 1],
           Emplace(EraseFound(c.index, f, k), f + 1, k))

\* update_element_locked.
Updated(c, k, v) ==
  LET d == Cache([c.storage EXCEPT ![k].value = v], c.index)
  IN IF UpdateCounts THEN Bumped(d, k) ELSE d

\* apply_frequency_decay_locked: every entry in its order, which the decay
\* keeps; mapped_storage[key] makes an empty element for a key it lacks.
WithDecay(c) ==
  LET Of(k) == {i \in DOMAIN c.index : c.index[i].key = k}
      Last(k) == CHOOSE i \in Of(k) : \A j \in Of(k) : j <= i
      Element(k) == IF k \in DOMAIN c.storage THEN c.storage[k].value ELSE Null
  IN Cache(
       [k \in (DOMAIN c.storage) \cup {c.index[i].key : i \in DOMAIN c.index} |->
          IF Of(k) = {}
            THEN c.storage[k]
            ELSE [value |-> Element(k), freq |-> Decayed[c.index[Last(k)].freq]]],
       [i \in DOMAIN c.index |-> Entry(Decayed[c.index[i].freq], c.index[i].key)])

\* remove_least_retrieved_elements_locked.
Purged(c, count) ==
  LET n == Lesser(count, Len(c.index))
      kept == (DOMAIN c.storage) \ {c.index[i].key : i \in 1 .. n}
      d == Cache([k \in kept |-> c.storage[k]], SubSeq(c.index, n + 1, Len(c.index)))
  IN IF AutomaticDecay THEN WithDecay(d) ELSE d

\* The two emplace calls at the end of add_element.
Inserted(c, k, v) ==
  Cache([j \in (DOMAIN c.storage) \cup {k} |->
           IF j = k THEN [value |-> v, freq |-> 0] ELSE c.storage[j]],
        Emplace(c.index, 0, k))

-----------------------------------------------------------------------------
(* The public operations.                                                  *)

Present(k) == k \in DOMAIN mapped_storage

\* The bound on the counters.
MayCount(k) == mapped_storage[k].freq < MaxFrequency

\* Mutant: the limit is tested with > instead of >=.
AddAboveLimit(k, v) ==
  IF Present(k)
    THEN (UpdateCounts => MayCount(k)) /\ Become(Updated(Current, k, v))
    ELSE Become(Inserted(IF Cardinality(DOMAIN mapped_storage) > PurgeLimit
                           THEN Purged(Current, PurgeCount)
                           ELSE Current, k, v))

AddElement(k, v) ==
  IF Present(k)
    THEN (UpdateCounts => MayCount(k)) /\ Become(Updated(Current, k, v))
    ELSE Become(Inserted(IF Cardinality(DOMAIN mapped_storage) >= PurgeLimit
                           THEN Purged(Current, PurgeCount)
                           ELSE Current, k, v))

\* A key that is not present is left alone, and so it is by the next two.
UpdateElement(k, v) ==
  /\ Present(k)
  /\ UpdateCounts => MayCount(k)
  /\ Become(Updated(Current, k, v))

GetElement(k) ==
  /\ Present(k)
  /\ MayCount(k)
  /\ Become(Bumped(Current, k))

\* Mutant: the entry of the multimap is not erased.
RemoveKeepingEntry(k) ==
  /\ Present(k)
  /\ mapped_storage' = [j \in (DOMAIN mapped_storage) \ {k} |-> mapped_storage[j]]
  /\ UNCHANGED mapped_frequencies

RemoveElement(k) ==
  /\ Present(k)
  /\ Become(Cache([j \in (DOMAIN mapped_storage) \ {k} |-> mapped_storage[j]],
                  Erase(mapped_frequencies, mapped_storage[k].freq, k)))

RemoveLeastRetrieved(count) == Become(Purged(Current, count))

ApplyFrequencyDecay == Become(WithDecay(Current))

Clear ==
  /\ mapped_storage' = [k \in {} |-> Null]
  /\ mapped_frequencies' = <<>>

Next ==
  \/ \E k \in Keys, v \in Values : AddElement(k, v) \/ UpdateElement(k, v)
  \/ \E k \in Keys : GetElement(k) \/ RemoveElement(k)
  \/ \E count \in 0 .. PurgeLimit : RemoveLeastRetrieved(count)
  \/ ApplyFrequencyDecay
  \/ Clear

Spec == Init /\ [][Next]_vars

-----------------------------------------------------------------------------
\* Both containers hold keys, elements and numbers; no element is empty.
TypeOK ==
  /\ DOMAIN mapped_storage \subseteq Keys
  /\ mapped_storage \in
       [DOMAIN mapped_storage -> [value : Values, freq : Frequencies]]
  /\ mapped_frequencies \in Seq([freq : Frequencies, key : Keys])

\* The two containers say the same: every element has exactly one entry, with
\* its own number, and the entries ascend.  operator[] in the decay therefore
\* never makes an empty element, the purge never misses one, and a bump never
\* erases the entry of another key.
IndexMatches ==
  /\ \A i \in DOMAIN mapped_frequencies :
       LET e == mapped_frequencies[i]
       IN e.key \in DOMAIN mapped_storage /\ mapped_storage[e.key].freq = e.freq
  /\ \A k \in DOMAIN mapped_storage :
       \E i \in DOMAIN mapped_frequencies : mapped_frequencies[i].key = k
  /\ \A i, j \in DOMAIN mapped_frequencies :
       i < j => /\ mapped_frequencies[i].key # mapped_frequencies[j].key
                /\ mapped_frequencies[i].freq <= mapped_frequencies[j].freq

\* The cache never grows beyond purge_limit, whatever was added, removed and
\* purged before.
SizeBound == Cardinality(DOMAIN mapped_storage) <= PurgeLimit

\* A full cache makes room at the expense of the elements asked for least: no
\* element it drops was asked for more often than one it keeps.
EvictsLeast ==
  [][(\E k \in Keys, v \in Values : AddElement(k, v)) =>
       \A gone \in (DOMAIN mapped_storage) \ DOMAIN mapped_storage',
          kept \in (DOMAIN mapped_storage) \cap DOMAIN mapped_storage' :
         mapped_storage[gone].freq <= mapped_storage[kept].freq]_vars

\* add_element returns the element it was given, out of a cache that holds it:
\* the purge never takes the newcomer, although nobody has asked for it yet.
AddedIsPresent ==
  [][\A k \in Keys, v \in Values :
       AddElement(k, v) =>
         k \in DOMAIN mapped_storage' /\ mapped_storage'[k].value = v]_vars

\* What the cache shows of itself: the elements, without their numbers.
ElementsOf(storage) == [k \in DOMAIN storage |-> storage[k].value]

Abstract == INSTANCE BoundedCache WITH elements <- ElementsOf(mapped_storage)

\* To its users the cache is a bounded map: the bookkeeping of the retrievals
\* never shows, a purge takes exactly as many elements as it is told to, or all,
\* and no other operation loses, resurrects or alters an element.
ImplementsBoundedCache == Abstract!Spec
=============================================================================
