----------------------- MODULE FrequencyCache_proofs -----------------------
(***************************************************************************)
(* Proofs about FrequencyCache, for all keys, elements, limits and decays, *)
(* and for both of the classes.  The two containers form a good cache when *)
(* the index holds exactly one entry for every element, with its number,   *)
(* in ascending order; inserting an absent key, removing a present one,    *)
(* purging and decaying a good cache give a good cache, and every other    *)
(* operation is made from these.                                           *)
(***************************************************************************)
EXTENDS FrequencyCache, FiniteSetTheorems, FunctionTheorems, TLAPS

Entries == [freq : Frequencies, key : Keys]
Elements == [value : Values, freq : Frequencies]

\* The index s ascends, and no key is in it twice.
Ordered(index) ==
  \A i, j \in 1 .. Len(index) :
    i < j => index[i].key # index[j].key /\ index[i].freq <= index[j].freq

Good(storage, index) ==
  /\ DOMAIN storage \subseteq Keys
  /\ storage \in [DOMAIN storage -> Elements]
  /\ index \in Seq(Entries)
  /\ Ordered(index)
  /\ \A i \in 1 .. Len(index) :
       index[i].key \in DOMAIN storage /\ storage[index[i].key].freq = index[i].freq
  /\ \A k \in DOMAIN storage : \E i \in 1 .. Len(index) : index[i].key = k

-----------------------------------------------------------------------------
(* The multimap.                                                           *)

\* What an index is made of.
LEMMA EntryFacts ==
  ASSUME NEW index \in Seq(Entries)
  PROVE  /\ Len(index) \in Nat /\ DOMAIN index = 1 .. Len(index)
         /\ \A i \in 1 .. Len(index) :
              /\ index[i] \in Entries /\ index[i] = Entry(index[i].freq, index[i].key)
              /\ index[i].key \in Keys
              /\ index[i].freq \in Frequencies /\ index[i].freq \in Nat
<1>1. \A e \in Entries : /\ e = Entry(e.freq, e.key)
                        /\ e.key \in Keys
                        /\ e.freq \in Frequencies /\ e.freq \in Nat
  BY DEF Entries, Entry, Frequencies
<1>2. /\ Len(index) \in Nat /\ DOMAIN index = 1 .. Len(index)
      /\ \A i \in 1 .. Len(index) : index[i] \in Entries
  OBVIOUS
<1> QED BY <1>1, <1>2

LEMMA Positions ==
  ASSUME NEW n \in Nat
  PROVE  IsFiniteSet(1 .. n) /\ Cardinality(1 .. n) = n
<1>1. /\ IsFiniteSet(1 .. n)
      /\ Cardinality(1 .. n) = IF 1 > n THEN 0 ELSE n - 1 + 1
  BY FS_Interval
<1> QED BY <1>1

\* In an ascending index the entries with a number of at most f come first:
\* as many positions as there are of them, counted.
LEMMA UpperBoundExists ==
  ASSUME NEW index \in Seq(Entries), Ordered(index), NEW f \in Nat
  PROVE  /\ UpperBound(index, f) \in 0 .. Len(index)
         /\ \A i \in 1 .. UpperBound(index, f) : index[i].freq <= f
         /\ \A i \in UpperBound(index, f) + 1 .. Len(index) : f < index[i].freq
<1> DEFINE L == Len(index)
           T == {i \in 1 .. L : index[i].freq <= f}
           p == Cardinality(T)
<1>1. L \in Nat /\ \A i \in 1 .. L : index[i].freq \in Nat
  BY EntryFacts
<1>2. IsFiniteSet(T) /\ p \in Nat /\ p <= L
  <2>1. IsFiniteSet(1 .. L) /\ Cardinality(1 .. L) = L
    BY <1>1, Positions
  <2>2. T \in SUBSET (1 .. L)
    OBVIOUS
  <2>3. IsFiniteSet(T) /\ p <= Cardinality(1 .. L)
    BY <2>1, <2>2, FS_Subset
  <2> QED BY <2>1, <2>3, FS_CardinalityType
<1>3. ASSUME NEW i \in T PROVE i <= p
  <2>1. 1 .. i \in SUBSET T
    BY <1>1 DEF Ordered
  <2>2. Cardinality(1 .. i) = i
    BY <1>1, Positions
  <2>3. Cardinality(1 .. i) <= p
    BY <1>2, <2>1, FS_Subset
  <2> QED BY <2>2, <2>3
<1>4. T = 1 .. p
  <2>1. T \in SUBSET (1 .. p)
    BY <1>1, <1>2, <1>3
  <2>2. IsFiniteSet(1 .. p) /\ Cardinality(1 .. p) = p
    BY <1>2, Positions
  <2> QED BY <2>1, <2>2, FS_Subset
<1>5. \A i \in 1 .. L : i \in T <=> index[i].freq <= f
  OBVIOUS
<1> HIDE DEF p, T, L
<1>6. /\ p \in 0 .. L
      /\ \A i \in 1 .. p : index[i].freq <= f
      /\ \A i \in p + 1 .. L : f < index[i].freq
  BY <1>1, <1>2, <1>4, <1>5
<1> QED BY <1>6 DEF UpperBound, L

\* Inserting a key that is not there, with any number.
LEMMA EmplaceGood ==
  ASSUME NEW storage, NEW index, Good(storage, index),
         NEW k \in Keys \ DOMAIN storage, NEW e \in Elements
  PROVE  Good([j \in DOMAIN storage \cup {k} |-> IF j = k THEN e ELSE storage[j]],
              Emplace(index, e.freq, k))
<1> DEFINE f == e.freq
           p == UpperBound(index, f)
           L == Len(index)
           new == Emplace(index, f, k)
           all == [j \in DOMAIN storage \cup {k} |-> IF j = k THEN e ELSE storage[j]]
<1>1. f \in Frequencies /\ f \in Nat /\ L \in Nat
  BY DEF Elements, Frequencies, Good
<1>2. /\ p \in 0 .. L
      /\ \A i \in 1 .. p : index[i].freq <= f
      /\ \A i \in p + 1 .. L : f < index[i].freq
  BY <1>1, UpperBoundExists DEF Good
<1> HIDE DEF p, f
<1>3. /\ new \in Seq(Entries) /\ Len(new) = L + 1
      /\ \A i \in 1 .. p : i \in 1 .. L /\ new[i] = index[i]
      /\ new[p + 1].key = k /\ new[p + 1].freq = f
      /\ \A i \in p + 2 .. L + 1 : i - 1 \in p + 1 .. L /\ new[i] = index[i - 1]
  <2>1. Entry(f, k) \in Entries /\ Entry(f, k).key = k /\ Entry(f, k).freq = f
    BY <1>1 DEF Entry, Entries
  <2>2. \A i \in 1 .. L : index[i] \in Entries
    BY DEF Good
  <2>3. new = [i \in 1 .. L + 1 |->
                 IF i <= p THEN index[i] ELSE IF i = p + 1 THEN Entry(f, k) ELSE index[i - 1]]
    BY DEF Emplace, p
  <2>4. new \in [1 .. L + 1 -> Entries]
    BY <1>1, <1>2, <2>1, <2>2, <2>3
  <2> QED BY <1>1, <1>2, <2>1, <2>3, <2>4
<1>4. \A i \in 1 .. L : index[i].key \in DOMAIN storage /\ index[i].key # k
  BY DEF Good
<1>5. Ordered(new)
  <2>1. \A i, j \in 1 .. L : i < j => index[i].key # index[j].key /\ index[i].freq <= index[j].freq
    BY DEF Good, Ordered
  <2>2. ASSUME NEW i \in 1 .. L + 1, NEW j \in 1 .. L + 1, i < j
        PROVE  new[i].key # new[j].key /\ new[i].freq <= new[j].freq
    <3>0. \A m \in 1 .. L : index[m].freq \in Nat
      BY EntryFacts DEF Good
    <3>1. CASE j <= p
      BY <1>1, <1>2, <1>3, <2>1, <2>2, <3>1
    <3>2. CASE j = p + 1
      BY <1>1, <1>2, <1>3, <1>4, <2>2, <3>2
    <3>3. CASE j > p + 1 /\ i <= p
      <4>1. new[i] = index[i] /\ new[j] = index[j - 1] /\ i < j - 1 /\ j - 1 \in 1 .. L /\ i \in 1 .. L
        BY <1>1, <1>2, <1>3, <2>2, <3>3
      <4> QED BY <2>1, <4>1
    <3>4. CASE j > p + 1 /\ i = p + 1
      <4>1. new[j] = index[j - 1] /\ j - 1 \in p + 1 .. L /\ j - 1 \in 1 .. L
        BY <1>1, <1>2, <1>3, <2>2, <3>4
      <4> QED BY <1>1, <1>2, <1>3, <1>4, <3>0, <3>4, <4>1
    <3>5. CASE i > p + 1
      <4>1. new[i] = index[i - 1] /\ new[j] = index[j - 1] /\ i - 1 < j - 1
            /\ i - 1 \in 1 .. L /\ j - 1 \in 1 .. L
        BY <1>1, <1>2, <1>3, <2>2, <3>5
      <4> QED BY <2>1, <4>1
    <3> QED BY <1>1, <1>2, <2>2, <3>1, <3>2, <3>3, <3>4, <3>5
  <2> QED BY <1>3, <2>2 DEF Ordered
<1>6. DOMAIN all = DOMAIN storage \cup {k} /\ all[k] = e
      /\ \A j \in DOMAIN storage : all[j] = storage[j]
  OBVIOUS
<1> HIDE DEF all, new
<1>7. ASSUME NEW i \in 1 .. L + 1
      PROVE  new[i].key \in DOMAIN all /\ all[new[i].key].freq = new[i].freq
  <2>1. \A j \in 1 .. L : index[j].key \in DOMAIN storage
                          /\ storage[index[j].key].freq = index[j].freq
    BY DEF Good
  <2>2. CASE i <= p
    <3>1. new[i] = index[i] /\ i \in 1 .. L
      BY <1>1, <1>2, <1>3, <2>2
    <3> QED BY <1>6, <2>1, <3>1
  <2>3. CASE i = p + 1
    BY <1>3, <1>6, <2>3 DEF f
  <2>4. CASE i > p + 1
    <3>1. new[i] = index[i - 1] /\ i - 1 \in 1 .. L
      BY <1>1, <1>2, <1>3, <2>4
    <3> QED BY <1>6, <2>1, <3>1
  <2> QED BY <1>1, <1>2, <2>2, <2>3, <2>4
<1>8. ASSUME NEW j \in DOMAIN all PROVE \E i \in 1 .. L + 1 : new[i].key = j
  <2>1. CASE j = k
    <3>1. p + 1 \in 1 .. L + 1
      BY <1>1, <1>2
    <3> QED BY <1>3, <2>1, <3>1
  <2>2. CASE j # k
    <3>1. PICK i \in 1 .. L : index[i].key = j
      BY <1>6, <2>2 DEF Good
    <3>2. CASE i <= p
      BY <1>1, <1>2, <1>3, <3>1, <3>2
    <3>3. CASE i > p
      <4>1. i + 1 \in p + 2 .. L + 1 /\ i + 1 \in 1 .. L + 1
        BY <1>1, <1>2, <3>3
      <4>2. new[i + 1] = index[(i + 1) - 1] /\ (i + 1) - 1 = i
        BY <1>3, <4>1
      <4> QED BY <3>1, <4>1, <4>2
    <3> QED BY <1>1, <1>2, <3>2, <3>3
  <2> QED BY <2>1, <2>2
<1>9. DOMAIN all \subseteq Keys /\ all \in [DOMAIN all -> Elements]
  <2>1. \A j \in DOMAIN storage : j \in Keys /\ storage[j] \in Elements
    BY DEF Good
  <2> QED BY <1>6, <2>1 DEF all
<1> QED BY <1>3, <1>5, <1>7, <1>8, <1>9 DEF Good, all, new, f

\* Removing a key that is there: Erase and EraseFound find its entry.
LEMMA EraseGood ==
  ASSUME NEW storage, NEW index, Good(storage, index), NEW k \in DOMAIN storage
  PROVE  /\ EraseFound(index, storage[k].freq, k) = Erase(index, storage[k].freq, k)
         /\ Good([j \in (DOMAIN storage) \ {k} |-> storage[j]],
                 Erase(index, storage[k].freq, k))
<1> DEFINE f == storage[k].freq
           L == Len(index)
           rest == [j \in (DOMAIN storage) \ {k} |-> storage[j]]
<1>1. PICK i \in 1 .. L : index[i].key = k
  BY DEF Good
<1>2. /\ L \in Nat /\ L - 1 \in Nat /\ DOMAIN index = 1 .. L
      /\ \A m \in 1 .. L : index[m] \in Entries /\ index[m].freq \in Nat
      /\ index[i] = Entry(f, k)
  <2>1. L \in Nat /\ DOMAIN index = 1 .. L
        /\ \A m \in 1 .. L : index[m] \in Entries /\ index[m].freq \in Nat
                             /\ index[m] = Entry(index[m].freq, index[m].key)
    BY EntryFacts DEF Good
  <2>2. index[i].freq = f
    BY <1>1 DEF Good
  <2> QED BY <1>1, <2>1, <2>2
<1>3. \A m \in 1 .. L : m # i => index[m].key # k
  BY <1>1, <1>2 DEF Good, Ordered
<1>4. Places(index, f, k) = {i}
  <2>1. \A m \in 1 .. L : index[m] = Entry(f, k) => index[m].key = k
    BY DEF Entry
  <2> HIDE DEF f
  <2> QED BY <1>2, <1>3, <2>1 DEF Places
<1>5. /\ EraseFound(index, f, k) = Erase(index, f, k)
      /\ Erase(index, f, k) = EraseAt(index, i)
  <2>1. Places(index, f, k) # {}
    BY <1>4
  <2>2. (CHOOSE m \in Places(index, f, k) : \A j \in Places(index, f, k) : m <= j) = i
    BY <1>2, <1>4
  <2> HIDE DEF f
  <2> QED BY <2>1, <2>2 DEF EraseFound, Erase
<1> DEFINE new == EraseAt(index, i)
<1>6. /\ new \in Seq(Entries) /\ Len(new) = L - 1
      /\ \A m \in 1 .. L - 1 : m < i => m \in 1 .. L /\ new[m] = index[m]
      /\ \A m \in 1 .. L - 1 : m >= i => m + 1 \in 1 .. L /\ new[m] = index[m + 1]
  <2>1. new = [m \in 1 .. L - 1 |-> IF m < i THEN index[m] ELSE index[m + 1]]
    BY DEF EraseAt
  <2>2. new \in [1 .. L - 1 -> Entries]
    BY <1>2, <2>1
  <2> QED BY <1>2, <2>1, <2>2
<1>7. DOMAIN rest = (DOMAIN storage) \ {k} /\ \A j \in DOMAIN rest : rest[j] = storage[j]
  OBVIOUS
<1>8. /\ DOMAIN storage \subseteq Keys
      /\ \A j \in DOMAIN storage : storage[j] \in Elements /\ \E m \in 1 .. L : index[m].key = j
      /\ \A m \in 1 .. L : /\ index[m].key \in DOMAIN storage
                           /\ storage[index[m].key].freq = index[m].freq
      /\ \A m, j \in 1 .. L :
           m < j => index[m].key # index[j].key /\ index[m].freq <= index[j].freq
  BY DEF Good, Ordered
<1> DEFINE From(m) == IF m < i THEN m ELSE m + 1
<1>9. \A m \in 1 .. L - 1 : From(m) \in 1 .. L /\ From(m) # i /\ new[m] = index[From(m)]
  BY <1>2, <1>6
<1>10. \A m, j \in 1 .. L - 1 : m < j => From(m) < From(j)
  BY <1>2
<1>11. ASSUME NEW j \in 1 .. L, j # i PROVE \E m \in 1 .. L - 1 : From(m) = j
  <2>1. CASE j < i
    <3>1. j \in 1 .. L - 1 /\ From(j) = j
      BY <1>2, <2>1
    <3> QED BY <3>1
  <2>2. CASE j > i
    <3>1. j - 1 \in 1 .. L - 1 /\ From(j - 1) = j
      BY <1>2, <2>2
    <3> QED BY <3>1
  <2> QED BY <1>11, <2>1, <2>2
<1> HIDE DEF From, new, rest, L
<1>12. Ordered(new)
  <2>1. ASSUME NEW m \in 1 .. L - 1, NEW j \in 1 .. L - 1, m < j
        PROVE  new[m].key # new[j].key /\ new[m].freq <= new[j].freq
    <3>1. From(m) \in 1 .. L /\ From(j) \in 1 .. L /\ From(m) < From(j)
      BY <1>9, <1>10, <2>1
    <3>2. new[m] = index[From(m)] /\ new[j] = index[From(j)]
      BY <1>9
    <3> QED BY <1>8, <3>1, <3>2
  <2> QED BY <1>6, <2>1 DEF Ordered
<1>13. ASSUME NEW m \in 1 .. L - 1
       PROVE  new[m].key \in DOMAIN rest /\ rest[new[m].key].freq = new[m].freq
  <2>1. From(m) \in 1 .. L /\ From(m) # i /\ new[m] = index[From(m)]
    BY <1>9
  <2>2. new[m].key # k /\ new[m].key \in DOMAIN storage
        /\ storage[new[m].key].freq = new[m].freq
    BY <1>3, <1>8, <2>1
  <2> QED BY <1>7, <2>2
<1>14. ASSUME NEW j \in DOMAIN rest PROVE \E m \in 1 .. L - 1 : new[m].key = j
  <2>1. PICK n \in 1 .. L : index[n].key = j
    BY <1>7, <1>8
  <2>2. n # i
    BY <1>1, <1>7, <2>1
  <2>3. PICK m \in 1 .. L - 1 : From(m) = n
    BY <1>11, <2>2
  <2> QED BY <1>9, <2>1, <2>3
<1>15. DOMAIN rest \subseteq Keys /\ rest \in [DOMAIN rest -> Elements]
  BY <1>7, <1>8 DEF rest
<1>16. Good(rest, new)
  BY <1>6, <1>12, <1>13, <1>14, <1>15 DEF Good
<1> QED BY <1>5, <1>16 DEF new, rest, L

\* Dropping the first n entries and their elements; and what is dropped was
\* not asked for more often than what stays.
LEMMA DropGood ==
  ASSUME NEW storage, NEW index, Good(storage, index), NEW n \in 0 .. Len(index),
         NEW kept, kept = (DOMAIN storage) \ {index[i].key : i \in 1 .. n}
  PROVE  /\ Good([k \in kept |-> storage[k]], SubSeq(index, n + 1, Len(index)))
         /\ \A gone \in (DOMAIN storage) \ kept, stays \in kept :
              storage[gone].freq <= storage[stays].freq
         /\ n > 0 => kept # DOMAIN storage
<1> DEFINE L == Len(index)
           new == SubSeq(index, n + 1, L)
           rest == [k \in kept |-> storage[k]]
<1>1. /\ L \in Nat /\ n \in Nat /\ L - n \in Nat
      /\ \A m \in 1 .. L : index[m] \in Entries /\ index[m].freq \in Nat
  BY EntryFacts DEF Good
<1>2. /\ DOMAIN storage \subseteq Keys
      /\ \A j \in DOMAIN storage : storage[j] \in Elements /\ \E m \in 1 .. L : index[m].key = j
      /\ \A m \in 1 .. L : /\ index[m].key \in DOMAIN storage
                           /\ storage[index[m].key].freq = index[m].freq
      /\ \A m, j \in 1 .. L :
           m < j => index[m].key # index[j].key /\ index[m].freq <= index[j].freq
  BY DEF Good, Ordered
<1>3. /\ new \in Seq(Entries) /\ Len(new) = L - n
      /\ \A m \in 1 .. L - n : n + m \in 1 .. L /\ new[m] = index[n + m]
  <2>1. index \in Seq(Entries) /\ n + 1 \in 1 .. L + 1
    BY <1>1 DEF Good
  <2>2. new = [m \in 1 .. L - n |-> index[n + m]]
    BY <1>1, <2>1
  <2>3. \A m \in 1 .. L - n : n + m \in 1 .. L
    BY <1>1
  <2>4. new \in [1 .. L - n -> Entries]
    BY <1>1, <2>2, <2>3
  <2> QED BY <1>1, <2>2, <2>3, <2>4
<1> HIDE DEF L, new
<1>4. \A m \in 1 .. L : index[m].key \in kept <=> m > n
  <2>1. ASSUME NEW m \in 1 .. L, m > n, NEW i \in 1 .. n
        PROVE  index[i].key # index[m].key
    <3>1. i \in 1 .. L /\ i < m
      BY <1>1, <2>1
    <3> QED BY <1>2, <3>1
  <2>2. \A m \in 1 .. L : m <= n => m \in 1 .. n
    BY <1>1
  <2>3. \A m \in 1 .. L : index[m].key \in DOMAIN storage
    BY <1>2
  <2> QED BY <1>1, <2>1, <2>2, <2>3
<1>5. DOMAIN rest = kept /\ kept \subseteq DOMAIN storage /\ \A j \in kept : rest[j] = storage[j]
  OBVIOUS
<1>6. rest \in [DOMAIN rest -> Elements] /\ DOMAIN rest \subseteq Keys
  BY <1>2, <1>5
<1> HIDE DEF rest
<1>7. Ordered(new)
  <2>1. ASSUME NEW m \in 1 .. L - n, NEW j \in 1 .. L - n, m < j
        PROVE  new[m].key # new[j].key /\ new[m].freq <= new[j].freq
    <3>1. n + m \in 1 .. L /\ n + j \in 1 .. L /\ n + m < n + j
      BY <1>1, <1>3, <2>1
    <3>2. new[m] = index[n + m] /\ new[j] = index[n + j]
      BY <1>3
    <3> QED BY <1>2, <3>1, <3>2
  <2> QED BY <1>3, <2>1 DEF Ordered
<1>8. ASSUME NEW m \in 1 .. L - n
      PROVE  new[m].key \in DOMAIN rest /\ rest[new[m].key].freq = new[m].freq
  <2>1. n + m \in 1 .. L /\ n + m > n /\ new[m] = index[n + m]
    BY <1>1, <1>3
  <2>2. index[n + m].key \in kept /\ storage[index[n + m].key].freq = index[n + m].freq
    BY <1>2, <1>4, <2>1
  <2> QED BY <1>5, <2>1, <2>2
<1>9. ASSUME NEW j \in DOMAIN rest PROVE \E m \in 1 .. L - n : new[m].key = j
  <2>1. PICK i \in 1 .. L : index[i].key = j
    BY <1>2, <1>5
  <2>2. i - n \in 1 .. L - n /\ n + (i - n) = i
    BY <1>1, <1>4, <1>5, <2>1
  <2> QED BY <1>3, <2>1, <2>2
<1>10. Good(rest, new)
  BY <1>3, <1>6, <1>7, <1>8, <1>9 DEF Good
<1>11. ASSUME NEW gone \in (DOMAIN storage) \ kept, NEW stays \in kept
       PROVE  storage[gone].freq <= storage[stays].freq
  <2>1. PICK i \in 1 .. L : index[i].key = gone
    BY <1>2
  <2>2. PICK j \in 1 .. L : index[j].key = stays
    BY <1>2, <1>5
  <2>3. i <= n /\ n < j
    BY <1>1, <1>4, <2>1, <2>2
  <2>4. index[i].freq <= index[j].freq
    BY <1>1, <1>2, <2>3
  <2> QED BY <1>2, <2>1, <2>2, <2>4
<1>12. n > 0 => kept # DOMAIN storage
  BY <1>1, <1>2, <1>4 DEF L
<1> QED BY <1>10, <1>11, <1>12 DEF rest, new, L

\* The decay changes the numbers, of an element and of its entry alike.
LEMMA DecayGood ==
  ASSUME NEW storage, NEW index, Good(storage, index)
  PROVE  /\ Good(WithDecay(Cache(storage, index)).storage,
                 WithDecay(Cache(storage, index)).index)
         /\ DOMAIN WithDecay(Cache(storage, index)).storage = DOMAIN storage
         /\ \A k \in DOMAIN storage :
              WithDecay(Cache(storage, index)).storage[k].value = storage[k].value
<1> DEFINE L == Len(index)
           Of(k) == {i \in DOMAIN index : index[i].key = k}
           Last(k) == CHOOSE i \in Of(k) : \A j \in Of(k) : j <= i
           Element(k) == IF k \in DOMAIN storage THEN storage[k].value ELSE Null
           all == [k \in (DOMAIN storage) \cup {index[i].key : i \in DOMAIN index} |->
                     IF Of(k) = {}
                       THEN storage[k]
                       ELSE [value |-> Element(k), freq |-> Decayed[index[Last(k)].freq]]]
           new == [i \in DOMAIN index |-> Entry(Decayed[index[i].freq], index[i].key)]
<1>1. WithDecay(Cache(storage, index)) = [storage |-> all, index |-> new]
  BY DEF WithDecay, Cache
<1>2. /\ L \in Nat /\ DOMAIN index = 1 .. L
      /\ \A m \in 1 .. L : index[m].key \in Keys /\ index[m].freq \in Frequencies
  BY EntryFacts DEF Good
<1>3. /\ DOMAIN storage \subseteq Keys
      /\ \A j \in DOMAIN storage : /\ storage[j].value \in Values
                                  /\ \E m \in 1 .. L : index[m].key = j
      /\ \A m \in 1 .. L : index[m].key \in DOMAIN storage
      /\ \A m, j \in 1 .. L :
           m < j => index[m].key # index[j].key /\ index[m].freq <= index[j].freq
  BY DEF Good, Ordered, Elements
<1>4. /\ \A f \in Frequencies : Decayed[f] \in Frequencies
      /\ \A f, g \in Frequencies : f <= g => Decayed[f] <= Decayed[g]
  BY CacheAssumption DEF Frequencies
<1>5. (DOMAIN storage) \cup {index[i].key : i \in DOMAIN index} = DOMAIN storage
  <2>1. \A i \in DOMAIN index : index[i].key \in DOMAIN storage
    BY <1>2, <1>3
  <2> QED BY <2>1
<1>6. ASSUME NEW i \in 1 .. L
      PROVE  Of(index[i].key) = {i} /\ Last(index[i].key) = i
  <2>1. \A m \in 1 .. L : index[m].key = index[i].key => m = i
    BY <1>2, <1>3
  <2>2. Of(index[i].key) = {i}
    BY <1>2, <2>1
  <2> QED BY <1>2, <2>2
<1>7. DOMAIN all = DOMAIN storage
  BY <1>5
<1>8. ASSUME NEW i \in 1 .. L
      PROVE  all[index[i].key] = [value |-> storage[index[i].key].value,
                                  freq |-> Decayed[index[i].freq]]
  <2>1. index[i].key \in DOMAIN storage
    BY <1>3
  <2>2. Of(index[i].key) # {} /\ Last(index[i].key) = i
    BY <1>6
  <2> HIDE DEF Of, Last
  <2> QED BY <1>5, <2>1, <2>2
<1>9. \A i \in 1 .. L : /\ new[i] = Entry(Decayed[index[i].freq], index[i].key)
                        /\ new[i].key = index[i].key /\ new[i].freq = Decayed[index[i].freq]
                        /\ new[i] \in Entries
  BY <1>2, <1>4 DEF Entry, Entries
<1>10. new \in Seq(Entries) /\ Len(new) = L
  <2>1. new \in [1 .. L -> Entries]
    BY <1>2, <1>9
  <2> QED BY <1>2, <2>1
<1> HIDE DEF all, new, L, Of, Last
<1>11. Ordered(new)
  <2>1. ASSUME NEW i \in 1 .. L, NEW j \in 1 .. L, i < j
        PROVE  new[i].key # new[j].key /\ new[i].freq <= new[j].freq
    <3>1. index[i].key # index[j].key /\ index[i].freq <= index[j].freq
      BY <1>3, <2>1
    <3> QED BY <1>2, <1>4, <1>9, <3>1
  <2> QED BY <1>10, <2>1 DEF Ordered
<1>12. ASSUME NEW i \in 1 .. L
       PROVE  new[i].key \in DOMAIN all /\ all[new[i].key].freq = new[i].freq
  <2>1. new[i].key = index[i].key /\ new[i].freq = Decayed[index[i].freq]
    BY <1>9
  <2>2. index[i].key \in DOMAIN all /\ all[index[i].key].freq = Decayed[index[i].freq]
    <3>1. index[i].key \in DOMAIN all
      BY <1>3, <1>7
    <3>2. all[index[i].key] = [value |-> storage[index[i].key].value,
                               freq |-> Decayed[index[i].freq]]
      BY <1>8
    <3> QED BY <3>1, <3>2
  <2> QED BY <2>1, <2>2
<1>13. \A k \in DOMAIN all : \E i \in 1 .. L : new[i].key = k
  BY <1>3, <1>7, <1>9
<1>14. all \in [DOMAIN all -> Elements]
  <2>1. ASSUME NEW k \in DOMAIN all PROVE all[k] \in Elements
    <3>1. PICK i \in 1 .. L : index[i].key = k
      BY <1>3, <1>7
    <3>2. all[k] = [value |-> storage[k].value, freq |-> Decayed[index[i].freq]]
      BY <1>8, <3>1
    <3>3. storage[k].value \in Values /\ Decayed[index[i].freq] \in Frequencies
      BY <1>2, <1>3, <1>4, <1>7
    <3> QED BY <3>2, <3>3 DEF Elements
  <2>2. all = [k \in DOMAIN all |-> all[k]]
    BY DEF all
  <2> QED BY <2>1, <2>2
<1>15. Good(all, new)
  BY <1>3, <1>7, <1>10, <1>11, <1>12, <1>13, <1>14 DEF Good
<1>16. ASSUME NEW k \in DOMAIN storage PROVE all[k].value = storage[k].value
  <2>1. PICK i \in 1 .. L : index[i].key = k
    BY <1>3
  <2>2. all[k] = [value |-> storage[k].value, freq |-> Decayed[index[i].freq]]
    BY <1>8, <2>1
  <2> QED BY <2>2
<1> QED BY <1>1, <1>7, <1>15, <1>16

-----------------------------------------------------------------------------
(* The operations, each of which turns a good cache into a good cache.     *)

LEMMA BumpedGood ==
  ASSUME NEW storage, NEW index, Good(storage, index), NEW k \in DOMAIN storage,
         storage[k].freq < MaxFrequency
  PROVE  /\ Good(Bumped(Cache(storage, index), k).storage,
                 Bumped(Cache(storage, index), k).index)
         /\ DOMAIN Bumped(Cache(storage, index), k).storage = DOMAIN storage
         /\ \A j \in DOMAIN storage :
              Bumped(Cache(storage, index), k).storage[j].value = storage[j].value
<1> DEFINE f == storage[k].freq
           rest == [j \in (DOMAIN storage) \ {k} |-> storage[j]]
           e == [value |-> storage[k].value, freq |-> f + 1]
           all == [storage EXCEPT ![k].freq = f + 1]
<1>1. storage[k] \in Elements /\ k \in Keys
  BY DEF Good
<1>2. e \in Elements /\ e.freq = f + 1
  BY <1>1, CacheAssumption DEF Elements, Frequencies
<1>3. /\ EraseFound(index, f, k) = Erase(index, f, k)
      /\ Good(rest, Erase(index, f, k))
  BY EraseGood
<1>4. DOMAIN rest = (DOMAIN storage) \ {k}
  OBVIOUS
<1> HIDE DEF rest, f
<1>5. Good([j \in DOMAIN rest \cup {k} |-> IF j = k THEN e ELSE rest[j]],
           Emplace(Erase(index, f, k), e.freq, k))
  <2>1. k \in Keys \ DOMAIN rest
    BY <1>1, <1>4
  <2> HIDE DEF e
  <2> QED BY <1>2, <1>3, <2>1, EmplaceGood
<1>6. [j \in DOMAIN rest \cup {k} |-> IF j = k THEN e ELSE rest[j]] = all
  <2>1. storage = [j \in DOMAIN storage |-> storage[j]]
    BY DEF Good
  <2>2. DOMAIN rest \cup {k} = DOMAIN storage
    BY <1>4
  <2>3. all = [j \in DOMAIN storage |->
                 IF j = k THEN [storage[k] EXCEPT !.freq = f + 1] ELSE storage[j]]
    BY <2>1
  <2>4. [storage[k] EXCEPT !.freq = f + 1] = e
    BY <1>1 DEF Elements
  <2> QED BY <1>4, <2>2, <2>3, <2>4 DEF rest
<1>7. Bumped(Cache(storage, index), k)
        = [storage |-> all, index |-> Emplace(Erase(index, f, k), f + 1, k)]
  BY <1>3 DEF Bumped, Cache, f
<1>8. DOMAIN all = DOMAIN storage /\ \A j \in DOMAIN storage : all[j].value = storage[j].value
  BY <1>1 DEF Elements, Good
<1> QED BY <1>2, <1>5, <1>6, <1>7, <1>8

LEMMA UpdatedGood ==
  ASSUME NEW storage, NEW index, Good(storage, index), NEW k \in DOMAIN storage,
         NEW v \in Values, UpdateCounts => storage[k].freq < MaxFrequency
  PROVE  /\ Good(Updated(Cache(storage, index), k, v).storage,
                 Updated(Cache(storage, index), k, v).index)
         /\ DOMAIN Updated(Cache(storage, index), k, v).storage = DOMAIN storage
         /\ Updated(Cache(storage, index), k, v).storage[k].value = v
         /\ \A j \in DOMAIN storage \ {k} :
              Updated(Cache(storage, index), k, v).storage[j].value = storage[j].value
<1> DEFINE all == [storage EXCEPT ![k].value = v]
<1>1. \A j \in DOMAIN storage : storage[j] \in Elements
  BY DEF Good
<1>2. /\ DOMAIN all = DOMAIN storage /\ all[k].value = v
      /\ \A j \in DOMAIN storage \ {k} : all[j] = storage[j]
      /\ \A j \in DOMAIN storage : all[j].freq = storage[j].freq /\ all[j] \in Elements
      /\ all = [j \in DOMAIN storage |-> all[j]]
  BY <1>1 DEF Elements, Good
<1> HIDE DEF all
<1>3. all \in [DOMAIN all -> Elements]
  BY <1>2
<1>4. Good(all, index)
  BY <1>2, <1>3 DEF Good
<1>5. CASE UpdateCounts
  <2>1. Updated(Cache(storage, index), k, v) = Bumped(Cache(all, index), k)
    BY <1>5 DEF Updated, Cache, all
  <2>2. all[k].freq < MaxFrequency
    BY <1>2, <1>5
  <2> QED BY <1>2, <1>4, <2>1, <2>2, BumpedGood
<1>6. CASE ~UpdateCounts
  <2>1. Updated(Cache(storage, index), k, v) = Cache(all, index)
    BY <1>6 DEF Updated, Cache, all
  <2> QED BY <1>2, <1>4, <2>1 DEF Cache
<1> QED BY <1>5, <1>6

\* The first n entries are of n different keys, and all entries are of all keys.
LEMMA DistinctKeys ==
  ASSUME NEW storage, NEW index, Good(storage, index), NEW n \in 0 .. Len(index)
  PROVE  /\ Cardinality({index[i].key : i \in 1 .. n}) = n
         /\ Cardinality(DOMAIN storage) = Len(index)
<1>1. Len(index) \in Nat /\ Len(index) \in 0 .. Len(index)
  BY EntryFacts DEF Good
<1>2. ASSUME NEW m \in 0 .. Len(index)
      PROVE  Cardinality({index[i].key : i \in 1 .. m}) = m
  <2> DEFINE T == {index[i].key : i \in 1 .. m}
             f == [i \in 1 .. m |-> index[i].key]
  <2>1. f \in [1 .. m -> T]
    OBVIOUS
  <2>2. ASSUME NEW a \in 1 .. m, NEW b \in 1 .. m, f[a] = f[b] PROVE a = b
    <3>1. a \in 1 .. Len(index) /\ b \in 1 .. Len(index)
      BY <1>1
    <3>2. index[a].key = index[b].key
      BY <2>2
    <3>3. ~(a < b) /\ ~(b < a)
      BY <3>1, <3>2 DEF Good, Ordered
    <3> QED BY <1>1, <3>1, <3>3
  <2>3. \A t \in T : \E i \in 1 .. m : f[i] = t
    OBVIOUS
  <2>4. f \in Bijection(1 .. m, T)
    <3> HIDE DEF f, T
    <3> QED BY <2>1, <2>2, <2>3, Fun_IsBij
  <2>5. ExistsBijection(1 .. m, T)
    BY <2>4 DEF ExistsBijection
  <2>6. IsFiniteSet(1 .. m) /\ Cardinality(1 .. m) = m
    BY <1>1, Positions
  <2> QED BY <2>5, <2>6, FS_Bijection
<1>3. DOMAIN storage = {index[i].key : i \in 1 .. Len(index)}
  BY <1>1 DEF Good
<1> QED BY <1>1, <1>2, <1>3

\* A purge keeps the cache good and drops the elements asked for least; if it
\* is to drop any and there are any, it does.
LEMMA PurgedGood ==
  ASSUME NEW storage, NEW index, Good(storage, index), NEW count \in Nat
  PROVE  LET d == Purged(Cache(storage, index), count)
         IN  /\ Good(d.storage, d.index)
             /\ DOMAIN d.storage \subseteq DOMAIN storage
             /\ \A gone \in (DOMAIN storage) \ DOMAIN d.storage,
                   stays \in DOMAIN d.storage :
                  storage[gone].freq <= storage[stays].freq
             /\ count > 0 /\ DOMAIN storage # {} => DOMAIN d.storage # DOMAIN storage
             /\ Cardinality((DOMAIN storage) \ DOMAIN d.storage)
                  = Lesser(count, Cardinality(DOMAIN storage))
             /\ \A k \in DOMAIN d.storage : d.storage[k].value = storage[k].value
<1> DEFINE n == Lesser(count, Len(index))
           kept == (DOMAIN storage) \ {index[i].key : i \in 1 .. n}
           rest == [k \in kept |-> storage[k]]
           tail == SubSeq(index, n + 1, Len(index))
           d == Purged(Cache(storage, index), count)
<1>1. Len(index) \in Nat
  BY EntryFacts DEF Good
<1>2. n \in 0 .. Len(index)
  BY <1>1 DEF Lesser
<1>3. count > 0 /\ DOMAIN storage # {} => n > 0
  <2>1. DOMAIN storage # {} => 1 .. Len(index) # {}
    BY DEF Good
  <2> QED BY <1>1, <2>1 DEF Lesser
<1> HIDE DEF n
<1>4. /\ Good(rest, tail)
      /\ \A gone \in (DOMAIN storage) \ kept, stays \in kept :
           storage[gone].freq <= storage[stays].freq
      /\ n > 0 => kept # DOMAIN storage
  BY <1>2, DropGood
<1>5. /\ DOMAIN rest = kept /\ kept \subseteq DOMAIN storage
      /\ \A k \in kept : rest[k].value = storage[k].value
  OBVIOUS
<1>10. Cardinality((DOMAIN storage) \ kept) = Lesser(count, Cardinality(DOMAIN storage))
  <2>1. \A i \in 1 .. n : index[i].key \in DOMAIN storage
    BY <1>1, <1>2 DEF Good
  <2>2. (DOMAIN storage) \ kept = {index[i].key : i \in 1 .. n}
    BY <2>1
  <2>3. /\ Cardinality({index[i].key : i \in 1 .. n}) = n
        /\ Cardinality(DOMAIN storage) = Len(index)
    BY <1>2, DistinctKeys
  <2> QED BY <2>2, <2>3 DEF n
<1>6. d = IF AutomaticDecay THEN WithDecay(Cache(rest, tail)) ELSE Cache(rest, tail)
  BY DEF Purged, Cache, n
<1> HIDE DEF rest, tail, kept, d
<1>7. /\ Good(d.storage, d.index) /\ DOMAIN d.storage = kept
      /\ \A k \in kept : d.storage[k].value = storage[k].value
  <2>1. CASE AutomaticDecay
    BY <1>4, <1>5, <1>6, <2>1, DecayGood
  <2>2. CASE ~AutomaticDecay
    BY <1>4, <1>5, <1>6, <2>2 DEF Cache
  <2> QED BY <2>1, <2>2
<1> QED BY <1>3, <1>4, <1>5, <1>7, <1>10 DEF d

LEMMA InsertedGood ==
  ASSUME NEW c, Good(c.storage, c.index), NEW k \in Keys \ DOMAIN c.storage, NEW v \in Values
  PROVE  /\ Good(Inserted(c, k, v).storage, Inserted(c, k, v).index)
         /\ DOMAIN Inserted(c, k, v).storage = DOMAIN c.storage \cup {k}
         /\ Inserted(c, k, v).storage[k].value = v
         /\ \A j \in DOMAIN c.storage : Inserted(c, k, v).storage[j] = c.storage[j]
<1> DEFINE e == [value |-> v, freq |-> 0]
           all == [j \in DOMAIN c.storage \cup {k} |-> IF j = k THEN e ELSE c.storage[j]]
<1>1. e \in Elements /\ e.freq = 0 /\ e.value = v
  BY CacheAssumption DEF Elements, Frequencies
<1>2. Good(all, Emplace(c.index, e.freq, k))
  <2> HIDE DEF e
  <2> QED BY <1>1, EmplaceGood
<1>3. Inserted(c, k, v) = [storage |-> all, index |-> Emplace(c.index, 0, k)]
  BY DEF Inserted, Cache
<1>4. /\ DOMAIN all = DOMAIN c.storage \cup {k} /\ all[k] = e
      /\ \A j \in DOMAIN c.storage : all[j] = c.storage[j]
  OBVIOUS
<1> QED BY <1>1, <1>2, <1>3, <1>4

-----------------------------------------------------------------------------
(* The theorems.                                                           *)

IInv ==
  /\ Good(mapped_storage, mapped_frequencies)
  /\ SizeBound

\* Sizes: an absent key makes a cache larger by one, and a cache from which
\* something was dropped had at least one element more.
LEMMA SmallerBelow ==
  ASSUME NEW S \in SUBSET Keys, NEW T \in SUBSET S
  PROVE  /\ IsFiniteSet(T) /\ Cardinality(T) \in Nat /\ Cardinality(S) \in Nat
         /\ Cardinality(T) <= Cardinality(S)
         /\ T # S => Cardinality(T) < Cardinality(S)
<1>1. IsFiniteSet(S)
  BY CacheAssumption, FS_Subset
<1>2. /\ IsFiniteSet(T) /\ Cardinality(T) <= Cardinality(S)
      /\ Cardinality(T) = Cardinality(S) => T = S
  BY <1>1, FS_Subset
<1> QED BY <1>1, <1>2, FS_CardinalityType

\* add_element: the limit holds after it, the key is there with its element,
\* and a purge took the elements asked for least.
LEMMA AddStep ==
  ASSUME IInv, NEW k \in Keys, NEW v \in Values, AddElement(k, v)
  PROVE  /\ IInv'
         /\ k \in DOMAIN mapped_storage' /\ mapped_storage'[k].value = v
         /\ \A gone \in (DOMAIN mapped_storage) \ DOMAIN mapped_storage',
               kept \in (DOMAIN mapped_storage) \cap DOMAIN mapped_storage' :
              mapped_storage[gone].freq <= mapped_storage[kept].freq
<1> DEFINE S == DOMAIN mapped_storage
<1>1. Current = Cache(mapped_storage, mapped_frequencies) /\ S \subseteq Keys
      /\ Good(mapped_storage, mapped_frequencies) /\ Cardinality(S) <= PurgeLimit
  BY DEF Current, IInv, Good, SizeBound
<1>2. CASE Present(k)
  <2> DEFINE c == Updated(Current, k, v)
  <2>1. mapped_storage' = c.storage /\ mapped_frequencies' = c.index
        /\ (UpdateCounts => MayCount(k))
    BY <1>2 DEF AddElement, Become
  <2>2. k \in S /\ (UpdateCounts => mapped_storage[k].freq < MaxFrequency)
    BY <1>2, <2>1 DEF Present, MayCount
  <2>3. Good(c.storage, c.index) /\ DOMAIN c.storage = S /\ c.storage[k].value = v
    BY <1>1, <2>2, UpdatedGood
  <2> HIDE DEF c
  <2> QED BY <1>1, <2>1, <2>2, <2>3 DEF IInv, SizeBound
<1>3. CASE ~Present(k)
  <2> DEFINE full == Cardinality(S) >= PurgeLimit
             c == IF full THEN Purged(Current, PurgeCount) ELSE Current
             d == Inserted(c, k, v)
  <2>1. mapped_storage' = d.storage /\ mapped_frequencies' = d.index /\ k \notin S
    BY <1>3 DEF AddElement, Become, Present
  <2>2. /\ Good(c.storage, c.index) /\ DOMAIN c.storage \subseteq S
        /\ \A gone \in S \ DOMAIN c.storage, kept \in DOMAIN c.storage :
             mapped_storage[gone].freq <= mapped_storage[kept].freq
        /\ full => DOMAIN c.storage # S
    <3>1. CASE full
      <4>1. PurgeCount \in Nat /\ PurgeCount > 0
        BY CacheAssumption
      <4>2. S # {}
        <5>1. Cardinality({}) = 0
          BY FS_EmptySet
        <5> QED BY <3>1, <5>1, CacheAssumption
      <4> DEFINE p == Purged(Cache(mapped_storage, mapped_frequencies), PurgeCount)
      <4>3. c = p
        BY <1>1, <3>1
      <4>4. /\ Good(p.storage, p.index) /\ DOMAIN p.storage \subseteq DOMAIN mapped_storage
            /\ \A gone \in (DOMAIN mapped_storage) \ DOMAIN p.storage, kept \in DOMAIN p.storage :
                 mapped_storage[gone].freq <= mapped_storage[kept].freq
            /\ PurgeCount > 0 /\ DOMAIN mapped_storage # {} =>
                 DOMAIN p.storage # DOMAIN mapped_storage
        BY <1>1, <4>1, PurgedGood
      <4> HIDE DEF full, c, p
      <4> QED BY <4>1, <4>2, <4>3, <4>4
    <3>2. CASE ~full
      BY <1>1, <3>2 DEF Cache
    <3> QED BY <3>1, <3>2
  <2>3. Cardinality(DOMAIN c.storage) \in Nat /\ Cardinality(DOMAIN c.storage) < PurgeLimit
        /\ IsFiniteSet(DOMAIN c.storage)
    <3> HIDE DEF c
    <3>1. /\ IsFiniteSet(DOMAIN c.storage)
          /\ Cardinality(DOMAIN c.storage) \in Nat /\ Cardinality(S) \in Nat
          /\ Cardinality(DOMAIN c.storage) <= Cardinality(S)
          /\ DOMAIN c.storage # S => Cardinality(DOMAIN c.storage) < Cardinality(S)
      BY <1>1, <2>2, SmallerBelow
    <3> QED BY <1>1, <2>2, <3>1, CacheAssumption
  <2> HIDE DEF c
  <2>4. /\ Good(d.storage, d.index) /\ DOMAIN d.storage = DOMAIN c.storage \cup {k}
        /\ d.storage[k].value = v
    BY <2>1, <2>2, InsertedGood
  <2> HIDE DEF d
  <2>5. Cardinality(DOMAIN d.storage) <= PurgeLimit
    <3>1. Cardinality(DOMAIN c.storage \cup {k})
            = IF k \in DOMAIN c.storage THEN Cardinality(DOMAIN c.storage)
                                        ELSE Cardinality(DOMAIN c.storage) + 1
      BY <2>3, FS_AddElement
    <3> QED BY <2>3, <2>4, <3>1, CacheAssumption
  <2> QED BY <2>1, <2>2, <2>4, <2>5 DEF IInv, SizeBound
<1> QED BY <1>2, <1>3

LEMMA EmptyGood ==
  ASSUME NEW storage, storage = [k \in {} |-> Null], NEW index, index = <<>>
  PROVE  Good(storage, index) /\ Cardinality(DOMAIN storage) <= PurgeLimit
<1>1. DOMAIN storage = {} /\ Cardinality(DOMAIN storage) = 0
  BY FS_EmptySet
<1>2. index \in Seq(Entries) /\ Len(index) = 0
  OBVIOUS
<1>3. storage \in [DOMAIN storage -> Elements]
  BY <1>1
<1> QED BY <1>1, <1>2, <1>3, CacheAssumption DEF Good, Ordered

LEMMA StepGood == IInv /\ [Next]_vars => IInv'
<1> SUFFICES ASSUME IInv, [Next]_vars PROVE IInv'
  OBVIOUS
<1> USE DEF IInv
<1>1. /\ Current = Cache(mapped_storage, mapped_frequencies)
      /\ DOMAIN mapped_storage \subseteq Keys
      /\ Good(mapped_storage, mapped_frequencies)
      /\ Cardinality(DOMAIN mapped_storage) <= PurgeLimit
  BY DEF Current, Good, SizeBound
<1>2. ASSUME DOMAIN mapped_storage' \subseteq DOMAIN mapped_storage PROVE SizeBound'
  BY <1>1, <1>2, SmallerBelow, CacheAssumption DEF SizeBound
<1>3. CASE \E k \in Keys, v \in Values : AddElement(k, v)
  BY <1>3, AddStep
<1>4. ASSUME NEW k \in Keys, NEW v \in Values, UpdateElement(k, v) PROVE IInv'
  <2>1. k \in DOMAIN mapped_storage /\ (UpdateCounts => mapped_storage[k].freq < MaxFrequency)
    BY <1>4 DEF UpdateElement, Present, MayCount
  <2>2. /\ mapped_storage' = Updated(Current, k, v).storage
        /\ mapped_frequencies' = Updated(Current, k, v).index
    BY <1>4 DEF UpdateElement, Become
  <2> QED BY <1>1, <1>2, <2>1, <2>2, UpdatedGood
<1>5. ASSUME NEW k \in Keys, GetElement(k) PROVE IInv'
  <2>1. k \in DOMAIN mapped_storage /\ mapped_storage[k].freq < MaxFrequency
    BY <1>5 DEF GetElement, Present, MayCount
  <2>2. /\ mapped_storage' = Bumped(Current, k).storage
        /\ mapped_frequencies' = Bumped(Current, k).index
    BY <1>5 DEF GetElement, Become
  <2> QED BY <1>1, <1>2, <2>1, <2>2, BumpedGood
<1>6. ASSUME NEW k \in Keys, RemoveElement(k) PROVE IInv'
  <2>1. k \in DOMAIN mapped_storage
    BY <1>6 DEF RemoveElement, Present
  <2>2. /\ mapped_storage' = [j \in (DOMAIN mapped_storage) \ {k} |-> mapped_storage[j]]
        /\ mapped_frequencies' = Erase(mapped_frequencies, mapped_storage[k].freq, k)
    BY <1>6 DEF RemoveElement, Become, Cache
  <2>3. Good(mapped_storage', mapped_frequencies')
    BY <1>1, <2>1, <2>2, EraseGood
  <2>4. DOMAIN mapped_storage' \subseteq DOMAIN mapped_storage
    BY <2>2
  <2> QED BY <1>2, <2>3, <2>4
<1>7. ASSUME NEW count \in 0 .. PurgeLimit, RemoveLeastRetrieved(count) PROVE IInv'
  <2>1. /\ mapped_storage' = Purged(Current, count).storage
        /\ mapped_frequencies' = Purged(Current, count).index
    BY <1>7 DEF RemoveLeastRetrieved, Become
  <2>2. count \in Nat
    BY CacheAssumption
  <2> QED BY <1>1, <1>2, <2>1, <2>2, PurgedGood
<1>8. CASE ApplyFrequencyDecay
  <2>1. /\ mapped_storage' = WithDecay(Current).storage
        /\ mapped_frequencies' = WithDecay(Current).index
    BY <1>8 DEF ApplyFrequencyDecay, Become
  <2> QED BY <1>1, <1>2, <2>1, DecayGood
<1>9. CASE Clear
  <2>1. mapped_storage' = [k \in {} |-> Null] /\ mapped_frequencies' = <<>>
    BY <1>9 DEF Clear
  <2> QED BY <2>1, EmptyGood DEF SizeBound
<1>10. CASE UNCHANGED vars
  BY <1>1, <1>10 DEF vars, SizeBound
<1> HIDE DEF IInv
<1> QED BY <1>3, <1>4, <1>5, <1>6, <1>7, <1>8, <1>9, <1>10 DEF Next

THEOREM InductiveInvariant == Spec => []IInv
<1>1. Init => IInv
  BY EmptyGood DEF Init, IInv, SizeBound
<1> QED BY <1>1, StepGood, PTL DEF Spec

\* Every container holds what it is declared to hold, and no element is empty.
THEOREM TypeCorrect == Spec => []TypeOK
<1>1. IInv => TypeOK
  BY DEF IInv, Good, TypeOK, Entries, Elements
<1> QED BY <1>1, InductiveInvariant, PTL

\* The two containers agree after every operation, for both classes.
THEOREM ContainersAgree == Spec => []IndexMatches
<1>1. IInv => IndexMatches
  <2> SUFFICES ASSUME IInv PROVE IndexMatches
    OBVIOUS
  <2>1. DOMAIN mapped_frequencies = 1 .. Len(mapped_frequencies)
    BY DEF IInv, Good
  <2> QED BY <2>1 DEF IInv, Good, Ordered, IndexMatches
<1> QED BY <1>1, InductiveInvariant, PTL

\* No sequence of operations makes a cache larger than its limit.
THEOREM LimitHolds == Spec => []SizeBound
<1>1. IInv => SizeBound
  BY DEF IInv
<1> QED BY <1>1, InductiveInvariant, PTL

\* A full cache makes room with the elements asked for least.
THEOREM LeastWantedGo == Spec => EvictsLeast
<1>1. IInv /\ [Next]_vars =>
        [(\E k \in Keys, v \in Values : AddElement(k, v)) =>
           \A gone \in (DOMAIN mapped_storage) \ DOMAIN mapped_storage',
              kept \in (DOMAIN mapped_storage) \cap DOMAIN mapped_storage' :
             mapped_storage[gone].freq <= mapped_storage[kept].freq]_vars
  BY AddStep
<1> QED BY <1>1, InductiveInvariant, PTL DEF Spec, EvictsLeast

\* What was added is there, whatever had to go for it.
THEOREM NewcomerStays == Spec => AddedIsPresent
<1>1. IInv /\ [Next]_vars =>
        [\A k \in Keys, v \in Values :
           AddElement(k, v) =>
             k \in DOMAIN mapped_storage' /\ mapped_storage'[k].value = v]_vars
  BY AddStep
<1> QED BY <1>1, InductiveInvariant, PTL DEF Spec, AddedIsPresent

-----------------------------------------------------------------------------
(* The cache is a BoundedCache.                                            *)

\* What the two modules call alike.
LEMMA ShownElements ==
  ASSUME NEW storage
  PROVE  /\ DOMAIN ElementsOf(storage) = DOMAIN storage
         /\ \A k \in DOMAIN storage : ElementsOf(storage)[k] = storage[k].value
         /\ \A a, b : Abstract!Smaller(a, b) = Lesser(a, b)
         /\ \A T : Abstract!Cardinality(T) = Cardinality(T)
<1>1. \A T : Abstract!Cardinality(T) = Cardinality(T)
  BY DEF Abstract!Cardinality, Cardinality
<1>2. \A a, b : Abstract!Smaller(a, b) = Lesser(a, b)
  BY DEF Abstract!Smaller, Lesser
<1> QED BY <1>1, <1>2 DEF ElementsOf

\* An element that is replaced.
LEMMA ShownUpdate ==
  ASSUME NEW storage, NEW k \in DOMAIN storage, NEW v,
         NEW after, DOMAIN after = DOMAIN storage, after[k].value = v,
         \A j \in DOMAIN storage \ {k} : after[j].value = storage[j].value
  PROVE  ElementsOf(after) = [ElementsOf(storage) EXCEPT ![k] = v]
BY DEF ElementsOf

\* add_element replaces the element, or drops as many as it has to and adds it.
LEMMA AddImplements ==
  ASSUME IInv, NEW k \in Keys, NEW v \in Values, AddElement(k, v)
  PROVE  Abstract!Add(k, v)
<1> DEFINE S == DOMAIN mapped_storage
           shown == ElementsOf(mapped_storage)
<1>1. Current = Cache(mapped_storage, mapped_frequencies) /\ S \subseteq Keys
      /\ Good(mapped_storage, mapped_frequencies)
  BY DEF Current, IInv, Good
<1>2. DOMAIN shown = S /\ \A j \in S : shown[j] = mapped_storage[j].value
  BY ShownElements
<1>3. CASE Present(k)
  <2> DEFINE c == Updated(Current, k, v)
  <2>1. mapped_storage' = c.storage /\ (UpdateCounts => MayCount(k))
    BY <1>3 DEF AddElement, Become
  <2>2. k \in S /\ (UpdateCounts => mapped_storage[k].freq < MaxFrequency)
    BY <1>3, <2>1 DEF Present, MayCount
  <2>3. /\ DOMAIN c.storage = S /\ c.storage[k].value = v
        /\ \A j \in S \ {k} : c.storage[j].value = mapped_storage[j].value
    BY <1>1, <2>2, UpdatedGood
  <2> HIDE DEF c
  <2>4. ElementsOf(mapped_storage') = [shown EXCEPT ![k] = v]
    BY <2>1, <2>2, <2>3, ShownUpdate
  <2>5. Abstract!Replace(k, v)
    BY <1>2, <2>2, <2>4 DEF Abstract!Replace
  <2> QED BY <2>5 DEF Abstract!Add
<1>4. CASE ~Present(k)
  <2> DEFINE full == Cardinality(S) >= PurgeLimit
             c == IF full THEN Purged(Current, PurgeCount) ELSE Current
             d == Inserted(c, k, v)
             lost == S \ DOMAIN c.storage
             count == IF full THEN PurgeCount ELSE 0
  <2>1. mapped_storage' = d.storage /\ k \notin S
    BY <1>4 DEF AddElement, Become, Present
  <2>2. /\ Good(c.storage, c.index) /\ DOMAIN c.storage \subseteq S
        /\ Cardinality(lost) = Lesser(count, Cardinality(S))
        /\ \A j \in DOMAIN c.storage : c.storage[j].value = mapped_storage[j].value
    <3>1. CASE full
      <4> DEFINE p == Purged(Cache(mapped_storage, mapped_frequencies), PurgeCount)
      <4>1. PurgeCount \in Nat
        BY CacheAssumption
      <4>2. c = p
        BY <1>1, <3>1
      <4>3. /\ Good(p.storage, p.index) /\ DOMAIN p.storage \subseteq DOMAIN mapped_storage
            /\ Cardinality((DOMAIN mapped_storage) \ DOMAIN p.storage)
                 = Lesser(PurgeCount, Cardinality(DOMAIN mapped_storage))
            /\ \A j \in DOMAIN p.storage : p.storage[j].value = mapped_storage[j].value
        BY <1>1, <4>1, PurgedGood
      <4>4. count = PurgeCount
        BY <3>1
      <4> HIDE DEF full, c, p, count
      <4> QED BY <4>2, <4>3, <4>4
    <3>2. CASE ~full
      <4>1. c = Cache(mapped_storage, mapped_frequencies) /\ count = 0
        BY <1>1, <3>2
      <4>2. lost = {} /\ Cardinality(lost) = 0
        BY <4>1, FS_EmptySet DEF Cache
      <4>3. Cardinality(S) \in Nat
        BY <1>1, SmallerBelow
      <4> HIDE DEF c, count
      <4> QED BY <1>1, <4>1, <4>2, <4>3 DEF Cache, Lesser
    <3> QED BY <3>1, <3>2
  <2> HIDE DEF c
  <2>3. /\ DOMAIN d.storage = DOMAIN c.storage \cup {k} /\ d.storage[k].value = v
        /\ \A j \in DOMAIN c.storage : d.storage[j] = c.storage[j]
    BY <2>1, <2>2, InsertedGood
  <2> HIDE DEF d
  <2>4. lost \in Abstract!Victims(count)
    BY <1>2, <2>2, ShownElements DEF Abstract!Victims
  <2>5. DOMAIN Abstract!Without(lost) = DOMAIN c.storage
    BY <1>2, <2>2 DEF Abstract!Without
  <2>6. ElementsOf(mapped_storage')
          = [j \in DOMAIN Abstract!Without(lost) \cup {k} |-> IF j = k THEN v ELSE shown[j]]
    BY <1>2, <2>1, <2>2, <2>3, <2>5 DEF ElementsOf
  <2> HIDE DEF lost
  <2>7. Abstract!Insert(k, v)
    BY <1>2, <2>1, <2>4, <2>6, ShownElements DEF Abstract!Insert
  <2> QED BY <2>7 DEF Abstract!Add
<1> QED BY <1>3, <1>4

\* Every step of the cache is a step of the bounded map, or does not show.
LEMMA StepImplements ==
  IInv /\ [Next]_vars => [Abstract!Next]_(ElementsOf(mapped_storage))
<1> SUFFICES ASSUME IInv, [Next]_vars
             PROVE  [Abstract!Next]_(ElementsOf(mapped_storage))
  OBVIOUS
<1> DEFINE S == DOMAIN mapped_storage
           shown == ElementsOf(mapped_storage)
<1>1. Current = Cache(mapped_storage, mapped_frequencies) /\ S \subseteq Keys
      /\ Good(mapped_storage, mapped_frequencies)
  BY DEF Current, IInv, Good
<1>2. DOMAIN shown = S /\ \A j \in S : shown[j] = mapped_storage[j].value
  BY ShownElements
<1>3. ASSUME DOMAIN mapped_storage' = S,
             \A j \in S : mapped_storage'[j].value = mapped_storage[j].value
      PROVE  ElementsOf(mapped_storage') = shown
  BY <1>3 DEF ElementsOf
<1>4. ASSUME NEW k \in Keys, NEW v \in Values, AddElement(k, v) PROVE Abstract!Next
  BY <1>4, AddImplements DEF Abstract!Next
<1>5. ASSUME NEW k \in Keys, NEW v \in Values, UpdateElement(k, v) PROVE Abstract!Next
  <2> DEFINE c == Updated(Current, k, v)
  <2>1. mapped_storage' = c.storage /\ k \in S
        /\ (UpdateCounts => mapped_storage[k].freq < MaxFrequency)
    BY <1>5 DEF UpdateElement, Become, Present, MayCount
  <2>2. /\ DOMAIN c.storage = S /\ c.storage[k].value = v
        /\ \A j \in S \ {k} : c.storage[j].value = mapped_storage[j].value
    BY <1>1, <2>1, UpdatedGood
  <2> HIDE DEF c
  <2>3. ElementsOf(mapped_storage') = [shown EXCEPT ![k] = v]
    BY <2>1, <2>2, ShownUpdate
  <2>4. Abstract!Replace(k, v)
    BY <1>2, <2>1, <2>3 DEF Abstract!Replace
  <2> QED BY <2>4 DEF Abstract!Add, Abstract!Next
<1>6. ASSUME NEW k \in Keys, GetElement(k) PROVE ElementsOf(mapped_storage') = shown
  <2>1. mapped_storage' = Bumped(Current, k).storage /\ k \in S
        /\ mapped_storage[k].freq < MaxFrequency
    BY <1>6 DEF GetElement, Become, Present, MayCount
  <2> QED BY <1>1, <1>3, <2>1, BumpedGood
<1>7. ASSUME NEW k \in Keys, RemoveElement(k) PROVE Abstract!Next
  <2>1. k \in S /\ mapped_storage' = [j \in S \ {k} |-> mapped_storage[j]]
    BY <1>7 DEF RemoveElement, Become, Cache, Present
  <2>2. ElementsOf(mapped_storage') = Abstract!Without({k})
    BY <1>2, <2>1 DEF ElementsOf, Abstract!Without
  <2>3. Abstract!Remove(k)
    BY <1>2, <2>1, <2>2 DEF Abstract!Remove
  <2> QED BY <2>3 DEF Abstract!Next
<1>8. ASSUME NEW count \in 0 .. PurgeLimit, RemoveLeastRetrieved(count) PROVE Abstract!Next
  <2> DEFINE p == Purged(Current, count)
             lost == S \ DOMAIN p.storage
  <2>1. mapped_storage' = p.storage /\ count \in Nat
    BY <1>8, CacheAssumption DEF RemoveLeastRetrieved, Become
  <2>2. /\ DOMAIN p.storage \subseteq S
        /\ Cardinality(lost) = Lesser(count, Cardinality(S))
        /\ \A j \in DOMAIN p.storage : p.storage[j].value = mapped_storage[j].value
    BY <1>1, <2>1, PurgedGood
  <2> HIDE DEF p
  <2>3. lost \in Abstract!Victims(count)
    BY <1>2, <2>2, ShownElements DEF Abstract!Victims
  <2>4. ElementsOf(mapped_storage') = Abstract!Without(lost)
    BY <1>2, <2>1, <2>2 DEF ElementsOf, Abstract!Without
  <2> HIDE DEF lost
  <2>5. Abstract!Purge(count)
    BY <2>3, <2>4 DEF Abstract!Purge
  <2> QED BY <2>5 DEF Abstract!Next
<1>9. CASE ApplyFrequencyDecay
  <2>1. mapped_storage' = WithDecay(Current).storage
    BY <1>9 DEF ApplyFrequencyDecay, Become
  <2> QED BY <1>1, <1>3, <2>1, DecayGood
<1>10. CASE Clear
  <2>1. mapped_storage' = [j \in {} |-> Null]
    BY <1>10 DEF Clear
  <2>2. ElementsOf(mapped_storage') = Abstract!Without(DOMAIN shown)
    BY <2>1 DEF ElementsOf, Abstract!Without
  <2>3. Abstract!Clear
    BY <2>2 DEF Abstract!Clear
  <2> QED BY <2>3 DEF Abstract!Next
<1>11. CASE UNCHANGED vars
  BY <1>11 DEF vars
<1> QED BY <1>4, <1>5, <1>6, <1>7, <1>8, <1>9, <1>10, <1>11 DEF Next

\* The cache implements the bounded map that EntityCaches takes it for.
THEOREM IsBoundedCache == Spec => ImplementsBoundedCache
<1>1. Init => Abstract!Init
  BY DEF Init, Abstract!Init, ElementsOf
<1> QED BY <1>1, StepImplements, InductiveInvariant, PTL
      DEF Spec, ImplementsBoundedCache, Abstract!Spec
=============================================================================
