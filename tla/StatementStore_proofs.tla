----------------------- MODULE StatementStore_proofs -----------------------
(***************************************************************************)
(* Proofs about StatementStore, for every set of owners and every length   *)
(* of their texts.  The invariant is inductive once its parts are taken    *)
(* together: a key is fresh because the keys partition an initial segment  *)
(* of the numbers, the keys still partition one because a fresh key is     *)
(* added or a key that was in use is freed, and an owner finds its own     *)
(* entry because nobody else is given its key.                             *)
(***************************************************************************)
EXTENDS StatementStore, FiniteSetTheorems, TLAPS

\* The elements of a sequence of numbers after Append and before Tail.
LEMMA ElementsAppend ==
  ASSUME NEW s \in Seq(Nat), NEW k \in Nat
  PROVE  Elements(Append(s, k)) = Elements(s) \cup {k}
<1>1. /\ Len(Append(s, k)) = Len(s) + 1
      /\ DOMAIN Append(s, k) = 1 .. Len(s) + 1
      /\ Append(s, k)[Len(s) + 1] = k
      /\ \A i \in 1 .. Len(s) : Append(s, k)[i] = s[i]
  OBVIOUS
<1>2. DOMAIN s = 1 .. Len(s) /\ Len(s) \in Nat
  OBVIOUS
<1>3. ASSUME NEW x \in Elements(Append(s, k)) PROVE x \in Elements(s) \cup {k}
  <2>1. PICK i \in 1 .. Len(s) + 1 : x = Append(s, k)[i]
    BY <1>1, <1>3 DEF Elements
  <2>2. CASE i = Len(s) + 1
    BY <1>1, <2>1, <2>2
  <2>3. CASE i \in 1 .. Len(s)
    BY <1>1, <1>2, <2>1, <2>3 DEF Elements
  <2> QED BY <1>2, <2>2, <2>3
<1>4. k \in Elements(Append(s, k))
  BY <1>1, <1>2 DEF Elements
<1>5. ASSUME NEW x \in Elements(s) PROVE x \in Elements(Append(s, k))
  <2>1. PICK i \in 1 .. Len(s) : x = s[i]
    BY <1>2, <1>5 DEF Elements
  <2>2. i \in 1 .. Len(s) + 1 /\ x = Append(s, k)[i]
    BY <1>1, <1>2, <2>1
  <2> QED BY <1>1, <2>2 DEF Elements
<1> QED BY <1>3, <1>4, <1>5

LEMMA ElementsTail ==
  ASSUME NEW s \in Seq(Nat), s # <<>>, Injective(s)
  PROVE  /\ Head(s) \in Nat /\ Tail(s) \in Seq(Nat)
         /\ Elements(s) = Elements(Tail(s)) \cup {Head(s)}
         /\ Head(s) \notin Elements(Tail(s))
         /\ Injective(Tail(s))
<1>1. /\ DOMAIN s = 1 .. Len(s) /\ Len(s) \in Nat /\ Len(s) > 0
      /\ Head(s) = s[1] /\ Head(s) \in Nat
      /\ Tail(s) \in Seq(Nat) /\ Len(Tail(s)) = Len(s) - 1
      /\ DOMAIN Tail(s) = 1 .. Len(s) - 1
      /\ \A i \in 1 .. Len(s) - 1 : Tail(s)[i] = s[i + 1]
  OBVIOUS
<1>2. ASSUME NEW x \in Elements(s) PROVE x \in Elements(Tail(s)) \cup {Head(s)}
  <2>1. PICK i \in 1 .. Len(s) : x = s[i]
    BY <1>1, <1>2 DEF Elements
  <2>2. CASE i = 1
    BY <1>1, <2>1, <2>2
  <2>3. CASE i > 1
    <3>1. i - 1 \in 1 .. Len(s) - 1 /\ x = Tail(s)[i - 1]
      BY <1>1, <2>1, <2>3
    <3> QED BY <1>1, <3>1 DEF Elements
  <2> QED BY <1>1, <2>2, <2>3
<1>3. Head(s) \in Elements(s)
  BY <1>1 DEF Elements
<1>4. ASSUME NEW x \in Elements(Tail(s)) PROVE x \in Elements(s) /\ x # Head(s)
  <2>1. PICK i \in 1 .. Len(s) - 1 : x = s[i + 1]
    BY <1>1, <1>4 DEF Elements
  <2>2. x \in Elements(s)
    BY <1>1, <2>1 DEF Elements
  <2>3. s[i + 1] # s[1]
    BY <1>1, <2>1 DEF Injective
  <2> QED BY <1>1, <2>1, <2>2, <2>3
<1>5. Injective(Tail(s))
  BY <1>1 DEF Injective
<1> QED BY <1>1, <1>2, <1>3, <1>4, <1>5

LEMMA AppendFresh ==
  ASSUME NEW s \in Seq(Nat), NEW k \in Nat, k \notin Elements(s), Injective(s)
  PROVE  Injective(Append(s, k))
<1>1. /\ DOMAIN Append(s, k) = 1 .. Len(s) + 1 /\ DOMAIN s = 1 .. Len(s) /\ Len(s) \in Nat
      /\ Append(s, k)[Len(s) + 1] = k
      /\ \A i \in 1 .. Len(s) : Append(s, k)[i] = s[i]
  OBVIOUS
<1>2. \A i \in 1 .. Len(s) : Append(s, k)[i] # k
  BY <1>1 DEF Elements
<1>3. ASSUME NEW i \in 1 .. Len(s) + 1, NEW j \in 1 .. Len(s) + 1,
             Append(s, k)[i] = Append(s, k)[j]
      PROVE  i = j
  <2>1. CASE i \in 1 .. Len(s) /\ j \in 1 .. Len(s)
    BY <1>1, <1>3, <2>1 DEF Injective
  <2>2. CASE i = Len(s) + 1 \/ j = Len(s) + 1
    <3>1. ~ (i \in 1 .. Len(s)) /\ ~ (j \in 1 .. Len(s))
      BY <1>1, <1>2, <1>3, <2>2
    <3> QED BY <1>1, <3>1
  <2> QED BY <1>1, <2>1, <2>2
<1> QED BY <1>1, <1>3 DEF Injective

-----------------------------------------------------------------------------
IInv == TypeOK /\ KeysPartition /\ OwnerIsolation /\ NoOrphan

\* The remark in save_statement about get_available_key: the invariant makes
\* the key it returns fresh, and adding the key keeps the keys in use and the
\* freed keys an initial segment of the numbers.
LEMMA AvailableKeyIsFresh ==
  ASSUME TypeOK, KeysPartition
  PROVE  /\ AvailableKey \in Nat /\ AvailableKey \notin DOMAIN saved
         /\ AvailableKey \notin Elements(RemovedAfter)
         /\ RemovedAfter \in Seq(Nat) /\ MintedAfter \in Nat
         /\ (DOMAIN saved) \cup {AvailableKey} \cup Elements(RemovedAfter)
              = 0 .. MintedAfter - 1
         /\ (DOMAIN saved) \cap Elements(RemovedAfter) = {}
         /\ Injective(RemovedAfter)
<1>1. CASE removed # <<>>
  <2>1. /\ Head(removed) \in Nat /\ Tail(removed) \in Seq(Nat)
        /\ Elements(removed) = Elements(Tail(removed)) \cup {Head(removed)}
        /\ Head(removed) \notin Elements(Tail(removed))
        /\ Injective(Tail(removed))
    BY <1>1, ElementsTail DEF TypeOK, KeysPartition
  <2>2. /\ AvailableKey = Head(removed) /\ RemovedAfter = Tail(removed)
        /\ MintedAfter = minted
    BY <1>1 DEF AvailableKey, RemovedAfter, MintedAfter
  <2> QED BY <2>1, <2>2 DEF TypeOK, KeysPartition
<1>2. CASE removed = <<>>
  <2>1. Elements(removed) = {}
    BY <1>2 DEF Elements
  <2>2. DOMAIN saved = 0 .. minted - 1 /\ minted \in Nat
    BY <2>1 DEF KeysPartition, TypeOK
  <2>3. Cardinality(0 .. minted - 1) = minted
    BY <2>2, FS_Interval
  <2>4. AvailableKey = minted /\ RemovedAfter = <<>> /\ MintedAfter = minted + 1
    BY <1>2, <2>2, <2>3 DEF AvailableKey, RemovedAfter, MintedAfter
  <2>5. Elements(RemovedAfter) = {} /\ Injective(RemovedAfter) /\ RemovedAfter \in Seq(Nat)
    BY <2>4 DEF Elements, Injective
  <2>6. (0 .. minted - 1) \cup {minted} = 0 .. (minted + 1) - 1
    BY <2>2
  <2> QED BY <2>2, <2>4, <2>5, <2>6
<1> QED BY <1>1, <1>2

LEMMA InitIInv == Init => IInv
<1> SUFFICES ASSUME Init PROVE IInv
  OBVIOUS
<1>1. DOMAIN saved = {} /\ Elements(removed) = {} /\ Injective(removed)
  BY DEF Init, Elements, Injective
<1>2. TypeOK
  <2>1. saved \in [DOMAIN saved -> Owners]
    BY <1>1 DEF Init
  <2>2. id \in [Owners -> Nat] /\ removed \in Seq(Nat)
    BY DEF Init
  <2> QED BY <1>1, <2>1, <2>2 DEF Init, TypeOK
<1>3. KeysPartition
  <2>1. 0 .. minted - 1 = {}
    BY DEF Init
  <2> QED BY <1>1, <2>1 DEF KeysPartition
<1>4. OwnerIsolation /\ NoOrphan
  BY <1>1 DEF Init, OwnerIsolation, NoOrphan
<1> QED BY <1>2, <1>3, <1>4 DEF IInv

\* The type invariant: its preservation needs only that the key is a number.
LEMMA TypeOKStep == IInv /\ [Next]_vars => TypeOK'
<1> SUFFICES ASSUME IInv, [Next]_vars PROVE TypeOK'
  OBVIOUS
<1> USE DEF IInv
<1>1. CASE OpenConnection
  BY <1>1 DEF OpenConnection, TypeOK
<1>2. CASE CloseConnection
  <2>1. saved' = <<>> /\ DOMAIN saved' = {} /\ removed' \in Seq(Nat)
    BY <1>2 DEF CloseConnection
  <2>2. saved' \in [DOMAIN saved' -> Owners]
    BY <2>1
  <2> QED BY <1>2, <2>1, <2>2 DEF CloseConnection, TypeOK
<1>3. ASSUME NEW o \in Owners, Save(o) PROVE TypeOK'
  <2>1. AvailableKey \in Nat /\ RemovedAfter \in Seq(Nat) /\ MintedAfter \in Nat
    BY AvailableKeyIsFresh
  <2>2. /\ DOMAIN saved' = (DOMAIN saved) \cup {AvailableKey}
        /\ saved' \in [DOMAIN saved' -> Owners]
    BY <1>3, <2>1 DEF Save, WithKey, TypeOK
  <2> QED BY <1>3, <2>1, <2>2 DEF Save, TypeOK
<1>4. ASSUME NEW o \in Owners, SaveInPart(o) PROVE TypeOK'
  <2>1. AvailableKey \in Nat /\ RemovedAfter \in Seq(Nat) /\ MintedAfter \in Nat
    BY AvailableKeyIsFresh
  <2>2. removed' \in Seq(Nat)
    BY <1>4, <2>1 DEF SaveInPart
  <2> QED BY <1>4, <2>1, <2>2 DEF SaveInPart, TypeOK
<1>5. ASSUME NEW o \in Owners, Delete(o) PROVE TypeOK'
  <2>1. removed' \in Seq(Nat)
    BY <1>5 DEF Delete, TypeOK
  <2>2. DOMAIN saved' = (DOMAIN saved) \ {id[o]} /\ saved' \in [DOMAIN saved' -> Owners]
    BY <1>5 DEF Delete, Without, TypeOK
  <2> QED BY <1>5, <2>1, <2>2 DEF Delete, TypeOK
<1>6. ASSUME NEW O \in SUBSET Owners, Reconstruct(O) PROVE TypeOK'
  BY <1>6 DEF Reconstruct, TypeOK
<1>7. CASE UNCHANGED vars
  BY <1>7 DEF vars, TypeOK
<1> QED BY <1>1, <1>2, <1>3, <1>4, <1>5, <1>6, <1>7 DEF Next

\* The keys: a save adds the fresh key to those in use or, when it fails half
\* way, to the freed ones; a deletion moves a key from the first to the second.
LEMMA KeysPartitionStep == IInv /\ [Next]_vars => KeysPartition'
<1> SUFFICES ASSUME IInv, [Next]_vars PROVE KeysPartition'
  OBVIOUS
<1> USE DEF IInv
<1>1. CASE OpenConnection
  BY <1>1 DEF OpenConnection, KeysPartition, Elements, Injective
<1>2. CASE CloseConnection
  <2>1. DOMAIN saved' = {} /\ Elements(removed') = {} /\ Injective(removed')
    BY <1>2 DEF CloseConnection, Elements, Injective
  <2>2. 0 .. minted' - 1 = {}
    BY <1>2 DEF CloseConnection
  <2> QED BY <2>1, <2>2 DEF KeysPartition
<1>3. ASSUME NEW o \in Owners, Save(o) PROVE KeysPartition'
  <2>1. /\ DOMAIN saved' = (DOMAIN saved) \cup {AvailableKey}
        /\ removed' = RemovedAfter /\ minted' = MintedAfter
    BY <1>3 DEF Save, WithKey
  <2> QED BY <2>1, AvailableKeyIsFresh DEF KeysPartition
<1>4. ASSUME NEW o \in Owners, SaveInPart(o) PROVE KeysPartition'
  <2>1. /\ saved' = saved /\ minted' = MintedAfter
        /\ removed' = Append(RemovedAfter, AvailableKey)
    BY <1>4 DEF SaveInPart
  <2>2. /\ Elements(removed') = Elements(RemovedAfter) \cup {AvailableKey}
        /\ Injective(removed')
    BY <2>1, AvailableKeyIsFresh, ElementsAppend, AppendFresh
  <2> QED BY <2>1, <2>2, AvailableKeyIsFresh DEF KeysPartition
<1>5. ASSUME NEW o \in Owners, Delete(o) PROVE KeysPartition'
  <2>1. /\ DOMAIN saved' = (DOMAIN saved) \ {id[o]} /\ id[o] \in DOMAIN saved
        /\ removed' = Append(removed, id[o]) /\ minted' = minted
        /\ id[o] \in Nat /\ id[o] \notin Elements(removed)
    BY <1>5 DEF Delete, Without, OwnerIsolation, TypeOK, KeysPartition
  <2>2. /\ Elements(removed') = Elements(removed) \cup {id[o]}
        /\ Injective(removed')
    BY <2>1, ElementsAppend, AppendFresh DEF TypeOK, KeysPartition
  <2> QED BY <2>1, <2>2 DEF KeysPartition
<1>6. ASSUME NEW O \in SUBSET Owners, Reconstruct(O) PROVE KeysPartition'
  BY <1>6 DEF Reconstruct, KeysPartition, Elements, Injective
<1>7. CASE UNCHANGED vars
  BY <1>7 DEF vars, KeysPartition, Elements, Injective
<1> QED BY <1>1, <1>2, <1>3, <1>4, <1>5, <1>6, <1>7 DEF Next

\* Owners and entries of the map point at each other, and keep doing so: the
\* key given to an owner is in use by nobody, and deleting takes away the key
\* of exactly one owner.
LEMMA OwnersStep == IInv /\ [Next]_vars => (OwnerIsolation /\ NoOrphan)'
<1> SUFFICES ASSUME IInv, [Next]_vars PROVE (OwnerIsolation /\ NoOrphan)'
  OBVIOUS
<1> USE DEF IInv
<1>1. CASE OpenConnection
  BY <1>1 DEF OpenConnection, OwnerIsolation, NoOrphan
<1>2. CASE CloseConnection
  BY <1>2 DEF CloseConnection, OwnerIsolation, NoOrphan
<1>3. ASSUME NEW o \in Owners, Save(o) PROVE (OwnerIsolation /\ NoOrphan)'
  <2>1. /\ DOMAIN saved' = (DOMAIN saved) \cup {AvailableKey}
        /\ saved'[AvailableKey] = o
        /\ \A k \in (DOMAIN saved) \ {AvailableKey} : saved'[k] = saved[k]
        /\ id'[o] = AvailableKey /\ \A p \in Owners \ {o} : id'[p] = id[p]
        /\ claimed' = claimed \cup {o} /\ o \notin claimed
    BY <1>3 DEF Save, WithKey, TypeOK
  <2>2. AvailableKey \notin DOMAIN saved
    BY AvailableKeyIsFresh
  <2> QED BY <2>1, <2>2 DEF OwnerIsolation, NoOrphan, TypeOK
<1>4. ASSUME NEW o \in Owners, SaveInPart(o) PROVE (OwnerIsolation /\ NoOrphan)'
  <2>1. /\ saved' = saved /\ claimed' = claimed /\ o \notin claimed
        /\ \A p \in Owners \ {o} : id'[p] = id[p]
    BY <1>4 DEF SaveInPart, TypeOK
  <2> QED BY <2>1 DEF OwnerIsolation, NoOrphan, TypeOK
<1>5. ASSUME NEW o \in Owners, Delete(o) PROVE (OwnerIsolation /\ NoOrphan)'
  <2>1. /\ DOMAIN saved' = (DOMAIN saved) \ {id[o]}
        /\ \A k \in (DOMAIN saved) \ {id[o]} : saved'[k] = saved[k]
        /\ claimed' = claimed \ {o} /\ o \in claimed
        /\ \A p \in Owners \ {o} : id'[p] = id[p]
    BY <1>5 DEF Delete, Without, TypeOK
  <2> QED BY <2>1 DEF OwnerIsolation, NoOrphan, TypeOK
<1>6. ASSUME NEW O \in SUBSET Owners, Reconstruct(O) PROVE (OwnerIsolation /\ NoOrphan)'
  <2>1. /\ saved' = saved /\ claimed' = claimed
        /\ \A p \in claimed : id'[p] = id[p]
    BY <1>6 DEF Reconstruct, TypeOK
  <2> QED BY <2>1 DEF OwnerIsolation, NoOrphan, TypeOK
<1>7. CASE UNCHANGED vars
  BY <1>7 DEF vars, OwnerIsolation, NoOrphan
<1> QED BY <1>1, <1>2, <1>3, <1>4, <1>5, <1>6, <1>7 DEF Next

-----------------------------------------------------------------------------
LEMMA Inductive == Spec => []IInv
<1>1. IInv /\ [Next]_vars => IInv'
  BY TypeOKStep, KeysPartitionStep, OwnersStep DEF IInv
<1> QED BY InitIInv, <1>1, PTL DEF Spec

\* save_statement and delete_statement keep the types of the store's variables.
THEOREM TypeCorrect == Spec => []TypeOK
<1>1. IInv => TypeOK
  BY DEF IInv
<1> QED BY Inductive, <1>1, PTL

\* The keys in use and the freed keys partition an initial segment of Nat, for
\* any owners that save, fail to save and delete in any order.
THEOREM KeysArePartitioned == Spec => []KeysPartition
<1>1. IInv => KeysPartition
  BY DEF IInv
<1> QED BY Inductive, <1>1, PTL

\* get_available_key never returns a key that is in the map.
THEOREM KeysAreFresh == Spec => []FreshKey
<1>1. IInv => FreshKey
  BY AvailableKeyIsFresh DEF IInv, FreshKey
<1> QED BY Inductive, <1>1, PTL

\* No owner ever finds the statement of another under the key it was given.
THEOREM OwnersAreIsolated == Spec => []OwnerIsolation
<1>1. IInv => OwnerIsolation
  BY DEF IInv
<1> QED BY Inductive, <1>1, PTL

\* No entry of the map is out of the reach of the owner it was made for.
THEOREM NothingIsLeaked == Spec => []NoOrphan
<1>1. IInv => NoOrphan
  BY DEF IInv
<1> QED BY Inductive, <1>1, PTL
=============================================================================
