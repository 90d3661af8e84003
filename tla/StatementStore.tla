--------------------------- MODULE StatementStore ---------------------------
(***************************************************************************)
(* The saved statements of mln::database_handler                           *)
(* (database/database_handler.cpp): a map from keys to prepared statements *)
(* and a queue of keys that were freed, from which new keys are taken      *)
(* first.  A key is a plain size_t that its owner keeps: nothing but the   *)
(* discipline of the owners ties a key to the statement it was given for.  *)
(*                                                                         *)
(* The module is the store together with owners that use it as its header  *)
(* asks: an owner saves one text per connection, and deletes a statement   *)
(* only while it is its own.  BotLifecycle shows that the bot, which       *)
(* deletes with less care, nevertheless stays within these behaviours.     *)
(***************************************************************************)
EXTENDS Naturals, Sequences, FiniteSets

CONSTANTS
  Owners,            \* the texts that are saved, one owner for each
  Length             \* Length[o]: how many SQL statements the text of o holds

ASSUME StoreAssumption == Length \in [Owners -> Nat \ {0}]

VARIABLES
  connected,         \* db # nullptr
  saved,             \* saved_statements: from keys to the owner of the text
  removed,           \* removed_keys, front first
  id,                \* the key each owner keeps; 0 before the first save
  claimed,           \* history: the owners whose last save succeeded and
                     \*   neither they nor a closed connection undid it
  minted             \* history: keys taken from the size of the map since
                     \*   the connection was opened

vars == <<connected, saved, removed, id, claimed, minted>>

Elements(s) == {s[i] : i \in DOMAIN s}
Injective(s) == \A i, j \in DOMAIN s : s[i] = s[j] => i = j

\* The map without key k, and the map with k added for owner o.
Without(k) == [j \in (DOMAIN saved) \ {k} |-> saved[j]]
WithKey(k, o) == [j \in (DOMAIN saved) \cup {k} |-> IF j = k THEN o ELSE saved[j]]

\* Mutant: off by one, the last key instead of the next.
AvailableKeyLast ==
  IF removed # <<>> THEN Head(removed) ELSE Cardinality(DOMAIN saved) - 1

\* Mutant: the queue of freed keys is not consulted.
AvailableKeySize == Cardinality(DOMAIN saved)

\* get_available_key: the value it returns, and what is left of removed_keys.
AvailableKey ==
  IF removed # <<>> THEN Head(removed) ELSE Cardinality(DOMAIN saved)

RemovedAfter == IF removed # <<>> THEN Tail(removed) ELSE <<>>

MintedAfter == IF removed # <<>> THEN minted ELSE minted + 1

Init ==
  /\ connected = FALSE
  /\ saved = <<>>
  /\ removed = <<>>
  /\ id = [o \in Owners |-> 0]
  /\ claimed = {}
  /\ minted = 0

OpenConnection ==
  /\ ~ connected
  /\ connected' = TRUE
  /\ UNCHANGED <<saved, removed, id, claimed, minted>>

\* save_statement when every statement of the text is prepared.
Save(o) ==
  /\ connected
  /\ o \notin claimed
  /\ saved' = WithKey(AvailableKey, o)
  /\ removed' = RemovedAfter
  /\ minted' = MintedAfter
  /\ id' = [id EXCEPT ![o] = AvailableKey]
  /\ claimed' = claimed \cup {o}
  /\ UNCHANGED connected

\* save_statement when the first statement is prepared and a later one is
\* not: the entry is made and deleted again, the owner keeps the key.  (When
\* the first statement fails, nothing changes.)
SaveInPart(o) ==
  /\ connected
  /\ o \notin claimed
  /\ Length[o] > 1
  /\ removed' = Append(RemovedAfter, AvailableKey)
  /\ minted' = MintedAfter
  /\ id' = [id EXCEPT ![o] = AvailableKey]
  /\ UNCHANGED <<connected, saved, claimed>>

\* Mutant: the key is queued and the entry stays in the map.
DeleteWithoutErase(o) ==
  /\ o \in claimed
  /\ removed' = Append(removed, id[o])
  /\ claimed' = claimed \ {o}
  /\ UNCHANGED <<connected, saved, id, minted>>

\* delete_statement, called by the owner of the key, who may forget the key.
Delete(o) ==
  /\ o \in claimed
  /\ saved' = Without(id[o])
  /\ removed' = Append(removed, id[o])
  /\ claimed' = claimed \ {o}
  /\ id' \in {id, [id EXCEPT ![o] = 0]}
  /\ UNCHANGED <<connected, minted>>

\* Owners that are constructed anew start with key 0 and own nothing.
Reconstruct(O) ==
  /\ O \cap claimed = {}
  /\ id' = [o \in Owners |-> IF o \in O THEN 0 ELSE id[o]]
  /\ UNCHANGED <<connected, saved, removed, claimed, minted>>

\* Mutant: delete_all_statement leaves removed_keys as it is.
CloseKeepingRemoved ==
  /\ connected
  /\ saved' = <<>>
  /\ connected' \in BOOLEAN
  /\ claimed' = {}
  /\ minted' = 0
  /\ UNCHANGED <<removed, id>>

\* close_connection: delete_all_statement, then sqlite3_close, which may
\* answer that the connection is busy and leave it open.
CloseConnection ==
  /\ connected
  /\ saved' = <<>>
  /\ removed' = <<>>
  /\ connected' \in BOOLEAN
  /\ claimed' = {}
  /\ minted' = 0
  /\ UNCHANGED id

Next ==
  \/ OpenConnection
  \/ CloseConnection
  \/ \E o \in Owners : Save(o) \/ SaveInPart(o) \/ Delete(o)
  \/ \E O \in SUBSET Owners : Reconstruct(O)

Spec == Init /\ [][Next]_vars

-----------------------------------------------------------------------------
\* The map has numbers as keys, the freed keys are numbers, each owner keeps one.
TypeOK ==
  /\ connected \in BOOLEAN
  /\ DOMAIN saved \subseteq Nat
  /\ saved \in [DOMAIN saved -> Owners]
  /\ removed \in Seq(Nat)
  /\ id \in [Owners -> Nat]
  /\ claimed \subseteq Owners
  /\ minted \in Nat

\* "This function will always return an id that is not present in the map":
\* the assumption save_statement writes down about get_available_key.
FreshKey == AvailableKey \notin DOMAIN saved

\* Why the key is fresh: the keys in the map and the keys in the queue are,
\* without repetition, the first numbers, so that an empty queue means that
\* the size of the map is the next number.
KeysPartition ==
  /\ (DOMAIN saved) \cup Elements(removed) = 0 .. minted - 1
  /\ (DOMAIN saved) \cap Elements(removed) = {}
  /\ Injective(removed)

\* An owner that saved its text and did not delete it finds its own statement
\* under its key: a key freed by one owner and given to another never leaves
\* the first with the statement of the second.
OwnerIsolation ==
  \A o \in claimed : id[o] \in DOMAIN saved /\ saved[id[o]] = o

\* Nothing is saved for anybody who does not own it: every entry of the map is
\* reached through the key of its owner, so that none is leaked while the
\* connection is open.
NoOrphan ==
  \A k \in DOMAIN saved : saved[k] \in claimed /\ id[saved[k]] = k
=============================================================================
