------------------------ MODULE BotLifecycle_proofs ------------------------
(***************************************************************************)
(* Proofs about BotLifecycle, for every number of owners, sessions and     *)
(* versions of the commands.  The invariant has four parts: the types, the *)
(* order of the main thread's and the other threads' doings (Control), who *)
(* has a statement when (Statements), and the store's own invariant, which *)
(* StatementStore_proofs shows to be inductive: every step of the process  *)
(* is a step of the store, or leaves it alone.                             *)
(***************************************************************************)
EXTENDS BotLifecycle, FiniteSetTheorems, TLAPS

StoreProofs == INSTANCE StatementStore_proofs

\* The places of the main thread without a connection, without a bot_delta,
\* without a worker, and after somebody pressed q.
Closed == {"boot", "construct", "open", "destroy", "shutdown", "end", "crashed"}
Outside == {"boot", "construct", "shutdown", "end", "crashed"}
Joined == Outside \cup {"destroy", "close_bot", "cleanup", "close_db"}
Ending == {"close", "close_bot", "cleanup", "close_db", "unwind", "destroy",
           "shutdown", "end", "crashed"}

\* Who runs when: the worker executes until it is joined, the timer until the
\* library's threads are; and nothing follows the session of a quit.
Control ==
  /\ quit => pc \in Ending
  /\ pc \in {"close", "close_bot", "cleanup", "close_db"} => quit
  /\ pc = "construct" => session < MaxSessions
  /\ pc \in {"setup", "attach"} => step > 0
  /\ pc \in Outside => ~ live
  /\ worker = "busy" => pc \in {"running", "close"}
  /\ pc \in Joined => worker = "off"
  /\ optimizing => LibraryRuns
  /\ pc \in {"cleanup", "close_db"} => ~ running
  /\ lazyStep # 0 => pc = "running" \/ quit
  /\ staticsOf # 0 => lazyStep # 0
  /\ pc = "running" => staticsOf \in {0, session}
  /\ pc = "close_db" => cachesOf = 0

\* Who has a statement: setup_db's owners one after another, then the caches;
\* the others when their flags say so.  Without a connection nobody has.
Statements ==
  /\ ~ connected => saved = <<>> /\ removed = <<>> /\ claimed = {} /\ minted = 0
  /\ pc \in Closed => ~ connected
  /\ pc = "setup" => \A i \in 1 .. step - 1 : Setup[i] \in claimed
  /\ pc \in {"attach", "running"} \/ LibraryRuns => SeqSet(Setup) \subseteq claimed
  /\ pc \in {"attach", "running"} => Caches \in claimed
  /\ pc \in {"close", "close_bot", "cleanup"} /\ cachesOf # 0 => Caches \in claimed
  /\ pc \in {"open", "setup", "attach", "running"} \/ (pc = "close" /\ worker # "off")
       => valid \subseteq claimed
  /\ valid \subseteq SeqSet(Attach) \cup SeqSet(Lazy)
  /\ lazyStep = 0 => valid \cap SeqSet(Lazy) = {}

\* The rest of TypeOK.
Types ==
  /\ pc \in {"boot", "construct", "open", "setup", "attach", "running", "close",
             "close_bot", "cleanup", "close_db", "unwind", "destroy", "shutdown",
             "end", "crashed"}
  /\ step \in Nat
  /\ session \in 0 .. MaxSessions
  /\ live \in BOOLEAN
  /\ valid \subseteq Owners
  /\ cachesOf \in 0 .. session
  /\ staticsOf \in 0 .. session
  /\ lazyStep \in 0 .. Len(Lazy)
  /\ quit \in BOOLEAN
  /\ worker \in {"off", "idle", "busy"}
  /\ running \in BOOLEAN
  /\ optimizing \in BOOLEAN

StoreInv == StoreProofs!IInv

LInv == Types /\ Control /\ Statements /\ StoreInv

LEMMA Domains ==
  /\ DOMAIN Setup = 1 .. Len(Setup) /\ Len(Setup) \in Nat
  /\ DOMAIN Attach = 1 .. Len(Attach) /\ Len(Attach) \in Nat
  /\ DOMAIN Lazy = 1 .. Len(Lazy) /\ Len(Lazy) \in Nat
BY LifecycleAssumption

-----------------------------------------------------------------------------
(* Types and control.                                                      *)

LEMMA TypesStep == LInv /\ [Next]_vars => Types'
<1> SUFFICES ASSUME LInv, [Next]_vars PROVE Types'
  OBVIOUS
<1> USE LifecycleAssumption, Domains DEF LInv, Types
<1>1. CASE InitializeEnvironment
  BY <1>1 DEF InitializeEnvironment, threads
<1>2. CASE Construct
  <2>1. session < MaxSessions /\ session' = session + 1
    BY <1>2 DEF Construct, Control
  <2>2. /\ session' \in 0 .. MaxSessions
        /\ cachesOf \in 0 .. session' /\ staticsOf \in 0 .. session'
    BY <2>1
  <2> QED BY <1>2, <2>2 DEF Construct
<1>3. CASE OpenDatabase
  BY <1>3 DEF OpenDatabase, Throw, threads
<1>4. CASE SaveSetup
  BY <1>4 DEF SaveSetup, Throw, threads
<1>5. CASE InitCaches
  BY <1>5 DEF InitCaches, Throw, threads
<1>6. CASE AttachEvent
  <2>1. Attach[step] \in Owners
    BY <1>6 DEF AttachEvent, Control, Owners, SeqSet
  <2> QED BY <1>6, <2>1 DEF AttachEvent, threads
<1>7. CASE StartBot
  BY <1>7 DEF StartBot
<1>8. CASE PressQ
  BY <1>8 DEF PressQ, threads
<1>9. CASE StopRunner
  BY <1>9 DEF StopRunner
<1>10. CASE StopBot
  BY <1>10 DEF StopBot
<1>11. CASE CleanupCaches
  BY <1>11 DEF CleanupCaches, threads
<1>12. CASE CloseConnection
  BY <1>12 DEF CloseConnection, threads
<1>13. CASE Unwind
  BY <1>13 DEF Unwind
<1>14. CASE DestroyOwner
  BY <1>14 DEF DestroyOwner, threads
<1>15. CASE DestroyBot
  BY <1>15 DEF DestroyBot, threads
<1>16. CASE Shutdown
  BY <1>16 DEF Shutdown, threads
<1>17. CASE LazySave
  <2>1. Lazy[lazyStep + 1] \in Owners
    BY <1>17 DEF LazySave, Owners, SeqSet
  <2> QED BY <1>17, <2>1 DEF LazySave
<1>18. CASE RegisterCommands
  BY <1>18 DEF RegisterCommands, threads
<1>19. CASE JobBegin
  BY <1>19 DEF JobBegin
<1>20. CASE JobEnd
  BY <1>20 DEF JobEnd
<1>21. CASE TimerBegin
  BY <1>21 DEF TimerBegin
<1>22. CASE TimerEnd
  BY <1>22 DEF TimerEnd
<1>23. CASE UNCHANGED vars
  BY <1>23 DEF vars
<1> QED
  BY <1>1, <1>2, <1>3, <1>4, <1>5, <1>6, <1>7, <1>8, <1>9, <1>10, <1>11, <1>12, <1>13,
     <1>14, <1>15, <1>16, <1>17, <1>18, <1>19, <1>20, <1>21, <1>22, <1>23 DEF Next,
     MainThread

LEMMA ControlStep == LInv /\ [Next]_vars => Control'
<1> SUFFICES ASSUME LInv, [Next]_vars PROVE Control'
  OBVIOUS
<1> USE LifecycleAssumption, Domains
    DEF LInv, Types, Control, LibraryRuns, Outside, Joined, Ending
<1>1. CASE InitializeEnvironment
  BY <1>1 DEF InitializeEnvironment, threads
<1>2. CASE Construct
  BY <1>2 DEF Construct
<1>3. CASE OpenDatabase
  BY <1>3 DEF OpenDatabase, Throw, threads
<1>4. CASE SaveSetup
  BY <1>4 DEF SaveSetup, Throw, threads
<1>5. CASE InitCaches
  BY <1>5 DEF InitCaches, Throw, threads
<1>6. CASE AttachEvent
  BY <1>6 DEF AttachEvent, threads
<1>7. CASE StartBot
  BY <1>7 DEF StartBot
<1>8. CASE PressQ
  BY <1>8 DEF PressQ, threads
<1>9. CASE StopRunner
  BY <1>9 DEF StopRunner
<1>10. CASE StopBot
  BY <1>10 DEF StopBot
<1>11. CASE CleanupCaches
  BY <1>11 DEF CleanupCaches, threads
<1>12. CASE CloseConnection
  BY <1>12 DEF CloseConnection, threads
<1>13. CASE Unwind
  BY <1>13 DEF Unwind
<1>14. CASE DestroyOwner
  BY <1>14 DEF DestroyOwner, threads
<1>15. CASE DestroyBot
  BY <1>15 DEF DestroyBot, threads
<1>16. CASE Shutdown
  BY <1>16 DEF Shutdown, threads
<1>17. CASE LazySave
  BY <1>17 DEF LazySave
<1>18. CASE RegisterCommands
  BY <1>18 DEF RegisterCommands, threads
<1>19. CASE JobBegin
  BY <1>19 DEF JobBegin
<1>20. CASE JobEnd
  BY <1>20 DEF JobEnd
<1>21. CASE TimerBegin
  BY <1>21 DEF TimerBegin
<1>22. CASE TimerEnd
  BY <1>22 DEF TimerEnd
<1>23. CASE UNCHANGED vars
  BY <1>23 DEF vars
<1> QED
  BY <1>1, <1>2, <1>3, <1>4, <1>5, <1>6, <1>7, <1>8, <1>9, <1>10, <1>11, <1>12, <1>13,
     <1>14, <1>15, <1>16, <1>17, <1>18, <1>19, <1>20, <1>21, <1>22, <1>23 DEF Next,
     MainThread

-----------------------------------------------------------------------------
(* Who has a statement.                                                    *)

\* What the calls into the store do to what Statements is about.
LEMMA SaveEffect ==
  ASSUME NEW o
  PROVE  /\ SaveOk(o) => connected /\ connected' = connected /\ claimed' = claimed \cup {o}
         /\ SaveFailed(o) =>
              /\ connected' = connected /\ claimed' = claimed
              /\ connected \/ UNCHANGED <<saved, removed, minted>>
BY DEF SaveOk, SaveFailed, Store!Save, Store!SaveInPart, storeVars

LEMMA DeleteEffect ==
  ASSUME NEW o, NEW k, ~ connected => saved = <<>>
  PROVE  DeleteStatement(o, k) =>
           /\ connected' = connected /\ claimed' = claimed \ {o} /\ minted' = minted
           /\ ~ connected => UNCHANGED <<saved, removed>>
<1>1. saved = <<>> => k \notin DOMAIN saved
  OBVIOUS
<1> QED BY <1>1 DEF DeleteStatement

LEMMA StatementsStep == LInv /\ [Next]_vars => Statements'
<1> SUFFICES ASSUME LInv, [Next]_vars PROVE Statements'
  OBVIOUS
<1> USE LifecycleAssumption, Domains DEF LInv, Types, Statements
<1>1. CASE InitializeEnvironment
  BY <1>1 DEF InitializeEnvironment, threads, LibraryRuns, Control, storeVars, Closed
<1>2. CASE Construct
  BY <1>2 DEF Construct, LibraryRuns, Control, storeVars, Ending, Closed
<1>3. CASE OpenDatabase
  BY <1>3 DEF OpenDatabase, Throw, threads, LibraryRuns, Control, storeVars,
     Store!OpenConnection, Closed
<1>4. CASE SaveSetup
  <2>1. step \in 1 .. Len(Setup)
    BY <1>4 DEF SaveSetup, Control
  <2>2. CASE SaveOk(Setup[step]) /\ step' = step + 1 /\ UNCHANGED pc
    BY <1>4, <2>1, <2>2, SaveEffect DEF SaveSetup, threads, LibraryRuns, Closed
  <2>3. CASE SaveFailed(Setup[step]) /\ Throw("unwind")
    BY <1>4, <2>1, <2>3, SaveEffect DEF SaveSetup, Throw, threads, LibraryRuns, Closed
  <2> QED BY <1>4, <2>2, <2>3 DEF SaveSetup
<1>5. CASE InitCaches
  <2>1. SeqSet(Setup) \subseteq claimed
    BY <1>5 DEF InitCaches, SeqSet
  <2>2. CASE SaveOk(Caches) /\ pc' = "attach" /\ step' = 1
    BY <1>5, <2>1, <2>2, SaveEffect DEF InitCaches, threads, LibraryRuns, Closed
  <2>3. CASE SaveFailed(Caches) /\ Throw("unwind")
    BY <1>5, <2>3, SaveEffect DEF InitCaches, Throw, threads, LibraryRuns, Closed
  <2> QED BY <1>5, <2>2, <2>3 DEF InitCaches
<1>6. CASE AttachEvent
  <2>1. Attach[step] \in SeqSet(Attach)
    BY <1>6 DEF AttachEvent, Control, SeqSet
  <2>2. CASE SaveOk(Attach[step]) /\ valid' = valid \cup {Attach[step]}
    BY <1>6, <2>1, <2>2, SaveEffect DEF AttachEvent, threads, LibraryRuns, Closed
  <2>3. CASE SaveFailed(Attach[step]) /\ UNCHANGED valid
    BY <1>6, <2>3, SaveEffect DEF AttachEvent, threads, LibraryRuns, Closed
  <2> QED BY <1>6, <2>2, <2>3 DEF AttachEvent
<1>7. CASE StartBot
  BY <1>7 DEF StartBot, LibraryRuns, Control, storeVars, Closed
<1>8. CASE PressQ
  BY <1>8 DEF PressQ, threads, LibraryRuns, Control, storeVars, Closed
<1>9. CASE StopRunner
  BY <1>9 DEF StopRunner, LibraryRuns, Control, storeVars, Closed
<1>10. CASE StopBot
  BY <1>10 DEF StopBot, LibraryRuns, Control, storeVars, Closed
<1>11. CASE CleanupCaches
  <2>1. /\ connected' = connected /\ minted' = minted
        /\ ~ connected => claimed' = {} /\ UNCHANGED <<saved, removed>>
    BY <1>11, DeleteEffect DEF CleanupCaches, storeVars
  <2>2. ~ running' /\ pc' = "close_db" /\ UNCHANGED <<valid, lazyStep>>
    BY <1>11 DEF CleanupCaches, threads, Control
  <2> QED BY <2>1, <2>2 DEF LibraryRuns, Closed
<1>12. CASE CloseConnection
  <2>1. /\ ~ running' /\ pc' \in {"unwind", "close"}
        /\ UNCHANGED <<valid, lazyStep, cachesOf>>
        /\ worker' = "off" /\ cachesOf = 0
        /\ saved' = <<>> /\ removed' = <<>> /\ claimed' = {} /\ minted' = 0
    BY <1>12 DEF CloseConnection, CloseDatabase, threads, Control, Joined
  <2> QED BY <2>1 DEF LibraryRuns, Closed
<1>13. CASE Unwind
  BY <1>13 DEF Unwind, LibraryRuns, Control, storeVars, CloseDatabase, Closed
<1>14. CASE DestroyOwner
  <2>1. /\ connected' = connected /\ minted' = minted
        /\ ~ connected => claimed' = {} /\ UNCHANGED <<saved, removed>>
    BY <1>14, DeleteEffect DEF DestroyOwner, storeVars
  <2>2. /\ pc = "destroy" /\ pc' = "destroy" /\ UNCHANGED <<valid, lazyStep>>
    BY <1>14 DEF DestroyOwner, threads
  <2> QED BY <2>1, <2>2 DEF LibraryRuns, Closed
<1>15. CASE DestroyBot
  BY <1>15 DEF DestroyBot, threads, LibraryRuns, Control, storeVars, Closed
<1>16. CASE Shutdown
  BY <1>16 DEF Shutdown, threads, LibraryRuns, Control, storeVars, Closed
<1>17. CASE LazySave
  <2> DEFINE o == Lazy[lazyStep + 1]
  <2>1. o \in SeqSet(Lazy) /\ lazyStep' # 0
    BY <1>17 DEF LazySave, SeqSet
  <2>2. CASE SaveOk(o) /\ valid' = valid \cup {o}
    <3> HIDE DEF o
    <3> QED BY <1>17, <2>1, <2>2, SaveEffect DEF LazySave, LibraryRuns, Closed
  <2>3. CASE SaveFailed(o) /\ UNCHANGED valid
    <3> HIDE DEF o
    <3> QED BY <1>17, <2>1, <2>3, SaveEffect DEF LazySave, LibraryRuns, Closed
  <2> QED BY <1>17, <2>2, <2>3 DEF LazySave
<1>18. CASE RegisterCommands
  BY <1>18 DEF RegisterCommands, threads, LibraryRuns, Control, storeVars, Closed
<1>19. CASE JobBegin
  BY <1>19 DEF JobBegin, LibraryRuns, Control, storeVars, Closed
<1>20. CASE JobEnd
  BY <1>20 DEF JobEnd, LibraryRuns, Control, storeVars, Closed
<1>21. CASE TimerBegin
  BY <1>21 DEF TimerBegin, LibraryRuns, Control, storeVars, Closed
<1>22. CASE TimerEnd
  BY <1>22 DEF TimerEnd, LibraryRuns, Control, storeVars, Closed
<1>23. CASE UNCHANGED vars
  BY <1>23 DEF vars, LibraryRuns
<1> QED
  BY <1>1, <1>2, <1>3, <1>4, <1>5, <1>6, <1>7, <1>8, <1>9, <1>10, <1>11, <1>12, <1>13,
     <1>14, <1>15, <1>16, <1>17, <1>18, <1>19, <1>20, <1>21, <1>22, <1>23 DEF Next,
     MainThread

-----------------------------------------------------------------------------
(* Every step is one of the store's.                                       *)

LEMMA StoreStep == LInv /\ [Next]_vars => [Store!Next]_(Store!vars)
<1> SUFFICES ASSUME LInv, [Next]_vars PROVE Store!Next \/ UNCHANGED Store!vars
  OBVIOUS
<1>0. /\ Caches \in Owners /\ SeqSet(Setup) \cup SeqSet(Attach) \subseteq Owners
      /\ \A i \in 1 .. Len(Setup) : Setup[i] \in Owners
      /\ \A i \in 1 .. Len(Attach) : Attach[i] \in Owners
      /\ \A i \in 1 .. Len(Lazy) : Lazy[i] \in Owners
      /\ id \in [Owners -> Nat]
  BY Domains DEF Owners, SeqSet, LInv, StoreInv, StoreProofs!IInv, StoreProofs!TypeOK
<1> USE DEF LInv, Store!vars
<1>1. CASE InitializeEnvironment
  BY <1>1 DEF InitializeEnvironment, threads, storeVars
<1>2. CASE Construct
  <2>1. claimed = {}
    BY <1>2 DEF Construct, Statements, Closed
  <2>2. Store!Reconstruct(SeqSet(Setup) \cup SeqSet(Attach))
    BY <1>2, <2>1 DEF Construct, Store!Reconstruct
  <2> QED BY <1>0, <2>2 DEF Store!Next
<1>3. CASE OpenDatabase
  BY <1>3 DEF OpenDatabase, storeVars, Store!Next
<1>4. CASE SaveSetup
  <2>1. Setup[step] \in Owners
    BY <1>4, <1>0 DEF SaveSetup, Control, Types
  <2> QED BY <1>4, <2>1 DEF SaveSetup, SaveOk, SaveFailed, storeVars, Store!Next
<1>5. CASE InitCaches
  BY <1>5, <1>0 DEF InitCaches, SaveOk, SaveFailed, storeVars, Store!Next
<1>6. CASE AttachEvent
  <2>1. Attach[step] \in Owners
    BY <1>6, <1>0 DEF AttachEvent, Control, Types
  <2> QED BY <1>6, <2>1 DEF AttachEvent, SaveOk, SaveFailed, storeVars, Store!Next
<1>7. CASE StartBot
  BY <1>7 DEF StartBot, storeVars
<1>8. CASE PressQ
  BY <1>8 DEF PressQ, threads, storeVars
<1>9. CASE StopRunner
  BY <1>9 DEF StopRunner, storeVars
<1>10. CASE StopBot
  BY <1>10 DEF StopBot, storeVars
<1>11. CASE CleanupCaches
  <2>1. CASE cachesOf # 0
    <3>1. Caches \in claimed /\ id[Caches] \in DOMAIN saved
      BY <1>11, <2>1 DEF CleanupCaches, Statements, StoreInv, StoreProofs!IInv,
         StoreProofs!OwnerIsolation
    <3>2. Store!Delete(Caches)
      BY <1>11, <2>1, <3>1 DEF CleanupCaches, DeleteStatement, Store!Delete
    <3> QED BY <1>0, <3>2 DEF Store!Next
  <2> QED BY <1>11, <2>1 DEF CleanupCaches, storeVars
<1>12. CASE CloseConnection
  <2>1. CASE connected
    <3>1. Store!CloseConnection
      BY <1>12, <2>1 DEF CloseConnection, CloseDatabase, Store!CloseConnection
    <3> QED BY <3>1 DEF Store!Next
  <2>2. CASE ~ connected
    BY <1>12, <2>2 DEF CloseConnection, CloseDatabase, Statements, Types, StoreInv,
       StoreProofs!IInv, StoreProofs!TypeOK
  <2> QED BY <2>1, <2>2
<1>13. CASE Unwind
  <2>1. CASE connected
    <3>1. Store!CloseConnection
      BY <1>13, <2>1 DEF Unwind, CloseDatabase, Store!CloseConnection
    <3> QED BY <3>1 DEF Store!Next
  <2>2. CASE ~ connected
    BY <1>13, <2>2 DEF Unwind, CloseDatabase, Statements, Types, StoreInv,
       StoreProofs!IInv, StoreProofs!TypeOK
  <2> QED BY <2>1, <2>2
<1>14. CASE DestroyOwner
  <2>1. saved = <<>> /\ DOMAIN saved = {} /\ claimed = {}
    BY <1>14 DEF DestroyOwner, Statements, Closed
  <2> QED BY <1>14, <2>1 DEF DestroyOwner, DeleteStatement, storeVars
<1>15. CASE DestroyBot
  BY <1>15 DEF DestroyBot, threads, storeVars
<1>16. CASE Shutdown
  <2>1. CASE cachesOf = 0
    BY <1>16, <2>1 DEF Shutdown
  <2>2. CASE cachesOf # 0
    <3>1. claimed = {}
      BY <1>16 DEF Shutdown, Statements, Closed
    <3>2. id' = [o \in Owners |-> IF o \in {Caches} THEN 0 ELSE id[o]]
      BY <1>16, <1>0, <2>2 DEF Shutdown
    <3>3. Store!Reconstruct({Caches})
      BY <1>16, <3>1, <3>2 DEF Shutdown, Store!Reconstruct
    <3> QED BY <1>0, <3>3 DEF Store!Next
  <2> QED BY <2>1, <2>2
<1>17. CASE LazySave
  <2>1. Lazy[lazyStep + 1] \in Owners
    BY <1>17, <1>0, Domains DEF LazySave, Types
  <2> QED BY <1>17, <2>1 DEF LazySave, SaveOk, SaveFailed, storeVars, Store!Next
<1>18. CASE RegisterCommands
  BY <1>18 DEF RegisterCommands, threads, storeVars
<1>19. CASE JobBegin
  BY <1>19 DEF JobBegin, storeVars
<1>20. CASE JobEnd
  BY <1>20 DEF JobEnd, storeVars
<1>21. CASE TimerBegin
  BY <1>21 DEF TimerBegin, storeVars
<1>22. CASE TimerEnd
  BY <1>22 DEF TimerEnd, storeVars
<1>23. CASE UNCHANGED vars
  BY <1>23 DEF vars
<1> QED
  BY <1>1, <1>2, <1>3, <1>4, <1>5, <1>6, <1>7, <1>8, <1>9, <1>10, <1>11, <1>12, <1>13,
     <1>14, <1>15, <1>16, <1>17, <1>18, <1>19, <1>20, <1>21, <1>22, <1>23 DEF Next,
     MainThread

\* So the store's invariant is kept, by the lemmas about the store.
LEMMA StoreInvStep == LInv /\ [Next]_vars => StoreInv'
<1> SUFFICES ASSUME LInv, [Next]_vars PROVE StoreInv'
  OBVIOUS
<1>1. [StoreProofs!Next]_(StoreProofs!vars)
  <2>1. [Store!Next]_(Store!vars)
    BY StoreStep
  <2>2. /\ Store!AvailableKey = StoreProofs!AvailableKey
        /\ Store!RemovedAfter = StoreProofs!RemovedAfter
        /\ Store!MintedAfter = StoreProofs!MintedAfter
    <3>1. Store!Cardinality(DOMAIN saved) = StoreProofs!Cardinality(DOMAIN saved)
      BY Zenon DEF Store!Cardinality, StoreProofs!Cardinality
    <3> QED
      BY <3>1 DEF Store!AvailableKey, Store!RemovedAfter, Store!MintedAfter,
         StoreProofs!AvailableKey, StoreProofs!RemovedAfter, StoreProofs!MintedAfter
  <2>3. ASSUME NEW o \in Owners
        PROVE  /\ Store!Save(o) => StoreProofs!Save(o)
               /\ Store!SaveInPart(o) => StoreProofs!SaveInPart(o)
               /\ Store!Delete(o) => StoreProofs!Delete(o)
    <3>1. Store!Save(o) => StoreProofs!Save(o)
      BY <2>2 DEF Store!Save, StoreProofs!Save, Store!WithKey, StoreProofs!WithKey
    <3>2. Store!SaveInPart(o) => StoreProofs!SaveInPart(o)
      BY <2>2 DEF Store!SaveInPart, StoreProofs!SaveInPart
    <3>3. Store!Delete(o) => StoreProofs!Delete(o)
      BY DEF Store!Delete, StoreProofs!Delete, Store!Without, StoreProofs!Without
    <3> QED BY <3>1, <3>2, <3>3
  <2>4. /\ Store!OpenConnection => StoreProofs!OpenConnection
        /\ Store!CloseConnection => StoreProofs!CloseConnection
        /\ \A O \in SUBSET Owners : Store!Reconstruct(O) => StoreProofs!Reconstruct(O)
        /\ UNCHANGED Store!vars => UNCHANGED StoreProofs!vars
    BY DEF Store!OpenConnection, Store!CloseConnection, Store!Reconstruct, Store!vars,
       StoreProofs!OpenConnection, StoreProofs!CloseConnection, StoreProofs!Reconstruct,
       StoreProofs!vars
  <2> QED BY <2>1, <2>3, <2>4 DEF Store!Next, StoreProofs!Next
<1>2. StoreProofs!IInv
  BY DEF LInv, StoreInv
<1>3. StoreProofs!TypeOK' /\ StoreProofs!KeysPartition'
        /\ (StoreProofs!OwnerIsolation /\ StoreProofs!NoOrphan)'
  BY <1>1, <1>2, LifecycleAssumption, StoreProofs!TypeOKStep,
     StoreProofs!KeysPartitionStep, StoreProofs!OwnersStep
<1> QED BY <1>3 DEF StoreInv, StoreProofs!IInv

LEMMA InitLInv == Init => LInv
<1> SUFFICES ASSUME Init PROVE LInv
  OBVIOUS
<1>1. StoreInv
  <2>1. StoreProofs!Init
    BY DEF Init, Store!Init, StoreProofs!Init
  <2> QED BY <2>1, LifecycleAssumption, StoreProofs!InitIInv DEF StoreInv
<1>2. Types
  <2>1. 0 \in 0 .. Len(Lazy) /\ 0 \in 0 .. MaxSessions
    BY LifecycleAssumption, Domains
  <2>2. /\ session = 0 /\ cachesOf = 0 /\ staticsOf = 0 /\ lazyStep = 0 /\ step = 0
        /\ 0 \in 0 .. 0 /\ 0 \in Nat
    BY DEF Init
  <2> QED BY <2>1, <2>2, Zenon DEF Init, Types
<1>3. Control
  BY DEF Init, Control, Outside, Joined, LibraryRuns
<1>4. Statements
  BY DEF Init, Store!Init, Statements, Closed, LibraryRuns
<1> QED BY <1>1, <1>2, <1>3, <1>4 DEF LInv

LEMMA Inductive == Spec => []LInv
<1>1. LInv /\ [Next]_vars => LInv'
  BY TypesStep, ControlStep, StatementsStep, StoreInvStep DEF LInv
<1> QED BY InitLInv, <1>1, PTL DEF Spec

-----------------------------------------------------------------------------
(* The jobs, and the registration of the commands.                         *)

\* A job is for an owner whose flag is set, and the flag stays set while it runs.
JobInv == worker = "busy" => JobOwner \in valid

LEMMA JobInvInductive == Spec => []JobInv
<1>1. Init => JobInv
  BY DEF Init, JobInv
<1>2. LInv /\ JobInv /\ [Next]_vars => JobInv'
  <2> SUFFICES ASSUME LInv, JobInv, [Next]_vars PROVE JobInv'
    OBVIOUS
  <2>1. CASE UNCHANGED <<worker, valid>>
    BY <2>1 DEF JobInv
  <2>2. CASE worker' # "busy" \/ (worker = "busy" /\ valid \subseteq valid')
    BY <2>2 DEF JobInv
  <2>3. CASE JobBegin
    BY <2>3 DEF JobBegin, JobInv
  <2>4. CASE MainThread
    BY <2>1, <2>2, <2>4 DEF MainThread, InitializeEnvironment, Construct, OpenDatabase,
       SaveSetup, InitCaches, AttachEvent, StartBot, PressQ, StopRunner, StopBot,
       CleanupCaches, CloseConnection, Unwind, DestroyOwner, DestroyBot, Shutdown, threads,
       LInv, Control, JobInv
  <2>5. CASE LazySave \/ RegisterCommands \/ JobEnd \/ TimerBegin \/ TimerEnd
    BY <2>1, <2>2, <2>5 DEF LazySave, RegisterCommands, JobEnd, TimerBegin, TimerEnd,
       threads, JobInv
  <2>6. CASE UNCHANGED vars
    BY <2>1, <2>6 DEF vars
  <2> QED BY <2>3, <2>4, <2>5, <2>6 DEF Next
<1> QED BY Inductive, <1>1, <1>2, PTL DEF Spec

\* A version's set of commands is finite.
LEMMA VersionIsFinite ==
  ASSUME NEW version \in Versions
  PROVE  IsFiniteSet(SeqSet(version))
<1>1. version \in Surjection(1 .. Len(version), SeqSet(version)) /\ Len(version) \in Nat
  BY RegistrationAssumption DEF Surjection, SeqSet
<1>2. IsFiniteSet(1 .. Len(version))
  BY <1>1, FS_Interval
<1> QED BY <1>1, <1>2, FS_Surjection

\* As many commands as are registered, pairwise different and each of them among
\* these, leave no room for another.
LEMMA NoneIsLeftOver ==
  ASSUME cmds \in Versions, ~ HasDuplicate, IsFiniteSet(registered), NoMismatch
  PROVE  registered = Local
<1>1. DOMAIN cmds = 1 .. Len(cmds) /\ Len(cmds) \in Nat
  BY RegistrationAssumption
<1>2. \A i \in 1 .. Len(cmds) : cmds[i] \in registered
  BY <1>1 DEF NoMismatch, AllFound, IsSame
<1>3. cmds \in [1 .. Len(cmds) -> registered]
  BY <1>1, <1>2, RegistrationAssumption
<1>4. cmds \in Injection(1 .. Len(cmds), registered)
  BY <1>1, <1>3 DEF Injection, IsInjective, HasDuplicate, IsSame
<1>5. Cardinality(1 .. Len(cmds)) = Cardinality(registered)
  <2>1. Cardinality(1 .. Len(cmds)) = Len(cmds)
    <3>1. 1 \in Int /\ Len(cmds) \in Int /\ (1 > Len(cmds) <=> Len(cmds) = 0)
      BY <1>1
    <3>2. Cardinality(1 .. Len(cmds)) = IF 1 > Len(cmds) THEN 0 ELSE Len(cmds) - 1 + 1
      BY <3>1, FS_Interval
    <3> QED BY <1>1, <3>2
  <2> QED BY <2>1 DEF NoMismatch
<1>6. cmds \in Surjection(1 .. Len(cmds), registered)
  BY <1>4, <1>5, FS_Injection
<1> QED BY <1>1, <1>2, <1>6 DEF Surjection, Local, SeqSet

RegInv ==
  /\ cmds \in Versions
  /\ registered \in {{}} \cup {SeqSet(version) : version \in Versions}
  /\ registration \in RegistrationSteps
  /\ registration = "asked" => ~ HasDuplicate
  /\ CommandsAreRegistered

LEMMA RegInvInductive == Spec => []RegInv
<1>1. Init => RegInv
  BY DEF Init, RegistrationInit, RegInv, RegistrationSteps, CommandsAreRegistered
<1>2. RegInv /\ [Next]_vars => RegInv'
  <2> SUFFICES ASSUME RegInv, [Next]_vars PROVE RegInv'
    OBVIOUS
  <2> USE DEF RegInv
  <2>1. CASE OnReady
    BY <2>1 DEF OnReady, Goes, RegistrationSteps, HasDuplicate, CommandsAreRegistered
  <2>2. CASE OnCommands
    <3>1. IsFiniteSet(registered)
      BY VersionIsFinite, FS_EmptySet
    <3>2. NoMismatch => registered = Local
      BY <2>2, <3>1, NoneIsLeftOver DEF OnCommands
    <3> QED
      BY <2>2, <3>2 DEF OnCommands, Goes, RegistrationSteps, Local, HasDuplicate,
         CommandsAreRegistered
  <2>3. CASE BulkCreate
    <3>1. Local \in {SeqSet(version) : version \in Versions}
      BY DEF Local
    <3> QED
      BY <2>3, <3>1 DEF BulkCreate, Goes, RegistrationSteps, Local, CommandsAreRegistered
  <2>4. CASE UNCHANGED registrationVars
    BY <2>4 DEF registrationVars, HasDuplicate, Local, CommandsAreRegistered
  <2>5. CASE RegisterCommands
    BY <2>1, <2>2, <2>3, <2>5 DEF RegisterCommands, Register
  <2>6. CASE UNCHANGED vars
    BY <2>4, <2>6 DEF vars, registrationVars
  <2>7. CASE MainThread
    BY <2>4, <2>7 DEF MainThread, InitializeEnvironment, Construct, OpenDatabase,
       SaveSetup, InitCaches, AttachEvent, StartBot, PressQ, StopRunner, StopBot,
       CleanupCaches, CloseConnection, Unwind, DestroyOwner, DestroyBot, Shutdown
  <2>8. CASE LazySave \/ JobBegin \/ JobEnd \/ TimerBegin \/ TimerEnd
    BY <2>4, <2>8 DEF LazySave, JobBegin, JobEnd, TimerBegin, TimerEnd
  <2> QED BY <2>5, <2>6, <2>7, <2>8 DEF Next
<1> QED BY <1>1, <1>2, PTL DEF Spec

-----------------------------------------------------------------------------
(* The theorems.                                                           *)

\* Whatever fails while the bot starts, runs and is taken down, the variables of
\* the process, of its statements and of the registration keep their types.
THEOREM TypeCorrect == Spec => []TypeOK
<1>1. LInv /\ RegInv => TypeOK
  <2> SUFFICES ASSUME LInv, RegInv PROVE TypeOK
    OBVIOUS
  <2>1. Store!TypeOK
    BY DEF LInv, StoreInv, StoreProofs!IInv, StoreProofs!TypeOK, Store!TypeOK
  <2>2. registered \subseteq Definitions
    BY RegistrationAssumption DEF RegInv, SeqSet
  <2> QED BY <2>1, <2>2, Zenon DEF LInv, Types, RegInv, RegistrationTypeOK, TypeOK
<1> QED BY Inductive, RegInvInductive, <1>1, PTL

\* Every save and every deletion of the process, made by key and without asking
\* whose it is, is a save or a deletion by the owner of the statement.
THEOREM StoreIsUsedProperly == Spec => UsesStoreProperly
<1>1. Init => Store!Init
  BY DEF Init
<1>2. LInv /\ [Next]_vars => [Store!Next]_(Store!vars)
  BY StoreStep
<1> QED BY Inductive, <1>1, <1>2, PTL DEF Spec, UsesStoreProperly, Store!Spec

\* An owner with a claim finds its statement.
LEMMA ClaimIsOwned ==
  ASSUME LInv, NEW o \in claimed
  PROVE  OwnsStatement(o)
BY DEF LInv, StoreInv, StoreProofs!IInv, StoreProofs!OwnerIsolation, OwnsStatement

\* While commands can run, setup_db's owners, the caches and every owner whose flag
\* is set find their own statements under their keys.
THEOREM FlagsAreTrue == Spec => []CommandsOwnStatements
<1>1. LInv => CommandsOwnStatements
  <2> SUFFICES ASSUME LInv, pc \in {"attach", "running"},
                      NEW o \in SeqSet(Setup) \cup {Caches} \cup valid
               PROVE  OwnsStatement(o)
    BY DEF CommandsOwnStatements
  <2>1. o \in claimed
    BY DEF LInv, Statements
  <2> QED BY <2>1, ClaimIsOwned
<1> QED BY Inductive, <1>1, PTL

\* Neither the worker nor the timer executes a statement that is gone, whatever
\* the main thread is doing.
THEOREM JobsHaveStatements == Spec => []JobHasStatement
<1>1. JobInv /\ LInv => JobHasStatement
  <2> SUFFICES ASSUME JobInv, LInv PROVE JobHasStatement
    OBVIOUS
  <2>1. ASSUME worker = "busy" PROVE OwnsStatement(JobOwner)
    <3>1. JobOwner \in claimed
      BY <2>1 DEF JobInv, LInv, Control, Statements
    <3> QED BY <3>1, ClaimIsOwned
  <2>2. ASSUME optimizing PROVE OwnsStatement(Optimize)
    <3>1. Optimize \in claimed
      BY <2>2, LifecycleAssumption DEF LInv, Control, Statements
    <3> QED BY <3>1, ClaimIsOwned
  <2> QED BY <2>1, <2>2 DEF JobHasStatement
<1> QED BY Inductive, JobInvInductive, <1>1, PTL

\* After start() failed as well as after close(), sqlite3_shutdown finds nothing
\* open: no connection, no statement, no bot and no worker.
THEOREM ShutdownFindsNothing == Spec => []ShutdownIsClean
<1>1. LInv => ShutdownIsClean
  BY DEF LInv, Control, Statements, Closed, Outside, Joined, ShutdownIsClean
<1> QED BY Inductive, <1>1, PTL

\* The static db commands never meet another bot_delta than the one that they
\* were built with.
THEOREM StaticsStayCurrent == Spec => []StaticsAreCurrent
<1>1. LInv => StaticsAreCurrent
  BY DEF LInv, Control, Ending, StaticsAreCurrent
<1> QED BY Inductive, <1>1, PTL

\* Discord has the commands of this version, for any versions that were there
\* before, once the registration has ended without a failure.
THEOREM RegisteredCommands == Spec => []CommandsAreRegistered
<1>1. RegInv => CommandsAreRegistered
  BY DEF RegInv
<1> QED BY RegInvInductive, <1>1, PTL
=============================================================================
