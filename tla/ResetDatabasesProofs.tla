------------------------- MODULE ResetDatabasesProofs -------------------------
(***************************************************************************)
(* Proofs about ResetDatabases and the hook it shares with AuditErrorHook, *)
(* for any number of databases, goroutines and nested DoErrors, whatever   *)
(* fails and wherever a run dies.                                          *)
(***************************************************************************)
EXTENDS ResetDatabases, SequenceTheorems, FiniteSetTheorems, TLAPS

(***************************************************************************)
(* The invariant.                                                          *)
(***************************************************************************)
\* The copies of a DoError: none while it is idle, one at least once it has saved,
\* and room for another one while it is about to.
DoErrorFits(label, copies) ==
  /\ copies \in Seq({DoError, Nil}) /\ Len(copies) <= MaxDepth
  /\ label = "idle" => Len(copies) = 0
  /\ label = "save" => Len(copies) < MaxDepth
  /\ label \in {"clear", "insert", "restore"} => Len(copies) >= 1

DoErrorsFit == \A g \in Goroutines: DoErrorFits(pcOfDoError[g], originalsOfDoError[g])

Deleting == {"connect", "drop", "create"}
Cleared == {"confirm", "connect", "drop", "create", "scripts", "restore"}
Confirmed == {"connect", "drop", "create", "scripts", "restore", "seed"}

\* Flags come from a development environment, the deletion from its flag, and all
\* that changes data from the keys or the flag that makes up for them.
ConsentIsAsked ==
  /\ deleteAndCreateDb => env.isDev /\ env.delete
  /\ bypassConfirmation => env.isDev /\ env.bypass
  /\ pc \in Deleting => deleteAndCreateDb
  /\ pc \in Confirmed => answered \/ bypassConfirmation

\* What a DoError that nothing else interferes with has done to log.OnError.
DoErrorAlone(g) ==
  /\ pcOfDoError[g] = "save" => OnError = DoError /\ originalsOfDoError[g] = << >>
  /\ pcOfDoError[g] = "clear" => OnError = DoError /\ originalsOfDoError[g] = <<DoError>>
  /\ pcOfDoError[g] \in {"insert",
        "restore"} => OnError = Nil /\ originalsOfDoError[g] = <<DoError>>

\* As long as only one has held log.OnError at a time, it is told by who holds it.
HookIsHeldByOne ==
  ~overlapped /\ pc # "off" =>
    /\ \A g, h \in Logging(pcOfDoError): g = h
    /\ Resetting(pc) => Logging(pcOfDoError) = {}
    /\ pc = "clear" => OnError = DoError /\ originalOnError = DoError
    /\ pc \in Cleared => OnError = Nil /\ originalOnError = DoError
    /\ ~Resetting(pc) => /\ Logging(pcOfDoError) = {} => OnError = DoError
                         /\ \A g \in Logging(pcOfDoError): DoErrorAlone(g)

ResetInv == TypeOK /\ DoErrorsFit /\ ConsentIsAsked /\ HookIsHeldByOne

(***************************************************************************)
(* The tool.                                                               *)
(***************************************************************************)
DataFit ==
  /\ turn \in Databases /\ provisioned \subseteq Databases
  /\ exists \in [Databases -> BOOLEAN] /\ tables \in [Databases -> Contents] /\ seeded \in BOOLEAN

\* A step of a run that has been confirmed: it goes on with what it does or ends, and
\* only the deletion takes a database away.
StaysConfirmed ==
  /\ pc \in Cleared \cap Confirmed
  /\ pc' = "off" \/ pc' \in Cleared \cap Confirmed
  /\ pc' \in Deleting => pc \in Deleting
  /\ \A n \in Databases: exists[n] /\ ~exists'[n] => pc \in Deleting

\* The copies of a goroutine as AuditErrorHook types them.
LEMMA CopiesFit ==
  ASSUME NEW s \in Seq({DoError, Nil}), Len(s) <= MaxDepth
  PROVE  s \in UNION {[1 .. n -> {DoError, Nil}]: n \in 0 .. MaxDepth}
<1>1. s \in [1 .. Len(s) -> {DoError, Nil}] /\ Len(s) \in 0 .. MaxDepth
  BY ConstantsAssumption
<1> QED
  BY <1>1

LEMMA AdvanceEffect ==
  ASSUME turn \in Databases, NEW next, Advance(next)
  PROVE  turn' \in Databases /\ pc' \in {pc, next}
BY ConstantsAssumption DEF Advance, Databases

LEMMA DropEffect ==
  ASSUME DataFit, NEW n \in Databases, Drop(n)
  PROVE  /\ exists' \in [Databases -> BOOLEAN] /\ tables' \in [Databases -> Contents]
         /\ seeded' \in BOOLEAN
BY DEF DataFit, Drop, Contents

LEMMA NamesAreDatabases ==
  ASSUME TypeOK PROVE NameOf(turn) \in Databases /\ turn \in Databases /\ DataFit
BY DEF TypeOK, NameOf, Configs, Names, DataFit

LEMMA DropsFit ==
  ASSUME TypeOK, DropDatabase \/ SharedUser \/ DropOracleUser PROVE DataFit' /\ StaysConfirmed
<1>1. CASE DropDatabase
  <2>1. turn' \in Databases /\ pc = "drop" /\ pc' \in {"drop", "create"} /\ UNCHANGED provisioned
    BY <1>1, NamesAreDatabases, AdvanceEffect DEF DropDatabase
  <2>2. Drop(NameOf(turn)) \/ UNCHANGED data
    BY <1>1 DEF DropDatabase
  <2> QED
    BY <2>1, <2>2, NamesAreDatabases, DropEffect DEF DataFit, data, StaysConfirmed, Cleared,
       Confirmed, Deleting
<1>2. CASE SharedUser
  <2>1. /\ turn' \in Databases /\ pc = "drop" /\ pc' \in {"drop", "scripts", "off"}
        /\ UNCHANGED <<provisioned, data>>
    BY <1>2, NamesAreDatabases, AdvanceEffect DEF SharedUser, Exit
  <2> QED
    BY <2>1, NamesAreDatabases DEF DataFit, data, StaysConfirmed, Cleared, Confirmed, Deleting
<1>3. CASE DropOracleUser
  <2>1. /\ turn' = turn /\ pc = "drop" /\ pc' = "create"
        /\ provisioned' = provisioned \cup {NameOf(turn)}
        /\ Drop(NameOf(turn)) \/ UNCHANGED data
    BY <1>3 DEF DropOracleUser
  <2> QED
    BY <2>1, NamesAreDatabases, DropEffect DEF DataFit, data, StaysConfirmed, Cleared,
       Confirmed, Deleting
<1> QED
  BY <1>1, <1>2, <1>3

LEMMA CreationsFit ==
  ASSUME TypeOK, CreateDatabase \/ CreateOracleUser PROVE DataFit' /\ StaysConfirmed
<1>1. turn' \in Databases /\ pc = "create" /\ pc' \in {"create", "drop", "scripts", "off"}
  BY NamesAreDatabases, AdvanceEffect, ConstantsAssumption DEF CreateDatabase, CreateOracleUser,
     Exit,
     Databases
<1>2. exists' = exists \/ exists' = [exists EXCEPT ![NameOf(turn)] = TRUE]
  BY DEF CreateDatabase, CreateOracleUser
<1>3. UNCHANGED <<tables, seeded, provisioned>>
  BY DEF CreateDatabase, CreateOracleUser
<1>4. /\ exists' \in [Databases -> BOOLEAN]
      /\ \A n \in Databases: exists[n] => exists'[n]
  BY <1>2 DEF TypeOK
<1> QED
  BY <1>1, <1>3, <1>4, NamesAreDatabases DEF DataFit, StaysConfirmed, Cleared, Confirmed, Deleting

LEMMA ScriptsFit == ASSUME TypeOK, ExecuteScripts PROVE DataFit' /\ StaysConfirmed
<1>1. /\ turn' \in Databases /\ pc = "scripts" /\ pc' \in {"scripts", "restore", "off"}
      /\ seeded' = FALSE /\ UNCHANGED <<exists, provisioned>>
  BY NamesAreDatabases, AdvanceEffect DEF ExecuteScripts, Exit
<1>2. tables' \in [Databases -> Contents]
  BY DEF ExecuteScripts, TypeOK, Contents
<1> QED
  BY <1>1, <1>2, NamesAreDatabases DEF DataFit, StaysConfirmed, Cleared, Confirmed, Deleting

\* While log.OnError is left alone, so is what is known of it.
LEMMA QuietKeepsTheHook ==
  ASSUME ResetInv, Quiet, DataFit', answered' \in BOOLEAN,
         pc' = "off" \/ (pc \in Cleared /\ pc' \in Cleared)
  PROVE  TypeOK' /\ DoErrorsFit' /\ HookIsHeldByOne'
<1>1. UNCHANGED <<config, env, deleteAndCreateDb, bypassConfirmation, OnError, pcOfDoError,
                  originalsOfDoError, originalOnError, healthy, overlapped>>
  BY DEF Quiet, flags, hook
<1>2. TypeOK'
  <2>1. Hook!TypeOK'
    BY <1>1 DEF ResetInv, TypeOK, Hook!TypeOK
  <2>2. pc' \in {"off", "save", "clear", "confirm", "connect", "drop", "create", "scripts",
              "restore", "seed"}
    BY DEF Cleared
  <2> QED
    BY <1>1, <2>1, <2>2 DEF ResetInv, TypeOK, DataFit
<1>3. DoErrorsFit'
  BY <1>1 DEF ResetInv, DoErrorsFit
<1>4. HookIsHeldByOne'
  <2>1. CASE pc' = "off"
    BY <2>1 DEF HookIsHeldByOne
  <2>2. CASE pc \in Cleared /\ pc' \in Cleared
    <3>1. /\ Resetting(pc) /\ Resetting(pc') /\ pc # "clear" /\ pc' # "clear" /\ pc # "off"
      BY <2>2 DEF Resetting, Cleared
    <3>2. HookIsHeldByOne
      BY DEF ResetInv
    <3> QED
      BY <1>1, <2>2, <3>1, <3>2 DEF HookIsHeldByOne, Logging
  <2> QED
    BY <2>1, <2>2
<1> QED
  BY <1>2, <1>3, <1>4

LEMMA ConfirmedStepsKeep ==
  ASSUME ResetInv, DataFit', StaysConfirmed, Working PROVE ResetInv'
<1>1. TypeOK' /\ DoErrorsFit' /\ HookIsHeldByOne'
  BY QuietKeepsTheHook DEF Working, StaysConfirmed, ResetInv, TypeOK
<1>2. ConsentIsAsked'
  BY DEF Working, Quiet, flags, StaysConfirmed, ResetInv, ConsentIsAsked, Confirmed, Deleting
<1> QED
  BY <1>1, <1>2 DEF ResetInv

LEMMA EndsKeep == ASSUME ResetInv, Seed \/ Crash PROVE ResetInv'
<1>1. pc' = "off" /\ Working /\ seeded' \in BOOLEAN /\ UNCHANGED <<turn, provisioned, exists,
            tables>>
  BY DEF Seed, Crash, Exit, loops, data, ResetInv, TypeOK
<1>2. TypeOK' /\ DoErrorsFit' /\ HookIsHeldByOne'
  BY <1>1, QuietKeepsTheHook DEF Working, ResetInv, TypeOK, DataFit
<1>3. ConsentIsAsked'
  BY <1>1 DEF Working, Quiet, flags, ResetInv, ConsentIsAsked, Confirmed, Deleting
<1> QED
  BY <1>2, <1>3 DEF ResetInv

LEMMA ConnectKeeps == ASSUME ResetInv, Connect PROVE ResetInv'
<1>1. pc = "connect" /\ pc' \in {"drop", "off"} /\ Working /\ UNCHANGED <<turn, provisioned,
            exists, tables, seeded>>
  BY DEF Connect, Exit, loops, data
<1>2. DataFit' /\ StaysConfirmed
  BY <1>1 DEF ResetInv, TypeOK, DataFit, StaysConfirmed, Cleared, Confirmed, Deleting
<1> QED
  BY <1>1, <1>2, ConfirmedStepsKeep

\* Both keys, or the flag that makes up for them.
LEMMA ConfirmKeeps ==
  ASSUME ResetInv, NEW right1 \in BOOLEAN, NEW right2 \in BOOLEAN, Confirm(right1, right2)
  PROVE  ResetInv'
<1>1. /\ pc = "confirm" /\ answered' = (~bypassConfirmation /\ right1 /\ right2)
      /\ UNCHANGED <<turn, provisioned, exists, tables, seeded>> /\ Quiet
  BY DEF Confirm, loops, data
<1>2. \/ pc' = "off"
      \/ /\ bypassConfirmation \/ (right1 /\ right2)
         /\ pc' = IF deleteAndCreateDb THEN "connect" ELSE "scripts"
  BY DEF Confirm, Unless, Exit, Accept
<1>3. TypeOK' /\ DoErrorsFit' /\ HookIsHeldByOne'
  <2>1. DataFit' /\ answered' \in BOOLEAN
    BY <1>1 DEF ResetInv, TypeOK, DataFit
  <2>2. pc' = "off" \/ (pc \in Cleared /\ pc' \in Cleared)
    BY <1>1, <1>2 DEF Cleared
  <2> QED
    BY <1>1, <2>1, <2>2, QuietKeepsTheHook
<1>4. ConsentIsAsked'
  <2>1. UNCHANGED <<env, deleteAndCreateDb, bypassConfirmation>>
    BY <1>1 DEF Quiet, flags
  <2>2. pc' \in Deleting => deleteAndCreateDb
    BY <1>2 DEF Deleting
  <2>3. pc' \in Confirmed => answered' \/ bypassConfirmation
    BY <1>1, <1>2 DEF Confirmed
  <2> QED
    BY <2>1, <2>2, <2>3 DEF ResetInv, ConsentIsAsked
<1> QED
  BY <1>3, <1>4 DEF ResetInv

LEMMA RecoverKeeps == ASSUME ResetInv, Recover PROVE ResetInv'
<1>1. healthy' = TRUE
      /\ UNCHANGED <<config, env, deleteAndCreateDb, bypassConfirmation, turn, provisioned, pc,
            exists,
                     tables, seeded, OnError, pcOfDoError, originalsOfDoError, originalOnError,
                     answered, overlapped>>
  BY DEF Recover, flags, loops, data, hook
<1>2. TypeOK'
  BY <1>1 DEF ResetInv, TypeOK, Hook!TypeOK
<1>3. DoErrorsFit' /\ ConsentIsAsked' /\ HookIsHeldByOne'
  BY <1>1 DEF ResetInv, DoErrorsFit, ConsentIsAsked, HookIsHeldByOne, Logging, Resetting,
     DoErrorAlone
<1> QED
  BY <1>2, <1>3 DEF ResetInv

(***************************************************************************)
(* log.OnError.                                                            *)
(***************************************************************************)
\* A new process: everything of the one before is gone.
LEMMA RunKeeps == ASSUME ResetInv, NEW e \in Environments, Run(e) PROVE ResetInv'
<1>1. /\ env' = e /\ deleteAndCreateDb' = (e.isDev /\ e.delete)
      /\ bypassConfirmation' = (e.isDev /\ e.bypass)
      /\ pc' \in {"save", "off"} /\ turn' = 1 /\ provisioned' = {}
      /\ OnError' = DoError /\ pcOfDoError' = [g \in Goroutines |-> "idle"]
      /\ originalsOfDoError' = [g \in Goroutines |-> << >>] /\ originalOnError' = Nil
      /\ answered' = FALSE /\ overlapped' = FALSE
      /\ UNCHANGED <<config, exists, tables, seeded, healthy>>
  BY DEF Run, Flags, Exit, data
<1>2. DoErrorsFit'
  BY <1>1, ConstantsAssumption DEF DoErrorsFit, DoErrorFits
<1>3. Hook!TypeOK'
  <2>1. originalsOfDoError' \in [Goroutines -> UNION {[1 .. n -> {DoError,
              Nil}]: n \in 0 .. MaxDepth}]
    <3> DEFINE copies == UNION {[1 .. n -> {DoError, Nil}]: n \in 0 .. MaxDepth}
    <3>1. << >> \in copies
      BY CopiesFit, ConstantsAssumption
    <3> HIDE DEF copies
    <3>2. originalsOfDoError' \in [Goroutines -> copies]
      BY <1>1, <3>1
    <3> QED
      BY <3>2 DEF copies
  <2>2. pcOfDoError' \in [Goroutines -> {"idle", "save", "clear", "insert", "restore"}]
    BY <1>1
  <2> QED
    BY <1>1, <2>1, <2>2 DEF Hook!TypeOK, Hook!Values
<1>4. TypeOK'
  <2>1. env' \in Environments /\ deleteAndCreateDb' \in BOOLEAN /\ bypassConfirmation' \in BOOLEAN
    BY <1>1 DEF Environments
  <2>2. turn' \in Databases /\ provisioned' \subseteq Databases
    BY <1>1, ConstantsAssumption DEF Databases
  <2> QED
    BY <1>1, <1>3, <2>1, <2>2 DEF ResetInv, TypeOK
<1>5. ConsentIsAsked'
  BY <1>1 DEF ConsentIsAsked, Deleting, Confirmed, Environments
<1>6. HookIsHeldByOne'
  BY <1>1 DEF HookIsHeldByOne, Logging, Resetting, Cleared
<1> QED
  BY <1>2, <1>4, <1>5, <1>6 DEF ResetInv

\* executeReset saves the variable, clears it, and restores it.
LEMMA SaveKeeps == ASSUME ResetInv, SaveOnError PROVE ResetInv'
<1>1. /\ pc = "save" /\ pc' = "clear" /\ originalOnError' = OnError
      /\ UNCHANGED <<config, env, deleteAndCreateDb, bypassConfirmation, turn, provisioned,
            exists, tables,
                     seeded, OnError, pcOfDoError, originalsOfDoError, healthy, answered>>
      /\ NoteOverlap
  BY DEF SaveOnError, flags, loops, data, hook
<1>2. TypeOK'
  <2>1. overlapped' \in BOOLEAN /\ originalOnError' \in {DoError, Nil}
    BY <1>1 DEF NoteOverlap, ResetInv, TypeOK, Hook!TypeOK, Hook!Values
  <2> QED
    BY <1>1, <2>1 DEF ResetInv, TypeOK, Hook!TypeOK
<1>3. DoErrorsFit' /\ ConsentIsAsked'
  BY <1>1 DEF ResetInv, DoErrorsFit, ConsentIsAsked, Deleting, Confirmed
<1>4. ASSUME ~overlapped' PROVE ~overlapped /\ Logging(pcOfDoError) = {}
  BY <1>1, <1>4 DEF NoteOverlap, Resetting
<1>5. HookIsHeldByOne'
  <2> SUFFICES ASSUME ~overlapped' PROVE HookIsHeldByOne'
    BY DEF HookIsHeldByOne
  <2>1. OnError = DoError
    BY <1>1, <1>4 DEF ResetInv, HookIsHeldByOne, Resetting
  <2> QED
    BY <1>1, <1>4, <2>1 DEF HookIsHeldByOne, Logging, Resetting, Cleared
<1> QED
  BY <1>2, <1>3, <1>5 DEF ResetInv

LEMMA ClearKeeps == ASSUME ResetInv, ClearOnError PROVE ResetInv'
<1>1. /\ pc = "clear" /\ pc' = "confirm" /\ OnError' = Nil
      /\ UNCHANGED <<config, env, deleteAndCreateDb, bypassConfirmation, turn, provisioned,
            exists, tables,
                     seeded, pcOfDoError, originalsOfDoError, originalOnError, healthy,
                           answered, overlapped>>
  BY DEF ClearOnError, flags, loops, data
<1>2. TypeOK'
  BY <1>1 DEF ResetInv, TypeOK, Hook!TypeOK, Hook!Values
<1>3. DoErrorsFit' /\ ConsentIsAsked'
  BY <1>1 DEF ResetInv, DoErrorsFit, ConsentIsAsked, Deleting, Confirmed
<1>4. HookIsHeldByOne'
  BY <1>1 DEF ResetInv, HookIsHeldByOne, Logging, Resetting, Cleared
<1> QED
  BY <1>2, <1>3, <1>4 DEF ResetInv

LEMMA RestoreKeeps == ASSUME ResetInv, RestoreOnError PROVE ResetInv'
<1>1. /\ pc = "restore" /\ pc' = "seed" /\ OnError' = originalOnError
      /\ UNCHANGED <<config, env, deleteAndCreateDb, bypassConfirmation, turn, provisioned,
            exists, tables,
                     seeded, pcOfDoError, originalsOfDoError, originalOnError, healthy,
                           answered, overlapped>>
  BY DEF RestoreOnError, flags, loops, data
<1>2. TypeOK'
  BY <1>1 DEF ResetInv, TypeOK, Hook!TypeOK, Hook!Values
<1>3. DoErrorsFit' /\ ConsentIsAsked'
  BY <1>1 DEF ResetInv, DoErrorsFit, ConsentIsAsked, Deleting, Confirmed
<1>4. HookIsHeldByOne'
  BY <1>1 DEF ResetInv, HookIsHeldByOne, Logging, Resetting, Cleared
<1> QED
  BY <1>2, <1>3, <1>4 DEF ResetInv

\* What is true of the hook, whoever else uses it.
HookFits == Hook!TypeOK /\ DoErrorsFit

\* One access of a goroutine: where it comes to and the copies it has then.
LEMMA DoErrorStep ==
  ASSUME HookFits, NEW g \in Goroutines, Hook!LogError(g) \/ Hook!Step(g)
  PROVE  \E label \in {"idle", "save", "clear", "insert", "restore"}, copies \in Seq({DoError,
        Nil}):
           /\ pcOfDoError' = [pcOfDoError EXCEPT ![g] = label]
           /\ originalsOfDoError' = [originalsOfDoError EXCEPT ![g] = copies]
           /\ DoErrorFits(label, copies) /\ OnError' \in {DoError, Nil}
<1> DEFINE copies == originalsOfDoError[g]
<1>1. /\ DoErrorFits(pcOfDoError[g], copies) /\ OnError \in {DoError, Nil}
      /\ originalsOfDoError = [originalsOfDoError EXCEPT ![g] = copies]
  BY DEF HookFits, DoErrorsFit, Hook!TypeOK, Hook!Values
<1>2. copies \in Seq({DoError, Nil}) /\ Len(copies) \in Nat
  BY <1>1 DEF DoErrorFits
<1>3. CASE Hook!LogError(g)
  BY <1>1, <1>2, <1>3, ConstantsAssumption DEF Hook!LogError, Hook!Goto, DoErrorFits
<1>4. CASE Hook!SaveOnError(g)
  <2> DEFINE more == Append(copies, OnError)
  <2>1. more \in Seq({DoError, Nil}) /\ Len(more) = Len(copies) + 1
    BY <1>1, <1>2, AppendProperties
  <2>2. /\ pcOfDoError[g] = "save" /\ pcOfDoError' = [pcOfDoError EXCEPT ![g] = "clear"]
        /\ originalsOfDoError' = [originalsOfDoError EXCEPT ![g] = more] /\ OnError' = OnError
    BY <1>4 DEF Hook!SaveOnError, Hook!Goto
  <2>3. DoErrorFits("clear", more)
    BY <1>1, <1>2, <2>1, <2>2, ConstantsAssumption DEF DoErrorFits
  <2> QED
    BY <1>1, <2>1, <2>2, <2>3
<1>5. CASE Hook!ClearOnError(g)
  BY <1>1, <1>2, <1>5 DEF Hook!ClearOnError, Hook!Goto, DoErrorFits
<1>6. CASE Hook!Insert(g)
  BY <1>1, <1>2, <1>6 DEF Hook!Insert, Hook!Goto, DoErrorFits
<1>7. CASE Hook!InsertFails(g)
  BY <1>1, <1>2, <1>7 DEF Hook!InsertFails, Hook!Goto, DoErrorFits
<1>8. CASE Hook!RestoreOnError(g)
  <2> DEFINE fewer == SubSeq(copies, 1, Len(copies) - 1)
             label == IF Len(copies) = 1 THEN "idle" ELSE "restore"
  <2>1. /\ pcOfDoError[g] = "restore" /\ pcOfDoError' = [pcOfDoError EXCEPT ![g] = label]
        /\ originalsOfDoError' = [originalsOfDoError EXCEPT ![g] = fewer]
        /\ OnError' = copies[Len(copies)]
    BY <1>8 DEF Hook!RestoreOnError, Hook!Return, Hook!Depth, Hook!Goto
  <2>2. Len(copies) >= 1 /\ Len(copies) <= MaxDepth
    BY <1>1, <2>1 DEF DoErrorFits
  <2>3. copies[Len(copies)] \in {DoError, Nil}
    BY <1>2, <2>2, ElementOfSeq
  <2>4. fewer \in Seq({DoError, Nil}) /\ Len(fewer) = Len(copies) - 1
    BY <1>2, <2>2, SubSeqProperties
  <2>5. DoErrorFits(label, fewer)
    <3> HIDE DEF fewer
    <3>1. CASE Len(copies) = 1
      BY <2>4, <3>1, ConstantsAssumption DEF DoErrorFits
    <3>2. CASE Len(copies) # 1
      <4>1. \A m \in Nat: m >= 1 /\ m <= MaxDepth /\ m # 1 => m - 1 >= 1 /\ m - 1 <= MaxDepth
        BY ConstantsAssumption
      <4>2. Len(fewer) >= 1 /\ Len(fewer) <= MaxDepth
        BY <1>2, <2>2, <2>4, <3>2, <4>1
      <4> QED
        BY <2>4, <3>2, <4>2 DEF DoErrorFits
    <3> QED
      BY <3>1, <3>2
  <2> QED
    BY <2>1, <2>3, <2>4, <2>5
<1> QED
  BY <1>3, <1>4, <1>5, <1>6, <1>7, <1>8 DEF Hook!Step

LEMMA DoErrorStepFits ==
  ASSUME HookFits, NEW g \in Goroutines, Hook!LogError(g) \/ Hook!Step(g)
  PROVE  Hook!TypeOK' /\ DoErrorsFit'
<1>1. PICK label \in {"idle", "save", "clear", "insert", "restore"}, copies \in Seq({DoError, Nil}):
        /\ pcOfDoError' = [pcOfDoError EXCEPT ![g] = label]
        /\ originalsOfDoError' = [originalsOfDoError EXCEPT ![g] = copies]
        /\ DoErrorFits(label, copies) /\ OnError' \in {DoError, Nil}
  BY DoErrorStep
<1> DEFINE all == UNION {[1 .. n -> {DoError, Nil}]: n \in 0 .. MaxDepth}
<1>2. copies \in all
  BY <1>1, CopiesFit DEF DoErrorFits
<1>3. originalsOfDoError \in [Goroutines -> all]
      /\ pcOfDoError \in [Goroutines -> {"idle", "save", "clear", "insert", "restore"}]
  BY DEF HookFits, Hook!TypeOK, Hook!Values
<1> HIDE DEF all
<1>4. originalsOfDoError' \in [Goroutines -> all]
      /\ pcOfDoError' \in [Goroutines -> {"idle", "save", "clear", "insert", "restore"}]
  BY <1>1, <1>2, <1>3
<1>5. DoErrorsFit'
  BY <1>1, <1>3 DEF HookFits, DoErrorsFit
<1> QED
  BY <1>1, <1>4, <1>5 DEF Hook!TypeOK, Hook!Values, all

\* Two that log an error at a time are an overlap.
LEMMA TwoOverlap ==
  ASSUME NEW labels, NEW someone, Logging(labels) \subseteq {someone}, NEW labels2, NEW g,
         Logging(labels2) \subseteq Logging(labels) \cup {g}, ~(Cardinality(Logging(labels2)) > 1)
  PROVE  \A h, k \in Logging(labels2): h = k
<1> SUFFICES ASSUME NEW h \in Logging(labels2), NEW k \in Logging(labels2), h # k PROVE FALSE
  OBVIOUS
<1>1. IsFiniteSet({someone} \cup {g})
  BY FS_Singleton, FS_AddElement
<1>2. IsFiniteSet(Logging(labels2))
  BY <1>1, FS_Subset
<1>3. Cardinality({h}) = 1 /\ IsFiniteSet({h})
  BY FS_Singleton
<1>4. Cardinality({h} \cup {k}) = 2
  BY <1>3, FS_AddElement
<1>5. Cardinality({h} \cup {k}) <= Cardinality(Logging(labels2))
  BY <1>2, FS_Subset
<1>6. Cardinality(Logging(labels2)) \in Nat
  BY <1>2, FS_CardinalityType
<1> QED
  BY <1>4, <1>5, <1>6

\* A goroutine that nothing else interferes with clears the variable and puts back
\* what it has saved.
LEMMA AloneStaysAlone ==
  ASSUME HookFits, NEW g \in Goroutines, DoErrorAlone(g), Hook!Step(g)
  PROVE  /\ pcOfDoError[g] # "idle"
         /\ pcOfDoError'[g] = "idle" => OnError' = DoError
         /\ DoErrorAlone(g)'
<1> DEFINE copies == originalsOfDoError[g]
<1>1. /\ pcOfDoError \in [Goroutines -> {"idle", "save", "clear", "insert", "restore"}]
      /\ DOMAIN originalsOfDoError = Goroutines
  BY DEF HookFits, Hook!TypeOK
<1>2. CASE Hook!SaveOnError(g)
  BY <1>1, <1>2 DEF Hook!SaveOnError, Hook!Goto, DoErrorAlone
<1>3. CASE Hook!ClearOnError(g)
  BY <1>1, <1>3 DEF Hook!ClearOnError, Hook!Goto, DoErrorAlone
<1>4. CASE Hook!Insert(g)
  BY <1>1, <1>4 DEF Hook!Insert, Hook!Goto, DoErrorAlone
<1>5. CASE Hook!InsertFails(g)
  BY <1>1, <1>5 DEF Hook!InsertFails, DoErrorAlone
<1>6. CASE Hook!RestoreOnError(g)
  <2>1. pcOfDoError[g] = "restore" /\ copies = <<DoError>>
    BY <1>6 DEF Hook!RestoreOnError, DoErrorAlone
  <2>2. Len(copies) = 1 /\ copies[1] = DoError
    BY <2>1
  <2>3. OnError' = DoError /\ pcOfDoError' = [pcOfDoError EXCEPT ![g] = "idle"]
    BY <1>6, <2>2 DEF Hook!RestoreOnError, Hook!Return, Hook!Depth, Hook!Goto
  <2> QED
    BY <1>1, <2>1, <2>3 DEF DoErrorAlone
<1> QED
  BY <1>2, <1>3, <1>4, <1>5, <1>6 DEF Hook!Step

\* What one goroutine does is no one else's.
LEMMA OneGoroutineMoves ==
  ASSUME ResetInv, NEW g \in Goroutines, Hook!LogError(g) \/ Hook!Step(g)
  PROVE  /\ Logging(pcOfDoError') \subseteq Logging(pcOfDoError) \cup {g}
         /\ Hook!LogError(g) => g \in Logging(pcOfDoError')
BY DoErrorStep DEF HookFits, ResetInv, TypeOK, Hook!TypeOK, Hook!LogError, Hook!Goto, Logging

LEMMA OtherGoroutineKeeps == ASSUME ResetInv, OtherGoroutine PROVE ResetInv'
<1>1. PICK g \in Goroutines: Hook!LogError(g) \/ Hook!Step(g)
  BY DEF OtherGoroutine, Hook!Next
<1>2. /\ pc # "off" /\ NoteOverlap
      /\ UNCHANGED <<config, env, deleteAndCreateDb, bypassConfirmation, turn, provisioned, pc,
            exists,
                     tables, seeded, originalOnError, healthy, answered>>
  BY DEF OtherGoroutine, flags, loops, data
<1>3. Hook!TypeOK' /\ DoErrorsFit'
  BY <1>1, DoErrorStepFits DEF HookFits, ResetInv, TypeOK
<1>4. TypeOK'
  <2>1. overlapped' \in BOOLEAN
    BY <1>2 DEF NoteOverlap, ResetInv, TypeOK
  <2> QED
    BY <1>2, <1>3, <2>1 DEF ResetInv, TypeOK
<1>5. ConsentIsAsked'
  BY <1>2 DEF ResetInv, ConsentIsAsked
<1>6. HookIsHeldByOne'
  <2> SUFFICES ASSUME ~overlapped' PROVE HookIsHeldByOne'
    BY DEF HookIsHeldByOne
  <2>1. /\ ~overlapped /\ ~(Cardinality(Logging(pcOfDoError')) > 1)
        /\ Resetting(pc') => Logging(pcOfDoError') = {}
    BY <1>2 DEF NoteOverlap
  <2>2. /\ \A h, k \in Logging(pcOfDoError): h = k
        /\ Resetting(pc) => Logging(pcOfDoError) = {}
        /\ ~Resetting(pc) => /\ Logging(pcOfDoError) = {} => OnError = DoError
                             /\ \A h \in Logging(pcOfDoError): DoErrorAlone(h)
    BY <1>2, <2>1 DEF ResetInv, HookIsHeldByOne
  <2>3. /\ Logging(pcOfDoError') \subseteq Logging(pcOfDoError) \cup {g}
        /\ Hook!LogError(g) => g \in Logging(pcOfDoError')
    BY <1>1, OneGoroutineMoves
  <2>4. \A h, k \in Logging(pcOfDoError'): h = k
    <3>1. \E someone: Logging(pcOfDoError) \subseteq {someone}
      BY <2>2
    <3> QED
      BY <2>1, <2>3, <3>1, TwoOverlap
  <2>5. ~Resetting(pc) /\ (Logging(pcOfDoError') = {} => OnError' = DoError)
        /\ \A h \in Logging(pcOfDoError'): DoErrorAlone(h)'
    <3>1. CASE Hook!LogError(g)
      <4>1. pcOfDoError[g] = "idle" /\ UNCHANGED <<OnError, originalsOfDoError>>
            /\ pcOfDoError' = [pcOfDoError EXCEPT ![g] = "save"]
        BY <3>1 DEF Hook!LogError, Hook!Goto
      <4>2. Logging(pcOfDoError') = {g}
        BY <2>3, <2>4, <3>1
      <4>3. \A h \in Logging(pcOfDoError): h \in Logging(pcOfDoError') /\ h # g
        BY <4>1 DEF Logging, ResetInv, TypeOK, Hook!TypeOK
      <4>4. Logging(pcOfDoError) = {} /\ ~Resetting(pc)
        BY <1>2, <2>1, <4>2, <4>3
      <4>5. OnError' = DoError
        BY <2>2, <4>1, <4>4
      <4>6. originalsOfDoError'[g] = << >> /\ pcOfDoError'[g] = "save"
        BY <4>1, EmptySeq DEF ResetInv, TypeOK, Hook!TypeOK, DoErrorsFit, DoErrorFits
      <4> QED
        BY <4>2, <4>4, <4>5, <4>6 DEF DoErrorAlone
    <3>2. CASE Hook!Step(g)
      <4>1. g \in Logging(pcOfDoError)
        BY <3>2 DEF Logging, Hook!Step, Hook!SaveOnError, Hook!ClearOnError, Hook!Insert,
           Hook!InsertFails,
           Hook!RestoreOnError
      <4>2. ~Resetting(pc) /\ DoErrorAlone(g) /\ Logging(pcOfDoError') \subseteq {g}
        BY <2>2, <2>3, <4>1
      <4>3. (pcOfDoError'[g] = "idle" => OnError' = DoError) /\ DoErrorAlone(g)'
        BY <3>2, <4>2, AloneStaysAlone DEF HookFits, ResetInv, TypeOK
      <4> QED
        BY <4>2, <4>3 DEF Logging
    <3> QED
      BY <1>1, <3>1, <3>2
  <2>6. pc' # "clear" /\ pc' \notin Cleared
    BY <1>2, <2>5 DEF Resetting, Cleared
  <2> QED
    BY <1>2, <2>1, <2>4, <2>5, <2>6 DEF HookIsHeldByOne, Resetting
<1> QED
  BY <1>3, <1>4, <1>5, <1>6 DEF ResetInv

(***************************************************************************)
(* The invariant of the specification.                                     *)
(***************************************************************************)
LEMMA InitHook == ASSUME Hook!Init PROVE Hook!TypeOK /\ DoErrorsFit
<1> DEFINE all == UNION {[1 .. n -> {DoError, Nil}]: n \in 0 .. MaxDepth}
<1>1. << >> \in all
  BY CopiesFit, ConstantsAssumption
<1> HIDE DEF all
<1>2. originalsOfDoError \in [Goroutines -> all]
  BY <1>1 DEF Hook!Init
<1>3. DoErrorsFit
  BY ConstantsAssumption DEF Hook!Init, DoErrorsFit, DoErrorFits
<1> QED
  BY <1>2, <1>3 DEF Hook!Init, Hook!TypeOK, Hook!Values, all

LEMMA InitReset == ASSUME Init PROVE ResetInv
<1>1. DoErrorsFit
  BY InitHook DEF Init
<1>2. Hook!TypeOK
  BY InitHook DEF Init
<1>3. exists \in [Databases -> BOOLEAN] /\ tables \in [Databases -> Contents]
  BY DEF Init, Contents
<1>4. env \in Environments /\ turn \in Databases
  BY ConstantsAssumption DEF Init, Environments, Databases
<1>5. TypeOK
  BY <1>2, <1>3, <1>4 DEF Init, TypeOK
<1> QED
  BY <1>1, <1>5 DEF Init, ResetInv, ConsentIsAsked, HookIsHeldByOne, Deleting, Confirmed

LEMMA ResetStep == ASSUME ResetInv, [Next]_vars PROVE ResetInv'
<1>1. CASE \E e \in Environments: Run(e)
  BY <1>1, RunKeeps
<1>2. CASE \E right1, right2 \in BOOLEAN: Confirm(right1, right2)
  BY <1>2, ConfirmKeeps
<1>3. CASE Work
  <2>1. CASE DropDatabase \/ SharedUser \/ DropOracleUser
    BY <2>1, DropsFit, ConfirmedStepsKeep DEF ResetInv, DropDatabase, SharedUser, DropOracleUser
  <2>2. CASE CreateDatabase \/ CreateOracleUser
    BY <2>2, CreationsFit, ConfirmedStepsKeep DEF ResetInv, CreateDatabase, CreateOracleUser
  <2>3. CASE ExecuteScripts
    BY <2>3, ScriptsFit, ConfirmedStepsKeep DEF ResetInv, ExecuteScripts
  <2> QED
    BY <1>3, <2>1, <2>2, <2>3, SaveKeeps, ClearKeeps, ConnectKeeps, RestoreKeeps, EndsKeep DEF Work
<1>4. CASE UNCHANGED vars
  <2>1. UNCHANGED <<config, env, deleteAndCreateDb, bypassConfirmation, turn, provisioned, pc,
              exists,
                    tables, seeded, OnError, pcOfDoError, originalsOfDoError, originalOnError,
                          healthy,
                    answered, overlapped>>
    BY <1>4 DEF vars, flags, loops, data, hook
  <2>2. TypeOK'
    BY <2>1 DEF ResetInv, TypeOK, Hook!TypeOK
  <2> QED
    BY <2>1, <2>2 DEF ResetInv, DoErrorsFit, ConsentIsAsked, HookIsHeldByOne, Logging,
       Resetting, DoErrorAlone
<1> QED
  BY <1>1, <1>2, <1>3, <1>4, OtherGoroutineKeeps, EndsKeep, RecoverKeeps DEF Next

THEOREM ResetInvariant == Spec => []ResetInv
<1>1. Init => ResetInv
  BY InitReset
<1>2. ResetInv /\ [Next]_vars => ResetInv'
  BY ResetStep
<1> QED
  BY <1>1, <1>2, PTL DEF Spec

\* What Spec keeps to is of the types the variables are declared with: databases,
\* flags and the copies of log.OnError, each DoError's within its bound.
THEOREM TypeCorrect == Spec => []TypeOK
<1>1. ResetInv => TypeOK
  BY DEF ResetInv
<1> QED
  BY <1>1, ResetInvariant, PTL

\* Errors are kept out of error_log from the deletion to the last script, and reach it
\* again when the seed runs, unless a DoError held log.OnError at the same time.
THEOREM HookIsGivenBack == Spec => []HookFollowsTheReset
<1>1. ResetInv => HookFollowsTheReset
  BY DEF ResetInv, HookIsHeldByOne, HookFollowsTheReset, Cleared, Resetting
<1> QED
  BY <1>1, ResetInvariant, PTL

\* No step of any run changes a database before both keys were entered, unless the
\* environment is a development one and asks for none, and only a run in development
\* that was asked to delete takes a database away.
THEOREM DeletionNeedsConsent == Spec => NothingLostWithoutConsent
<1> DEFINE Consent ==
      /\ data' # data => answered \/ (env.isDev /\ env.bypass)
      /\ \A n \in Databases: exists[n] /\ ~exists'[n] => env.isDev /\ env.delete
<1>1. ResetInv /\ [Next]_vars => [Consent]_vars
  <2> SUFFICES ASSUME ResetInv, Next PROVE Consent
    OBVIOUS
  <2>1. \/ StaysConfirmed
        \/ pc = "seed" /\ exists' = exists
        \/ UNCHANGED data
    <3>1. CASE Work
      BY <3>1, DropsFit, CreationsFit, ScriptsFit
         DEF Work, Seed, ResetInv, SaveOnError, ClearOnError, Connect, RestoreOnError
    <3> QED
      BY <3>1 DEF Next, Run, Confirm, OtherGoroutine, Crash, Recover
  <2>2. UNCHANGED data \/ pc \in Confirmed
    BY <2>1 DEF StaysConfirmed, Confirmed
  <2>3. \A n \in Databases: exists[n] /\ ~exists'[n] => pc \in Deleting
    BY <2>1 DEF StaysConfirmed, data
  <2> QED
    BY <2>2, <2>3 DEF ResetInv, ConsentIsAsked
<1> QED
  BY <1>1, ResetInvariant, PTL DEF Spec, NothingLostWithoutConsent

(***************************************************************************)
(* What a seed, and a run that comes to it, can rely on.                   *)
(***************************************************************************)
\* When OnSeed runs, and as long as a seed that went through counts, every database
\* has all its tables: no failed script, shared user, or run that died in between
\* leaves one out.
SeededIsComplete ==
  (pc \in {"restore", "seed"} \/ seeded) => \A d \in Databases: tables[d] = "created"

\* The loop of the scripts starts at the first database, and leaves none out.
ScriptsGoInOrder ==
  /\ pc \in {"save", "clear", "confirm", "connect"} => turn = 1
  /\ pc = "scripts" => \A d \in Databases: d < turn => tables[d] = "created"

SeedInv == ScriptsGoInOrder /\ SeededIsComplete

LEMMA SeedStep == ASSUME TypeOK, SeedInv, [Next]_vars PROVE SeedInv'
<1> USE DEF SeedInv, ScriptsGoInOrder, SeededIsComplete
<1>1. N \in Nat \ {0} /\ turn \in Nat /\ turn >= 1 /\ turn <= N /\ seeded \in BOOLEAN
      /\ \A d \in Databases: d \in Nat /\ d >= 1 /\ d <= N
  BY ConstantsAssumption DEF TypeOK, Databases
<1>2. CASE \E e \in Environments: Run(e)
  BY <1>1, <1>2 DEF Run, data, Exit
<1>3. CASE SaveOnError \/ ClearOnError \/ Connect \/ RestoreOnError
  BY <1>1, <1>3 DEF SaveOnError, ClearOnError, Connect, RestoreOnError, data, loops, Exit
<1>4. CASE \E right1, right2 \in BOOLEAN: Confirm(right1, right2)
  BY <1>1, <1>4 DEF Confirm, Unless, Exit, data, loops
<1>5. CASE DropDatabase \/ SharedUser \/ DropOracleUser
  BY <1>1, <1>5 DEF DropDatabase, SharedUser, DropOracleUser, Drop, Advance, Exit, data
<1>6. CASE CreateDatabase \/ CreateOracleUser
  BY <1>1, <1>6 DEF CreateDatabase, CreateOracleUser, Advance, Exit
<1>7. CASE ExecuteScripts
  <2>1. pc = "scripts" /\ seeded' = FALSE
    BY <1>7 DEF ExecuteScripts
  <2>2. CASE tables' = [tables EXCEPT ![turn] = "created"] /\ Advance("restore")
    BY <1>1, <2>1, <2>2 DEF Advance, TypeOK
  <2>3. CASE pc' = "off"
    BY <2>1, <2>3
  <2>4. \/ tables' = [tables EXCEPT ![turn] = "created"] /\ Advance("restore")
        \/ pc' = "off"
    BY <1>7 DEF ExecuteScripts, Exit
  <2> QED
    BY <2>2, <2>3, <2>4
<1>8. CASE Seed \/ Crash \/ Recover
  BY <1>1, <1>8 DEF Seed, Crash, Recover, Exit, data, loops
<1>9. CASE OtherGoroutine \/ UNCHANGED vars
  BY <1>9 DEF OtherGoroutine, vars, data, loops
<1> QED
  BY <1>2, <1>3, <1>4, <1>5, <1>6, <1>7, <1>8, <1>9 DEF Next, Work

\* executeSeed after executeReset: a seed never runs over a database whose tables
\* were not created in order by the same run, and none that went through outlives
\* the tables it filled.
THEOREM SeedsAreComplete == Spec => []SeededIsComplete
<1>1. Init => SeedInv
  BY DEF Init, SeedInv, ScriptsGoInOrder, SeededIsComplete
<1>2. ResetInv /\ SeedInv /\ [Next]_vars => SeedInv'
  BY SeedStep DEF ResetInv
<1>3. SeedInv => SeededIsComplete
  BY DEF SeedInv
<1> QED
  BY <1>1, <1>2, <1>3, ResetInvariant, PTL DEF Spec
================================================================================
