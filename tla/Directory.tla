------------------------------- MODULE Directory -------------------------------
(***************************************************************************)
(* How rows get into the user, the organization and the role table of      *)
(* module/user_management: the creation handlers, the import of a CSV or   *)
(* XLSX file, and the edits that change a row's name.  A behaviour is      *)
(* about one of the tables.  The name of a user is its loginid; of an      *)
(* organization its code or name, of a role its nameid or name: the groups *)
(* declared validation-unique.                                             *)
(*                                                                         *)
(* A creation is a READ COMMITTED transaction that looks for the name and  *)
(* then inserts.  Users and roles are looked for in the source; for        *)
(* organizations it is dxlib's DoCreate and InsertReturningId that may     *)
(* look, and whether they do is not in the source: all cases are modelled. *)
(* So are a database with and one without a unique index on the name.      *)
(***************************************************************************)
EXTENDS Naturals, Sequences, FiniteSets

CONSTANTS
  Names,     \* loginids, and what they may be synced to
  Handlers,  \* creation handlers at work at the same time
  Importer,  \* the handler that imports the file
  MaxRows,   \* bound on the rows of the table
  FileRows,  \* the rows of the file
  Nothing

ASSUME DirectoryAssumption ==
  /\ Importer \notin Handlers
  /\ Nothing \notin Names \cup Handlers \cup {Importer}
  /\ MaxRows \in Nat \ {0} /\ FileRows \in Nat \ {0}

VARIABLES
  table,        \* the table this behaviour is about
  uniqueIndex,  \* does the database keep the names unique?
  looks,        \* which of "create" and "import" look for the name before they insert?
  file,         \* the names in the rows of the file
  rows,         \* the table, by id
  pending,      \* pending[a]: the row a has checked and is about to insert, or Nothing
  line,         \* the row of the file the importer is at; 0 when no import runs
  overtaken,    \* history: actors whose name got into the table since they looked
  clashed,      \* history: names written by an overtaken insert, one without a look, or an edit
  apart,        \* history: synced ids edited since without a word on loginid_sync_to
  completed,    \* history: an import has answered 200
  renamed       \* history: a row has lost a name that is in the file

directoryVars == <<table, uniqueIndex, looks, file, rows, pending, line,
                   overtaken, clashed, apart, completed, renamed>>
fixed == <<table, uniqueIndex, looks, file>>
directoryHistory == <<overtaken, clashed, apart, completed, renamed>>

Actors == Handlers \cup {Importer}
\* name: loginid; source: the column loginid_sync_to may name (email, phonenumber
\* or ldap_loginid); synced: does it name it?
Row == [name: Names, source: Names, synced: BOOLEAN]
Ids == DOMAIN rows

DirectoryTypeOK ==
  /\ table \in {"user", "organization", "role"}
  /\ uniqueIndex \in BOOLEAN
  /\ looks \subseteq {"create", "import"}
  /\ file \in [1 .. FileRows -> Names]
  /\ rows \in Seq(Row) /\ Len(rows) <= MaxRows
  /\ pending \in [Actors -> Row \cup {Nothing}]
  /\ line \in 0 .. FileRows + 1
  /\ overtaken \subseteq Actors /\ clashed \subseteq Names /\ apart \subseteq 1 .. MaxRows
  /\ {completed, renamed} \subseteq BOOLEAN

DirectoryInit ==
  /\ table \in {"user", "organization", "role"}
  /\ uniqueIndex \in BOOLEAN
  /\ looks \in IF table = "organization" THEN SUBSET {"create", "import"} ELSE {{"create", "import"}}
  /\ file \in [1 .. FileRows -> Names]
  /\ rows = << >>
  /\ pending = [a \in Actors |-> Nothing]
  /\ line = 0
  /\ overtaken = {} /\ clashed = {} /\ apart = {}
  /\ completed = FALSE /\ renamed = FALSE

Taken(n) == \E i \in Ids: rows[i].name = n
Plain(n) == [name |-> n, source |-> n, synced |-> FALSE]

\* The others that have looked for n and not inserted yet.
Waiting(a, n) == {b \in Actors \ {a}: pending[b] # Nothing /\ pending[b].name = n}

\* INSERT by actor a, which the unique index may refuse.
Insert(a, row) ==
  /\ Len(rows) < MaxRows
  /\ uniqueIndex => ~Taken(row.name)
  /\ rows' = Append(rows, row)
  /\ overtaken' = (overtaken \ {a}) \cup Waiting(a, row.name)
  /\ clashed' = IF a \in overtaken \/ pending[a] = Nothing THEN clashed \cup {row.name} ELSE clashed
  /\ UNCHANGED apart

----------------------------------------------------------------------------
\* Faulty variant: the loginid the request sent is looked for, not the synced one.
ReadLoginIdBeforeSync(r, n, s, sync) ==
  /\ table = "user" /\ pending[r] = Nothing
  /\ ~Taken(n)
  /\ pending' = [pending EXCEPT ![r] = [name |-> IF sync THEN s ELSE n, source |-> s,
        synced |-> sync]]
  /\ UNCHANGED <<fixed, rows, line, directoryHistory>>

\* UserCreate (never synced) and UserCreateV2: the loginid is computed, then
\* looked for in the transaction.
ReadLoginId(r, n, s, sync) ==
  LET loginid == IF sync THEN s ELSE n
  IN /\ table = "user" /\ pending[r] = Nothing
     /\ ~Taken(loginid)
     /\ pending' = [pending EXCEPT ![r] = [name |-> loginid, source |-> s, synced |-> sync]]
     /\ UNCHANGED <<fixed, rows, line, directoryHistory>>

\* RoleCreate, and DoCreate of an organization when it looks.
CheckValidationUnique(r, n) ==
  /\ table # "user" /\ "create" \in looks /\ pending[r] = Nothing
  /\ ~Taken(n)
  /\ pending' = [pending EXCEPT ![r] = Plain(n)]
  /\ UNCHANGED <<fixed, rows, line, directoryHistory>>

\* The row, and with a user the memberships and the password, are inserted and
\* committed together: nobody sees them before, so it is one step.
Create(r) ==
  /\ r \in Handlers /\ pending[r] # Nothing
  /\ Insert(r, pending[r])
  /\ pending' = [pending EXCEPT ![r] = Nothing]
  /\ UNCHANGED <<fixed, line, completed, renamed>>

\* A statement fails, or a callback where its error is not swallowed.
RollBackCreation(r) ==
  /\ r \in Handlers /\ pending[r] # Nothing
  /\ pending' = [pending EXCEPT ![r] = Nothing]
  /\ overtaken' = overtaken \ {r}
  /\ UNCHANGED <<fixed, rows, line, clashed, apart, completed, renamed>>

\* OrganizationCreate and OrganizationCreateByUid when DoCreate does not look.
CreateOrganization(r, n) ==
  /\ table = "organization" /\ "create" \notin looks /\ r \in Handlers
  /\ pending[r] = Nothing
  /\ Insert(r, Plain(n))
  /\ UNCHANGED <<fixed, pending, line, completed, renamed>>

----------------------------------------------------------------------------
\* UserCreateBulk and OrganizationCreateBulk: any number of tries of one file.
StartImport ==
  /\ table # "role" /\ line = 0 /\ ~completed
  /\ line' = 1
  /\ UNCHANGED <<fixed, rows, pending, directoryHistory>>

\* doUserCreate of the row at "line": its loginid is not in the table.
ImportLook ==
  /\ "import" \in looks
  /\ line \in 1 .. FileRows /\ pending[Importer] = Nothing
  /\ ~Taken(file[line])
  /\ pending' = [pending EXCEPT ![Importer] = Plain(file[line])]
  /\ UNCHANGED <<fixed, rows, line, directoryHistory>>

\* The insert of doUserCreate or doOrganizationCreate.  Each row is committed by
\* itself.
ImportInsert ==
  /\ line \in 1 .. FileRows
  /\ "import" \in looks => pending[Importer] # Nothing
  /\ Insert(Importer, Plain(file[line]))
  /\ pending' = [pending EXCEPT ![Importer] = Nothing]
  /\ line' = line + 1
  /\ UNCHANGED <<fixed, completed, renamed>>

\* Faulty variant: the row is passed over and the loop goes on.
ImportStopsNot ==
  /\ line \in 1 .. FileRows
  /\ line' = line + 1
  /\ pending' = [pending EXCEPT ![Importer] = Nothing]
  /\ overtaken' = overtaken \ {Importer}
  /\ UNCHANGED <<fixed, rows, clashed, apart, completed, renamed>>

\* The row is there already, a field is missing or malformed, the organization it
\* names is not found, or the database fails: the rows before it stay.
ImportStops ==
  /\ line \in 1 .. FileRows
  /\ line' = 0
  /\ pending' = [pending EXCEPT ![Importer] = Nothing]
  /\ overtaken' = overtaken \ {Importer}
  /\ UNCHANGED <<fixed, rows, clashed, apart, completed, renamed>>

ImportEnds ==
  /\ line = FileRows + 1
  /\ line' = 0
  /\ completed' = TRUE
  /\ UNCHANGED <<fixed, rows, pending, overtaken, clashed, apart, renamed>>

----------------------------------------------------------------------------
\* What a request to edit may ask for.  A column it does not name stays as it is, as
\* if the old value were given; only loginid_sync_to does more when it is named.
NewValues == [name: Names, source: Names, synced: BOOLEAN \cup {Nothing}]

Synced(old, new) == IF new.synced = Nothing THEN old.synced ELSE new.synced

\* Faulty variant: the column is taken from the row as it was before the update.
EditedFromOldRow(old, new) ==
  [name |-> IF new.synced = TRUE THEN old.source ELSE new.name,
   source |-> new.source, synced |-> Synced(old, new)]

\* DoUserEdit: update, read the row again, and when loginid_sync_to is among the
\* new values copy the column it names.
Edited(old, new) ==
  [name |-> IF new.synced = TRUE THEN new.source ELSE new.name,
   source |-> new.source, synced |-> Synced(old, new)]

\* The UPDATE comes first and locks the row, so the transaction is one step.  DoUserEdit
\* and OrganizationEdit do not look for the new name.  The other edits of dxlib may:
\* a look can be overtaken, so that only the index surely refuses a name.
Edit(i, new) ==
  /\ i \in Ids
  /\ table # "user" => new = Plain(new.name)
  /\ LET old == rows[i]
         row == Edited(old, new)
     IN /\ row # old
        /\ uniqueIndex => \A j \in Ids \ {i}: rows[j].name # row.name
        /\ rows' = [rows EXCEPT ![i] = row]
        /\ IF row.name = old.name
           THEN UNCHANGED <<overtaken, clashed, renamed>>
           ELSE /\ overtaken' = overtaken \cup Waiting(Nothing, row.name)
                /\ clashed' = clashed \cup {row.name}
                /\ renamed' = (renamed \/ \E k \in 1 .. FileRows: file[k] = old.name)
        /\ apart' = IF row.synced /\ new.synced = Nothing THEN apart \cup {i} ELSE apart \ {i}
  /\ UNCHANGED <<fixed, pending, line, completed>>

Import == StartImport \/ ImportLook \/ ImportInsert \/ ImportStops \/ ImportEnds

DirectoryNext ==
  \/ \E r \in Handlers:
       \/ \E n, s \in Names, sync \in BOOLEAN: ReadLoginId(r, n, s, sync)
       \/ \E n \in Names: CheckValidationUnique(r, n) \/ CreateOrganization(r, n)
       \/ Create(r) \/ RollBackCreation(r)
  \/ Import
  \/ \E i \in 1 .. MaxRows, new \in NewValues: Edit(i, new)

DirectorySpec == DirectoryInit /\ [][DirectoryNext]_directoryVars

(***************************************************************************)
(* Properties.                                                             *)
(***************************************************************************)
\* Two users, organizations or roles share a name only if one was inserted behind
\* the look of the other or without one, or an edit wrote it; with a unique index
\* never.
NamesClashOnlyByRaceOrEdit ==
  \A i, j \in Ids:
    i # j /\ rows[i].name = rows[j].name => ~uniqueIndex /\ rows[i].name \in clashed

\* A loginid that is synced to another column equals it, unless a later edit
\* changed one of them without naming loginid_sync_to again.
SyncedLoginIdFollows ==
  \A i \in Ids \ apart: rows[i].synced => rows[i].name = rows[i].source

\* An import answers 200 only when every row of the file is in the table, whatever
\* earlier tries of the file stopped at and whoever created, raced or edited: a row
\* that fails is never passed over.
ImportIsWhole ==
  completed /\ ~renamed => \A k \in 1 .. FileRows: Taken(file[k])
===============================================================================
