--------------------------- MODULE TokenDatabase ---------------------------
(***************************************************************************)
(* SqliteTokenStore (auth/token_store.py) with the encryption of its rows  *)
(* (auth/encryption.py), in a server that starts, stops and crashes.       *)
(*                                                                         *)
(* A row is the tokens of a session under the key that encrypts them; with *)
(* another key it does not decrypt.  The server holds the file it opened,  *)
(* whatever the path names later; SQLite then refuses to begin a write.    *)
(* execute() writes into a transaction of the one connection, commit()     *)
(* writes that to the file; both are awaited, and the lock of the store    *)
(* lets one operation at a time do so.                                     *)
(***************************************************************************)
EXTENDS Naturals

CONSTANTS
  Sessions,  \* session ids
  Values,    \* what the tokens of a session can be
  Keys,      \* derived keys
  Files,     \* files on the disk
  None,      \* no row, no file, or no session
  Same       \* the transaction leaves the row as it is

Rows == [key : Keys, value : Values]

ASSUME TokenDatabaseAssumption ==
  /\ None \notin Rows \cup Keys \cup Files \cup Sessions \cup Values \cup {Same}
  /\ Same \notin Rows

VARIABLES
  disk,   \* per file and session the row, or None
  path,   \* the file at the path of the database
  conn,   \* the file the server has open, or None
  key,    \* the key the server was started with, or None
  txn,    \* per session the row in the open transaction, or Same
  op,     \* the session whose execute() awaits its commit(), or None
  latest, \* history: what the last save or delete of a session meant to leave
  durable, \* history: the sessions whose last save or delete returned and is to last
  own     \* history: the sessions written since the server started

storeVars == <<disk, path, conn, key, txn, op, latest, durable, own>>

NoRows == [s \in Sessions |-> None]
NoChange == [s \in Sessions |-> Same]

TokenDatabaseTypeOK ==
  /\ disk \in [Files -> [Sessions -> Rows \cup {None}]]
  /\ path \in Files
  /\ conn \in Files \cup {None}
  /\ key \in Keys \cup {None}
  /\ txn \in [Sessions -> Rows \cup {None, Same}]
  /\ op \in Sessions \cup {None}
  /\ latest \in [Sessions -> Values \cup {None}]
  /\ durable \subseteq Sessions
  /\ own \subseteq Sessions

TokenDatabaseInit ==
  /\ disk = [f \in Files |-> NoRows]
  /\ path \in Files
  /\ conn = None
  /\ key \in Keys \cup {None}
  /\ txn = NoChange
  /\ op = None
  /\ latest = [s \in Sessions |-> None]
  /\ durable = Sessions
  /\ own = {}

\* What the connection sees of a file, its own transaction included.
Seen(s) == IF txn[s] = Same THEN disk[conn][s] ELSE txn[s]

ValueOf(row) == IF row = None THEN None ELSE row.value

Decrypt(row, k) == IF row # None /\ row.key = k THEN row.value ELSE None

\* get: a row that does not decrypt counts as no tokens.
Get(s) == Decrypt(Seen(s), key)

-----------------------------------------------------------------------------

\* open()
Open(k) ==
  /\ conn = None
  /\ conn' = path
  /\ key' = k
  /\ UNCHANGED <<disk, path, txn, op, latest, durable, own>>

\* close(), or the process dies: SQLite rolls the open transaction back, and a
\* file that the path does not name is gone.
Close ==
  /\ conn # None
  /\ disk' = [disk EXCEPT ![conn] = IF conn = path THEN @ ELSE NoRows]
  /\ conn' = None
  /\ key' = None
  /\ own' = {}
  /\ txn' = NoChange
  /\ op' = None
  /\ UNCHANGED <<path, latest, durable>>

Writable == conn = path \/ txn # NoChange

(***************************************************************************)
(* A statement that touches a row begins the write, which raises when the  *)
(* file is no longer the one at the path; a delete of no row touches none. *)
(***************************************************************************)
Execute(s, row) ==
  /\ conn # None
  /\ op = None
  /\ \/ row = None /\ Seen(s) = None /\ txn' = txn
     \/ /\ ~(row = None /\ Seen(s) = None)
        /\ Writable
        /\ txn' = [txn EXCEPT ![s] = row]
  /\ op' = s
  /\ latest' = [latest EXCEPT ![s] = ValueOf(row)]
  /\ durable' = durable \ {s}
  /\ own' = own \cup {s}
  /\ UNCHANGED <<disk, path, conn, key>>

Save(s, v) == Execute(s, [key |-> key, value |-> v])

Delete(s) == Execute(s, None)

\* Mutant: the operation returns without a commit.
ReturnUncommitted ==
  /\ op # None
  /\ op' = None
  /\ durable' = IF conn = path THEN durable \cup {op} ELSE durable
  /\ UNCHANGED <<disk, path, conn, key, txn, latest, own>>

\* commit(), with all the transaction holds, and the operation returns.
Commit ==
  /\ op # None
  /\ disk' = [disk EXCEPT ![conn] = [s \in Sessions |-> Seen(s)]]
  /\ txn' = NoChange
  /\ op' = None
  /\ durable' = IF conn = path THEN durable \cup {op} ELSE durable
  /\ UNCHANGED <<path, conn, key, latest, own>>

\* The call is cancelled before its commit: the transaction stays open.
Cancel ==
  /\ op # None
  /\ op' = None
  /\ UNCHANGED <<disk, path, conn, key, txn, latest, durable, own>>

Write == \E s \in Sessions : Delete(s) \/ \E v \in Values : Save(s, v)
=============================================================================
