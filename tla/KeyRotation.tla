---------------------------- MODULE KeyRotation ----------------------------
(***************************************************************************)
(* scripts/token_store_rotate.py beside a server that may or may not run:  *)
(* copy the database, re-encrypt the copy row by row in one transaction,   *)
(* and put it in the place of the original, or drop it if a row failed.    *)
(* The script may be killed anywhere; its copy then stays behind unused.   *)
(***************************************************************************)
EXTENDS TokenDatabase

CONSTANT WrongKey  \* given as the old key by mistake: no row was ever under it

ASSUME KeyRotationAssumption == WrongKey \notin Keys

VARIABLES
  script,   \* "idle", "rows" or "committed"
  copy,     \* the temporary file
  work,     \* its rows as the script's transaction has them
  todo,     \* sessions whose rows are not yet re-encrypted
  failed,   \* some row did not decrypt under the old key
  keys,     \* [old, new]
  inForce,  \* history: the key that a completed rotation left behind
  late,     \* history: the sessions written since the copy was taken
  misused   \* history: a server was started with another key than that

scriptVars == <<script, copy, work, todo, failed, keys>>
vars == <<storeVars, scriptVars, inForce, late, misused>>

TypeOK ==
  /\ TokenDatabaseTypeOK
  /\ script \in {"idle", "rows", "committed"}
  /\ copy \in Files
  /\ work \in [Sessions -> Rows \cup {None}]
  /\ todo \subseteq {s \in Sessions : work[s] # None}
  /\ failed \in BOOLEAN
  /\ keys \in [old : Keys \cup {WrongKey}, new : Keys]
  /\ inForce \in Keys
  /\ late \subseteq Sessions
  /\ misused \in BOOLEAN

Init ==
  /\ TokenDatabaseInit
  /\ script = "idle"
  /\ copy = path
  /\ work = NoRows
  /\ todo = {}
  /\ failed = FALSE
  /\ inForce \in Keys
  /\ keys = [old |-> inForce, new |-> inForce]
  /\ late = {}
  /\ misused = FALSE

Start(k) ==
  /\ Open(k)
  /\ misused' = (misused \/ k # inForce)
  /\ UNCHANGED <<scriptVars, inForce, late>>

Written == {s \in Sessions : txn[s] # Same}

\* The server's own steps; the histories say where its commits end up.
Serve ==
  /\ \/ /\ Commit
        /\ late' = IF script = "idle" THEN late ELSE late \cup Written
     \/ /\ Write \/ Cancel \/ Close
        /\ UNCHANGED late
  /\ UNCHANGED <<scriptVars, inForce, misused>>

-----------------------------------------------------------------------------

\* The script ends, and its locals with it; a file without a name has no rows.
Finish(named) ==
  /\ script' = "idle"
  /\ copy' = named
  /\ work' = NoRows
  /\ todo' = {}
  /\ failed' = FALSE
  /\ keys' = [old |-> inForce', new |-> inForce']
  /\ late' = {}
  /\ path' = named
  /\ disk' = [f \in Files |-> IF f \in {named, conn} THEN disk[f]
                              ELSE NoRows]
  /\ UNCHANGED <<conn, key, txn, op, latest, own, misused>>

\* Mutant: the script works on the database itself.
CopyNothing(old, new) ==
  /\ script = "idle"
  /\ old # new
  /\ copy' = path
  /\ work' = disk[path]
  /\ todo' = {s \in Sessions : disk[path][s] # None}
  /\ failed' = FALSE
  /\ keys' = [old |-> old, new |-> new]
  /\ script' = "rows"
  /\ late' = {}
  /\ UNCHANGED <<storeVars, inForce, misused>>

\* Mutant: the script goes through all sessions, with and without a row.
CopyForAll(old, new) ==
  /\ script = "idle"
  /\ old # new
  /\ copy' \in Files \ {path, conn}
  /\ work' = disk[path]
  /\ todo' = Sessions
  /\ failed' = FALSE
  /\ keys' = [old |-> old, new |-> new]
  /\ script' = "rows"
  /\ late' = {}
  /\ UNCHANGED <<storeVars, inForce, misused>>

\* main refuses equal keys; _rotate copies into a new file and selects all rows.
Copy(old, new) ==
  /\ script = "idle"
  /\ old # new
  /\ copy' \in Files \ {path, conn}
  /\ work' = disk[path]
  /\ todo' = {s \in Sessions : disk[path][s] # None}
  /\ failed' = FALSE
  /\ keys' = [old |-> old, new |-> new]
  /\ script' = "rows"
  /\ late' = {}
  /\ UNCHANGED <<storeVars, inForce, misused>>

\* Re-encrypt one row; one that does not decrypt is counted and left.
RotateRow(s) ==
  /\ script = "rows"
  /\ s \in todo
  /\ todo' = todo \ {s}
  /\ IF work[s].key = keys.old
     THEN work' = [work EXCEPT ![s] = [key |-> keys.new, value |-> work[s].value]]
          /\ failed' = failed
     ELSE work' = work /\ failed' = TRUE
  /\ UNCHANGED <<storeVars, script, copy, keys, inForce, late, misused>>

CommitRows ==
  /\ script = "rows"
  /\ todo = {}
  /\ disk' = [disk EXCEPT ![copy] = work]
  /\ work' = NoRows
  /\ script' = "committed"
  /\ UNCHANGED <<path, conn, key, txn, op, latest, durable, own,
                 copy, todo, failed, keys, inForce, late, misused>>

\* Mutant: the copy takes the original's place although rows failed.
ReplaceAnyway ==
  /\ script = "committed"
  /\ inForce' = keys.new
  /\ durable' = durable \ late
  /\ Finish(copy)

\* tmp_path.replace(db_path); a server keeps the file it has open.
Replace ==
  /\ script = "committed"
  /\ ~failed
  /\ inForce' = keys.new
  /\ durable' = durable \ late
  /\ Finish(copy)

\* Rows failed, an exception, or the script is killed: the original stays.
GiveUp ==
  /\ script # "idle"
  /\ UNCHANGED <<inForce, durable>>
  /\ Finish(path)

Rotate ==
  \/ \E old \in Keys \cup {WrongKey}, new \in Keys : Copy(old, new)
  \/ \E s \in Sessions : RotateRow(s)
  \/ CommitRows \/ Replace \/ GiveUp

Next ==
  \/ \E k \in Keys : Start(k)
  \/ Serve
  \/ Rotate

Spec == Init /\ [][Next]_vars

-----------------------------------------------------------------------------

(***************************************************************************)
(* A save or delete that returned lasts: through restarts, crashes, writes *)
(* that raise and rotations, complete or not, the database at the path has *)
(* its result.  Lost are only the commits a running server makes after the *)
(* script took its copy, and only when that copy replaces the original.    *)
(***************************************************************************)
NothingLost ==
  \A s \in durable : ValueOf(disk[path][s]) = latest[s]

(***************************************************************************)
(* The database is under one key throughout, the one the last completed    *)
(* rotation left behind: no crash, no failed rotation and no server that   *)
(* runs meanwhile leaves rows under two.                                   *)
(***************************************************************************)
OneKey ==
  ~misused => \A s \in Sessions :
    disk[path][s] # None => disk[path][s].key = inForce

(***************************************************************************)
(* A rotation does not disturb the server that runs beside it: it reads    *)
(* back what it wrote, though the path names another file and another key. *)
(***************************************************************************)
ReadsItsWrites ==
  conn # None => \A s \in own : Get(s) = latest[s]
=============================================================================
