------------------------- MODULE KeyRotation_proofs -------------------------
(***************************************************************************)
(* Proofs about KeyRotation.  What the server reads and what the script    *)
(* copies are followed separately: the two meet only where a commit lands  *)
(* in a file that the script has copied, which is what "late" remembers.   *)
(***************************************************************************)
EXTENDS KeyRotation, TLAPS

\* Without a connection there is no operation and no transaction.
Connection ==
  /\ conn = None => txn = NoChange /\ op = None /\ own = {}
  /\ conn # None => key \in Keys
  /\ op # None => op \in own

\* The script's file is neither the one at the path nor the server's.
Apart == script # "idle" => copy # path /\ copy # conn

\* A session the server wrote is what the server wrote, under its key.
Owned ==
  conn # None => \A s \in own :
    Seen(s) = IF latest[s] = None THEN None ELSE [key |-> key, value |-> latest[s]]

\* The open transaction holds nothing that has been acknowledged.
Acknowledged == \A s \in durable : txn[s] = Same

\* But for the late sessions the copy has the values of the original.
CopyTrue ==
  \A s \in Sessions \ late :
    /\ script = "rows" => ValueOf(work[s]) = ValueOf(disk[path][s])
    /\ script = "committed" => ValueOf(disk[copy][s]) = ValueOf(disk[path][s])

\* The server writes under its key.
OwnKey ==
  /\ \A s \in Sessions : txn[s] \in Rows => txn[s].key = key
  /\ ~misused /\ conn = path => key = inForce

\* What the script is done with is under the new key, unless a row failed.
NewKey ==
  ~failed => \A s \in Sessions :
    /\ script = "rows" /\ work[s] # None /\ s \notin todo => work[s].key = keys.new
    /\ script = "committed" /\ disk[copy][s] # None => disk[copy][s].key = keys.new

Locals == Apart /\ CopyTrue /\ NewKey

IInv == TypeOK /\ Connection /\ Owned /\ Acknowledged /\ OwnKey /\ Locals
          /\ NothingLost /\ OneKey
LEMMA InitIInv == Init => IInv
<1> SUFFICES ASSUME Init PROVE IInv OBVIOUS
<1> USE TokenDatabaseAssumption, KeyRotationAssumption
<1> USE DEF Init, TokenDatabaseInit, NoChange, NoRows
<1>1. TypeOK
  BY DEF TypeOK, TokenDatabaseTypeOK
<1>2. Connection /\ Owned /\ Acknowledged /\ OwnKey
  BY DEF Connection, Owned, Acknowledged, OwnKey
<1>3. Locals
  BY DEF Locals, Apart, CopyTrue, NewKey
<1>4. NothingLost /\ OneKey
  BY DEF NothingLost, OneKey, ValueOf
<1> QED BY <1>1, <1>2, <1>3, <1>4 DEF IInv

\* What the server reads of its own session, decrypted or not.
LEMMA OwnedValue ==
  ASSUME IInv, conn # None, NEW s \in own
  PROVE  ValueOf(Seen(s)) = latest[s] /\ Get(s) = latest[s]
<1>1. CASE latest[s] = None
  BY <1>1 DEF IInv, Owned, ValueOf, Get, Decrypt
<1>2. CASE latest[s] # None
  <2>1. key \in Keys /\ latest[s] \in Values
    BY <1>2 DEF IInv, Connection, TypeOK, TokenDatabaseTypeOK
  <2> DEFINE row == [key |-> key, value |-> latest[s]]
  <2>2. row \in Rows /\ row.key = key /\ row.value = latest[s]
    BY <2>1 DEF Rows
  <2>3. Seen(s) = row
    BY <1>2 DEF IInv, Owned
  <2> HIDE DEF row
  <2>4. row # None
    BY <2>2, TokenDatabaseAssumption
  <2> QED BY <2>2, <2>3, <2>4 DEF ValueOf, Get, Decrypt
<1> QED BY <1>1, <1>2

-----------------------------------------------------------------------------
(* One lemma per action. *)

LEMMA StartIInv ==
  ASSUME IInv, NEW k \in Keys, Start(k)
  PROVE  IInv'
<1> USE TokenDatabaseAssumption DEF Start, Open, scriptVars
<1>1. TypeOK'
  BY DEF IInv, TypeOK, TokenDatabaseTypeOK
<1>2. Connection' /\ Owned' /\ Acknowledged'
  BY DEF IInv, Connection, Owned, Acknowledged, TypeOK, TokenDatabaseTypeOK
<1>3. OwnKey'
  BY DEF IInv, Connection, OwnKey, NoChange
<1>4. Locals'
  BY DEF IInv, Locals, Apart, CopyTrue, NewKey, ValueOf
<1>5. NothingLost' /\ OneKey'
  BY DEF IInv, NothingLost, OneKey, ValueOf
<1> QED BY <1>1, <1>2, <1>3, <1>4, <1>5 DEF IInv

LEMMA ExecuteIInv ==
  ASSUME IInv, NEW s \in Sessions, NEW row \in Rows \cup {None},
         row # None => row.key = key,
         Execute(s, row), UNCHANGED <<scriptVars, inForce, late, misused>>
  PROVE  IInv'
<1> USE TokenDatabaseAssumption DEF Execute, scriptVars
<1>1. TypeOK'
  BY DEF IInv, TypeOK, TokenDatabaseTypeOK, ValueOf, Rows
<1>2. Connection'
  BY DEF IInv, Connection
<1>3. Owned'
  <2> SUFFICES ASSUME conn' # None, NEW r \in own'
      PROVE  Seen(r)' = IF latest'[r] = None THEN None
                        ELSE [key |-> key', value |-> latest'[r]]
    BY DEF Owned
  <2>1. CASE r = s
    BY <2>1 DEF IInv, TypeOK, TokenDatabaseTypeOK, Seen, ValueOf, Rows
  <2>2. CASE r # s
    BY <2>2 DEF IInv, TypeOK, TokenDatabaseTypeOK, Owned, Seen
  <2> QED BY <2>1, <2>2
<1>4. Acknowledged'
  BY DEF IInv, TypeOK, TokenDatabaseTypeOK, Acknowledged
<1>5. OwnKey'
  BY DEF IInv, TypeOK, TokenDatabaseTypeOK, OwnKey
<1>6. Locals'
  BY DEF IInv, Locals, Apart, CopyTrue, NewKey, ValueOf
<1>7. NothingLost' /\ OneKey'
  BY DEF IInv, TypeOK, TokenDatabaseTypeOK, NothingLost, OneKey, ValueOf
<1> QED BY <1>1, <1>2, <1>3, <1>4, <1>5, <1>6, <1>7 DEF IInv

LEMMA CommitIInv ==
  ASSUME IInv, Commit,
         late' = IF script = "idle" THEN late ELSE late \cup Written,
         UNCHANGED <<scriptVars, inForce, misused>>
  PROVE  IInv'
<1> USE TokenDatabaseAssumption DEF Commit, scriptVars
<1>0. /\ op \in own /\ own \subseteq Sessions /\ conn \in Files
      /\ \A s \in Sessions : Seen(s) \in Rows \cup {None}
  BY DEF IInv, Connection, TypeOK, TokenDatabaseTypeOK, Seen
<1>1. TypeOK'
  BY <1>0 DEF IInv, TypeOK, TokenDatabaseTypeOK, NoChange, Written
<1>2. Connection'
  BY DEF IInv, Connection
<1>a. /\ disk'[conn] = [s \in Sessions |-> Seen(s)]
      /\ \A f \in Files \ {conn} : disk'[f] = disk[f]
      /\ \A s \in Sessions : txn'[s] = Same
  BY <1>0 DEF IInv, TypeOK, TokenDatabaseTypeOK, NoChange
<1>b. \A s \in Sessions : Seen(s)' = Seen(s)
  BY <1>a DEF Seen
<1>3. Owned'
  BY <1>b, <1>0 DEF IInv, Owned
<1>4. Acknowledged' /\ OwnKey'
  BY <1>a, <1>0 DEF IInv, TypeOK, TokenDatabaseTypeOK, Acknowledged, OwnKey
<1>c. \A s \in Sessions : txn[s] = Same => disk'[path][s] = disk[path][s]
  BY <1>a DEF IInv, TypeOK, TokenDatabaseTypeOK, Seen
<1>5. Locals'
  <2>1. Apart' BY DEF IInv, Locals, Apart
  <2>2. script # "idle" => disk'[copy] = disk[copy]
    BY <1>a DEF IInv, Locals, Apart, TypeOK
  <2>3. CopyTrue'
    BY <1>c, <2>2 DEF IInv, Locals, CopyTrue, ValueOf, Written
  <2>4. NewKey'
    BY <2>2 DEF IInv, Locals, NewKey
  <2> QED BY <2>1, <2>3, <2>4 DEF Locals
<1>6. NothingLost'
  <2> SUFFICES ASSUME NEW s \in durable'
      PROVE  ValueOf(disk'[path][s]) = latest[s]
    BY DEF NothingLost, ValueOf
  <2>1. CASE s \in durable
    BY <2>1, <1>c DEF IInv, TypeOK, TokenDatabaseTypeOK, NothingLost, Acknowledged, ValueOf
  <2>2. CASE s \notin durable
    <3>1. s = op /\ conn = path BY <2>2
    <3>2. disk'[path][s] = Seen(s) BY <3>1, <1>a, <1>0
    <3>3. ValueOf(Seen(s)) = latest[s]
      BY <3>1, <1>0, OwnedValue, TokenDatabaseAssumption
    <3> QED BY <3>1, <3>2, <3>3
  <2> QED BY <2>1, <2>2
<1>7. OneKey'
  <2> SUFFICES ASSUME ~misused, NEW s \in Sessions, disk'[path][s] # None
      PROVE  disk'[path][s].key = inForce
    BY DEF OneKey
  <2>1. CASE conn = path /\ txn[s] # Same
    BY <2>1, <1>a, <1>0 DEF IInv, OwnKey, Seen, TypeOK, TokenDatabaseTypeOK
  <2>2. CASE conn # path \/ txn[s] = Same
    <3>1. disk'[path][s] = disk[path][s]
      BY <2>2, <1>a, <1>c DEF IInv, TypeOK, TokenDatabaseTypeOK
    <3> QED BY <3>1 DEF IInv, OneKey
  <2> QED BY <2>1, <2>2
<1> QED BY <1>1, <1>2, <1>3, <1>4, <1>5, <1>6, <1>7 DEF IInv

LEMMA CancelIInv ==
  ASSUME IInv, Cancel, UNCHANGED <<scriptVars, inForce, late, misused>>
  PROVE  IInv'
<1> USE DEF Cancel, scriptVars
<1>1. TypeOK'
  BY DEF IInv, TypeOK, TokenDatabaseTypeOK
<1>2. Connection' /\ Owned' /\ Acknowledged' /\ OwnKey'
  BY DEF IInv, Connection, Owned, Seen, Acknowledged, OwnKey
<1>3. Locals'
  BY DEF IInv, Locals, Apart, CopyTrue, NewKey, ValueOf
<1>4. NothingLost' /\ OneKey'
  BY DEF IInv, NothingLost, OneKey, ValueOf
<1> QED BY <1>1, <1>2, <1>3, <1>4 DEF IInv

LEMMA CloseIInv ==
  ASSUME IInv, Close, UNCHANGED <<scriptVars, inForce, late, misused>>
  PROVE  IInv'
<1> USE TokenDatabaseAssumption DEF Close, scriptVars
<1>1. TypeOK'
  BY DEF IInv, TypeOK, TokenDatabaseTypeOK, NoChange, NoRows
<1>2. Connection' /\ Owned'
  BY DEF IInv, Connection, Owned
<1>3. Acknowledged' /\ OwnKey'
  BY DEF IInv, TypeOK, TokenDatabaseTypeOK, Acknowledged, OwnKey, NoChange
<1>a. disk'[path] = disk[path] /\ (script # "idle" => disk'[copy] = disk[copy])
  BY DEF IInv, TypeOK, TokenDatabaseTypeOK, Locals, Apart
<1>4. Locals'
  BY <1>a DEF IInv, TypeOK, TokenDatabaseTypeOK, Locals, Apart, CopyTrue, NewKey, ValueOf
<1>5. NothingLost' /\ OneKey'
  BY <1>a DEF IInv, NothingLost, OneKey, ValueOf
<1> QED BY <1>1, <1>2, <1>3, <1>4, <1>5 DEF IInv

LEMMA CopyIInv ==
  ASSUME IInv, NEW old \in Keys \cup {WrongKey}, NEW new \in Keys, Copy(old, new)
  PROVE  IInv'
<1> USE TokenDatabaseAssumption DEF Copy, storeVars
<1>1. TypeOK'
  BY DEF IInv, TypeOK, TokenDatabaseTypeOK
<1>2. Connection' /\ Owned' /\ Acknowledged' /\ OwnKey'
  BY DEF IInv, Connection, Owned, Seen, Acknowledged, OwnKey
<1>3. Locals'
  BY DEF IInv, TypeOK, TokenDatabaseTypeOK, Locals, Apart, CopyTrue, NewKey, ValueOf
<1>4. NothingLost' /\ OneKey'
  BY DEF IInv, NothingLost, OneKey, ValueOf
<1> QED BY <1>1, <1>2, <1>3, <1>4 DEF IInv

LEMMA RotateRowIInv ==
  ASSUME IInv, NEW s \in Sessions, RotateRow(s)
  PROVE  IInv'
<1> USE TokenDatabaseAssumption DEF RotateRow, storeVars
<1>0. /\ work[s] \in Rows
      /\ work' \in [Sessions -> Rows \cup {None}]
      /\ \A r \in Sessions \ {s} : work'[r] = work[r]
      /\ work'[s] \in Rows /\ work'[s].value = work[s].value
      /\ ~failed' => work'[s].key = keys.new
  BY DEF IInv, TypeOK, Rows
<1>1. TypeOK'
  BY <1>0 DEF IInv, TypeOK, TokenDatabaseTypeOK
<1>2. Connection' /\ Owned' /\ Acknowledged' /\ OwnKey'
  BY DEF IInv, Connection, Owned, Seen, Acknowledged, OwnKey
<1>3. Apart'
  BY DEF IInv, Locals, Apart
<1>4. CopyTrue'
  BY <1>0 DEF IInv, Locals, CopyTrue, ValueOf
<1>5. NewKey'
  BY <1>0 DEF IInv, TypeOK, Locals, NewKey
<1>6. NothingLost' /\ OneKey'
  BY DEF IInv, NothingLost, OneKey, ValueOf
<1> QED BY <1>1, <1>2, <1>3, <1>4, <1>5, <1>6 DEF IInv, Locals

LEMMA CommitRowsIInv ==
  ASSUME IInv, CommitRows
  PROVE  IInv'
<1> USE TokenDatabaseAssumption DEF CommitRows
<1>1. TypeOK'
  BY DEF IInv, TypeOK, TokenDatabaseTypeOK, NoRows
<1>a. /\ disk'[copy] = work
      /\ disk'[path] = disk[path]
      /\ conn # None => disk'[conn] = disk[conn]
  BY DEF IInv, TypeOK, TokenDatabaseTypeOK, Locals, Apart
<1>2. Connection' /\ Acknowledged' /\ OwnKey'
  BY DEF IInv, Connection, Acknowledged, OwnKey
<1>3. Owned'
  BY <1>a DEF IInv, Owned, Seen
<1>4. Locals'
  BY <1>a DEF IInv, Locals, Apart, CopyTrue, NewKey, ValueOf
<1>5. NothingLost' /\ OneKey'
  BY <1>a DEF IInv, NothingLost, OneKey, ValueOf
<1> QED BY <1>1, <1>2, <1>3, <1>4, <1>5 DEF IInv

LEMMA FinishIInv ==
  ASSUME IInv, NEW named \in {path, copy}, Finish(named),
         inForce' \in Keys, durable' \subseteq durable,
         named = path => inForce' = inForce,
         \A s \in durable' : ValueOf(disk[named][s]) = latest[s],
         ~misused => \A s \in Sessions :
           disk[named][s] # None => disk[named][s].key = inForce',
         named # path => conn # named
  PROVE  IInv'
<1> USE TokenDatabaseAssumption DEF Finish
<1>1. TypeOK'
  BY DEF IInv, TypeOK, TokenDatabaseTypeOK, NoRows
<1>a. /\ disk'[named] = disk[named]
      /\ conn # None => disk'[conn] = disk[conn]
  BY DEF IInv, TypeOK, TokenDatabaseTypeOK
<1>2. Connection' /\ Acknowledged'
  BY DEF IInv, Connection, Acknowledged
<1>3. Owned'
  BY <1>a DEF IInv, Owned, Seen
<1>4. OwnKey'
  BY DEF IInv, OwnKey
<1>5. Locals'
  BY DEF Locals, Apart, CopyTrue, NewKey
<1>6. NothingLost' /\ OneKey'
  BY <1>a DEF NothingLost, OneKey, ValueOf
<1> QED BY <1>1, <1>2, <1>3, <1>4, <1>5, <1>6 DEF IInv

LEMMA ReplaceIInv ==
  ASSUME IInv, Replace
  PROVE  IInv'
<1> USE DEF Replace
<1>1. copy # path /\ copy # conn
  BY DEF IInv, Locals, Apart
<1>2. \A s \in durable' : ValueOf(disk[copy][s]) = latest[s]
  BY DEF IInv, TypeOK, TokenDatabaseTypeOK, Locals, CopyTrue, NothingLost
<1>3. \A s \in Sessions : disk[copy][s] # None => disk[copy][s].key = inForce'
  BY DEF IInv, Locals, NewKey
<1>4. inForce' \in Keys
  BY DEF IInv, TypeOK
<1> QED BY <1>1, <1>2, <1>3, <1>4, FinishIInv

LEMMA GiveUpIInv ==
  ASSUME IInv, GiveUp
  PROVE  IInv'
<1> USE DEF GiveUp
<1>1. \A s \in durable' : ValueOf(disk[path][s]) = latest[s]
  BY DEF IInv, NothingLost
<1>2. ~misused => \A s \in Sessions :
        disk[path][s] # None => disk[path][s].key = inForce'
  BY DEF IInv, OneKey
<1>3. inForce' \in Keys
  BY DEF IInv, TypeOK
<1> QED BY <1>1, <1>2, <1>3, FinishIInv

LEMMA StutterIInv ==
  ASSUME IInv, UNCHANGED vars
  PROVE  IInv'
  BY DEF IInv, vars, storeVars, scriptVars, TypeOK, TokenDatabaseTypeOK, Connection,
         Owned, Seen, Acknowledged, OwnKey, Locals, Apart, CopyTrue, NewKey,
         NothingLost, OneKey, ValueOf

-----------------------------------------------------------------------------

LEMMA ServeIInv ==
  ASSUME IInv, Serve
  PROVE  IInv'
<1>1. CASE Commit /\ late' = (IF script = "idle" THEN late ELSE late \cup Written)
  BY <1>1, CommitIInv DEF Serve
<1>2. CASE Cancel /\ UNCHANGED late
  BY <1>2, CancelIInv DEF Serve
<1>3. CASE Close /\ UNCHANGED late
  BY <1>3, CloseIInv DEF Serve
<1>4. CASE Write /\ UNCHANGED late
  <2>1. PICK s \in Sessions : Delete(s) \/ \E v \in Values : Save(s, v)
    BY <1>4 DEF Write
  <2>2. CASE Delete(s)
    BY <1>4, <2>2, ExecuteIInv DEF Delete, Serve
  <2>3. CASE \E v \in Values : Save(s, v)
    <3>1. PICK v \in Values : Save(s, v) BY <2>3
    <3>2. key \in Keys BY <3>1 DEF IInv, Connection, Save, Execute
    <3> DEFINE row == [key |-> key, value |-> v]
    <3>3. row \in Rows /\ row.key = key BY <3>2 DEF Rows
    <3>4. Execute(s, row) BY <3>1 DEF Save
    <3> HIDE DEF row
    <3> QED BY <1>4, <3>3, <3>4, ExecuteIInv DEF Serve
  <2> QED BY <2>1, <2>2, <2>3
<1> QED BY <1>1, <1>2, <1>3, <1>4 DEF Serve

LEMMA NextIInv == IInv /\ [Next]_vars => IInv'
<1> SUFFICES ASSUME IInv, [Next]_vars PROVE IInv' OBVIOUS
<1>1. CASE \E k \in Keys : Start(k)
  BY <1>1, StartIInv
<1>2. CASE Serve
  BY <1>2, ServeIInv
<1>3. CASE \E old \in Keys \cup {WrongKey}, new \in Keys : Copy(old, new)
  BY <1>3, CopyIInv
<1>4. CASE \E s \in Sessions : RotateRow(s)
  BY <1>4, RotateRowIInv
<1>5. CASE CommitRows \/ Replace \/ GiveUp
  BY <1>5, CommitRowsIInv, ReplaceIInv, GiveUpIInv
<1>6. CASE UNCHANGED vars
  BY <1>6, StutterIInv
<1> QED BY <1>1, <1>2, <1>3, <1>4, <1>5, <1>6 DEF Next, Rotate

LEMMA Invariance == Spec => []IInv
  BY InitIInv, NextIInv, PTL DEF Spec

LEMMA OwnedIsRead == IInv => ReadsItsWrites
  BY OwnedValue DEF ReadsItsWrites

(***************************************************************************)
(* The variables of server and script have their types.                    *)
(***************************************************************************)
THEOREM TypeCorrect == Spec => []TypeOK
<1>1. IInv => TypeOK BY DEF IInv
<1> QED BY <1>1, Invariance, PTL

(***************************************************************************)
(* For any sessions, keys and files: acknowledged saves and deletes of     *)
(* auth/token_store.py last, through crashes and rotations, except commits *)
(* that land in the original while the script works on its copy.           *)
(***************************************************************************)
THEOREM NothingIsLost == Spec => []NothingLost
<1>1. IInv => NothingLost BY DEF IInv
<1> QED BY <1>1, Invariance, PTL

(***************************************************************************)
(* The database never holds rows under two keys if every server is started *)
(* with the key of the last completed rotation.                            *)
(***************************************************************************)
THEOREM UnderOneKey == Spec => []OneKey
<1>1. IInv => OneKey BY DEF IInv
<1> QED BY <1>1, Invariance, PTL

(***************************************************************************)
(* A server reads back its own writes whatever the script does beside it.  *)
(***************************************************************************)
THEOREM OwnWritesAreRead == Spec => []ReadsItsWrites
  BY Invariance, OwnedIsRead, PTL
=============================================================================
