------------------------------ MODULE Storage ------------------------------
(***************************************************************************)
(* The two calls of hoppermc-storage that the file system makes, as the    *)
(* set of outcomes each may have.  A chunk has at most one row (its key is *)
(* the primary key) and a save is one upsert statement, so the database    *)
(* itself is a function from chunks to rows.                               *)
(***************************************************************************)
EXTENDS Anvil

CONSTANTS
  StorageMode,  \* "nostorage", "pg_raw" or "pg_jsonb"
  None,         \* no row, no payload
  Faults        \* what may go wrong: see FaultKind

FaultKind == {"load", "save", "commit", "encode", "generate", "coords", "crash"}

ASSUME StorageAssumption ==
  /\ StorageMode \in {"nostorage", "pg_raw", "pg_jsonb"}
  /\ None \notin Nbt
  /\ Faults \subseteq FaultKind

Row == Nbt \cup {None}

\* What the upsert leaves in the row.  The jsonb mode parses the payload
\* first and, when that fails, logs, writes nothing and still returns Ok;
\* what it does write has lost the width of every number.
Upserted(row, n) ==
  IF StorageMode = "pg_jsonb"
    THEN IF n.pos = NoPos THEN row ELSE [n EXCEPT !.exact = FALSE]
    ELSE n

\* Mutant: an error of the statement is logged, not returned.
SwallowingSave(row, n) ==
  {res \in [ok : {TRUE}, row : {row, Upserted(row, n)}] :
     res.row = Upserted(row, n) \/ "save" \in Faults}

\* An error leaves open whether the statement was applied: the connection
\* may break before the statement reaches the server ("save") or after it
\* committed ("commit").
save_chunk(row, n) ==
  {res \in [ok : BOOLEAN, row : {row, Upserted(row, n)}] :
     \/ res.ok /\ res.row = Upserted(row, n)
     \/ ~ res.ok /\ res.row = row /\ "save" \in Faults
     \/ ~ res.ok /\ res.row = Upserted(row, n) /\ "commit" \in Faults}

\* A row whose JSON cannot be encoded as NBT again is reported as absent.
load_chunk(row) ==
  {res \in [ok : BOOLEAN, found : {row, None}] :
     \/ res.ok /\ res.found = row
     \/ ~ res.ok /\ res.found = None /\ "load" \in Faults
     \/ res.ok /\ res.found = None /\ StorageMode = "pg_jsonb" /\ "encode" \in Faults}
=============================================================================
