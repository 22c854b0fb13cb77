-------------------------------- MODULE Tables --------------------------------
(***************************************************************************)
(* The tables a plugin writes, as one function from keys to values, and    *)
(* the statements of a transaction.  A key is a tuple that starts with the *)
(* name of its table.  A table whose only key is its serial id accepts the *)
(* same row any number of times: its value is how often the row is there.  *)
(***************************************************************************)
EXTENDS Integers, Sequences, FiniteSets, TLC, SequencesExt

Row(k, v) == [k |-> k, v |-> v]
Keys(rows) == {rows[i].k : i \in DOMAIN rows}
Rows(S) == FoldSet(LAMBDA x, a : Append(a, x), <<>>, S)
NoRows == <<>>

Insert(rows) == [op |-> "insert", rows |-> rows]   \* a duplicate key fails
Upsert(rows) == [op |-> "upsert", rows |-> rows]   \* ON CONFLICT DO UPDATE
Ignore(rows) == [op |-> "ignore", rows |-> rows]   \* ON CONFLICT DO NOTHING
AddTo(rows) == [op |-> "add", rows |-> rows]       \* ON CONFLICT old + new
Serial(rows) == [op |-> "serial", rows |-> rows]   \* no key but the id
Merge(rows) == [op |-> "merge", rows |-> rows]     \* ReplacingMergeTree
Become(d) == [op |-> "become", new |-> d]          \* statements that read
Delete(ks) == [op |-> "delete", keys |-> ks]
Require(ks) == [op |-> "require", keys |-> ks]     \* fails if one is missing

(* The rows of f and those of g that f does not have. *)
Over(f, g) == [k \in DOMAIN f \cup DOMAIN g |-> IF k \in DOMAIN f THEN f[k] ELSE g[k]]

(* External: what a statement makes of the tables d, as the set of the      *)
(* possible results, empty when the database refuses it.  One INSERT that  *)
(* names a key twice is refused with DO UPDATE, not with DO NOTHING.  A    *)
(* ReplacingMergeTree keeps one row of each sorting key; where rows are    *)
(* merged here, the ones of a key are equal.  Become stands for a sequence *)
(* of statements whose effect was computed from the tables they found.     *)
Exec(d, st) ==
    LET ks == Keys(st.rows)
        once == Cardinality(ks) = Len(st.rows)
        at(k) == {i \in DOMAIN st.rows : st.rows[i].k = k}
        first(k) == st.rows[CHOOSE i \in at(k) : \A j \in at(k) : i <= j].v
        old(k) == IF k \in DOMAIN d THEN d[k] ELSE 0
        new == [k \in ks |-> first(k)]
    IN  CASE st.op = "insert" ->
                IF once /\ ks \cap DOMAIN d = {} THEN {Over(d, new)} ELSE {}
          [] st.op = "upsert" -> IF once THEN {Over(new, d)} ELSE {}
          [] st.op = "ignore" -> {Over(d, new)}
          [] st.op = "add" ->
                IF once THEN {Over([k \in ks |-> old(k) + new[k]], d)} ELSE {}
          [] st.op = "serial" ->
                {Over([k \in ks |-> old(k) + Cardinality(at(k))], d)}
          [] st.op = "merge" -> {Over(new, d)}
          [] st.op = "become" -> {st.new}
          [] st.op = "delete" -> {[k \in DOMAIN d \ st.keys |-> d[k]]}
          [] st.op = "require" -> IF st.keys \subseteq DOMAIN d THEN {d} ELSE {}

(* External: a transaction, the statements one after the other or none. *)
Run(d, stmts) ==
    FoldLeft(LAMBDA ds, st : UNION {Exec(x, st) : x \in ds}, {d}, stmts)
=============================================================================
