------------------------------ MODULE ParquetFile -------------------------------
(***************************************************************************)
(* What ParquetResultStore (stores/parquet.py) makes of a result, a pandas    *)
(* DataFrame, on its way to disk and back.  A frame is a sequence of columns; *)
(* a column is its name, what its cells are, and their values.  "optional     *)
(* ints" are Python integers and None in an object column: Arrow stores them  *)
(* as integers with nulls, and pandas reads those as floats with NaN.         *)
(***************************************************************************)
EXTENDS Naturals, Sequences

CONSTANT Expected   \* the names in expected_schema, or {} for None

CellTypes == {"ints", "optional ints", "floats", "texts", "flags", "dates"}

(* _table_for: the Arrow column of a pandas column. *)
ArrowType(cells) ==
    CASE cells \in {"ints", "optional ints"} -> "int64"
      [] cells = "floats" -> "double"
      [] cells = "texts" -> "string"
      [] cells = "flags" -> "bool"
      [] cells = "dates" -> "timestamp"
TableFor(frame) ==
    [i \in DOMAIN frame |-> [name |-> frame[i].name, data |-> frame[i].data,
                             type |-> ArrowType(frame[i].cells),
                             nulls |-> frame[i].cells = "optional ints"]]

(* Table.to_pandas *)
CellsOf(column) ==
    IF column.type = "int64" /\ column.nulls THEN "floats"
    ELSE CHOOSE cells \in CellTypes \ {"optional ints"} : ArrowType(cells) = column.type
ToPandas(table) ==
    [i \in DOMAIN table |-> [name |-> table[i].name, data |-> table[i].data,
                             cells |-> CellsOf(table[i])]]

ParquetReadBack(frame) == ToPandas(TableFor(frame))

(* _arrow_kind, for the types above. *)
ArrowKind(type) ==
    CASE type = "int64" -> "int"
      [] type = "double" -> "float"
      [] type = "string" -> "str"
      [] type = "bool" -> "bool"
      [] type = "timestamp" -> "temporal"

(* _table_schema_fp of the table of a frame, recorded by _commit_extra_meta and *)
(* compared by _validate_structure.                                            *)
SchemaFp(frame) ==
    LET table == TableFor(frame) IN
    [i \in DOMAIN table |-> <<table[i].name, ArrowKind(table[i].type)>>]

(* The columns are not those of expected_schema: commit raises, has() misses. *)
ParquetRefused(frame) ==
    Expected # {} /\ {frame[i].name : i \in DOMAIN frame} # Expected
=============================================================================
