------------------------------- MODULE JsonlFile --------------------------------
(***************************************************************************)
(* What JsonlResultStore (stores/jsonl.py) makes of a result, a sequence of  *)
(* JSON objects, on its way to disk and back.  A file is a sequence of lines: *)
(* one header with the identity, then one line per record.  A strict prefix   *)
(* of a line is not JSON, because every line is an object.                   *)
(***************************************************************************)
EXTENDS Naturals, Sequences

CONSTANTS
    Reparsed,   \* a record -> the one json.loads makes of its text
    Rejected,   \* the records record_validator answers False for
    Unreadable  \* sentinel: _read_file returns None

Header(meta) == [kind |-> "header", value |-> meta]
Record(rec) == [kind |-> "record", value |-> rec]
Blank == [kind |-> "blank"]
Torn == [kind |-> "torn"]

(* _write_file *)
WriteLines(meta, result) ==
    <<Header(meta)>> \o [i \in DOMAIN result |-> Record(result[i])]

(* _read_file: no line, no header or a line that is not JSON spoils the file;   *)
(* empty lines are skipped.  A second header would count as a record.          *)
ReadLines(lines) ==
    IF \/ lines = <<>> \/ Head(lines).kind # "header"
       \/ \E i \in DOMAIN lines : lines[i].kind = "torn"
    THEN Unreadable
    ELSE LET full == SelectSeq(Tail(lines), LAMBDA line : line.kind # "blank") IN
         [meta |-> Head(lines).value,
          result |-> [i \in DOMAIN full |-> IF full[i].kind = "record"
                                            THEN Reparsed[full[i].value]
                                            ELSE full[i].value]]

(* What an undamaged file reads back as, whatever its identity. *)
JsonlReadBack(result) == ReadLines(WriteLines("identity", result)).result

(* _validate_structure *)
JsonlRefused(result) == \E i \in DOMAIN result : result[i] \in Rejected

(* Outside damage: a line is lost, torn, emptied or repeated, or the tail is cut. *)
Edits(lines) ==
    UNION {{SubSeq(lines, 1, i - 1) \o middle \o SubSeq(lines, i + 1, Len(lines)),
            SubSeq(lines, 1, i - 1) \o middle} :
             i \in DOMAIN lines,
             middle \in {<<>>, <<Torn>>, <<Blank>>}}
      \cup {SubSeq(lines, 1, i) \o SubSeq(lines, i, Len(lines)) : i \in DOMAIN lines}
=============================================================================
