---------------------------- MODULE MCParquetStore -----------------------------
(* ManifestStore with the results of ParquetResultStore: frames of one column. *)
EXTENDS MCManifestStore, ParquetFile

Frame(cells, data, name) == <<[name |-> name, cells |-> cells, data |-> data]>>

(* Frames that come back as they are. *)
PlainFrames == {Frame("ints", 1, "c"), Frame("ints", 2, "c")}
(* An integer column with a missing value comes back as floats, under another  *)
(* schema: it is never found again.  A frame without the expected column.       *)
OddFrames == {Frame("optional ints", 1, "c"), Frame("floats", 1, "c"), Frame("ints", 1, "d")}
ExpectC == {"c"}

FrameReadBack == [frame \in Results |-> ParquetReadBack(frame)]
FrameSchema == [frame \in Results |-> SchemaFp(frame)]
FrameSchemas == {SchemaFp(frame) : frame \in Results}
RefusedFrames == {frame \in Results : ParquetRefused(frame)}
=============================================================================
