--------------------------- MODULE MCIngestFlush ---------------------------
(***************************************************************************)
(* An instance of IngestFlush for TLC: three batches, two of them in the   *)
(* first of two partitions.                                                *)
(***************************************************************************)
EXTENDS IngestFlush

FirstHasTwo == [b \in Batches |-> IF b = 2 THEN 2 ELSE 1]

SurrealThenClickHouse == <<"surreal", "clickhouse">>
=============================================================================
