--------------------------- MODULE MCRecordBridge ---------------------------
(* RecordBridge with two clients that send three requests between them, two   *)
(* captures and traces of two chunks.                                         *)
EXTENDS RecordBridge
=============================================================================
