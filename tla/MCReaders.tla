----------------------------- MODULE MCReaders -----------------------------
(* Small instances of the readers and the metrics for TLC. *)
EXTENDS MCRetry, RetryReaders

AmountOfTwo == "t1" :> 1 @@ "t2" :> 3
=============================================================================
