------------------------------- MODULE MCJobs -------------------------------
(* Small instances of the jobs for TLC: a batch of two events, and a call of
   the generator. *)
EXTENDS MCRetry, RetryJobs

TwoAndOne == "batch" :> <<"r1", "r2">> @@ "generator" :> <<"r3">>
=============================================================================
