----------------------------- MODULE Classifier -----------------------------
(***************************************************************************)
(* The vocabulary of the domain (internal/domain/enums.go) and the static  *)
(* rule table of the classifier (internal/classifier/classifier.go).       *)
(* The explanatory text that goes with every rule is left out.             *)
(***************************************************************************)

HardCodes == {"INSUFFICIENT_FUNDS", "CARD_EXPIRED", "INVALID_CARD", "FRAUD_SUSPECTED"}

ImmediateCodes   == {"PROCESSOR_TIMEOUT", "NETWORK_ERROR"}
AlternativeCodes == {"ISSUER_UNAVAILABLE", "DO_NOT_HONOR"}
DelayedCodes     == {"RATE_LIMIT_EXCEEDED"}

DeclineTypes == {"HARD_DECLINE", "SOFT_DECLINE"}
Strategies   == {"DO_NOT_RETRY", "IMMEDIATE", "DELAYED", "ALTERNATIVE_PROCESSOR"}

(* No transaction ever is PENDING: the code declares that status and never
   assigns it. *)
Statuses == {"HARD_DECLINED", "RETRYING", "RECOVERED", "EXHAUSTED"}

Hard           == [declineType |-> "HARD_DECLINE", strategy |-> "DO_NOT_RETRY"]
Soft(strategy) == [declineType |-> "SOFT_DECLINE", strategy |-> strategy]

(* The rule table. *)
Rules == [code \in HardCodes \cup ImmediateCodes \cup AlternativeCodes \cup DelayedCodes |->
            IF code \in ImmediateCodes   THEN Soft("IMMEDIATE")
       ELSE IF code \in AlternativeCodes THEN Soft("ALTERNATIVE_PROCESSOR")
       ELSE IF code \in DelayedCodes     THEN Soft("DELAYED")
       ELSE Hard]

(* Classify: a code without a rule is, as a fail-safe, a hard decline. *)
Classify(code) == IF code \in DOMAIN Rules THEN Rules[code] ELSE Hard

IsHard(code) == Classify(code).declineType = "HARD_DECLINE"
=============================================================================
