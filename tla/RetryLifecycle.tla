-------------------------- MODULE RetryLifecycle --------------------------
(***************************************************************************)
(* What a client may rely on: the life of a declined transaction, with the *)
(* chain of attempts that decides it made in one step.                     *)
(***************************************************************************)
EXTENDS Integers

CONSTANTS Ids,          \* transactions
          MaxTries,     \* attempts a chain may make
          MayReport,    \* outcomes are reported from outside
          MayReset      \* test data is reset

VARIABLES status,       \* id -> what the store says of it
          tries         \* id -> attempts the store shows for it

lifeVars == <<status, tries>>

LifeInit == /\ status = [id \in Ids |-> "ABSENT"]
            /\ tries = [id \in Ids |-> 0]

Become(id, from, to) == status[id] \in from /\ status' = [status EXCEPT ![id] = to]

(* A hard decline is final. *)
DeclineHard(id) == Become(id, {"ABSENT"}, "HARD_DECLINED") /\ UNCHANGED tries

StartRetrying(id) == Become(id, {"ABSENT"}, "RETRYING") /\ UNCHANGED tries

(* The chain ends: a success ends it early, only the last failure exhausts it. *)
Resolve(id) ==
  \/ /\ Become(id, {"RETRYING"}, "RECOVERED")
     /\ \E n \in 1..MaxTries : tries' = [tries EXCEPT ![id] = n]
  \/ /\ Become(id, {"RETRYING"}, "EXHAUSTED")
     /\ tries' = [tries EXCEPT ![id] = MaxTries]

(* A success reported from outside; the attempts made are remembered. *)
RecoverOutside(id) ==
  MayReport /\ Become(id, {"RETRYING", "EXHAUSTED"}, "RECOVERED") /\ UNCHANGED tries

Forget == /\ MayReset
          /\ status' = [id \in Ids |-> "ABSENT"]
          /\ tries' = [id \in Ids |-> 0]

LifeNext == \/ \E id \in Ids : DeclineHard(id) \/ StartRetrying(id) \/ Resolve(id) \/ RecoverOutside(id)
            \/ Forget

LifeSpec == LifeInit /\ [][LifeNext]_lifeVars
=============================================================================
