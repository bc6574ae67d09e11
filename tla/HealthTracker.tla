--------------------------- MODULE HealthTracker ---------------------------
(***************************************************************************)
(* internal/health/tracker.go: RollingHealthTracker.                       *)
(*                                                                         *)
(* Every method runs under the tracker's mutex, so each is one step.  The  *)
(* slice of outcomes of a processor is kept as the multiset it is: only    *)
(* how many outcomes of each kind are in the window is ever read.  Time is *)
(* the tracker's nowFunc; timestamps come from the caller, so they may lie *)
(* in the past or in the future of that clock.                             *)
(***************************************************************************)
EXTENDS Integers, Functions

CONSTANTS Names,       \* processor names outcomes are recorded under
          Times,       \* timestamps an outcome may carry
          MaxTime,     \* bound on the clock
          Window,      \* defaultWindow
          MinSamples,  \* minSamplesForAssessment
          MaxRepeat    \* bound: equal outcomes one window holds, standalone use

ASSUME HealthAssumption ==
  /\ Times \subseteq Int
  /\ MaxTime \in Nat
  /\ Window \in Nat
  /\ MinSamples \in Nat \ {0}
  /\ MaxRepeat \in Nat

VARIABLES windows,     \* windows[p][o]: occurrences of outcome o in p's slice
          now          \* the clock

healthVars == <<windows, now>>

Outcomes == [ts : Times, success : BOOLEAN]
Outcome(success, ts) == [ts |-> ts, success |-> success]

HealthStates == {"HEALTHY", "DEGRADED", "DOWN"}

EmptyWindow == [o \in Outcomes |-> 0]

HealthInit == /\ windows = [p \in Names |-> EmptyWindow]
              /\ now = 0

-----------------------------------------------------------------------------
(* Writes *)

Cutoff == now - Window

(* Lazy pruning under the write lock: expired entries are dropped. *)
PruneBoundary(w) == [o \in Outcomes |-> IF o.ts <= Cutoff THEN 0 ELSE w[o]]  \* mutant: drops the boundary
PruneNever(w) == w                                                         \* mutant: never prunes
Prune(w) == [o \in Outcomes |-> IF o.ts < Cutoff THEN 0 ELSE w[o]]

Add(w, o) == [w EXCEPT ![o] = w[o] + 1]

RecordInverted(p, success, ts) ==   \* mutant: counts a success as a failure
  windows' = [windows EXCEPT ![p] = Prune(Add(windows[p], Outcome(~success, ts)))]
RecordOutcome(p, success, ts) ==
  windows' = [windows EXCEPT ![p] = Prune(Add(windows[p], Outcome(success, ts)))]

HealthResetNil == windows' = [p \in {} |-> EmptyWindow]   \* mutant: the map is not made again
HealthReset == windows' = [p \in Names |-> EmptyWindow]

Tick == /\ now < MaxTime
        /\ now' = now + 1
        /\ UNCHANGED windows

-----------------------------------------------------------------------------
(* Reads: getHealthLocked filters the slice again, and does not modify it. *)

InWindowUnfiltered(w) == w   \* mutant: reads rely on the pruning of writes
InWindow(w) == [o \in {x \in Outcomes : x.ts >= Cutoff} |-> w[o]]

Count(w, success) == SumFunctionOnSet(w, {o \in DOMAIN w : o.success = success})

(* The thresholds, 0.80 and 0.50, applied to failures / total. *)
StateOf(failures, total) ==
  IF total < MinSamples           THEN "HEALTHY"
  ELSE IF 5 * failures >= 4 * total THEN "DOWN"
  ELSE IF 2 * failures >= total     THEN "DEGRADED"
  ELSE "HEALTHY"

(* The snapshot; a failure rate is the pair <<failures, total>>, and stays
   zero while there are too few samples. *)
Snapshot(w) ==
  LET failures == Count(w, FALSE)
      total    == failures + Count(w, TRUE)
  IN  [state |-> StateOf(failures, total),
       total |-> total,
       rate  |-> IF total < MinSamples THEN <<0, 1>> ELSE <<failures, total>>]

GetHealth(p) == Snapshot(InWindow(windows[p]))

-----------------------------------------------------------------------------
(* The tracker on its own, its callers recording anything at any time. *)

Record(p, success, ts) ==
  /\ windows[p][Outcome(success, ts)] < MaxRepeat
  /\ RecordOutcome(p, success, ts)
  /\ UNCHANGED now

ForgetAll == HealthReset /\ UNCHANGED now

HealthNext == \/ \E p \in Names, success \in BOOLEAN, ts \in Times : Record(p, success, ts)
              \/ ForgetAll
              \/ Tick

HealthSpec == HealthInit /\ [][HealthNext]_healthVars

(* Time passes on its own. *)
HealthFairSpec == HealthSpec /\ WF_healthVars(Tick)

-----------------------------------------------------------------------------
(* Properties *)

(* Types: every slice is a multiset of outcomes and the clock is bounded. *)
HealthTypeOK == /\ windows \in [Names -> [Outcomes -> Nat]]
                /\ now \in 0..MaxTime

(* The tracker's lazily pruned slices implement a window that slides by
   itself (RecordOutcome, getHealthLocked): pruning only on writes and
   filtering on reads neither loses a fresh outcome nor revives an old one,
   and the state read is always the one due to the outcomes in the window. *)
View == [p \in Names |-> [o \in Outcomes |-> IF o.ts >= Cutoff THEN windows[p][o] ELSE 0]]
ShownState == [p \in Names |-> GetHealth(p).state]
Sliding == INSTANCE RollingWindow WITH view <- View, state <- ShownState
ImplementsRollingWindow == Sliding!Spec

(* RecordOutcome bounds memory: a slice that was just written holds nothing
   that had already left the window, whatever it held before. *)
WritePrunes ==
  [][\A p \in Names : windows'[p] # windows[p] =>
       \A o \in Outcomes : o.ts < Cutoff => windows'[p][o] = 0]_healthVars

(* Once there are enough samples to assess a processor, reporting a success
   for it never makes its state worse, although the write also prunes. *)
Rank(state) == CASE state = "HEALTHY" -> 0 [] state = "DEGRADED" -> 1 [] state = "DOWN" -> 2
SuccessNeverWorsens ==
  [][\A p \in Names, ts \in Times :
       (Record(p, TRUE, ts) /\ GetHealth(p).total >= MinSamples) =>
         Rank(GetHealth(p)'.state) <= Rank(GetHealth(p).state)]_healthVars

(* Natural recovery: a DOWN processor becomes HEALTHY by the passage of time
   alone, with no write and no reset to prune its slice. *)
RecoversByItself == \A p \in Names : GetHealth(p).state = "DOWN" ~> GetHealth(p).state = "HEALTHY"
=============================================================================
