--------------------------- MODULE RollingWindow ---------------------------
(***************************************************************************)
(* What the health tracker promises, without its data structure: at every  *)
(* instant the view of a processor holds exactly the outcomes reported for *)
(* it since the last reset whose timestamp is not older than the window.   *)
(* An outcome leaves the view the moment it becomes too old; no read and   *)
(* no write is needed for that.  The state it shows for a processor is the *)
(* one the documentation gives for the failure rate of that view.          *)
(***************************************************************************)
EXTENDS Integers, Functions

CONSTANTS Names,    \* processor names outcomes are recorded under
          Times,    \* timestamps an outcome may carry
          MaxTime,  \* bound on the clock
          Window,   \* length of the rolling window
          MinSamples \* outcomes it takes to assess a processor

VARIABLES view,     \* view[p][o]: how many times outcome o is in p's window
          state,    \* state[p]: the health shown for p
          now

Outcomes == [ts : Times, success : BOOLEAN]

Fresh(o, t) == o.ts >= t - Window

(* The percentages of the documentation: DOWN from 80, DEGRADED from 50, and
   HEALTHY below or with too few outcomes for the rate to mean anything. *)
Assessment(v) ==
  LET failed == SumFunctionOnSet(v, {o \in Outcomes : ~o.success})
      all    == SumFunctionOnSet(v, Outcomes)
      AtLeast(percent) == all >= MinSamples /\ 100 * failed >= percent * all
  IN  IF AtLeast(80) THEN "DOWN" ELSE IF AtLeast(50) THEN "DEGRADED" ELSE "HEALTHY"

Shown(v) == [p \in Names |-> Assessment(v[p])]

Init == /\ view = [p \in Names |-> [o \in Outcomes |-> 0]]
        /\ state = Shown(view)
        /\ now = 0

Record(p, o) == /\ view' = [view EXCEPT ![p][o] = IF Fresh(o, now) THEN @ + 1 ELSE @]
                /\ UNCHANGED now

Pass == /\ now < MaxTime
        /\ now' = now + 1
        /\ view' = [p \in Names |->
                      [o \in Outcomes |-> IF Fresh(o, now') THEN view[p][o] ELSE 0]]

Forget == /\ view' = [p \in Names |-> [o \in Outcomes |-> 0]]
          /\ UNCHANGED now

Next == /\ \/ \E p \in Names, o \in Outcomes : Record(p, o)
           \/ Pass
           \/ Forget
        /\ state' = Shown(view')

Spec == Init /\ [][Next]_<<view, state, now>>
=============================================================================
